\* Two-pass quantization with strips of four rows, two scanlines per call; ordered dither
\* for the first passes, a map of two passes for the last.  Run with -continue: the code
\* violates both.
CONSTANTS
  Images <- FourRowStrips
  Jobs <- NoJobs
  Sessions <- OrderedFirst
  HistMax = 3
  MaxPasses = 1
SPECIFICATION RowsSpec
INVARIANTS NoRowPastBottom OrderedKept

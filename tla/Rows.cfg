\* Every buffering mode of both directions, at the image sizes where their edges meet.
CONSTANTS
  Images <- AllImages
  Jobs <- AllJobs
  Sessions <- AllSessions
  HistMax = 3
  MaxPasses = 2
SPECIFICATION RowsSpec
INVARIANTS WithinBounds LinesRight RowsKeepComing MCUsRight ColormapRight PixelsRight

\* A file of two noninterleaved scans, displayed with a target scan ahead of the
\* input.
CONSTANTS
  Images <- NonInterleaved
  Methods = {"ISLOW"}
  MaxTables = 1
  MaxTarget = 2
SPECIFICATION Spec
INVARIANT NoDataZeroed
CHECK_DEADLOCK FALSE

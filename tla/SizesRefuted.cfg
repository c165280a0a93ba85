\* Components that share a quantization table, and one a sample wide.  Run with
\* -continue: the code violates both.
CONSTANTS
  Images <- Narrow
  Components <- SharedTable
  BlockSizes <- DctSize
  Scales <- MCScales
  Outputs <- Full
  DctMethods <- AllMethods
  Requests <- MCRequests
  TransformScales <- Full
  TransformBlockSizes <- DctSize
SPECIFICATION TSpec
INVARIANTS DivisorsFit SmoothedHasColumns
CHECK_DEADLOCK FALSE

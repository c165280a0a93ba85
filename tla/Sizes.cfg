SPECIFICATION TSpec
CONSTANTS
  Images <- MCImages
  Components <- MCComponents
  BlockSizes <- MCBlockSizes
  Scales <- MCScales
  Outputs <- MCOutputs
  DctMethods <- Accurate
  Requests <- MCRequests
  TransformScales <- MCTransformScales
  TransformBlockSizes <- MCTransformBlockSizes
INVARIANTS
  IntegralFactorsWork
  BuffersFit
  TransformRight
CHECK_DEADLOCK FALSE

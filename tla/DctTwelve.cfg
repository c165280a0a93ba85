SPECIFICATION Spec
CONSTANTS
  Forward <- RowsOfTwelve
  Inverse <- NoSizes
  Samples <- MCSamples
  Grey <- MCGrey
  Quants <- OnlyOne
  Levels <- MCLevels
INVARIANTS
  ForwardIsTheDct
CHECK_DEADLOCK FALSE

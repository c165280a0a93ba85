SPECIFICATION Spec
CONSTANTS
  Forward <- SoundForward
  Inverse <- AllSizes
  Samples <- MCSamples
  Grey <- MCGrey
  Quants <- MCQuants
  Levels <- MCLevels
INVARIANTS
  ForwardIsTheDct
  InverseIsTheDct
  BlockSurvives
CHECK_DEADLOCK FALSE

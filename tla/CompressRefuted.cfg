\* A scaled image from raw data, and a multi-scan sequential image in small blocks,
\* each twice.  Run with -continue: the code violates both.
CONSTANTS
  DCTSIZE = 3
  MAX_COMPS_IN_SCAN = 2
  Settings <- Refuting
  Images <- Sizes
  LineCounts = {1, 5}
  MaxImages = 2
SPECIFICATION Spec
INVARIANTS DoneMeansCompressed LegalScriptAccepted

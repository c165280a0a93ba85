\* Two images of each kind, with everything that may happen between and within.
CONSTANTS
  DCTSIZE = 3
  MAX_COMPS_IN_SCAN = 2
  Settings <- Usual
  Images <- Sizes
  LineCounts = {1, 5}
  MaxImages = 2
SPECIFICATION Spec
INVARIANTS StaysConsistent ReaderInStep ImageComplete DoneMeansCompressed

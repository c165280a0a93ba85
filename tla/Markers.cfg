\* Valid, damaged and truncated files, byte by byte, one after another.
CONSTANTS
  Files <- AllFiles
  Requests <- Saving
  MaxFake = 40
  DCTSIZE2 = 2
  NUM_ARITH_TBLS = 2
  Prefetch = 3
SPECIFICATION Spec
INVARIANTS ReadAsSent RestartsRecovered
PROPERTY Ends
CHECK_DEADLOCK FALSE

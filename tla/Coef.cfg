\* Every way of reading and of emitting coefficients, with dummy blocks at both
\* edges, two dct_methods and tables redefined between scans.
CONSTANTS
  Images <- AllImages
  Methods = {"ISLOW", "IFAST"}
  MaxTables = 3
  MaxTarget = 3
SPECIFICATION Spec
INVARIANTS WithinBounds ScanStored OutputRight SmoothingRight TableRight
CHECK_DEADLOCK FALSE

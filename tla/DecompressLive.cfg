\* Every call returns, and the end of the datastream is reached, in all modes.
CONSTANTS
  Streams <- ShortStreams
  Rows = 1
  MaxScanArg = 3
  RepeatsCall = TRUE
  BufferedModes = {TRUE, FALSE}
  TwoPassModes = {TRUE, FALSE}
  RawModes = {FALSE}
  SmoothModes = {FALSE}
SPECIFICATION FairSpec
PROPERTIES EveryCallReturns FinishTerminates

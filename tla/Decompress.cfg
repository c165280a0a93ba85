\* Decoding, in buffered-image mode or not, and transcoding of every kind of
\* datastream, one image after another, with errors, aborts and calls in the
\* wrong state; target scans below, at and above the scans there are.
CONSTANTS
  Streams <- AllStreams
  Rows = 2
  MaxScanArg = 3
  RepeatsCall = TRUE
  BufferedModes = {TRUE, FALSE}
  TwoPassModes = {TRUE, FALSE}
  RawModes = {TRUE, FALSE}
  SmoothModes = {TRUE, FALSE}
SPECIFICATION Spec
INVARIANTS StartsAfresh OutputFromCompleteData ShownAtLeastTarget
PROPERTY TrailerRead

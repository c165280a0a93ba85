\* Buffered-image mode as in Decompress, but a suspended jpeg_start_output is repeated with the
\* scan number of the moment, as the loop of libjpeg.txt is written.
CONSTANTS
  Streams <- ShortStreams
  Rows = 2
  MaxScanArg = 2
  RepeatsCall = FALSE
  BufferedModes = {TRUE}
  TwoPassModes = {TRUE}
  RawModes = {FALSE}
  SmoothModes = {FALSE}
SPECIFICATION Spec
PROPERTY FinalPassInSync

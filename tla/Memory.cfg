\* A four-row array with a two-row window of two allocation chunks: the window
\* moves both ways and is cut short at either end; rows are pre-zeroed.  Pools and
\* several arrays next to it.
CONSTANTS
  RowsInArray = 4
  MaxAccess = 2
  MaxMinheights = 1
  ChunkLimit = 1
  PreZero = TRUE
  Value = {z, a}
  Zero = z
  Unwritten = unwritten
  Clients <- AllClients
SPECIFICATION MemorySpec
INVARIANTS TypeOK AccessesServed NoRowLost PoolsSound
PROPERTIES AbsSpec MemoryShared

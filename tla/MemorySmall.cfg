\* The limit counts small objects as well as large ones.
CONSTANTS
  RowsInArray = 4
  MaxAccess = 2
  MaxMinheights = 1
  ChunkLimit = 1
  PreZero = TRUE
  Value = {z, a}
  Zero = z
  Unwritten = unwritten
  Clients <- AllClients
SPECIFICATION MemorySpec
PROPERTY SmallObjectsIgnored

\* Engine with pending blocks, two indexed contracts, pages never split.
CONSTANTS
  c1 = c1
  c2 = c2
  u = u
  None = None
  Contracts <- MC_Contracts
  Indexed <- MC_IndexedBoth
  TxShapes <- MC_ShapesMixed
  MaxBlocks = 3
  MaxTxs = 3
  MaxTxPerBlock = 2
  EventsChunk = 8
  BlocksChunk = 1
  WorldBlock = 0
  PendingBlocks = TRUE
SPECIFICATION Spec
INVARIANTS
  TypeOK
  NoEventLost
  NoEventProcessedTwice
PROPERTIES
  CatchUp
  IndexerSpec

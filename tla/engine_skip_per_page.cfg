\* The skip to the contract cursor restarts on every page, dropping a continuation page without it.
CONSTANTS
  c1 = c1
  c2 = c2
  u = u
  None = None
  Contracts <- MC_Contracts
  Indexed <- MC_IndexedOne
  TxShapes <- MC_ShapesSingle
  MaxBlocks = 2
  MaxTxs = 2
  MaxTxPerBlock = 1
  EventsChunk = 1
  BlocksChunk = 2
  WorldBlock = 0
  PendingBlocks = TRUE
SPECIFICATION Spec
INVARIANT NoEventLost

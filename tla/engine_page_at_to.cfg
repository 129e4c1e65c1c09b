\* A page that ends at block 'to' stops the continuation; later events of that block are never fetched.
CONSTANTS
  c1 = c1
  c2 = c2
  u = u
  None = None
  Contracts <- MC_Contracts
  Indexed <- MC_IndexedOne
  TxShapes <- MC_ShapesSingle
  MaxBlocks = 2
  MaxTxs = 2
  MaxTxPerBlock = 2
  EventsChunk = 1
  BlocksChunk = 1
  WorldBlock = 0
  PendingBlocks = FALSE
SPECIFICATION Spec
INVARIANT NoEventLost

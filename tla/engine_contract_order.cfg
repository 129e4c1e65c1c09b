\* Grouping by first insertion over per-contract pages reorders one contract's transactions in a block.
CONSTANTS
  c1 = c1
  c2 = c2
  u = u
  None = None
  Contracts <- MC_Contracts
  Indexed <- MC_IndexedBoth
  TxShapes <- MC_ShapesOrder
  MaxBlocks = 1
  MaxTxs = 2
  MaxTxPerBlock = 2
  EventsChunk = 8
  BlocksChunk = 1
  WorldBlock = 0
  PendingBlocks = FALSE
SPECIFICATION Spec
INVARIANT ContractOrder

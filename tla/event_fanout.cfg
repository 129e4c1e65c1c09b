\* Two clients, channel of one, three events; c2 may never poll its stream.
CONSTANTS
  c1 = c1
  c2 = c2
  i1 = i1
  j1 = j1
  Clients <- MC_Clients
  IdsOf <- MC_IdsOf
  Readers <- MC_OneReader
  Cap = 1
  MaxEvents = 3
SPECIFICATION Spec
INVARIANTS
  TypeOK
  GapFreeDelivery
PROPERTIES
  PublisherProgress
  BrokerSpec

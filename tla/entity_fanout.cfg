\* Two clients, channel of one, two updates, one clause update each.
CONSTANTS
  c1 = c1
  c2 = c2
  i1 = i1
  i2 = i2
  j1 = j1
  Clients <- MC_Clients
  IdsOf <- MC_IdsOf
  Cap = 1
  MaxUpdates = 2
  MaxClauseUpdates = 1
SPECIFICATION Spec
INVARIANTS
  TypeOK
  NoMissedUpdate
PROPERTIES
  BrokerSpec

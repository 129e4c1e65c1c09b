\* Two ticks of world events, three concurrent tasks, one transient error.
CONSTANTS
  m1 = m1
  m2 = m2
  e1 = e1
  e2 = e2
  v1 = v1
  v2 = v2
  a1 = a1
  a2 = a2
  Nil = Nil
  Models <- MC_Models
  Entities <- MC_Entities
  Vals <- MC_Vals
  Addrs <- MC_Addrs
  Ticks <- MC_Ticks
  IndexedModels = {m1}
  Namespaced = TRUE
  MaxConcurrent = 3
  MaxFailures = 1
SPECIFICATION Spec
INVARIANTS
  TypeOK
  SequentialResult

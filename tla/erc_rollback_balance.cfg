\* Two new tokens in one tick; a failed registration rolls the tick back.
CONSTANTS
  t1 = t1
  t2 = t2
  t3 = t3
  t4 = t4
  a = a
  b = b
  z = z
  None = None
  Zero = z
  Tokens <- MC_Tokens
  NftTokens = {}
  InitialMalformed = {}
  NftPermits = 1
  UriShapes <- MC_UriShapes
  InitialUri <- MC_NoUri
  MaxUriChanges = 0
  MaxUpgrades = 0
  Holders <- MC_Holders
  Ticks <- MC_TicksTwoTokens
  MaxConcurrent = 2
  MaxFailures = 1
SPECIFICATION Spec
INVARIANT BalancesMatchTransfers

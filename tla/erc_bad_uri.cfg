\* The NFT t2's token URI does not decode, and no contract changes a URI: the first tick fails on every retry.
CONSTANTS
  t1 = t1
  t2 = t2
  t3 = t3
  t4 = t4
  a = a
  b = b
  z = z
  None = None
  Zero = z
  Tokens <- MC_Tokens
  NftTokens <- MC_NftBad
  InitialMalformed = {}
  NftPermits = 1
  UriShapes <- MC_UriShapes
  InitialUri <- MC_UriBad
  MaxUriChanges = 0
  MaxUpgrades = 0
  Holders <- MC_Holders
  Ticks <- MC_TicksBadUri
  MaxConcurrent = 2
  MaxFailures = 1
SPECIFICATION Spec
PROPERTY AllTicksCommitted

\* A tick with a task that may fail holds no other task that marks a token or moves a balance;
\* five ticks with NFT registrations and metadata updates under one permit, then a mint of a token whose metadata does not parse; up to three failed batch calls, one URI change and one class replacement.
CONSTANTS
  t1 = t1
  t2 = t2
  t3 = t3
  t4 = t4
  a = a
  b = b
  z = z
  None = None
  Zero = z
  Tokens <- MC_TokensNft
  NftTokens <- MC_Nfts
  InitialMalformed <- MC_Malformed
  NftPermits = 1
  UriShapes <- MC_UriShapes
  InitialUri <- MC_UriSequential
  MaxUriChanges = 1
  MaxUpgrades = 1
  Holders <- MC_Holders
  Ticks <- MC_TicksSequential
  MaxConcurrent = 2
  MaxFailures = 3
SPECIFICATION Spec
INVARIANTS
  TypeOK
  RegisteredBeforeBalance
  BalancesMatchTransfers
PROPERTIES
  TicksCommitted

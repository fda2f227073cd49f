CONSTANTS
  c1 = c1  c2 = c2  c3 = c3
  N = 2
  Clients <- ThreeClients
  LOGIN_ATTEMPTS = 2
SPECIFICATION FairSpec
INVARIANTS TypeOK PermitBacked OneOwner FlagsTruthful
PROPERTIES PoolRefined AcquireServed

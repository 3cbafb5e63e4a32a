SPECIFICATION FairSpec
CONSTANTS
  Deployment <- Deployments
  StrategyOf <- Strategies
  TokenProgram = {"spl_token"}
  Volatile <- VolatileKeys
  Shared <- SharedKeys
  MaxVer = 1
INVARIANTS SnapshotCoherent PrefetchCoversSameSource
PROPERTIES CommitsFresh CatchesUp

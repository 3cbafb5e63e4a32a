SPECIFICATION Spec
CONSTANTS
  Deployment <- Deployments
  StrategyOf <- Strategies
  TokenProgram = {"spl_token", "token_2022"}
  Volatile <- VolatileKeys
  Shared <- SharedKeys
  MaxVer = 1
INVARIANT DocAtaRederived

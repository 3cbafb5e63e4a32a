SPECIFICATION Spec
CONSTANTS
  MaxU64 = 31
  AmmInfos <- Infos
  Balances = {5, 12, 31}
  Requests <- AllAmounts
INVARIANTS QuotesOneSnapshot RecoversFully ProductNeverShrinks UsableIsInterval PricingRequirements ExactInNeverPanics

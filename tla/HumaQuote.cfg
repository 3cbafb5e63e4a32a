SPECIFICATION Spec
CONSTANTS
  MaxU64 = 127
  HundredPct = 10
  Day = 4
  MaxStaleness = 5
  Pools <- SnapshotPools
  Amounts = {0, 1, 2, 5, 8, 13, 27}
  Accrue <- MCAccrue
INVARIANTS LoopNeverUnderflows FeeIsProgressive PayoutCovered MonotonicOutput PriceNonIncreasing PriceBracketsChord NoRoundTripGain

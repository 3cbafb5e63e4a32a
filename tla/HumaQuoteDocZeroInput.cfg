SPECIFICATION Spec
CONSTANTS
  MaxU64 = 127
  HundredPct = 10
  Day = 4
  MaxStaleness = 5
  Pools <- SnapshotPools
  Amounts = {0, 1, 2, 3, 5, 8, 13, 16, 20, 27}
  Accrue <- MCAccrue
INVARIANT DocZeroInput

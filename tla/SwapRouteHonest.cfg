SPECIFICATION Spec
CONSTANTS
  A = A
  B = B
  N = N
  Mint <- Mints3
  NativeMint = N
  WeightAll = 2
  MaxMints = 3
  MaxSwaps = 3
  BitmapSize = 16
  HonestVenues = TRUE
  Supply = 5
  Instructions <- Routes
  InitialBanks <- Banks
INVARIANTS TypeOK HonestNeverBlamed
PROPERTIES UserPaysExactly WsolRestored AtasTidied

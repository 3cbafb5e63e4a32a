SPECIFICATION Spec
CONSTANTS
  A = A
  B = B
  N = N
  Mint <- Mints2
  NativeMint = N
  WeightAll = 2
  MaxMints = 3
  MaxSwaps = 3
  BitmapSize = 16
  HonestVenues = FALSE
  Supply = 2
  Instructions <- RogueRoutes
  InitialBanks <- RogueBanks
PROPERTIES ReservesKept KeepsCustody OutputForwarded UserPaysAtMost

SPECIFICATION FairSpec
CONSTANTS
  MaxU64 = 31
  Tolerance = 2
  Pools <- AllPools
  QuoteAt <- MCQuoteAt
INVARIANTS TypeOK SearchInvariant EndpointsQuote NearMaximal MissesOnlyNarrow
PROPERTIES Narrows Terminates
CHECK_DEADLOCK FALSE

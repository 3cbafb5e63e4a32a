\* One route per behaviour, which ends.
CHECK_DEADLOCK FALSE
SPECIFICATION Spec
CONSTANTS
  Routes <- AllRoutes
  Amounts = {0, 7, 300}
  Token2022 = {"pst"}
INVARIANTS
  BuiltRouteRuns
  CpiIsVenueSwap
  SpendsMeasuredSlot

CONSTANTS
  S1 = S1
  S2 = S2
  N1 = N1
  TripStops <- MC_TripStops
  MaxV = 9
  MaxBoard = 1
  HasController = FALSE
  TimePoints = {}
  HoldTimes = {}
  MaxTick = 40
  Path <- MC_PathAdjacentStops
  Elapsed = 10
SPECIFICATION Spec
INVARIANT ServiceAtStandingStop

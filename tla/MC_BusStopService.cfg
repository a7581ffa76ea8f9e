CONSTANTS
  S1 = S1
  S2 = S2
  N1 = N1
  Path <- MC_Path
  TripStops <- MC_TripStops
  MaxV = 9
  Elapsed = 10
  MaxBoard = 1
  HasController = FALSE
  TimePoints = {}
  HoldTimes = {}
  MaxTick = 40
SPECIFICATION Spec
INVARIANTS TypeOK ServiceAtStandingStop EveryStopServedOnce
PROPERTY DwellHonoured

CONSTANTS
  MaxInside = 4
  InsideKinds <- MC_InsideKinds
  MaxNearby = 2
  NearbyKinds <- MC_NearbyKinds
SPECIFICATION Spec

PROPERTY ExchangeTerminates

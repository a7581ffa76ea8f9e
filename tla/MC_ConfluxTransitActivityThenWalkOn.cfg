CONSTANTS
  p1 = p1
  p2 = p2
  p3 = p3
  X = X
  Y = Y
  Loader = Loader
  NoCfx = NoCfx
  Person <- MC_Person
  Conflux <- MC_Conflux
  Chains <- MC_ChainsActivityThenWalkOn
  Gran = 2
  GranPersonTicks = 1
  MaxFrame = 7
SPECIFICATION Spec
INVARIANT PersonPlacedOnce

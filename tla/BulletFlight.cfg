CONSTANTS
  XMax = 23
  YMax = 18
  Margin = 2
  Size = 6
  Modulus = 32
  LifeTime = 22
  Places <- SmallPlaces
  Walls <- SmallWalls
SPECIFICATION FlightFairSpec
INVARIANTS FlightInv BouncesUnlessCorner
PROPERTY StraightComesBack
CHECK_DEADLOCK FALSE

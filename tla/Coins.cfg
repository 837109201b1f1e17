CONSTANTS
  a = a
  b = b
  Away = Away
  Tanks = 2
  Kinds = 3
  Value <- MCValue
  Spot = {a, b}
  Home <- MCHome
  Quiet = 1
  MaxWrites = 2
  MaxResets = 1
SPECIFICATION CoinFairSpec
INVARIANT CoinTypeOK
PROPERTIES EveryCoinPaidOnce PaidWhereSeen ParkedTankCollects

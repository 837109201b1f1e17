CONSTANTS
  Full = 2
  Alive = 3
  Win = 5
  Word = 9
  Bullets = 2
  MaxHits = 3
  MaxGears = 2
  MaxResets = 1
SPECIFICATION FairSpec
INVARIANTS TypeOK FirstGameIsFair
PROPERTIES DeadDoNotSteer LoserWasDead DeathIsShown

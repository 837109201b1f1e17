CONSTANTS
  t1 = t1
  t2 = t2
  Tank = {t1}
  N = 3
  Period = 4
  Life = 15
SPECIFICATION FairSpec
INVARIANTS TypeOK HoleIsFree
PROPERTIES ImplementsGun BulletsEnd

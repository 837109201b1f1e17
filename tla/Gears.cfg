CONSTANTS
  t1 = t1
  t2 = t2
  Tank = {t1, t2}
  Width = 5
  Far = 2
  Default = 2
  Home <- MCHome
  PowerUp = {FALSE, TRUE}
  MaxResets = 1
SPECIFICATION FairSpec
INVARIANT GearsInv
PROPERTIES OnlyTakenGearsGo GearComesBack

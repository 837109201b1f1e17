CONSTANTS
  t1 = t1
  t2 = t2
  Tank = {t1}
  Start <- MCStart
  Size = 2
  XLast = 8
  YLast = 6
  Modulus = 16
  DoubleBelow = 2
  MaxSpeed = 3
  Layouts <- OneLayouts
  MaxResets = 1
SPECIFICATION FairSpec
INVARIANTS TypeOK InField ClearBeforeReset
PROPERTIES NoTunnelling RunsAground

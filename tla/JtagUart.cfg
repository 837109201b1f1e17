CONSTANTS
  Period = 2
  Wrap = 4
  BootTicks = 1
  BUF_LEN = 3
  RX_LEN = 2
  WDepth = 1
  WThreshold = 0
  RDepth = 1
  RThreshold = 0
  Timeout = 2
  INT_MAX = 4
  MaxCount = 2
SPECIFICATION FairSpec
INVARIANTS TypeOK NeverForgotten MeasuresSilence
PROPERTIES ImplementsPipe WriteReturns

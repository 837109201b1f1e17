CONSTANTS
  kbd = kbd
  mouse = mouse
  Device = {kbd, mouse}
  Low <- MCLow
  Kind <- MCKind
  NumDevices = 3
SPECIFICATION Spec
INVARIANT CleanWhenDetached

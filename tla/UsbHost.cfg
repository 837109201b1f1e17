CONSTANTS
  kbd = kbd
  mouse = mouse
  Device = {kbd, mouse}
  Low <- MCLow
  Kind <- MCKind
  NumDevices = 3
SPECIFICATION FairSpec
INVARIANTS HostInv ServesTheDevice
PROPERTIES PluggedIsServed UnpluggedIsNoticed

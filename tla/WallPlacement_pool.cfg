CONSTANTS
  Unit = 32
  Width = 640
  Height = 480
  NCoins = 3
  NGears = 2
  Default <- GameDefault
  Spots <- GameSpots
  Starts <- GameStarts
  BackUps <- GameBackUps
  Before <- GameBefore
  MaxTaken = 1
SPECIFICATION Spec
INVARIANTS BackUpsSuffice
CHECK_DEADLOCK FALSE

SPECIFICATION StreamFairSpec
CONSTANTS
  MaxKept = 2
  MaxNals = 2
  MaxFrames = 3
CHECK_DEADLOCK FALSE
PROPERTIES KillswitchStops

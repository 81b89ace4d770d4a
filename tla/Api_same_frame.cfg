SPECIFICATION ApiSpec
CONSTANTS
  MaxPublic = 2
  MaxInternal = 0
INVARIANTS SameFrameInPass

SPECIFICATION ApiSpec
CONSTANTS
  MaxPublic = 1
  MaxInternal = 0
PROPERTIES UnusedCameraStaysClosed

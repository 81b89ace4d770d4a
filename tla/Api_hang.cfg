SPECIFICATION ApiFairSpec
CONSTANTS
  MaxPublic = 1
  MaxInternal = 0
PROPERTIES StopCompletes

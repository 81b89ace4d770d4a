SPECIFICATION LoaderSpec
CONSTANTS
  Dir <- MCDir
  NoDir = "none"
  Lib <- MCLib
  Stripped <- MCStripped
  Initial <- MCInitial
  System = "system"
  User = "user"
  MaxChanges = 1
  MaxHandles = 0
CHECK_DEADLOCK FALSE
INVARIANTS MonitorKnowsDirectory

SPECIFICATION CameraSpec
CONSTANTS
  Device <- MCDevice
  Table <- MCTable
  Grants <- MCGrants
  BufferCount = 3
  Default = 2
  Asked <- MCAsked
  MaxUsers = 3
CHECK_DEADLOCK FALSE
INVARIANTS CopyOwnsData

SPECIFICATION MCSpec
CONSTANTS
  Device <- MCDevice
  Table <- MCTable
  Grants <- MCGrants
  BufferCount = 3
  Default = 2
  Asked <- MCAsked
  MaxUsers = 3
  Widths <- MCSizes
  Heights <- MCSizes
  Factors <- MCFactors
  Unit <- MCUnit
  Wanted <- MCWanted
  Modifier <- MCModifier
  CameraFormat = "YUYV"
  Converters <- MCConverters
  PeriodValue <- MCPeriodValue
  MaxGrabbed = 2
  OwnName <- MCOwnName
  LongName <- MCLongName
  Text <- MCText
  LongText <- MCLongText
  Limit <- MCLimit
  SetValue <- MCSetValue
  ProducesResult = TRUE
  SceneId <- MCSceneId
  NodeModule <- MCNodeModule
  MaxNode = 4
  MaxStamp = 1
  Dir <- MCDir
  NoDir = "none"
  Lib <- MCLib
  Stripped <- MCStripped
  Initial <- MCInitial
  System = "system"
  User = "user"
  MaxChanges = 3
  MaxHandles = 1
  Loadable <- MCLoadable
  HasResult <- MCLoadable
  Callback <- MCCallback
  NoCallback = "none"
CHECK_DEADLOCK FALSE
INVARIANTS NoBufferLost ImageFits OpenIsNotStopped UsersHaveCamera
  RequestedIsGiven EveryByteOnce  ConversionCurrent
  WrapperParametersStand DefaultReachesModules SceneIsPath
  NodesAreShared NoModuleLost GoneIsUnlisted ChangesAreTold
PROPERTIES FrameReachesAll

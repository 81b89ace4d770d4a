SPECIFICATION PassSpec
CONSTANTS
  Unit <- MCUnit
  Wanted <- MCWanted
  Modifier <- MCModifier
  CameraFormat = "YUYV"
  Converters <- MCConverters
  PeriodValue <- MCPeriodValue
  MaxGrabbed = 2
CHECK_DEADLOCK FALSE
INVARIANTS PeriodRespected

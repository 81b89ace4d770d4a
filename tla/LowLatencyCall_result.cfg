SPECIFICATION Spec
CONSTANTS
  app = app  callback = callback  o1 = o1  o2 = o2  o3 = o3
  Client <- OneClient
  Op <- TwoOps
  TV_OK = TV_OK
  TV_RESULT_BUFFERED = TV_RESULT_BUFFERED
  NoOp = NoOp
  Grains = 1
INVARIANTS ResultAvailable

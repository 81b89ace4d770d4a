SPECIFICATION MCFairSpec
CONSTANTS
  app = app  callback = callback  o1 = o1  o2 = o2  o3 = o3
  Client <- TwoClients
  Op <- ThreeOps
  TV_OK = TV_OK
  TV_RESULT_BUFFERED = TV_RESULT_BUFFERED
  NoOp = NoOp
  Grains = 2
  t1 = t1  t2 = t2  i1 = i1
  NoThread = NoThread
  NoId = NoId
  MaxKept = 2
  MaxNals = 2
  MaxFrames = 3
INVARIANTS TypeOK OneOperation FlagHasOneOwner QueueIsBounded UrlTells
PROPERTIES CallReturns QuitReturns Progress StopReturns RemovableLeaves
  SentInOrder StopEnds

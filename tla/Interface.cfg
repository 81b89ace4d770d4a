SPECIFICATION MCSpec
CONSTANTS
  t1 = t1  t2 = t2  t3 = t3  i1 = i1  i2 = i2
  Thread <- ThreeThreads
  Id <- TwoIds
  NoThread = NoThread
  NoId = NoId
  MaxListed = 2
  MaxPublic = 1
  MaxInternal = 1
SYMMETRY Symmetry
INVARIANTS TypeOK InterruptExclusion RunsOnLive
  ApiTypeOK OneLoop RemovableRunsOnce PassesOnLoaded
PROPERTIES StableDuringPass ImplementsModuleTable ImplementsLifecycle

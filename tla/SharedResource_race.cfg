SPECIFICATION Spec
CONSTANTS
  t1 = t1  t2 = t2  t3 = t3  i1 = i1  i2 = i2
  Thread <- TwoThreads
  Id <- TwoIds
  NoThread = NoThread
  NoId = NoId
  MaxListed = 2
INVARIANTS WritesAreExclusive

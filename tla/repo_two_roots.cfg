SPECIFICATION FairSpec
CONSTANTS
  h1 = h1
  h2 = h2
  t1 = t1
  t2 = t2
  id0 = id0
  id1 = id1
  id2 = id2
  w1 = w1
  w2 = w2
  Requests <- OneRequest
  Id <- OneId
  RootCount <- TwoRoots
  Class <- ClassOf
  Careless <- None
  Stuck <- None
  Again <- NoJoin
  Workers <- TwoWorkers
  Serves <- BothPriority
  Capacity = 2
  MayFail = FALSE
  MayCancel = FALSE
PROPERTY EveryRootRuns
CHECK_DEADLOCK FALSE

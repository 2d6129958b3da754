SPECIFICATION FairSpec
CONSTANTS
  h1 = h1
  h2 = h2
  t1 = t1
  t2 = t2
  id0 = id0
  id1 = id1
  id2 = id2
  w1 = w1
  w2 = w2
  Requests <- AllRequests
  Id <- AllIds
  RootCount <- OneRoot
  Class <- ClassOf
  Careless <- SecondMayBeBad
  Stuck <- TriggerRequests
  Again <- TwoHaveJoins
  Workers <- TwoWorkers
  Serves <- OneEach
  Capacity = 1
  MayFail = TRUE
  MayCancel = TRUE
INVARIANTS OneTaskPerItem TriggerRejectedClean Throttled
PROPERTY PriorityServed
CHECK_DEADLOCK FALSE

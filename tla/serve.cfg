SPECIFICATION FairSpec
CONSTANTS
  v = v
  f = f
  n1 = n1
  n2 = n2
  Works <- TwoWorks
  Held <- OneHeld
  NodeWorkers <- TwoNodeWorkers
  Capacity = 1
  TriggerOn = TRUE
  MaxCids = 2
  MayInterrupt = TRUE
INVARIANT ResultsBeforeReturn
PROPERTIES WorkReturns StopsOnceOutOfJobs CidsTaken
CHECK_DEADLOCK FALSE

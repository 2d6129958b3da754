SPECIFICATION FairSpec
CONSTANTS
  v = v
  f = f
  n1 = n1
  n2 = n2
  Works <- TwoWorks
  Held <- OneHeld
  NodeWorkers <- OneNodeWorker
  Capacity = 2
  TriggerOn = FALSE
  MaxCids = 0
  MayInterrupt = TRUE
PROPERTY InterruptStops
CHECK_DEADLOCK FALSE

SPECIFICATION Spec
CONSTANTS
  Steps <- FourSteps
  Inputs <- Graph
  Putting <- AllPutting
  JobKinds <- Configured
  Workers = 2
INVARIANTS InputsAreReal SkipSpreads
PROPERTIES CompletedCounts EveryWorkReturns
CHECK_DEADLOCK FALSE

SPECIFICATION FairSpec
CONSTANTS
  c1 = c1
  c2 = c2
  w1 = w1
  w2 = w2
  Callers <- TwoCallers
  Calls = 3
  Workers <- TwoWorkers
  Capacity = 2
  MayCancel = TRUE
INVARIANTS RunsOnce NothingLost FewOvertaken Overcommit
PROPERTIES QuietAfterStop AcceptedRuns StopReturns

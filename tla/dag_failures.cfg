SPECIFICATION FairSpec
CONSTANTS
  Nodes <- MixedNodes
  Edges <- MixedEdges
  Workers <- TwoWorkers
  Entry <- TwoEntries
  Goroutines <- MixedChains
  Outcomes <- AlwaysRuns
  MayFail = TRUE
PROPERTY ImplementsSchedule

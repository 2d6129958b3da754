SPECIFICATION FairSpec
CONSTANTS
  Nodes <- ShortcutNodes
  Edges <- ShortcutEdges
  Workers <- OneWorker
  Entry <- OneEntry
  Goroutines <- ShortcutChains
  Outcomes <- VariedOutcome
  MayFail = FALSE
INVARIANTS ParentsEndFirst WorkSeesOutputs OnePathStartsOnce
PROPERTY ImplementsFairSchedule

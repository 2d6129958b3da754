SPECIFICATION FairSpec
CONSTANTS
  a = a
  b = b
  c = c
  missing = missing
  root = root
  Root <- root
  Names <- AllNames
  Configs <- AllConfigs
  MayFail = TRUE
INVARIANTS EdgesGrow GraphAsConfigured RootsReachAll
PROPERTY AcyclicReturns

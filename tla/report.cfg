SPECIFICATION RunFairSpec
CONSTANTS
  Nodes <- JoinNodes
  Edges <- JoinEdges
  Roots <- TwoRoots
  MaxClock = 3
INVARIANTS TimesExact ShareExact PrintsLastRoot
PROPERTY CommandEnds

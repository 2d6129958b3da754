--------------------------- MODULE MCDagExecution ---------------------------
\* Graphs for TLC.  A worker <<w>> holds a closure it took from the workflow
\* queue; the goroutines of a graph are the chains of spawns that start with one.
EXTENDS DagExecution, TLC

\* A node that waits for its grandparent too, with a node behind it.
ShortcutNodes == 1..4
ShortcutEdges == {<<1, 2>>, <<1, 3>>, <<2, 3>>, <<3, 4>>}
ShortcutChains ==
  {<<11>>, <<11, 2>>, <<11, 3>>, <<11, 2, 3>>, <<11, 3, 4>>, <<11, 2, 3, 4>>}

\* A join, one parent of which is given the root input and waits for the other.
MixedNodes == 1..3
MixedEdges == {<<1, 2>>, <<1, 3>>, <<2, 3>>}
MixedChains == {<<11>>, <<11, 2>>, <<11, 3>>, <<11, 2, 3>>, <<12>>, <<12, 3>>}

OneWorker == {<<11>>}
OneEntry == <<11>> :> 1
TwoWorkers == {<<11>>, <<12>>}
TwoEntries == <<11>> :> 1 @@ <<12>> :> 2

\* What the work of the nodes may do: it varies with the node.
VariedOutcome ==
  [n \in Nodes |-> CASE n = 2 -> Outcome
                     [] n = 3 -> {"output", "skipped"}
                     [] OTHER -> {"output"}]
AlwaysRuns == [n \in Nodes |-> {"output"}]
=============================================================================

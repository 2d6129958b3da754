---------------------------- MODULE MCRunCommand ----------------------------
\* Graphs for TLC: two roots, one of them with a tail, that join in a node.
EXTENDS RunCommand

JoinNodes == 1..5
JoinEdges == {<<1, 3>>, <<2, 3>>, <<1, 4>>, <<4, 5>>}
TwoRoots == {1, 2}
=============================================================================

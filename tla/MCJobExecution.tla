--------------------------- MODULE MCJobExecution ---------------------------
\* Jobs for TLC: a root whose output two steps take, one of them if what it printed
\* matches, and a step that takes theirs; two workers.
EXTENDS JobExecution

Input(node, predicate) == [node |-> node, output |-> 0, predicate |-> predicate, path |-> TRUE]
FourSteps == 1..4
Graph ==
  <<{Input(0, "none")},
    {Input(1, "some")},
    {Input(1, "none"), [Input(1, "none") EXCEPT !.output = 1]},
    {Input(2, "none"), [Input(3, "any") EXCEPT !.path = FALSE]}>>
Kind(first, last) == [s \in FourSteps |-> CASE s = 1 -> first [] s = 4 -> last [] OTHER -> "bacalhau"]
AllPutting == 1..3
Configured == {Kind("bacalhau", "bacalhau"), Kind("root-job", "bacalhau"), Kind("bacalhau", "root-job"),
               Kind("broken", "bacalhau"), Kind("bacalhau", "unknown")}
=============================================================================

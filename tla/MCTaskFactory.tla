---------------------------- MODULE MCTaskFactory ----------------------------
\* Configurations for TLC.
EXTENDS TaskFactory

CONSTANTS a, b, c, missing, root

AllNames == {a, b, c, missing}
StepOf(n, S) == [id |-> n, inputs |-> S]
Inputs == SUBSET {a, b, c, root}

\* Every graph of the steps a, b and c without unknown inputs, cyclic ones too,
\* a few with an unknown input, and one in which an identifier is repeated.
AllConfigs ==
  {<<StepOf(a, S), StepOf(b, T), StepOf(c, U)>> : S, T, U \in Inputs}
    \cup {<<StepOf(a, S), StepOf(b, {missing})>> : S \in SUBSET {b, root}}
    \cup {<<StepOf(a, {root}), StepOf(a, {root}), StepOf(b, S)>> : S \in SUBSET {a, root}}
=============================================================================

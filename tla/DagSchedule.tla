----------------------------- MODULE DagSchedule -----------------------------
(***************************************************************************)
(* What executing a graph promises, whatever runs it: a node that is given *)
(* the request's root input may begin at once, any other node begins only  *)
(* when every one of its parents has completed, and under fairness all the *)
(* nodes this lets begin do complete.  DagExecution implements it.         *)
(***************************************************************************)
EXTENDS Integers, FiniteSets

CONSTANTS Nodes, Edges, EntryNodes

VARIABLES begun, completed

vars == <<begun, completed>>

Parents(n) == {p \in Nodes : <<p, n>> \in Edges}

MayBegin(n) ==
  \/ n \in EntryNodes
  \/ Parents(n) # {} /\ Parents(n) \subseteq completed

Init == begun = {} /\ completed = {}

Begin(n) ==
  /\ n \notin begun
  /\ MayBegin(n)
  /\ begun' = begun \cup {n}
  /\ UNCHANGED completed

Complete(n) ==
  /\ n \in begun \ completed
  /\ completed' = completed \cup {n}
  /\ UNCHANGED begun

Next == \E n \in Nodes : Begin(n) \/ Complete(n)

Spec == Init /\ [][Next]_vars

\* Every node that may begin does, and every node that begins completes.
FairSpec ==
  Spec /\ \A n \in Nodes : WF_vars(Begin(n)) /\ WF_vars(Complete(n))
=============================================================================

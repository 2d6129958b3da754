----------------------------- MODULE RunCommand -----------------------------
(***************************************************************************)
(* The run command (cmd/run/run.go): it executes the roots of a graph one  *)
(* after the other in its own goroutine, polls until the graph has         *)
(* finished, cancels its context and prints the outputs of the leaves.     *)
(* The nodes below a root are executed by goroutines of their own.         *)
(* In the server there is no such command: workers execute the roots at    *)
(* any time, and of several roots may begin the same one (pkg/item/        *)
(* queue_repository.go).  The reports are read there too.                  *)
(***************************************************************************)
EXTENDS DagReport, Sequences, SequencesExt

\* A root has no parents, so that only calls of Execute by the command or by
\* workers begin it.
ASSUME PureRoots == \A r \in Roots : Parents(r) = {}

VARIABLES
  rootNodes, \* the roots, in the order CreateTask returned them
  main,      \* what the command does, or "server"
  next,      \* index of the root it executes
  printed    \* the outputs it printed

runVars == <<reportVars, rootNodes, main, next, printed>>

\* Values have their kinds; nothing but a root being executed keeps the command
\* from going on to the next (run.go:80-82).
RunTypeOK ==
  /\ ReportTypeOK
  /\ rootNodes \in SetToSeqs(Roots)
  /\ main \in {"server", "execute", "inside", "poll", "print", "done"}
  /\ next \in 1..Len(rootNodes) + 1
  /\ printed \subseteq Nodes
  /\ main # "server" =>
       \A i \in DOMAIN rootNodes : running[rootNodes[i]] > 0 => i = next /\ main = "inside"

RunInit ==
  /\ ReportInit
  /\ rootNodes \in SetToSeqs(Roots)
  /\ main \in {"server", "execute"}
  /\ next = 1
  /\ printed = {}

\* Execute is called with the next root, which was not begun before.
CallExecute ==
  /\ main = "execute"
  /\ next <= Len(rootNodes)
  /\ begins[rootNodes[next]] = 0
  /\ Begin(rootNodes[next])
  /\ main' = "inside"
  /\ UNCHANGED <<rootNodes, next, printed>>

\* The root ends and its children go on without the command.
ReturnExecute ==
  /\ main = "inside"
  /\ Complete(rootNodes[next])
  /\ main' = "execute"
  /\ next' = next + 1
  /\ UNCHANGED <<rootNodes, printed>>

StartPolling ==
  /\ main = "execute"
  /\ next > Len(rootNodes)
  /\ main' = "poll"
  /\ UNCHANGED <<reportVars, rootNodes, next, printed>>

\* A slip: the verdicts are conjoined, starting from false.
FinishedConjoined ==
  FALSE /\ \A i \in DOMAIN rootNodes : AllNodesFinished(Children(rootNodes[i]))

\* The verdict on each root's children replaces the one before it, so that the
\* last root's decides.
Finished == AllNodesFinished(Children(Last(rootNodes)))

Poll ==
  /\ main = "poll"
  /\ Finished
  /\ main' = "print"
  /\ UNCHANGED <<reportVars, rootNodes, next, printed>>

\* The context is cancelled, the outputs are printed and the process ends.
PrintOutputs ==
  /\ main = "print"
  /\ printed' = LeafOutputs(Roots)
  /\ main' = "done"
  /\ UNCHANGED <<reportVars, rootNodes, next>>

\* A worker of the server begins a root.  The jobs of a request share the variable of the
\* loop that enqueues them, so that the i-th executes the i-th root or a later one, and
\* several may begin the same root: of the first i roots no more executions than i.
MayCall(n) ==
  /\ main = "server"
  /\ n \in Roots
  /\ \A i \in DOMAIN rootNodes :
       LET first == {rootNodes[k] : k \in 1..i}
       IN n \in first => MapThenSumSet(LAMBDA r : begins[r], first) < i

\* Goroutines execute the nodes below the roots, and workers of the server the
\* roots as well.
Other(n) ==
  /\ \/ MayCall(n) /\ Begin(n)
     \/ n \notin Roots /\ MayBegin(n) /\ Begin(n)
     \/ (main = "server" \/ n \notin Roots) /\ Complete(n)
  /\ UNCHANGED <<rootNodes, main, next, printed>>

RunNext ==
  \/ /\ main # "done"
     /\ \/ CallExecute \/ ReturnExecute \/ StartPolling \/ Poll \/ PrintOutputs
        \/ \E n \in Nodes : Other(n)
        \/ Tick /\ UNCHANGED <<rootNodes, main, next, printed>>
  \/ main = "done" /\ UNCHANGED runVars
  \/ main = "server" /\ (\A n \in Nodes : running[n] = 0) /\ UNCHANGED runVars

\* Jobs return, goroutines are scheduled and the command polls time and again.
RunFairness ==
  /\ \A n \in Nodes : WF_runVars(main # "done" /\ Other(n))
  /\ WF_runVars(CallExecute) /\ WF_runVars(ReturnExecute) /\ WF_runVars(StartPolling)
  /\ WF_runVars(Poll) /\ WF_runVars(PrintOutputs)

RunSpec == RunInit /\ [][RunNext]_runVars
RunFairSpec == RunSpec /\ RunFairness

-----------------------------------------------------------------------------

\* It does print those of the leaves below the last root, and of a graph with one
\* root these are all (run.go:85-104).
PrintsLastRoot ==
  main = "done" =>
    \A n \in Nodes :
      /\ Children(n) = {}
      /\ \A S \in SUBSET Nodes :
           /\ Last(rootNodes) \in S
           /\ \A e \in Edges : e[1] \in S => e[2] \in S
           => n \in S
      => n \in printed

\* When no call fails the command ends (run.go:84-105).
CommandEnds == main = "execute" ~> main = "done"
=============================================================================

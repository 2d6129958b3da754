------------------------------ MODULE DagReport ------------------------------
(***************************************************************************)
(* What is reported of a graph while it executes: whether it has finished  *)
(* (pkg/dag/dag.go), since and until when it ran (pkg/dag/util.go), how    *)
(* many of its nodes are done and what it put out (pkg/api/api.go).        *)
(*                                                                         *)
(* The reports are operators on the timestamps the persistence keeps; time *)
(* 0 is Go's zero time.  The steps are those of DagSchedule with a clock,  *)
(* except that a node may be begun again, which is what DagExecution shows *)
(* of a node with several parents: executions that have passed             *)
(* node.go:109 before any of them wrote its row begin the node all the     *)
(* same.                                                                   *)
(***************************************************************************)
EXTENDS Integers, FiniteSets, FiniteSetsExt

CONSTANTS
  Nodes,     \* identifiers of the nodes, a child's is above its parents'
  Edges,     \* pairs <<parent, child>>
  Roots,     \* the nodes that are given the root input
  MaxClock   \* bound of the clock

\* Every node is below one that is given the root input (TaskFactory, RootsReachAll).
ASSUME ReportAssumption ==
  /\ Nodes \subseteq Nat /\ IsFiniteSet(Nodes)
  /\ Edges \subseteq {e \in Nodes \X Nodes : e[1] < e[2]}
  /\ Roots \subseteq Nodes /\ Roots # {}
  /\ \A S \in SUBSET Nodes :
       Roots \subseteq S /\ (\A e \in Edges : e[1] \in S => e[2] \in S) => S = Nodes
  /\ MaxClock \in Nat \ {0}

VARIABLES
  startedAt,  \* [Nodes -> 0..MaxClock]
  endedAt,    \* [Nodes -> 0..MaxClock]
  begins,     \* [Nodes -> Nat] how often a node was begun
  running,    \* [Nodes -> Nat] executions of a node that have not ended
  output,     \* nodes with an output
  clock

times == <<startedAt, endedAt>>
executions == <<begins, running, output>>
reportVars == <<times, executions, clock>>

Parents(n) == {p \in Nodes : <<p, n>> \in Edges}
Children(n) == {c \in Nodes : <<n, c>> \in Edges}

Ended(n) == endedAt[n] # 0

\* A list of nodes is a set of them with an order: the persistence returns children sorted
\* by identifier, and a Go map returns the roots in any order.
Orders == {[n \in Nodes |-> IF n \in Roots THEN place[n] ELSE n] :
             place \in {p \in [Roots -> Roots] : \A m, n \in Roots : p[m] = p[n] => m = n}}
First(nodes, order) == CHOOSE n \in nodes : \A m \in nodes : order[n] <= order[m]

-----------------------------------------------------------------------------
\* dag.go

finished[n \in Nodes] == Ended(n) /\ \A c \in Children(n) : finished[c]

\* A slip: the children of a node are not looked at.
RootsFinished(nodes) == \A n \in nodes : Ended(n)
AllNodesFinished(nodes) == \A n \in nodes : finished[n]

-----------------------------------------------------------------------------
\* util.go

GetDagStartTime(nodes) ==
  LET started == {startedAt[n] : n \in nodes} \ {0}
  IN IF started = {} THEN 0 ELSE Min(started)

\* The end time of a list of nodes, given the latest end met so far: the recursion answers
\* 0 at a node that still runs, and its caller goes on with that as the latest end.
RecurseChildren(order) ==
  LET end[nodes \in SUBSET Nodes] ==
        [latest \in Nat |->
           LET n == First(nodes, order)
               own == IF endedAt[n] > latest THEN endedAt[n] ELSE latest
           IN IF nodes = {} THEN latest
              ELSE IF ~Ended(n) THEN 0
              ELSE end[nodes \ {n}][end[Children(n)][own]]]
  IN end

\* A slip: the end of the last root is the end of the graph.
LastRootEndTime(nodes, order) ==
  IF ~AllNodesFinished(nodes) THEN 0
  ELSE endedAt[CHOOSE n \in nodes : \A m \in nodes : order[m] <= order[n]]
GetEndTimeIfDagComplete(nodes, order) == RecurseChildren(order)[nodes][0]

-----------------------------------------------------------------------------
\* api.go

\* The nodes whose statuses are known when those of a list have been collected; known ones
\* are not visited again.
ParseChildrenStatus(order) ==
  LET visit[nodes \in SUBSET Nodes] ==
        [known \in SUBSET Nodes |->
           LET n == First(nodes, order)
           IN IF nodes = {} THEN known
              ELSE IF n \in known THEN visit[nodes \ {n}][known]
              ELSE visit[nodes \ {n}][visit[Children(n)][known \cup {n}]]]
  IN visit

\* A slip: statuses that are known already are counted again.
PercentOfVisits(nodes, order) ==
  LET visits[n \in Nodes] == 1 + MapThenSumSet(LAMBDA c : visits[c], Children(n))
  IN <<Cardinality({n \in Nodes : Ended(n)}), MapThenSumSet(LAMBDA n : visits[n], nodes)>>

\* The share of finished nodes, as numerator and denominator.
ChildStatusesToList(nodes, order) ==
  LET known == ParseChildrenStatus(order)[nodes][{}]
  IN <<Cardinality({n \in known : Ended(n)}), Cardinality(known)>>

\* The outputs of the nodes without children below the given ones, deduplicated.
leafOutputs[n \in Nodes] ==
  IF Children(n) = {} THEN {n} \cap output ELSE UNION {leafOutputs[c] : c \in Children(n)}
LeafOutputs(nodes) == UNION {leafOutputs[n] : n \in nodes}

-----------------------------------------------------------------------------
\* The execution the reports are read from.

ReportInit ==
  /\ startedAt = [n \in Nodes |-> 0]
  /\ endedAt = [n \in Nodes |-> 0]
  /\ begins = [n \in Nodes |-> 0]
  /\ running = [n \in Nodes |-> 0]
  /\ output = {}
  /\ clock = 1

\* An execution of each parent has ended, although another one may have begun since the
\* look at it, and no finished execution of a parent brings about more than one of the node.
MayBegin(n) ==
  LET done(p) == begins[p] - running[p]
  IN /\ Parents(n) # {} /\ \A p \in Parents(n) : done(p) > 0
     /\ begins[n] < MapThenSumSet(done, Parents(n))

\* The status row says when the node was started and has no end time.
Begin(n) ==
  /\ startedAt' = [startedAt EXCEPT ![n] = clock]
  /\ endedAt' = [endedAt EXCEPT ![n] = 0]
  /\ begins' = [begins EXCEPT ![n] = @ + 1]
  /\ running' = [running EXCEPT ![n] = @ + 1]
  /\ UNCHANGED <<output, clock>>

\* An execution of the node ends, with an output.
Complete(n) ==
  /\ running[n] > 0
  /\ endedAt' = [endedAt EXCEPT ![n] = clock]
  /\ running' = [running EXCEPT ![n] = @ - 1]
  /\ output' = output \cup {n}
  /\ UNCHANGED <<startedAt, begins, clock>>

Tick ==
  /\ clock < MaxClock
  /\ clock' = clock + 1
  /\ UNCHANGED <<times, executions>>

-----------------------------------------------------------------------------
\* A node without end time is not over, and only nodes that were begun end
\* (pkg/dag/node.go:199-228).
ReportTypeOK ==
  /\ startedAt \in [Nodes -> 0..clock] /\ endedAt \in [Nodes -> 0..clock]
  /\ clock \in 1..MaxClock
  /\ \A n \in Nodes :
       /\ running[n] \in 0..begins[n]
       /\ startedAt[n] = 0 <=> begins[n] = 0
       /\ Ended(n) => startedAt[n] # 0 /\ n \in output

\* The reported start is the start of some node, and none is reported only while none was
\* begun.  As long as no root was begun twice it is the earliest start of any node although
\* only those of the roots are read: so it is in the run command, and in the server for a
\* request with one root.  A second start of a root replaces the first, which its children
\* may have followed by then.  The reported end of a finished graph is the latest end, in
\* whatever order the roots come (util.go:12-57); of a graph in progress it may be anything.
TimesExact ==
  LET begun == {startedAt[n] : n \in Nodes} \ {0}
      ended == {endedAt[n] : n \in Nodes}
      start == GetDagStartTime(Roots)
  IN /\ IF begun = {} THEN start = 0 ELSE start \in begun
     /\ (\A r \in Roots : begins[r] <= 1) => \A t \in begun : start <= t
     /\ \A order \in Orders :
          LET end == GetEndTimeIfDagComplete(Roots, order)
          IN (\A n \in Nodes : Ended(n)) => end \in ended /\ \A t \in ended : t <= end

\* The share of finished nodes counts each node once, however many paths lead to
\* it: as a fraction it is whole only of a finished graph.  The text shows it rounded
\* (api.go:681-709).
ShareExact ==
  \A order \in Orders :
    ChildStatusesToList(Roots, order) =
      <<Cardinality({n \in Nodes : Ended(n)}), Cardinality(Nodes)>>
=============================================================================

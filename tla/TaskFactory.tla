----------------------------- MODULE TaskFactory -----------------------------
(***************************************************************************)
(* taskFactory.CreateTask (pkg/task/factory.go): from the configured graph *)
(* of steps to persisted nodes and edges.  Passes over the steps that have *)
(* no node yet create one for every step whose inputs all have theirs, and *)
(* the nodes with a root input are returned.                               *)
(*                                                                         *)
(* A configuration is a sequence of steps, each with an identifier and the *)
(* set of its inputs: Root, or the identifier of another step.             *)
(***************************************************************************)
EXTENDS Integers, Sequences, FiniteSets

CONSTANTS
  Names,     \* identifiers of steps, and of inputs that no step has
  Root,      \* the request's root input
  Configs,   \* the configurations considered
  MayFail    \* whether a call to the persistence may return an error

Step == [id : Names, inputs : SUBSET (Names \cup {Root})]

ASSUME ConfigAssumption ==
  /\ Root \notin Names
  /\ Configs \subseteq Seq(Step)
  /\ MayFail \in BOOLEAN

VARIABLES
  graph,    \* the configuration
  pc,       \* where CreateTask is
  steps,    \* positions in the configuration this pass has still to look at
  dags,     \* [Names -> Nat] the node created for a step, 0 if there is none
  nodes,    \* the persisted nodes, in the order of their identifiers: steps
  edges,    \* the persisted edges, pairs of node identifiers
  rooted,   \* the nodes that were given the root input
  answer    \* the root nodes CreateTask returned

rows == <<nodes, edges, rooted>>
vars == <<graph, pc, steps, dags, rows, answer>>

Ids(g) == {g[i].id : i \in DOMAIN g}
\* Where the steps are that have no node; a pass visits them in this order.
Missing == {i \in DOMAIN graph : dags[graph[i].id] = 0}
StepInputs(s) == s.inputs \ {Root}
IsNext(i) == i \in steps /\ \A j \in steps : i <= j

-----------------------------------------------------------------------------
Init ==
  /\ graph \in Configs
  /\ pc = "check"
  /\ steps = {}
  /\ dags = [n \in Names |-> 0]
  /\ nodes = <<>>
  /\ edges = {}
  /\ rooted = {}
  /\ answer = {}

\* A slip: inputs are not compared with the steps there are.
NoCheck ==
  /\ pc = "check"
  /\ pc' = "pass"
  /\ UNCHANGED <<graph, steps, dags, rows, answer>>

\* Every input must be some step's.
CheckInputs ==
  /\ pc = "check"
  /\ pc' = IF \A i \in DOMAIN graph : StepInputs(graph[i]) \subseteq Ids(graph)
           THEN "pass" ELSE "disconnected"
  /\ UNCHANGED <<graph, steps, dags, rows, answer>>

\* The next pass looks at the steps without a node; without any it is over.
StartPass ==
  /\ pc = "pass"
  /\ steps' = Missing
  /\ pc' = IF Missing = {} THEN "filter" ELSE "visit"
  /\ UNCHANGED <<graph, dags, rows, answer>>

Advance(i) ==
  /\ steps' = steps \ {i}
  /\ pc' = IF steps = {i} THEN "pass" ELSE "visit"

InputsReady(s) == \A n \in StepInputs(s) : dags[n] # 0

Postpone ==
  /\ pc = "visit"
  /\ \E i \in steps :
       /\ IsNext(i)
       /\ ~InputsReady(graph[i])
       /\ Advance(i)
  /\ UNCHANGED <<graph, dags, rows, answer>>

CreateReversed ==
  /\ pc = "visit"
  /\ \E i \in steps :
       LET s == graph[i]
           node == Len(nodes) + 1
       IN /\ IsNext(i)
          /\ InputsReady(s)
          /\ nodes' = Append(nodes, s.id)
          /\ dags' = [dags EXCEPT ![s.id] = node]
          /\ edges' = edges \cup {<<node, dags[n]>> : n \in StepInputs(s)}
          /\ rooted' = IF Root \in s.inputs THEN rooted \cup {node} ELSE rooted
          /\ Advance(i)
  /\ UNCHANGED <<graph, answer>>
CreateUnrooted ==
  /\ pc = "visit"
  /\ \E i \in steps :
       LET s == graph[i]
           node == Len(nodes) + 1
       IN /\ IsNext(i)
          /\ InputsReady(s)
          /\ nodes' = Append(nodes, s.id)
          /\ dags' = [dags EXCEPT ![s.id] = node]
          /\ edges' = edges \cup {<<dags[n], node>> : n \in StepInputs(s)}
          /\ rooted' = IF s.inputs = {Root} THEN rooted \cup {node} ELSE rooted
          /\ Advance(i)
  /\ UNCHANGED <<graph, answer>>

\* The node of a step whose inputs are ready is persisted, and with it the root
\* input or an edge from the node of each of its inputs.
CreateNode ==
  /\ pc = "visit"
  /\ \E i \in steps :
       LET s == graph[i]
           node == Len(nodes) + 1
       IN /\ IsNext(i)
          /\ InputsReady(s)
          /\ nodes' = Append(nodes, s.id)
          /\ dags' = [dags EXCEPT ![s.id] = node]
          /\ edges' = edges \cup {<<dags[n], node>> : n \in StepInputs(s)}
          /\ rooted' = IF Root \in s.inputs THEN rooted \cup {node} ELSE rooted
          /\ Advance(i)
  /\ UNCHANGED <<graph, answer>>

\* A call fails: CreateTask returns its error and leaves behind what it has
\* persisted, the node of the step at hand with some of its inputs or not.
FailHere ==
  /\ MayFail
  /\ \/ /\ pc = "visit"
        /\ \E i \in steps :
             LET s == graph[i]
                 node == Len(nodes) + 1
             IN /\ IsNext(i)
                /\ InputsReady(s)
                /\ \/ UNCHANGED rows
                   \/ /\ nodes' = Append(nodes, s.id)
                      /\ \E made \in SUBSET StepInputs(s) :
                           edges' = edges \cup {<<dags[n], node>> : n \in made}
                      /\ \/ UNCHANGED rooted
                         \/ Root \in s.inputs /\ rooted' = rooted \cup {node}
     \/ pc = "filter" /\ UNCHANGED rows
  /\ pc' = "failed"
  /\ steps' = {}
  /\ UNCHANGED <<graph, dags, answer>>

\* A slip: the loop over the nodes ends at the first root.
FilterFirst ==
  /\ pc = "filter"
  /\ \/ rooted = {} /\ answer' = {} /\ pc' = "no_roots"
     \/ pc' = "done" /\ \E r \in rooted : answer' = {r}
  /\ UNCHANGED <<graph, steps, dags, rows>>

\* The nodes with a root input are returned, if there are any.
FilterForRootNodes ==
  /\ pc = "filter"
  /\ answer' = {dags[n] : n \in Ids(graph)} \cap rooted
  /\ pc' = IF answer' = {} THEN "no_roots" ELSE "done"
  /\ UNCHANGED <<graph, steps, dags, rows>>

Returned == pc \in {"disconnected", "failed", "no_roots", "done"}

Next ==
  \/ CheckInputs \/ StartPass \/ Postpone \/ CreateNode \/ FailHere
  \/ FilterForRootNodes
  \/ Returned /\ UNCHANGED vars

Spec == Init /\ [][Next]_vars
\* CreateTask runs in one goroutine and its calls return.
FairSpec == Spec /\ WF_vars(Next)

-----------------------------------------------------------------------------
\* The rows fit together: edges and root inputs are of nodes that exist, and a
\* step's node bears its name (factory.go:116-140).
TypeOK ==
  /\ graph \in Seq(Step)
  /\ pc \in {"check", "pass", "visit", "filter", "disconnected", "failed", "no_roots", "done"}
  /\ steps \subseteq DOMAIN graph
  /\ nodes \in Seq(Names)
  /\ dags \in [Names -> 0..Len(nodes)]
  /\ \A n \in Names : dags[n] # 0 => nodes[dags[n]] = n
  /\ edges \subseteq (1..Len(nodes)) \X (1..Len(nodes))
  /\ rooted \subseteq 1..Len(nodes) /\ answer \subseteq rooted
  /\ steps = {} <=> pc # "visit"

\* A node is created after its parents, so identifiers grow along edges and the
\* persisted graph has no cycle, whatever was configured (factory.go:99-139).
EdgesGrow == \A e \in edges : e[1] < e[2]

Distinct(g) == \A i, j \in DOMAIN g : g[i].id = g[j].id => i = j

\* A graph that is returned has the configured edges and root inputs, with one
\* node for each step, in whatever order they were configured (factory.go:88-150).
GraphAsConfigured ==
  pc = "done" /\ Distinct(graph) =>
    /\ Len(nodes) = Len(graph)
    /\ \A i \in DOMAIN graph :
         LET node == dags[graph[i].id]
         IN /\ {nodes[e[1]] : e \in {x \in edges : x[2] = node}} = StepInputs(graph[i])
            /\ node \in answer <=> Root \in graph[i].inputs

\* Every set that has the roots and the children of its members has all nodes.
ReachesAll(roots) ==
  \A S \in SUBSET (DOMAIN nodes) :
    roots \subseteq S /\ (\A e \in edges : e[1] \in S => e[2] \in S) => S = DOMAIN nodes

\* If every step has an input then every node of a returned graph is below a
\* root, so that executing the roots reaches all of it (factory.go:143-150).
RootsReachAll ==
  pc = "done" /\ Distinct(graph) /\ (\A i \in DOMAIN graph : graph[i].inputs # {}) =>
    ReachesAll(answer)

\* Some order of the steps has every input before the step it is an input of.
Acyclic(g) ==
  \E rank \in [Ids(g) -> 1..Len(g)] :
    \A i \in DOMAIN g : \A n \in StepInputs(g[i]) \cap Ids(g) : rank[n] < rank[g[i].id]

\* CreateTask returns unless the configured graph has a cycle (factory.go:87-142).
AcyclicReturns == Acyclic(graph) ~> Returned
=============================================================================

---------------------------- MODULE DagExecution ----------------------------
(***************************************************************************)
(* The execution of one request's graph of nodes: every goroutine that     *)
(* runs nodeExecutor.Execute (pkg/dag/node.go) against the persistence.    *)
(*                                                                         *)
(* Each call to the persistence is one step, so the reads and writes of    *)
(* goroutines that run at the same time interleave between any two calls,  *)
(* and each call may fail when MayFail is TRUE.  A node's timestamps are   *)
(* abstracted to what its latest status row says (queued, started,         *)
(* finished); the number of rows of each kind is kept to state properties. *)
(***************************************************************************)
EXTENDS Integers, FiniteSets, Sequences

CONSTANTS
  Nodes,       \* identifiers the persistence gave to the nodes of the graph
  Edges,       \* pairs <<parent, child>>
  Workers,     \* goroutines of the workflow queue that hold a closure of the request
  Entry,       \* the node the closure of each of these workers executes
  Goroutines,  \* the workers and every goroutine an execution may spawn, see Named
  Outcomes,    \* [Nodes -> SUBSET Outcome] what the work of a node may do
  MayFail      \* whether calls to the persistence may return an error

\* A job that ran sends a result and returns an output; a skipped one only
\* sends a result; one that finds its context cancelled does neither.
Outcome == {"output", "skipped", "cancelled"}

NoNode == 0

\* CreateTask creates a node after its parents, and identifiers are counted up.
ASSUME GraphAssumption ==
  /\ Nodes \subseteq Nat \ {NoNode}
  /\ Edges \subseteq {e \in Nodes \X Nodes : e[1] < e[2]}

ASSUME CallAssumption ==
  /\ Workers \subseteq Goroutines
  /\ Entry \in [Workers -> Nodes]
  /\ Outcomes \in [Nodes -> SUBSET Outcome \ {{}}]
  /\ MayFail \in BOOLEAN

Parents(n) == {p \in Nodes : <<p, n>> \in Edges}
Children(n) == {c \in Nodes : <<n, c>> \in Edges}
EntryNodes == {Entry[w] : w \in Workers}

\* The persistence returns a node's parents and children sorted by identifier.
IsFirst(n, S) == n \in S /\ \A m \in S : n <= m

VARIABLES
  \* rows of the persistence
  status,     \* [Nodes -> ...] what the latest status row of a node says
  starts,     \* [Nodes -> Nat] number of status rows that say "started"
  ends,       \* [Nodes -> Nat] number of status rows that say "finished"
  results,    \* [Nodes -> Nat] number of result rows
  outputs,    \* [Nodes -> Nat] number of output rows
  delivered,  \* [Edges -> Nat] number of input rows a child has from a parent
  \* the frame of each goroutine
  pc,         \* the persistence call a goroutine is about to make
  node,       \* the node it executes
  seen,       \* how many inputs from each parent were handed to the work
  outcome,    \* what its work did
  todo,       \* the children it has still to visit
  child,      \* the child it is examining
  check       \* parents of that child it has not found finished yet

rows == <<status, starts, ends, results, outputs, delivered>>
frame == <<pc, node, seen, outcome, todo, child, check>>
vars == <<rows, frame>>

Status == {"queued", "started", "finished"}
Label == {"idle", "get", "start", "read", "work", "result", "output",
          "deliver", "end", "next", "ready", "spawn"}

NothingSeen == [p \in Nodes |-> 0]
NodeOrNone == Nodes \cup {NoNode}

\* Every counter and frame holds a value of its kind; a goroutine has a node
\* while it exists and a child while it examines one (pkg/dag/node.go, Execute).
TypeOK ==
  /\ status \in [Nodes -> Status]
  /\ starts \in [Nodes -> Nat]
  /\ ends \in [Nodes -> Nat]
  /\ results \in [Nodes -> Nat]
  /\ outputs \in [Nodes -> Nat]
  /\ delivered \in [Edges -> Nat]
  /\ pc \in [Goroutines -> Label]
  /\ node \in [Goroutines -> NodeOrNone]
  /\ seen \in [Goroutines -> [Nodes -> Nat]]
  /\ outcome \in [Goroutines -> Outcome]
  /\ todo \in [Goroutines -> SUBSET Nodes]
  /\ child \in [Goroutines -> NodeOrNone]
  /\ check \in [Goroutines -> SUBSET Nodes]
  /\ \A g \in Goroutines : node[g] \in Nodes <=> pc[g] # "idle"
  /\ \A g \in Goroutines : child[g] \in Nodes <=> pc[g] \in {"ready", "spawn"}

-----------------------------------------------------------------------------
\* CreateTask has persisted every node with its "queued" status row and every
\* edge before a closure is enqueued; each worker is about to call Execute.
Init ==
  /\ status = [n \in Nodes |-> "queued"]
  /\ starts = [n \in Nodes |-> 0]
  /\ ends = [n \in Nodes |-> 0]
  /\ results = [n \in Nodes |-> 0]
  /\ outputs = [n \in Nodes |-> 0]
  /\ delivered = [e \in Edges |-> 0]
  /\ pc = [g \in Goroutines |-> IF g \in Workers THEN "get" ELSE "idle"]
  /\ node = [g \in Goroutines |-> IF g \in Workers THEN Entry[g] ELSE NoNode]
  /\ seen = [g \in Goroutines |-> NothingSeen]
  /\ outcome = [g \in Goroutines |-> "cancelled"]
  /\ todo = [g \in Goroutines |-> {}]
  /\ child = [g \in Goroutines |-> NoNode]
  /\ check = [g \in Goroutines |-> {}]

\* The goroutine returns from Execute.
Return(g) ==
  /\ pc' = [pc EXCEPT ![g] = "idle"]
  /\ node' = [node EXCEPT ![g] = NoNode]
  /\ seen' = [seen EXCEPT ![g] = NothingSeen]
  /\ outcome' = [outcome EXCEPT ![g] = "cancelled"]
  /\ todo' = [todo EXCEPT ![g] = {}]
  /\ child' = [child EXCEPT ![g] = NoNode]
  /\ check' = [check EXCEPT ![g] = {}]

Goto(g, label) == pc' = [pc EXCEPT ![g] = label]

\* Read the node; go on only if its latest status row carries no start time.
GetNode(g) ==
  /\ pc[g] = "get"
  /\ \/ /\ status[node[g]] = "queued"
        /\ Goto(g, "start")
        /\ UNCHANGED <<node, seen, outcome, todo, child, check>>
     \/ /\ status[node[g]] # "queued"
        /\ Return(g)
  /\ UNCHANGED rows

\* updateNodeStartTime appends a status row with a start and no end time.
SetStart(g) ==
  /\ pc[g] = "start"
  /\ status' = [status EXCEPT ![node[g]] = "started"]
  /\ starts' = [starts EXCEPT ![node[g]] = @ + 1]
  /\ Goto(g, "read")
  /\ UNCHANGED <<ends, results, outputs, delivered,
                 node, seen, outcome, todo, child, check>>

\* updateNodeStartTime reads the node again: these inputs reach the work.
ReadInputs(g) ==
  /\ pc[g] = "read"
  /\ seen' = [seen EXCEPT ![g] =
                [p \in Nodes |-> IF <<p, node[g]>> \in Edges
                                 THEN delivered[<<p, node[g]>>] ELSE 0]]
  /\ Goto(g, "work")
  /\ UNCHANGED <<rows, node, outcome, todo, child, check>>

\* The node's work runs to its end.
Work(g) ==
  /\ pc[g] = "work"
  /\ \E o \in Outcomes[node[g]] : outcome' = [outcome EXCEPT ![g] = o]
  /\ seen' = [seen EXCEPT ![g] = NothingSeen]
  /\ Goto(g, "result")
  /\ UNCHANGED <<rows, node, todo, child, check>>

\* The result the work sent, if any, becomes a result row.
StoreResult(g) ==
  /\ pc[g] = "result"
  /\ results' = [results EXCEPT ![node[g]] =
                   IF outcome[g] = "cancelled" THEN @ ELSE @ + 1]
  /\ Goto(g, "output")
  /\ UNCHANGED <<status, starts, ends, outputs, delivered,
                 node, seen, outcome, todo, child, check>>

\* The result's text is parsed into the analytics and the output is stored.
AddOutput(g) ==
  /\ pc[g] = "output"
  /\ outputs' = [outputs EXCEPT ![node[g]] =
                   IF outcome[g] = "output" THEN @ + 1 ELSE @]
  /\ todo' = [todo EXCEPT ![g] = Children(node[g])]
  /\ Goto(g, "deliver")
  /\ UNCHANGED <<status, starts, ends, results, delivered,
                 node, seen, outcome, child, check>>

\* The output is appended to the inputs of one child after the other.
AddInput(g) ==
  /\ pc[g] = "deliver"
  /\ outcome[g] = "output"
  /\ \E c \in todo[g] :
       /\ IsFirst(c, todo[g])
       /\ delivered' = [delivered EXCEPT ![<<node[g], c>>] = @ + 1]
       /\ todo' = [todo EXCEPT ![g] = @ \ {c}]
  /\ UNCHANGED <<status, starts, ends, results, outputs,
                 pc, node, seen, outcome, child, check>>

\* A slip: the end time is written before every child has its input.
SetEndEarly(g) ==
  /\ pc[g] = "deliver"
  /\ status' = [status EXCEPT ![node[g]] = "finished"]
  /\ ends' = [ends EXCEPT ![node[g]] = @ + 1]
  /\ Goto(g, "end")
  /\ UNCHANGED <<starts, results, outputs, delivered,
                 node, seen, outcome, todo, child, check>>

\* updateNodeEndTime appends a status row with both times, once every output
\* has been delivered.
SetEnd(g) ==
  /\ pc[g] = "deliver"
  /\ outcome[g] # "output" \/ todo[g] = {}
  /\ status' = [status EXCEPT ![node[g]] = "finished"]
  /\ ends' = [ends EXCEPT ![node[g]] = @ + 1]
  /\ Goto(g, "end")
  /\ UNCHANGED <<starts, results, outputs, delivered,
                 node, seen, outcome, todo, child, check>>

\* updateNodeEndTime reads the node again; then its children are visited.
ReadChildren(g) ==
  /\ pc[g] = "end"
  /\ todo' = [todo EXCEPT ![g] = Children(node[g])]
  /\ outcome' = [outcome EXCEPT ![g] = "cancelled"]
  /\ Goto(g, "next")
  /\ UNCHANGED <<rows, node, seen, child, check>>

\* Read the next child and its list of parents.
NextChild(g) ==
  /\ pc[g] = "next"
  /\ \E c \in todo[g] :
       /\ IsFirst(c, todo[g])
       /\ todo' = [todo EXCEPT ![g] = @ \ {c}]
       /\ child' = [child EXCEPT ![g] = c]
       /\ check' = [check EXCEPT ![g] = Parents(c)]
  /\ Goto(g, "ready")
  /\ UNCHANGED <<rows, node, seen, outcome>>

\* Slips: one parent that has ended is enough; only the first of its parents may
\* trigger a child.
CheckAnyParent(g) ==
  /\ pc[g] = "ready"
  /\ \E p \in check[g] : status[p] = "finished"
  /\ check' = [check EXCEPT ![g] = {}]
  /\ Goto(g, "spawn")
  /\ UNCHANGED <<rows, node, seen, outcome, todo, child>>
CheckByFirst(g) ==
  /\ pc[g] = "ready"
  /\ check' = [check EXCEPT ![g] = {}]
  /\ LET ready == /\ IsFirst(node[g], Parents(child[g]))
                  /\ \A p \in check[g] : status[p] = "finished"
     IN \/ ready /\ Goto(g, "spawn") /\ UNCHANGED child
        \/ ~ready /\ Goto(g, "next") /\ child' = [child EXCEPT ![g] = NoNode]
  /\ UNCHANGED <<rows, node, seen, outcome, todo>>

\* Read one parent of the child; leave the child alone if it has not ended.
CheckParent(g) ==
  /\ pc[g] = "ready"
  /\ \E p \in check[g] :
       /\ IsFirst(p, check[g])
       /\ \/ /\ status[p] = "finished"
             /\ check' = [check EXCEPT ![g] = @ \ {p}]
             /\ Goto(g, IF check[g] = {p} THEN "spawn" ELSE "ready")
             /\ UNCHANGED child
          \/ /\ status[p] # "finished"
             /\ check' = [check EXCEPT ![g] = {}]
             /\ child' = [child EXCEPT ![g] = NoNode]
             /\ Goto(g, "next")
  /\ UNCHANGED <<rows, node, seen, outcome, todo>>

\* A slip: a child listed once for each of the two rows CreateTask stores of an edge is
\* executed twice.
SpawnPerRow(g) ==
  /\ pc[g] = "spawn"
  /\ \E h, i \in Goroutines :
       /\ h = Append(g, child[g])
       /\ h # i /\ pc[h] = "idle" /\ pc[i] = "idle"
       /\ pc' = [pc EXCEPT ![g] = "next", ![h] = "get", ![i] = "get"]
       /\ node' = [node EXCEPT ![h] = child[g], ![i] = child[g]]
  /\ child' = [child EXCEPT ![g] = NoNode]
  /\ UNCHANGED <<rows, seen, outcome, todo, check>>

\* Every parent has ended: execute the child in a goroutine of its own, which
\* is named by the chain of nodes that led to it.
Named(g, c) == Append(g, c)
Spawn(g) ==
  /\ pc[g] = "spawn"
  /\ \E h \in Goroutines :
       /\ h = Named(g, child[g])
       /\ pc[h] = "idle"
       /\ pc' = [pc EXCEPT ![g] = "next", ![h] = "get"]
       /\ node' = [node EXCEPT ![h] = child[g]]
  /\ child' = [child EXCEPT ![g] = NoNode]
  /\ UNCHANGED <<rows, seen, outcome, todo, check>>

\* Every child has been visited.
Finish(g) ==
  /\ pc[g] = "next"
  /\ todo[g] = {}
  /\ Return(g)
  /\ UNCHANGED rows

\* A goroutine about to call the persistence.
Calling(g) ==
  \/ pc[g] \in {"get", "start", "read", "end", "ready"}
  \/ pc[g] \in {"result", "output"} /\ outcome[g] # "cancelled"
  \/ pc[g] = "deliver"
  \/ pc[g] = "next" /\ todo[g] # {}

\* A slip: the error is logged and Execute goes on after the loop it is in.
FailAndGoOn(g) ==
  /\ MayFail
  /\ pc[g] \in {"deliver", "ready"}
  /\ todo' = [todo EXCEPT ![g] = IF pc[g] = "deliver" THEN {} ELSE @]
  /\ check' = [check EXCEPT ![g] = {}]
  /\ Goto(g, IF pc[g] = "ready" THEN "spawn" ELSE "deliver")
  /\ UNCHANGED <<rows, node, seen, outcome, child>>

\* The call returns an error: Execute logs it and returns.
Fail(g) ==
  /\ MayFail
  /\ Calling(g)
  /\ Return(g)
  /\ UNCHANGED rows

Step(g) ==
  \/ GetNode(g) \/ SetStart(g) \/ ReadInputs(g) \/ Work(g)
  \/ StoreResult(g) \/ AddOutput(g) \/ AddInput(g) \/ SetEnd(g)
  \/ ReadChildren(g) \/ NextChild(g) \/ CheckParent(g) \/ Spawn(g)
  \/ Finish(g)

\* Every goroutine has returned: nothing executes the graph any more.
Quiet == \A g \in Goroutines : pc[g] = "idle"
Rest == Quiet /\ UNCHANGED vars

Next ==
  \/ \E g \in Goroutines : Step(g) \/ Fail(g)
  \/ Rest

\* The Go scheduler runs every goroutine, and a node's work returns.
Fairness == \A g \in Goroutines : WF_vars(Step(g))

Spec == Init /\ [][Next]_vars
FairSpec == Spec /\ Fairness

-----------------------------------------------------------------------------
\* Safety

\* A node that has to wait for its parents starts only after each of them has
\* ended: the readiness loop of Execute (node.go:160-183).
ParentsEndFirst ==
  \A n \in Nodes \ EntryNodes :
    starts[n] > 0 => \A p \in Parents(n) : ends[p] > 0

\* The work of such a node is handed exactly the outputs its parents stored,
\* none lost and none twice, whenever the parent was started once: outputs are
\* delivered before the end time is written (node.go:141-153), and inputs are
\* read after the start time (node.go:113, 119).
WorkSeesOutputs ==
  \A g \in Goroutines :
    pc[g] = "work" /\ node[g] \notin EntryNodes =>
      \A p \in Parents(node[g]) : starts[p] = 1 => seen[g][p] = outputs[p]

\* The nodes that can be triggered in one way: an entry node of one worker without
\* parents, and a node whose only parent is such a node.  Edges grow, so going up
\* from parent to parent within S ends at an entry node.
OneTrigger(n, S) ==
  IF n \in EntryNodes
  THEN Parents(n) = {} /\ \A v, w \in Workers : Entry[v] = n /\ Entry[w] = n => v = w
  ELSE \E p \in S : Parents(n) = {p}
OnePath(n) == \E S \in SUBSET Nodes : n \in S /\ \A m \in S : OneTrigger(m, S)

\* Above a join no node starts twice, whatever executes at the same time, so that none
\* that is finished becomes started again (node.go:108-117, 159-213).  Below a join it may.
OnePathStartsOnce == \A n \in Nodes : OnePath(n) => starts[n] <= 1

\* What makes ParentsEndFirst inductive.  Every goroutine executes an entry
\* node or one whose parents have all ended; the parents the readiness loop has
\* passed have ended; a row that says "finished" was written by an end.
Waited(n) == Parents(n) # {} /\ \A p \in Parents(n) : ends[p] > 0
FrameReady(g) ==
  /\ pc[g] # "idle" => node[g] \in EntryNodes \/ Waited(node[g])
  /\ pc[g] \notin {"idle", "get", "start"} => starts[node[g]] > 0
  /\ todo[g] \subseteq Children(node[g])
  /\ pc[g] \in {"ready", "spawn"} =>
       /\ Parents(child[g]) # {}
       /\ \A p \in Parents(child[g]) \ check[g] : ends[p] > 0
  /\ pc[g] = "spawn" => check[g] = {}
NodeReady(n) ==
  /\ starts[n] > 0 => n \in EntryNodes \/ Waited(n)
  /\ status[n] = "finished" => ends[n] > 0
  /\ ends[n] > 0 => starts[n] > 0

\* The inductive invariant behind ParentsEndFirst and the refinement below
\* (node.go:97-197).
ReadyInv ==
  /\ \A g \in Goroutines : FrameReady(g)
  /\ \A n \in Nodes : NodeReady(n)

-----------------------------------------------------------------------------
\* Refinement and liveness

Schedule == INSTANCE DagSchedule WITH
  begun <- {n \in Nodes : starts[n] > 0},
  completed <- {n \in Nodes : ends[n] > 0}

\* Execute implements the schedule, with failing calls too: a failure only
\* keeps nodes from beginning or completing (node.go:97-197).
ImplementsSchedule == Schedule!Spec

\* When no call fails, the schedule's fairness holds as well: the last parent
\* to finish does trigger the child (node.go:161-162).
ImplementsFairSchedule == Schedule!FairSpec

=============================================================================

--------------------------- MODULE QueueRepository ---------------------------
(***************************************************************************)
(* From a request to a running graph: queueRepository.Create               *)
(* (pkg/item/queue_repository.go) called by HTTP handlers and by the       *)
(* trigger's consumer, the two workflow queues it enqueues into, and the   *)
(* closures their workers run: execute a root node, then poll once a       *)
(* second until the graph below it has finished.                           *)
(*                                                                         *)
(* A tree <<r, k>> is the k-th root node of request r with everything      *)
(* below it; how its nodes execute is the subject of DagExecution.  The    *)
(* closures of one request share the loop variable they captured (go.mod   *)
(* says Go 1.20: one variable per loop), so a closure is its request.      *)
(***************************************************************************)
EXTENDS Integers, Sequences, FiniteSets

CONSTANTS
  Requests,   \* calls of Create
  Id,         \* [Requests -> identifiers], a client may repeat one
  RootCount,  \* [Requests -> Nat \ {0}] root nodes of the configured graph
  Class,      \* [Requests -> Classes] HTTP requests have priority
  Careless,   \* requests that may come without identifier or without CID
  Stuck,      \* requests a node of which may fail to start or finish, see DagExecution
  Again,      \* [Requests -> Nat] second executions of nodes of the graph that are
              \* under several paths, see DagExecution (bound); 0 if there are none
  Workers,    \* workers of the two workflow queues
  Serves,     \* [Workers -> Classes]
  Capacity,   \* capacity of each queue
  MayFail,    \* whether CreateTask and a poll may return an error
  MayCancel   \* whether the server may be told to stop

Classes == {"priority", "secondary"}

ASSUME RequestAssumption ==
  /\ RootCount \in [Requests -> Nat \ {0}] /\ Again \in [Requests -> Nat]
  /\ Class \in [Requests -> Classes]
  /\ Careless \subseteq Requests /\ Stuck \subseteq Requests
  /\ Serves \in [Workers -> Classes] /\ IsFiniteSet(Workers)
  /\ Capacity \in Nat
  /\ <<>> \notin Requests
  /\ MayFail \in BOOLEAN /\ MayCancel \in BOOLEAN

Trees == {x \in Requests \X UNION {1..RootCount[r] : r \in Requests} :
            x[2] <= RootCount[x[1]]}
NoRequest == <<>>

VARIABLES
  items,    \* identifiers with a persisted queue item
  dag,      \* [Trees -> ...] how far a tree has come
  pc,       \* [Requests -> ...] where its Create is
  verdict,  \* [Requests -> ...] what Create returned
  loop,     \* [Requests -> Nat] Create's loop variable: the root it denotes
  queue,    \* [Classes -> Seq(Requests)] the closures that wait
  held,     \* [Workers -> the request whose closure is run, or NoRequest]
  at,       \* [Workers -> ...] where the closure is
  root,     \* [Workers -> Nat] the root its call of Execute was given
  left,     \* trees a worker went away from because its poll failed
  again,    \* [Trees -> Nat] how often a node of it was begun that had been begun
  ctxDone

vars == <<items, dag, pc, verdict, loop, queue, held, at, root, left, again, ctxDone>>

\* Each variable has values of its kind; a worker holds a request exactly while
\* it is inside a closure (queue_repository.go:49-98).
TypeOK ==
  /\ items \subseteq {Id[r] : r \in Requests}
  /\ dag \in [Trees -> {"absent", "queued", "started", "ended", "complete"}]
  /\ pc \in [Requests -> {"new", "store", "task", "enqueue", "send", "done"}]
  /\ verdict \in [Requests -> {"none", "ok", "invalid", "full", "error"}]
  /\ loop \in [Requests -> Nat] /\ \A r \in Requests : loop[r] <= RootCount[r]
  /\ queue \in [Classes -> Seq(Requests)]
  /\ held \in [Workers -> Requests \cup {NoRequest}]
  /\ at \in [Workers -> {"select", "call", "start", "run", "poll", "gone"}]
  /\ root \in [Workers -> Nat]
  /\ left \subseteq Trees
  /\ again \in [Trees -> Nat] /\ \A x \in Trees : again[x] <= Again[x[1]]
  /\ ctxDone \in BOOLEAN
  /\ \A r \in Requests : (pc[r] = "done") <=> (verdict[r] # "none")
  /\ \A w \in Workers : held[w] = NoRequest <=> at[w] \in {"select", "gone"}

-----------------------------------------------------------------------------
Init ==
  /\ items = {}
  /\ dag = [x \in Trees |-> "absent"]
  /\ pc = [r \in Requests |-> "new"]
  /\ verdict = [r \in Requests |-> "none"]
  /\ loop = [r \in Requests |-> 0]
  /\ queue = [c \in Classes |-> <<>>]
  /\ held = [w \in Workers |-> NoRequest]
  /\ at = [w \in Workers |-> "select"]
  /\ root = [w \in Workers |-> 0]
  /\ left = {}
  /\ again = [x \in Trees |-> 0]
  /\ ctxDone = FALSE

\* A slip: the priority of the request is not looked at.
QueueOfAny(r) == "secondary"
QueueOf(r) == Class[r]

IsFull(r) == Len(queue[QueueOf(r)]) = Capacity

Answer(r, v) ==
  /\ pc' = [pc EXCEPT ![r] = "done"]
  /\ verdict' = [verdict EXCEPT ![r] = v]

Goto(r, label) == pc' = [pc EXCEPT ![r] = label] /\ UNCHANGED verdict

\* One goroutine creates the trigger's requests, one after the other; every
\* HTTP request has a goroutine of its own.
MayCall(r) ==
  Class[r] = "secondary" =>
    \A s \in Requests : Class[s] = "secondary" => pc[s] \in {"new", "done"}

\* A slip: Create does not ask whether the queue is full.
CallUnasked(r) ==
  /\ pc[r] = "new"
  /\ MayCall(r)
  /\ \/ r \in Careless /\ Answer(r, "invalid")
     \/ Goto(r, "store")
  /\ UNCHANGED <<items, dag, loop, queue, held, at, root, left, again, ctxDone>>

\* Create refuses bad parameters, and then when the chosen queue is full.
Call(r) ==
  /\ pc[r] = "new"
  /\ MayCall(r)
  /\ \/ r \in Careless /\ Answer(r, "invalid")
     \/ IsFull(r) /\ Answer(r, "full")
     \/ ~IsFull(r) /\ Goto(r, "store")
  /\ UNCHANGED <<items, dag, loop, queue, held, at, root, left, again, ctxDone>>

\* A slip: an identifier that is already there is overwritten.
OverwriteItem(r) ==
  /\ pc[r] = "store"
  /\ items' = items \cup {Id[r]}
  /\ Goto(r, "task")
  /\ UNCHANGED <<dag, loop, queue, held, at, root, left, again, ctxDone>>

\* NewItem persists the queue item; the database refuses a known identifier, and
\* may fail.
NewItem(r) ==
  /\ pc[r] = "store"
  /\ \/ (MayFail \/ Id[r] \in items) /\ Answer(r, "error") /\ UNCHANGED items
     \/ /\ Id[r] \notin items
        /\ items' = items \cup {Id[r]}
        /\ Goto(r, "task")
  /\ UNCHANGED <<dag, loop, queue, held, at, root, left, again, ctxDone>>

\* CreateTask persists the nodes and returns the roots, or fails; the loop
\* over the roots then sets its variable to the first.
CreateTask(r) ==
  /\ pc[r] = "task"
  /\ \/ /\ dag' = [x \in Trees |-> IF x[1] = r THEN "queued" ELSE dag[x]]
        /\ loop' = [loop EXCEPT ![r] = 1]
        /\ Goto(r, "enqueue")
     \/ MayFail /\ Answer(r, "error") /\ UNCHANGED <<dag, loop>>
  /\ UNCHANGED <<items, queue, held, at, root, left, again, ctxDone>>

\* Enqueue tests the length again.
TestFull(r) ==
  /\ pc[r] = "enqueue"
  /\ IF IsFull(r) THEN Answer(r, "full") ELSE Goto(r, "send")
  /\ UNCHANGED <<items, dag, loop, queue, held, at, root, left, again, ctxDone>>

\* The send waits for room; the loop goes to the next root or Create returns.
Send(r) ==
  /\ pc[r] = "send"
  /\ ~IsFull(r)
  /\ queue' = [queue EXCEPT ![QueueOf(r)] = Append(@, r)]
  /\ \/ /\ loop[r] < RootCount[r]
        /\ loop' = [loop EXCEPT ![r] = @ + 1]
        /\ Goto(r, "enqueue")
     \/ /\ loop[r] = RootCount[r]
        /\ Answer(r, "ok")
        /\ UNCHANGED loop
  /\ UNCHANGED <<items, dag, held, at, root, left, again, ctxDone>>

-----------------------------------------------------------------------------
\* A worker takes a closure.
Take(w) ==
  /\ at[w] = "select"
  /\ queue[Serves[w]] # <<>>
  /\ held' = [held EXCEPT ![w] = Head(queue[Serves[w]])]
  /\ queue' = [queue EXCEPT ![Serves[w]] = Tail(@)]
  /\ at' = [at EXCEPT ![w] = "call"]
  /\ UNCHANGED <<items, dag, pc, verdict, loop, root, left, again, ctxDone>>

\* The closure calls Execute with the root the loop variable denotes by now;
\* Execute returns at once if that root has been started, or if the root cannot be
\* read or written.
CallExecute(w) ==
  /\ at[w] = "call"
  /\ root' = [root EXCEPT ![w] = loop[held[w]]]
  /\ \/ /\ dag[<<held[w], loop[held[w]]>>] = "queued"
        /\ at' = [at EXCEPT ![w] = "start"]
     \/ /\ dag[<<held[w], loop[held[w]]>>] # "queued" \/ held[w] \in Stuck
        /\ at' = [at EXCEPT ![w] = "poll"]
  /\ UNCHANGED <<items, dag, pc, verdict, loop, queue, held, left, again, ctxDone>>

StartRoot(w) ==
  /\ at[w] = "start"
  /\ dag' = [dag EXCEPT ![<<held[w], root[w]>>] = "started"]
  /\ at' = [at EXCEPT ![w] = "run"]
  /\ UNCHANGED <<items, pc, verdict, loop, queue, held, root, left, again, ctxDone>>

\* Execute returns: the root has ended and its children are executed by other
\* goroutines, or a call failed and the root stays started.
EndRoot(w) ==
  /\ at[w] = "run"
  /\ \/ dag' = [dag EXCEPT ![<<held[w], root[w]>>] = "ended"]
     \/ held[w] \in Stuck /\ UNCHANGED dag
  /\ at' = [at EXCEPT ![w] = "poll"]
  /\ UNCHANGED <<items, pc, verdict, loop, queue, held, root, left, again, ctxDone>>

\* The last node of a tree whose root has ended finishes.
Complete(x) ==
  /\ dag[x] = "ended"
  /\ dag' = [dag EXCEPT ![x] = "complete"]
  /\ UNCHANGED <<items, pc, verdict, loop, queue, held, at, root, left, again, ctxDone>>

\* Two parents' goroutines may both have found a node below them not started; the
\* second execution takes the node back, whether or not the tree has finished.
StartAgain(x) ==
  /\ dag[x] \in {"ended", "complete"}
  /\ again[x] < Again[x[1]]
  /\ again' = [again EXCEPT ![x] = @ + 1]
  /\ dag' = [dag EXCEPT ![x] = "ended"]
  /\ UNCHANGED <<items, pc, verdict, loop, queue, held, at, root, left, ctxDone>>

Leave(w) ==
  /\ at' = [at EXCEPT ![w] = "select"]
  /\ held' = [held EXCEPT ![w] = NoRequest]
  /\ root' = [root EXCEPT ![w] = 0]

\* A slip: the closure returns after its first poll.
PollOnce(w) ==
  /\ at[w] = "poll"
  /\ Leave(w)
  /\ UNCHANGED <<items, dag, pc, verdict, loop, queue, left, again, ctxDone>>

\* The closure returns when the tree the loop variable denotes has finished or
\* when the context is done.
Poll(w) ==
  /\ at[w] = "poll"
  /\ dag[<<held[w], loop[held[w]]>>] = "complete" \/ ctxDone
  /\ Leave(w)
  /\ UNCHANGED <<items, dag, pc, verdict, loop, queue, left, again, ctxDone>>

\* The poll reads one node after the other, and does not see that one it has read
\* is taken back before it reads the last.
PollTooEarly(w) ==
  /\ at[w] = "poll"
  /\ LET x == <<held[w], loop[held[w]]>> IN dag[x] = "ended" /\ again[x] > 0
  /\ Leave(w)
  /\ UNCHANGED <<items, dag, pc, verdict, loop, queue, left, again, ctxDone>>

\* It returns as well when a node of the tree cannot be read.
FailPoll(w) ==
  /\ MayFail
  /\ at[w] = "poll"
  /\ left' = left \cup {<<held[w], loop[held[w]]>>}
  /\ Leave(w)
  /\ UNCHANGED <<items, dag, pc, verdict, loop, queue, again, ctxDone>>

Quit(w) ==
  /\ at[w] = "select"
  /\ ctxDone
  /\ at' = [at EXCEPT ![w] = "gone"]
  /\ UNCHANGED <<items, dag, pc, verdict, loop, queue, held, root, left, again, ctxDone>>

Cancel ==
  /\ MayCancel
  /\ ~ctxDone
  /\ ctxDone' = TRUE
  /\ UNCHANGED <<items, dag, pc, verdict, loop, queue, held, at, root, left, again>>

RequestStep(r) ==
  Call(r) \/ NewItem(r) \/ CreateTask(r) \/ TestFull(r) \/ Send(r)
WorkerStep(w) ==
  Take(w) \/ CallExecute(w) \/ StartRoot(w) \/ EndRoot(w) \/ Poll(w) \/ Quit(w)

Next ==
  \/ \E r \in Requests : RequestStep(r)
  \/ \E w \in Workers : WorkerStep(w) \/ PollTooEarly(w) \/ FailPoll(w)
  \/ \E x \in Trees : Complete(x) \/ StartAgain(x)
  \/ Cancel

\* Goroutines are scheduled, and the nodes below an ended root finish unless
\* one of them is stuck.  No fairness makes a poll fail or
\* end too early.
Fairness ==
  /\ \A r \in Requests : WF_vars(RequestStep(r))
  /\ \A w \in Workers : WF_vars(WorkerStep(w))
  /\ \A x \in Trees : x[1] \notin Stuck => WF_vars(Complete(x))

Spec == Init /\ [][Next]_vars
FairSpec == Spec /\ Fairness

-----------------------------------------------------------------------------
\* Of the requests that repeat an identifier one at most gets nodes, however
\* their calls interleave (queue_repository.go:63-67, in_mem.go:49-58).
OneTaskPerItem ==
  \A x, y \in Trees :
    Id[x[1]] = Id[y[1]] /\ dag[x] # "absent" /\ dag[y] # "absent" => x[1] = y[1]

\* A request of the trigger that is turned away because the queue is full has no nodes,
\* and no item unless another request brought the same identifier: only one goroutine
\* adds to that queue, and the first test came before the item was stored
\* (queue_repository.go:60-66).
TriggerRejectedClean ==
  \A r \in Requests :
    Class[r] = "secondary" /\ RootCount[r] = 1 /\ verdict[r] = "full" =>
      /\ dag[<<r, 1>>] = "absent"
      /\ Id[r] \in items => \E s \in Requests \ {r} : Id[s] = Id[r]

\* Of each class no more trees of requests with one root have begun and not finished than
\* it has workers, since a worker stays with the tree its closure denotes unless the server
\* stops. Not counted are the trees whose worker failed to read how far they were, and those
\* of which a node was begun a second time: their worker may have gone
\* (queue_repository.go:75-91, node.go:109,199-207).
Throttled ==
  ~ctxDone =>
    \A c \in Classes :
      Cardinality({x \in Trees \ left :
                     /\ Class[x[1]] = c /\ RootCount[x[1]] = 1 /\ again[x] = 0
                     /\ dag[x] \in {"started", "ended"}})
        <= Cardinality({w \in Workers : Serves[w] = c})

\* Unless the server stops, a request of a user that was accepted completes,
\* although trees of the trigger's requests may hold all of the other queue's
\* workers for good (queue_repository.go:56-59).
PriorityServed ==
  \A x \in Trees :
    Class[x[1]] = "priority" /\ x[1] \notin Stuck =>
      (verdict[x[1]] = "ok" ~> dag[x] = "complete" \/ ctxDone)

\* A request that was accepted has each of its root nodes executed
\* (queue_repository.go:71-75).
EveryRootRuns ==
  \A x \in Trees : verdict[x[1]] = "ok" ~> dag[x] \in {"started", "ended", "complete"}
=============================================================================

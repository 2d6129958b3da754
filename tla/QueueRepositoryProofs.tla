----------------------- MODULE QueueRepositoryProofs -----------------------
(***************************************************************************)
(* The item repository (module QueueRepository), for any requests, any     *)
(* number of root nodes and workers, and with calls that fail at any time: *)
(* of the requests that repeat an identifier one at most gets a graph; the *)
(* graphs in progress are no more than the workers; and a request of the   *)
(* trigger that is turned away leaves nothing behind.                      *)
(*                                                                         *)
(* The argument: the request whose NewItem stored an identifier owns it,   *)
(* while CreateTask runs and ever after as the one that has nodes.  Only   *)
(* an owner makes nodes, and workers only touch what an owner has made.  A *)
(* tree that is in progress has a worker that runs it or polls it, unless  *)
(* its poll failed or a node of it was begun twice (Attended), and no      *)
(* worker has two.  One request of the trigger is under way at a time      *)
(* (OneCaller), so that the room it has found in its queue before it       *)
(* stored the item is still there when it enqueues (RoomKept): it is       *)
(* turned away only before it stores anything.                             *)
(***************************************************************************)
EXTENDS QueueRepository, FunctionTheorems, FiniteSetTheorems, TLAPS

\* A request has nodes, and nodes are never taken back.
Made(r) == \E x \in Trees : x[1] = r /\ dag[x] # "absent"
Owns(r) == pc[r] = "task" \/ Made(r)

Shape ==
  /\ items \subseteq {Id[r] : r \in Requests}
  /\ dag \in [Trees -> {"absent", "queued", "started", "ended", "complete"}]
  /\ pc \in [Requests -> {"new", "store", "task", "enqueue", "send", "done"}]
  /\ queue \in [Classes -> Seq(Requests)]
  /\ held \in [Workers -> Requests \cup {NoRequest}]
  /\ at \in [Workers -> {"select", "call", "start", "run", "poll", "gone"}]

\* What waits to be run, and what is run, has nodes.
QueuedMade ==
  /\ \A r \in Requests : pc[r] \in {"enqueue", "send"} => Made(r)
  /\ \A c \in Classes : \A i \in 1..Len(queue[c]) : Made(queue[c][i])
  /\ \A w \in Workers : at[w] \in {"call", "start", "run", "poll"} => Made(held[w])

\* An identifier with an owner is persisted, and has no other.
OneOwner ==
  /\ \A r \in Requests : Owns(r) => Id[r] \in items
  /\ \A r, s \in Requests : Owns(r) /\ Owns(s) /\ Id[r] = Id[s] => r = s

IInv == Shape /\ QueuedMade /\ OneOwner

-----------------------------------------------------------------------------
LEMMA TreesOfRequests ==
  /\ \A x \in Trees : x[1] \in Requests
  /\ \A r \in Requests : <<r, 1>> \in Trees
<1>1. \A x \in Trees : x[1] \in Requests
  BY DEF Trees
<1>2. ASSUME NEW r \in Requests PROVE <<r, 1>> \in Trees
  <2>1. RootCount[r] \in Nat \ {0}
    BY RequestAssumption
  <2>2. 1 \in UNION {1..RootCount[s] : s \in Requests}
    BY <2>1
  <2> QED
    BY <2>1, <2>2 DEF Trees
<1> QED
  BY <1>1, <1>2

LEMMA ServesAClass == \A w \in Workers : Serves[w] \in Classes
  BY RequestAssumption

LEMMA QueueOfAClass == \A r \in Requests : QueueOf(r) \in Classes
  BY RequestAssumption DEF QueueOf

\* Initially nobody owns anything.
LEMMA InitIInv == Init => IInv
<1> SUFFICES ASSUME Init PROVE IInv
  OBVIOUS
<1>1. Shape
  BY DEF Init, Shape
<1>2. \A r \in Requests : ~Owns(r)
  BY DEF Init, Owns, Made
<1>3. QueuedMade
  BY DEF Init, QueuedMade
<1> QED
  BY <1>1, <1>2, <1>3 DEF IInv, OneOwner

\* Every step keeps the types, and nodes that exist.
LEMMA NextShape == IInv /\ [Next]_vars => Shape'
<1> SUFFICES ASSUME Shape, QueuedMade, [Next]_vars PROVE Shape'
  BY DEF IInv
<1> USE DEF Shape
<1>1. ASSUME NEW r \in Requests, Call(r) PROVE Shape'
  BY <1>1 DEF Call, Answer, Goto
<1>2. ASSUME NEW r \in Requests, NewItem(r) PROVE Shape'
  BY <1>2 DEF NewItem, Answer, Goto
<1>3. ASSUME NEW r \in Requests, CreateTask(r) PROVE Shape'
  BY <1>3 DEF CreateTask, Answer, Goto
<1>4. ASSUME NEW r \in Requests, TestFull(r) PROVE Shape'
  BY <1>4 DEF TestFull, Answer, Goto
<1>5. ASSUME NEW r \in Requests, Send(r) PROVE Shape'
  <2>1. queue' = [queue EXCEPT ![QueueOf(r)] = Append(queue[QueueOf(r)], r)]
    BY <1>5 DEF Send
  <2>2. queue' \in [Classes -> Seq(Requests)]
    BY <2>1, QueueOfAClass
  <2>3. pc' \in [Requests -> {"new", "store", "task", "enqueue", "send", "done"}]
    BY <1>5 DEF Send, Answer, Goto
  <2> QED
    BY <1>5, <2>2, <2>3 DEF Send
<1>6. ASSUME NEW w \in Workers, Take(w) PROVE Shape'
  <2> DEFINE q == queue[Serves[w]]
  <2>1. q \in Seq(Requests) /\ q # <<>>
    BY <1>6, ServesAClass DEF Take
  <2>2. Head(q) \in Requests /\ Tail(q) \in Seq(Requests)
    BY <2>1
  <2>3. queue' \in [Classes -> Seq(Requests)] /\ held' \in [Workers -> Requests \cup {NoRequest}]
    BY <1>6, <2>2 DEF Take
  <2> QED
    BY <1>6, <2>3 DEF Take
<1>7. ASSUME NEW w \in Workers, CallExecute(w) \/ StartRoot(w) \/ EndRoot(w) PROVE Shape'
  BY <1>7 DEF CallExecute, StartRoot, EndRoot
<1>8. ASSUME NEW w \in Workers, Poll(w) \/ PollTooEarly(w) \/ FailPoll(w) \/ Quit(w) PROVE Shape'
  BY <1>8 DEF Poll, PollTooEarly, FailPoll, Quit, Leave
<1>9. ASSUME NEW x \in Trees, Complete(x) \/ StartAgain(x) PROVE Shape'
  BY <1>9 DEF Complete, StartAgain
<1>10. CASE Cancel \/ UNCHANGED vars
  BY <1>10 DEF Cancel, vars
<1> QED
  BY <1>1, <1>2, <1>3, <1>4, <1>5, <1>6, <1>7, <1>8, <1>9, <1>10
  DEF Next, RequestStep, WorkerStep

\* Steps of workers and of trees make no node where there was none of its request, and
\* only CreateTask makes nodes of a request without any.
LEMMA MadeOnlyByCreateTask ==
  ASSUME IInv, [Next]_vars, NEW r \in Requests
  PROVE  Made(r)' => Made(r) \/ CreateTask(r)
<1> USE DEF IInv, Shape
<1>1. ASSUME NEW s \in Requests, CreateTask(s), s # r, Made(r)' PROVE Made(r)
  BY <1>1 DEF CreateTask, Made
<1>2. ASSUME NEW w \in Workers, StartRoot(w) \/ EndRoot(w), Made(r)' PROVE Made(r)
  <2>1. Made(held[w])
    BY <1>2 DEF QueuedMade, StartRoot, EndRoot
  <2>2. PICK x \in Trees : x[1] = r /\ dag'[x] # "absent"
    BY <1>2 DEF Made
  <2>3. CASE x = <<held[w], root[w]>>
    BY <2>1, <2>2, <2>3
  <2>4. CASE x # <<held[w], root[w]>>
    BY <1>2, <2>2, <2>4 DEF StartRoot, EndRoot, Made
  <2> QED
    BY <2>3, <2>4
<1>3. ASSUME NEW y \in Trees, Complete(y) \/ StartAgain(y), Made(r)' PROVE Made(r)
  <2>1. PICK x \in Trees : x[1] = r /\ dag'[x] # "absent"
    BY <1>3 DEF Made
  <2> QED
    BY <1>3, <2>1 DEF Complete, StartAgain, Made
<1>4. ASSUME UNCHANGED dag, Made(r)' PROVE Made(r)
  BY <1>4 DEF Made
<1>5. ASSUME NEW s \in Requests, Call(s) \/ NewItem(s) \/ TestFull(s) \/ Send(s)
      PROVE  UNCHANGED dag
  BY <1>5 DEF Call, NewItem, TestFull, Send
<1>6. ASSUME NEW w \in Workers,
             Take(w) \/ CallExecute(w) \/ Poll(w) \/ PollTooEarly(w) \/ FailPoll(w) \/ Quit(w)
      PROVE  UNCHANGED dag
  BY <1>6 DEF Take, CallExecute, Poll, PollTooEarly, FailPoll, Quit
<1>7. Cancel \/ UNCHANGED vars => UNCHANGED dag
  BY DEF Cancel, vars
<1> QED
  BY <1>1, <1>2, <1>3, <1>4, <1>5, <1>6, <1>7 DEF Next, RequestStep, WorkerStep

LEMMA MadeForGood ==
  ASSUME IInv, [Next]_vars, NEW r, Made(r)
  PROVE  Made(r)'
<1> USE DEF IInv, Shape
<1>1. PICK x \in Trees : x[1] = r /\ dag[x] # "absent"
  BY DEF Made
<1>2. SUFFICES dag'[x] # "absent"
  BY <1>1 DEF Made
<1>3. ASSUME NEW s \in Requests, CreateTask(s) PROVE dag'[x] # "absent"
  BY <1>1, <1>3 DEF CreateTask
<1>4. ASSUME NEW w \in Workers, StartRoot(w) \/ EndRoot(w) PROVE dag'[x] # "absent"
  BY <1>1, <1>4 DEF StartRoot, EndRoot
<1>5. ASSUME NEW y \in Trees, Complete(y) \/ StartAgain(y) PROVE dag'[x] # "absent"
  BY <1>1, <1>5 DEF Complete, StartAgain
<1>6. ASSUME NEW s \in Requests, Call(s) \/ NewItem(s) \/ TestFull(s) \/ Send(s)
      PROVE  UNCHANGED dag
  BY <1>6 DEF Call, NewItem, TestFull, Send
<1>7. ASSUME NEW w \in Workers,
             Take(w) \/ CallExecute(w) \/ Poll(w) \/ PollTooEarly(w) \/ FailPoll(w) \/ Quit(w)
      PROVE  UNCHANGED dag
  BY <1>7 DEF Take, CallExecute, Poll, PollTooEarly, FailPoll, Quit
<1>8. Cancel \/ UNCHANGED vars => UNCHANGED dag
  BY DEF Cancel, vars
<1> QED
  BY <1>1, <1>3, <1>4, <1>5, <1>6, <1>7, <1>8 DEF Next, RequestStep, WorkerStep

\* A queue gets longer only by a request that is sent to it, and holds nothing new else.
LEMMA QueueContents ==
  ASSUME IInv, [Next]_vars, NEW c \in Classes
  PROVE  \/ \E r \in Requests :
              Send(r) /\ QueueOf(r) = c /\ queue'[c] = Append(queue[c], r)
         \/ /\ Len(queue'[c]) \in Nat /\ Len(queue'[c]) <= Len(queue[c])
            /\ \A i \in 1..Len(queue'[c]) : \E j \in 1..Len(queue[c]) : queue'[c][i] = queue[c][j]
<1> USE DEF IInv, Shape
<1>0. queue[c] \in Seq(Requests) /\ Len(queue[c]) \in Nat
  OBVIOUS
<1>1. ASSUME NEW r \in Requests, Send(r)
      PROVE  queue'[c] = queue[c] \/ (QueueOf(r) = c /\ queue'[c] = Append(queue[c], r))
  BY <1>1 DEF Send
<1>2. ASSUME NEW w \in Workers, Take(w)
      PROVE  queue'[c] = queue[c] \/ (queue[c] # <<>> /\ queue'[c] = Tail(queue[c]))
  BY <1>2 DEF Take
<1>3. \/ UNCHANGED queue
      \/ \E r \in Requests : Send(r)
      \/ \E w \in Workers : Take(w)
  BY DEF Next, RequestStep, Call, NewItem, CreateTask, TestFull, WorkerStep, CallExecute,
    StartRoot, EndRoot, Poll, PollTooEarly, FailPoll, Quit, Complete, StartAgain,
    Cancel, vars
<1>4. CASE queue'[c] = queue[c]
  BY <1>0, <1>4
<1>5. CASE queue[c] # <<>> /\ queue'[c] = Tail(queue[c])
  <2>1. /\ Len(queue'[c]) = Len(queue[c]) - 1
        /\ \A i \in 1..Len(queue'[c]) : queue'[c][i] = queue[c][i + 1]
    BY <1>0, <1>5
  <2>2. \A i \in 1..Len(queue'[c]) : i + 1 \in 1..Len(queue[c])
    BY <1>0, <2>1
  <2>3. Len(queue'[c]) \in Nat
    BY <1>0, <1>5
  <2> QED
    BY <1>0, <2>1, <2>2, <2>3
<1> QED
  BY <1>1, <1>2, <1>3, <1>4, <1>5

\* A worker in a closure was in it before, or takes it from the head of its queue.
LEMMA HeldFrom ==
  ASSUME IInv, [Next]_vars, NEW w \in Workers,
         at'[w] \in {"call", "start", "run", "poll"}
  PROVE  \/ at[w] \in {"call", "start", "run", "poll"} /\ held'[w] = held[w]
         \/ 1 \in 1..Len(queue[Serves[w]]) /\ held'[w] = queue[Serves[w]][1]
<1> USE DEF IInv, Shape
<1>1. CASE Take(w)
  <2> DEFINE q == queue[Serves[w]]
  <2>1. q \in Seq(Requests) /\ q # <<>>
    BY <1>1, ServesAClass DEF Take
  <2>2. 1 \in 1..Len(q) /\ held'[w] = q[1]
    BY <1>1, <2>1 DEF Take
  <2> QED
    BY <2>2
<1>2. CASE ~Take(w)
  <2>1. ASSUME NEW u \in Workers, u # w, WorkerStep(u) \/ PollTooEarly(u) \/ FailPoll(u)
        PROVE  at'[w] = at[w] /\ held'[w] = held[w]
    BY <2>1 DEF WorkerStep, Take, CallExecute, StartRoot, EndRoot, Poll, PollTooEarly, FailPoll, Quit, Leave
  <2>2. ASSUME WorkerStep(w) \/ PollTooEarly(w) \/ FailPoll(w)
        PROVE  at[w] \in {"call", "start", "run", "poll"} /\ held'[w] = held[w]
    BY <1>2, <2>2 DEF WorkerStep, CallExecute, StartRoot, EndRoot, Poll, PollTooEarly, FailPoll, Quit, Leave
  <2>3. ASSUME \/ \E r \in Requests : RequestStep(r)
               \/ \E x \in Trees : Complete(x) \/ StartAgain(x)
               \/ Cancel \/ UNCHANGED vars
        PROVE  UNCHANGED <<at, held>>
    BY <2>3 DEF RequestStep, Call, NewItem, CreateTask, TestFull, Send, Complete,
      StartAgain, Cancel, vars
  <2> QED
    BY <2>1, <2>2, <2>3 DEF Next
<1> QED
  BY <1>1, <1>2

\* Only requests with nodes get past CreateTask, into a queue and to a worker.
LEMMA NextQueuedMade == IInv /\ [Next]_vars => QueuedMade'
<1> SUFFICES ASSUME IInv, [Next]_vars PROVE QueuedMade'
  OBVIOUS
<1> USE DEF IInv
<1>0. \A r : Made(r) => Made(r)'
  BY MadeForGood
<1>1. ASSUME NEW r \in Requests, pc'[r] \in {"enqueue", "send"} PROVE Made(r)'
  <2>1. CASE pc[r] \in {"enqueue", "send"}
    BY <1>0, <2>1 DEF QueuedMade
  <2>2. CASE CreateTask(r)
    <3>1. <<r, 1>> \in Trees /\ dag'[<<r, 1>>] = "queued"
      BY <1>1, <2>2, TreesOfRequests DEF CreateTask, Answer, Shape
    <3> QED
      BY <3>1 DEF Made
  <2>3. CASE pc[r] \notin {"enqueue", "send"} /\ ~CreateTask(r)
    <3>1. ASSUME NEW s \in Requests, RequestStep(s) PROVE FALSE
      <4>1. CASE s = r
        BY <1>1, <2>3, <3>1, <4>1
        DEF RequestStep, Call, NewItem, TestFull, Send, Answer, Goto, Shape
      <4>2. CASE s # r
        BY <1>1, <2>3, <3>1, <4>2
        DEF RequestStep, Call, NewItem, CreateTask, TestFull, Send, Answer, Goto, Shape
      <4> QED
        BY <4>1, <4>2
    <3>2. ASSUME \/ \E w \in Workers : WorkerStep(w) \/ PollTooEarly(w) \/ FailPoll(w)
                 \/ \E x \in Trees : Complete(x) \/ StartAgain(x)
                 \/ Cancel \/ UNCHANGED vars
          PROVE  UNCHANGED pc
      BY <3>2 DEF WorkerStep, Take, CallExecute, StartRoot, EndRoot, Poll, PollTooEarly, FailPoll, Quit,
        Complete, StartAgain, Cancel, vars
    <3> QED
      BY <1>1, <2>3, <3>1, <3>2 DEF Next
  <2> QED
    BY <2>1, <2>2, <2>3
<1>2. ASSUME NEW c \in Classes, NEW i \in 1..Len(queue'[c]), NEW q, q = queue'[c][i]
      PROVE  Made(q)'
  <2>1. CASE \E j \in 1..Len(queue[c]) : q = queue[c][j]
    BY <1>0, <2>1 DEF QueuedMade
  <2>2. ASSUME NEW r \in Requests, Send(r), queue'[c] = Append(queue[c], r) PROVE Made(q)'
    <3>1. queue[c] \in Seq(Requests) /\ Made(r)
      BY <2>2 DEF Shape, Send, QueuedMade
    <3>2. q = r \/ \E j \in 1..Len(queue[c]) : q = queue[c][j]
      BY <1>2, <2>2, <3>1
    <3> QED
      BY <1>0, <2>1, <3>1, <3>2
  <2> QED
    BY <1>2, <2>1, <2>2, QueueContents
<1>3. ASSUME NEW w \in Workers, at'[w] \in {"call", "start", "run", "poll"},
             NEW h, h = held'[w]
      PROVE  Made(h)'
  BY <1>0, <1>3, HeldFrom, ServesAClass DEF QueuedMade
<1> QED
  BY <1>1, <1>2, <1>3 DEF QueuedMade, Made

\* A request becomes an owner only by storing an identifier that nobody had stored.
LEMMA NextOneOwner == IInv /\ [Next]_vars => OneOwner'
<1> SUFFICES ASSUME IInv, [Next]_vars PROVE OneOwner'
  OBVIOUS
<1> USE DEF IInv, Shape
<1>1. items \subseteq items'
  BY DEF Next, RequestStep, Call, NewItem, CreateTask, TestFull, Send, WorkerStep, Take,
    CallExecute, StartRoot, EndRoot, Poll, PollTooEarly, FailPoll, Quit, Complete,
    StartAgain, Cancel, vars
<1>2. ASSUME NEW r \in Requests, pc'[r] = "task", pc[r] # "task" PROVE NewItem(r)
  BY <1>2 DEF Next, RequestStep, Call, NewItem, CreateTask, TestFull, Send, Answer, Goto,
    WorkerStep, Take, CallExecute, StartRoot, EndRoot, Poll, PollTooEarly, FailPoll,
    Quit, Complete, StartAgain,
    Cancel, vars
<1>3. ASSUME NEW r \in Requests, Owns(r)'
      PROVE  Owns(r) \/ (NewItem(r) /\ Id[r] \notin items /\ Id[r] \in items')
  <2>1. CASE Made(r)'
    BY <2>1, MadeOnlyByCreateTask DEF Owns, CreateTask
  <2>2. CASE pc'[r] = "task" /\ pc[r] # "task"
    BY <1>2, <2>2 DEF NewItem, Answer
  <2> QED
    BY <1>3, <2>1, <2>2 DEF Owns
<1>4. \A r \in Requests : Owns(r)' => Id[r] \in items'
  BY <1>1, <1>3 DEF OneOwner
<1>5. ASSUME NEW r \in Requests, NEW s \in Requests, Owns(r)', Owns(s)', Id[r] = Id[s]
      PROVE  r = s
  <2>1. CASE Owns(r) /\ Owns(s)
    BY <1>5, <2>1 DEF OneOwner
  <2>2. CASE Owns(r) /\ ~Owns(s)
    BY <1>3, <1>5, <2>2 DEF OneOwner
  <2>3. CASE ~Owns(r) /\ Owns(s)
    BY <1>3, <1>5, <2>3 DEF OneOwner
  <2>4. ASSUME NewItem(r), NewItem(s), r # s PROVE FALSE
    BY <2>4 DEF NewItem, Answer, Goto
  <2> QED
    BY <1>3, <1>5, <2>1, <2>2, <2>3, <2>4
<1> QED
  BY <1>4, <1>5 DEF OneOwner

LEMMA NextIInv == IInv /\ [Next]_vars => IInv'
  BY NextShape, NextQueuedMade, NextOneOwner DEF IInv

\* Nodes of two requests with one identifier are those of one request.
LEMMA IInvGivesOneTask == IInv => OneTaskPerItem
  BY TreesOfRequests DEF IInv, OneOwner, OneTaskPerItem, Owns, Made

\* Of the requests that repeat an identifier one at most gets nodes: NewItem comes
\* before CreateTask and is refused for a known identifier (queue_repository.go:63-70).
THEOREM OneTaskPerIdentifier == Spec => []OneTaskPerItem
  BY InitIInv, NextIInv, IInvGivesOneTask, PTL DEF Spec

\* A closure that waits or is run belongs to a request all of whose calls so far have
\* succeeded, and whose nodes exist (queue_repository.go:69-75).
THEOREM ClosuresHaveNodes == Spec => []QueuedMade
<1>1. IInv => QueuedMade
  BY DEF IInv
<1> QED
  BY <1>1, InitIInv, NextIInv, PTL DEF Spec

-----------------------------------------------------------------------------
\* The types that the facts above do not need, and that Create's loop has begun where
\* there are nodes.
OtherKinds ==
  /\ verdict \in [Requests -> {"none", "ok", "invalid", "full", "error"}]
  /\ loop \in [Requests -> Nat]
  /\ root \in [Workers -> Nat]
  /\ left \subseteq Trees
  /\ again \in [Trees -> Nat] /\ \A x \in Trees : again[x] <= Again[x[1]]
  /\ ctxDone \in BOOLEAN
  /\ \A r \in Requests : (pc[r] = "done") <=> (verdict[r] # "none")
  /\ \A w \in Workers : held[w] = NoRequest <=> at[w] \in {"select", "gone"}
LoopSet ==
  \A r \in Requests : loop[r] <= RootCount[r] /\ (Made(r) => loop[r] >= 1)

\* The tree the loop variable denotes is one of the request's.
LEMMA LoopDenotesTree ==
  ASSUME OtherKinds, LoopSet, NEW r \in Requests, Made(r)
  PROVE  <<r, loop[r]>> \in Trees
<1>1. RootCount[r] \in Nat \ {0} /\ loop[r] \in 1..RootCount[r]
  BY RequestAssumption DEF OtherKinds, LoopSet
<1> QED
  BY <1>1 DEF Trees

\* Only CreateTask and Send touch Create's loop variable.
LEMMA NextLoopSet == IInv /\ OtherKinds /\ LoopSet /\ [Next]_vars => LoopSet'
<1> SUFFICES ASSUME IInv, OtherKinds, LoopSet, [Next]_vars, NEW r \in Requests
             PROVE  loop'[r] <= RootCount[r] /\ (Made(r)' => loop'[r] >= 1)
  BY DEF LoopSet
<1>0. /\ RootCount[r] \in Nat \ {0} /\ loop[r] \in Nat /\ loop[r] <= RootCount[r]
      /\ Made(r) => loop[r] >= 1
  BY RequestAssumption DEF OtherKinds, LoopSet
<1>1. CASE CreateTask(r)
  <2>1. CASE loop' = [loop EXCEPT ![r] = 1]
    BY <1>0, <2>1 DEF OtherKinds
  <2>2. CASE UNCHANGED <<dag, loop>>
    BY <1>0, <2>2 DEF Made
  <2> QED
    BY <1>1, <2>1, <2>2 DEF CreateTask
<1>2. CASE ~CreateTask(r)
  <2>1. Made(r)' => Made(r)
    BY <1>2, MadeOnlyByCreateTask
  <2>2. loop'[r] = loop[r] \/ (loop[r] < RootCount[r] /\ loop'[r] = loop[r] + 1)
    <3>1. ASSUME NEW s \in Requests, Send(s)
          PROVE  loop'[r] = loop[r] \/ (loop[r] < RootCount[r] /\ loop'[r] = loop[r] + 1)
      BY <3>1 DEF Send, OtherKinds
    <3>2. ASSUME NEW s \in Requests, CreateTask(s) PROVE loop'[r] = loop[r]
      BY <1>2, <3>2 DEF CreateTask, OtherKinds
    <3>3. ASSUME UNCHANGED loop PROVE loop'[r] = loop[r]
      BY <3>3
    <3> QED
      BY <3>1, <3>2, <3>3 DEF Next, RequestStep, Call, NewItem, TestFull, WorkerStep, Take,
        CallExecute, StartRoot, EndRoot, Poll, PollTooEarly, FailPoll, Quit, Complete,
        StartAgain, Cancel, vars
  <2> QED
    BY <1>0, <2>1, <2>2
<1> QED
  BY <1>1, <1>2

LEMMA NextOtherKinds == IInv /\ OtherKinds /\ LoopSet /\ [Next]_vars => OtherKinds'
<1> SUFFICES ASSUME IInv, OtherKinds, LoopSet, [Next]_vars PROVE OtherKinds'
  OBVIOUS
<1> USE DEF OtherKinds
<1>0. Shape
  BY DEF IInv
<1>1. ASSUME NEW r \in Requests, RequestStep(r) PROVE OtherKinds'
  <2>1. /\ pc[r] # "done" /\ UNCHANGED <<root, left, again, ctxDone, held, at>>
        /\ Answer(r, "invalid") \/ Answer(r, "full") \/ Answer(r, "error") \/ Answer(r, "ok")
           \/ Goto(r, "store") \/ Goto(r, "task") \/ Goto(r, "enqueue") \/ Goto(r, "send")
    BY <1>1 DEF RequestStep, Call, NewItem, CreateTask, TestFull, Send
  <2>2. \/ UNCHANGED loop
        \/ loop' = [loop EXCEPT ![r] = 1]
        \/ loop' = [loop EXCEPT ![r] = @ + 1]
    BY <1>1 DEF RequestStep, Call, NewItem, CreateTask, TestFull, Send
  <2>3. loop' \in [Requests -> Nat]
    BY <2>2
  <2>4. ASSUME NEW v \in {"ok", "invalid", "full", "error"}, Answer(r, v)
        PROVE  /\ verdict' \in [Requests -> {"none", "ok", "invalid", "full", "error"}]
               /\ \A s \in Requests : (pc'[s] = "done") <=> (verdict'[s] # "none")
    BY <1>0, <2>4 DEF Answer, Shape
  <2>5. ASSUME NEW l \in {"store", "task", "enqueue", "send"}, Goto(r, l)
        PROVE  /\ verdict' \in [Requests -> {"none", "ok", "invalid", "full", "error"}]
               /\ \A s \in Requests : (pc'[s] = "done") <=> (verdict'[s] # "none")
    BY <1>0, <2>1, <2>5 DEF Goto, Shape
  <2> QED
    BY <2>1, <2>3, <2>4, <2>5
<1>2. ASSUME NEW w \in Workers, Take(w) PROVE OtherKinds'
  <2> DEFINE q == queue[Serves[w]]
  <2>1. q \in Seq(Requests) /\ q # <<>>
    BY <1>0, <1>2, ServesAClass DEF Take, Shape
  <2>2. Head(q) \in Requests /\ Head(q) # NoRequest
    BY <2>1, RequestAssumption DEF NoRequest
  <2>3. held' = [held EXCEPT ![w] = Head(q)] /\ at' = [at EXCEPT ![w] = "call"]
    BY <1>2 DEF Take
  <2>4. \A u \in Workers : held'[u] = NoRequest <=> at'[u] \in {"select", "gone"}
    BY <1>0, <2>2, <2>3 DEF Shape
  <2> QED
    BY <1>2, <2>4 DEF Take
<1>3. ASSUME NEW w \in Workers, CallExecute(w) PROVE OtherKinds'
  <2>1. held[w] \in Requests
    BY <1>0, <1>3 DEF CallExecute, Shape
  <2> QED
    BY <1>0, <1>3, <2>1 DEF CallExecute, Shape
<1>4. ASSUME NEW w \in Workers, StartRoot(w) \/ EndRoot(w) PROVE OtherKinds'
  <2>1. /\ UNCHANGED <<verdict, loop, root, left, again, ctxDone, pc, held>>
        /\ at[w] \in {"start", "run"}
        /\ at' = [at EXCEPT ![w] = "run"] \/ at' = [at EXCEPT ![w] = "poll"]
    BY <1>4 DEF StartRoot, EndRoot
  <2>2. \A u \in Workers : at'[u] \in {"select", "gone"} <=> at[u] \in {"select", "gone"}
    BY <1>0, <2>1 DEF Shape
  <2> QED
    BY <2>1, <2>2
<1>5. ASSUME NEW w \in Workers, Poll(w) \/ PollTooEarly(w) \/ Quit(w) PROVE OtherKinds'
  <2>1. CASE Poll(w) \/ PollTooEarly(w)
    BY <1>0, <2>1 DEF Poll, PollTooEarly, Leave, Shape
  <2>2. CASE Quit(w)
    BY <1>0, <2>2 DEF Quit, Shape
  <2> QED
    BY <1>5, <2>1, <2>2
<1>6. ASSUME NEW w \in Workers, FailPoll(w) PROVE OtherKinds'
  <2>1. held[w] \in Requests /\ Made(held[w])
    BY <1>0, <1>6 DEF FailPoll, Shape, IInv, QueuedMade
  <2>2. left' \subseteq Trees
    BY <1>6, <2>1, LoopDenotesTree DEF FailPoll
  <2> QED
    BY <1>0, <1>6, <2>2 DEF FailPoll, Leave, Shape
<1>8. ASSUME NEW x \in Trees, StartAgain(x) PROVE OtherKinds'
  <2>1. again[x] \in Nat /\ Again[x[1]] \in Nat
    BY RequestAssumption DEF Trees
  <2>2. /\ again' \in [Trees -> Nat]
        /\ \A y \in Trees : again'[y] = IF y = x THEN again[x] + 1 ELSE again[y]
    BY <1>8, <2>1 DEF StartAgain
  <2>3. \A y \in Trees : again'[y] <= Again[y[1]]
    BY <1>8, <2>1, <2>2 DEF StartAgain
  <2> QED
    BY <1>8, <2>2, <2>3 DEF StartAgain
<1>7. CASE \/ \E x \in Trees : Complete(x)
           \/ Cancel \/ UNCHANGED vars
  BY <1>7 DEF Complete, Cancel, vars
<1> QED
  BY <1>1, <1>2, <1>3, <1>4, <1>5, <1>6, <1>7, <1>8 DEF Next, WorkerStep

TypedInv == IInv /\ OtherKinds /\ LoopSet

LEMMA InitTyped == Init => TypedInv
<1> SUFFICES ASSUME Init PROVE OtherKinds /\ LoopSet
  BY InitIInv DEF TypedInv
<1>1. OtherKinds
  <2>1. \A x \in Trees : again[x] = 0 /\ Again[x[1]] \in Nat
    BY RequestAssumption DEF Init, Trees
  <2>2. \A x \in Trees : again[x] <= Again[x[1]]
    BY <2>1
  <2> QED
    BY <2>2 DEF Init, OtherKinds
<1>2. \A r \in Requests : RootCount[r] \in Nat /\ ~Made(r)
  BY RequestAssumption DEF Init, Made
<1>3. LoopSet
  BY <1>2 DEF Init, LoopSet
<1> QED
  BY <1>1, <1>3

LEMMA NextTyped == TypedInv /\ [Next]_vars => TypedInv'
  BY NextIInv, NextOtherKinds, NextLoopSet DEF TypedInv

\* Every variable keeps its type, and a worker holds a request exactly while it is in a
\* closure (queue_repository.go:49-98).
THEOREM RepositoryTyped == Spec => []TypeOK
<1>1. TypedInv => TypeOK
  BY DEF TypedInv, IInv, Shape, OtherKinds, LoopSet, TypeOK
<1> QED
  BY <1>1, InitTyped, NextTyped, PTL DEF Spec

-----------------------------------------------------------------------------
\* Requests keep to their own class's queue and workers.
ClassKept ==
  /\ \A c \in Classes : \A i \in 1..Len(queue[c]) : Class[queue[c][i]] = c
  /\ \A w \in Workers : at[w] \in {"call", "start", "run", "poll"} => Class[held[w]] = Serves[w]

\* The tree of a request's only root has a worker while it is unfinished and none of
\* its nodes was begun twice.
Attends(w, r) == held[w] = r /\ at[w] \in {"run", "poll"}
Unfinished(x) ==
  RootCount[x[1]] = 1 /\ again[x] = 0 /\ dag[x] \in {"started", "ended"}
Attended == ~ctxDone => \A x \in Trees \ left : Unfinished(x) => \E w \in Workers : Attends(w, x[1])

LEMMA OnlyTree ==
  ASSUME NEW x \in Trees, RootCount[x[1]] = 1
  PROVE  x = <<x[1], 1>> /\ x[1] \in Requests
<1>1. x[1] \in Requests /\ x = <<x[1], x[2]>> /\ x[2] <= 1
  BY DEF Trees
<1>2. PICK r \in Requests : x[2] \in 1..RootCount[r]
  BY DEF Trees
<1>3. x[2] = 1
  BY <1>1, <1>2, RequestAssumption
<1> QED
  BY <1>1, <1>3

LEMMA NextClassKept == IInv /\ ClassKept /\ [Next]_vars => ClassKept'
<1> SUFFICES ASSUME IInv, ClassKept, [Next]_vars PROVE ClassKept'
  OBVIOUS
<1>1. ASSUME NEW c \in Classes, NEW i \in 1..Len(queue'[c]) PROVE Class[queue'[c][i]] = c
  <2>1. CASE \E j \in 1..Len(queue[c]) : queue'[c][i] = queue[c][j]
    BY <2>1 DEF ClassKept
  <2>2. ASSUME NEW r \in Requests, QueueOf(r) = c, queue'[c] = Append(queue[c], r)
        PROVE  Class[queue'[c][i]] = c
    <3>1. queue[c] \in Seq(Requests)
      BY DEF IInv, Shape
    <3>2. queue'[c][i] = r \/ \E j \in 1..Len(queue[c]) : queue'[c][i] = queue[c][j]
      BY <1>1, <2>2, <3>1
    <3> QED
      BY <2>1, <2>2, <3>2 DEF QueueOf
  <2> QED
    BY <1>1, <2>1, <2>2, QueueContents
<1>2. ASSUME NEW w \in Workers, at'[w] \in {"call", "start", "run", "poll"}
      PROVE  Class[held'[w]] = Serves[w]
  BY <1>2, HeldFrom, ServesAClass DEF ClassKept
<1> QED
  BY <1>1, <1>2 DEF ClassKept

\* A tree that begins or goes on is the one its worker was given.
LEMMA BegunByWorker ==
  ASSUME TypedInv, [Next]_vars, NEW x \in Trees, Unfinished(x)', ~Unfinished(x)
  PROVE  \E w \in Workers : Attends(w, x[1])'
<1> USE DEF TypedInv, IInv, Shape, Unfinished
<1>1. ASSUME NEW w \in Workers, StartRoot(w) \/ EndRoot(w) PROVE Attends(w, x[1])'
  <2>1. x = <<held[w], root[w]>>
    BY <1>1 DEF StartRoot, EndRoot
  <2>2. held'[w] = held[w] /\ at'[w] \in {"run", "poll"}
    BY <1>1 DEF StartRoot, EndRoot
  <2> QED
    BY <2>1, <2>2 DEF Attends
<1>2. ASSUME NEW r \in Requests, CreateTask(r) PROVE FALSE
  BY <1>2 DEF CreateTask
<1>3. ASSUME NEW y \in Trees, Complete(y) \/ StartAgain(y) PROVE FALSE
  <2>1. again[x] \in Nat /\ again[y] \in Nat
    BY DEF OtherKinds
  <2>2. CASE x = y
    BY <1>3, <2>1, <2>2 DEF Complete, StartAgain, OtherKinds
  <2>3. CASE x # y
    BY <1>3, <2>3 DEF Complete, StartAgain, OtherKinds
  <2> QED
    BY <2>2, <2>3
<1>4. ASSUME NEW s \in Requests, Call(s) \/ NewItem(s) \/ TestFull(s) \/ Send(s)
      PROVE  UNCHANGED <<dag, again>>
  BY <1>4 DEF Call, NewItem, TestFull, Send
<1>5. ASSUME NEW w \in Workers,
             \/ Take(w) \/ CallExecute(w) \/ Poll(w) \/ PollTooEarly(w)
             \/ FailPoll(w) \/ Quit(w)
      PROVE  UNCHANGED <<dag, again>>
  BY <1>5 DEF Take, CallExecute, Poll, PollTooEarly, FailPoll, Quit
<1>6. Cancel \/ UNCHANGED vars => UNCHANGED <<dag, again>>
  BY DEF Cancel, vars
<1> QED
  BY <1>1, <1>2, <1>3, <1>4, <1>5, <1>6 DEF Next, RequestStep, WorkerStep

\* A worker goes away from an unfinished tree of one root only when its poll fails,
\* none of its nodes having been begun twice.
LEMMA AttendanceKept ==
  ASSUME TypedInv, [Next]_vars, ~ctxDone, NEW x \in Trees, Unfinished(x), x \notin left',
         NEW w \in Workers, Attends(w, x[1])
  PROVE  Attends(w, x[1])'
<1> USE DEF TypedInv, IInv, Shape
<1>1. x = <<x[1], 1>> /\ x[1] \in Requests /\ Made(x[1])
  BY OnlyTree DEF Unfinished, Made
<1>2. loop[x[1]] = 1
  BY <1>1 DEF Unfinished, LoopSet, OtherKinds
<1>3. <<held[w], loop[held[w]]>> = x
  BY <1>1, <1>2 DEF Attends
<1>4. ~Poll(w) /\ ~PollTooEarly(w) /\ ~FailPoll(w)
  <2>1. dag[x] # "complete" /\ ~(again[x] > 0)
    BY DEF Unfinished
  <2>2. ~Poll(w)
    BY <1>3, <2>1 DEF Poll
  <2>3. ~PollTooEarly(w)
    BY <1>3, <2>1 DEF PollTooEarly
  <2>4. ~FailPoll(w)
    BY <1>3 DEF FailPoll
  <2> QED
    BY <2>2, <2>3, <2>4
<1>5. ~Take(w) /\ ~CallExecute(w) /\ ~StartRoot(w) /\ ~Quit(w)
  BY DEF Attends, Take, CallExecute, StartRoot, Quit
<1>6. CASE EndRoot(w)
  BY <1>6 DEF EndRoot, Attends
<1>7. ASSUME NEW u \in Workers, u # w, WorkerStep(u) \/ PollTooEarly(u) \/ FailPoll(u)
      PROVE  at'[w] = at[w] /\ held'[w] = held[w]
  BY <1>7 DEF WorkerStep, Take, CallExecute, StartRoot, EndRoot, Poll, PollTooEarly, FailPoll, Quit, Leave
<1>8. ASSUME \/ \E r \in Requests : RequestStep(r)
             \/ \E y \in Trees : Complete(y) \/ StartAgain(y)
             \/ Cancel \/ UNCHANGED vars
      PROVE  UNCHANGED <<at, held>>
  BY <1>8 DEF RequestStep, Call, NewItem, CreateTask, TestFull, Send, Complete,
    StartAgain, Cancel, vars
<1> QED
  BY <1>4, <1>5, <1>6, <1>7, <1>8 DEF Next, WorkerStep, Attends

LEMMA NextAttended == TypedInv /\ Attended /\ [Next]_vars => Attended'
<1> SUFFICES ASSUME TypedInv, Attended, [Next]_vars, ~ctxDone',
                    NEW x \in Trees, x \notin left', Unfinished(x)'
             PROVE  \E w \in Workers : Attends(w, x[1])'
  BY DEF Attended
<1>1. ~ctxDone /\ left \subseteq left'
  <2>1. ASSUME NEW w \in Workers, FailPoll(w) PROVE ~ctxDone /\ left \subseteq left'
    BY <2>1 DEF FailPoll
  <2>2. ~Cancel
    BY DEF Cancel
  <2>3. UNCHANGED <<left, ctxDone>> \/ \E w \in Workers : FailPoll(w)
    BY <2>2 DEF Next, RequestStep, Call, NewItem, CreateTask, TestFull, Send, WorkerStep, Take,
      CallExecute, StartRoot, EndRoot, Poll, PollTooEarly, Quit, Complete, StartAgain, vars
  <2> QED
    BY <2>1, <2>3
<1>2. CASE ~Unfinished(x)
  BY <1>2, BegunByWorker
<1>3. CASE Unfinished(x)
  BY <1>1, <1>3, AttendanceKept DEF Attended
<1> QED
  BY <1>2, <1>3

\* Trees of a class are told apart by the workers that attend to them.
LEMMA AttendedThrottles == TypedInv /\ ClassKept /\ Attended => Throttled
<1> SUFFICES ASSUME TypedInv, ClassKept, Attended, ~ctxDone, NEW c \in Classes
             PROVE  Cardinality({x \in Trees \ left :
                                   /\ Class[x[1]] = c /\ RootCount[x[1]] = 1 /\ again[x] = 0
                                   /\ dag[x] \in {"started", "ended"}})
                      <= Cardinality({w \in Workers : Serves[w] = c})
  BY DEF Throttled
<1> DEFINE open == {x \in Trees \ left : /\ Class[x[1]] = c /\ RootCount[x[1]] = 1 /\ again[x] = 0
                                        /\ dag[x] \in {"started", "ended"}}
           serving == {w \in Workers : Serves[w] = c}
           by == [x \in open |-> CHOOSE w \in serving : Attends(w, x[1])]
<1>1. ASSUME NEW x \in open PROVE by[x] \in serving /\ held[by[x]] = x[1]
  <2>1. PICK w \in Workers : Attends(w, x[1])
    BY DEF Attended, Unfinished
  <2>2. w \in serving
    BY <2>1 DEF ClassKept, Attends
  <2> QED
    BY <2>1, <2>2 DEF Attends
<1> HIDE DEF by
<1>2. \A x, y \in open : by[x] = by[y] => x = y
  <2>1. ASSUME NEW x \in open, NEW y \in open, by[x] = by[y] PROVE x = y
    <3>1. x[1] = y[1]
      BY <1>1, <2>1
    <3> QED
      BY <3>1, OnlyTree
  <2> QED
    BY <2>1
<1>3. IsFiniteSet(serving)
  BY RequestAssumption, FS_Subset
<1>4. by \in Injection(open, serving)
  <2>1. by \in [open -> serving]
    BY <1>1 DEF by
  <2> QED
    BY <1>2, <2>1, Fun_IsInj
<1> QED
  BY <1>3, <1>4, FS_Injection

\* Of each class no more trees of requests with one root have begun and not finished
\* than the class has workers, the server not stopping; trees whose poll failed or a
\* node of which was begun twice are not counted (queue_repository.go:75-91).
THEOREM AlwaysThrottled == Spec => []Throttled
<1>1. Init => ClassKept /\ Attended
  BY DEF Init, ClassKept, Attended, Unfinished
<1>2. TypedInv => IInv
  BY DEF TypedInv
<1> QED
  BY <1>1, <1>2, InitTyped, NextTyped, NextClassKept, NextAttended, AttendedThrottles, PTL
  DEF Spec

-----------------------------------------------------------------------------
\* One request of the trigger is under way at a time, and if it has one root, then the
\* room its first test has found is still there.
UnderWay(r) == Class[r] = "secondary" /\ pc[r] \notin {"new", "done"}
OneCaller == \A r, s \in Requests : UnderWay(r) /\ UnderWay(s) => r = s
RoomKept ==
  /\ \A c \in Classes : Len(queue[c]) <= Capacity
  /\ \A r \in Requests :
       UnderWay(r) /\ RootCount[r] = 1 => Len(queue["secondary"]) < Capacity

\* A request without nodes whose identifier is persisted, if it is, for another.
Clean(r) == ~Made(r) /\ (Id[r] \in items => \E s \in Requests \ {r} : Id[s] = Id[r])
Rejects ==
  \A r \in Requests :
    /\ pc[r] \in {"new", "store"} => Clean(r)
    /\ Class[r] = "secondary" /\ RootCount[r] = 1 /\ verdict[r] = "full" => Clean(r)

\* A request's place changes by its own steps.
LEMMA OwnSteps ==
  ASSUME TypedInv, [Next]_vars, NEW r \in Requests
  PROVE  RequestStep(r) \/ (pc'[r] = pc[r] /\ verdict'[r] = verdict[r])
<1> USE DEF TypedInv, IInv, Shape, OtherKinds
<1>1. ASSUME NEW s \in Requests, s # r, RequestStep(s)
      PROVE  pc'[r] = pc[r] /\ verdict'[r] = verdict[r]
  <2>1. \/ \E v \in {"invalid", "full", "error", "ok"} : Answer(s, v)
        \/ \E l \in {"store", "task", "enqueue", "send"} : Goto(s, l)
    BY <1>1 DEF RequestStep, Call, NewItem, CreateTask, TestFull, Send
  <2> QED
    BY <1>1, <2>1 DEF Answer, Goto
<1>2. ASSUME \/ \E w \in Workers : WorkerStep(w) \/ PollTooEarly(w) \/ FailPoll(w)
             \/ \E x \in Trees : Complete(x) \/ StartAgain(x)
             \/ Cancel \/ UNCHANGED vars
      PROVE  UNCHANGED <<pc, verdict>>
  BY <1>2 DEF WorkerStep, Take, CallExecute, StartRoot, EndRoot, Poll, PollTooEarly, FailPoll, Quit,
    Complete, StartAgain, Cancel, vars
<1> QED
  BY <1>1, <1>2 DEF Next

\* A request gets under way by a call for which nobody else was, and which found room.
LEMMA GetsUnderWay ==
  ASSUME TypedInv, RoomKept, [Next]_vars, NEW r \in Requests, UnderWay(r)', ~UnderWay(r)
  PROVE  /\ \A s \in Requests : ~UnderWay(s)
         /\ \A s \in Requests \ {r} : ~UnderWay(s)'
         /\ Len(queue'["secondary"]) < Capacity
<1> USE DEF TypedInv, IInv, Shape
<1>1. Class[r] = "secondary" /\ pc[r] \in {"new", "done"} /\ pc'[r] # pc[r]
  BY DEF UnderWay
<1>2. Call(r)
  BY <1>1, OwnSteps DEF RequestStep, NewItem, CreateTask, TestFull, Send
<1>3. \A s \in Requests : ~UnderWay(s)
  BY <1>1, <1>2 DEF Call, MayCall, UnderWay
<1>4. \A s \in Requests \ {r} : ~UnderWay(s)'
  BY <1>2, <1>3 DEF Call, Answer, Goto, UnderWay
<1>5. ~IsFull(r) /\ UNCHANGED queue
  BY <1>1, <1>2 DEF Call, Answer, UnderWay
<1>6. Len(queue["secondary"]) # Capacity /\ Len(queue["secondary"]) <= Capacity
  BY <1>1, <1>5 DEF IsFull, QueueOf, RoomKept, Classes
<1>7. Len(queue["secondary"]) \in Nat /\ Capacity \in Nat
  BY RequestAssumption DEF Classes
<1> QED
  BY <1>3, <1>4, <1>5, <1>6, <1>7

LEMMA NextOneCaller == TypedInv /\ OneCaller /\ RoomKept /\ [Next]_vars => OneCaller'
<1> SUFFICES ASSUME TypedInv, OneCaller, RoomKept, [Next]_vars,
                    NEW r \in Requests, NEW s \in Requests, UnderWay(r)', UnderWay(s)'
             PROVE  r = s
  BY DEF OneCaller, UnderWay
<1> QED
  BY GetsUnderWay DEF OneCaller

LEMMA NextRoomKept == TypedInv /\ OneCaller /\ RoomKept /\ [Next]_vars => RoomKept'
<1> SUFFICES ASSUME TypedInv, OneCaller, RoomKept, [Next]_vars PROVE RoomKept'
  OBVIOUS
<1>0. \A c \in Classes : queue[c] \in Seq(Requests) /\ Len(queue[c]) \in Nat /\ Capacity \in Nat
  BY RequestAssumption DEF TypedInv, IInv, Shape
<1>1. ASSUME NEW c \in Classes PROVE Len(queue'[c]) <= Capacity
  <2>1. ASSUME NEW r \in Requests, Send(r), QueueOf(r) = c, queue'[c] = Append(queue[c], r)
        PROVE  Len(queue'[c]) <= Capacity
    <3>1. Len(queue[c]) # Capacity /\ Len(queue[c]) <= Capacity
      BY <2>1 DEF Send, IsFull, RoomKept
    <3> QED
      BY <1>0, <2>1, <3>1
  <2>2. CASE Len(queue'[c]) \in Nat /\ Len(queue'[c]) <= Len(queue[c])
    BY <1>0, <2>2 DEF RoomKept
  <2> QED
    BY <2>1, <2>2, QueueContents DEF TypedInv
<1>2. ASSUME NEW r \in Requests, UnderWay(r)', RootCount[r] = 1
      PROVE  Len(queue'["secondary"]) < Capacity
  <2>1. CASE ~UnderWay(r)
    BY <1>2, <2>1, GetsUnderWay
  <2>2. CASE UnderWay(r)
    <3>1. ASSUME NEW s \in Requests, Send(s), QueueOf(s) = "secondary" PROVE FALSE
      <4>1. s = r
        BY <2>2, <3>1 DEF Send, UnderWay, QueueOf, OneCaller
      <4>2. loop[r] = 1
        BY <1>2, <3>1, <4>1 DEF Send, TypedInv, IInv, QueuedMade, LoopSet, OtherKinds
      <4>3. pc'[r] = "done"
        BY <1>2, <3>1, <4>1, <4>2 DEF Send, Answer, TypedInv, IInv, Shape
      <4> QED
        BY <1>2, <4>3 DEF UnderWay
    <3>2. "secondary" \in Classes
      BY DEF Classes
    <3>3. Len(queue'["secondary"]) \in Nat /\ Len(queue'["secondary"]) <= Len(queue["secondary"])
      BY <3>1, <3>2, QueueContents DEF TypedInv
    <3> QED
      BY <1>0, <1>2, <2>2, <3>2, <3>3 DEF RoomKept
  <2> QED
    BY <2>1, <2>2
<1> QED
  BY <1>1, <1>2 DEF RoomKept, UnderWay

\* Others may store the identifier of a clean request, but that is what they brought.
LEMMA CleanKept ==
  ASSUME TypedInv, [Next]_vars, NEW r \in Requests, Clean(r),
         ~NewItem(r) \/ UNCHANGED items, ~CreateTask(r)
  PROVE  Clean(r)'
<1>1. ~Made(r)'
  BY MadeOnlyByCreateTask DEF TypedInv, Clean
<1>2. ASSUME NEW s \in Requests, NewItem(s), ~UNCHANGED items
      PROVE  s # r /\ items' = items \cup {Id[s]}
  BY <1>2 DEF NewItem
<1>3. UNCHANGED items \/ \E s \in Requests : NewItem(s)
  BY DEF Next, RequestStep, Call, CreateTask, TestFull, Send, WorkerStep, Take,
    CallExecute, StartRoot, EndRoot, Poll, PollTooEarly, FailPoll, Quit, Complete,
    StartAgain, Cancel, vars
<1> QED
  BY <1>1, <1>2, <1>3 DEF Clean

LEMMA NextRejects == TypedInv /\ RoomKept /\ Rejects /\ [Next]_vars => Rejects'
<1> SUFFICES ASSUME TypedInv, RoomKept, Rejects, [Next]_vars, NEW r \in Requests
             PROVE  /\ pc'[r] \in {"new", "store"} => Clean(r)'
                    /\ Class[r] = "secondary" /\ RootCount[r] = 1 /\ verdict'[r] = "full"
                         => Clean(r)'
  BY DEF Rejects, Clean, Made
<1> USE DEF TypedInv, IInv, Shape, OtherKinds
<1>1. ASSUME pc'[r] \in {"new", "store"} PROVE Clean(r)'
  <2>1. ~NewItem(r) /\ ~CreateTask(r) /\ ~TestFull(r) /\ ~Send(r)
    <3>1. ASSUME pc[r] # "new", RequestStep(r) PROVE FALSE
      <4>1. \/ \E v \in {"full", "error", "ok"} : Answer(r, v)
            \/ \E l \in {"task", "enqueue", "send"} : Goto(r, l)
        BY <3>1 DEF RequestStep, Call, NewItem, CreateTask, TestFull, Send
      <4> QED
        BY <1>1, <4>1 DEF Answer, Goto
    <3> QED
      BY <3>1 DEF RequestStep, NewItem, CreateTask, TestFull, Send
  <2>2. pc[r] \in {"new", "store"}
    BY <1>1, <2>1, OwnSteps DEF RequestStep, Call
  <2> QED
    BY <2>1, <2>2, CleanKept DEF Rejects
<1>2. ASSUME Class[r] = "secondary", RootCount[r] = 1, verdict'[r] = "full" PROVE Clean(r)'
  <2>1. CASE verdict[r] = "full"
    <3>1. pc[r] = "done"
      BY <2>1
    <3> QED
      BY <1>2, <2>1, <3>1, CleanKept DEF Rejects, NewItem, CreateTask
  <2>2. CASE verdict[r] # "full"
    <3>1. ~NewItem(r) /\ ~CreateTask(r) /\ ~Send(r)
      BY <1>2, <2>2 DEF NewItem, CreateTask, Send, Answer, Goto
    <3>2. ~TestFull(r)
      <4>1. ASSUME TestFull(r) PROVE FALSE
        <5>1. UnderWay(r)
          BY <1>2, <4>1 DEF TestFull, UnderWay
        <5>2. Len(queue["secondary"]) < Capacity
          BY <1>2, <5>1 DEF RoomKept
        <5>3. ~IsFull(r)
          BY <1>2, <5>2, RequestAssumption DEF IsFull, QueueOf, Classes
        <5> QED
          BY <1>2, <2>2, <4>1, <5>3 DEF TestFull, Goto
      <4> QED
        BY <4>1
    <3>3. pc[r] = "new"
      BY <1>2, <2>2, <3>1, <3>2, OwnSteps DEF RequestStep, Call
    <3> QED
      BY <3>1, <3>3, CleanKept DEF Rejects
  <2> QED
    BY <2>1, <2>2
<1> QED
  BY <1>1, <1>2

\* A request of the trigger that is turned away because the queue is full left neither
\* nodes nor an item of its own behind, if it has one root (queue_repository.go:60-66).
THEOREM TriggerAlwaysRejectedClean == Spec => []TriggerRejectedClean
<1>1. Init => OneCaller /\ RoomKept /\ Rejects
  <2> SUFFICES ASSUME Init PROVE OneCaller /\ RoomKept /\ Rejects
    OBVIOUS
  <2>1. OneCaller
    BY DEF Init, OneCaller, UnderWay
  <2>2. RoomKept
    BY RequestAssumption DEF Init, RoomKept, UnderWay
  <2>3. Rejects
    BY DEF Init, Rejects, Clean, Made
  <2> QED
    BY <2>1, <2>2, <2>3
<1>2. TypedInv /\ Rejects => TriggerRejectedClean
  <2> SUFFICES ASSUME TypedInv, Rejects, NEW r \in Requests, Clean(r)
               PROVE  /\ dag[<<r, 1>>] = "absent"
                      /\ Id[r] \in items => \E s \in Requests \ {r} : Id[s] = Id[r]
    BY DEF TriggerRejectedClean, Rejects
  <2> QED
    BY TreesOfRequests DEF Clean, Made
<1> QED
  BY <1>1, <1>2, InitTyped, NextTyped, NextOneCaller, NextRoomKept, NextRejects, PTL DEF Spec
=============================================================================

------------------------------ MODULE WorkQueue ------------------------------
(***************************************************************************)
(* The in-memory queue (pkg/queue/inMemQueue.go): a buffered channel of    *)
(* closures, goroutines that enqueue, workers that take and run, and Stop. *)
(*                                                                         *)
(* A job <<c, k>> is the k-th closure caller c enqueues.  Enqueue is two   *)
(* steps, the test of the length and the channel send, as nothing holds a  *)
(* lock across them; so are a worker's receive and the call of what it     *)
(* received, between which the other workers go on.                        *)
(***************************************************************************)
EXTENDS Integers, Sequences, FiniteSets

CONSTANTS
  Callers,    \* goroutines that call Enqueue, each one call after the other
  Calls,      \* how many times each of them does (bound)
  Workers,    \* goroutines Start creates
  Capacity,   \* capacity of the channel
  MayCancel   \* whether the context may be cancelled and Stop be called

ASSUME QueueAssumption ==
  /\ Calls \in Nat
  /\ Capacity \in Nat
  /\ IsFiniteSet(Callers)
  /\ Workers # {} /\ IsFiniteSet(Workers)
  /\ MayCancel \in BOOLEAN

Jobs == Callers \X (1..Calls)
NoJob == <<>>

VARIABLES
  queue,      \* the closures in the channel, oldest first
  ctxDone,    \* the queue's context has been cancelled
  wg,         \* count of the wait group
  made,       \* [Callers -> Nat] calls of Enqueue begun
  sending,    \* callers between the test and the send
  accepted,   \* jobs whose Enqueue returned nil
  alive,      \* workers that have not returned
  taken,      \* [Workers -> job received and not yet begun, or NoJob]
  running,    \* [Workers -> job being run, or NoJob]
  runs,       \* [Jobs -> Nat] how often a job was begun
  stop        \* Stop: not called, waiting for the workers, returned

vars == <<queue, ctxDone, wg, made, sending, accepted, alive, taken, running, runs, stop>>

\* Values have their kinds and the channel never exceeds its capacity; the wait
\* group counts the workers that have not returned (inMemQueue.go:48-67).
TypeOK ==
  /\ queue \in Seq(Jobs) /\ Len(queue) <= Capacity
  /\ ctxDone \in BOOLEAN
  /\ made \in [Callers -> 0..Calls]
  /\ sending \subseteq Callers
  /\ accepted \subseteq Jobs
  /\ alive \subseteq Workers
  /\ taken \in [Workers -> Jobs \cup {NoJob}]
  /\ running \in [Workers -> Jobs \cup {NoJob}]
  /\ runs \in [Jobs -> Nat]
  /\ stop \in {"no", "waiting", "returned"}
  /\ wg = Cardinality(alive)

-----------------------------------------------------------------------------
\* NewGenericQueue, then Start: every worker waits in its select.
Init ==
  /\ queue = <<>>
  /\ ctxDone = FALSE
  /\ wg = Cardinality(Workers)
  /\ made = [c \in Callers |-> 0]
  /\ sending = {}
  /\ accepted = {}
  /\ alive = Workers
  /\ taken = [w \in Workers |-> NoJob]
  /\ running = [w \in Workers |-> NoJob]
  /\ runs = [j \in Jobs |-> 0]
  /\ stop = "no"

\* A slip: the length is compared with one more than the capacity.
IsFullLate == Len(queue) = Capacity + 1
IsFull == Len(queue) = Capacity

\* Enqueue tests the length and rejects the job when the channel is full.
TestFull(c) ==
  /\ c \notin sending
  /\ made[c] < Calls
  /\ made' = [made EXCEPT ![c] = @ + 1]
  /\ sending' = IF IsFull THEN sending ELSE sending \cup {c}
  /\ UNCHANGED <<queue, ctxDone, wg, accepted, alive, taken, running, runs, stop>>

\* A slip: a send that would block gives up, and nil is returned all the same.
SendOrDrop(c) ==
  /\ c \in sending
  /\ queue' = IF Len(queue) < Capacity THEN Append(queue, <<c, made[c]>>) ELSE queue
  /\ sending' = sending \ {c}
  /\ accepted' = accepted \cup {<<c, made[c]>>}
  /\ UNCHANGED <<ctxDone, wg, made, alive, taken, running, runs, stop>>

\* The send waits for room in the channel; then Enqueue returns nil.
Send(c) ==
  /\ c \in sending
  /\ Len(queue) < Capacity
  /\ queue' = Append(queue, <<c, made[c]>>)
  /\ sending' = sending \ {c}
  /\ accepted' = accepted \cup {<<c, made[c]>>}
  /\ UNCHANGED <<ctxDone, wg, made, alive, taken, running, runs, stop>>

AtSelect(w) == w \in alive /\ taken[w] = NoJob /\ running[w] = NoJob

\* A slip: the job is looked at but stays in the channel.
TakeCopy(w) ==
  /\ AtSelect(w)
  /\ queue # <<>>
  /\ taken' = [taken EXCEPT ![w] = Head(queue)]
  /\ UNCHANGED <<queue, ctxDone, wg, made, sending, accepted, alive, running, runs, stop>>

\* The select receives a job; when the context is done too it may do either.
Take(w) ==
  /\ AtSelect(w)
  /\ queue # <<>>
  /\ queue' = Tail(queue)
  /\ taken' = [taken EXCEPT ![w] = Head(queue)]
  /\ UNCHANGED <<ctxDone, wg, made, sending, accepted, alive, running, runs, stop>>

\* A slip: a worker that finds another one with a job sends its own back.
BeginJobOrSendBack(w) ==
  /\ taken[w] # NoJob
  /\ taken' = [taken EXCEPT ![w] = NoJob]
  /\ IF \E v \in Workers \ {w} : taken[v] # NoJob \/ running[v] # NoJob
     THEN Len(queue) < Capacity /\ queue' = Append(queue, taken[w])
          /\ UNCHANGED <<running, runs>>
     ELSE running' = [running EXCEPT ![w] = taken[w]]
          /\ runs' = [runs EXCEPT ![taken[w]] = @ + 1] /\ UNCHANGED queue
  /\ UNCHANGED <<ctxDone, wg, made, sending, accepted, alive, stop>>

\* The worker calls the job it received; another may have received and begun
\* the next one meanwhile.
BeginJob(w) ==
  /\ taken[w] # NoJob
  /\ taken' = [taken EXCEPT ![w] = NoJob]
  /\ running' = [running EXCEPT ![w] = taken[w]]
  /\ runs' = [runs EXCEPT ![taken[w]] = @ + 1]
  /\ UNCHANGED <<queue, ctxDone, wg, made, sending, accepted, alive, stop>>

\* A slip: the worker returns after its first job.
EndJobAndQuit(w) ==
  /\ w \in alive
  /\ running[w] # NoJob
  /\ running' = [running EXCEPT ![w] = NoJob]
  /\ alive' = alive \ {w}
  /\ wg' = wg - 1
  /\ UNCHANGED <<queue, ctxDone, made, sending, accepted, taken, runs, stop>>

\* The job returns and the worker goes back to its select.
EndJob(w) ==
  /\ w \in alive
  /\ running[w] # NoJob
  /\ running' = [running EXCEPT ![w] = NoJob]
  /\ UNCHANGED <<queue, ctxDone, wg, made, sending, accepted, alive, taken, runs, stop>>

\* A slip: the worker returns without telling the wait group.
QuitSilently(w) ==
  /\ AtSelect(w)
  /\ ctxDone
  /\ alive' = alive \ {w}
  /\ UNCHANGED <<queue, ctxDone, wg, made, sending, accepted, taken, running, runs, stop>>

\* The select finds the context done: the worker returns.
Quit(w) ==
  /\ AtSelect(w)
  /\ ctxDone
  /\ alive' = alive \ {w}
  /\ wg' = wg - 1
  /\ UNCHANGED <<queue, ctxDone, made, sending, accepted, taken, running, runs, stop>>

\* The context the queue was created with is cancelled.
Cancel ==
  /\ MayCancel
  /\ ~ctxDone
  /\ ctxDone' = TRUE
  /\ UNCHANGED <<queue, wg, made, sending, accepted, alive, taken, running, runs, stop>>

\* Stop cancels the queue's own context and waits for the wait group.
Stop ==
  /\ MayCancel
  /\ stop = "no"
  /\ stop' = "waiting"
  /\ ctxDone' = TRUE
  /\ UNCHANGED <<queue, wg, made, sending, accepted, alive, taken, running, runs>>

\* A slip: Stop returns as soon as the context is cancelled.
StopWithoutWait ==
  /\ stop = "waiting"
  /\ stop' = "returned"
  /\ UNCHANGED <<queue, ctxDone, wg, made, sending, accepted, alive, taken, running, runs>>

StopReturn ==
  /\ stop = "waiting"
  /\ wg = 0
  /\ stop' = "returned"
  /\ UNCHANGED <<queue, ctxDone, wg, made, sending, accepted, alive, taken, running, runs>>

\* Every call has been made and returned and every accepted job has run, or all
\* workers have gone, and a caller may wait in its send for good.
Rest ==
  /\ \/ /\ sending = {} /\ queue = <<>>
        /\ \A c \in Callers : made[c] = Calls
        /\ \A w \in Workers : taken[w] = NoJob /\ running[w] = NoJob
     \/ alive = {}
  /\ UNCHANGED vars

WorkerStep(w) == Take(w) \/ BeginJob(w) \/ EndJob(w) \/ Quit(w)

Next ==
  \/ \E c \in Callers : TestFull(c) \/ Send(c)
  \/ \E w \in Workers : WorkerStep(w)
  \/ Cancel \/ Stop \/ StopReturn
  \/ Rest

\* A send that can go on does, every worker is scheduled and its jobs return,
\* and a wait group that reaches zero releases Stop.
Fairness ==
  /\ \A c \in Callers : WF_vars(Send(c))
  /\ \A w \in Workers : WF_vars(WorkerStep(w))
  /\ WF_vars(StopReturn)

Spec == Init /\ [][Next]_vars
FairSpec == Spec /\ Fairness

-----------------------------------------------------------------------------
Waiting(j) == \/ \E i \in 1..Len(queue) : queue[i] = j
              \/ \E w \in Workers : taken[w] = j

\* No job is begun twice, and none that waits in the channel or with the worker
\* that received it was begun before (inMemQueue.go:55-63).
RunsOnce == \A j \in Jobs : runs[j] <= IF Waiting(j) THEN 0 ELSE 1

\* A job whose Enqueue returned nil waits or was begun: a send does not lose what
\* it reports as enqueued, nor a worker what it received (inMemQueue.go:36-61).
NothingLost == \A j \in accepted : runs[j] > 0 \/ Waiting(j)

\* A worker may be overtaken between its receive and its call, so that the jobs
\* of one caller need not be begun in the order it enqueued them; but whenever
\* one is begun fewer than there are workers were enqueued before it and wait,
\* and a single worker keeps the order (inMemQueue.go:36-63).
Overtaken(c, k) == {i \in 1..(k - 1) : <<c, i>> \in accepted /\ runs[<<c, i>>] = 0}
FewOvertaken ==
  \A c \in Callers, k \in 1..Calls :
    runs[<<c, k>>] > 0 => Cardinality(Overtaken(c, k)) < Cardinality(Workers)

\* Once Stop has returned no job is held or running and none is begun any more,
\* although callers may go on enqueuing (inMemQueue.go:69-74).
QuietAfterStop ==
  [][stop = "returned" =>
       /\ \A w \in Workers : taken[w] = NoJob /\ running[w] = NoJob
       /\ runs' = runs]_vars

\* Between the test and the send others may fill the channel, but only those who
\* had passed the test too: with the senders counted the queue exceeds its
\* capacity by less than the number of callers, and a single caller, like the
\* trigger's consumer, never waits in its send (inMemQueue.go:36-41).
Overcommit ==
  sending # {} =>
    Len(queue) + Cardinality(sending) < Capacity + Cardinality(Callers)

\* While nothing is cancelled every accepted job is run (inMemQueue.go:48-67).
AcceptedRuns == \A j \in Jobs : j \in accepted ~> runs[j] > 0 \/ ctxDone

\* Stop returns, whatever is still in the channel (inMemQueue.go:69-74).
StopReturns == stop = "waiting" ~> stop = "returned"
=============================================================================

------------------------------- MODULE Serve -------------------------------
(***************************************************************************)
(* The serve command (cmd/serve.go) around the work of a node              *)
(* (taskFactory.buildJob, pkg/task/factory.go): work is executed by a      *)
(* worker of a workflow queue or by a goroutine of its own, hands its job  *)
(* to the node queue and waits for a node worker to hand back the result;  *)
(* an interrupt cancels the context of everything, and main then stops the *)
(* queues one after the other.  The trigger and its consumer are goroutines*)
(* of the command too.                                                     *)
(***************************************************************************)
EXTENDS Integers, Sequences, FiniteSets

CONSTANTS
  Works,         \* executors of node work: workflow workers and goroutines
  Held,          \* those that are workers of a workflow queue: Stop waits for them
  NodeWorkers,   \* workers of the node queue
  Capacity,      \* capacity of the node queue
  TriggerOn,     \* whether the IPFS-Search trigger is enabled
  MaxCids,       \* content identifiers one search may return (bound)
  MayInterrupt   \* whether someone presses ctrl+c

NoWork == <<>>

ASSUME ServeAssumption ==
  /\ NoWork \notin Works
  /\ Held \subseteq Works
  /\ NodeWorkers # {}
  /\ Capacity \in Nat /\ MaxCids \in Nat
  /\ TriggerOn \in BOOLEAN /\ MayInterrupt \in BOOLEAN

VARIABLES
  at,        \* [Works -> ...] where the work is
  outcome,   \* [Works -> ...] what it returned
  results,   \* [Works -> Nat] results it or its job sent on resultChan
  jobs,      \* the node queue
  job,       \* [NodeWorkers -> the work whose job is run, or NoWork]
  jobAt,     \* [NodeWorkers -> ...] where that job is
  gone,      \* workflow workers that have returned
  ctxDone,   \* the command's context is cancelled, and with it every queue's
  main,      \* what main waits for
  trigger,   \* what the trigger's goroutine does
  cids,      \* identifiers it has still to send
  consumer,  \* what the consumer of the trigger's channel does
  exit       \* whether and how the process has ended

workVars == <<at, outcome, results>>
nodeVars == <<jobs, job, jobAt>>
triggerVars == <<trigger, cids, consumer>>
vars == <<workVars, nodeVars, gone, ctxDone, main, triggerVars, exit>>

\* Every variable has values of its kind; a node worker has a job exactly while
\* it is outside its select (factory.go:153-270, serve.go:61-236).
TypeOK ==
  /\ at \in [Works -> {"idle", "begin", "enqueue", "send", "wait", "done"}]
  /\ outcome \in [Works -> {"none", "output", "skipped", "cancelled"}]
  /\ results \in [Works -> 0..1]
  /\ jobs \in Seq(Works) /\ Len(jobs) <= Capacity
  /\ job \in [NodeWorkers -> Works \cup {NoWork}]
  /\ jobAt \in [NodeWorkers -> {"select", "execute", "result", "handover", "gone"}]
  /\ gone \subseteq Held
  /\ ctxDone \in BOOLEAN
  /\ main \in {"interrupt", "http", "nodes", "workflows"}
  /\ trigger \in {"off", "period", "send"}
  /\ cids \in 0..MaxCids
  /\ consumer \in {"select", "create", "gone"}
  /\ exit \in {"no", "clean", "fatal"}
  /\ \A w \in NodeWorkers : job[w] = NoWork <=> jobAt[w] \in {"select", "gone"}
  /\ \A e \in Works : outcome[e] # "none" <=> at[e] = "done"

Init ==
  /\ at = [e \in Works |-> "idle"]
  /\ outcome = [e \in Works |-> "none"]
  /\ results = [e \in Works |-> 0]
  /\ jobs = <<>>
  /\ job = [w \in NodeWorkers |-> NoWork]
  /\ jobAt = [w \in NodeWorkers |-> "select"]
  /\ gone = {}
  /\ ctxDone = FALSE
  /\ main = "interrupt"
  /\ trigger = IF TriggerOn THEN "period" ELSE "off"
  /\ cids = 0
  /\ consumer = "select"
  /\ exit = "no"

-----------------------------------------------------------------------------
\* The work of a node.

\* A worker takes a closure and executes its root, or an execution spawns a
\* goroutine for a child.  A worker may do so after the interrupt: its select
\* finds both the context and the queue ready.
Start(e) ==
  /\ at[e] = "idle" /\ e \notin gone
  /\ at' = [at EXCEPT ![e] = "begin"]
  /\ UNCHANGED <<outcome, results, nodeVars, gone, ctxDone, main, triggerVars, exit>>

\* A slip: the context is not looked at.
BeginAnyway(e) ==
  /\ at[e] = "begin"
  /\ at' = [at EXCEPT ![e] = "enqueue"]
  /\ UNCHANGED <<outcome, results, nodeVars, gone, ctxDone, main, triggerVars, exit>>

\* The work gives up when the context is done; it is skipped, with a result,
\* when a predicate does not match or there are no inputs.
Begin(e) ==
  /\ at[e] = "begin"
  /\ \/ /\ ctxDone
        /\ at' = [at EXCEPT ![e] = "done"]
        /\ outcome' = [outcome EXCEPT ![e] = "cancelled"]
        /\ UNCHANGED results
     \/ /\ ~ctxDone
        /\ at' = [at EXCEPT ![e] = "done"]
        /\ outcome' = [outcome EXCEPT ![e] = "skipped"]
        /\ results' = [results EXCEPT ![e] = @ + 1]
     \/ /\ ~ctxDone
        /\ at' = [at EXCEPT ![e] = "enqueue"]
        /\ UNCHANGED <<outcome, results>>
  /\ UNCHANGED <<nodeVars, gone, ctxDone, main, triggerVars, exit>>

\* Enqueue tests the length; an error of Enqueue ends the process.
TestFull(e) ==
  /\ at[e] = "enqueue"
  /\ \/ Len(jobs) < Capacity /\ at' = [at EXCEPT ![e] = "send"] /\ UNCHANGED exit
     \/ Len(jobs) = Capacity /\ exit' = "fatal" /\ UNCHANGED at
  /\ UNCHANGED <<outcome, results, nodeVars, gone, ctxDone, main, triggerVars>>

Send(e) ==
  /\ at[e] = "send"
  /\ Len(jobs) < Capacity
  /\ jobs' = Append(jobs, e)
  /\ at' = [at EXCEPT ![e] = "wait"]
  /\ UNCHANGED <<outcome, results, job, jobAt, gone, ctxDone, main, triggerVars, exit>>

\* Execute has drained resultChan; the worker or goroutine is free again.
Free(e) ==
  /\ at[e] = "done"
  /\ at' = [at EXCEPT ![e] = "idle"]
  /\ outcome' = [outcome EXCEPT ![e] = "none"]
  /\ results' = [results EXCEPT ![e] = 0]
  /\ UNCHANGED <<nodeVars, gone, ctxDone, main, triggerVars, exit>>

-----------------------------------------------------------------------------
\* The node workers.

TakeJob(w) ==
  /\ jobAt[w] = "select"
  /\ jobs # <<>>
  /\ job' = [job EXCEPT ![w] = Head(jobs)]
  /\ jobs' = Tail(jobs)
  /\ jobAt' = [jobAt EXCEPT ![w] = "execute"]
  /\ UNCHANGED <<workVars, gone, ctxDone, main, triggerVars, exit>>

\* Slips: a job that failed returns before it sends anything; the result is
\* handed over before it is sent on resultChan.
ExecuteOrDrop(w) ==
  /\ jobAt[w] = "execute"
  /\ \/ jobAt' = [jobAt EXCEPT ![w] = "result"] /\ UNCHANGED job
     \/ jobAt' = [jobAt EXCEPT ![w] = "select"] /\ job' = [job EXCEPT ![w] = NoWork]
  /\ UNCHANGED <<workVars, jobs, gone, ctxDone, main, triggerVars, exit>>
ExecuteThenHandover(w) ==
  /\ jobAt[w] = "execute"
  /\ at' = [at EXCEPT ![job[w]] = "done"]
  /\ outcome' = [outcome EXCEPT ![job[w]] = "output"]
  /\ jobAt' = [jobAt EXCEPT ![w] = "result"]
  /\ UNCHANGED <<results, jobs, job, gone, ctxDone, main, triggerVars, exit>>

\* The executor returns, with a result or an error: both are handed on.
ExecuteJob(w) ==
  /\ jobAt[w] = "execute"
  /\ jobAt' = [jobAt EXCEPT ![w] = "result"]
  /\ UNCHANGED <<workVars, jobs, job, gone, ctxDone, main, triggerVars, exit>>

\* The job sends on resultChan, which has room for ten.
SendResult(w) ==
  /\ jobAt[w] = "result"
  /\ results' = [results EXCEPT ![job[w]] = @ + 1]
  /\ jobAt' = [jobAt EXCEPT ![w] = "handover"]
  /\ UNCHANGED <<at, outcome, jobs, job, gone, ctxDone, main, triggerVars, exit>>

\* The job and the work that waits for it meet on resChan; the work closes its
\* channels and returns.
Handover(w) ==
  /\ jobAt[w] = "handover"
  /\ at[job[w]] = "wait"
  /\ at' = [at EXCEPT ![job[w]] = "done"]
  /\ outcome' = [outcome EXCEPT ![job[w]] = "output"]
  /\ jobAt' = [jobAt EXCEPT ![w] = "select"]
  /\ job' = [job EXCEPT ![w] = NoWork]
  /\ UNCHANGED <<results, jobs, gone, ctxDone, main, triggerVars, exit>>

QuitNode(w) ==
  /\ jobAt[w] = "select"
  /\ ctxDone
  /\ jobAt' = [jobAt EXCEPT ![w] = "gone"]
  /\ UNCHANGED <<workVars, jobs, job, gone, ctxDone, main, triggerVars, exit>>

\* A workflow worker returns when its select, or the poll that follows the
\* execution of a root, finds the context done.
QuitWorkflow(e) ==
  /\ e \in Held \ gone
  /\ at[e] = "idle"
  /\ ctxDone
  /\ gone' = gone \cup {e}
  /\ UNCHANGED <<workVars, nodeVars, ctxDone, main, triggerVars, exit>>

-----------------------------------------------------------------------------
\* The trigger and its consumer.

\* A search returns any number of identifiers, none when it fails.
Search ==
  /\ trigger = "period"
  /\ cids' \in 0..MaxCids
  /\ trigger' = IF cids' = 0 THEN "period" ELSE "send"
  /\ UNCHANGED <<workVars, nodeVars, gone, ctxDone, main, consumer, exit>>

\* The trigger and the consumer meet on the channel; nothing else wakes the
\* trigger while it sends.
SendCid ==
  /\ trigger = "send"
  /\ consumer = "select"
  /\ cids' = cids - 1
  /\ trigger' = IF cids' = 0 THEN "period" ELSE "send"
  /\ consumer' = "create"
  /\ UNCHANGED <<workVars, nodeVars, gone, ctxDone, main, exit>>

\* A slip: the consumer returns when a request is turned away.
ConsumerCreateOrQuit ==
  /\ consumer = "create"
  /\ consumer' \in {"select", "gone"}
  /\ UNCHANGED <<workVars, nodeVars, gone, ctxDone, main, trigger, cids, exit>>

\* CreateExecution returns; a full queue only means that the request is lost.
ConsumerCreate ==
  /\ consumer = "create"
  /\ consumer' = "select"
  /\ UNCHANGED <<workVars, nodeVars, gone, ctxDone, main, trigger, cids, exit>>

ConsumerQuit ==
  /\ consumer = "select"
  /\ ctxDone
  /\ consumer' = "gone"
  /\ UNCHANGED <<workVars, nodeVars, gone, ctxDone, main, trigger, cids, exit>>

\* A trigger that finds the context done returns its error, and the goroutine
\* that runs it treats every error as a failure to start: log.Fatal.
TriggerQuit ==
  /\ trigger = "period"
  /\ ctxDone
  /\ exit' = "fatal"
  /\ UNCHANGED <<workVars, nodeVars, gone, ctxDone, main, triggerVars>>

-----------------------------------------------------------------------------
\* The interrupt, and main's way out.

Interrupt ==
  /\ MayInterrupt
  /\ ~ctxDone
  /\ ctxDone' = TRUE
  /\ UNCHANGED <<workVars, nodeVars, gone, main, triggerVars, exit>>

\* main wakes up and shuts the HTTP server down, for five seconds at most.
StopHTTP ==
  /\ \/ main = "interrupt" /\ ctxDone /\ main' = "http"
     \/ main = "http" /\ main' = "nodes"
  /\ UNCHANGED <<workVars, nodeVars, gone, ctxDone, triggerVars, exit>>

\* The deferred Stop of the node queue waits for its workers.
StopNodes ==
  /\ main = "nodes"
  /\ \A w \in NodeWorkers : jobAt[w] = "gone"
  /\ main' = "workflows"
  /\ UNCHANGED <<workVars, nodeVars, gone, ctxDone, triggerVars, exit>>

\* Then those of the two workflow queues; main returns.
StopWorkflows ==
  /\ main = "workflows"
  /\ gone = Held
  /\ exit' = "clean"
  /\ UNCHANGED <<workVars, nodeVars, gone, ctxDone, main, triggerVars>>

WorkStep(e) == Begin(e) \/ TestFull(e) \/ Send(e) \/ Free(e)
NodeStep(w) ==
  TakeJob(w) \/ ExecuteJob(w) \/ SendResult(w) \/ Handover(w) \/ QuitNode(w)
TriggerStep == Search \/ SendCid \/ TriggerQuit
ConsumerStep == ConsumerCreate \/ ConsumerQuit
MainStep == StopHTTP \/ StopNodes \/ StopWorkflows

Next ==
  \/ /\ exit = "no"
     /\ \/ \E e \in Works : Start(e) \/ WorkStep(e) \/ QuitWorkflow(e)
        \/ \E w \in NodeWorkers : NodeStep(w)
        \/ TriggerStep \/ ConsumerStep \/ Interrupt \/ MainStep
  \/ exit # "no" /\ UNCHANGED vars

\* Every goroutine is scheduled while the process lives and the executor's calls
\* return.  A blocked send is served in its turn, and a select that finds its
\* context done time and again ends up choosing it.  No fairness makes new work
\* arrive, or anyone press ctrl+c.
Alive(A) == exit = "no" /\ A
Fairness ==
  /\ \A e \in Works : 
       /\ WF_vars(Alive(WorkStep(e)))
       /\ SF_vars(Alive(Send(e)))
       /\ SF_vars(Alive(QuitWorkflow(e)))
  /\ \A w \in NodeWorkers :
       WF_vars(Alive(NodeStep(w))) /\ SF_vars(Alive(QuitNode(w)))
  /\ WF_vars(Alive(SendCid))
  /\ WF_vars(Alive(ConsumerStep))
  /\ WF_vars(Alive(MainStep))

Spec == Init /\ [][Next]_vars
FairSpec == Spec /\ Fairness

-----------------------------------------------------------------------------
\* A work that has returned got exactly the results it should: one if its job
\* ran or it was skipped, none if it gave up, and no job of it is left behind
\* that could send on the channel it closed (factory.go:155, 240-260).
ResultsBeforeReturn ==
  \A e \in Works :
    at[e] = "done" =>
      /\ results[e] = (IF outcome[e] = "cancelled" THEN 0 ELSE 1)
      /\ \A w \in NodeWorkers : job[w] # e
      /\ \A i \in 1..Len(jobs) : jobs[i] # e

\* Until an interrupt every work that begins returns, unless the node queue
\* overflows and the process ends (factory.go:153-270).
WorkReturns ==
  \A e \in Works : at[e] = "begin" ~> at[e] = "done" \/ ctxDone \/ exit # "no"

\* After ctrl+c, once no workflow worker is inside a job's wait any more, the
\* command does return (serve.go:220-236, factory.go:157-161).
NotInJob == \A e \in Held : at[e] \in {"idle", "done"}
StopsOnceOutOfJobs == (ctxDone /\ NotInJob) ~> exit # "no"

\* What a search finds is taken off the trigger's hands until ctrl+c, however
\* many of its requests are turned away (serve.go:160-179, triggers.go:52-54).
CidsTaken == trigger = "send" ~> trigger # "send" \/ ctxDone \/ exit # "no"

\* After ctrl+c the command stops (root.go:37).
InterruptStops == ctxDone ~> exit # "no"
=============================================================================

---------------------------- MODULE JobExecution ----------------------------
(***************************************************************************)
(* The jobs of one graph (taskFactory.buildJob and execute in              *)
(* pkg/task/factory.go, pkg/executor): the work of a node matches its      *)
(* configured inputs with what its parents have put out, and is skipped or *)
(* has a worker of the node queue execute its job; a Bacalhau job is       *)
(* submitted and polled until it has ended, its timeout is over or the     *)
(* command is stopped, and a last look decides what has come of it.        *)
(*                                                                         *)
(* Serve has the channels and goroutines of the same code; here a work     *)
(* that is waiting for its job is just that, and what matters is the data: *)
(* which content identifiers go where.                                     *)
(***************************************************************************)
EXTENDS Integers, FiniteSets

CONSTANTS
  Steps,      \* places in the graph, in the order of the edges
  Inputs,     \* [Steps -> sets of inputs] as configured
  Putting,    \* the steps that have an output
  JobKinds,   \* the assignments of kinds of jobs to steps that are configured
  Workers     \* number of workers of the node queue

\* An input names the step it takes the output of, 0 for the root input, and which of its
\* outputs; it may have a predicate on what that step printed, and a path to mount it at.
\* "some" stands for a predicate that what was printed may or may not match, "any" for
\* one that also matches nothing, or is no regular expression and counts like that.
Predicates == {"none", "some", "any"}

\* A job runs on Bacalhau or in the process; a broken one has no executor, fails by itself
\* or cannot be rendered, as with an input without a path; an unknown one is not configured.
Kinds == {"bacalhau", "root-job", "broken", "unknown"}

ASSUME JobAssumption ==
  /\ Steps \subseteq Nat \ {0} /\ IsFiniteSet(Steps)
  /\ \A s \in Steps : \A i \in Inputs[s] :
       /\ i \in [node : {0} \cup Steps, output : {0, 1}, predicate : Predicates, path : BOOLEAN]
       /\ i.node < s
  /\ Putting \subseteq Steps
  /\ JobKinds # {} /\ JobKinds \subseteq [Steps -> Kinds]
  /\ Workers \in Nat \ {0}

\* A content identifier is that of the root input, 0, or the result of a step's job.
NoCid == -1
Cids == Steps \cup {0, NoCid}

\* A job comes to an end the wait knows, with or without a published result; it may have a
\* published result and be in another state, or be in another state without one, running.
Terminal == {"completed", "completed empty", "ended"}
Published == {"completed", "published"}
RemoteStates == {"none", "running"} \cup Terminal \cup Published

VARIABLES
  kind,     \* [Steps -> Kinds] the configuration
  at,       \* [Steps -> ...] where the work of the step is
  outcome,  \* [Steps -> ...] what it came to
  cid,      \* [Steps -> Cids] the identifier it puts out, also if its job counts as failed
  printed,  \* [Steps -> BOOLEAN] whether what it puts out matches "some" predicates
  remote,   \* [Steps -> RemoteStates] its Bacalhau job, as the network has it
  stopped,  \* the context is cancelled
  crashed   \* the process has panicked

vars == <<kind, at, outcome, cid, printed, remote, stopped, crashed>>

\* A work has an outcome when it is done and an identifier only of a job that was looked
\* at, and only a Bacalhau job that was submitted is in the network.
TypeOK ==
  /\ kind \in JobKinds
  /\ at \in [Steps -> {"idle", "queued", "submit", "wait", "look", "done"}]
  /\ outcome \in [Steps -> {"none", "skipped", "cancelled", "lost", "failed", "output"}]
  /\ cid \in [Steps -> Cids] /\ printed \in [Steps -> BOOLEAN]
  /\ remote \in [Steps -> RemoteStates]
  /\ stopped \in BOOLEAN /\ crashed \in BOOLEAN
  /\ \A s \in Steps :
       /\ outcome[s] = "none" <=> at[s] # "done"
       /\ cid[s] # NoCid => outcome[s] \in {"failed", "output"}
       /\ at[s] \in {"submit", "wait", "look"} => kind[s] = "bacalhau"
       /\ remote[s] # "none" => kind[s] = "bacalhau" /\ at[s] \in {"wait", "look", "done"}

Init ==
  /\ kind \in JobKinds
  /\ at = [s \in Steps |-> "idle"]
  /\ outcome = [s \in Steps |-> "none"]
  /\ cid = [s \in Steps |-> NoCid]
  /\ printed = [s \in Steps |-> FALSE]
  /\ remote = [s \in Steps |-> "none"]
  /\ stopped = FALSE
  /\ crashed = FALSE

-----------------------------------------------------------------------------
\* What a step is given, and what it makes of it.

Parents(s) == {i.node : i \in Inputs[s]} \ {0}

\* A slip: also a work that was skipped has an output.
GivenAlways(s) == {p \in Parents(s) : p \in Putting /\ outcome[p] # "cancelled"}

\* A parent hands on its first output, even if its job has failed.  One that was skipped
\* or found the context cancelled has none.
Given(s) == {p \in Parents(s) : p \in Putting /\ outcome[p] \in {"lost", "failed", "output"}}

Matched(s) == {i \in Inputs[s] : i.node \in Given(s) /\ i.output = 0}

Matches(i) == i.predicate = "some" => printed[i.node]

Predicated(s) == {i \in Matched(s) : i.predicate # "none"}

\* The inputs of the job: the root input as it is, and of the others those that are to be
\* mounted and that are content identifiers.
Computed(s) ==
  {i \in Inputs[s] : i.node = 0 \/ (i \in Matched(s) /\ i.path /\ cid[i.node] # NoCid)}

Ref(i) == IF i.node = 0 THEN 0 ELSE cid[i.node]

-----------------------------------------------------------------------------
\* The work of a node.

Goto(s, label) == at' = [at EXCEPT ![s] = label] /\ UNCHANGED <<outcome, cid, printed>>

Return(s, o, c, p) ==
  /\ at' = [at EXCEPT ![s] = "done"]
  /\ outcome' = [outcome EXCEPT ![s] = o]
  /\ cid' = [cid EXCEPT ![s] = c]
  /\ printed' = [printed EXCEPT ![s] = p]

\* A node is executed when its parents have ended; its work ends at once when the context
\* is done, a predicate does not match or there is nothing to work on.
Work(s) ==
  /\ ~crashed /\ at[s] = "idle" /\ \A p \in Parents(s) : at[p] = "done"
  /\ LET mismatch == \E i \in Matched(s) : ~Matches(i)
         nothing == Computed(s) = {} /\ Predicated(s) = {}
     IN \/ stopped /\ Return(s, "cancelled", NoCid, FALSE)
        \/ ~stopped /\ (mismatch \/ nothing) /\ Return(s, "skipped", NoCid, FALSE)
        \/ ~stopped /\ ~mismatch /\ ~nothing /\ Goto(s, "queued")
  /\ UNCHANGED <<kind, remote, stopped, crashed>>

Busy == {s \in Steps : at[s] \in {"submit", "wait", "look"}}

\* execute: a worker takes the job.  A job without an entry in the configuration panics.
RunJob(s) ==
  /\ ~crashed /\ at[s] = "queued" /\ Cardinality(Busy) < Workers
  /\ \/ kind[s] = "unknown" /\ crashed' = TRUE /\ UNCHANGED <<at, outcome, cid, printed>>
     \/ kind[s] = "broken" /\ Return(s, "failed", NoCid, FALSE) /\ UNCHANGED crashed
     \/ /\ kind[s] = "root-job"
        /\ IF Cardinality(Computed(s)) = 1
           THEN Return(s, "output", Ref(CHOOSE i \in Computed(s) : TRUE), FALSE)
           ELSE Return(s, "failed", NoCid, FALSE)
        /\ UNCHANGED crashed
     \/ kind[s] = "bacalhau" /\ Goto(s, "submit") /\ UNCHANGED crashed
  /\ UNCHANGED <<kind, remote, stopped>>

-----------------------------------------------------------------------------
\* BacalhauExecutor.Execute.  A call fails when the context is done, and may fail
\* otherwise; the job stays in the network as it is.

Submit(s) ==
  /\ ~crashed /\ at[s] = "submit"
  /\ \/ Return(s, "lost", NoCid, FALSE) /\ UNCHANGED remote
     \/ ~stopped /\ Goto(s, "wait") /\ remote' = [remote EXCEPT ![s] = "running"]
  /\ UNCHANGED <<kind, stopped, crashed>>

\* A slip: the wait goes on until the job has ended.
WaitForEnd(s) ==
  /\ ~crashed /\ at[s] = "wait"
  /\ remote[s] \in Terminal
  /\ Goto(s, "look")
  /\ UNCHANGED <<kind, remote, stopped, crashed>>

\* waitUntilCompleted ends at a tick, when the job has come to one of the three states it
\* knows as an end or a call fails; or by its timeout, or when the context is done.
EndWait(s) ==
  /\ ~crashed /\ at[s] = "wait"
  /\ Goto(s, "look")
  /\ UNCHANGED <<kind, remote, stopped, crashed>>

\* A slip: what has come of the wait is not looked at, but the first identifier there is.
LookAtAny(s) ==
  /\ ~crashed /\ at[s] = "look"
  /\ \/ Return(s, "lost", NoCid, FALSE)
     \/ ~stopped /\ \E p \in BOOLEAN : Return(s, "output", s, p)
  /\ UNCHANGED <<kind, remote, stopped, crashed>>

\* A slip: a wait that has timed out is the end of it.
LookInTime(s) ==
  /\ ~crashed /\ at[s] = "look"
  /\ \/ Return(s, "lost", NoCid, FALSE)
     \/ Return(s, "failed", NoCid, FALSE)
     \/ ~stopped /\ remote[s] = "completed" /\ \E p \in BOOLEAN : Return(s, "output", s, p)
  /\ UNCHANGED <<kind, remote, stopped, crashed>>

\* However the wait has ended, the job is looked at once more.  If it has not completed,
\* that is an error, but what it has published and printed is put out with it.
Look(s) ==
  /\ ~crashed /\ at[s] = "look"
  /\ \/ Return(s, "lost", NoCid, FALSE)
     \/ ~stopped /\ remote[s] = "completed" /\ \E p \in BOOLEAN : Return(s, "output", s, p)
     \/ ~stopped /\ remote[s] = "published" /\ \E p \in BOOLEAN : Return(s, "failed", s, p)
     \/ ~stopped /\ remote[s] \notin Published /\ Return(s, "failed", NoCid, FALSE)
  /\ UNCHANGED <<kind, remote, stopped, crashed>>

-----------------------------------------------------------------------------
\* The network and the user.

\* Nothing says when a job moves on, and no one tells it when the wait is over.
Remote(s) ==
  /\ remote[s] \in {"running", "published"}
  /\ \E r \in RemoteStates \ {"none", remote[s]} :
       /\ remote[s] = "published" => r \in Published
       /\ remote' = [remote EXCEPT ![s] = r]
  /\ UNCHANGED <<kind, at, outcome, cid, printed, stopped, crashed>>

Stop ==
  /\ ~stopped /\ ~crashed
  /\ stopped' = TRUE
  /\ UNCHANGED <<kind, at, outcome, cid, printed, remote, crashed>>

ExecutorStep(s) == Submit(s) \/ EndWait(s) \/ Look(s)

Next ==
  \/ \E s \in Steps : Work(s) \/ RunJob(s) \/ ExecutorStep(s) \/ Remote(s)
  \/ Stop

\* Goroutines run, a free worker takes the next job, calls return and timers expire;
\* jobs in the network need never end.
Fairness == \A s \in Steps : WF_vars(Work(s)) /\ SF_vars(RunJob(s)) /\ WF_vars(ExecutorStep(s))

Spec == Init /\ [][Next]_vars /\ Fairness

-----------------------------------------------------------------------------
\* Whatever a job is given, and whatever is put out for the user, is the root input or a
\* result that the job it is taken for has published: never that of a job that was lost,
\* timed out or skipped on the way, at however many steps of a distance
\* (factory.go:205-219, bacalhau.go:56-78, 81-110).
InputsAreReal ==
  \A s \in Steps :
    /\ cid[s] \in Steps => remote[cid[s]] \in Published
    /\ \A i \in Computed(s) : Ref(i) = 0 \/ (Ref(i) \in Steps /\ remote[Ref(i)] \in Published)

\* A job that has completed by the last look counts, even if its wait was over before: its
\* step puts its result out unless a call failed or the command was stopped, also when
\* the timer and the tick are ready at the same time (bacalhau.go:51-64, 176-203).
CompletedCounts ==
  [][\A s \in Steps :
       at[s] # "done" /\ at'[s] = "done" /\ remote[s] = "completed" /\ outcome'[s] # "lost" =>
         cid'[s] = s]_vars

\* Where all the steps it depends on were skipped, a step is skipped too, or ends with the
\* context: a predicate that does not match keeps everything behind it from running
\* (factory.go:190-231).
SkipSpreads ==
  \A s \in Steps :
    Parents(s) # {} /\ (\A i \in Inputs[s] : i.node # 0 /\ outcome[i.node] = "skipped") =>
      at[s] = "idle" \/ outcome[s] \in {"skipped", "cancelled"}

\* The work of every step returns, though jobs in the network may never end, as long as
\* the command is neither stopped nor crashes (factory.go:260, bacalhau.go:176-203).
EveryWorkReturns == \A s \in Steps : <>(at[s] = "done" \/ stopped \/ crashed)
=============================================================================

---------------------------- MODULE ServeProofs ----------------------------
(***************************************************************************)
(* Every piece of work gets exactly its result before it returns, for any  *)
(* number of executors of work and of node workers, any capacity of the    *)
(* node queue, and an interrupt at any time (module Serve).                *)
(*                                                                         *)
(* The argument: the job of a work that waits is in one place, in the node *)
(* queue or with one worker, and no work that does not wait has a job.     *)
(***************************************************************************)
EXTENDS Serve, TLAPS

Busy == {"execute", "result", "handover"}

\* The variables the argument is about; those of the trigger and of main are not.
Shape ==
  /\ at \in [Works -> {"idle", "begin", "enqueue", "send", "wait", "done"}]
  /\ outcome \in [Works -> {"none", "output", "skipped", "cancelled"}]
  /\ results \in [Works -> Nat]
  /\ jobs \in Seq(Works)
  /\ job \in [NodeWorkers -> Works \cup {NoWork}]
  /\ jobAt \in [NodeWorkers -> Busy \cup {"select", "gone"}]
  /\ \A w \in NodeWorkers : job[w] \in Works <=> jobAt[w] \in Busy

\* No job is twice in the queue, with two workers, or in the queue and with a worker.
OnePlace ==
  /\ \A i, j \in 1..Len(jobs) : jobs[i] = jobs[j] => i = j
  /\ \A w, u \in NodeWorkers : job[w] \in Works /\ job[w] = job[u] => w = u
  /\ \A w \in NodeWorkers, i \in 1..Len(jobs) : job[w] # jobs[i]

\* Jobs are those of works that wait, and have sent a result just before the handover.
JobsOfWaiting ==
  /\ \A i \in 1..Len(jobs) : at[jobs[i]] = "wait" /\ results[jobs[i]] = 0
  /\ \A w \in NodeWorkers :
       job[w] \in Works =>
         /\ at[job[w]] = "wait"
         /\ results[job[w]] = IF jobAt[w] = "handover" THEN 1 ELSE 0

\* A work that does not wait has no result yet, or what its outcome says.
ResultsOfOthers ==
  \A e \in Works :
    /\ at[e] \in {"idle", "begin", "enqueue", "send"} => results[e] = 0
    /\ at[e] = "done" => results[e] = IF outcome[e] = "cancelled" THEN 0 ELSE 1

IInv == Shape /\ OnePlace /\ JobsOfWaiting /\ ResultsOfOthers

-----------------------------------------------------------------------------
\* Where the queue's jobs come from and go to.
LEMMA TailOfJobs ==
  ASSUME NEW s \in Seq(Works), s # <<>>
  PROVE  /\ Head(s) = s[1] /\ Head(s) \in Works
         /\ Tail(s) \in Seq(Works)
         /\ Len(s) \in Nat \ {0} /\ Len(Tail(s)) = Len(s) - 1
         /\ \A i \in 1..Len(Tail(s)) : i + 1 \in 2..Len(s) /\ Tail(s)[i] = s[i + 1]
  OBVIOUS

LEMMA AppendToJobs ==
  ASSUME NEW s \in Seq(Works), NEW e \in Works
  PROVE  /\ Append(s, e) \in Seq(Works)
         /\ Len(s) \in Nat /\ Len(Append(s, e)) = Len(s) + 1
         /\ \A i \in 1..Len(s) : Append(s, e)[i] = s[i]
         /\ Append(s, e)[Len(s) + 1] = e
  OBVIOUS

\* Initially nothing has a job or a result.
LEMMA InitIInv == Init => IInv
  BY ServeAssumption DEF Init, IInv, Shape, OnePlace, JobsOfWaiting, ResultsOfOthers, Busy

\* Steps of a work that leave the jobs alone.
LEMMA WorkStepIInv ==
  ASSUME IInv, NEW e \in Works, Start(e) \/ Begin(e) \/ TestFull(e) \/ Free(e)
  PROVE  IInv'
<1> USE DEF IInv
<1>1. at[e] # "wait" /\ UNCHANGED <<jobs, job, jobAt>>
  BY DEF Start, Begin, TestFull, Free, nodeVars
<1>2. \A d \in Works : d # e => at'[d] = at[d] /\ results'[d] = results[d] /\ outcome'[d] = outcome[d]
  BY DEF Start, Begin, TestFull, Free, Shape
<1>3. OnePlace'
  BY <1>1 DEF OnePlace
<1>4. JobsOfWaiting'
  <2>1. \A i \in 1..Len(jobs) : jobs[i] \in Works /\ jobs[i] # e
    BY <1>1 DEF Shape, JobsOfWaiting
  <2>2. \A w \in NodeWorkers : job[w] # e
    BY <1>1 DEF JobsOfWaiting
  <2> QED
    BY <1>1, <1>2, <2>1, <2>2 DEF JobsOfWaiting
<1>5. CASE Start(e)
  BY <1>1, <1>3, <1>4, <1>5 DEF Start, Shape, ResultsOfOthers
<1>6. CASE Begin(e)
  <2>1. at' \in [Works -> {"idle", "begin", "enqueue", "send", "wait", "done"}]
    BY <1>6 DEF Begin, Shape
  <2>2. outcome' \in [Works -> {"none", "output", "skipped", "cancelled"}]
    BY <1>6 DEF Begin, Shape
  <2>3. results' \in [Works -> Nat]
    <3>1. results \in [Works -> Nat] /\ results[e] + 1 \in Nat
      BY DEF Shape
    <3>2. results' = results \/ results' = [results EXCEPT ![e] = results[e] + 1]
      BY <1>6 DEF Begin
    <3> QED
      BY <3>1, <3>2
  <2>4. Shape'
    BY <1>1, <2>1, <2>2, <2>3 DEF Shape
  <2>5. ResultsOfOthers'
    BY <1>6 DEF Begin, Shape, ResultsOfOthers
  <2> QED
    BY <1>3, <1>4, <2>4, <2>5
<1>7. CASE TestFull(e)
  <2>1. Shape'
    BY <1>1, <1>7 DEF TestFull, Shape
  <2>2. ResultsOfOthers'
    BY <1>7 DEF TestFull, Shape, ResultsOfOthers
  <2> QED
    BY <1>3, <1>4, <2>1, <2>2
<1>8. CASE Free(e)
  BY <1>1, <1>3, <1>4, <1>8 DEF Free, Shape, ResultsOfOthers
<1> QED
  BY <1>5, <1>6, <1>7, <1>8

\* A work that sends its job had none anywhere: it did not wait.
LEMMA SendIInv ==
  ASSUME IInv, NEW e \in Works, Send(e)
  PROVE  IInv'
<1> USE DEF IInv
<1>1. /\ \A i \in 1..Len(jobs) : jobs[i] # e
      /\ \A w \in NodeWorkers : job[w] # e
      /\ results[e] = 0
  BY DEF Send, JobsOfWaiting, ResultsOfOthers, Shape
<1>2. /\ jobs' \in Seq(Works) /\ Len(jobs) \in Nat /\ Len(jobs') = Len(jobs) + 1
      /\ \A i \in 1..Len(jobs) : jobs'[i] = jobs[i]
      /\ jobs'[Len(jobs) + 1] = e
  BY AppendToJobs DEF Send, Shape
<1>3. Shape'
  BY <1>2 DEF Send, Shape
<1>4. OnePlace'
  BY <1>1, <1>2 DEF Send, OnePlace
<1>5. JobsOfWaiting'
  BY <1>1, <1>2 DEF Send, JobsOfWaiting, Shape
<1>6. ResultsOfOthers'
  BY DEF Send, ResultsOfOthers, Shape
<1> QED
  BY <1>3, <1>4, <1>5, <1>6

\* A worker takes the first job out of the queue.
LEMMA TakeIInv ==
  ASSUME IInv, NEW w \in NodeWorkers, TakeJob(w)
  PROVE  IInv'
<1> USE DEF IInv
<1>1. /\ Len(jobs) \in Nat \ {0} /\ Len(jobs') = Len(jobs) - 1
      /\ jobs' \in Seq(Works) /\ jobs[1] \in Works
      /\ job' = [job EXCEPT ![w] = jobs[1]]
      /\ \A i \in 1..Len(jobs') : i + 1 \in 2..Len(jobs) /\ jobs'[i] = jobs[i + 1]
  BY TailOfJobs DEF TakeJob, Shape
<1>2. Shape'
  <2>1. job' \in [NodeWorkers -> Works \cup {NoWork}]
    BY <1>1 DEF Shape
  <2>2. jobAt' = [jobAt EXCEPT ![w] = "execute"]
    BY DEF TakeJob
  <2>3. jobAt' \in [NodeWorkers -> Busy \cup {"select", "gone"}]
    BY <2>2 DEF Shape, Busy
  <2>4. \A x \in NodeWorkers : job'[x] \in Works <=> jobAt'[x] \in Busy
    BY <1>1, <2>2 DEF Shape, Busy
  <2> QED
    BY <1>1, <2>1, <2>3, <2>4 DEF TakeJob, Shape, workVars
<1>3. OnePlace'
  <2>1. \A i, j \in 1..Len(jobs') : jobs'[i] = jobs'[j] => i = j
    BY <1>1 DEF OnePlace
  <2>2. \A x, y \in NodeWorkers : job'[x] \in Works /\ job'[x] = job'[y] => x = y
    BY <1>1 DEF OnePlace, Shape
  <2>3. \A x \in NodeWorkers, i \in 1..Len(jobs') : job'[x] # jobs'[i]
    BY <1>1 DEF OnePlace, Shape
  <2> QED
    BY <2>1, <2>2, <2>3 DEF OnePlace
<1>4. JobsOfWaiting'
  BY <1>1 DEF TakeJob, JobsOfWaiting, Shape, workVars
<1>5. ResultsOfOthers'
  BY DEF TakeJob, ResultsOfOthers, workVars
<1> QED
  BY <1>2, <1>3, <1>4, <1>5

\* A worker sends the result of its job, and nobody else's.
LEMMA SendResultIInv ==
  ASSUME IInv, NEW w \in NodeWorkers, SendResult(w)
  PROVE  IInv'
<1> USE DEF IInv
<1>1. job[w] \in Works /\ at[job[w]] = "wait" /\ results[job[w]] = 0
  BY DEF SendResult, Shape, Busy, JobsOfWaiting
<1>2. Shape'
  BY <1>1 DEF SendResult, Shape, Busy
<1>3. OnePlace'
  BY DEF SendResult, OnePlace
<1>4. JobsOfWaiting'
  BY <1>1 DEF SendResult, JobsOfWaiting, OnePlace, Shape
<1>5. ResultsOfOthers'
  BY <1>1 DEF SendResult, ResultsOfOthers, Shape
<1> QED
  BY <1>2, <1>3, <1>4, <1>5

\* Job and work meet: the work returns with the one result, the job is nowhere.
LEMMA HandoverIInv ==
  ASSUME IInv, NEW w \in NodeWorkers, Handover(w)
  PROVE  IInv'
<1> USE DEF IInv
<1>1. job[w] \in Works /\ at[job[w]] = "wait" /\ results[job[w]] = 1
  BY DEF Handover, Shape, Busy, JobsOfWaiting
<1>2. Shape'
  BY <1>1, ServeAssumption DEF Handover, Shape, Busy
<1>3. OnePlace'
  BY ServeAssumption DEF Handover, OnePlace, Shape
<1>4. JobsOfWaiting'
  BY <1>1, ServeAssumption DEF Handover, JobsOfWaiting, OnePlace, Shape
<1>5. ResultsOfOthers'
  BY <1>1 DEF Handover, ResultsOfOthers, Shape
<1> QED
  BY <1>2, <1>3, <1>4, <1>5

\* The other steps of a worker, and those that touch neither works nor jobs.
LEMMA OtherStepIInv ==
  ASSUME IInv,
         \/ \E w \in NodeWorkers : ExecuteJob(w) \/ QuitNode(w)
         \/ \E e \in Works : QuitWorkflow(e)
         \/ TriggerStep \/ ConsumerStep \/ Interrupt \/ MainStep
         \/ UNCHANGED vars
  PROVE  IInv'
<1> USE DEF IInv, Shape, OnePlace, JobsOfWaiting, ResultsOfOthers, workVars, nodeVars
<1>1. CASE \E w \in NodeWorkers : ExecuteJob(w)
  BY <1>1 DEF ExecuteJob, Busy
<1>2. CASE \E w \in NodeWorkers : QuitNode(w)
  BY <1>2 DEF QuitNode, Busy
<1>3. CASE UNCHANGED <<at, outcome, results, jobs, job, jobAt>>
  BY <1>3
<1>4. ASSUME \E e \in Works : QuitWorkflow(e)
      PROVE  UNCHANGED <<at, outcome, results, jobs, job, jobAt>>
  BY <1>4 DEF QuitWorkflow
<1>5. ASSUME TriggerStep \/ ConsumerStep \/ Interrupt \/ MainStep \/ UNCHANGED vars
      PROVE  UNCHANGED <<at, outcome, results, jobs, job, jobAt>>
  BY <1>5 DEF TriggerStep, Search, SendCid, TriggerQuit, ConsumerStep, ConsumerCreate,
    ConsumerQuit, Interrupt, MainStep, StopHTTP, StopNodes, StopWorkflows, vars
<1> QED
  BY <1>1, <1>2, <1>3, <1>4, <1>5

LEMMA NextIInv == IInv /\ [Next]_vars => IInv'
<1> SUFFICES ASSUME IInv, [Next]_vars PROVE IInv'
  OBVIOUS
<1>1. CASE \E e \in Works : Start(e) \/ WorkStep(e)
  BY <1>1, WorkStepIInv, SendIInv DEF WorkStep
<1>2. CASE \E w \in NodeWorkers : NodeStep(w)
  BY <1>2, TakeIInv, SendResultIInv, HandoverIInv, OtherStepIInv DEF NodeStep
<1>3. CASE \/ \E e \in Works : QuitWorkflow(e)
           \/ TriggerStep \/ ConsumerStep \/ Interrupt \/ MainStep \/ UNCHANGED vars
  BY <1>3, OtherStepIInv
<1> QED
  BY <1>1, <1>2, <1>3 DEF Next

\* A work that has returned has no job: jobs are those of works that wait.
LEMMA IInvGivesResults == IInv => ResultsBeforeReturn
<1> SUFFICES ASSUME IInv, NEW e \in Works, at[e] = "done"
             PROVE  /\ results[e] = (IF outcome[e] = "cancelled" THEN 0 ELSE 1)
                    /\ \A w \in NodeWorkers : job[w] # e
                    /\ \A i \in 1..Len(jobs) : jobs[i] # e
  BY DEF ResultsBeforeReturn
<1> QED
  BY DEF IInv, JobsOfWaiting, ResultsOfOthers

\* The job of a waiting work is in one place at all times: with one worker, or once in
\* the node queue (factory.go:240-262, inMemQueue.go:58-66).
THEOREM JobsInOnePlace == Spec => [](OnePlace /\ JobsOfWaiting)
<1>1. IInv => OnePlace /\ JobsOfWaiting
  BY DEF IInv
<1> QED
  BY <1>1, InitIInv, NextIInv, PTL DEF Spec

\* A work that returns got its one result, or none if it gave up, and no job of it is
\* left that could send on its closed channel (factory.go:155, 240-260).
THEOREM WorkGetsItsResult == Spec => []ResultsBeforeReturn
  BY InitIInv, NextIInv, IInvGivesResults, PTL DEF Spec
=============================================================================

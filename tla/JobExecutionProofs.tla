-------------------------- MODULE JobExecutionProofs --------------------------
(***************************************************************************)
(* Proofs about JobExecution, for every configuration of jobs and any      *)
(* number of workers: its type invariant, that whatever is handed on is    *)
(* the root input or a published result, that skipping spreads, and that a *)
(* job that has completed counts.                                          *)
(***************************************************************************)
EXTENDS JobExecution, FiniteSetTheorems, TLAPS

Outcomes == {"skipped", "cancelled", "lost", "failed", "output"}

\* Steps are positive numbers, and neither the root input nor "no identifier" is one.
LEMMA StepsArePositive == \A s \in Steps : s \in Int /\ s >= 1
BY JobAssumption

\* A parent is a step of the graph (factory.go:115-141).
LEMMA ParentsAreSteps == \A s \in Steps : Parents(s) \subseteq Steps
BY JobAssumption DEF Parents

\* What a job is given is one of its configured inputs, and refers to the root input or to
\* the identifier of a step (factory.go:205-219).
LEMMA RefIsCid ==
  ASSUME TypeOK, NEW s \in Steps, NEW i \in Computed(s)
  PROVE  /\ Ref(i) \in Cids \ {NoCid}
         /\ Ref(i) # 0 => i.node \in Steps /\ Ref(i) = cid[i.node]
<1>1. i.node \in {0} \cup Steps
  BY JobAssumption DEF Computed
<1> QED  BY <1>1, StepsArePositive DEF Computed, Ref, TypeOK, Cids, NoCid

\* Where there is one input the root-job picks it (executor/internal.go:49-62).
LEMMA SomethingComputed ==
  ASSUME NEW s \in Steps, Cardinality(Computed(s)) = 1
  PROVE  (CHOOSE i \in Computed(s) : TRUE) \in Computed(s)
<1>1. Computed(s) # {}
  BY FS_EmptySet
<1> QED  BY <1>1

-----------------------------------------------------------------------------
\* A work that is over has an outcome, and one that failed or succeeded perhaps an
\* identifier, whatever it did before (factory.go:153-269).
LEMMA ReturnTyped ==
  ASSUME TypeOK, NEW s \in Steps, NEW o \in Outcomes, NEW c \in Cids, NEW p \in BOOLEAN,
         c # NoCid => o \in {"failed", "output"},
         Return(s, o, c, p), UNCHANGED <<kind, stopped>>, crashed' \in BOOLEAN,
         remote' \in [Steps -> RemoteStates],
         \A t \in Steps : remote'[t] = remote[t]
  PROVE  TypeOK'
BY DEF TypeOK, Return, Outcomes

LEMMA GotoTyped ==
  ASSUME TypeOK, NEW s \in Steps, at[s] # "done",
         NEW l \in {"queued", "submit", "wait", "look"},
         l # "queued" => kind[s] = "bacalhau", Goto(s, l), UNCHANGED <<kind, stopped>>, crashed' \in BOOLEAN,
         remote' \in [Steps -> RemoteStates],
         \A t \in Steps \ {s} : remote'[t] = remote[t],
         remote'[s] # "none" => l \in {"wait", "look"}
  PROVE  TypeOK'
BY DEF TypeOK, Goto

\* Every step keeps the types of the configuration, the works and the network.
LEMMA StepTyped == TypeOK /\ [Next]_vars => TypeOK'
<1> SUFFICES ASSUME TypeOK, [Next]_vars
             PROVE  TypeOK'
  OBVIOUS
<1> USE DEF Outcomes, Cids
<1>1. ASSUME NEW s \in Steps, Work(s)
      PROVE  TypeOK'
  <2>1. CASE Return(s, "cancelled", NoCid, FALSE) \/ Return(s, "skipped", NoCid, FALSE)
    BY <1>1, <2>1, ReturnTyped DEF Work, TypeOK
  <2>2. CASE Goto(s, "queued")
    BY <1>1, <2>2, GotoTyped DEF Work, TypeOK
  <2> QED  BY <1>1, <2>1, <2>2 DEF Work
<1>2. ASSUME NEW s \in Steps, RunJob(s)
      PROVE  TypeOK'
  <2>1. CASE kind[s] = "unknown"
    BY <1>2, <2>1 DEF RunJob, TypeOK
  <2>2. CASE Return(s, "failed", NoCid, FALSE)
    BY <1>2, <2>2, ReturnTyped DEF RunJob, TypeOK
  <2>3. CASE /\ Cardinality(Computed(s)) = 1
             /\ Return(s, "output", Ref(CHOOSE i \in Computed(s) : TRUE), FALSE)
    <3>1. Ref(CHOOSE i \in Computed(s) : TRUE) \in Cids
      BY <2>3, SomethingComputed, RefIsCid
    <3> QED  BY <1>2, <2>3, <3>1, ReturnTyped DEF RunJob, TypeOK
  <2>4. CASE kind[s] = "bacalhau" /\ Goto(s, "submit")
    BY <1>2, <2>4, GotoTyped DEF RunJob, TypeOK
  <2> QED  BY <1>2, <2>1, <2>2, <2>3, <2>4 DEF RunJob
<1>3. ASSUME NEW s \in Steps, Submit(s)
      PROVE  TypeOK'
  <2>1. CASE Return(s, "lost", NoCid, FALSE) /\ UNCHANGED remote
    BY <1>3, <2>1, ReturnTyped DEF Submit, TypeOK
  <2>2. CASE Goto(s, "wait") /\ remote' = [remote EXCEPT ![s] = "running"]
    BY <1>3, <2>2, GotoTyped DEF Submit, TypeOK, RemoteStates
  <2> QED  BY <1>3, <2>1, <2>2 DEF Submit
<1>4. ASSUME NEW s \in Steps, EndWait(s)
      PROVE  TypeOK'
  BY <1>4, GotoTyped DEF EndWait, TypeOK
<1>5. ASSUME NEW s \in Steps, Look(s)
      PROVE  TypeOK'
  <2>1. CASE Return(s, "lost", NoCid, FALSE) \/ Return(s, "failed", NoCid, FALSE)
    BY <1>5, <2>1, ReturnTyped DEF Look, TypeOK
  <2>2. CASE \E p \in BOOLEAN : Return(s, "output", s, p) \/ Return(s, "failed", s, p)
    BY <1>5, <2>2, ReturnTyped DEF Look, TypeOK
  <2> QED  BY <1>5, <2>1, <2>2 DEF Look
<1>6. ASSUME NEW s \in Steps, Remote(s)
      PROVE  TypeOK'
  BY <1>6 DEF Remote, TypeOK
<1>7. CASE Stop
  BY <1>7 DEF Stop, TypeOK
<1>8. CASE UNCHANGED vars
  BY <1>8 DEF vars, TypeOK
<1> QED  BY <1>1, <1>2, <1>3, <1>4, <1>5, <1>6, <1>7, <1>8 DEF Next, ExecutorStep

\* A work's record never takes a value out of its type, whatever the other steps,
\* the network and the user do (factory.go:153-292, bacalhau.go:35-203).
THEOREM TypeCorrect == Spec => []TypeOK
<1>1. Init => TypeOK
  BY DEF Init, TypeOK, Cids, RemoteStates
<1> QED  BY <1>1, StepTyped, PTL DEF Spec
-----------------------------------------------------------------------------
\* What has been published stays so, and identifiers are handed out only when a work
\* is over, once and for all.
LEMMA PublishedStays ==
  ASSUME TypeOK, [Next]_vars, NEW t \in Steps, remote[t] \in Published
  PROVE  remote'[t] \in Published
<1>1. CASE \E s \in Steps : Submit(s)
  BY <1>1 DEF Submit, TypeOK, Published
<1>2. CASE \E s \in Steps : Remote(s)
  BY <1>2 DEF Remote, TypeOK, Published
<1> QED
  BY <1>1, <1>2 DEF Next, ExecutorStep, Work, RunJob, EndWait, Look, Stop, vars

\* An identifier that a step puts out is the root input or published.
CidPublished == \A s \in Steps : cid[s] \in Steps => remote[cid[s]] \in Published

LEMMA CidStep == TypeOK /\ TypeOK' /\ CidPublished /\ [Next]_vars => CidPublished'
<1> SUFFICES ASSUME TypeOK, TypeOK', CidPublished, [Next]_vars, NEW s \in Steps, cid'[s] \in Steps
             PROVE  remote'[cid'[s]] \in Published
  BY DEF CidPublished
<1>1. CASE cid'[s] = cid[s]
  BY <1>1, PublishedStays DEF CidPublished
<1>2. CASE cid'[s] # cid[s] /\ RunJob(s)
  <2>1. cid'[s] = Ref(CHOOSE i \in Computed(s) : TRUE) /\ Cardinality(Computed(s)) = 1
    BY <1>2, StepsArePositive DEF RunJob, Return, Goto, TypeOK, NoCid
  <2>2. PICK i \in Computed(s) : cid'[s] = Ref(i)
    BY <2>1, SomethingComputed
  <2>3. i.node \in Steps /\ cid'[s] = cid[i.node]
    BY <2>2, RefIsCid, StepsArePositive
  <2> QED  BY <2>3, PublishedStays DEF CidPublished
<1>3. CASE cid'[s] # cid[s] /\ Look(s)
  <2>1. remote[s] \in Published /\ cid'[s] = s /\ remote' = remote
    BY <1>3, StepsArePositive DEF Look, Return, TypeOK, NoCid, Published
  <2> QED  BY <2>1
<1>4. cid'[s] # cid[s] => RunJob(s) \/ Look(s)
  <2>1. ASSUME NEW t \in Steps, Work(t) \/ Submit(t)
        PROVE  cid'[s] = cid[s] \/ cid'[s] = NoCid
    BY <2>1 DEF Work, Submit, Return, Goto, TypeOK
  <2>2. ASSUME NEW t \in Steps, RunJob(t) \/ Look(t), t # s
        PROVE  cid'[s] = cid[s]
    BY <2>2 DEF RunJob, Look, Return, Goto, TypeOK
  <2> QED
    BY <2>1, <2>2, StepsArePositive DEF Next, ExecutorStep, EndWait, Remote, Stop, Goto, vars, NoCid
<1> QED  BY <1>1, <1>2, <1>3, <1>4

\* Whatever a job is given and whatever is put out is the root input or has been
\* published by the job it is of (factory.go:205-219, bacalhau.go:56-110).
THEOREM InputsAreAlwaysReal == Spec => []InputsAreReal
<1>1. Init => CidPublished
  BY StepsArePositive DEF Init, CidPublished, NoCid
<1>2. TypeOK /\ CidPublished => InputsAreReal
  <2> SUFFICES ASSUME TypeOK, CidPublished, NEW s \in Steps, NEW i \in Computed(s), Ref(i) # 0
               PROVE  Ref(i) \in Steps /\ remote[Ref(i)] \in Published
    BY DEF InputsAreReal, CidPublished
  <2>1. Ref(i) \in Steps /\ i.node \in Steps /\ Ref(i) = cid[i.node]
    BY RefIsCid DEF Cids
  <2> QED  BY <2>1 DEF CidPublished
<1> QED  BY <1>1, <1>2, CidStep, TypeCorrect, PTL DEF Spec

-----------------------------------------------------------------------------
\* A work that has come past its start has all its parents behind it (node.go:162-183).
ParentsDone == \A s \in Steps : at[s] # "idle" => \A p \in Parents(s) : at[p] = "done"

\* What a work that is over came to does not change.
LEMMA DoneStays ==
  ASSUME TypeOK, [Next]_vars, NEW p \in Steps, at[p] = "done"
  PROVE  at'[p] = "done" /\ outcome'[p] = outcome[p]
BY DEF Next, ExecutorStep, Work, RunJob, Submit, EndWait, Look, Remote, Stop, Return, Goto,
       TypeOK, vars

\* A work begins once only, and any step of it but the first finds it begun.
LEMMA BeginsByWork ==
  ASSUME TypeOK, [Next]_vars, NEW s \in Steps, at'[s] # at[s] \/ outcome'[s] # outcome[s]
  PROVE  (at[s] = "idle" /\ Work(s)) \/ at[s] # "idle"
BY DEF Next, ExecutorStep, Work, RunJob, Submit, EndWait, Look, Remote, Stop, Return, Goto,
       TypeOK, vars

SkipInv == ParentsDone /\ SkipSpreads

LEMMA SkipStep == TypeOK /\ TypeOK' /\ SkipInv /\ [Next]_vars => SkipInv'
<1> SUFFICES ASSUME TypeOK, TypeOK', SkipInv, [Next]_vars
             PROVE  SkipInv'
  OBVIOUS
<1>1. ParentsDone'
  <2> SUFFICES ASSUME NEW s \in Steps, at'[s] # "idle", NEW p \in Parents(s)
               PROVE  at'[p] = "done"
    BY DEF ParentsDone, Parents
  <2>1. p \in Steps
    BY ParentsAreSteps
  <2>2. at[p] = "done"
    BY BeginsByWork DEF Work, SkipInv, ParentsDone
  <2> QED  BY <2>1, <2>2, DoneStays
<1>2. SkipSpreads'
  <2> SUFFICES ASSUME NEW s \in Steps, Parents(s) # {},
                      \A i \in Inputs[s] : i.node # 0 /\ outcome'[i.node] = "skipped"
               PROVE  at'[s] = "idle" \/ outcome'[s] \in {"skipped", "cancelled"}
    BY DEF SkipSpreads, Parents
  <2>1. CASE at'[s] = at[s] /\ outcome'[s] = outcome[s] /\ at[s] = "idle"
    BY <2>1
  <2>2. ASSUME NEW i \in Inputs[s], at[s] # "idle" \/ Work(s)
        PROVE  i.node \in Parents(s) /\ outcome[i.node] = "skipped"
    <3>1. i.node \in Parents(s) /\ i.node \in Steps
      BY ParentsAreSteps DEF Parents
    <3>2. at[i.node] = "done"
      BY <2>2, <3>1 DEF Work, SkipInv, ParentsDone
    <3> QED  BY <3>1, <3>2, DoneStays
  <2>3. CASE at[s] # "idle"
    <3>1. outcome[s] \in {"skipped", "cancelled"}
      BY <2>2, <2>3 DEF SkipInv, SkipSpreads
    <3>2. at[s] = "done"
      BY <3>1 DEF TypeOK
    <3> QED  BY <3>1, <3>2, DoneStays
  <2>4. CASE at[s] = "idle" /\ Work(s)
    <3>1. Given(s) = {}
      BY <2>2, <2>4 DEF Given, Parents
    <3>2. Computed(s) = {} /\ Predicated(s) = {} /\ Matched(s) = {}
      BY <2>2, <2>4, <3>1 DEF Matched, Predicated, Computed
    <3> QED  BY <2>4, <3>2 DEF Work, Return, TypeOK
  <2> QED  BY <2>1, <2>3, <2>4, BeginsByWork
<1> QED  BY <1>1, <1>2 DEF SkipInv

\* Where everything a step depends on was skipped, it is skipped as well, or ends with the
\* context (factory.go:190-231).
THEOREM SkippingSpreads == Spec => []SkipSpreads
<1>1. Init => SkipInv
  BY DEF Init, SkipInv, ParentsDone, SkipSpreads
<1>2. SkipInv => SkipSpreads
  BY DEF SkipInv
<1> QED  BY <1>1, <1>2, SkipStep, TypeCorrect, PTL DEF Spec

\* A job that has completed by the last look counts, also when its wait was over before
\* (bacalhau.go:51-64, 176-203).
THEOREM CompletedAlwaysCount == Spec => CompletedCounts
<1>1. TypeOK /\ [Next]_vars =>
        \A s \in Steps :
          at[s] # "done" /\ at'[s] = "done" /\ remote[s] = "completed" /\ outcome'[s] # "lost" =>
            cid'[s] = s
  <2> SUFFICES ASSUME TypeOK, [Next]_vars, NEW s \in Steps, at[s] # "done", at'[s] = "done",
                      remote[s] = "completed", outcome'[s] # "lost"
               PROVE  cid'[s] = s
    OBVIOUS
  <2>1. at[s] \in {"wait", "look"}
    BY DEF TypeOK
  <2>2. Look(s)
    BY <2>1 DEF Next, ExecutorStep, Work, RunJob, Submit, EndWait, Look, Remote, Stop, Return,
                Goto, TypeOK, vars
  <2> QED  BY <2>2 DEF Look, Return, TypeOK, Published
<1> QED  BY <1>1, TypeCorrect, PTL DEF Spec, CompletedCounts
=============================================================================

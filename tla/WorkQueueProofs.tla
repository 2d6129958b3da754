--------------------------- MODULE WorkQueueProofs ---------------------------
(***************************************************************************)
(* Safety of the queue for any number of callers, calls and workers and    *)
(* any capacity.                                                           *)
(***************************************************************************)
EXTENDS WorkQueue, FiniteSetTheorems, TLAPS

\* Workers that hold or run a job have not returned, and none is left after Stop.
WorkersInv ==
  /\ \A w \in Workers : taken[w] # NoJob \/ running[w] # NoJob => w \in alive
  /\ stop = "returned" => alive = {}

\* Of one caller the jobs received come before those in the channel, which are in
\* the order it made them and come before the one it is about to send.
Queued == 1..Len(queue)
Received == {j \in Jobs : runs[j] > 0 \/ \E w \in Workers : taken[w] = j}
OrderInv ==
  /\ \A c \in sending : made[c] >= 1
  /\ \A i \in Queued : queue[i][2] <= made[queue[i][1]]
  /\ \A i \in Queued : queue[i][1] \in sending => queue[i][2] # made[queue[i][1]]
  /\ \A i, j \in Queued :
       i < j /\ queue[i][1] = queue[j][1] => queue[i][2] < queue[j][2]
  /\ \A i \in Queued, k \in 1..Calls : <<queue[i][1], k>> \in Received => k < queue[i][2]
  /\ \A c \in Callers, k \in 1..Calls :
       <<c, k>> \in Received => k <= made[c] /\ (c \in sending => k # made[c])

\* No two workers hold one job, and none holds a job that was begun.
TakenInv ==
  /\ \A v, w \in Workers : taken[v] = taken[w] /\ taken[v] # NoJob => v = w
  /\ \A j \in Jobs : runs[j] <= IF \E w \in Workers : taken[w] = j THEN 0 ELSE 1

\* Once a job was begun, some worker holds no earlier job of its caller: at first
\* the one that began it, and what that one receives next is later.
Holds(w, c, i) == taken[w] = <<c, i>>
OvertakeInv ==
  \A c \in Callers, k \in 1..Calls :
    runs[<<c, k>>] > 0 => \E w \in Workers : \A i \in 1..(k - 1) : ~Holds(w, c, i)

LEMMA JobPair == ASSUME NEW j \in Jobs
                 PROVE  /\ j[1] \in Callers /\ j[2] \in 1..Calls /\ j[2] \in Nat
                        /\ j = <<j[1], j[2]>> /\ j # NoJob
<1>1. PICK c \in Callers, k \in 1..Calls : j = <<c, k>>
  BY DEF Jobs
<1>2. j[1] = c /\ j[2] = k /\ Len(j) = 2 /\ Len(NoJob) = 0 /\ k \in Nat
  BY <1>1, QueueAssumption DEF NoJob
<1> QED  BY <1>1, <1>2

\* The channel after a send and after a job was taken.
LEMMA Sent ==
  ASSUME TypeOK, NEW j \in Jobs, queue' = Append(queue, j)
  PROVE  /\ queue' \in Seq(Jobs) /\ Len(queue') = Len(queue) + 1
         /\ queue'[Len(queue) + 1] = j
         /\ \A i \in 1..Len(queue) : queue'[i] = queue[i]
  BY DEF TypeOK

LEMMA Taken ==
  ASSUME TypeOK, queue # <<>>, queue' = Tail(queue)
  PROVE  /\ queue' \in Seq(Jobs) /\ Len(queue') = Len(queue) - 1
         /\ Len(queue) >= 1 /\ Head(queue) = queue[1] /\ Head(queue) \in Jobs
         /\ \A i \in 1..Len(queue') : i + 1 \in 1..Len(queue) /\ queue'[i] = queue[i + 1]
<1>1. queue \in Seq(Jobs)
  BY DEF TypeOK
<1> QED  BY <1>1

-----------------------------------------------------------------------------
LEMMA InitOK ==
  Init => /\ TypeOK /\ WorkersInv /\ OrderInv /\ TakenInv /\ OvertakeInv
          /\ NothingLost /\ Overcommit
<1> SUFFICES ASSUME Init
             PROVE  /\ TypeOK /\ WorkersInv /\ OrderInv /\ TakenInv /\ OvertakeInv
                    /\ NothingLost /\ Overcommit
  OBVIOUS
<1>1. queue = <<>> /\ queue \in Seq(Jobs) /\ Len(queue) = 0
  BY DEF Init
<1>2. TypeOK
  <2>1. wg = Cardinality(alive) /\ Calls \in Nat /\ Capacity \in Nat
    BY QueueAssumption DEF Init, QueueAssumption
  <2>2. made \in [Callers -> 0..Calls]
    BY <2>1 DEF Init
  <2>3. /\ runs \in [Jobs -> Nat] /\ running \in [Workers -> Jobs \cup {NoJob}]
        /\ taken \in [Workers -> Jobs \cup {NoJob}]
    BY DEF Init
  <2>4. sending = {} /\ accepted = {} /\ alive = Workers
        /\ stop = "no" /\ ctxDone = FALSE
    BY DEF Init
  <2>5. Len(queue) <= Capacity
    BY <1>1, <2>1
  <2> QED  BY <1>1, <2>1, <2>2, <2>3, <2>4, <2>5 DEF TypeOK
<1>3. \A j \in Jobs : ~(runs[j] > 0) /\ runs[j] = 0 /\ \A w \in Workers : taken[w] # j
  BY JobPair DEF Init
<1>4. \A w \in Workers : taken[w] = NoJob /\ running[w] = NoJob
  BY DEF Init
<1>5. \A c \in Callers, k \in 1..Calls : <<c, k>> \in Jobs
  BY DEF Jobs
<1>6. OrderInv
  <2>1. sending = {} /\ Queued = {}
    BY <1>1 DEF Init, Queued
  <2> QED  BY <2>1, <1>3, <1>5 DEF OrderInv, Received
<1>7. WorkersInv /\ TakenInv
  BY <1>3, <1>4 DEF Init, WorkersInv, TakenInv
<1>8. OvertakeInv /\ NothingLost /\ Overcommit
  BY <1>3, <1>5 DEF Init, OvertakeInv, NothingLost, Overcommit
<1> QED  BY <1>2, <1>6, <1>7, <1>8

LEMMA TypeStep == TypeOK /\ OrderInv /\ [Next]_vars => TypeOK'
<1> SUFFICES ASSUME TypeOK, OrderInv, [Next]_vars PROVE TypeOK'
  OBVIOUS
<1>a. Calls \in Nat /\ Capacity \in Nat /\ IsFiniteSet(Workers) /\ IsFiniteSet(alive)
  BY QueueAssumption, FS_Subset DEF TypeOK
<1>1. ASSUME NEW c \in Callers, TestFull(c) PROVE TypeOK'
  <2>1. made' \in [Callers -> 0..Calls]
    BY <1>1, <1>a DEF TestFull, TypeOK
  <2>2. sending' \subseteq Callers
    BY <1>1 DEF TestFull, TypeOK
  <2> QED  BY <1>1, <2>1, <2>2 DEF TestFull, TypeOK
<1>2. ASSUME NEW c \in Callers, Send(c) PROVE TypeOK'
  <2>1. <<c, made[c]>> \in Jobs
    BY <1>2, <1>a DEF Send, TypeOK, OrderInv, Jobs
  <2>2. queue' \in Seq(Jobs) /\ Len(queue') <= Capacity
    <3>1. queue' = Append(queue, <<c, made[c]>>) /\ Len(queue) < Capacity
      BY <1>2 DEF Send
    <3>2. queue' \in Seq(Jobs) /\ Len(queue') = Len(queue) + 1 /\ Len(queue) \in Nat
      BY <2>1, <3>1, Sent DEF TypeOK
    <3> QED  BY <3>1, <3>2, <1>a
  <2>3. accepted' \subseteq Jobs /\ sending' \subseteq Callers
    BY <1>2, <2>1 DEF Send, TypeOK
  <2> QED  BY <1>2, <2>2, <2>3 DEF Send, TypeOK
<1>3. ASSUME NEW w \in Workers, Take(w) PROVE TypeOK'
  <2>1. /\ queue' \in Seq(Jobs) /\ Len(queue') = Len(queue) - 1
        /\ Len(queue) \in Nat /\ Head(queue) \in Jobs
    BY <1>3, Taken DEF Take, TypeOK
  <2>2. Len(queue') <= Capacity
    BY <2>1, <1>a DEF TypeOK
  <2>3. taken' \in [Workers -> Jobs \cup {NoJob}]
    BY <1>3, <2>1 DEF Take, TypeOK
  <2> QED  BY <1>3, <2>1, <2>2, <2>3 DEF Take, TypeOK
<1>8. ASSUME NEW w \in Workers, BeginJob(w) PROVE TypeOK'
  <2>1. taken[w] \in Jobs
    BY <1>8 DEF BeginJob, TypeOK
  <2>2. /\ taken' \in [Workers -> Jobs \cup {NoJob}]
        /\ running' \in [Workers -> Jobs \cup {NoJob}]
        /\ runs' \in [Jobs -> Nat]
    BY <1>8, <2>1 DEF BeginJob, TypeOK
  <2> QED  BY <1>8, <2>2 DEF BeginJob, TypeOK
<1>4. ASSUME NEW w \in Workers, EndJob(w) PROVE TypeOK'
  BY <1>4 DEF EndJob, TypeOK
<1>5. ASSUME NEW w \in Workers, Quit(w) PROVE TypeOK'
  <2>1. Cardinality(alive \ {w}) = Cardinality(alive) - 1
    BY <1>5, <1>a, FS_RemoveElement DEF Quit, AtSelect
  <2> QED  BY <1>5, <2>1 DEF Quit, TypeOK
<1>6. CASE Cancel \/ Stop \/ StopReturn
  BY <1>6 DEF Cancel, Stop, StopReturn, TypeOK
<1>7. CASE UNCHANGED vars
  BY <1>7 DEF vars, TypeOK
<1> QED  BY <1>1, <1>2, <1>3, <1>4, <1>5, <1>6, <1>7, <1>8 DEF Next, WorkerStep, Rest

LEMMA WorkersStep == TypeOK /\ WorkersInv /\ [Next]_vars => WorkersInv'
<1> SUFFICES ASSUME TypeOK, WorkersInv, [Next]_vars PROVE WorkersInv'
  OBVIOUS
<1>1. ASSUME NEW c \in Callers, TestFull(c) \/ Send(c) PROVE WorkersInv'
  BY <1>1 DEF TestFull, Send, WorkersInv
<1>2. ASSUME NEW w \in Workers, WorkerStep(w) PROVE WorkersInv'
  BY <1>2 DEF WorkerStep, Take, BeginJob, EndJob, Quit, AtSelect, WorkersInv, TypeOK
<1>3. CASE Cancel \/ Stop
  BY <1>3 DEF Cancel, Stop, WorkersInv
<1>4. CASE StopReturn
  <2>1. IsFiniteSet(alive)
    BY QueueAssumption, FS_Subset DEF TypeOK
  <2>2. alive = {}
    BY <1>4, <2>1, FS_EmptySet DEF StopReturn, TypeOK
  <2> QED  BY <1>4, <2>2 DEF StopReturn, WorkersInv
<1>5. CASE UNCHANGED vars
  BY <1>5 DEF vars, WorkersInv
<1> QED  BY <1>1, <1>2, <1>3, <1>4, <1>5 DEF Next, Rest

LEMMA OvercommitStep == TypeOK /\ Overcommit /\ [Next]_vars => Overcommit'
<1> SUFFICES ASSUME TypeOK, Overcommit, [Next]_vars PROVE Overcommit'
  OBVIOUS
<1>a. /\ Capacity \in Nat /\ IsFiniteSet(Callers) /\ IsFiniteSet(sending)
      /\ Cardinality(Callers) \in Nat /\ Cardinality(sending) \in Nat
      /\ queue \in Seq(Jobs) /\ Len(queue) \in Nat /\ Len(queue) <= Capacity
  BY QueueAssumption, FS_Subset, FS_CardinalityType DEF TypeOK
<1>1. ASSUME NEW c \in Callers, TestFull(c) PROVE Overcommit'
  <2>1. CASE IsFull
    BY <1>1, <2>1 DEF TestFull, Overcommit
  <2>2. CASE ~IsFull
    <3>1. sending' = sending \cup {c} /\ sending' \subseteq Callers /\ queue' = queue
      BY <1>1, <2>2 DEF TestFull, TypeOK
    <3>2. Cardinality(sending') <= Cardinality(Callers) /\ Cardinality(sending') \in Nat
      BY <3>1, <1>a, FS_Subset, FS_CardinalityType
    <3>3. Len(queue) < Capacity
      BY <2>2, <1>a DEF IsFull
    <3> QED  BY <3>1, <3>2, <3>3, <1>a DEF Overcommit
  <2> QED  BY <2>1, <2>2
<1>2. ASSUME NEW c \in Callers, Send(c) PROVE Overcommit'
  <2>1. c \in sending /\ sending' = sending \ {c}
    BY <1>2 DEF Send
  <2>2. Cardinality(sending') = Cardinality(sending) - 1
    BY <2>1, <1>a, FS_RemoveElement
  <2>3. Len(queue') = Len(queue) + 1
    BY <1>2, <1>a DEF Send
  <2> QED  BY <2>1, <2>2, <2>3, <1>a DEF Overcommit
<1>3. ASSUME NEW w \in Workers, Take(w) PROVE Overcommit'
  <2>1. Len(queue') = Len(queue) - 1 /\ sending' = sending
    BY <1>3, Taken DEF Take
  <2> QED  BY <2>1, <1>a DEF Overcommit
<1>4. ASSUME NEW w \in Workers, BeginJob(w) \/ EndJob(w) \/ Quit(w) PROVE Overcommit'
  BY <1>4 DEF BeginJob, EndJob, Quit, Overcommit
<1>5. CASE Cancel \/ Stop \/ StopReturn
  BY <1>5 DEF Cancel, Stop, StopReturn, Overcommit
<1>6. CASE UNCHANGED vars
  BY <1>6 DEF vars, Overcommit
<1> QED  BY <1>1, <1>2, <1>3, <1>4, <1>5, <1>6 DEF Next, WorkerStep, Rest

\* What was received grows by the job a worker takes, and begins one by one.
LEMMA TakeReceives ==
  ASSUME TypeOK, NEW w \in Workers, Take(w)
  PROVE  /\ queue[1] \in Jobs /\ Received' = Received \cup {queue[1]} /\ runs' = runs
         /\ taken[w] = NoJob
         /\ \A v \in Workers : taken'[v] = IF v = w THEN queue[1] ELSE taken[v]
<1>1. queue[1] \in Jobs /\ Head(queue) = queue[1]
  BY Taken DEF Take
<1>2. /\ runs' = runs /\ taken[w] = NoJob
      /\ \A v \in Workers : taken'[v] = IF v = w THEN queue[1] ELSE taken[v]
  BY <1>1 DEF Take, AtSelect, TypeOK
<1>3. \A j \in Jobs : (\E v \in Workers : taken'[v] = j)
                      <=> (\E v \in Workers : taken[v] = j) \/ j = queue[1]
  BY <1>2, JobPair
<1> QED  BY <1>1, <1>2, <1>3 DEF Received

LEMMA BeginReceives ==
  ASSUME TypeOK, NEW w \in Workers, BeginJob(w)
  PROVE  /\ taken[w] \in Jobs /\ Received' = Received
         /\ \A v \in Workers : taken'[v] = IF v = w THEN NoJob ELSE taken[v]
         /\ \A j \in Jobs : runs'[j] = IF j = taken[w] THEN runs[j] + 1 ELSE runs[j]
<1>1. taken[w] \in Jobs /\ \A j \in Jobs : runs[j] \in Nat
  BY DEF BeginJob, TypeOK
<1>2. /\ \A v \in Workers : taken'[v] = IF v = w THEN NoJob ELSE taken[v]
      /\ \A j \in Jobs : runs'[j] = IF j = taken[w] THEN runs[j] + 1 ELSE runs[j]
  BY <1>1 DEF BeginJob, TypeOK
<1>3. \A j \in Jobs : runs'[j] > 0 <=> runs[j] > 0 \/ j = taken[w]
  BY <1>1, <1>2
<1>4. \A j \in Jobs : (\E v \in Workers : taken[v] = j)
                      <=> (\E v \in Workers : taken'[v] = j) \/ j = taken[w]
  BY <1>2, JobPair
<1> QED  BY <1>1, <1>2, <1>3, <1>4 DEF Received

LEMMA OrderStep == TypeOK /\ OrderInv /\ [Next]_vars => OrderInv'
<1> SUFFICES ASSUME TypeOK, OrderInv, [Next]_vars PROVE OrderInv'
  OBVIOUS
<1>a. /\ Calls \in Nat /\ queue \in Seq(Jobs) /\ Len(queue) \in Nat
      /\ made \in [Callers -> 0..Calls]
  BY QueueAssumption DEF TypeOK
<1>b. \A i \in Queued : queue[i] \in Jobs /\ queue[i][1] \in Callers /\ queue[i][2] \in 1..Calls
  BY <1>a, JobPair DEF Queued
<1>c. \A c \in Callers, k \in 1..Calls : <<c, k>> \in Jobs
  BY DEF Jobs
<1>1. ASSUME NEW c \in Callers, TestFull(c) PROVE OrderInv'
  <2>1. /\ queue' = queue /\ Received' = Received /\ c \notin sending /\ made[c] < Calls
        /\ \A d \in Callers : made'[d] = IF d = c THEN made[c] + 1 ELSE made[d]
        /\ \A d \in sending' : d \in sending \/ d = c
    BY <1>1, <1>a DEF TestFull, Received
  <2>2. \A d \in sending' : made'[d] >= 1
    BY <2>1, <1>a DEF OrderInv, TypeOK
  <2>3. \A i \in Queued : queue[i][2] <= made'[queue[i][1]]
    BY <2>1, <1>a, <1>b DEF OrderInv
  <2>4. \A i \in Queued : queue[i][1] \in sending' => queue[i][2] # made'[queue[i][1]]
    BY <2>1, <1>a, <1>b DEF OrderInv
  <2>5. \A d \in Callers, k \in 1..Calls :
          <<d, k>> \in Received => k <= made'[d] /\ (d \in sending' => k # made'[d])
    BY <2>1, <1>a DEF OrderInv
  <2> QED  BY <2>1, <2>2, <2>3, <2>4, <2>5 DEF OrderInv, Queued
<1>2. ASSUME NEW c \in Callers, Send(c) PROVE OrderInv'
  <2> DEFINE new == <<c, made[c]>>
  <2>1. new \in Jobs /\ made[c] \in 1..Calls /\ c \in sending
    BY <1>2, <1>a, <1>c DEF Send, OrderInv
  <2>2. /\ made' = made /\ Received' = Received /\ sending' = sending \ {c}
        /\ queue' = Append(queue, new)
    BY <1>2 DEF Send, Received
  <2>3. /\ Len(queue') = Len(queue) + 1 /\ queue'[Len(queue) + 1] = new
        /\ \A i \in Queued : queue'[i] = queue[i]
    BY <2>1, <2>2, Sent DEF Queued
  <2>4. \A i \in Queued' : i \in Queued \/ i = Len(queue) + 1
    BY <2>3, <1>a DEF Queued
  <2>5. \A i \in Queued' : queue'[i][2] <= made[queue'[i][1]]
    <3>1. new[1] = c /\ new[2] = made[c] /\ made[c] <= made[c]
      BY <2>1
    <3> QED  BY <3>1, <2>3, <2>4 DEF OrderInv
  <2>6. \A i \in Queued' : queue'[i][1] \in sending' => queue'[i][2] # made[queue'[i][1]]
    <3>1. new[1] \notin sending'
      BY <2>2
    <3> HIDE DEF new
    <3> QED  BY <3>1, <2>2, <2>3, <2>4 DEF OrderInv
  <2>7. \A i \in Queued : queue[i][1] = c => queue[i][2] < made[c]
    BY <2>1, <1>a, <1>b DEF OrderInv
  <2>8. \A i, j \in Queued' :
          i < j /\ queue'[i][1] = queue'[j][1] => queue'[i][2] < queue'[j][2]
    <3> SUFFICES ASSUME NEW i \in Queued', NEW j \in Queued',
                        i < j, queue'[i][1] = queue'[j][1]
                 PROVE  queue'[i][2] < queue'[j][2]
      OBVIOUS
    <3>1. i \in Queued
      BY <2>3, <2>4, <1>a DEF Queued
    <3>2. CASE j \in Queued
      BY <3>1, <3>2, <2>3 DEF OrderInv
    <3>3. CASE j = Len(queue) + 1
      BY <3>1, <3>3, <2>3, <2>7
    <3> QED  BY <3>2, <3>3, <2>4
  <2>9. \A i \in Queued', k \in 1..Calls : <<queue'[i][1], k>> \in Received => k < queue'[i][2]
    <3> SUFFICES ASSUME NEW i \in Queued', NEW k \in 1..Calls, <<queue'[i][1], k>> \in Received
                 PROVE  k < queue'[i][2]
      OBVIOUS
    <3>1. CASE i \in Queued
      BY <3>1, <2>3 DEF OrderInv
    <3>2. CASE i = Len(queue) + 1
      BY <3>2, <2>1, <2>3, <1>a DEF OrderInv
    <3> QED  BY <3>1, <3>2, <2>4
  <2> QED  BY <2>2, <2>5, <2>6, <2>8, <2>9 DEF OrderInv
<1>3. ASSUME NEW w \in Workers, Take(w) PROVE OrderInv'
  <2> DEFINE first == queue[1]
  <2>1. /\ Len(queue') = Len(queue) - 1 /\ Len(queue) >= 1 /\ first \in Jobs
        /\ \A i \in Queued' : i + 1 \in Queued /\ queue'[i] = queue[i + 1]
    BY <1>3, Taken DEF Take, Queued
  <2>2. made' = made /\ sending' = sending
    BY <1>3 DEF Take
  <2>3. 1 \in Queued /\ first = <<first[1], first[2]>>
        /\ first[1] \in Callers /\ first[2] \in 1..Calls
    BY <2>1, <1>a, JobPair DEF Queued
  <2>5. Received' = Received \cup {first}
    BY <1>3, TakeReceives DEF Take
  <2>6. \A i \in Queued' : i \in Nat /\ 1 < i + 1 /\ i + 1 \in Queued
    BY <2>1, <1>a DEF Queued
  <2>7. \A i \in Queued' : queue'[i][2] <= made[queue'[i][1]]
    BY <2>1 DEF OrderInv
  <2>8. \A i \in Queued' : queue'[i][1] \in sending => queue'[i][2] # made[queue'[i][1]]
    BY <2>1 DEF OrderInv
  <2>9. \A i, j \in Queued' :
          i < j /\ queue'[i][1] = queue'[j][1] => queue'[i][2] < queue'[j][2]
    <3> SUFFICES ASSUME NEW i \in Queued', NEW j \in Queued',
                        i < j, queue'[i][1] = queue'[j][1]
                 PROVE  queue'[i][2] < queue'[j][2]
      OBVIOUS
    <3>1. i + 1 \in Queued /\ j + 1 \in Queued /\ i + 1 < j + 1
      BY <2>6
    <3> QED  BY <3>1, <2>1 DEF OrderInv
  <2>10. \A i \in Queued', k \in 1..Calls : <<queue'[i][1], k>> \in Received' => k < queue'[i][2]
    <3> SUFFICES ASSUME NEW i \in Queued', NEW k \in 1..Calls, <<queue'[i][1], k>> \in Received'
                 PROVE  k < queue'[i][2]
      OBVIOUS
    <3>1. i + 1 \in Queued /\ queue'[i] = queue[i + 1] /\ queue[i + 1][1] \in Callers
      BY <2>1, <1>b
    <3>2. CASE <<queue'[i][1], k>> = first
      <4>1. queue[1][1] = queue[i + 1][1] /\ queue[1][2] = k
        BY <3>1, <3>2
      <4> QED  BY <4>1, <3>1, <2>3, <2>6 DEF OrderInv
    <3>3. CASE <<queue'[i][1], k>> # first
      BY <3>1, <3>3, <2>5, <1>c DEF OrderInv
    <3> QED  BY <3>2, <3>3
  <2>11. \A c \in Callers, k \in 1..Calls :
           <<c, k>> \in Received' => k <= made[c] /\ (c \in sending => k # made[c])
    <3> SUFFICES ASSUME NEW c \in Callers, NEW k \in 1..Calls, <<c, k>> \in Received'
                 PROVE  k <= made[c] /\ (c \in sending => k # made[c])
      OBVIOUS
    <3>1. CASE <<c, k>> = first
      <4>1. first[1] = c /\ first[2] = k
        BY <3>1
      <4> QED  BY <4>1, <2>3 DEF OrderInv
    <3>2. CASE <<c, k>> # first
      BY <3>2, <2>5, <1>c DEF OrderInv
    <3> QED  BY <3>1, <3>2
  <2> QED  BY <2>2, <2>7, <2>8, <2>9, <2>10, <2>11 DEF OrderInv
<1>7. ASSUME NEW w \in Workers, BeginJob(w) PROVE OrderInv'
  <2>1. UNCHANGED <<queue, made, sending>>
    BY <1>7 DEF BeginJob
  <2>2. Received' = Received
    BY <1>7, BeginReceives
  <2> QED  BY <2>1, <2>2 DEF OrderInv, Queued
<1>4. ASSUME NEW w \in Workers, EndJob(w) \/ Quit(w) PROVE OrderInv'
  BY <1>4 DEF EndJob, Quit, OrderInv, Queued, Received
<1>5. CASE Cancel \/ Stop \/ StopReturn
  BY <1>5 DEF Cancel, Stop, StopReturn, OrderInv, Queued, Received
<1>6. CASE UNCHANGED vars
  BY <1>6 DEF vars, OrderInv, Queued, Received
<1> QED  BY <1>1, <1>2, <1>3, <1>4, <1>5, <1>6, <1>7 DEF Next, WorkerStep, Rest

LEMMA TakenStep == TypeOK /\ OrderInv /\ TakenInv /\ [Next]_vars => TakenInv'
<1> SUFFICES ASSUME TypeOK, OrderInv, TakenInv, [Next]_vars PROVE TakenInv'
  OBVIOUS
<1>a. \A j \in Jobs : runs[j] \in Nat
  BY DEF TypeOK
<1>1. ASSUME NEW w \in Workers, Take(w) PROVE TakenInv'
  <2> DEFINE first == queue[1]
  <2>1. /\ first \in Jobs /\ runs' = runs /\ taken[w] = NoJob
        /\ \A v \in Workers : taken'[v] = IF v = w THEN first ELSE taken[v]
    BY <1>1, TakeReceives
  <2>2. first \notin Received
    <3>1. 1 \in Queued
      BY <1>1, Taken DEF Take, Queued, TypeOK
    <3>2. first = <<first[1], first[2]>> /\ first[2] \in 1..Calls /\ ~(first[2] < first[2])
      BY <2>1, JobPair, QueueAssumption
    <3> HIDE DEF first
    <3>3. ASSUME first \in Received PROVE FALSE
      <4>1. first = queue[1]
        BY DEF first
      <4> QED  BY <3>1, <3>2, <3>3, <4>1 DEF OrderInv
    <3> QED  BY <3>3
  <2>3. ~(runs[first] > 0) /\ \A v \in Workers : taken[v] # first
    BY <2>1, <2>2 DEF Received
  <2>4. runs[first] = 0 /\ first # NoJob
    BY <2>1, <2>3, <1>a, JobPair
  <2> HIDE DEF first
  <2>5. \A u, v \in Workers : taken'[u] = taken'[v] /\ taken'[u] # NoJob => u = v
    BY <2>1, <2>3, <2>4 DEF TakenInv
  <2>6. \A j \in Jobs : runs[j] <= IF \E v \in Workers : taken'[v] = j THEN 0 ELSE 1
    <3> SUFFICES ASSUME NEW j \in Jobs
                 PROVE  runs[j] <= IF \E v \in Workers : taken'[v] = j THEN 0 ELSE 1
      OBVIOUS
    <3>1. CASE j = first
      BY <3>1, <2>4
    <3>2. CASE j # first
      <4>1. (\E v \in Workers : taken'[v] = j) => (\E v \in Workers : taken[v] = j)
        BY <3>2, <2>1
      <4> QED  BY <4>1, <1>a DEF TakenInv
    <3> QED  BY <3>1, <3>2
  <2> QED  BY <2>1, <2>5, <2>6 DEF TakenInv
<1>2. ASSUME NEW w \in Workers, BeginJob(w) PROVE TakenInv'
  <2>1. /\ taken[w] \in Jobs
        /\ \A v \in Workers : taken'[v] = IF v = w THEN NoJob ELSE taken[v]
        /\ \A j \in Jobs : runs'[j] = IF j = taken[w] THEN runs[j] + 1 ELSE runs[j]
    BY <1>2, BeginReceives
  <2>2. \A v \in Workers : taken'[v] # taken[w]
    BY <2>1, JobPair DEF TakenInv
  <2>3. runs[taken[w]] = 0
    BY <2>1, <1>a DEF TakenInv
  <2>4. \A u, v \in Workers : taken'[u] = taken'[v] /\ taken'[u] # NoJob => u = v
    BY <2>1 DEF TakenInv
  <2>5. \A j \in Jobs : runs'[j] <= IF \E v \in Workers : taken'[v] = j THEN 0 ELSE 1
    <3> SUFFICES ASSUME NEW j \in Jobs
                 PROVE  runs'[j] <= IF \E v \in Workers : taken'[v] = j THEN 0 ELSE 1
      OBVIOUS
    <3>1. CASE j = taken[w]
      <4>1. runs'[j] = 1
        BY <3>1, <2>1, <2>3
      <4> QED  BY <3>1, <4>1, <2>2
    <3>2. CASE j # taken[w]
      <4>1. (\E v \in Workers : taken'[v] = j) => (\E v \in Workers : taken[v] = j)
        BY <2>1, JobPair
      <4>2. runs'[j] = runs[j]
        BY <3>2, <2>1
      <4> QED  BY <4>1, <4>2, <1>a DEF TakenInv
    <3> QED  BY <3>1, <3>2
  <2> QED  BY <2>4, <2>5 DEF TakenInv
<1>3. CASE UNCHANGED <<taken, runs>>
  BY <1>3 DEF TakenInv
<1>4. \/ \E w \in Workers : Take(w) \/ BeginJob(w)
      \/ UNCHANGED <<taken, runs>>
  BY DEF Next, WorkerStep, TestFull, Send, EndJob, Quit, Cancel, Stop, StopReturn, Rest, vars
<1> QED  BY <1>1, <1>2, <1>3, <1>4

LEMMA OvertakeStep == TypeOK /\ OrderInv /\ OvertakeInv /\ [Next]_vars => OvertakeInv'
<1> SUFFICES ASSUME TypeOK, OrderInv, OvertakeInv, [Next]_vars,
                    NEW c \in Callers, NEW k \in 1..Calls, runs'[<<c, k>>] > 0
             PROVE  \E w \in Workers : \A i \in 1..(k - 1) : taken'[w] # <<c, i>>
  BY DEF OvertakeInv, Holds
<1>a. <<c, k>> \in Jobs /\ Calls \in Nat
  BY QueueAssumption DEF Jobs
<1>b. \A i \in 1..(k - 1) : <<c, i>> \in Jobs /\ i < k
  BY <1>a DEF Jobs
<1>1. ASSUME NEW v \in Workers, Take(v)
      PROVE  \E w \in Workers : \A i \in 1..(k - 1) : taken'[w] # <<c, i>>
  <2>1. /\ runs' = runs /\ queue[1] \in Jobs
        /\ \A u \in Workers : taken'[u] = IF u = v THEN queue[1] ELSE taken[u]
    BY <1>1, TakeReceives
  <2>2. PICK w \in Workers : \A i \in 1..(k - 1) : taken[w] # <<c, i>>
    BY <2>1 DEF OvertakeInv, Holds
  <2>3. \A i \in 1..(k - 1) : queue[1] # <<c, i>>
    <3> SUFFICES ASSUME NEW i \in 1..(k - 1), queue[1] = <<c, i>> PROVE FALSE
      OBVIOUS
    <3>1. 1 \in Queued /\ queue[1][1] = c /\ queue[1][2] = i
      BY <1>1, Taken DEF Take, Queued, TypeOK
    <3>2. <<c, k>> \in Received
      BY <2>1, <1>a DEF Received
    <3>3. k < i
      BY <3>1, <3>2 DEF OrderInv
    <3> QED  BY <3>3, <1>b, <1>a
  <2> QED  BY <2>1, <2>2, <2>3
<1>2. ASSUME NEW v \in Workers, BeginJob(v)
      PROVE  \E w \in Workers : \A i \in 1..(k - 1) : taken'[w] # <<c, i>>
  <2>1. \A u \in Workers : taken'[u] = IF u = v THEN NoJob ELSE taken[u]
    BY <1>2, BeginReceives
  <2> QED  BY <2>1, <1>b, JobPair
<1>3. CASE UNCHANGED <<taken, runs>>
  BY <1>3 DEF OvertakeInv, Holds
<1>4. \/ \E w \in Workers : Take(w) \/ BeginJob(w)
      \/ UNCHANGED <<taken, runs>>
  BY DEF Next, WorkerStep, TestFull, Send, EndJob, Quit, Cancel, Stop, StopReturn, Rest, vars
<1> QED  BY <1>1, <1>2, <1>3, <1>4

LEMMA LostStep == TypeOK /\ NothingLost /\ [Next]_vars => NothingLost'
<1> SUFFICES ASSUME TypeOK, NothingLost, [Next]_vars PROVE NothingLost'
  OBVIOUS
<1>a. /\ queue \in Seq(Jobs) /\ Len(queue) \in Nat /\ runs \in [Jobs -> Nat]
      /\ accepted \subseteq Jobs
  BY DEF TypeOK
<1>b. \A j \in accepted : j \in Received \/ \E i \in 1..Len(queue) : queue[i] = j
  BY <1>a DEF NothingLost, Waiting, Received
<1>c. SUFFICES ASSUME NEW j \in accepted'
               PROVE  j \in Received' \/ \E i \in 1..Len(queue') : queue'[i] = j
  BY <1>c DEF NothingLost, Waiting, Received
<1>2. ASSUME NEW c \in Callers, Send(c)
      PROVE  j \in Received' \/ \E i \in 1..Len(queue') : queue'[i] = j
  <2> DEFINE new == <<c, made[c]>>
  <2>1. /\ queue' = Append(queue, new) /\ Received' = Received
        /\ accepted' = accepted \cup {new}
    BY <1>2 DEF Send, Received
  <2> HIDE DEF new
  <2>2. /\ Len(queue') = Len(queue) + 1 /\ queue'[Len(queue) + 1] = new
        /\ \A i \in 1..Len(queue) : queue'[i] = queue[i]
    BY <2>1, <1>a
  <2> QED  BY <2>1, <2>2, <1>a, <1>b
<1>3. ASSUME NEW w \in Workers, Take(w)
      PROVE  j \in Received' \/ \E i \in 1..Len(queue') : queue'[i] = j
  <2>1. queue' = Tail(queue) /\ queue # <<>> /\ accepted' = accepted
    BY <1>3 DEF Take
  <2>2. /\ Len(queue') = Len(queue) - 1
        /\ \A i \in 1..Len(queue') : queue'[i] = queue[i + 1]
    BY <2>1, Taken
  <2>3. Received' = Received \cup {queue[1]}
    BY <1>3, TakeReceives
  <2>4. CASE j \in Received
    BY <2>3, <2>4
  <2>5. CASE j \notin Received
    <3>1. PICK k \in 1..Len(queue) : queue[k] = j
      BY <2>1, <2>5, <1>b
    <3>2. CASE k = 1
      BY <3>1, <3>2, <2>3
    <3>3. CASE k # 1
      <4>1. k - 1 \in 1..Len(queue') /\ queue'[k - 1] = queue[k]
        BY <3>3, <2>2, <1>a
      <4> QED  BY <3>1, <4>1
    <3> QED  BY <3>2, <3>3
  <2> QED  BY <2>4, <2>5
<1>4. ASSUME NEW w \in Workers, BeginJob(w)
      PROVE  j \in Received' \/ \E i \in 1..Len(queue') : queue'[i] = j
  <2>1. Received' = Received
    BY <1>4, BeginReceives
  <2> QED  BY <1>4, <2>1, <1>b DEF BeginJob
<1>5. CASE UNCHANGED <<queue, accepted, taken, runs>>
  BY <1>5, <1>b DEF Received
<1>6. \/ \E c \in Callers : Send(c)
      \/ \E w \in Workers : Take(w) \/ BeginJob(w)
      \/ UNCHANGED <<queue, accepted, taken, runs>>
  BY DEF Next, WorkerStep, TestFull, EndJob, Quit, Cancel, Stop, StopReturn, Rest, vars
<1> QED  BY <1>2, <1>3, <1>4, <1>5, <1>6

LEMMA OrderGivesRunsOnce == TypeOK /\ OrderInv /\ TakenInv => RunsOnce
<1> SUFFICES ASSUME TypeOK, OrderInv, TakenInv, NEW j \in Jobs
             PROVE  runs[j] <= IF Waiting(j) THEN 0 ELSE 1
  BY DEF RunsOnce
<1>1. runs[j] \in Nat /\ runs[j] <= IF \E w \in Workers : taken[w] = j THEN 0 ELSE 1
  BY DEF TypeOK, TakenInv
<1>2. ASSUME NEW i \in 1..Len(queue), queue[i] = j PROVE runs[j] <= 0
  <2>1. j = <<queue[i][1], j[2]>> /\ j[2] \in 1..Calls /\ ~(j[2] < j[2])
    BY <1>2, JobPair, QueueAssumption
  <2>2. j \notin Received
    BY <1>2, <2>1 DEF OrderInv, Queued
  <2> QED  BY <2>2, <1>1 DEF Received
<1> QED  BY <1>1, <1>2 DEF Waiting

\* The overtaken jobs are held by as many workers, and one worker holds none.
LEMMA OvertakenFew ==
  TypeOK /\ OrderInv /\ OvertakeInv /\ NothingLost => FewOvertaken
<1> SUFFICES ASSUME TypeOK, OrderInv, OvertakeInv, NothingLost,
                    NEW c \in Callers, NEW k \in 1..Calls, runs[<<c, k>>] > 0
             PROVE  Cardinality(Overtaken(c, k)) < Cardinality(Workers)
  BY DEF FewOvertaken
<1> DEFINE O == Overtaken(c, k)
<1>a. Calls \in Nat /\ IsFiniteSet(Workers) /\ Cardinality(Workers) \in Nat
  BY QueueAssumption, FS_CardinalityType
<1>1. PICK w \in Workers : \A i \in 1..(k - 1) : taken[w] # <<c, i>>
  BY DEF OvertakeInv, Holds
<1>2. \A i \in O : \E v \in Workers \ {w} : taken[v] = <<c, i>>
  <2> SUFFICES ASSUME NEW i \in O PROVE \E v \in Workers \ {w} : taken[v] = <<c, i>>
    OBVIOUS
  <2>1. i \in 1..(k - 1) /\ <<c, i>> \in accepted /\ runs[<<c, i>>] = 0
    BY DEF Overtaken
  <2>2. ~(runs[<<c, i>>] > 0) /\ <<c, k>> \in Received
    BY <2>1 DEF Received, Jobs
  <2>3. ASSUME NEW q \in 1..Len(queue), queue[q] = <<c, i>> PROVE FALSE
    <3>1. queue[q][1] = c /\ queue[q][2] = i
      BY <2>3
    <3>2. k < i
      BY <3>1, <2>2 DEF OrderInv, Queued
    <3> QED  BY <3>2, <2>1, <1>a
  <2>4. PICK v \in Workers : taken[v] = <<c, i>>
    BY <2>1, <2>2, <2>3 DEF NothingLost, Waiting
  <2> QED  BY <2>1, <2>4, <1>1
<1> DEFINE holder == [i \in O |-> CHOOSE v \in Workers \ {w} : taken[v] = <<c, i>>]
<1>3. \A i \in O : holder[i] \in Workers \ {w} /\ taken[holder[i]] = <<c, i>>
  BY <1>2
<1>4. holder \in [O -> Workers \ {w}]
  BY <1>3
<1>5. holder \in Injection(O, Workers \ {w})
  <2> SUFFICES ASSUME NEW i \in O, NEW j \in O, holder[i] = holder[j] PROVE i = j
    BY <1>4 DEF Injection, IsInjective
  <2>1. <<c, i>> = <<c, j>>
    BY <1>3
  <2> QED  BY <2>1
<1>6. /\ IsFiniteSet(Workers \ {w})
      /\ Cardinality(Workers \ {w}) = Cardinality(Workers) - 1
  BY <1>a, FS_RemoveElement
<1>7. Cardinality(O) <= Cardinality(Workers \ {w}) /\ Cardinality(O) \in Nat
  <2> HIDE DEF O, holder
  <2>1. IsFiniteSet(O) /\ Cardinality(O) <= Cardinality(Workers \ {w})
    BY <1>5, <1>6, FS_Injection
  <2> QED  BY <2>1, FS_CardinalityType
<1> QED  BY <1>6, <1>7, <1>a

-----------------------------------------------------------------------------
\* The inductive invariant.
IInv ==
  /\ TypeOK /\ WorkersInv /\ OrderInv /\ TakenInv /\ OvertakeInv
  /\ NothingLost /\ Overcommit

LEMMA Inductive == Spec => []IInv
<1>1. Init => IInv
  BY InitOK DEF IInv
<1>2. IInv /\ [Next]_vars => IInv'
  BY TypeStep, WorkersStep, OrderStep, TakenStep, OvertakeStep, LostStep,
     OvercommitStep DEF IInv
<1> QED  BY <1>1, <1>2, PTL DEF Spec

\* The channel never exceeds its capacity and the wait group counts the workers
\* that have not returned (inMemQueue.go:22-67).
THEOREM TypeCorrect == Spec => []TypeOK
<1>1. IInv => TypeOK
  BY DEF IInv
<1> QED  BY Inductive, <1>1, PTL

\* No job is begun twice or while it still waits in the channel or with another
\* worker, for any number of workers that share it (inMemQueue.go:55-63).
THEOREM JobsRunOnce == Spec => []RunsOnce
<1>1. IInv => RunsOnce
  BY OrderGivesRunsOnce DEF IInv
<1> QED  BY Inductive, <1>1, PTL

\* What Enqueue reports as enqueued is in the channel, held by a worker or
\* begun (inMemQueue.go:36-61).
THEOREM NothingIsLost == Spec => []NothingLost
<1>1. IInv => NothingLost
  BY DEF IInv
<1> QED  BY Inductive, <1>1, PTL

\* Fewer jobs than there are workers are ever overtaken by a later one of their
\* caller, and with a single worker none is (inMemQueue.go:36-63).
THEOREM OvertakingBounded == Spec => []FewOvertaken
<1>1. IInv => FewOvertaken
  BY OvertakenFew DEF IInv
<1> QED  BY Inductive, <1>1, PTL

\* The test of the length is overtaken by fewer than the other callers, so that
\* a single caller's send never waits (inMemQueue.go:36-41).
THEOREM OvercommitBounded == Spec => []Overcommit
<1>1. IInv => Overcommit
  BY DEF IInv
<1> QED  BY Inductive, <1>1, PTL

\* Nothing runs or is begun once Stop has returned (inMemQueue.go:69-74).
THEOREM StopIsQuiet == Spec => QuietAfterStop
<1>1. IInv /\ [Next]_vars =>
        [stop = "returned" => (\A w \in Workers : taken[w] = NoJob /\ running[w] = NoJob) /\ runs' = runs]_vars
  <2> SUFFICES ASSUME IInv, [Next]_vars, stop = "returned"
               PROVE  (\A w \in Workers : taken[w] = NoJob /\ running[w] = NoJob) /\ runs' = runs
    OBVIOUS
  <2>1. \A w \in Workers : taken[w] = NoJob /\ running[w] = NoJob /\ w \notin alive
    BY DEF IInv, WorkersInv
  <2> QED  BY <2>1 DEF Next, WorkerStep, TestFull, Send, Take, BeginJob, AtSelect, EndJob,
                       Quit, Cancel, Stop, StopReturn, Rest, vars
<1> QED  BY Inductive, <1>1, PTL DEF Spec, QuietAfterStop
=============================================================================

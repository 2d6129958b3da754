------------------------- MODULE MCQueueRepository -------------------------
\* Requests and workers for TLC.
EXTENDS QueueRepository, TLC

CONSTANTS h1, h2, t1, t2, id0, id1, id2, w1, w2

\* Two HTTP requests that repeat an identifier, one of which may be invalid, and
\* two requests of the trigger, whose trees may get stuck. The graphs of one request
\* of each kind have a join, which may be executed twice.
AllRequests == {h1, h2, t1, t2}
AllIds == h1 :> id0 @@ h2 :> id0 @@ t1 :> id1 @@ t2 :> id2
OneRoot == [r \in Requests |-> 1]
ClassOf == [r \in Requests |-> IF r \in {h1, h2} THEN "priority" ELSE "secondary"]
SecondMayBeBad == {h2}
TriggerRequests == {t1, t2}
TwoHaveJoins == [r \in Requests |-> IF r \in {h1, t1} THEN 1 ELSE 0]

\* One HTTP request for a graph with two root nodes.
OneRequest == {h1}
OneId == h1 :> id0
TwoRoots == h1 :> 2
NoJoin == [r \in Requests |-> 0]

TwoWorkers == {w1, w2}
OneEach == w1 :> "priority" @@ w2 :> "secondary"
BothPriority == w1 :> "priority" @@ w2 :> "priority"
None == {}
=============================================================================

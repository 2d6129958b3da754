------------------------- MODULE DagExecutionProofs -------------------------
(***************************************************************************)
(* Proofs about DagExecution, for every graph, every set of workers and    *)
(* goroutines, and whether or not calls fail.                              *)
(***************************************************************************)
EXTENDS DagExecution, TLAPS

\* An edge joins two nodes of the graph.
LEMMA EdgesJoinNodes == \A e \in Edges : e[1] \in Nodes /\ e[2] \in Nodes
  BY GraphAssumption

\* The absent node is not a node of the graph.
LEMMA NoNodeIsAbsent == NoNode \notin Nodes
  BY GraphAssumption

\* A goroutine that returns leaves a frame of the right type behind.
LEMMA ReturnTypeOK ==
  ASSUME TypeOK, NEW g \in Goroutines, Return(g), UNCHANGED rows
  PROVE  TypeOK'
  BY NoNodeIsAbsent DEF TypeOK, Return, rows, Label, Outcome, NodeOrNone, NothingSeen

LEMMA InitTypeOK == Init => TypeOK
  BY NoNodeIsAbsent, CallAssumption
  DEF Init, TypeOK, Status, Label, Outcome, NodeOrNone, NothingSeen

\* Every step of a goroutine keeps the types.
LEMMA StepTypeOK ==
  ASSUME TypeOK, NEW g \in Goroutines, Step(g) \/ Fail(g)
  PROVE  TypeOK'
<1> USE DEF Goto, rows
<1>1. CASE GetNode(g)
  <2>1. CASE Return(g) /\ UNCHANGED rows
    BY <2>1, ReturnTypeOK
  <2>2. CASE Goto(g, "start") /\ pc[g] = "get" /\ UNCHANGED <<rows, node, seen, outcome, todo, child, check>>
    BY <2>2 DEF TypeOK, Label
  <2> QED
    BY <1>1, <2>1, <2>2 DEF GetNode
<1>2. CASE SetStart(g)
  BY <1>2 DEF SetStart, TypeOK, Label, Status
<1>3. CASE ReadInputs(g)
  BY <1>3, EdgesJoinNodes DEF ReadInputs, TypeOK, Label
<1>4. CASE Work(g)
  BY <1>4, CallAssumption DEF Work, TypeOK, Label, NothingSeen
<1>5. CASE StoreResult(g)
  BY <1>5 DEF StoreResult, TypeOK, Label
<1>6. CASE AddOutput(g)
  BY <1>6 DEF AddOutput, TypeOK, Label, Children
<1>7. CASE AddInput(g)
  <2>1. PICK c \in todo[g] :
          /\ delivered' = [delivered EXCEPT ![<<node[g], c>>] = @ + 1]
          /\ todo' = [todo EXCEPT ![g] = @ \ {c}]
    BY <1>7 DEF AddInput
  <2>2. delivered' \in [Edges -> Nat]
    <3> DEFINE e == <<node[g], c>>
    <3>1. delivered \in [Edges -> Nat] /\ delivered' = [delivered EXCEPT ![e] = @ + 1]
      BY <2>1 DEF TypeOK
    <3> HIDE DEF e
    <3>2. delivered' = [x \in Edges |-> IF x = e THEN delivered[x] + 1 ELSE delivered[x]]
      BY <3>1
    <3>3. \A x \in Edges : delivered[x] \in Nat
      BY <3>1
    <3> QED
      BY <3>2, <3>3
  <2>3. todo' \in [Goroutines -> SUBSET Nodes]
    BY <2>1 DEF TypeOK
  <2> QED
    BY <1>7, <2>2, <2>3 DEF AddInput, TypeOK
<1>8. CASE SetEnd(g)
  BY <1>8 DEF SetEnd, TypeOK, Label, Status
<1>9. CASE ReadChildren(g)
  BY <1>9 DEF ReadChildren, TypeOK, Label, Outcome, Children
<1>10. CASE NextChild(g)
  BY <1>10 DEF NextChild, TypeOK, Label, NodeOrNone, IsFirst, Parents
<1>11. CASE CheckParent(g)
  <2>1. PICK p \in check[g] :
          \/ /\ check' = [check EXCEPT ![g] = @ \ {p}]
             /\ Goto(g, IF check[g] = {p} THEN "spawn" ELSE "ready")
             /\ UNCHANGED child
          \/ /\ check' = [check EXCEPT ![g] = {}]
             /\ child' = [child EXCEPT ![g] = NoNode]
             /\ Goto(g, "next")
    BY <1>11 DEF CheckParent
  <2>2. pc[g] = "ready" /\ UNCHANGED <<rows, node, seen, outcome, todo>>
    BY <1>11 DEF CheckParent
  <2>3. CASE /\ check' = [check EXCEPT ![g] = @ \ {p}]
             /\ Goto(g, IF check[g] = {p} THEN "spawn" ELSE "ready")
             /\ UNCHANGED child
    BY <2>2, <2>3 DEF TypeOK, Label
  <2>4. CASE /\ check' = [check EXCEPT ![g] = {}]
             /\ child' = [child EXCEPT ![g] = NoNode]
             /\ Goto(g, "next")
    BY <2>2, <2>4, NoNodeIsAbsent DEF TypeOK, Label, NodeOrNone
  <2> QED
    BY <2>1, <2>3, <2>4
<1>12. CASE Spawn(g)
  BY <1>12, NoNodeIsAbsent DEF Spawn, TypeOK, Label, NodeOrNone
<1>13. CASE Finish(g)
  BY <1>13, ReturnTypeOK DEF Finish
<1>14. CASE Fail(g)
  BY <1>14, ReturnTypeOK DEF Fail
<1> QED
  BY <1>1, <1>2, <1>3, <1>4, <1>5, <1>6, <1>7, <1>8, <1>9, <1>10, <1>11,
     <1>12, <1>13, <1>14 DEF Step

\* The types hold in every reachable state of every instance
\* (pkg/dag/node.go, Execute).
THEOREM TypeCorrect == Spec => []TypeOK
<1>1. Init => TypeOK
  BY InitTypeOK
<1>2. TypeOK /\ [Next]_vars => TypeOK'
  <2> SUFFICES ASSUME TypeOK, [Next]_vars
               PROVE  TypeOK'
    OBVIOUS
  <2>1. CASE \E g \in Goroutines : Step(g) \/ Fail(g)
    BY <2>1, StepTypeOK
  <2>2. CASE UNCHANGED vars
    BY <2>2 DEF vars, rows, frame, TypeOK
  <2> QED
    BY <2>1, <2>2 DEF Next, Rest
<1> QED
  BY <1>1, <1>2, PTL DEF Spec

-----------------------------------------------------------------------------
\* A node that has ended or started stays so: rows are only appended.
RowsKept ==
  /\ \A n \in Nodes : ends[n] > 0 => ends'[n] > 0
  /\ \A n \in Nodes : starts[n] > 0 => starts'[n] > 0

\* The frame of a goroutine another one's step leaves alone.
SameFrame(h) ==
  /\ pc'[h] = pc[h] /\ node'[h] = node[h] /\ todo'[h] = todo[h]
  /\ child'[h] = child[h] /\ check'[h] = check[h]

\* What is known of a goroutine stays true while others make steps.
LEMMA FrameReadyKept ==
  ASSUME TypeOK, NEW h \in Goroutines, FrameReady(h), SameFrame(h), RowsKept
  PROVE  FrameReady(h)'
<1>1. \A n \in Nodes : Waited(n) => Waited(n)'
  BY DEF Waited, RowsKept, Parents
<1>2. pc[h] # "idle" => node[h] \in Nodes
  BY DEF TypeOK
<1>3. (pc[h] # "idle" => node[h] \in EntryNodes \/ Waited(node[h]))'
  BY <1>1, <1>2 DEF FrameReady, SameFrame, EntryNodes
<1>4. (pc[h] \notin {"idle", "get", "start"} => starts[node[h]] > 0)'
  BY <1>2 DEF FrameReady, SameFrame, RowsKept
<1>5. (todo[h] \subseteq Children(node[h]))'
  BY DEF FrameReady, SameFrame, Children
<1>6. (pc[h] \in {"ready", "spawn"} =>
         /\ Parents(child[h]) # {}
         /\ \A p \in Parents(child[h]) \ check[h] : ends[p] > 0)'
  BY DEF FrameReady, SameFrame, RowsKept, Parents
<1>7. (pc[h] = "spawn" => check[h] = {})'
  BY DEF FrameReady, SameFrame
<1> QED
  BY <1>3, <1>4, <1>5, <1>6, <1>7 DEF FrameReady

\* A step that disturbs one frame only is judged by that frame and the rows.
LEMMA ReadyAssembled ==
  ASSUME TypeOK, ReadyInv, NEW g \in Goroutines, RowsKept,
         \A h \in Goroutines \ {g} : SameFrame(h),
         FrameReady(g)',
         \A n \in Nodes : NodeReady(n)'
  PROVE  ReadyInv'
<1>1. \A h \in Goroutines : FrameReady(h)'
  BY FrameReadyKept DEF ReadyInv
<1> QED
  BY <1>1 DEF ReadyInv

\* Rows that a step leaves alone stay in agreement.
LEMMA NodeReadyKept ==
  ASSUME NEW n \in Nodes, NodeReady(n), UNCHANGED <<status, starts, ends>>
  PROVE  NodeReady(n)'
  BY DEF NodeReady, Waited, EntryNodes, Parents

\* A goroutine that returns leaves the inductive invariant alone.
LEMMA ReturnReady ==
  ASSUME TypeOK, ReadyInv, NEW g \in Goroutines, Return(g), UNCHANGED rows
  PROVE  ReadyInv'
<1>1. RowsKept
  BY DEF rows, RowsKept
<1>2. \A h \in Goroutines \ {g} : SameFrame(h)
  BY DEF TypeOK, Return, SameFrame
<1>3. FrameReady(g)'
  BY DEF TypeOK, Return, FrameReady
<1>4. \A n \in Nodes : NodeReady(n)'
  BY NodeReadyKept DEF ReadyInv, rows
<1> QED
  BY <1>1, <1>2, <1>3, <1>4, ReadyAssembled

\* Every step of a goroutine keeps the inductive invariant.
LEMMA StepReady ==
  ASSUME TypeOK, TypeOK', ReadyInv, NEW g \in Goroutines, Step(g) \/ Fail(g)
  PROVE  ReadyInv'
<1> USE DEF Goto, rows
<1>0. FrameReady(g) /\ \A n \in Nodes : NodeReady(n)
  BY DEF ReadyInv
<1>1. CASE GetNode(g)
  <2>1. CASE Return(g) /\ UNCHANGED rows
    BY <2>1, ReturnReady
  <2>2. CASE Goto(g, "start") /\ pc[g] = "get" /\ UNCHANGED <<rows, node, seen, outcome, todo, child, check>>
    <3>1. RowsKept /\ \A h \in Goroutines \ {g} : SameFrame(h)
      BY <2>2 DEF RowsKept, SameFrame, TypeOK
    <3>2. FrameReady(g)'
      BY <2>2, <1>0 DEF FrameReady, TypeOK, Waited
    <3> QED
      BY <2>2, <1>0, <3>1, <3>2, NodeReadyKept, ReadyAssembled
  <2> QED
    BY <1>1, <2>1, <2>2 DEF GetNode
<1>2. CASE SetStart(g)
  <2>1. node[g] \in Nodes /\ (node[g] \in EntryNodes \/ Waited(node[g]))
    BY <1>2, <1>0 DEF SetStart, FrameReady, TypeOK
  <2>2. RowsKept /\ \A h \in Goroutines \ {g} : SameFrame(h)
    BY <1>2 DEF SetStart, RowsKept, SameFrame, TypeOK
  <2>3. FrameReady(g)'
    BY <1>2, <1>0, <2>1 DEF SetStart, FrameReady, TypeOK, Waited
  <2>4. ASSUME NEW n \in Nodes PROVE NodeReady(n)'
    BY <1>2, <1>0, <2>1 DEF SetStart, NodeReady, TypeOK, Waited
  <2> QED
    BY <2>2, <2>3, <2>4, ReadyAssembled
<1>3. CASE ReadInputs(g)
  <2>1. RowsKept /\ \A h \in Goroutines \ {g} : SameFrame(h)
    BY <1>3 DEF ReadInputs, RowsKept, SameFrame, TypeOK
  <2>2. FrameReady(g)'
    BY <1>3, <1>0 DEF ReadInputs, FrameReady, TypeOK, Waited
  <2> QED
    BY <1>3, <1>0, <2>1, <2>2, NodeReadyKept, ReadyAssembled DEF ReadInputs
<1>4. CASE Work(g)
  <2>1. RowsKept /\ \A h \in Goroutines \ {g} : SameFrame(h)
    BY <1>4 DEF Work, RowsKept, SameFrame, TypeOK
  <2>2. FrameReady(g)'
    BY <1>4, <1>0 DEF Work, FrameReady, TypeOK, Waited
  <2> QED
    BY <1>4, <1>0, <2>1, <2>2, NodeReadyKept, ReadyAssembled DEF Work
<1>5. CASE StoreResult(g)
  <2>1. RowsKept /\ \A h \in Goroutines \ {g} : SameFrame(h)
    BY <1>5 DEF StoreResult, RowsKept, SameFrame, TypeOK
  <2>2. FrameReady(g)'
    BY <1>5, <1>0 DEF StoreResult, FrameReady, TypeOK, Waited
  <2> QED
    BY <1>5, <1>0, <2>1, <2>2, NodeReadyKept, ReadyAssembled DEF StoreResult
<1>6. CASE AddOutput(g)
  <2>1. RowsKept /\ \A h \in Goroutines \ {g} : SameFrame(h)
    BY <1>6 DEF AddOutput, RowsKept, SameFrame, TypeOK
  <2>2. FrameReady(g)'
    BY <1>6, <1>0 DEF AddOutput, FrameReady, TypeOK, Waited
  <2> QED
    BY <1>6, <1>0, <2>1, <2>2, NodeReadyKept, ReadyAssembled DEF AddOutput
<1>7. CASE AddInput(g)
  <2>1. RowsKept /\ \A h \in Goroutines \ {g} : SameFrame(h)
    BY <1>7 DEF AddInput, RowsKept, SameFrame, TypeOK
  <2>2. FrameReady(g)'
    BY <1>7, <1>0 DEF AddInput, FrameReady, TypeOK, Waited
  <2> QED
    BY <1>7, <1>0, <2>1, <2>2, NodeReadyKept, ReadyAssembled DEF AddInput
<1>8. CASE SetEnd(g)
  <2>1. node[g] \in Nodes /\ starts[node[g]] > 0
    BY <1>8, <1>0 DEF SetEnd, FrameReady, TypeOK
  <2>2. RowsKept /\ \A h \in Goroutines \ {g} : SameFrame(h)
    BY <1>8 DEF SetEnd, RowsKept, SameFrame, TypeOK
  <2>3. \A n \in Nodes : Waited(n) => Waited(n)'
    BY <2>2 DEF Waited, RowsKept, Parents
  <2>4. FrameReady(g)'
    BY <1>8, <1>0, <2>1, <2>3 DEF SetEnd, FrameReady, TypeOK
  <2>5. ASSUME NEW n \in Nodes PROVE NodeReady(n)'
    BY <1>8, <1>0, <2>1, <2>3 DEF SetEnd, NodeReady, TypeOK
  <2> QED
    BY <2>2, <2>4, <2>5, ReadyAssembled
<1>9. CASE ReadChildren(g)
  <2>1. RowsKept /\ \A h \in Goroutines \ {g} : SameFrame(h)
    BY <1>9 DEF ReadChildren, RowsKept, SameFrame, TypeOK
  <2>2. FrameReady(g)'
    BY <1>9, <1>0 DEF ReadChildren, FrameReady, TypeOK, Waited
  <2> QED
    BY <1>9, <1>0, <2>1, <2>2, NodeReadyKept, ReadyAssembled DEF ReadChildren
<1>10. CASE NextChild(g)
  <2>1. RowsKept /\ \A h \in Goroutines \ {g} : SameFrame(h)
    BY <1>10 DEF NextChild, RowsKept, SameFrame, TypeOK
  <2>2. PICK c \in todo[g] :
          /\ todo' = [todo EXCEPT ![g] = @ \ {c}]
          /\ child' = [child EXCEPT ![g] = c]
          /\ check' = [check EXCEPT ![g] = Parents(c)]
    BY <1>10 DEF NextChild
  <2>3. c \in Nodes /\ node[g] \in Parents(c)
    BY <1>10, <1>0, EdgesJoinNodes DEF NextChild, FrameReady, Children, Parents, TypeOK
  <2>4. FrameReady(g)'
    BY <1>10, <1>0, <2>2, <2>3 DEF NextChild, FrameReady, TypeOK, Waited
  <2> QED
    BY <1>10, <1>0, <2>1, <2>4, NodeReadyKept, ReadyAssembled DEF NextChild
<1>11. CASE CheckParent(g)
  <2>1. RowsKept /\ \A h \in Goroutines \ {g} : SameFrame(h)
    BY <1>11 DEF CheckParent, RowsKept, SameFrame, TypeOK
  <2>2. FrameReady(g)'
    <3>1. PICK p \in check[g] :
            \/ /\ status[p] = "finished"
               /\ check' = [check EXCEPT ![g] = @ \ {p}]
               /\ Goto(g, IF check[g] = {p} THEN "spawn" ELSE "ready")
               /\ UNCHANGED child
            \/ /\ check' = [check EXCEPT ![g] = {}]
               /\ child' = [child EXCEPT ![g] = NoNode]
               /\ Goto(g, "next")
      BY <1>11 DEF CheckParent
    <3>2. p \in Nodes /\ UNCHANGED <<rows, node, seen, outcome, todo>> /\ pc[g] = "ready"
      BY <1>11 DEF CheckParent, TypeOK
    <3>3. CASE /\ status[p] = "finished"
               /\ check' = [check EXCEPT ![g] = @ \ {p}]
               /\ Goto(g, IF check[g] = {p} THEN "spawn" ELSE "ready")
               /\ UNCHANGED child
      <4>1. ends[p] > 0
        BY <1>0, <3>2, <3>3 DEF NodeReady
      <4>2. check'[g] = check[g] \ {p} /\ (pc'[g] = "spawn" => check'[g] = {})
        BY <3>3 DEF TypeOK
      <4> QED
        BY <1>0, <3>2, <3>3, <4>1, <4>2 DEF FrameReady, TypeOK, Waited
    <3>4. CASE /\ check' = [check EXCEPT ![g] = {}]
               /\ child' = [child EXCEPT ![g] = NoNode]
               /\ Goto(g, "next")
      BY <1>0, <3>2, <3>4 DEF FrameReady, TypeOK, Waited
    <3> QED
      BY <3>1, <3>3, <3>4
  <2> QED
    BY <1>11, <1>0, <2>1, <2>2, NodeReadyKept, ReadyAssembled DEF CheckParent
<1>12. CASE Spawn(g)
  <2>1. PICK h \in Goroutines :
          /\ pc[h] = "idle"
          /\ pc' = [pc EXCEPT ![g] = "next", ![h] = "get"]
          /\ node' = [node EXCEPT ![h] = child[g]]
    BY <1>12 DEF Spawn
  <2>2. pc[g] = "spawn" /\ h # g /\ child[g] \in Nodes
    BY <1>12, <2>1 DEF Spawn, TypeOK
  <2>3. RowsKept /\ \A i \in Goroutines \ {g, h} : SameFrame(i)
    BY <1>12, <2>1 DEF Spawn, RowsKept, SameFrame, TypeOK
  <2>4. Waited(child[g])
    BY <1>0, <2>2 DEF FrameReady, Waited
  <2>5. FrameReady(g)'
    BY <1>12, <1>0, <2>1, <2>2 DEF Spawn, FrameReady, TypeOK, Waited
  <2>6. FrameReady(h)'
    <3>1. pc'[h] = "get" /\ node'[h] = child[g] /\ todo'[h] = todo[h]
      BY <1>12, <2>1, <2>2 DEF Spawn, TypeOK
    <3>2. todo[h] = {}
      <4>1. node[h] = NoNode /\ todo[h] \subseteq Children(node[h])
        BY <2>1 DEF ReadyInv, FrameReady, TypeOK, NodeOrNone
      <4> QED
        BY <4>1, EdgesJoinNodes, NoNodeIsAbsent DEF Children
    <3> QED
      BY <1>12, <2>4, <3>1, <3>2 DEF Spawn, FrameReady, Waited
  <2>7. \A i \in Goroutines : FrameReady(i)'
    BY <2>3, <2>5, <2>6, FrameReadyKept DEF ReadyInv
  <2>8. \A n \in Nodes : NodeReady(n)'
    BY <1>12, <1>0, NodeReadyKept DEF Spawn
  <2> QED
    BY <2>7, <2>8 DEF ReadyInv
<1>13. CASE Finish(g)
  BY <1>13, ReturnReady DEF Finish
<1>14. CASE Fail(g)
  BY <1>14, ReturnReady DEF Fail
<1> QED
  BY <1>1, <1>2, <1>3, <1>4, <1>5, <1>6, <1>7, <1>8, <1>9, <1>10, <1>11,
     <1>12, <1>13, <1>14 DEF Step

-----------------------------------------------------------------------------
\* The types and what is known of every goroutine hold initially.
LEMMA InitReady == Init => TypeOK /\ ReadyInv
<1> SUFFICES ASSUME Init
             PROVE  TypeOK /\ ReadyInv
  OBVIOUS
<1>1. TypeOK
  BY InitTypeOK
<1>2. ASSUME NEW g \in Goroutines PROVE FrameReady(g)
  BY DEF Init, FrameReady, EntryNodes
<1>3. ASSUME NEW n \in Nodes PROVE NodeReady(n)
  BY DEF Init, NodeReady
<1> QED
  BY <1>1, <1>2, <1>3 DEF ReadyInv

\* Every step of the specification preserves both.
LEMMA NextReady == TypeOK /\ ReadyInv /\ [Next]_vars => (TypeOK /\ ReadyInv)'
<1> SUFFICES ASSUME TypeOK, ReadyInv, [Next]_vars
             PROVE  TypeOK' /\ ReadyInv'
  OBVIOUS
<1>1. CASE \E g \in Goroutines : Step(g) \/ Fail(g)
  BY <1>1, StepTypeOK, StepReady
<1>2. CASE UNCHANGED vars
  <2>1. TypeOK'
    BY <1>2 DEF vars, rows, frame, TypeOK
  <2>2. \A g \in Goroutines : FrameReady(g)'
    BY <1>2 DEF vars, rows, frame, ReadyInv, FrameReady, Waited, EntryNodes, Parents, Children
  <2>3. \A n \in Nodes : NodeReady(n)'
    BY <1>2, NodeReadyKept DEF vars, rows, ReadyInv
  <2> QED
    BY <2>1, <2>2, <2>3 DEF ReadyInv
<1> QED
  BY <1>1, <1>2 DEF Next, Rest

\* In every reachable state a goroutine executes an entry node or one whose
\* parents have all ended (node.go:97-197).
THEOREM AlwaysReady == Spec => [](TypeOK /\ ReadyInv)
  BY InitReady, NextReady, PTL DEF Spec

\* A node that is not an entry starts only after each of its parents has
\* ended, on every graph, however executions interleave and whatever calls
\* fail: the readiness loop of Execute (node.go:160-183).
THEOREM ParentsAlwaysEndFirst == Spec => []ParentsEndFirst
<1>1. ReadyInv => ParentsEndFirst
  BY DEF ReadyInv, NodeReady, ParentsEndFirst, Waited
<1> QED
  BY <1>1, AlwaysReady, PTL

-----------------------------------------------------------------------------
\* A step of Execute is a step of the schedule, or leaves it alone.
LEMMA StepImplements ==
  ASSUME TypeOK, ReadyInv, NEW g \in Goroutines, Step(g) \/ Fail(g)
  PROVE  Schedule!Next \/ UNCHANGED Schedule!vars
<1>1. CASE SetStart(g)
  <2> DEFINE begun == {n \in Nodes : starts[n] > 0}
  <2>1. node[g] \in Nodes /\ FrameReady(g) /\ pc[g] = "start"
    BY <1>1 DEF SetStart, TypeOK, ReadyInv
  <2>2. begun' = begun \cup {node[g]} /\ UNCHANGED ends
    BY <1>1, <2>1 DEF SetStart, TypeOK
  <2>3. CASE node[g] \in begun
    BY <2>2, <2>3 DEF Schedule!vars
  <2>4. CASE node[g] \notin begun
    <3>1. Schedule!MayBegin(node[g])
      BY <2>1 DEF FrameReady, Waited, Parents, Schedule!MayBegin, Schedule!Parents
    <3> QED
      BY <2>1, <2>2, <2>4, <3>1 DEF Schedule!Begin, Schedule!Next
  <2> QED
    BY <2>3, <2>4
<1>2. CASE SetEnd(g)
  <2> DEFINE completed == {n \in Nodes : ends[n] > 0}
  <2>1. node[g] \in Nodes /\ starts[node[g]] > 0
    BY <1>2 DEF SetEnd, TypeOK, ReadyInv, FrameReady
  <2>2. completed' = completed \cup {node[g]} /\ UNCHANGED starts
    BY <1>2, <2>1 DEF SetEnd, TypeOK
  <2>3. CASE node[g] \in completed
    BY <2>2, <2>3 DEF Schedule!vars
  <2>4. CASE node[g] \notin completed
    BY <2>1, <2>2, <2>4 DEF Schedule!Complete, Schedule!Next
  <2> QED
    BY <2>3, <2>4
<1>3. CASE UNCHANGED <<starts, ends>>
  BY <1>3 DEF Schedule!vars
<1> QED
  BY <1>1, <1>2, <1>3 DEF Step, Fail, Finish, rows, GetNode, ReadInputs, Work,
     StoreResult, AddOutput, AddInput, ReadChildren, NextChild, CheckParent, Spawn

\* Execute implements the schedule on every graph: nodes begin only when the
\* root input or all of their parents' outputs are there, whatever calls fail
\* (node.go:97-197).
THEOREM ExecuteImplementsSchedule == Spec => ImplementsSchedule
<1>1. Init => Schedule!Init
  BY DEF Init, Schedule!Init
<1>2. TypeOK /\ ReadyInv /\ [Next]_vars => [Schedule!Next]_(Schedule!vars)
  <2> SUFFICES ASSUME TypeOK, ReadyInv, [Next]_vars
               PROVE  Schedule!Next \/ UNCHANGED Schedule!vars
    OBVIOUS
  <2>1. CASE \E g \in Goroutines : Step(g) \/ Fail(g)
    BY <2>1, StepImplements
  <2>2. CASE UNCHANGED vars
    BY <2>2 DEF vars, rows, Schedule!vars
  <2> QED
    BY <2>1, <2>2 DEF Next, Rest
<1> QED
  BY <1>1, <1>2, AlwaysReady, PTL DEF Spec, ImplementsSchedule, Schedule!Spec

-----------------------------------------------------------------------------
\* The work of a node is handed each parent's output exactly once.  A node that was
\* started once is executed by one goroutine at most, which stores and delivers its
\* output before the end row, and nobody touches either after that.  The same fact, of
\* its only parent, is why a node above the joins is started once: whoever may still
\* spawn it is that one goroutine, and only while nobody else has been.

\* Goroutine g executes node p, whose start it has written.
Runs(g, p) == node[g] = p /\ pc[g] \notin {"idle", "get", "start"}

Fresh(p) ==
  /\ outputs[p] = 0 /\ ends[p] = 0
  /\ \A c \in Children(p) : delivered[<<p, c>>] = 0
Settled(p) == \A c \in Children(p) : delivered[<<p, c>>] = outputs[p]
Handing(g, p) ==
  /\ ends[p] = 0
  /\ outputs[p] = IF outcome[g] = "output" THEN 1 ELSE 0
  /\ \A c \in Children(p) :
       delivered[<<p, c>>] = IF outcome[g] = "output" /\ c \notin todo[g] THEN 1 ELSE 0

\* What a goroutine has done for its node when that was started once.
Phase(g, p) ==
  /\ pc[g] \in {"read", "work", "result", "output"} => Fresh(p)
  /\ pc[g] = "deliver" => Handing(g, p)
  /\ pc[g] \in {"end", "next", "ready", "spawn"} => Settled(p)

RunOnce(p) ==
  /\ starts[p] = 0 => Fresh(p) /\ \A g \in Goroutines : ~Runs(g, p)
  /\ starts[p] = 1 =>
       /\ \A g, h \in Goroutines : Runs(g, p) /\ Runs(h, p) => g = h
       /\ \A g \in Goroutines : Runs(g, p) => Phase(g, p)
       /\ ends[p] > 0 => Settled(p)
OnceInv == \A p \in Nodes : RunOnce(p)

\* The rows of node p are as before.
RowsAlike(p) ==
  /\ starts'[p] = starts[p] /\ ends'[p] = ends[p] /\ outputs'[p] = outputs[p]
  /\ \A c \in Children(p) : delivered'[<<p, c>>] = delivered[<<p, c>>]
SameDoings(g) ==
  pc'[g] = pc[g] /\ node'[g] = node[g] /\ outcome'[g] = outcome[g] /\ todo'[g] = todo[g]

-----------------------------------------------------------------------------
LEMMA EdgeToChild ==
  ASSUME NEW p \in Nodes, NEW c \in Children(p)
  PROVE  <<p, c>> \in Edges /\ c \in Nodes
  BY DEF Children

\* A step touches the rows of its own node only.
LEMMA RowsOfOthers ==
  ASSUME TypeOK, NEW g \in Goroutines, Step(g) \/ Fail(g), NEW p \in Nodes, p # node[g]
  PROVE  RowsAlike(p)
<1>1. CASE AddInput(g)
  <2>1. PICK c \in todo[g] : delivered' = [delivered EXCEPT ![<<node[g], c>>] = @ + 1]
    BY <1>1 DEF AddInput
  <2>2. ASSUME NEW d \in Children(p) PROVE delivered'[<<p, d>>] = delivered[<<p, d>>]
    BY <2>1, EdgeToChild DEF TypeOK
  <2> QED
    BY <1>1, <2>2 DEF AddInput, RowsAlike
<1>2. CASE SetStart(g) \/ SetEnd(g) \/ AddOutput(g)
  BY <1>2 DEF SetStart, SetEnd, AddOutput, RowsAlike, TypeOK
<1>3. CASE UNCHANGED <<starts, ends, outputs, delivered>>
  BY <1>3 DEF RowsAlike
<1> QED
  BY <1>1, <1>2, <1>3 DEF Step, Fail, Finish, rows, GetNode, ReadInputs, Work,
     StoreResult, ReadChildren, NextChild, CheckParent, Spawn

\* It touches its own frame, and one more only to begin the execution of a child.
LEMMA FramesOfOthers ==
  ASSUME TypeOK, NEW g \in Goroutines, Step(g) \/ Fail(g), NEW x \in Goroutines, x # g
  PROVE  SameDoings(x) \/ (pc[x] = "idle" /\ pc'[x] = "get")
<1>1. CASE Spawn(g)
  <2>1. PICK h \in Goroutines :
          /\ pc[h] = "idle"
          /\ pc' = [pc EXCEPT ![g] = "next", ![h] = "get"]
          /\ node' = [node EXCEPT ![h] = child[g]]
    BY <1>1 DEF Spawn
  <2>2. UNCHANGED <<outcome, todo>>
    BY <1>1 DEF Spawn
  <2> QED
    BY <2>1, <2>2 DEF SameDoings, TypeOK
<1>2. CASE GetNode(g) \/ SetStart(g) \/ ReadInputs(g) \/ Work(g) \/ StoreResult(g)
  BY <1>2 DEF GetNode, SetStart, ReadInputs, Work, StoreResult, Return, Goto, SameDoings, TypeOK
<1>3. CASE AddOutput(g) \/ AddInput(g) \/ SetEnd(g) \/ ReadChildren(g)
  BY <1>3 DEF AddOutput, AddInput, SetEnd, ReadChildren, Goto, SameDoings, TypeOK
<1>4. CASE NextChild(g) \/ CheckParent(g) \/ Finish(g) \/ Fail(g)
  BY <1>4 DEF NextChild, CheckParent, Finish, Fail, Return, Goto, SameDoings, TypeOK
<1> QED
  BY <1>1, <1>2, <1>3, <1>4 DEF Step

\* A goroutine keeps its node until it returns.
LEMMA NodeKept ==
  ASSUME TypeOK, NEW g \in Goroutines, Step(g) \/ Fail(g)
  PROVE  node'[g] = node[g] \/ pc'[g] = "idle"
<1>1. CASE Spawn(g)
  BY <1>1 DEF Spawn, TypeOK
<1>2. CASE GetNode(g) \/ SetStart(g) \/ ReadInputs(g) \/ Work(g) \/ StoreResult(g)
  BY <1>2 DEF GetNode, SetStart, ReadInputs, Work, StoreResult, Return, Goto, TypeOK
<1>3. CASE AddOutput(g) \/ AddInput(g) \/ SetEnd(g) \/ ReadChildren(g)
  BY <1>3 DEF AddOutput, AddInput, SetEnd, ReadChildren
<1>4. CASE NextChild(g) \/ CheckParent(g) \/ Finish(g) \/ Fail(g)
  BY <1>4 DEF NextChild, CheckParent, Finish, Fail, Return, TypeOK
<1> QED
  BY <1>1, <1>2, <1>3, <1>4 DEF Step

\* The facts of a node are kept while its rows and frames are.
LEMMA FactsKept ==
  ASSUME NEW p \in Nodes, RowsAlike(p)
  PROVE  /\ Fresh(p) => Fresh(p)'
         /\ Settled(p) => Settled(p)'
         /\ \A g \in Goroutines : SameDoings(g) /\ Phase(g, p) => Phase(g, p)'
<1>1. Fresh(p) => Fresh(p)'
  BY DEF RowsAlike, Fresh, Children
<1>2. Settled(p) => Settled(p)'
  BY DEF RowsAlike, Settled, Children
<1>3. ASSUME NEW g \in Goroutines, SameDoings(g), Phase(g, p) PROVE Phase(g, p)'
  <2>1. Handing(g, p) => Handing(g, p)'
    BY <1>3 DEF RowsAlike, SameDoings, Handing, Children
  <2> QED
    BY <1>1, <1>2, <1>3, <2>1 DEF Phase, SameDoings
<1> QED
  BY <1>1, <1>2, <1>3

\* Goroutines other than the one that steps run what they ran.
LEMMA RunsOfOthers ==
  ASSUME TypeOK, NEW g \in Goroutines, Step(g) \/ Fail(g), NEW p \in Nodes
  PROVE  \A x \in Goroutines : x # g /\ Runs(x, p)' => Runs(x, p) /\ SameDoings(x)
  BY FramesOfOthers DEF Runs, SameDoings

\* A step of a goroutine of another node keeps what is known of p.
LEMMA OtherNodesKept ==
  ASSUME TypeOK, NEW g \in Goroutines, Step(g) \/ Fail(g), NEW p \in Nodes, p # node[g],
         RunOnce(p)
  PROVE  RunOnce(p)'
<1>1. RowsAlike(p)
  BY RowsOfOthers
<1>2. \A x \in Goroutines : Runs(x, p)' => Runs(x, p) /\ SameDoings(x)
  BY RunsOfOthers, NodeKept DEF Runs
<1>3. starts'[p] = starts[p] /\ ends'[p] = ends[p]
  BY <1>1 DEF RowsAlike
<1> QED
  BY <1>1, <1>2, <1>3, FactsKept DEF RunOnce

\* A step that changes no row and leaves its own goroutine in a phase that holds.
LEMMA QuietStepKept ==
  ASSUME TypeOK, NEW g \in Goroutines, Step(g) \/ Fail(g), NEW p \in Nodes,
         RunOnce(p), RowsAlike(p), Runs(g, p)' => Runs(g, p),
         Runs(g, p)' /\ Phase(g, p) => Phase(g, p)'
  PROVE  RunOnce(p)'
<1>1. \A x \in Goroutines : Runs(x, p)' => Runs(x, p) /\ (x # g => SameDoings(x))
  BY RunsOfOthers
<1>2. starts'[p] = starts[p] /\ ends'[p] = ends[p]
  BY DEF RowsAlike
<1>3. ASSUME starts'[p] = 0
      PROVE  Fresh(p)' /\ \A x \in Goroutines : ~Runs(x, p)'
  BY <1>1, <1>2, <1>3, FactsKept DEF RunOnce
<1>4. ASSUME starts'[p] = 1, NEW x \in Goroutines, Runs(x, p)'
      PROVE  Phase(x, p)'
  <2>1. Phase(x, p)
    BY <1>1, <1>2, <1>4 DEF RunOnce
  <2>2. CASE x = g
    BY <1>4, <2>1, <2>2
  <2>3. CASE x # g
    BY <1>1, <1>4, <2>1, <2>3, FactsKept
  <2> QED
    BY <2>2, <2>3
<1>5. ASSUME starts'[p] = 1
      PROVE  /\ \A x, y \in Goroutines : Runs(x, p)' /\ Runs(y, p)' => x = y
             /\ ends'[p] > 0 => Settled(p)'
  BY <1>1, <1>2, <1>5, FactsKept DEF RunOnce
<1> QED
  BY <1>3, <1>4, <1>5 DEF RunOnce

\* A step that writes rows of its node, when that was started once.
LEMMA WritingStepKept ==
  ASSUME TypeOK, NEW g \in Goroutines, Step(g) \/ Fail(g), NEW p \in Nodes, RunOnce(p),
         Runs(g, p), starts'[p] = starts[p],
         starts[p] = 1 /\ Phase(g, p) => Phase(g, p)' /\ (ends'[p] > 0 => Settled(p)')
  PROVE  RunOnce(p)'
<1>1. \A x \in Goroutines : Runs(x, p)' => Runs(x, p)
  BY RunsOfOthers
<1>2. starts[p] # 0
  BY DEF RunOnce
<1>3. CASE starts[p] = 1
  <2>1. \A x \in Goroutines : Runs(x, p)' => x = g
    BY <1>1, <1>3 DEF RunOnce
  <2>2. Phase(g, p)' /\ (ends'[p] > 0 => Settled(p)')
    BY <1>3 DEF RunOnce
  <2> QED
    BY <1>3, <2>1, <2>2 DEF RunOnce
<1> QED
  BY <1>2, <1>3 DEF RunOnce

\* Steps that write no row of their node but may take it from phase to phase.
LEMMA FrameStepKept ==
  ASSUME TypeOK, NEW g \in Goroutines, NEW p \in Nodes, p = node[g], RunOnce(p),
         \/ GetNode(g) \/ ReadInputs(g) \/ Work(g) \/ ReadChildren(g) \/ NextChild(g)
         \/ CheckParent(g) \/ Spawn(g) \/ Finish(g) \/ Fail(g)
  PROVE  RunOnce(p)'
<1>1. Step(g) \/ Fail(g)
  BY DEF Step
<1>2. RowsAlike(p) /\ (Fresh(p) => Fresh(p)') /\ (Settled(p) => Settled(p)')
  <2>1. RowsAlike(p)
    BY DEF RowsAlike, rows, GetNode, ReadInputs, Work, ReadChildren, NextChild, CheckParent,
      Spawn, Finish, Fail
  <2> QED
    BY <2>1, FactsKept
<1>3. CASE Return(g)
  <2>1. pc'[g] = "idle"
    BY <1>3 DEF Return, TypeOK
  <2> QED
    BY <1>1, <1>2, <2>1, QuietStepKept DEF Runs
<1>4. CASE GetNode(g) /\ ~Return(g)
  <2>1. pc'[g] = "start"
    BY <1>4 DEF GetNode, Goto, TypeOK
  <2> QED
    BY <1>1, <1>2, <2>1, QuietStepKept DEF Runs
<1>5. CASE ReadInputs(g) \/ Work(g)
  <2>1. pc[g] \in {"read", "work"} /\ pc'[g] \in {"work", "result"}
    BY <1>5 DEF ReadInputs, Work, Goto, TypeOK
  <2>2. (Runs(g, p)' => Runs(g, p)) /\ (Phase(g, p) => Phase(g, p)')
    BY <1>2, <2>1 DEF Runs, Phase
  <2> QED
    BY <1>1, <1>2, <2>2, QuietStepKept
<1>6. CASE ReadChildren(g) \/ NextChild(g) \/ CheckParent(g) \/ Spawn(g)
  <2>1. pc[g] \in {"end", "next", "ready", "spawn"}
        /\ pc'[g] \in {"next", "ready", "spawn"}
    <3>1. CASE ReadChildren(g) \/ NextChild(g)
      BY <3>1 DEF ReadChildren, NextChild, Goto, TypeOK
    <3>2. CASE CheckParent(g)
      BY <3>2 DEF CheckParent, Goto, TypeOK
    <3>3. CASE Spawn(g)
      BY <3>3 DEF Spawn, TypeOK
    <3> QED
      BY <1>6, <3>1, <3>2, <3>3
  <2>2. (Runs(g, p)' => Runs(g, p)) /\ (Phase(g, p) => Phase(g, p)')
    BY <1>2, <2>1 DEF Runs, Phase
  <2> QED
    BY <1>1, <1>2, <2>2, QuietStepKept
<1> QED
  BY <1>3, <1>4, <1>5, <1>6 DEF Finish, Fail

\* The first start row of a node makes its goroutine the only one that executes it.
LEMMA StartKept ==
  ASSUME TypeOK, NEW g \in Goroutines, NEW p \in Nodes, p = node[g], RunOnce(p), SetStart(g)
  PROVE  RunOnce(p)'
<1>1. Step(g)
  BY DEF Step
<1>2. /\ starts'[p] = starts[p] + 1 /\ starts[p] \in Nat
      /\ pc'[g] = "read"
      /\ UNCHANGED <<ends, outputs, delivered>>
  BY DEF SetStart, Goto, TypeOK
<1>3. CASE starts[p] = 0
  <2>1. Fresh(p)'
    BY <1>2, <1>3 DEF RunOnce, Fresh
  <2>2. \A x \in Goroutines : Runs(x, p)' => x = g
    BY <1>1, <1>3, RunsOfOthers DEF RunOnce
  <2>3. Phase(g, p)'
    BY <1>2, <2>1 DEF Phase
  <2>4. ends'[p] = 0
    BY <2>1 DEF Fresh
  <2> QED
    BY <1>2, <1>3, <2>2, <2>3, <2>4 DEF RunOnce
<1> QED
  BY <1>2, <1>3 DEF RunOnce

\* The output, its deliveries and the end row are written one after the other.
LEMMA OutputKept ==
  ASSUME TypeOK, NEW g \in Goroutines, NEW p \in Nodes, p = node[g], RunOnce(p),
         StoreResult(g) \/ AddOutput(g) \/ AddInput(g) \/ SetEnd(g)
  PROVE  RunOnce(p)'
<1>1. Step(g)
  BY DEF Step
<1>2. Runs(g, p) /\ starts'[p] = starts[p]
  BY DEF Runs, StoreResult, AddOutput, AddInput, SetEnd
<1>3. SUFFICES ASSUME Phase(g, p)
               PROVE  Phase(g, p)' /\ (ends'[p] > 0 => Settled(p)')
  BY <1>1, <1>2, WritingStepKept
<1>4. CASE StoreResult(g)
  <2>1. pc[g] = "result" /\ pc'[g] = "output" /\ UNCHANGED <<ends, outputs, delivered>>
    BY <1>4 DEF StoreResult, Goto, TypeOK
  <2>2. Fresh(p)'
    BY <1>3, <2>1 DEF Phase, Fresh
  <2> QED
    BY <2>1, <2>2 DEF Phase, Fresh
<1>5. CASE AddOutput(g)
  <2>1. /\ pc[g] = "output" /\ pc'[g] = "deliver" /\ UNCHANGED <<ends, delivered, outcome>>
        /\ outputs'[p] = IF outcome[g] = "output" THEN outputs[p] + 1 ELSE outputs[p]
        /\ todo'[g] = Children(p)
    BY <1>5 DEF AddOutput, Goto, TypeOK
  <2>2. Fresh(p)
    BY <1>3, <2>1 DEF Phase
  <2>3. Handing(g, p)'
    BY <2>1, <2>2 DEF Fresh, Handing
  <2> QED
    BY <2>1, <2>3 DEF Phase, Handing
<1>6. CASE AddInput(g)
  <2>1. PICK c \in todo[g] :
          /\ delivered' = [delivered EXCEPT ![<<p, c>>] = @ + 1]
          /\ todo' = [todo EXCEPT ![g] = @ \ {c}]
    BY <1>6 DEF AddInput
  <2>2. pc[g] = "deliver" /\ outcome[g] = "output" /\ UNCHANGED <<ends, outputs, outcome, pc>>
    BY <1>6 DEF AddInput
  <2>3. Handing(g, p)
    BY <1>3, <2>2 DEF Phase
  <2>4. todo'[g] = todo[g] \ {c}
    BY <2>1 DEF TypeOK
  <2>5. ASSUME NEW d \in Children(p)
        PROVE  delivered'[<<p, d>>] = IF d \notin todo'[g] THEN 1 ELSE 0
    <3>1. <<p, d>> \in Edges
      BY EdgeToChild
    <3>2. delivered[<<p, d>>] = IF d \notin todo[g] THEN 1 ELSE 0
      BY <2>2, <2>3 DEF Handing
    <3>3. delivered'[<<p, d>>] = IF d = c THEN delivered[<<p, d>>] + 1 ELSE delivered[<<p, d>>]
      <4>1. delivered \in [Edges -> Nat]
        BY DEF TypeOK
      <4>2. d = c <=> <<p, d>> = <<p, c>>
        OBVIOUS
      <4> QED
        BY <2>1, <3>1, <4>1, <4>2
    <3> QED
      BY <2>4, <3>2, <3>3
  <2>6. Handing(g, p)'
    BY <2>2, <2>3, <2>5 DEF Handing, Children
  <2> QED
    BY <2>2, <2>6 DEF Phase, Handing
<1>7. CASE SetEnd(g)
  <2>1. /\ pc[g] = "deliver" /\ pc'[g] = "end" /\ UNCHANGED <<outputs, delivered>>
        /\ outcome[g] # "output" \/ todo[g] = {}
    BY <1>7 DEF SetEnd, Goto, TypeOK
  <2>2. Handing(g, p)
    BY <1>3, <2>1 DEF Phase
  <2>3. Settled(p)'
    BY <2>1, <2>2 DEF Handing, Settled
  <2> QED
    BY <2>1, <2>3 DEF Phase
<1> QED
  BY <1>4, <1>5, <1>6, <1>7

LEMMA StepOnce ==
  ASSUME TypeOK, OnceInv, NEW g \in Goroutines, Step(g) \/ Fail(g)
  PROVE  OnceInv'
<1> SUFFICES ASSUME NEW p \in Nodes PROVE RunOnce(p)'
  BY DEF OnceInv
<1>1. RunOnce(p)
  BY DEF OnceInv
<1>2. CASE p # node[g]
  BY <1>1, <1>2, OtherNodesKept
<1>3. CASE p = node[g]
  BY <1>1, <1>3, FrameStepKept, StartKept, OutputKept DEF Step
<1> QED
  BY <1>2, <1>3

LEMMA InitOnce == Init => OnceInv
<1> SUFFICES ASSUME Init, NEW p \in Nodes PROVE RunOnce(p)
  BY DEF OnceInv
<1>1. \A c \in Children(p) : <<p, c>> \in Edges
  BY EdgeToChild
<1>2. Fresh(p)
  BY <1>1 DEF Init, Fresh
<1>3. \A g \in Goroutines : ~Runs(g, p)
  BY DEF Init, Runs
<1> QED
  BY <1>2, <1>3 DEF Init, RunOnce

-----------------------------------------------------------------------------
\* Rows of a parent started once: they do not change once it has ended.
LEMMA EndedOutputsStay ==
  ASSUME TypeOK, OnceInv, NEW g \in Goroutines, Step(g) \/ Fail(g), NEW p \in Nodes,
         starts[p] = 1, ends[p] > 0
  PROVE  outputs'[p] = outputs[p]
<1>1. CASE p # node[g]
  BY <1>1, RowsOfOthers DEF RowsAlike
<1>2. CASE p = node[g] /\ AddOutput(g)
  <2>1. Runs(g, p) /\ pc[g] = "output"
    BY <1>2 DEF AddOutput, Runs
  <2>2. ends[p] = 0
    BY <2>1 DEF OnceInv, RunOnce, Phase, Fresh
  <2> QED
    BY <2>2
<1>3. CASE UNCHANGED outputs
  BY <1>3
<1> QED
  BY <1>1, <1>2, <1>3 DEF Step, Fail, Finish, rows, GetNode, SetStart, ReadInputs, Work,
     StoreResult, AddInput, SetEnd, ReadChildren, NextChild, CheckParent, Spawn

\* Starts only grow, and are there when a node has ended.
LEMMA StartsGrow ==
  ASSUME TypeOK, NEW g \in Goroutines, Step(g) \/ Fail(g), NEW p \in Nodes
  PROVE  starts'[p] >= starts[p] /\ starts[p] \in Nat
<1>1. CASE SetStart(g)
  BY <1>1 DEF SetStart, TypeOK
<1>2. CASE UNCHANGED starts
  BY <1>2 DEF TypeOK
<1> QED
  BY <1>1, <1>2 DEF Step, Fail, Finish, rows, GetNode, ReadInputs, Work,
     StoreResult, AddOutput, AddInput, SetEnd, ReadChildren, NextChild, CheckParent, Spawn

\* The inputs a goroutine read are still its parents' outputs while it works.
LEMMA StepSees ==
  ASSUME TypeOK, ReadyInv, OnceInv, WorkSeesOutputs, NEW g \in Goroutines, Step(g) \/ Fail(g)
  PROVE  WorkSeesOutputs'
<1> SUFFICES ASSUME NEW x \in Goroutines, pc'[x] = "work", node'[x] \notin EntryNodes,
                    NEW p \in Parents(node'[x]), starts'[p] = 1
             PROVE  seen'[x][p] = outputs'[p]
  BY DEF WorkSeesOutputs, Parents, EntryNodes
<1>1. p \in Nodes /\ <<p, node'[x]>> \in Edges
  BY DEF Parents
<1>2. CASE x = g
  <2>1. ReadInputs(g)
    <3>1. CASE GetNode(g) \/ SetStart(g) \/ ReadInputs(g) \/ Work(g) \/ StoreResult(g)
      BY <1>2, <3>1 DEF GetNode, SetStart, Work, StoreResult, Return, Goto, TypeOK
    <3>2. CASE AddOutput(g) \/ AddInput(g) \/ SetEnd(g) \/ ReadChildren(g)
      BY <1>2, <3>2 DEF AddOutput, AddInput, SetEnd, ReadChildren, Goto, TypeOK
    <3>3. CASE NextChild(g) \/ CheckParent(g) \/ Finish(g) \/ Fail(g)
      BY <1>2, <3>3 DEF NextChild, CheckParent, Finish, Fail, Return, Goto, TypeOK
    <3>4. CASE Spawn(g)
      BY <1>2, <3>4 DEF Spawn, TypeOK
    <3> QED
      BY <3>1, <3>2, <3>3, <3>4 DEF Step
  <2>2. /\ pc[g] = "read" /\ node'[g] = node[g] /\ UNCHANGED <<starts, outputs>>
        /\ seen'[g] = [q \in Nodes |-> IF <<q, node[g]>> \in Edges
                                       THEN delivered[<<q, node[g]>>] ELSE 0]
    BY <2>1 DEF ReadInputs, rows, TypeOK
  <2>3. seen'[g][p] = delivered[<<p, node[g]>>]
    BY <1>1, <1>2, <2>2
  <2>4. ends[p] > 0
    BY <1>2, <2>2 DEF ReadyInv, FrameReady, Waited, EntryNodes
  <2>5. node[g] \in Children(p)
    BY <1>1, <1>2, <2>2, EdgesJoinNodes DEF Children, TypeOK
  <2>6. Settled(p)
    BY <1>1, <2>2, <2>4 DEF OnceInv, RunOnce
  <2> QED
    BY <1>2, <2>2, <2>3, <2>5, <2>6 DEF Settled
<1>3. CASE x # g
  <2>1. pc[x] = "work" /\ node'[x] = node[x]
    BY <1>3, FramesOfOthers DEF SameDoings
  <2>2. seen'[x] = seen[x]
    <3>1. CASE GetNode(g) \/ SetStart(g) \/ ReadInputs(g) \/ Work(g) \/ StoreResult(g)
      BY <1>3, <3>1 DEF GetNode, SetStart, ReadInputs, Work, StoreResult, Return, TypeOK
    <3>2. CASE AddOutput(g) \/ AddInput(g) \/ SetEnd(g) \/ ReadChildren(g) \/ Spawn(g)
      BY <3>2 DEF AddOutput, AddInput, SetEnd, ReadChildren, Spawn
    <3>3. CASE NextChild(g) \/ CheckParent(g) \/ Finish(g) \/ Fail(g)
      BY <1>3, <3>3 DEF NextChild, CheckParent, Finish, Fail, Return, TypeOK
    <3> QED
      BY <3>1, <3>2, <3>3 DEF Step
  <2>3. ends[p] > 0
    BY <2>1 DEF ReadyInv, FrameReady, Waited, EntryNodes
  <2>4. starts[p] = 1
    <3>1. starts[p] > 0
      BY <1>1, <2>3 DEF ReadyInv, NodeReady
    <3> QED
      BY <1>1, <3>1, StartsGrow
  <2>5. seen[x][p] = outputs[p]
    BY <2>1, <2>4 DEF WorkSeesOutputs, EntryNodes
  <2> QED
    BY <1>1, <2>2, <2>3, <2>4, <2>5, EndedOutputsStay
<1> QED
  BY <1>2, <1>3

IInv == TypeOK /\ ReadyInv /\ OnceInv /\ WorkSeesOutputs

LEMMA NextIInv == IInv /\ [Next]_vars => IInv'
<1> SUFFICES ASSUME IInv, [Next]_vars PROVE (OnceInv /\ WorkSeesOutputs)'
  BY NextReady DEF IInv
<1>1. CASE \E g \in Goroutines : Step(g) \/ Fail(g)
  BY <1>1, StepOnce, StepSees DEF IInv
<1>2. CASE UNCHANGED vars
  BY <1>2 DEF IInv, vars, rows, frame, OnceInv, RunOnce, Runs, Fresh, Settled, Phase, Handing,
    WorkSeesOutputs
<1> QED
  BY <1>1, <1>2 DEF Next, Rest

LEMMA InitIInv == Init => IInv
<1>1. Init => WorkSeesOutputs
  BY DEF Init, WorkSeesOutputs
<1> QED
  BY <1>1, InitReady, InitOnce DEF IInv

\* The work of a node that waits is handed each parent's output exactly once if the
\* parent was started once, whatever fails and whoever else executes the graph: outputs
\* are delivered before the end time is written, and inputs read after the start time
\* (node.go:113, 119, 141-153).
THEOREM WorkAlwaysSeesOutputs == Spec => []WorkSeesOutputs
<1>1. IInv => WorkSeesOutputs
  BY DEF IInv
<1> QED
  BY <1>1, InitIInv, NextIInv, PTL DEF Spec

\* A node with one start row is executed by one goroutine at most, and is settled once
\* it has an end row: each child has exactly what it put out (node.go:108-154).
THEOREM StartedOnceRunsOnce == Spec => []OnceInv
<1>1. IInv => OnceInv
  BY DEF IInv
<1> QED
  BY <1>1, InitIInv, NextIInv, PTL DEF Spec

-----------------------------------------------------------------------------
\* Goroutine g is about to begin the execution of node n, or may still spawn one of it.
Pending(g, n) == node[g] = n /\ pc[g] \in {"get", "start"}
MaySpawn(g, n) ==
  /\ pc[g] \notin {"idle", "get", "start"}
  /\ Parents(n) = {node[g]}
  /\ pc[g] \in {"next", "ready", "spawn"} => n \in todo[g] \cup {child[g]}

\* The child a goroutine examines has been taken from those it has still to visit.
ChildTaken ==
  \A g \in Goroutines :
    pc[g] \in {"ready", "spawn"} => child[g] \in Children(node[g]) \ todo[g]

\* There is one start in all, written, about to be or still to be triggered.
TriggeredOnce(n) ==
  /\ starts[n] <= 1
  /\ \A g, h \in Goroutines :
       /\ Pending(g, n) /\ Pending(h, n) => g = h
       /\ Pending(g, n) => starts[n] = 0 /\ ~MaySpawn(h, n)
       /\ MaySpawn(g, n) => starts[n] = 0
PathInv == ChildTaken /\ \A n \in Nodes : OnePath(n) => TriggeredOnce(n)

\* The only parent of a node with one trigger has one trigger as well.
LEMMA OnePathUp ==
  ASSUME NEW n \in Nodes, OnePath(n), NEW p, Parents(n) = {p}
  PROVE  p \in Nodes /\ OnePath(p) /\ n \notin EntryNodes
<1>1. PICK S \in SUBSET Nodes : n \in S /\ \A m \in S : OneTrigger(m, S)
  BY DEF OnePath
<1>2. n \notin EntryNodes /\ p \in S
  BY <1>1 DEF OneTrigger
<1> QED
  BY <1>1, <1>2 DEF OnePath

\* Nobody is about to execute a node, nor has, before its only parent has started.
LEMMA NotBeforeParent ==
  ASSUME TypeOK, ReadyInv, NEW n \in Nodes, OnePath(n), NEW p \in Nodes, Parents(n) = {p},
         starts[p] = 0
  PROVE  starts[n] = 0 /\ \A g \in Goroutines : ~Pending(g, n)
<1>1. n \notin EntryNodes /\ ~Waited(n)
  <2>1. ~(ends[p] > 0)
    BY DEF ReadyInv, NodeReady
  <2> QED
    BY <2>1, OnePathUp DEF Waited
<1>2. starts[n] = 0
  BY <1>1 DEF ReadyInv, NodeReady, TypeOK
<1>3. \A g \in Goroutines : ~Pending(g, n)
  BY <1>1 DEF ReadyInv, FrameReady, Pending
<1> QED
  BY <1>2, <1>3

\* A step that spawns nothing touches no other frame.
LEMMA OtherFrames ==
  ASSUME TypeOK, NEW g \in Goroutines, Step(g) \/ Fail(g), ~Spawn(g),
         NEW x \in Goroutines, x # g
  PROVE  SameFrame(x)
<1>1. CASE GetNode(g) \/ SetStart(g) \/ ReadInputs(g) \/ Work(g) \/ StoreResult(g)
  BY <1>1 DEF GetNode, SetStart, ReadInputs, Work, StoreResult, Return, Goto, SameFrame, TypeOK
<1>2. CASE AddOutput(g) \/ AddInput(g) \/ SetEnd(g) \/ ReadChildren(g)
  BY <1>2 DEF AddOutput, AddInput, SetEnd, ReadChildren, Goto, SameFrame, TypeOK
<1>3. CASE NextChild(g) \/ CheckParent(g) \/ Finish(g) \/ Fail(g)
  BY <1>3 DEF NextChild, CheckParent, Finish, Fail, Return, Goto, SameFrame, TypeOK
<1> QED
  BY <1>1, <1>2, <1>3 DEF Step

\* What a spawn does to the frames.
LEMMA SpawnFrames ==
  ASSUME TypeOK, NEW g \in Goroutines, Spawn(g)
  PROVE  \E h \in Goroutines \ {g} :
           /\ pc[g] = "spawn" /\ pc'[g] = "next" /\ node'[g] = node[g]
           /\ todo'[g] = todo[g] /\ child'[g] = NoNode
           /\ pc[h] = "idle" /\ pc'[h] = "get" /\ node'[h] = child[g]
           /\ child[g] \in Nodes
           /\ \A x \in Goroutines \ {g, h} : SameFrame(x)
<1>1. PICK h \in Goroutines :
        /\ pc[h] = "idle"
        /\ pc' = [pc EXCEPT ![g] = "next", ![h] = "get"]
        /\ node' = [node EXCEPT ![h] = child[g]]
  BY DEF Spawn
<1>2. h # g /\ pc[g] = "spawn" /\ UNCHANGED <<todo, check>>
  BY <1>1 DEF Spawn
<1>3. child' = [child EXCEPT ![g] = NoNode] /\ child[g] \in Nodes
  BY <1>2 DEF Spawn, TypeOK
<1> QED
  BY <1>1, <1>2, <1>3 DEF SameFrame, TypeOK

LEMMA ChildTakenKept ==
  ASSUME TypeOK, ReadyInv, ChildTaken, NEW g \in Goroutines, Step(g) \/ Fail(g)
  PROVE  ChildTaken'
<1> SUFFICES ASSUME NEW x \in Goroutines, pc'[x] \in {"ready", "spawn"}
             PROVE  child'[x] \in Children(node'[x]) \ todo'[x]
  BY DEF ChildTaken, Children
<1>1. CASE Spawn(g)
  BY <1>1, SpawnFrames DEF SameFrame, ChildTaken
<1>2. CASE ~Spawn(g) /\ x # g
  BY <1>2, OtherFrames DEF SameFrame, ChildTaken
<1>3. CASE ~Spawn(g) /\ x = g
  <2>1. NextChild(g) \/ CheckParent(g)
    <3>1. CASE GetNode(g) \/ SetStart(g) \/ ReadInputs(g) \/ Work(g) \/ StoreResult(g)
      BY <1>3, <3>1 DEF GetNode, SetStart, ReadInputs, Work, StoreResult, Return, Goto, TypeOK
    <3>2. CASE AddOutput(g) \/ AddInput(g) \/ SetEnd(g) \/ ReadChildren(g)
      BY <1>3, <3>2 DEF AddOutput, AddInput, SetEnd, ReadChildren, Goto, TypeOK
    <3>3. CASE Finish(g) \/ Fail(g)
      BY <1>3, <3>3 DEF Finish, Fail, Return, TypeOK
    <3> QED
      BY <1>3, <3>1, <3>2, <3>3 DEF Step
  <2>2. CASE NextChild(g)
    <3>1. PICK c \in todo[g] : /\ todo' = [todo EXCEPT ![g] = @ \ {c}]
                               /\ child' = [child EXCEPT ![g] = c]
      BY <2>2 DEF NextChild
    <3>2. c \in Children(node[g]) /\ node' = node
      BY <2>2 DEF NextChild, ReadyInv, FrameReady
    <3> QED
      BY <1>3, <3>1, <3>2 DEF TypeOK
  <2>3. CASE CheckParent(g)
    <3>1. pc[g] = "ready" /\ UNCHANGED <<node, todo>>
      BY <2>3 DEF CheckParent
    <3>2. child'[g] = child[g]
      BY <1>3, <2>3 DEF CheckParent, Goto, TypeOK
    <3> QED
      BY <1>3, <3>1, <3>2 DEF ChildTaken
  <2> QED
    BY <2>1, <2>2, <2>3
<1> QED
  BY <1>1, <1>2, <1>3

\* Steps that neither start a node nor spawn only leave less to be done.
LEMMA DutiesShrink ==
  ASSUME TypeOK, NEW g \in Goroutines, Step(g) \/ Fail(g), ~SetStart(g), ~Spawn(g)
  PROVE  /\ UNCHANGED starts
         /\ \A x \in Goroutines : \A n \in Nodes :
              /\ Pending(x, n)' => Pending(x, n)
              /\ MaySpawn(x, n)' => MaySpawn(x, n)
<1>1. UNCHANGED starts
  BY DEF Step, Fail, Finish, rows, GetNode, ReadInputs, Work,
     StoreResult, AddOutput, AddInput, SetEnd, ReadChildren, NextChild, CheckParent
<1>2. ASSUME NEW x \in Goroutines, x # g, NEW n \in Nodes
      PROVE  (Pending(x, n)' => Pending(x, n)) /\ (MaySpawn(x, n)' => MaySpawn(x, n))
  BY <1>2, OtherFrames DEF SameFrame, Pending, MaySpawn, Parents
<1>3. ASSUME NEW n \in Nodes
      PROVE  (Pending(g, n)' => Pending(g, n)) /\ (MaySpawn(g, n)' => MaySpawn(g, n))
  <2>1. CASE Return(g)
    BY <2>1 DEF Return, Pending, MaySpawn, TypeOK
  <2>2. CASE GetNode(g) /\ ~Return(g)
    BY <2>2 DEF GetNode, Goto, Pending, MaySpawn, TypeOK
  <2>3. CASE ReadInputs(g) \/ Work(g) \/ StoreResult(g) \/ AddOutput(g)
    BY <2>3 DEF ReadInputs, Work, StoreResult, AddOutput, Goto, Pending, MaySpawn, Parents, TypeOK
  <2>4. CASE AddInput(g) \/ SetEnd(g)
    BY <2>4 DEF AddInput, SetEnd, Goto, Pending, MaySpawn, Parents, TypeOK
  <2>5. CASE ReadChildren(g)
    BY <2>5 DEF ReadChildren, Goto, Pending, MaySpawn, Parents, TypeOK
  <2>6. CASE NextChild(g)
    BY <2>6 DEF NextChild, Goto, Pending, MaySpawn, Parents, TypeOK
  <2>7. CASE CheckParent(g)
    BY <2>7, NoNodeIsAbsent DEF CheckParent, Goto, Pending, MaySpawn, Parents, TypeOK
  <2> QED
    BY <2>1, <2>2, <2>3, <2>4, <2>5, <2>6, <2>7 DEF Step, Finish, Fail
<1> QED
  BY <1>1, <1>2, <1>3

\* The start that was about to be written is the only one.
LEMMA StartTriggersOnce ==
  ASSUME TypeOK, ReadyInv, PathInv, NEW g \in Goroutines, SetStart(g),
         NEW n \in Nodes, OnePath(n)
  PROVE  TriggeredOnce(n)'
<1>1. /\ pc[g] = "start" /\ pc'[g] = "read" /\ node'[g] = node[g] /\ node[g] \in Nodes
      /\ starts' = [starts EXCEPT ![node[g]] = @ + 1]
      /\ \A x \in Goroutines \ {g} : SameFrame(x)
  BY DEF SetStart, Goto, SameFrame, TypeOK
<1>2. TriggeredOnce(n) /\ starts[n] \in Nat
  BY DEF PathInv, TypeOK
<1>3. ASSUME NEW x \in Goroutines \ {g}
      PROVE  (Pending(x, n)' <=> Pending(x, n)) /\ (MaySpawn(x, n)' <=> MaySpawn(x, n))
  BY <1>1 DEF SameFrame, Pending, MaySpawn, Parents
<1>4. ~Pending(g, n)'
  BY <1>1 DEF Pending
<1>5. CASE node[g] = n
  <2>1. Pending(g, n)
    BY <1>1, <1>5 DEF Pending
  <2>2. starts'[n] = 1 /\ \A x \in Goroutines \ {g} : ~Pending(x, n) /\ ~MaySpawn(x, n)
    BY <1>1, <1>2, <1>5, <2>1 DEF TriggeredOnce, TypeOK
  <2>3. ~MaySpawn(g, n)'
    <3>1. n \notin Parents(n)
      BY GraphAssumption DEF Parents
    <3> QED
      BY <1>1, <1>5, <3>1 DEF MaySpawn, Parents
  <2> QED
    BY <1>3, <1>4, <2>2, <2>3 DEF TriggeredOnce
<1>6. CASE node[g] # n /\ Parents(n) = {node[g]}
  <2>1. Pending(g, node[g]) /\ OnePath(node[g])
    BY <1>1, <1>6, OnePathUp DEF Pending
  <2>2. starts[node[g]] = 0
    BY <1>1, <2>1 DEF PathInv, TriggeredOnce
  <2>3. starts[n] = 0 /\ \A x \in Goroutines : ~Pending(x, n)
    BY <1>1, <1>6, <2>2, NotBeforeParent
  <2>4. starts'[n] = 0
    BY <1>1, <1>6, <2>3 DEF TypeOK
  <2> QED
    BY <1>3, <1>4, <2>3, <2>4 DEF TriggeredOnce
<1>7. CASE node[g] # n /\ Parents(n) # {node[g]}
  <2>1. starts'[n] = starts[n] /\ ~MaySpawn(g, n)'
    BY <1>1, <1>7 DEF MaySpawn, Parents, TypeOK
  <2> QED
    BY <1>2, <1>3, <1>4, <2>1 DEF TriggeredOnce
<1> QED
  BY <1>5, <1>6, <1>7

\* The goroutine that could spawn the node does so, and can no more: it is the only one
\* that runs the node's parent.
LEMMA SpawnTriggersOnce ==
  ASSUME TypeOK, ReadyInv, OnceInv, PathInv, NEW g \in Goroutines, Spawn(g),
         NEW n \in Nodes, OnePath(n)
  PROVE  TriggeredOnce(n)'
<1>1. PICK h \in Goroutines \ {g} :
        /\ pc[g] = "spawn" /\ pc'[g] = "next" /\ node'[g] = node[g]
        /\ todo'[g] = todo[g] /\ child'[g] = NoNode
        /\ pc[h] = "idle" /\ pc'[h] = "get" /\ node'[h] = child[g]
        /\ child[g] \in Nodes
        /\ \A x \in Goroutines \ {g, h} : SameFrame(x)
  BY SpawnFrames
<1>2. TriggeredOnce(n) /\ UNCHANGED starts
  BY DEF PathInv, Spawn, rows
<1>3. ASSUME NEW x \in Goroutines \ {g, h}
      PROVE  (Pending(x, n)' <=> Pending(x, n)) /\ (MaySpawn(x, n)' <=> MaySpawn(x, n))
  BY <1>1 DEF SameFrame, Pending, MaySpawn, Parents
<1>4. /\ ~Pending(g, n)' /\ ~MaySpawn(h, n)'
      /\ Pending(h, n)' <=> n = child[g]
      /\ MaySpawn(g, n)' <=> Parents(n) = {node[g]} /\ n \in todo[g]
  BY <1>1, NoNodeIsAbsent DEF Pending, MaySpawn, Parents
<1>5. CASE n # child[g]
  <2>1. MaySpawn(g, n)' => MaySpawn(g, n)
    BY <1>1, <1>4 DEF MaySpawn
  <2> QED
    BY <1>2, <1>3, <1>4, <1>5, <2>1 DEF TriggeredOnce
<1>6. CASE n = child[g]
  <2>1. node[g] \in Parents(n) /\ n \notin todo[g] /\ node[g] \in Nodes
    BY <1>1, <1>6 DEF PathInv, ChildTaken, Children, Parents, TypeOK
  <2>2. Parents(n) = {node[g]}
    BY <2>1 DEF OnePath, OneTrigger
  <2>3. MaySpawn(g, n)
    BY <1>1, <1>6, <2>2 DEF MaySpawn
  <2>4. starts[n] = 0 /\ \A x \in Goroutines : ~Pending(x, n)
    BY <1>2, <2>3 DEF TriggeredOnce
  <2>5. ASSUME NEW x \in Goroutines \ {g, h}, MaySpawn(x, n) PROVE FALSE
    <3>1. Runs(x, node[g]) /\ Runs(g, node[g])
      BY <1>1, <2>2, <2>5 DEF MaySpawn, Runs
    <3>2. OnePath(node[g])
      BY <2>2, OnePathUp
    <3>3. starts[node[g]] \in Nat /\ starts[node[g]] <= 1
      BY <2>1, <3>2 DEF PathInv, TriggeredOnce, TypeOK
    <3>4. starts[node[g]] # 0
      BY <2>1, <3>1 DEF OnceInv, RunOnce
    <3> QED
      BY <2>1, <3>1, <3>3, <3>4 DEF OnceInv, RunOnce
  <2> QED
    BY <1>2, <1>3, <1>4, <2>1, <2>4, <2>5 DEF TriggeredOnce
<1> QED
  BY <1>5, <1>6

LEMMA StepPath ==
  ASSUME TypeOK, ReadyInv, OnceInv, PathInv, NEW g \in Goroutines, Step(g) \/ Fail(g)
  PROVE  PathInv'
<1>1. ChildTaken'
  BY ChildTakenKept DEF PathInv
<1>2. ASSUME NEW n \in Nodes, OnePath(n) PROVE TriggeredOnce(n)'
  <2>1. CASE SetStart(g)
    BY <1>2, <2>1, StartTriggersOnce
  <2>2. CASE Spawn(g)
    BY <1>2, <2>2, SpawnTriggersOnce
  <2>3. CASE ~SetStart(g) /\ ~Spawn(g)
    <3>1. TriggeredOnce(n)
      BY <1>2 DEF PathInv
    <3> QED
      BY <2>3, <3>1, DutiesShrink DEF TriggeredOnce
  <2> QED
    BY <2>1, <2>2, <2>3
<1> QED
  BY <1>1, <1>2 DEF PathInv, OnePath, OneTrigger, Parents, EntryNodes

LEMMA InitPath == Init => PathInv
<1> SUFFICES ASSUME Init PROVE PathInv
  OBVIOUS
<1>1. ChildTaken
  BY DEF Init, ChildTaken
<1>2. ASSUME NEW n \in Nodes, OnePath(n) PROVE TriggeredOnce(n)
  <2>1. \A g \in Goroutines : ~MaySpawn(g, n)
    BY DEF Init, MaySpawn
  <2>2. \A g \in Goroutines : Pending(g, n) => g \in Workers /\ Entry[g] = n
    BY GraphAssumption DEF Init, Pending
  <2>3. \A g, h \in Workers : Entry[g] = n /\ Entry[h] = n => g = h
    BY <1>2 DEF OnePath, OneTrigger, EntryNodes
  <2> QED
    BY <2>1, <2>2, <2>3 DEF Init, TriggeredOnce
<1> QED
  BY <1>1, <1>2 DEF PathInv

\* A node with one trigger is started once at most, on every graph and whatever fails:
\* what is finished there never becomes started again (node.go:108-117, 159-213).
THEOREM OnePathAlwaysStartsOnce == Spec => []OnePathStartsOnce
<1>1. IInv /\ PathInv /\ [Next]_vars => PathInv'
  <2> SUFFICES ASSUME IInv, PathInv, [Next]_vars PROVE PathInv'
    OBVIOUS
  <2>1. CASE \E g \in Goroutines : Step(g) \/ Fail(g)
    BY <2>1, StepPath DEF IInv
  <2>2. CASE UNCHANGED vars
    BY <2>2 DEF vars, rows, frame, PathInv, ChildTaken, TriggeredOnce, Pending, MaySpawn,
      Parents, Children, OnePath, OneTrigger, EntryNodes
  <2> QED
    BY <2>1, <2>2 DEF Next, Rest
<1>2. PathInv => OnePathStartsOnce
  BY DEF PathInv, TriggeredOnce, OnePathStartsOnce
<1> QED
  BY <1>1, <1>2, InitIInv, NextIInv, InitPath, PTL DEF Spec
=============================================================================

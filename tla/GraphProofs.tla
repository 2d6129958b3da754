------------------------------ MODULE GraphProofs ------------------------------
(***************************************************************************)
(* The graph of a request: how CreateTask makes it, and what is reported   *)
(* of it while it executes.                                                *)
(*                                                                         *)
(* What CreateTask persists is acyclic and numbered along its edges, for   *)
(* every configuration, with calls that fail at any point: the assumption  *)
(* GraphAssumption under which DagExecution executes it, and               *)
(* ReportAssumption under which DagReport reports of it.                   *)
(***************************************************************************)
EXTENDS TaskFactory, RunCommand, FunctionTheorems, FiniteSetTheorems, WellFoundedInduction, TLAPS

\* The steps of a configuration have their type.
LEMMA GraphTyped ==
  ASSUME TypeOK, NEW i \in steps
  PROVE  /\ graph[i] \in Step
         /\ graph[i].id \in Names
         /\ StepInputs(graph[i]) \subseteq Names
<1>1. graph \in Seq(Step) /\ i \in DOMAIN graph
  BY DEF TypeOK
<1>2. graph[i] \in Step
  BY <1>1
<1> QED  BY <1>2 DEF Step, StepInputs

\* The rows a new node comes with keep their types, whichever of its inputs
\* have been stored and whether its root input has.
LEMMA NewRows ==
  ASSUME TypeOK, NEW i \in steps, InputsReady(graph[i]),
         NEW made \in SUBSET StepInputs(graph[i]),
         nodes' = Append(nodes, graph[i].id),
         edges' = edges \cup {<<dags[n], Len(nodes) + 1>> : n \in made},
         rooted' = rooted \/ rooted' = rooted \cup {Len(nodes) + 1}
  PROVE  /\ nodes' \in Seq(Names)
         /\ Len(nodes') = Len(nodes) + 1
         /\ nodes'[Len(nodes) + 1] = graph[i].id
         /\ \A k \in 1..Len(nodes) : nodes'[k] = nodes[k]
         /\ edges' \subseteq (1..Len(nodes')) \X (1..Len(nodes'))
         /\ rooted' \subseteq 1..Len(nodes') /\ rooted \subseteq rooted'
         /\ EdgesGrow => EdgesGrow'
<1>1. graph[i].id \in Names /\ made \subseteq Names
  BY GraphTyped
<1>2. /\ nodes' \in Seq(Names)
      /\ Len(nodes') = Len(nodes) + 1
      /\ nodes'[Len(nodes) + 1] = graph[i].id
      /\ \A k \in 1..Len(nodes) : nodes'[k] = nodes[k]
  BY <1>1 DEF TypeOK
<1>3. \A n \in made : dags[n] \in 1..Len(nodes)
  BY <1>1 DEF TypeOK, InputsReady
<1>4. \A e \in edges' : e \in edges \/ \E n \in made : e = <<dags[n], Len(nodes) + 1>>
  OBVIOUS
<1>5. nodes \in Seq(Names) /\ Len(nodes) \in Nat
  BY DEF TypeOK
<1>6. edges' \subseteq (1..Len(nodes')) \X (1..Len(nodes'))
  BY <1>2, <1>3, <1>4, <1>5 DEF TypeOK
<1>7. rooted' \subseteq 1..Len(nodes') /\ rooted \subseteq rooted'
  <2>1. rooted \subseteq rooted' /\ \A x \in rooted' : x \in rooted \/ x = Len(nodes) + 1
    OBVIOUS
  <2>2. \A x \in rooted : x \in 1..Len(nodes)
    BY DEF TypeOK
  <2>3. Len(nodes') = Len(nodes) + 1
    BY <1>2
  <2> QED  BY <1>5, <2>1, <2>2, <2>3
<1>8. EdgesGrow => EdgesGrow'
  BY <1>3, <1>4, <1>5 DEF EdgesGrow
<1> QED  BY <1>2, <1>6, <1>7, <1>8

-----------------------------------------------------------------------------
LEMMA InitOK == Init => TypeOK /\ EdgesGrow
<1> SUFFICES ASSUME Init PROVE TypeOK /\ EdgesGrow
  OBVIOUS
<1>1. graph \in Seq(Step)
  BY ConfigAssumption DEF Init
<1>2. nodes \in Seq(Names) /\ Len(nodes) = 0
  BY DEF Init
<1> QED  BY <1>1, <1>2 DEF Init, TypeOK, EdgesGrow

LEMMA StepOK == TypeOK /\ EdgesGrow /\ [Next]_vars => TypeOK' /\ EdgesGrow'
<1> SUFFICES ASSUME TypeOK, EdgesGrow, [Next]_vars
             PROVE  TypeOK' /\ EdgesGrow'
  OBVIOUS
<1>1. CASE CheckInputs
  BY <1>1 DEF CheckInputs, rows, TypeOK, EdgesGrow
<1>2. CASE StartPass
  BY <1>2 DEF StartPass, Missing, rows, TypeOK, EdgesGrow
<1>3. CASE Postpone
  BY <1>3 DEF Postpone, IsNext, Advance, rows, TypeOK, EdgesGrow
<1>4. CASE CreateNode
  <2>1. PICK i \in steps :
          /\ InputsReady(graph[i])
          /\ nodes' = Append(nodes, graph[i].id)
          /\ dags' = [dags EXCEPT ![graph[i].id] = Len(nodes) + 1]
          /\ edges' = edges \cup {<<dags[n], Len(nodes) + 1>> : n \in StepInputs(graph[i])}
          /\ rooted' = rooted \/ rooted' = rooted \cup {Len(nodes) + 1}
          /\ Advance(i)
    BY <1>4 DEF CreateNode, IsNext
  <2>2. /\ nodes' \in Seq(Names)
        /\ Len(nodes') = Len(nodes) + 1
        /\ nodes'[Len(nodes) + 1] = graph[i].id
        /\ \A k \in 1..Len(nodes) : nodes'[k] = nodes[k]
        /\ edges' \subseteq (1..Len(nodes')) \X (1..Len(nodes'))
        /\ rooted' \subseteq 1..Len(nodes') /\ rooted \subseteq rooted'
        /\ EdgesGrow'
    BY <2>1, NewRows
  <2>3. graph' = graph /\ answer' = answer /\ pc = "visit"
    BY <1>4 DEF CreateNode
  <2>4. dags' \in [Names -> 0..Len(nodes')]
    BY <2>1, <2>2 DEF TypeOK
  <2>5. \A n \in Names : dags'[n] # 0 => nodes'[dags'[n]] = n
    <3>1. dags' = [dags EXCEPT ![graph[i].id] = Len(nodes) + 1] /\ graph[i].id \in Names
      BY <2>1, GraphTyped
    <3>2. \A n \in Names : dags[n] # 0 => dags[n] \in 1..Len(nodes) /\ nodes[dags[n]] = n
      BY DEF TypeOK
    <3>3. dags \in [Names -> 0..Len(nodes)]
      BY DEF TypeOK
    <3> QED
      BY <2>2, <3>1, <3>2, <3>3
  <2>6. /\ steps' \subseteq DOMAIN graph
        /\ pc' \in {"pass", "visit"}
        /\ steps' = {} <=> pc' # "visit"
    BY <2>1 DEF Advance, TypeOK
  <2> QED  BY <2>2, <2>3, <2>4, <2>5, <2>6 DEF TypeOK
<1>5. CASE FailHere
  <2>1. /\ graph' = graph /\ dags' = dags /\ answer' = answer
        /\ pc' = "failed" /\ steps' = {}
    BY <1>5 DEF FailHere
  <2>2. CASE UNCHANGED rows
    BY <2>1, <2>2 DEF rows, TypeOK, EdgesGrow
  <2>3. CASE ~UNCHANGED rows
    <3>1. PICK i \in steps : \E made \in SUBSET StepInputs(graph[i]) :
            /\ InputsReady(graph[i])
            /\ nodes' = Append(nodes, graph[i].id)
            /\ edges' = edges \cup {<<dags[n], Len(nodes) + 1>> : n \in made}
            /\ rooted' = rooted \/ rooted' = rooted \cup {Len(nodes) + 1}
      BY <1>5, <2>3 DEF FailHere, rows, IsNext
    <3>2. /\ nodes' \in Seq(Names)
          /\ Len(nodes') = Len(nodes) + 1
          /\ \A k \in 1..Len(nodes) : nodes'[k] = nodes[k]
          /\ edges' \subseteq (1..Len(nodes')) \X (1..Len(nodes'))
          /\ rooted' \subseteq 1..Len(nodes') /\ rooted \subseteq rooted'
          /\ EdgesGrow'
      BY <3>1, NewRows
    <3>3. dags \in [Names -> 0..Len(nodes')]
      BY <3>2 DEF TypeOK
    <3>4. \A n \in Names : dags[n] # 0 => nodes'[dags[n]] = n
      BY <3>2 DEF TypeOK
    <3> QED  BY <2>1, <3>2, <3>3, <3>4 DEF TypeOK
  <2> QED  BY <2>2, <2>3
<1>6. CASE FilterForRootNodes
  BY <1>6 DEF FilterForRootNodes, rows, TypeOK, EdgesGrow
<1>7. CASE UNCHANGED vars
  BY <1>7 DEF vars, rows, TypeOK, EdgesGrow
<1> QED  BY <1>1, <1>2, <1>3, <1>4, <1>5, <1>6, <1>7 DEF Next

\* The rows fit together whatever was configured and whichever call fails
\* (factory.go:87-146).
THEOREM RowsFit == Spec => []TypeOK
<1>1. TypeOK /\ EdgesGrow /\ [Next]_vars => TypeOK' /\ EdgesGrow'
  BY StepOK
<1> QED  BY InitOK, <1>1, PTL DEF Spec

\* Identifiers grow along the edges, in what CreateTask leaves behind when it
\* fails too, so no persisted graph has a cycle (factory.go:99-141).
THEOREM EdgesAlwaysGrow == Spec => []EdgesGrow
<1>1. TypeOK /\ EdgesGrow /\ [Next]_vars => TypeOK' /\ EdgesGrow'
  BY StepOK
<1> QED  BY InitOK, <1>1, PTL DEF Spec

\* What CreateTask returns has nodes 1..Len(nodes) and grows along its edges: the
\* graph DagExecution assumes (factory.go:143-150).
THEOREM PersistedGraphExecutable ==
  Spec => [](/\ DOMAIN nodes \subseteq Nat \ {0}
             /\ edges \subseteq {e \in (DOMAIN nodes) \X (DOMAIN nodes) : e[1] < e[2]})
<1>1. TypeOK /\ EdgesGrow =>
        /\ DOMAIN nodes \subseteq Nat \ {0}
        /\ edges \subseteq {e \in (DOMAIN nodes) \X (DOMAIN nodes) : e[1] < e[2]}
  BY DEF TypeOK, EdgesGrow
<1> QED  BY RowsFit, EdgesAlwaysGrow, <1>1, PTL

-----------------------------------------------------------------------------
\* The steps whose nodes the edges to node k come from.
ParentsOf(k) == {nodes[e[1]] : e \in {x \in edges : x[2] = k}}

\* Of a configuration without repeated identifiers: nodes are those of its steps, and
\* the node of a step has the step's inputs.
NodesFit == \A k \in 1..Len(nodes) : nodes[k] \in Ids(graph) /\ dags[nodes[k]] = k
InputsFit ==
  \A i \in DOMAIN graph :
    dags[graph[i].id] # 0 =>
      /\ ParentsOf(dags[graph[i].id]) = StepInputs(graph[i])
      /\ dags[graph[i].id] \in rooted <=> Root \in graph[i].inputs
PassFits ==
  /\ steps \subseteq Missing
  /\ pc \in {"filter", "done"} => Missing = {}
  /\ pc = "done" => answer = {dags[n] : n \in Ids(graph)} \cap rooted
Fits == Distinct(graph) /\ pc # "failed" => NodesFit /\ InputsFit /\ PassFits

LEMMA InitFits == Init => Fits
<1> SUFFICES ASSUME Init PROVE Fits
  OBVIOUS
<1>1. graph \in Seq(Step)
  BY ConfigAssumption DEF Init
<1>2. \A i \in DOMAIN graph : graph[i] \in Step
  BY <1>1
<1>3. \A i \in DOMAIN graph : dags[graph[i].id] = 0
  BY <1>2 DEF Init, Step
<1>4. Len(nodes) = 0
  BY DEF Init
<1> QED
  BY <1>3, <1>4 DEF Init, Fits, NodesFit, InputsFit, PassFits

LEMMA CreateFits ==
  ASSUME TypeOK, Fits, Distinct(graph), CreateNode
  PROVE  NodesFit' /\ InputsFit' /\ PassFits'
<1>1. /\ pc = "visit" /\ UNCHANGED graph
      /\ \E i \in steps :
           /\ InputsReady(graph[i])
           /\ nodes' = Append(nodes, graph[i].id)
           /\ dags' = [dags EXCEPT ![graph[i].id] = Len(nodes) + 1]
           /\ edges' = edges \cup {<<dags[n], Len(nodes) + 1>> : n \in StepInputs(graph[i])}
           /\ rooted' = IF Root \in graph[i].inputs THEN rooted \cup {Len(nodes) + 1} ELSE rooted
           /\ Advance(i)
  BY DEF CreateNode
<1>2. PICK i \in steps :
        /\ InputsReady(graph[i])
        /\ nodes' = Append(nodes, graph[i].id)
        /\ dags' = [dags EXCEPT ![graph[i].id] = Len(nodes) + 1]
        /\ edges' = edges \cup {<<dags[n], Len(nodes) + 1>> : n \in StepInputs(graph[i])}
        /\ rooted' = IF Root \in graph[i].inputs THEN rooted \cup {Len(nodes) + 1} ELSE rooted
        /\ Advance(i)
  BY <1>1
<1>3. /\ i \in DOMAIN graph /\ graph[i].id \in Names
      /\ StepInputs(graph[i]) \subseteq Names
  BY GraphTyped DEF TypeOK
<1>4. NodesFit /\ InputsFit /\ PassFits
  BY <1>1 DEF Fits
<1>5. dags[graph[i].id] = 0
  BY <1>4 DEF PassFits, Missing
<1>6. /\ Len(nodes) \in Nat /\ Len(nodes') = Len(nodes) + 1
      /\ nodes'[Len(nodes) + 1] = graph[i].id
      /\ \A k \in 1..Len(nodes) : nodes'[k] = nodes[k]
  BY <1>2, <1>3 DEF TypeOK
<1>7. \A e \in edges : e[1] \in 1..Len(nodes) /\ e[2] \in 1..Len(nodes)
  BY DEF TypeOK
<1>8. /\ dags'[graph[i].id] = Len(nodes) + 1
      /\ \A n \in Names : n # graph[i].id => dags'[n] = dags[n]
      /\ \A n \in Names : dags[n] \in 0..Len(nodes)
  BY <1>2, <1>3 DEF TypeOK
<1>9. \A j \in DOMAIN graph : graph[j].id \in Names /\ (j # i => graph[j].id # graph[i].id)
  <2>1. \A j \in DOMAIN graph : graph[j] \in Step
    BY DEF TypeOK
  <2> QED
    BY <1>3, <2>1 DEF Step, Distinct
<1>10. NodesFit'
  <2>1. ASSUME NEW k \in 1..Len(nodes')
        PROVE  nodes'[k] \in Ids(graph) /\ dags'[nodes'[k]] = k
    <3>1. CASE k = Len(nodes) + 1
      BY <1>3, <1>6, <1>8, <3>1 DEF Ids
    <3>2. CASE k \in 1..Len(nodes)
      <4>1. nodes'[k] = nodes[k] /\ nodes[k] \in Ids(graph) /\ dags[nodes[k]] = k
        BY <1>4, <1>6, <3>2 DEF NodesFit
      <4>2. nodes[k] \in Names /\ nodes[k] # graph[i].id
        BY <1>5, <3>2, <4>1 DEF TypeOK
      <4> QED
        BY <1>8, <4>1, <4>2
    <3> QED
      BY <1>6, <3>1, <3>2
  <2> QED
    BY <1>1, <2>1 DEF NodesFit, Ids
<1>11. ASSUME NEW j \in DOMAIN graph, dags'[graph[j].id] # 0
       PROVE  /\ ParentsOf(dags[graph[j].id])' = StepInputs(graph[j])
              /\ dags'[graph[j].id] \in rooted' <=> Root \in graph[j].inputs
  <2>1. CASE j = i
    <3>1. {x \in edges' : x[2] = Len(nodes) + 1}
            = {<<dags[n], Len(nodes) + 1>> : n \in StepInputs(graph[i])}
      BY <1>2, <1>6, <1>7
    <3>2. \A n \in StepInputs(graph[i]) :
            dags[n] \in 1..Len(nodes) /\ nodes'[dags[n]] = n
      BY <1>2, <1>3, <1>6, <1>8 DEF InputsReady, TypeOK
    <3>3. {nodes'[e[1]] : e \in {x \in edges' : x[2] = Len(nodes) + 1}} = StepInputs(graph[i])
      <4> DEFINE new == {x \in edges' : x[2] = Len(nodes) + 1}
      <4>1. ASSUME NEW e \in new PROVE nodes'[e[1]] \in StepInputs(graph[i])
        <5>1. PICK n \in StepInputs(graph[i]) : e = <<dags[n], Len(nodes) + 1>>
          BY <3>1
        <5> QED
          BY <3>2, <5>1
      <4>2. ASSUME NEW n \in StepInputs(graph[i]) PROVE \E e \in new : nodes'[e[1]] = n
        <5>1. <<dags[n], Len(nodes) + 1>> \in new
          BY <3>1
        <5>2. nodes'[<<dags[n], Len(nodes) + 1>>[1]] = n
          BY <3>2
        <5> QED
          BY <5>1, <5>2
      <4> HIDE DEF new
      <4>3. {nodes'[e[1]] : e \in new} = StepInputs(graph[i])
        BY <4>1, <4>2
      <4> QED
        BY <4>3 DEF new
    <3>4. ParentsOf(dags[graph[j].id])' = StepInputs(graph[j])
      BY <1>1, <1>8, <2>1, <3>3 DEF ParentsOf
    <3>5. Len(nodes) + 1 \notin rooted
      BY <1>6 DEF TypeOK
    <3> QED
      BY <1>2, <1>8, <2>1, <3>4, <3>5
  <2>2. CASE j # i
    <3>1. dags'[graph[j].id] = dags[graph[j].id] /\ dags[graph[j].id] \in 1..Len(nodes)
      BY <1>8, <1>9, <1>11, <2>2
    <3>2. {x \in edges' : x[2] = dags[graph[j].id]} = {x \in edges : x[2] = dags[graph[j].id]}
      BY <1>2, <1>6, <3>1
    <3>3. {nodes'[e[1]] : e \in {x \in edges : x[2] = dags[graph[j].id]}}
            = {nodes[e[1]] : e \in {x \in edges : x[2] = dags[graph[j].id]}}
      BY <1>6, <1>7
    <3>4. ParentsOf(dags[graph[j].id])' = ParentsOf(dags[graph[j].id])
      BY <1>1, <3>1, <3>2, <3>3 DEF ParentsOf
    <3>5. dags'[graph[j].id] \in rooted' <=> dags[graph[j].id] \in rooted
      BY <1>2, <1>6, <3>1
    <3> QED
      BY <1>4, <3>1, <3>4, <3>5 DEF InputsFit
  <2> QED
    BY <2>1, <2>2
<1>12. InputsFit'
  BY <1>1, <1>11 DEF InputsFit, ParentsOf, StepInputs
<1>13. PassFits'
  <2>1. \A j \in steps' : j \in DOMAIN graph /\ dags[graph[j].id] = 0 /\ j # i
    BY <1>2, <1>4 DEF Advance, PassFits, Missing
  <2>2. \A j \in steps' : dags'[graph[j].id] = 0
    BY <1>8, <1>9, <2>1
  <2>3. pc' \in {"pass", "visit"}
    BY <1>2 DEF Advance
  <2> QED
    BY <1>1, <2>1, <2>2, <2>3 DEF PassFits, Missing
<1> QED
  BY <1>10, <1>12, <1>13

LEMMA StepFits == TypeOK /\ Fits /\ [Next]_vars => Fits'
<1> SUFFICES ASSUME TypeOK, Fits, [Next]_vars, Distinct(graph)', pc' # "failed"
             PROVE  NodesFit' /\ InputsFit' /\ PassFits'
  BY DEF Fits
<1>1. UNCHANGED graph /\ ~FailHere
  BY DEF Next, CheckInputs, StartPass, Postpone, CreateNode, FailHere, FilterForRootNodes,
    vars
<1>2. Distinct(graph)
  BY <1>1 DEF Distinct
<1>3. pc # "failed"
  BY <1>1 DEF Next, CheckInputs, StartPass, Postpone, CreateNode, FilterForRootNodes, vars
<1>4. NodesFit /\ InputsFit /\ PassFits
  BY <1>2, <1>3 DEF Fits
<1>5. ASSUME UNCHANGED <<graph, dags, nodes, edges, rooted>> PROVE NodesFit' /\ InputsFit' /\ Missing' = Missing
  BY <1>4, <1>5 DEF NodesFit, InputsFit, ParentsOf, Missing, Ids, StepInputs
<1>6. CASE CheckInputs
  BY <1>4, <1>5, <1>6 DEF CheckInputs, rows, PassFits
<1>7. CASE StartPass
  BY <1>4, <1>5, <1>7 DEF StartPass, rows, PassFits
<1>8. CASE Postpone
  BY <1>4, <1>5, <1>8 DEF Postpone, Advance, rows, PassFits
<1>9. CASE CreateNode
  BY <1>2, <1>9, CreateFits
<1>10. CASE FilterForRootNodes
  <2>1. answer' = {dags[n] : n \in Ids(graph)} \cap rooted /\ pc = "filter"
        /\ UNCHANGED <<graph, dags, nodes, edges, rooted, steps>>
    BY <1>10 DEF FilterForRootNodes, rows
  <2>2. Missing' = {} /\ steps' \subseteq Missing'
    BY <1>4, <1>5, <2>1 DEF PassFits
  <2> QED
    BY <1>5, <2>1, <2>2 DEF PassFits, Ids
<1>11. CASE UNCHANGED vars
  BY <1>4, <1>5, <1>11 DEF vars, rows, PassFits, Ids
<1> QED
  BY <1>1, <1>6, <1>7, <1>8, <1>9, <1>10, <1>11 DEF Next

\* Steps and nodes correspond one to one once every step has its node.
LEMMA FitsGivesGraph == TypeOK /\ Fits => GraphAsConfigured
<1> SUFFICES ASSUME TypeOK, Fits, pc = "done", Distinct(graph)
             PROVE  /\ Len(nodes) = Len(graph)
                    /\ \A i \in DOMAIN graph :
                         /\ ParentsOf(dags[graph[i].id]) = StepInputs(graph[i])
                         /\ dags[graph[i].id] \in answer <=> Root \in graph[i].inputs
  BY DEF GraphAsConfigured, ParentsOf
<1>1. NodesFit /\ InputsFit /\ PassFits /\ Missing = {}
  BY DEF Fits, PassFits
<1>2. \A i \in DOMAIN graph : graph[i].id \in Names
  <2>1. \A i \in DOMAIN graph : graph[i] \in Step
    BY DEF TypeOK
  <2> QED
    BY <2>1 DEF Step
<1>3. \A i \in DOMAIN graph : dags[graph[i].id] # 0
  BY <1>1 DEF Missing
<1>4. \A i \in DOMAIN graph :
        /\ dags[graph[i].id] \in 1..Len(nodes)
        /\ nodes[dags[graph[i].id]] = graph[i].id
  BY <1>2, <1>3 DEF TypeOK
<1>5. Len(nodes) = Len(graph)
  <2> DEFINE nodeOf == [i \in 1..Len(graph) |-> dags[graph[i].id]]
  <2>1. DOMAIN graph = 1..Len(graph) /\ Len(graph) \in Nat /\ Len(nodes) \in Nat
    BY DEF TypeOK
  <2>2. nodeOf \in [1..Len(graph) -> 1..Len(nodes)]
    BY <1>4, <2>1
  <2>3. \A i, j \in 1..Len(graph) : nodeOf[i] = nodeOf[j] => i = j
    BY <1>4, <2>1 DEF Distinct
  <2>4. ASSUME NEW k \in 1..Len(nodes) PROVE \E i \in 1..Len(graph) : nodeOf[i] = k
    BY <1>1, <2>1 DEF NodesFit, Ids
  <2>5. nodeOf \in Bijection(1..Len(graph), 1..Len(nodes))
    BY <2>2, <2>3, <2>4, Fun_IsBij
  <2>6. ExistsBijection(1..Len(graph), 1..Len(nodes))
    BY <2>5 DEF ExistsBijection
  <2>7. ASSUME NEW m \in Nat PROVE IsFiniteSet(1..m) /\ Cardinality(1..m) = m
    <3>1. IsFiniteSet(1..m) /\ Cardinality(1..m) = IF 1 > m THEN 0 ELSE m - 1 + 1
      BY FS_Interval
    <3> QED
      BY <3>1
  <2>8. Cardinality(1..Len(nodes)) = Cardinality(1..Len(graph))
    BY <2>1, <2>6, <2>7, FS_Bijection
  <2> QED
    BY <2>1, <2>7, <2>8
<1>6. ASSUME NEW i \in DOMAIN graph
      PROVE  dags[graph[i].id] \in answer <=> Root \in graph[i].inputs
  BY <1>1, <1>3 DEF PassFits, InputsFit, Ids
<1> QED
  BY <1>1, <1>3, <1>5, <1>6 DEF InputsFit

\* What CreateTask returns is the configured graph, one node for each step, with its
\* edges and root inputs, in whatever order the steps were configured
\* (factory.go:88-150).
THEOREM ReturnsConfiguredGraph == Spec => []GraphAsConfigured
<1>1. TypeOK /\ EdgesGrow /\ Fits /\ [Next]_vars => TypeOK' /\ EdgesGrow' /\ Fits'
  BY StepOK, StepFits
<1>2. Init => TypeOK /\ EdgesGrow /\ Fits
  BY InitOK, InitFits
<1>3. TypeOK /\ EdgesGrow /\ Fits => GraphAsConfigured
  BY FitsGivesGraph
<1> QED
  BY <1>1, <1>2, <1>3, PTL DEF Spec

-----------------------------------------------------------------------------
\* Where every step has an input, the root inputs reach all nodes there are at any
\* time, and not only once the graph is complete.
AllFed == \A i \in DOMAIN graph : graph[i].inputs # {}
Reached == AllFed /\ pc # "failed" => ReachesAll(rooted)

LEMMA CreateReaches ==
  ASSUME TypeOK, AllFed, ReachesAll(rooted), CreateNode
  PROVE  ReachesAll(rooted)'
<1>1. PICK i \in steps :
        /\ InputsReady(graph[i])
        /\ nodes' = Append(nodes, graph[i].id)
        /\ edges' = edges \cup {<<dags[n], Len(nodes) + 1>> : n \in StepInputs(graph[i])}
        /\ rooted' = IF Root \in graph[i].inputs THEN rooted \cup {Len(nodes) + 1} ELSE rooted
  BY DEF CreateNode
<1>2. /\ i \in DOMAIN graph /\ graph[i].id \in Names
      /\ StepInputs(graph[i]) \subseteq Names
  BY GraphTyped DEF TypeOK
<1>3. /\ Len(nodes) \in Nat
      /\ DOMAIN nodes = 1..Len(nodes) /\ DOMAIN nodes' = 1..(Len(nodes) + 1)
  BY <1>1, <1>2 DEF TypeOK
<1>4. SUFFICES ASSUME NEW S \in SUBSET (DOMAIN nodes'), rooted' \subseteq S,
                      \A e \in edges' : e[1] \in S => e[2] \in S
               PROVE  S = DOMAIN nodes'
  BY DEF ReachesAll
<1> DEFINE old == S \cap DOMAIN nodes
<1>5. old = DOMAIN nodes
  <2>1. rooted \subseteq old
    BY <1>1, <1>3, <1>4 DEF TypeOK
  <2>2. ASSUME NEW e \in edges, e[1] \in old PROVE e[2] \in old
    BY <1>1, <1>3, <1>4, <2>2 DEF TypeOK
  <2> QED
    BY <2>1, <2>2 DEF ReachesAll
<1>6. Len(nodes) + 1 \in S
  <2>1. CASE Root \in graph[i].inputs
    BY <1>1, <1>4, <2>1
  <2>2. CASE Root \notin graph[i].inputs
    <3>1. PICK n \in StepInputs(graph[i]) : TRUE
      BY <1>2, <2>2 DEF AllFed, StepInputs
    <3>2. dags[n] \in 1..Len(nodes)
      BY <1>1, <1>2 DEF InputsReady, TypeOK
    <3>3. <<dags[n], Len(nodes) + 1>> \in edges'
      BY <1>1
    <3>4. <<dags[n], Len(nodes) + 1>>[1] \in S
      BY <1>3, <1>5, <3>2
    <3> QED
      BY <1>4, <3>3, <3>4
  <2> QED
    BY <2>1, <2>2
<1>7. \A k \in 1..(Len(nodes) + 1) : k \in 1..Len(nodes) \/ k = Len(nodes) + 1
  BY <1>3
<1>8. \A k \in DOMAIN nodes' : k \in S
  BY <1>3, <1>5, <1>6, <1>7
<1> QED
  BY <1>4, <1>8

LEMMA StepReaches == TypeOK /\ Reached /\ [Next]_vars => Reached'
<1> SUFFICES ASSUME TypeOK, Reached, [Next]_vars, AllFed', pc' # "failed"
             PROVE  ReachesAll(rooted)'
  BY DEF Reached
<1>1. UNCHANGED graph /\ pc # "failed" /\ ~FailHere
  BY DEF Next, CheckInputs, StartPass, Postpone, CreateNode, FailHere, FilterForRootNodes,
    Advance, Returned, vars
<1>2. AllFed /\ ReachesAll(rooted)
  BY <1>1 DEF AllFed, Reached
<1>3. CASE CreateNode
  BY <1>2, <1>3, CreateReaches
<1>4. CASE ~CreateNode
  <2>1. UNCHANGED rows
    BY <1>1, <1>4 DEF Next, CheckInputs, StartPass, Postpone, FilterForRootNodes, vars
  <2> QED
    BY <1>2, <2>1 DEF ReachesAll, rows
<1> QED
  BY <1>3, <1>4

\* The roots returned are all the nodes with a root input.
LEMMA AnswersRooted ==
  ASSUME TypeOK, Fits, pc = "done", Distinct(graph)
  PROVE  answer = rooted
<1>1. NodesFit /\ answer = {dags[n] : n \in Ids(graph)} \cap rooted
  BY DEF Fits, PassFits
<1>2. ASSUME NEW k \in rooted PROVE k \in {dags[n] : n \in Ids(graph)}
  <2>1. k \in 1..Len(nodes)
    BY DEF TypeOK
  <2> QED
    BY <1>1, <2>1 DEF NodesFit
<1> QED
  BY <1>1, <1>2

\* If every step has an input, then executing the roots that CreateTask returned gets
\* to every node of the graph: none is persisted that nothing will ever start
\* (factory.go:88-150).
THEOREM RootsAlwaysReachAll == Spec => []RootsReachAll
<1>1. Init => TypeOK /\ EdgesGrow /\ Fits /\ Reached
  <2>1. Init => nodes = <<>>
    BY DEF Init
  <2>2. Init => ReachesAll(rooted)
    BY <2>1 DEF ReachesAll
  <2> QED
    BY <2>2, InitOK, InitFits DEF Reached
<1>2. TypeOK /\ EdgesGrow /\ Fits /\ Reached /\ [Next]_vars
        => TypeOK' /\ EdgesGrow' /\ Fits' /\ Reached'
  BY StepOK, StepFits, StepReaches
<1>3. TypeOK /\ Fits /\ Reached => RootsReachAll
  BY AnswersRooted DEF Reached, RootsReachAll, AllFed
<1> QED
  BY <1>1, <1>2, <1>3, PTL DEF Spec

-----------------------------------------------------------------------------
(***************************************************************************)
(* Proofs about the reports of a graph and the run command, for any graph  *)
(* whose edges go up, any order of its roots and any bound of the clock:   *)
(* the times and the share reported are right, and the command prints the  *)
(* outputs below its last root.                                            *)
(*                                                                         *)
(* The reports are recursive functions.  Each calls itself with a list of  *)
(* a smaller measure: less nodes of the graph have an identifier as large  *)
(* as one in a list of children, and the rest of a list is shorter.  So    *)
(* the recursion has one solution, its equation holds, and what it answers *)
(* follows by induction on the measure.  Induction is over a set of lists: *)
(* the library's theorem takes a property, which the provers cannot        *)
(* instantiate.                                                            *)
(*                                                                         *)
(* The rest is an invariant: a root is begun once and no node before the   *)
(* first root; the roots before the next one have put out; and once the    *)
(* command prints, a set that holds the last root and all nodes below it   *)
(* has put out.                                                            *)
(***************************************************************************)

\* The least of the naturals that have a property.
LEMMA LeastNatural ==
  ASSUME NEW T \in SUBSET Nat, T # {}
  PROVE  \E x \in T : \A y \in T : x <= y
<1>1. PICK x \in T : \A y \in T : ~(<<y, x>> \in OpToRel(<, Nat))
  BY NatLessThanWellFounded, WFMin
<1>2. OpToRel(<, Nat) = {ss \in Nat \X Nat : ss[1] < ss[2]}
  BY DEF OpToRel
<1>3. ASSUME NEW y \in T, ~(x <= y) PROVE FALSE
  <2>1. <<y, x>> \in {ss \in Nat \X Nat : ss[1] < ss[2]}
    BY <1>3
  <2> QED
    BY <1>1, <1>2, <2>1
<1> QED
  BY <1>3

\* Induction on a measure, for a set of things instead of a property.
LEMMA MeasureInduction ==
  ASSUME NEW D, NEW m \in [D -> Nat], NEW Q,
         \A x \in D : (\A y \in D : m[y] < m[x] => y \in Q) => x \in Q
  PROVE  D \subseteq Q
<1> DEFINE T == {m[x] : x \in D \ Q}
<1>1. SUFFICES ASSUME T # {} PROVE FALSE
  OBVIOUS
<1>2. T \in SUBSET Nat
  OBVIOUS
<1>3. PICK k \in T : \A l \in T : k <= l
  BY <1>1, <1>2, LeastNatural
<1>4. PICK x \in D \ Q : m[x] = k
  BY <1>3
<1>5. ASSUME NEW y \in D, m[y] < m[x] PROVE y \in Q
  <2>1. CASE y \in Q
    BY <2>1
  <2>2. CASE y \notin Q
    <3>1. m[y] \in T
      BY <2>2
    <3>2. k <= m[y] /\ k \in Nat /\ m[y] \in Nat
      BY <1>2, <1>3, <3>1
    <3> QED
      BY <1>4, <1>5, <3>2
  <2> QED
    BY <2>1, <2>2
<1> QED
  BY <1>4, <1>5

\* Induction from a natural number to the next.
LEMMA SuccessorInduction ==
  ASSUME NEW K \in SUBSET Nat, 0 \in K, \A k \in K : k + 1 \in K
  PROVE  K = Nat
<1> DEFINE T == Nat \ K
<1>1. SUFFICES ASSUME T # {} PROVE FALSE
  OBVIOUS
<1>2. PICK k \in T : \A l \in T : k <= l
  <2>1. T \in SUBSET Nat
    OBVIOUS
  <2> HIDE DEF T
  <2> QED
    BY <1>1, <2>1, LeastNatural
<1>3. k - 1 \in Nat /\ ~(k <= k - 1) /\ (k - 1) + 1 = k
  OBVIOUS
<1>4. k - 1 \in K
  BY <1>2, <1>3
<1> QED
  BY <1>3, <1>4

\* A function that is defined at each place by its values at places of a smaller measure
\* exists: G[x][f] is the value at x, given those of f.
Recurses(D, V, G, m, bound) ==
  /\ V # {} /\ bound \in Nat /\ m \in [D -> 0..bound] /\ G \in [D -> [[D -> V] -> V]]
  /\ \A x \in D : \A f, g \in [D -> V] :
       (\A y \in D : m[y] < m[x] => f[y] = g[y]) => G[x][f] = G[x][g]

LEMMA RecursionExists ==
  ASSUME NEW D, NEW V, NEW G, NEW m, NEW bound, Recurses(D, V, G, m, bound)
  PROVE  \E f \in [D -> V] : \A x \in D : f[x] = G[x][f]
<1> USE DEF Recurses
<1> DEFINE Solves(f, k) == \A x \in D : m[x] < k => f[x] = G[x][f]
           K == {k \in Nat : \E f \in [D -> V] : Solves(f, k)}
<1>1. 0 \in K
  <2>1. PICK v \in V : TRUE
    OBVIOUS
  <2>2. [x \in D |-> v] \in [D -> V] /\ Solves([x \in D |-> v], 0)
    BY <2>1
  <2> QED
    BY <2>2
<1>2. ASSUME NEW k \in K PROVE k + 1 \in K
  <2>1. k \in Nat
    OBVIOUS
  <2>2. PICK f \in [D -> V] : Solves(f, k)
    OBVIOUS
  <2> DEFINE g == [x \in D |-> IF m[x] < k THEN f[x] ELSE G[x][f]]
  <2>3. g \in [D -> V]
    OBVIOUS
  <2>4. ASSUME NEW x \in D, m[x] < k + 1 PROVE g[x] = G[x][g]
    <3>1. \A y \in D : m[y] < m[x] => m[y] < k
      BY <2>1, <2>4
    <3>2. \A y \in D : m[y] < m[x] => f[y] = g[y]
      BY <3>1
    <3>3. G[x][f] = G[x][g]
      BY <2>3, <3>2
    <3>4. g[x] = G[x][f]
      BY <2>2
    <3> QED
      BY <3>3, <3>4
  <2> HIDE DEF g
  <2> QED
    BY <2>1, <2>3, <2>4
<1>3. bound + 1 \in K
  <2>1. K \in SUBSET Nat /\ bound + 1 \in Nat
    OBVIOUS
  <2> HIDE DEF K, Recurses
  <2> QED
    BY <1>1, <1>2, <2>1, SuccessorInduction
<1>4. PICK f \in [D -> V] : Solves(f, bound + 1)
  BY <1>3
<1>5. \A x \in D : m[x] < bound + 1
  OBVIOUS
<1> QED
  BY <1>4, <1>5

\* There is only one such function.
LEMMA RecursionUnique ==
  ASSUME NEW D, NEW m \in [D -> Nat], NEW f, NEW g,
         \A x \in D : (\A y \in D : m[y] < m[x] => f[y] = g[y]) => f[x] = g[x]
  PROVE  \A x \in D : f[x] = g[x]
<1> DEFINE Q == {x \in D : f[x] = g[x]}
<1>1. \A x \in D : (\A y \in D : m[y] < m[x] => y \in Q) => x \in Q
  OBVIOUS
<1>2. D \subseteq Q
  <2> HIDE DEF Q
  <2> QED
    BY <1>1, MeasureInduction
<1> QED
  BY <1>2

-----------------------------------------------------------------------------
\* The measure of a list: a list of children has less nodes from its first one on, by their
\* identifiers, than one with their parent; and the rest of a list has less nodes.
From(S) == {n \in Nodes : \E k \in S : k <= n}
Size == Cardinality(Nodes) + 1
Measure == [S \in SUBSET Nodes |-> Cardinality(From(S)) * Size + Cardinality(S)]
Bound == Size * Size + Size

LEMMA Multiples ==
  ASSUME NEW a \in Nat, NEW b \in Nat, NEW c \in Nat, a <= b
  PROVE  a * c <= b * c /\ a * c \in Nat /\ b * c \in Nat
  OBVIOUS

LEMMA NextMultiple ==
  ASSUME NEW a \in Nat, NEW b \in Nat, NEW c \in Nat, a < b
  PROVE  a * c + c <= b * c
<1>1. (a + 1) * c <= b * c
  BY Multiples
<1>2. (a + 1) * c = a * c + c
  OBVIOUS
<1> QED
  BY <1>1, <1>2

LEMMA SizesOfLists ==
  ASSUME NEW S \in SUBSET Nodes
  PROVE  /\ Size \in Nat
         /\ IsFiniteSet(S) /\ Cardinality(S) \in Nat /\ Cardinality(S) < Size
         /\ IsFiniteSet(From(S)) /\ Cardinality(From(S)) \in Nat /\ Cardinality(From(S)) < Size
<1>1. IsFiniteSet(Nodes) /\ Cardinality(Nodes) \in Nat
  BY ReportAssumption, FS_CardinalityType
<1>2. From(S) \subseteq Nodes
  BY DEF From
<1>3. /\ IsFiniteSet(S) /\ Cardinality(S) <= Cardinality(Nodes)
      /\ IsFiniteSet(From(S)) /\ Cardinality(From(S)) <= Cardinality(Nodes)
  BY <1>1, <1>2, FS_Subset
<1>4. Cardinality(S) \in Nat /\ Cardinality(From(S)) \in Nat
  BY <1>3, FS_CardinalityType
<1> QED
  BY <1>1, <1>3, <1>4 DEF Size

LEMMA MeasureTyped == Bound \in Nat /\ Measure \in [SUBSET Nodes -> 0..Bound]
<1>1. Size \in Nat
  BY SizesOfLists
<1>2. Size * Size \in Nat
  BY <1>1, Multiples
<1>3. Bound \in Nat
  BY <1>1, <1>2 DEF Bound
<1>4. ASSUME NEW S \in SUBSET Nodes
      PROVE  Cardinality(From(S)) * Size + Cardinality(S) \in 0..Bound
  <2> DEFINE a == Cardinality(From(S))
             b == Cardinality(S)
  <2>1. a \in Nat /\ a <= Size /\ b \in Nat /\ b <= Size
    BY <1>1, SizesOfLists
  <2>2. a * Size <= Size * Size /\ a * Size \in Nat
    BY <1>1, <2>1, Multiples
  <2> HIDE DEF a, b
  <2>3. a * Size + b \in 0..Bound
    BY <1>1, <1>2, <2>1, <2>2 DEF Bound
  <2> QED
    BY <2>3 DEF a, b
<1> QED
  BY <1>3, <1>4 DEF Measure

LEMMA RestIsLess ==
  ASSUME NEW S \in SUBSET Nodes, NEW n \in S
  PROVE  Measure[S \ {n}] < Measure[S]
<1>1. /\ IsFiniteSet(S) /\ Size \in Nat
      /\ Cardinality(From(S)) \in Nat /\ Cardinality(From(S \ {n})) \in Nat
      /\ Cardinality(S) \in Nat /\ Cardinality(S \ {n}) \in Nat
  BY SizesOfLists
<1>2. Cardinality(S \ {n}) = Cardinality(S) - 1
  BY <1>1, FS_RemoveElement
<1>3. From(S \ {n}) \subseteq From(S) /\ IsFiniteSet(From(S))
  BY SizesOfLists DEF From
<1>4. Cardinality(From(S \ {n})) <= Cardinality(From(S))
  BY <1>3, FS_Subset
<1>5. Cardinality(From(S \ {n})) * Size <= Cardinality(From(S)) * Size
      /\ Cardinality(From(S \ {n})) * Size \in Nat /\ Cardinality(From(S)) * Size \in Nat
  BY <1>1, <1>4, Multiples
<1>6. Cardinality(From(S \ {n})) * Size + Cardinality(S \ {n}) < Cardinality(From(S)) * Size + Cardinality(S)
  BY <1>1, <1>2, <1>5
<1> QED
  BY <1>6 DEF Measure

LEMMA ChildrenAreLess ==
  ASSUME NEW S \in SUBSET Nodes, NEW n \in S
  PROVE  Children(n) \in SUBSET Nodes /\ Measure[Children(n)] < Measure[S]
<1>1. Children(n) \in SUBSET Nodes /\ \A c \in Children(n) : n < c
  BY ReportAssumption DEF Children
<1>2. /\ Size \in Nat
      /\ Cardinality(From(S)) \in Nat /\ Cardinality(From(Children(n))) \in Nat
      /\ Cardinality(S) \in Nat /\ Cardinality(Children(n)) \in Nat
      /\ Cardinality(Children(n)) < Size
  BY <1>1, SizesOfLists
<1>3. From(Children(n)) \subseteq From(S) /\ n \in From(S) /\ n \notin From(Children(n))
  <2>1. n \in Nat /\ Nodes \subseteq Nat
    BY ReportAssumption
  <2>2. ASSUME NEW c \in Children(n), NEW k \in Nodes, c <= k PROVE n < k /\ n <= k
    <3>1. c \in Nat /\ k \in Nat /\ n < c
      BY <1>1, <2>1
    <3> QED
      BY <2>1, <2>2, <3>1
  <2>3. n \in From(S)
    BY <2>1 DEF From
  <2>4. From(Children(n)) \subseteq From(S)
    BY <2>2 DEF From
  <2>5. n \notin From(Children(n))
    <3>1. ~(n < n)
      BY <2>1
    <3> QED
      BY <2>2, <3>1 DEF From
  <2> QED
    BY <2>3, <2>4, <2>5
<1>4. Cardinality(From(Children(n))) < Cardinality(From(S))
  <2>1. IsFiniteSet(From(S)) /\ From(Children(n)) # From(S)
    BY <1>3, SizesOfLists
  <2>2. Cardinality(From(Children(n))) <= Cardinality(From(S))
        /\ Cardinality(From(Children(n))) # Cardinality(From(S))
    BY <1>3, <2>1, FS_Subset
  <2> QED
    BY <1>2, <2>2
<1>5. Cardinality(From(Children(n))) * Size + Size <= Cardinality(From(S)) * Size
  BY <1>2, <1>4, NextMultiple
<1>6. Cardinality(From(Children(n))) * Size \in Nat /\ Cardinality(From(S)) * Size \in Nat
  BY <1>2, <1>4, Multiples
<1>7. Cardinality(From(Children(n))) * Size + Cardinality(Children(n))
        < Cardinality(From(S)) * Size + Cardinality(S)
  BY <1>2, <1>5, <1>6
<1> QED
  BY <1>1, <1>7 DEF Measure

\* A list that is not empty has a first node.
LEMMA FirstIsThere ==
  ASSUME NEW S \in SUBSET Nodes, S # {}, NEW order \in Orders
  PROVE  First(S, order) \in S
<1>1. order \in [Nodes -> Nat]
  <2>1. PICK p \in [Roots -> Roots] : order = [n \in Nodes |-> IF n \in Roots THEN p[n] ELSE n]
    BY DEF Orders
  <2>2. ASSUME NEW n \in Nodes PROVE (IF n \in Roots THEN p[n] ELSE n) \in Nat
    <3>1. Roots \subseteq Nat /\ n \in Nat
      BY ReportAssumption
    <3> QED
      BY <3>1
  <2> QED
    BY <2>1, <2>2
<1> DEFINE T == {order[n] : n \in S}
<1>2. T \in SUBSET Nat /\ T # {}
  BY <1>1
<1>4. PICK k \in T : \A l \in T : k <= l
  BY <1>2, LeastNatural
<1>3. \E n \in S : \A m \in S : order[n] <= order[m]
  BY <1>4
<1> QED
  BY <1>3 DEF First

-----------------------------------------------------------------------------
\* The recursions of the reports have solutions, and their equations hold.

EndStep(order, S, f) ==
  [latest \in Nat |->
     LET n == First(S, order)
         own == IF endedAt[n] > latest THEN endedAt[n] ELSE latest
     IN IF S = {} THEN latest
        ELSE IF ~Ended(n) THEN 0
        ELSE f[S \ {n}][f[Children(n)][own]]]

LEMMA EndRecursion ==
  ASSUME NEW order \in Orders, endedAt \in [Nodes -> Nat]
  PROVE  /\ RecurseChildren(order) \in [SUBSET Nodes -> [Nat -> Nat]]
         /\ \A S \in SUBSET Nodes : RecurseChildren(order)[S] = EndStep(order, S, RecurseChildren(order))
<1> DEFINE V == [Nat -> Nat]
           D == SUBSET Nodes
           G == [S \in D |-> [f \in [D -> V] |-> EndStep(order, S, f)]]
<1>1. V # {}
  <2>1. [x \in Nat |-> x] \in V
    OBVIOUS
  <2> QED
    BY <2>1
<1>2. ASSUME NEW S \in D, NEW f \in [D -> V] PROVE EndStep(order, S, f) \in V
  <2> SUFFICES ASSUME NEW latest \in Nat PROVE EndStep(order, S, f)[latest] \in Nat
    BY DEF EndStep
  <2>1. CASE S = {}
    BY <2>1 DEF EndStep
  <2>2. CASE S # {}
    <3> DEFINE n == First(S, order)
               own == IF endedAt[n] > latest THEN endedAt[n] ELSE latest
    <3>1. n \in S /\ S \ {n} \in D /\ Children(n) \in D
      BY <2>2, FirstIsThere DEF Children
    <3>2. own \in Nat
      BY <3>1
    <3>3. f[Children(n)][own] \in Nat
      BY <3>1, <3>2
    <3>4. f[S \ {n}][f[Children(n)][own]] \in Nat
      BY <3>1, <3>3
    <3>5. EndStep(order, S, f)[latest] = IF ~Ended(n) THEN 0 ELSE f[S \ {n}][f[Children(n)][own]]
      BY <2>2 DEF EndStep
    <3> QED
      BY <3>4, <3>5
  <2> QED
    BY <2>1, <2>2
<1>3. ASSUME NEW S \in D, NEW f, NEW g,
             \A T \in D : Measure[T] < Measure[S] => f[T] = g[T]
      PROVE  EndStep(order, S, f) = EndStep(order, S, g)
  <2>1. CASE S = {}
    BY <2>1 DEF EndStep
  <2>2. CASE S # {}
    <3>1. First(S, order) \in S
      BY <2>2, FirstIsThere
    <3>2. /\ f[S \ {First(S, order)}] = g[S \ {First(S, order)}]
          /\ f[Children(First(S, order))] = g[Children(First(S, order))]
      BY <1>3, <3>1, RestIsLess, ChildrenAreLess
    <3> QED
      BY <3>2 DEF EndStep
  <2> QED
    BY <2>1, <2>2
<1>4. Recurses(D, V, G, Measure, Bound)
  <2>1. G \in [D -> [[D -> V] -> V]]
    BY <1>2
  <2>2. ASSUME NEW S \in D, NEW f \in [D -> V], NEW g \in [D -> V],
               \A T \in D : Measure[T] < Measure[S] => f[T] = g[T]
        PROVE  G[S][f] = G[S][g]
    <3>1. EndStep(order, S, f) = EndStep(order, S, g)
      BY <1>3, <2>2
    <3> HIDE DEF D, V
    <3> QED
      BY <3>1
  <2>3. Bound \in Nat /\ Measure \in [D -> 0..Bound]
    BY MeasureTyped
  <2> HIDE DEF G, D, V
  <2> QED
    BY <1>1, <2>1, <2>2, <2>3 DEF Recurses
<1> HIDE DEF V
<1>5. PICK f \in [D -> V] : \A S \in D : f[S] = G[S][f]
  <2> HIDE DEF G, D
  <2> QED
    BY <1>4, RecursionExists
<1>6. f = [S \in D |-> EndStep(order, S, f)]
  BY <1>5
<1> DEFINE R == RecurseChildren(order)
<1>7. R = [S \in D |-> EndStep(order, S, R)]
  BY <1>6 DEF RecurseChildren, EndStep
<1>8. \A S \in D : R[S] = f[S]
  <2> HIDE DEF D, R
  <2>1. ASSUME NEW S \in D, \A T \in D : Measure[T] < Measure[S] => R[T] = f[T]
        PROVE  R[S] = f[S]
    BY <1>3, <1>6, <1>7, <2>1
  <2>2. Measure \in [D -> Nat]
    BY MeasureTyped DEF D
  <2> QED
    BY <2>1, <2>2, RecursionUnique
<1>9. R \in [D -> V]
  BY <1>5, <1>7, <1>8
<1> QED
  BY <1>7, <1>9 DEF V

VisitStep(order, S, f) ==
  [known \in SUBSET Nodes |->
     LET n == First(S, order)
     IN IF S = {} THEN known
        ELSE IF n \in known THEN f[S \ {n}][known]
        ELSE f[S \ {n}][f[Children(n)][known \cup {n}]]]

LEMMA VisitRecursion ==
  ASSUME NEW order \in Orders
  PROVE  /\ ParseChildrenStatus(order) \in [SUBSET Nodes -> [SUBSET Nodes -> SUBSET Nodes]]
         /\ \A S \in SUBSET Nodes :
              ParseChildrenStatus(order)[S] = VisitStep(order, S, ParseChildrenStatus(order))
<1> DEFINE V == [SUBSET Nodes -> SUBSET Nodes]
           D == SUBSET Nodes
           G == [S \in D |-> [f \in [D -> V] |-> VisitStep(order, S, f)]]
<1>1. V # {}
  <2>1. [x \in SUBSET Nodes |-> x] \in V
    OBVIOUS
  <2> QED
    BY <2>1
<1>2. ASSUME NEW S \in D, NEW f \in [D -> V] PROVE VisitStep(order, S, f) \in V
  <2> SUFFICES ASSUME NEW known \in SUBSET Nodes
               PROVE  VisitStep(order, S, f)[known] \in SUBSET Nodes
    BY DEF VisitStep
  <2>1. CASE S = {}
    BY <2>1 DEF VisitStep
  <2>2. CASE S # {}
    <3> DEFINE n == First(S, order)
    <3>1. n \in Nodes /\ S \ {n} \in D /\ Children(n) \in D /\ known \cup {n} \in SUBSET Nodes
      BY <2>2, FirstIsThere DEF Children
    <3>2. VisitStep(order, S, f)[known] =
            IF n \in known THEN f[S \ {n}][known] ELSE f[S \ {n}][f[Children(n)][known \cup {n}]]
      BY <2>2 DEF VisitStep
    <3> HIDE DEF n
    <3>3. f[S \ {n}][known] \in SUBSET Nodes
      BY <3>1
    <3>4. f[Children(n)][known \cup {n}] \in SUBSET Nodes
      BY <3>1
    <3>5. f[S \ {n}][f[Children(n)][known \cup {n}]] \in SUBSET Nodes
      BY <3>1, <3>4
    <3> QED
      BY <3>2, <3>3, <3>5
  <2> QED
    BY <2>1, <2>2
<1>3. ASSUME NEW S \in D, NEW f, NEW g,
             \A T \in D : Measure[T] < Measure[S] => f[T] = g[T]
      PROVE  VisitStep(order, S, f) = VisitStep(order, S, g)
  <2>1. CASE S = {}
    BY <2>1 DEF VisitStep
  <2>2. CASE S # {}
    <3>1. First(S, order) \in S
      BY <2>2, FirstIsThere
    <3>2. /\ f[S \ {First(S, order)}] = g[S \ {First(S, order)}]
          /\ f[Children(First(S, order))] = g[Children(First(S, order))]
      BY <1>3, <3>1, RestIsLess, ChildrenAreLess
    <3> QED
      BY <3>2 DEF VisitStep
  <2> QED
    BY <2>1, <2>2
<1>4. Recurses(D, V, G, Measure, Bound)
  <2>1. G \in [D -> [[D -> V] -> V]]
    BY <1>2
  <2>2. ASSUME NEW S \in D, NEW f \in [D -> V], NEW g \in [D -> V],
               \A T \in D : Measure[T] < Measure[S] => f[T] = g[T]
        PROVE  G[S][f] = G[S][g]
    <3>1. VisitStep(order, S, f) = VisitStep(order, S, g)
      BY <1>3, <2>2
    <3> HIDE DEF D, V
    <3> QED
      BY <3>1
  <2>3. Bound \in Nat /\ Measure \in [D -> 0..Bound]
    BY MeasureTyped
  <2> HIDE DEF G, D, V
  <2> QED
    BY <1>1, <2>1, <2>2, <2>3 DEF Recurses
<1> HIDE DEF V
<1>5. PICK f \in [D -> V] : \A S \in D : f[S] = G[S][f]
  <2> HIDE DEF G, D
  <2> QED
    BY <1>4, RecursionExists
<1>6. f = [S \in D |-> VisitStep(order, S, f)]
  BY <1>5
<1> DEFINE R == ParseChildrenStatus(order)
<1>7. R = [S \in D |-> VisitStep(order, S, R)]
  BY <1>6 DEF ParseChildrenStatus, VisitStep
<1>8. \A S \in D : R[S] = f[S]
  <2> HIDE DEF D, R
  <2>1. ASSUME NEW S \in D, \A T \in D : Measure[T] < Measure[S] => R[T] = f[T]
        PROVE  R[S] = f[S]
    BY <1>3, <1>6, <1>7, <2>1
  <2>2. Measure \in [D -> Nat]
    BY MeasureTyped DEF D
  <2> QED
    BY <2>1, <2>2, RecursionUnique
<1>9. R \in [D -> V]
  BY <1>5, <1>7, <1>8
<1> QED
  BY <1>7, <1>9 DEF V

\* The recursions over single nodes: the nodes from one on are fewer for its children.
Height == [n \in Nodes |-> Cardinality(From({n}))]

LEMMA HeightTyped == Size \in Nat /\ Height \in [Nodes -> 0..Size]
<1>1. ASSUME NEW n \in Nodes
      PROVE  Size \in Nat /\ Cardinality(From({n})) \in 0..Size
  <2>1. {n} \in SUBSET Nodes
    OBVIOUS
  <2> QED
    BY <2>1, SizesOfLists
<1>2. Size \in Nat
  <2>1. {} \in SUBSET Nodes
    OBVIOUS
  <2> QED
    BY <2>1, SizesOfLists
<1> QED
  BY <1>1, <1>2 DEF Height

LEMMA ChildIsLess ==
  ASSUME NEW n \in Nodes, NEW c \in Children(n)
  PROVE  c \in Nodes /\ Height[c] < Height[n]
<1>1. c \in Nodes /\ n < c /\ Nodes \subseteq Nat
  BY ReportAssumption DEF Children
<1>2. From({c}) \subseteq From({n}) /\ n \in From({n}) /\ n \notin From({c})
  <2>1. n \in Nat /\ c \in Nat
    BY <1>1
  <2>2. \A k \in Nodes : c <= k => n <= k
    BY <1>1, <2>1
  <2>3. n <= n /\ ~(c <= n)
    BY <1>1, <2>1
  <2> QED
    BY <2>2, <2>3 DEF From
<1>3. IsFiniteSet(From({n})) /\ Cardinality(From({n})) \in Nat /\ Cardinality(From({c})) \in Nat
  <2>1. {n} \in SUBSET Nodes /\ {c} \in SUBSET Nodes
    BY <1>1
  <2> QED
    BY <2>1, SizesOfLists
<1>4. Cardinality(From({c})) <= Cardinality(From({n})) /\ Cardinality(From({c})) # Cardinality(From({n}))
  BY <1>2, <1>3, FS_Subset
<1> QED
  BY <1>1, <1>3, <1>4 DEF Height

LEMMA FinishedRecursion ==
  \A n \in Nodes : finished[n] <=> Ended(n) /\ \A c \in Children(n) : finished[c]
<1> DEFINE G == [n \in Nodes |-> [f \in [Nodes -> BOOLEAN] |->
                   Ended(n) /\ \A c \in Children(n) : f[c]]]
<1>1. Recurses(Nodes, BOOLEAN, G, Height, Size)
  <2>1. G \in [Nodes -> [[Nodes -> BOOLEAN] -> BOOLEAN]]
    BY DEF Ended
  <2>2. \A n \in Nodes : \A f, g \in [Nodes -> BOOLEAN] :
          (\A m \in Nodes : Height[m] < Height[n] => f[m] = g[m]) => G[n][f] = G[n][g]
    BY ChildIsLess
  <2> HIDE DEF G
  <2> QED
    BY <2>1, <2>2, HeightTyped DEF Recurses
<1>2. PICK f \in [Nodes -> BOOLEAN] : \A n \in Nodes : f[n] = G[n][f]
  <2> HIDE DEF G
  <2> QED
    BY <1>1, RecursionExists
<1>3. f = [n \in Nodes |-> Ended(n) /\ \A c \in Children(n) : f[c]]
  BY <1>2
<1>4. finished = [n \in Nodes |-> Ended(n) /\ \A c \in Children(n) : finished[c]]
  BY <1>3 DEF finished
<1> QED
  BY <1>4

LEMMA LeafOutputsRecursion ==
  \A n \in Nodes :
    /\ leafOutputs[n] = IF Children(n) = {} THEN {n} \cap output
                        ELSE UNION {leafOutputs[c] : c \in Children(n)}
    /\ leafOutputs[n] \subseteq Nodes
<1> DEFINE V == SUBSET Nodes
           LeafStep(n, f) == IF Children(n) = {} THEN {n} \cap output
                         ELSE UNION {f[c] : c \in Children(n)}
           G == [n \in Nodes |-> [f \in [Nodes -> V] |-> LeafStep(n, f)]]
<1>1. Recurses(Nodes, V, G, Height, Size)
  <2>1. G \in [Nodes -> [[Nodes -> V] -> V]]
    <3> SUFFICES ASSUME NEW n \in Nodes, NEW f \in [Nodes -> V] PROVE LeafStep(n, f) \in V
      OBVIOUS
    <3>1. \A c \in Children(n) : f[c] \in V
      BY ChildIsLess
    <3> QED
      BY <3>1
  <2>2. ASSUME NEW n \in Nodes, NEW f \in [Nodes -> V], NEW g \in [Nodes -> V],
               \A m \in Nodes : Height[m] < Height[n] => f[m] = g[m]
        PROVE  G[n][f] = G[n][g]
    <3>1. \A c \in Children(n) : f[c] = g[c]
      BY <2>2, ChildIsLess
    <3>2. LeafStep(n, f) = LeafStep(n, g)
      BY <3>1
    <3> QED
      BY <3>2
  <2>3. V # {}
    OBVIOUS
  <2> HIDE DEF G, V
  <2> QED
    BY <2>1, <2>2, <2>3, HeightTyped DEF Recurses
<1>2. PICK f \in [Nodes -> V] : \A n \in Nodes : f[n] = G[n][f]
  <2> HIDE DEF G, V
  <2> QED
    BY <1>1, RecursionExists
<1>3. f = [n \in Nodes |-> LeafStep(n, f)]
  BY <1>2
<1>4. leafOutputs = [n \in Nodes |-> LeafStep(n, leafOutputs)]
  BY <1>3 DEF leafOutputs
<1>5. \A n \in Nodes : leafOutputs[n] = f[n]
  <2>1. ASSUME NEW n \in Nodes, \A m \in Nodes : Height[m] < Height[n] => leafOutputs[m] = f[m]
        PROVE  leafOutputs[n] = f[n]
    <3>1. \A c \in Children(n) : leafOutputs[c] = f[c]
      BY <2>1, ChildIsLess
    <3>2. LeafStep(n, leafOutputs) = LeafStep(n, f)
      BY <3>1
    <3> QED
      BY <1>3, <1>4, <3>2
  <2>2. Height \in [Nodes -> Nat]
    BY HeightTyped
  <2> QED
    BY <2>1, <2>2, RecursionUnique
<1> QED
  BY <1>4, <1>5

-----------------------------------------------------------------------------
\* What the reports compute of any list of nodes.

Closed(T) == \A e \in Edges : e[1] \in T => e[2] \in T

\* The nodes collected are those known before, those listed and, of each one that is new,
\* its children.
LEMMA StatusesCollected ==
  ASSUME NEW order \in Orders, NEW S \in SUBSET Nodes, NEW known \in SUBSET Nodes
  PROVE  LET collected == ParseChildrenStatus(order)[S][known]
         IN /\ known \subseteq collected /\ S \subseteq collected /\ collected \subseteq Nodes
            /\ \A e \in Edges : e[1] \in collected \ known => e[2] \in collected
<1> DEFINE D == SUBSET Nodes
           R == ParseChildrenStatus(order)
           Good(T, k) == /\ k \subseteq R[T][k] /\ T \subseteq R[T][k] /\ R[T][k] \in D
                         /\ \A e \in Edges : e[1] \in R[T][k] \ k => e[2] \in R[T][k]
           Q == {T \in D : \A k \in D : Good(T, k)}
<1>1. \A T \in D, k \in D :
        R[T][k] = LET n == First(T, order)
                  IN IF T = {} THEN k
                     ELSE IF n \in k THEN R[T \ {n}][k]
                     ELSE R[T \ {n}][R[Children(n)][k \cup {n}]]
  <2> HIDE DEF R
  <2>1. \A T \in D : R[T] = VisitStep(order, T, R)
    BY VisitRecursion DEF R
  <2> SUFFICES ASSUME NEW T \in D, NEW k \in D
               PROVE  R[T][k] = LET n == First(T, order)
                                IN IF T = {} THEN k
                                   ELSE IF n \in k THEN R[T \ {n}][k]
                                   ELSE R[T \ {n}][R[Children(n)][k \cup {n}]]
    OBVIOUS
  <2>2. R[T][k] = VisitStep(order, T, R)[k]
    BY <2>1
  <2> QED
    BY <2>2 DEF VisitStep
<1> HIDE DEF R
<1>2. ASSUME NEW T \in D, \A U \in D : Measure[U] < Measure[T] => U \in Q, NEW k \in D
      PROVE  Good(T, k)
  <2>1. CASE T = {}
    <3>1. R[T][k] = k
      BY <1>1, <2>1
    <3> QED
      BY <2>1, <3>1
  <2>2. CASE T # {}
    <3> DEFINE n == First(T, order)
    <3>1. n \in T /\ n \in Nodes /\ T \ {n} \in D /\ Children(n) \in D
      BY <2>2, FirstIsThere DEF Children
    <3>2. R[T][k] = IF n \in k THEN R[T \ {n}][k] ELSE R[T \ {n}][R[Children(n)][k \cup {n}]]
      BY <1>1, <2>2
    <3>3. T \ {n} \in Q /\ Children(n) \in Q
      BY <1>2, <3>1, RestIsLess, ChildrenAreLess
    <3> HIDE DEF n
    <3>4. CASE n \in k
      <4>1. Good(T \ {n}, k) /\ R[T][k] = R[T \ {n}][k]
        BY <3>2, <3>3, <3>4
      <4> QED
        BY <3>4, <4>1
    <3>5. CASE n \notin k
      <4> DEFINE M == R[Children(n)][k \cup {n}]
                 A == R[T][k]
      <4>1. k \cup {n} \in D
        BY <3>1
      <4>2. Good(Children(n), k \cup {n})
        BY <3>3, <4>1
      <4>3. M \in D
        BY <4>2
      <4>4. Good(T \ {n}, M)
        BY <3>3, <4>3
      <4>5. A = R[T \ {n}][M]
        BY <3>2, <3>5
      <4>6. /\ k \cup {n} \subseteq M /\ Children(n) \subseteq M
            /\ \A e \in Edges : e[1] \in M \ (k \cup {n}) => e[2] \in M
        BY <4>2
      <4>7. /\ M \subseteq A /\ T \ {n} \subseteq A /\ A \in D
            /\ \A e \in Edges : e[1] \in A \ M => e[2] \in A
        BY <4>4, <4>5
      <4>8. \A e \in Edges : e[1] = n => e[2] \in Children(n)
        BY ReportAssumption DEF Children
      <4> HIDE DEF M, A
      <4>9. /\ k \subseteq A /\ T \subseteq A /\ A \in D
            /\ \A e \in Edges : e[1] \in A \ k => e[2] \in A
        BY <4>6, <4>7, <4>8
      <4> QED
        BY <4>9 DEF A
    <3> QED
      BY <3>4, <3>5
  <2> QED
    BY <2>1, <2>2
<1>3. D \subseteq Q
  <2>1. ASSUME NEW T \in D, \A U \in D : Measure[U] < Measure[T] => U \in Q PROVE T \in Q
    BY <1>2, <2>1
  <2>2. Measure \in [D -> Nat]
    BY MeasureTyped
  <2> HIDE DEF Q, D
  <2> QED
    BY <2>1, <2>2, MeasureInduction
<1> QED
  BY <1>3 DEF R

\* Of nodes that have all ended, the end reported is the latest one met so far, or later
\* and the end of a node, and no node below those listed ended after it.
LEMMA EndsReported ==
  ASSUME NEW order \in Orders, endedAt \in [Nodes -> Nat], \A n \in Nodes : Ended(n),
         NEW S \in SUBSET Nodes, NEW latest \in Nat
  PROVE  LET end == RecurseChildren(order)[S][latest]
         IN /\ end \in Nat /\ latest <= end
            /\ end # latest => \E n \in Nodes : end = endedAt[n]
            /\ \E T \in SUBSET Nodes :
                 S \subseteq T /\ Closed(T) /\ \A n \in T : endedAt[n] <= end
<1> DEFINE D == SUBSET Nodes
           R == RecurseChildren(order)
           Good(U, t) ==
             /\ R[U][t] \in Nat /\ t <= R[U][t]
             /\ R[U][t] # t => \E n \in Nodes : R[U][t] = endedAt[n]
             /\ \E T \in D : U \subseteq T /\ Closed(T) /\ \A n \in T : endedAt[n] <= R[U][t]
           Q == {U \in D : \A t \in Nat : Good(U, t)}
<1>1. \A U \in D, t \in Nat :
        R[U][t] = LET n == First(U, order)
                      own == IF endedAt[n] > t THEN endedAt[n] ELSE t
                  IN IF U = {} THEN t
                     ELSE IF ~Ended(n) THEN 0
                     ELSE R[U \ {n}][R[Children(n)][own]]
  <2> HIDE DEF R
  <2>1. \A U \in D : R[U] = EndStep(order, U, R)
    BY EndRecursion DEF R
  <2> SUFFICES ASSUME NEW U \in D, NEW t \in Nat
               PROVE  R[U][t] = LET n == First(U, order)
                                    own == IF endedAt[n] > t THEN endedAt[n] ELSE t
                                IN IF U = {} THEN t
                                   ELSE IF ~Ended(n) THEN 0
                                   ELSE R[U \ {n}][R[Children(n)][own]]
    OBVIOUS
  <2>2. R[U][t] = EndStep(order, U, R)[t]
    BY <2>1
  <2> QED
    BY <2>2 DEF EndStep
<1> HIDE DEF R
<1>2. ASSUME NEW U \in D, \A W \in D : Measure[W] < Measure[U] => W \in Q, NEW t \in Nat
      PROVE  Good(U, t)
  <2>1. CASE U = {}
    <3>1. R[U][t] = t
      BY <1>1, <2>1
    <3>2. {} \in D /\ U \subseteq {} /\ Closed({})
      BY <2>1 DEF Closed
    <3> QED
      BY <3>1, <3>2
  <2>2. CASE U # {}
    <3> DEFINE n == First(U, order)
               own == IF endedAt[n] > t THEN endedAt[n] ELSE t
               below == R[Children(n)][own]
               end == R[U][t]
    <3>1. n \in U /\ n \in Nodes /\ U \ {n} \in D /\ Children(n) \in D
      BY <2>2, FirstIsThere DEF Children
    <3>2. end = R[U \ {n}][below]
      BY <1>1, <2>2, <3>1
    <3>3. U \ {n} \in Q /\ Children(n) \in Q
      BY <1>2, <3>1, RestIsLess, ChildrenAreLess
    <3>4. /\ own \in Nat /\ t <= own /\ endedAt[n] <= own
          /\ own # t => own = endedAt[n]
      BY <3>1
    <3> HIDE DEF n, own
    <3>5. Good(Children(n), own)
      BY <3>3, <3>4
    <3>6. below \in Nat
      BY <3>5
    <3>7. Good(U \ {n}, below)
      BY <3>3, <3>6
    <3>8. PICK T1 \in D : /\ Children(n) \subseteq T1 /\ Closed(T1)
                          /\ \A m \in T1 : endedAt[m] <= below
      BY <3>5
    <3>9. PICK T2 \in D : /\ U \ {n} \subseteq T2 /\ Closed(T2)
                          /\ \A m \in T2 : endedAt[m] <= end
      BY <3>2, <3>7
    <3>10. /\ own <= below /\ (below # own => \E m \in Nodes : below = endedAt[m])
      BY <3>5
    <3>11. /\ end \in Nat /\ below <= end /\ (end # below => \E m \in Nodes : end = endedAt[m])
      BY <3>2, <3>7
    <3> HIDE DEF below, end
    <3>12. t <= end /\ own <= end
      BY <3>4, <3>6, <3>10, <3>11
    <3>13. end # t => \E m \in Nodes : end = endedAt[m]
      BY <3>1, <3>4, <3>10, <3>11
    <3> DEFINE T == T1 \cup T2 \cup {n}
    <3>14. T \in D /\ U \subseteq T
      BY <3>1, <3>9
    <3>15. Closed(T)
      <4>1. \A e \in Edges : e[1] = n => e[2] \in Children(n)
        BY ReportAssumption DEF Children
      <4> QED
        BY <3>8, <3>9, <4>1 DEF Closed
    <3>16. ASSUME NEW m \in T PROVE endedAt[m] <= end
      <4>1. endedAt[m] \in Nat
        BY <3>14
      <4>2. CASE m \in T1
        BY <3>6, <3>8, <3>11, <4>1, <4>2
      <4>3. CASE m \in T2
        BY <3>9, <4>3
      <4>4. CASE m = n
        BY <3>4, <3>11, <3>12, <4>1, <4>4
      <4> QED
        BY <4>2, <4>3, <4>4
    <3> HIDE DEF T
    <3> QED
      BY <3>11, <3>12, <3>13, <3>14, <3>15, <3>16 DEF end
  <2> QED
    BY <2>1, <2>2
<1>3. D \subseteq Q
  <2>1. ASSUME NEW U \in D, \A W \in D : Measure[W] < Measure[U] => W \in Q PROVE U \in Q
    BY <1>2, <2>1
  <2>2. Measure \in [D -> Nat]
    BY MeasureTyped
  <2> HIDE DEF Q, D
  <2> QED
    BY <2>1, <2>2, MeasureInduction
<1> QED
  BY <1>3 DEF R

-----------------------------------------------------------------------------
\* What the reports of a whole graph come to.

LEMMA AllBelowRoots ==
  ASSUME NEW T \in SUBSET Nodes, Roots \subseteq T, Closed(T)
  PROVE  T = Nodes
BY ReportAssumption DEF Closed

\* Each node is counted once (ShareExact).
LEMMA EachCountedOnce == ShareExact
<1> SUFFICES ASSUME NEW order \in Orders
             PROVE  ChildStatusesToList(Roots, order) =
                      <<Cardinality({n \in Nodes : Ended(n)}), Cardinality(Nodes)>>
  BY DEF ShareExact
<1> DEFINE known == ParseChildrenStatus(order)[Roots][{}]
<1>1. Roots \in SUBSET Nodes /\ {} \in SUBSET Nodes
  BY ReportAssumption
<1>2. /\ Roots \subseteq known /\ known \subseteq Nodes
      /\ \A e \in Edges : e[1] \in known \ {} => e[2] \in known
  BY <1>1, StatusesCollected
<1>3. known = Nodes
  <2> HIDE DEF known
  <2> QED
    BY <1>2, AllBelowRoots DEF Closed
<1> QED
  BY <1>3 DEF ChildStatusesToList

\* No root was begun twice.
RootsOnce == \A r \in Roots : begins[r] <= 1

\* When a node was begun so was a root, and as long as no root was begun twice one of them
\* not after the node.
StartsAtRoots ==
  \A n \in Nodes :
    startedAt[n] # 0 =>
      /\ \E r \in Roots : startedAt[r] # 0
      /\ RootsOnce => \E r \in Roots : startedAt[r] # 0 /\ startedAt[r] <= startedAt[n]

LEMMA StartReported ==
  ASSUME startedAt \in [Nodes -> Nat], StartsAtRoots
  PROVE  LET begun == {startedAt[n] : n \in Nodes} \ {0}
             start == GetDagStartTime(Roots)
         IN /\ IF begun = {} THEN start = 0 ELSE start \in begun
            /\ RootsOnce => \A t \in begun : start <= t
<1> DEFINE begun == {startedAt[n] : n \in Nodes} \ {0}
           started == {startedAt[n] : n \in Roots} \ {0}
           start == GetDagStartTime(Roots)
<1>1. Roots \subseteq Nodes
  BY ReportAssumption
<1>2. started \subseteq begun /\ begun \subseteq Nat
  BY <1>1
<1>3. CASE begun = {}
  <2>1. started = {}
    BY <1>2, <1>3
  <2>2. start = 0
    BY <2>1 DEF GetDagStartTime
  <2> QED
    BY <1>3, <2>2
<1>4. CASE begun # {}
  <2>1. RootsOnce => \A t \in begun : \E u \in started : u <= t
    BY <1>1 DEF StartsAtRoots
  <2>2. started # {} /\ started \in SUBSET Nat
    <3>1. PICK n \in Nodes : startedAt[n] # 0
      BY <1>4
    <3>2. PICK r \in Roots : startedAt[r] # 0
      BY <3>1 DEF StartsAtRoots
    <3> QED
      BY <1>2, <3>2
  <2>3. start = Min(started)
    BY <2>2 DEF GetDagStartTime
  <2> HIDE DEF started, begun
  <2>4. \E u \in started : \A v \in started : u <= v
    BY <2>2, LeastNatural
  <2>5. start \in started /\ \A v \in started : start <= v
    BY <2>3, <2>4 DEF Min
  <2>6. ASSUME RootsOnce, NEW t \in begun PROVE start <= t
    <3>1. PICK u \in started : u <= t
      BY <2>1, <2>6
    <3>2. start <= u /\ start \in Nat /\ u \in Nat /\ t \in Nat
      BY <1>2, <2>5
    <3> QED
      BY <3>1, <3>2
  <2>7. start \in begun
    BY <1>2, <2>5
  <2> QED
    BY <1>4, <2>6, <2>7 DEF begun
<1> QED
  BY <1>3, <1>4

LEMMA EndReported ==
  ASSUME endedAt \in [Nodes -> Nat], \A n \in Nodes : Ended(n), NEW order \in Orders
  PROVE  LET ended == {endedAt[n] : n \in Nodes}
             end == GetEndTimeIfDagComplete(Roots, order)
         IN end \in ended /\ \A t \in ended : t <= end
<1> DEFINE end == RecurseChildren(order)[Roots][0]
<1>1. Roots \in SUBSET Nodes /\ 0 \in Nat /\ Roots # {}
  BY ReportAssumption
<1>2. /\ end \in Nat /\ (end # 0 => \E n \in Nodes : end = endedAt[n])
      /\ \E T \in SUBSET Nodes : Roots \subseteq T /\ Closed(T) /\ \A n \in T : endedAt[n] <= end
  BY <1>1, EndsReported
<1> HIDE DEF end
<1>3. \A n \in Nodes : endedAt[n] <= end
  BY <1>2, AllBelowRoots
<1>4. end # 0
  <2>1. PICK r \in Nodes : endedAt[r] # 0
    BY <1>1 DEF Ended
  <2>2. endedAt[r] \in Nat /\ endedAt[r] <= end
    BY <1>3
  <2> QED
    BY <1>2, <2>1, <2>2
<1>5. end = GetEndTimeIfDagComplete(Roots, order)
  BY DEF GetEndTimeIfDagComplete, end
<1>6. \E n \in Nodes : end = endedAt[n]
  BY <1>2, <1>4
<1> QED
  BY <1>3, <1>5, <1>6

LEMMA TimesReported ==
  ASSUME startedAt \in [Nodes -> Nat], endedAt \in [Nodes -> Nat], StartsAtRoots
  PROVE  TimesExact
BY StartReported, EndReported DEF TimesExact, RootsOnce

\* Below a finished node all have ended.
LEMMA AllBelowFinished ==
  ASSUME NEW S \in SUBSET Nodes, AllNodesFinished(S)
  PROVE  \E T \in SUBSET Nodes : S \subseteq T /\ Closed(T) /\ \A n \in T : Ended(n)
<1> DEFINE T == {n \in Nodes : finished[n]}
<1>1. Closed(T)
  <2> SUFFICES ASSUME NEW e \in Edges, e[1] \in T PROVE e[2] \in T
    BY DEF Closed
  <2>1. e[1] \in Nodes /\ e[2] \in Nodes /\ e[2] \in Children(e[1])
    BY ReportAssumption DEF Children
  <2> QED
    BY <2>1, FinishedRecursion
<1>2. S \subseteq T
  BY DEF AllNodesFinished
<1>3. \A n \in T : Ended(n)
  BY FinishedRecursion
<1> QED
  BY <1>1, <1>2, <1>3

\* A leaf with an output is among the outputs of every node it is below.
LEMMA LeavesPutOut ==
  ASSUME NEW r \in Nodes, NEW n \in Nodes, Children(n) = {}, n \in output,
         \A S \in SUBSET Nodes : r \in S /\ Closed(S) => n \in S
  PROVE  n \in leafOutputs[r]
<1> DEFINE S == {m \in Nodes : n \notin leafOutputs[m]}
<1>1. Closed(S)
  <2> SUFFICES ASSUME NEW e \in Edges, e[1] \in S PROVE e[2] \in S
    BY DEF Closed
  <2>1. e[1] \in Nodes /\ e[2] \in Nodes /\ e[2] \in Children(e[1])
    BY ReportAssumption DEF Children
  <2>2. leafOutputs[e[2]] \subseteq leafOutputs[e[1]]
    <3>1. leafOutputs[e[1]] = UNION {leafOutputs[c] : c \in Children(e[1])}
      BY <2>1, LeafOutputsRecursion
    <3> QED
      BY <2>1, <3>1
  <2> QED
    BY <2>1, <2>2
<1>2. n \in leafOutputs[n]
  BY LeafOutputsRecursion
<1>3. n \notin S
  BY <1>2
<1> QED
  BY <1>1, <1>3

-----------------------------------------------------------------------------
\* The inductive invariant.

\* A node is begun after a root.
Clocks ==
  /\ begins \in [Nodes -> Nat] /\ running \in [Nodes -> Nat]
  /\ StartsAtRoots

\* The command begins a root once.  The roots executed have put out, and once the last
\* one's children were found finished all below it have.
Command ==
  main # "server" =>
    /\ RootsOnce
    /\ \A i \in 1..Len(rootNodes) : i < next => rootNodes[i] \in output
    /\ main = "inside" => next <= Len(rootNodes)
    /\ main \in {"poll", "print", "done"} => next = Len(rootNodes) + 1
    /\ main \in {"print", "done"} =>
         \E T \in SUBSET Nodes : Last(rootNodes) \in T /\ Closed(T) /\ T \subseteq output

IInv == RunTypeOK /\ Clocks /\ Command /\ PrintsLastRoot

LEMMA RootList ==
  ASSUME NEW s \in SetToSeqs(Roots)
  PROVE  /\ Len(s) \in Nat \ {0} /\ DOMAIN s = 1..Len(s)
         /\ \A i \in 1..Len(s) : s[i] \in Roots /\ s[i] \in Nodes
         /\ \A i, j \in 1..Len(s) : s[i] = s[j] => i = j
         /\ Last(s) = s[Len(s)] /\ Last(s) \in Roots
<1>1. Cardinality(Roots) \in Nat \ {0}
  <2>1. IsFiniteSet(Roots)
    BY ReportAssumption, FS_Subset
  <2> QED
    BY <2>1, ReportAssumption, FS_CardinalityType, FS_EmptySet
<1>2. /\ s \in [1..Cardinality(Roots) -> Roots]
      /\ \A i, j \in 1..Cardinality(Roots) : i # j => s[i] # s[j]
  BY DEF SetToSeqs
<1>3. Len(s) = Cardinality(Roots)
  BY <1>1, <1>2
<1>4. /\ Len(s) \in Nat \ {0} /\ DOMAIN s = 1..Len(s)
      /\ \A i \in 1..Len(s) : s[i] \in Roots
      /\ \A i, j \in 1..Len(s) : s[i] = s[j] => i = j
  BY <1>1, <1>2, <1>3
<1>5. Len(s) \in 1..Len(s)
  BY <1>4
<1>6. Last(s) = s[Len(s)]
  BY DEF Last
<1>7. Roots \subseteq Nodes
  BY ReportAssumption
<1> QED
  BY <1>4, <1>5, <1>6, <1>7

LEMMA BeginOK ==
  ASSUME NEW n \in Nodes, ReportTypeOK, Clocks, n \in Roots \/ MayBegin(n), Begin(n)
  PROVE  ReportTypeOK' /\ Clocks'
<1>1. /\ clock \in 1..MaxClock /\ clock \in Nat /\ MaxClock \in Nat
      /\ startedAt \in [Nodes -> 0..clock] /\ endedAt \in [Nodes -> 0..clock]
      /\ begins \in [Nodes -> Nat] /\ running \in [Nodes -> Nat]
  BY ReportAssumption DEF ReportTypeOK, Clocks
<1>2. /\ startedAt' = [startedAt EXCEPT ![n] = clock] /\ endedAt' = [endedAt EXCEPT ![n] = 0]
      /\ begins' = [begins EXCEPT ![n] = begins[n] + 1]
      /\ running' = [running EXCEPT ![n] = running[n] + 1]
      /\ output' = output /\ clock' = clock
  BY DEF Begin
<1>3. \A m \in Nodes : m # n => /\ startedAt'[m] = startedAt[m] /\ endedAt'[m] = endedAt[m]
                               /\ begins'[m] = begins[m] /\ running'[m] = running[m]
  BY <1>1, <1>2
<1>4. /\ startedAt'[n] = clock /\ endedAt'[n] = 0
      /\ begins'[n] = begins[n] + 1 /\ running'[n] = running[n] + 1
  BY <1>1, <1>2
<1>5. ReportTypeOK'
  <2>1. startedAt' \in [Nodes -> 0..clock'] /\ endedAt' \in [Nodes -> 0..clock'] /\ clock' \in 1..MaxClock
    BY <1>1, <1>2
  <2>2. ASSUME NEW m \in Nodes
        PROVE  /\ running'[m] \in 0..begins'[m]
               /\ startedAt'[m] = 0 <=> begins'[m] = 0
               /\ endedAt'[m] # 0 => startedAt'[m] # 0 /\ m \in output'
    <3>1. /\ running[m] \in 0..begins[m] /\ running[m] \in Nat /\ begins[m] \in Nat
          /\ startedAt[m] = 0 <=> begins[m] = 0
          /\ endedAt[m] # 0 => startedAt[m] # 0 /\ m \in output
      BY <1>1 DEF ReportTypeOK, Ended
    <3>2. CASE m = n
      BY <1>1, <1>4, <3>1, <3>2
    <3>3. CASE m # n
      BY <1>2, <1>3, <3>1, <3>3
    <3> QED
      BY <3>2, <3>3
  <2> QED
    BY <2>1, <2>2 DEF ReportTypeOK, Ended
<1>6. n \notin Roots => \E p \in Nodes : startedAt[p] # 0
  <2> SUFFICES ASSUME n \notin Roots PROVE \E p \in Nodes : startedAt[p] # 0
    OBVIOUS
  <2>1. PICK p \in Parents(n) : begins[p] - running[p] > 0
    BY DEF MayBegin
  <2>2. p \in Nodes /\ begins[p] \in Nat /\ running[p] \in Nat
    BY <1>1, <2>1 DEF Parents
  <2>3. begins[p] # 0
    BY <2>1, <2>2
  <2> QED
    BY <2>2, <2>3 DEF ReportTypeOK
<1>7. RootsOnce' => RootsOnce /\ (n \in Roots => begins[n] = 0)
  <2> SUFFICES ASSUME RootsOnce' PROVE RootsOnce /\ (n \in Roots => begins[n] = 0)
    OBVIOUS
  <2>1. \A r \in Roots : r \in Nodes /\ begins[r] \in Nat /\ begins'[r] <= 1
    BY <1>1, ReportAssumption DEF RootsOnce
  <2>2. \A r \in Roots : begins[r] <= begins'[r]
    BY <1>3, <1>4, <2>1
  <2>3. RootsOnce
    <3>1. \A r \in Roots : begins'[r] \in Nat
      BY <1>3, <1>4, <2>1
    <3> QED
      BY <2>1, <2>2, <3>1 DEF RootsOnce
  <2>4. n \in Roots => begins[n] = 0
    BY <1>4, <2>1
  <2> QED
    BY <2>3, <2>4
<1>8. ASSUME RootsOnce', NEW r \in Roots, startedAt[r] # 0
      PROVE  startedAt'[r] = startedAt[r] /\ startedAt[r] <= clock
  <2>1. r \in Nodes /\ begins[r] # 0
    BY <1>8, ReportAssumption DEF ReportTypeOK
  <2>2. n # r
    BY <1>7, <1>8, <2>1
  <2> QED
    BY <1>1, <1>3, <2>1, <2>2
<1>9. StartsAtRoots'
  <2>1. ASSUME NEW m \in Nodes, startedAt'[m] # 0, RootsOnce'
        PROVE  \E r \in Roots : startedAt'[r] # 0 /\ startedAt'[r] <= startedAt'[m]
    <3>1. CASE m # n
      <4>1. startedAt'[m] = startedAt[m]
        BY <1>3, <3>1
      <4>2. PICK r \in Roots : startedAt[r] # 0 /\ startedAt[r] <= startedAt[m]
        BY <1>7, <2>1, <4>1 DEF Clocks, StartsAtRoots
      <4> QED
        BY <1>8, <2>1, <4>1, <4>2
    <3>2. CASE m = n /\ n \in Roots
      BY <1>1, <1>4, <3>2
    <3>3. CASE m = n /\ n \notin Roots
      <4>1. PICK p \in Nodes : startedAt[p] # 0
        BY <1>6, <3>3
      <4>2. PICK r \in Roots : startedAt[r] # 0
        BY <4>1 DEF Clocks, StartsAtRoots
      <4>3. startedAt'[r] = startedAt[r] /\ startedAt[r] <= clock
        BY <1>8, <2>1, <4>2
      <4> QED
        BY <1>4, <3>3, <4>2, <4>3
    <3> QED
      BY <3>1, <3>2, <3>3
  <2>2. ASSUME NEW m \in Nodes, startedAt'[m] # 0
        PROVE  \E r \in Roots : startedAt'[r] # 0
    <3>1. ASSUME NEW r \in Roots, startedAt[r] # 0 PROVE startedAt'[r] # 0
      <4>1. r \in Nodes
        BY ReportAssumption
      <4> QED
        BY <1>1, <1>3, <1>4, <3>1, <4>1
    <3>2. CASE n \in Roots
      BY <1>1, <1>4, <3>2
    <3>3. CASE n \notin Roots
      <4>1. PICK p \in Nodes : startedAt[p] # 0
        BY <1>6, <3>3
      <4> QED
        BY <3>1, <4>1 DEF Clocks, StartsAtRoots
    <3> QED
      BY <3>2, <3>3
  <2> QED
    BY <2>1, <2>2 DEF StartsAtRoots
<1>10. begins' \in [Nodes -> Nat] /\ running' \in [Nodes -> Nat]
  BY <1>1, <1>2
<1> QED
  BY <1>5, <1>9, <1>10 DEF Clocks

LEMMA CompleteOK ==
  ASSUME NEW n \in Nodes, ReportTypeOK, Clocks, Complete(n)
  PROVE  ReportTypeOK' /\ Clocks'
<1>1. /\ clock \in 1..MaxClock /\ clock \in Nat /\ MaxClock \in Nat
      /\ startedAt \in [Nodes -> 0..clock] /\ endedAt \in [Nodes -> 0..clock]
      /\ begins \in [Nodes -> Nat] /\ running \in [Nodes -> Nat]
  BY ReportAssumption DEF ReportTypeOK, Clocks
<1>2. /\ running[n] > 0
      /\ endedAt' = [endedAt EXCEPT ![n] = clock]
      /\ running' = [running EXCEPT ![n] = running[n] - 1]
      /\ output' = output \cup {n}
      /\ startedAt' = startedAt /\ begins' = begins /\ clock' = clock
  BY DEF Complete
<1>3. ASSUME NEW m \in Nodes
      PROVE  /\ running'[m] \in 0..begins'[m] /\ running'[m] \in Nat
             /\ startedAt'[m] = 0 <=> begins'[m] = 0
             /\ endedAt'[m] # 0 => startedAt'[m] # 0 /\ m \in output'
  <2>1. /\ running[m] \in 0..begins[m] /\ running[m] \in Nat /\ begins[m] \in Nat
        /\ startedAt[m] = 0 <=> begins[m] = 0
        /\ endedAt[m] # 0 => startedAt[m] # 0 /\ m \in output
    BY <1>1 DEF ReportTypeOK, Ended
  <2>2. CASE m = n
    <3>1. running'[m] = running[m] - 1 /\ running[m] > 0
      BY <1>1, <1>2, <2>2
    <3> QED
      BY <1>2, <2>1, <2>2, <3>1
  <2>3. CASE m # n
    <3>1. running'[m] = running[m] /\ endedAt'[m] = endedAt[m]
      BY <1>1, <1>2, <2>3
    <3> QED
      BY <1>2, <2>1, <3>1
  <2> QED
    BY <2>2, <2>3
<1>4. startedAt' \in [Nodes -> 0..clock'] /\ endedAt' \in [Nodes -> 0..clock'] /\ clock' \in 1..MaxClock
  BY <1>1, <1>2
<1>5. ReportTypeOK'
  BY <1>3, <1>4 DEF ReportTypeOK, Ended
<1>6. begins' \in [Nodes -> Nat] /\ running' \in [Nodes -> Nat]
  <2>1. running' = [m \in Nodes |-> running'[m]]
    BY <1>1, <1>2
  <2> QED
    BY <1>1, <1>2, <1>3, <2>1
<1> QED
  BY <1>2, <1>5, <1>6 DEF Clocks, StartsAtRoots, RootsOnce

LEMMA TickOK ==
  ASSUME ReportTypeOK, Clocks, Tick
  PROVE  ReportTypeOK' /\ Clocks'
<1>1. clock \in Nat /\ MaxClock \in Nat /\ clock < MaxClock
      /\ startedAt \in [Nodes -> 0..clock] /\ endedAt \in [Nodes -> 0..clock]
  BY ReportAssumption DEF ReportTypeOK, Tick
<1>2. clock' = clock + 1 /\ startedAt' = startedAt /\ endedAt' = endedAt
      /\ begins' = begins /\ running' = running /\ output' = output
  BY DEF Tick, times, executions
<1>3. startedAt' \in [Nodes -> 0..clock'] /\ endedAt' \in [Nodes -> 0..clock'] /\ clock' \in 1..MaxClock
  <2>1. 0..clock \subseteq 0..clock'
    BY <1>1, <1>2
  <2> QED
    BY <1>1, <1>2, <2>1
<1> QED
  BY <1>2, <1>3 DEF ReportTypeOK, Ended, Clocks, StartsAtRoots, RootsOnce

\* What the command's own steps and those of others leave: the roots it executes.
Places ==
  /\ rootNodes \in SetToSeqs(Roots)
  /\ main \in {"server", "execute", "inside", "poll", "print", "done"}
  /\ next \in 1..Len(rootNodes) + 1
  /\ printed \subseteq Nodes
  /\ main # "server" =>
       \A i \in DOMAIN rootNodes : running[rootNodes[i]] > 0 => i = next /\ main = "inside"

LEMMA Parts == RunTypeOK <=> ReportTypeOK /\ Places
BY DEF RunTypeOK, Places

LEMMA CallExecuteOK ==
  ASSUME IInv, CallExecute
  PROVE  IInv'
<1> DEFINE r == rootNodes[next]
<1>1. /\ main = "execute" /\ next <= Len(rootNodes) /\ begins[r] = 0 /\ Begin(r)
      /\ main' = "inside" /\ rootNodes' = rootNodes /\ next' = next /\ printed' = printed
  BY DEF CallExecute
<1>2. ReportTypeOK /\ Places /\ Clocks /\ Command
  BY Parts DEF IInv
<1>3. /\ Len(rootNodes) \in Nat \ {0} /\ DOMAIN rootNodes = 1..Len(rootNodes)
      /\ \A i \in 1..Len(rootNodes) : rootNodes[i] \in Roots /\ rootNodes[i] \in Nodes
      /\ \A i, j \in 1..Len(rootNodes) : rootNodes[i] = rootNodes[j] => i = j
  BY <1>2, RootList DEF Places
<1>4. next \in 1..Len(rootNodes) /\ r \in Nodes /\ r \in Roots
  BY <1>1, <1>2, <1>3 DEF Places
<1>5. ReportTypeOK' /\ Clocks'
  BY <1>1, <1>2, <1>4, BeginOK
<1>6. ASSUME NEW i \in 1..Len(rootNodes), i # next PROVE ~(running'[rootNodes[i]] > 0)
  <2>1. rootNodes[i] # r /\ rootNodes[i] \in Nodes
    BY <1>3, <1>4, <1>6
  <2>2. running'[rootNodes[i]] = running[rootNodes[i]]
    BY <1>1, <1>2, <2>1 DEF Begin, Clocks
  <2> QED
    BY <1>1, <1>2, <1>3, <2>2 DEF Places
<1>7. Places'
  BY <1>1, <1>2, <1>3, <1>6 DEF Places
<1>8. RootsOnce'
  <2>1. /\ begins' = [begins EXCEPT ![r] = begins[r] + 1] /\ begins \in [Nodes -> Nat]
        /\ Roots \subseteq Nodes /\ \A m \in Roots : begins[m] <= 1
    BY <1>1, <1>2, ReportAssumption DEF Begin, Clocks, Command, RootsOnce
  <2>2. ASSUME NEW m \in Roots PROVE begins'[m] <= 1
    BY <1>1, <1>4, <2>1
  <2> QED
    BY <2>2 DEF RootsOnce
<1>9. Command'
  BY <1>1, <1>2, <1>8 DEF Command, Begin
<1> QED
  BY <1>1, <1>5, <1>7, <1>9 DEF IInv, RunTypeOK, Places, PrintsLastRoot

LEMMA ReturnExecuteOK ==
  ASSUME IInv, ReturnExecute
  PROVE  IInv'
<1> DEFINE r == rootNodes[next]
<1>1. /\ main = "inside" /\ Complete(r)
      /\ main' = "execute" /\ rootNodes' = rootNodes /\ next' = next + 1 /\ printed' = printed
  BY DEF ReturnExecute
<1>2. ReportTypeOK /\ Places /\ Clocks /\ Command
  BY Parts DEF IInv
<1>3. /\ Len(rootNodes) \in Nat \ {0} /\ DOMAIN rootNodes = 1..Len(rootNodes)
      /\ \A i \in 1..Len(rootNodes) : rootNodes[i] \in Roots /\ rootNodes[i] \in Nodes
      /\ \A i, j \in 1..Len(rootNodes) : rootNodes[i] = rootNodes[j] => i = j
  BY <1>2, RootList DEF Places
<1>4. next \in 1..Len(rootNodes) /\ next \in Nat /\ r \in Nodes /\ r \in Roots
  BY <1>1, <1>2, <1>3 DEF Places, Command
<1>5. ReportTypeOK' /\ Clocks'
  BY <1>1, <1>2, <1>4, CompleteOK
<1>6. ASSUME NEW i \in 1..Len(rootNodes) PROVE ~(running'[rootNodes[i]] > 0)
  <2>1. CASE i # next
    <3>1. rootNodes[i] # r /\ rootNodes[i] \in Nodes
      BY <1>3, <1>4, <2>1
    <3>2. running'[rootNodes[i]] = running[rootNodes[i]]
      BY <1>1, <1>2, <3>1 DEF Complete, Clocks
    <3> QED
      BY <1>1, <1>2, <1>3, <2>1, <3>2 DEF Places
  <2>2. CASE i = next
    <3>1. running[r] \in Nat /\ begins[r] \in Nat /\ running[r] <= begins[r] /\ begins[r] <= 1
      BY <1>1, <1>2, <1>4 DEF ReportTypeOK, Clocks, Command, RootsOnce
    <3>2. running'[r] = running[r] - 1
      BY <1>1, <1>2, <1>4 DEF Complete, Clocks
    <3> QED
      BY <2>2, <3>1, <3>2
  <2> QED
    BY <2>1, <2>2
<1>7. Places'
  BY <1>1, <1>2, <1>3, <1>4, <1>6 DEF Places
<1>8. Command'
  <2>1. output' = output \cup {r}
    BY <1>1 DEF Complete
  <2>2. ASSUME NEW i \in 1..Len(rootNodes), i < next + 1 PROVE rootNodes[i] \in output'
    <3>1. i < next \/ i = next
      BY <1>4, <2>2
    <3>2. CASE i < next
      BY <1>1, <1>2, <2>1, <3>2 DEF Command
    <3>3. CASE i = next
      BY <2>1, <3>3
    <3> QED
      BY <3>1, <3>2, <3>3
  <2>3. RootsOnce'
    BY <1>1, <1>2 DEF Command, RootsOnce, Complete
  <2> QED
    BY <1>1, <2>2, <2>3 DEF Command
<1> QED
  BY <1>1, <1>5, <1>7, <1>8 DEF IInv, RunTypeOK, Places, PrintsLastRoot

\* Steps that leave the graph and its times alone.
LEMMA NoTimes ==
  ASSUME ReportTypeOK, Clocks, UNCHANGED reportVars
  PROVE  ReportTypeOK' /\ Clocks'
BY DEF ReportTypeOK, Clocks, StartsAtRoots, RootsOnce, Ended, reportVars, times, executions

LEMMA StartPollingOK ==
  ASSUME IInv, StartPolling
  PROVE  IInv'
<1>1. /\ main = "execute" /\ next > Len(rootNodes) /\ UNCHANGED reportVars
      /\ main' = "poll" /\ rootNodes' = rootNodes /\ next' = next /\ printed' = printed
  BY DEF StartPolling
<1>2. ReportTypeOK /\ Places /\ Clocks /\ Command
  BY Parts DEF IInv
<1>3. Len(rootNodes) \in Nat /\ DOMAIN rootNodes = 1..Len(rootNodes)
  BY <1>2, RootList DEF Places
<1>4. ReportTypeOK' /\ Clocks'
  BY <1>1, <1>2, NoTimes
<1>5. running' = running /\ output' = output /\ begins' = begins
  BY <1>1 DEF reportVars, executions
<1>6. Places'
  BY <1>1, <1>2, <1>5 DEF Places
<1>7. next = Len(rootNodes) + 1
  BY <1>1, <1>2, <1>3 DEF Places
<1>8. Command'
  BY <1>1, <1>2, <1>5, <1>7 DEF Command, RootsOnce
<1> QED
  BY <1>1, <1>4, <1>6, <1>8 DEF IInv, RunTypeOK, Places, PrintsLastRoot

LEMMA PollOK ==
  ASSUME IInv, Poll
  PROVE  IInv'
<1> DEFINE l == Last(rootNodes)
<1>1. /\ main = "poll" /\ AllNodesFinished(Children(l)) /\ UNCHANGED reportVars
      /\ main' = "print" /\ rootNodes' = rootNodes /\ next' = next /\ printed' = printed
  BY DEF Poll, Finished
<1>2. ReportTypeOK /\ Places /\ Clocks /\ Command
  BY Parts DEF IInv
<1>3. /\ Len(rootNodes) \in Nat \ {0} /\ DOMAIN rootNodes = 1..Len(rootNodes)
      /\ l = rootNodes[Len(rootNodes)] /\ l \in Roots /\ l \in Nodes
  BY <1>2, RootList, ReportAssumption DEF Places
<1>4. ReportTypeOK' /\ Clocks'
  BY <1>1, <1>2, NoTimes
<1>5. running' = running /\ output' = output /\ begins' = begins
  BY <1>1 DEF reportVars, executions
<1>6. Places'
  BY <1>1, <1>2, <1>5 DEF Places
<1>7. \E T \in SUBSET Nodes : l \in T /\ Closed(T) /\ T \subseteq output
  <2>1. Children(l) \in SUBSET Nodes
    BY DEF Children
  <2>2. PICK T \in SUBSET Nodes : Children(l) \subseteq T /\ Closed(T) /\ \A n \in T : Ended(n)
    BY <1>1, <2>1, AllBelowFinished
  <2>3. next = Len(rootNodes) + 1
    BY <1>1, <1>2 DEF Command
  <2>4. l \in output
    BY <1>1, <1>2, <1>3, <2>3 DEF Command
  <2>5. T \cup {l} \subseteq output
    BY <1>2, <2>2, <2>4 DEF ReportTypeOK
  <2>6. \A e \in Edges : e[1] = l => e[2] \in Children(l)
    BY ReportAssumption DEF Children
  <2>7. Closed(T \cup {l})
    BY <2>2, <2>6 DEF Closed
  <2> QED
    BY <1>3, <2>5, <2>7
<1>8. Command'
  BY <1>1, <1>2, <1>5, <1>7 DEF Command, RootsOnce
<1> QED
  BY <1>1, <1>4, <1>6, <1>8 DEF IInv, RunTypeOK, Places, PrintsLastRoot

LEMMA PrintOutputsOK ==
  ASSUME IInv, PrintOutputs
  PROVE  IInv'
<1> DEFINE l == Last(rootNodes)
<1>1. /\ main = "print" /\ printed' = LeafOutputs(Roots) /\ UNCHANGED reportVars
      /\ main' = "done" /\ rootNodes' = rootNodes /\ next' = next
  BY DEF PrintOutputs
<1>2. ReportTypeOK /\ Places /\ Clocks /\ Command
  BY Parts DEF IInv
<1>3. l \in Roots /\ l \in Nodes /\ Roots \subseteq Nodes
  BY <1>2, RootList, ReportAssumption DEF Places
<1>4. ReportTypeOK' /\ Clocks'
  BY <1>1, <1>2, NoTimes
<1>5. running' = running /\ output' = output /\ begins' = begins
  BY <1>1 DEF reportVars, executions
<1>6. printed' \subseteq Nodes
  BY <1>1, <1>3, LeafOutputsRecursion DEF LeafOutputs
<1>7. Places'
  BY <1>1, <1>2, <1>5, <1>6 DEF Places
<1>8. PICK T \in SUBSET Nodes : l \in T /\ Closed(T) /\ T \subseteq output
  BY <1>1, <1>2 DEF Command
<1>9. Command'
  BY <1>1, <1>2, <1>5, <1>8 DEF Command, RootsOnce
<1>10. ASSUME NEW n \in Nodes, Children(n) = {},
              \A S \in SUBSET Nodes : l \in S /\ Closed(S) => n \in S
       PROVE  n \in printed'
  <2>1. n \in output
    BY <1>8, <1>10
  <2>2. n \in leafOutputs[l]
    BY <1>3, <1>10, <2>1, LeavesPutOut
  <2> QED
    BY <1>1, <1>3, <2>2 DEF LeafOutputs
<1>11. PrintsLastRoot'
  BY <1>1, <1>10 DEF PrintsLastRoot, Closed, Children
<1> QED
  BY <1>4, <1>7, <1>9, <1>11 DEF IInv, RunTypeOK, Places

LEMMA OtherOK ==
  ASSUME IInv, NEW n \in Nodes, Other(n), main # "done"
  PROVE  IInv'
<1>1. /\ main = "server" \/ n \notin Roots
      /\ rootNodes' = rootNodes /\ main' = main /\ next' = next /\ printed' = printed
  BY DEF Other, MayCall
<1>2. ReportTypeOK /\ Places /\ Clocks /\ Command
  BY Parts DEF IInv
<1>3. /\ DOMAIN rootNodes = 1..Len(rootNodes)
      /\ \A i \in 1..Len(rootNodes) : rootNodes[i] \in Roots /\ rootNodes[i] \in Nodes
  BY <1>2, RootList DEF Places
<1>4. ReportTypeOK' /\ Clocks'
  BY <1>2, BeginOK, CompleteOK DEF Other, MayCall
<1>5. output \subseteq output' /\ \A m \in Nodes : m # n => running'[m] = running[m]
  BY <1>2 DEF Other, Begin, Complete, Clocks
<1>6. Places'
  BY <1>1, <1>2, <1>3, <1>5 DEF Places
<1>7. Command'
  <2> SUFFICES ASSUME main # "server" PROVE Command'
    BY <1>1 DEF Command
  <2>1. ASSUME NEW i \in 1..Len(rootNodes), i < next PROVE rootNodes[i] \in output'
    BY <1>2, <1>5, <2>1 DEF Command
  <2>2. ASSUME main \in {"print", "done"}
        PROVE  \E T \in SUBSET Nodes : Last(rootNodes) \in T /\ Closed(T) /\ T \subseteq output'
    BY <1>2, <1>5, <2>2 DEF Command
  <2>3. /\ main = "inside" => next <= Len(rootNodes)
        /\ main \in {"poll", "print", "done"} => next = Len(rootNodes) + 1
    BY <1>2 DEF Command
  <2>4. RootsOnce'
    <3>1. \A r \in Roots : r \in Nodes /\ r # n
      BY <1>1, ReportAssumption
    <3>2. \A r \in Roots : begins'[r] = begins[r]
      BY <1>2, <3>1 DEF Other, Begin, Complete, Clocks
    <3> QED
      BY <1>2, <3>2 DEF Command, RootsOnce
  <2> QED
    BY <1>1, <2>1, <2>2, <2>3, <2>4 DEF Command
<1> QED
  BY <1>1, <1>4, <1>6, <1>7 DEF IInv, RunTypeOK, Places, PrintsLastRoot

LEMMA CommandTickOK ==
  ASSUME IInv, Tick, UNCHANGED <<rootNodes, main, next, printed>>
  PROVE  IInv'
<1>1. ReportTypeOK /\ Places /\ Clocks /\ Command /\ PrintsLastRoot
  BY Parts DEF IInv
<1>2. ReportTypeOK' /\ Clocks'
  BY <1>1, TickOK
<1>3. running' = running /\ output' = output /\ begins' = begins
  BY DEF Tick, executions
<1>4. Places' /\ Command' /\ PrintsLastRoot'
  BY <1>1, <1>3 DEF Places, Command, RootsOnce, PrintsLastRoot, Children
<1> QED
  BY <1>2, <1>4 DEF IInv, RunTypeOK, Places

LEMMA UnchangedOK ==
  ASSUME IInv, UNCHANGED runVars
  PROVE  IInv'
<1>1. ReportTypeOK /\ Places /\ Clocks /\ Command /\ PrintsLastRoot
  BY Parts DEF IInv
<1>2. UNCHANGED <<reportVars, rootNodes, main, next, printed>>
  BY DEF runVars
<1>3. ReportTypeOK' /\ Clocks'
  BY <1>1, <1>2, NoTimes
<1>4. running' = running /\ output' = output /\ begins' = begins
  BY <1>2 DEF reportVars, executions
<1>5. Places' /\ Command' /\ PrintsLastRoot'
  BY <1>1, <1>2, <1>4 DEF Places, Command, RootsOnce, PrintsLastRoot, Children
<1> QED
  BY <1>3, <1>5 DEF IInv, RunTypeOK, Places

LEMMA RunStepOK ==
  ASSUME IInv, [RunNext]_runVars
  PROVE  IInv'
<1>1. CASE CallExecute
  BY <1>1, CallExecuteOK
<1>2. CASE ReturnExecute
  BY <1>2, ReturnExecuteOK
<1>3. CASE StartPolling
  BY <1>3, StartPollingOK
<1>4. CASE Poll
  BY <1>4, PollOK
<1>5. CASE PrintOutputs
  BY <1>5, PrintOutputsOK
<1>6. CASE main # "done" /\ \E n \in Nodes : Other(n)
  BY <1>6, OtherOK
<1>7. CASE Tick /\ UNCHANGED <<rootNodes, main, next, printed>>
  BY <1>7, CommandTickOK
<1>8. CASE UNCHANGED runVars
  BY <1>8, UnchangedOK
<1> QED
  BY <1>1, <1>2, <1>3, <1>4, <1>5, <1>6, <1>7, <1>8 DEF RunNext

LEMMA RunInitOK ==
  ASSUME RunInit
  PROVE  IInv
<1>1. /\ startedAt = [n \in Nodes |-> 0] /\ endedAt = [n \in Nodes |-> 0]
      /\ begins = [n \in Nodes |-> 0] /\ running = [n \in Nodes |-> 0]
      /\ clock = 1 /\ MaxClock \in Nat \ {0} /\ Roots \subseteq Nodes
  BY ReportAssumption DEF RunInit, ReportInit
<1>2. ReportTypeOK /\ Clocks
  BY <1>1 DEF ReportTypeOK, Clocks, StartsAtRoots, Ended
<1>3. /\ rootNodes \in SetToSeqs(Roots) /\ main \in {"server", "execute"}
      /\ next = 1 /\ printed = {}
  BY DEF RunInit
<1>4. /\ Len(rootNodes) \in Nat \ {0} /\ DOMAIN rootNodes = 1..Len(rootNodes)
      /\ \A i \in 1..Len(rootNodes) : rootNodes[i] \in Nodes
  BY <1>3, RootList
<1>5. Places
  BY <1>1, <1>3, <1>4 DEF Places
<1>6. Command /\ PrintsLastRoot
  BY <1>1, <1>3, <1>4 DEF Command, RootsOnce, PrintsLastRoot
<1> QED
  BY <1>2, <1>5, <1>6 DEF IInv, RunTypeOK, Places

-----------------------------------------------------------------------------
THEOREM Invariance == RunSpec => []IInv
<1>1. RunInit => IInv
  BY RunInitOK
<1>2. IInv /\ [RunNext]_runVars => IInv'
  BY RunStepOK
<1> QED
  BY <1>1, <1>2, PTL DEF RunSpec

\* Values have their kinds, and nothing but a root being executed keeps the command from
\* going on to the next (run.go:80-82).
THEOREM CommandTyped == RunSpec => []RunTypeOK
<1>1. IInv => RunTypeOK
  BY DEF IInv
<1> QED
  BY <1>1, Invariance, PTL

\* Of any graph the start reported is the start of a node, and the earliest of all as long
\* as no root was begun twice; of a finished graph the end reported is the latest, in
\* whatever order the roots come (util.go:12-57).
THEOREM TimesAlwaysExact == RunSpec => []TimesExact
<1>1. IInv => TimesExact
  <2> SUFFICES ASSUME IInv PROVE TimesExact
    OBVIOUS
  <2>1. ReportTypeOK /\ StartsAtRoots /\ MaxClock \in Nat
    BY Parts, ReportAssumption DEF IInv, Clocks
  <2>2. startedAt \in [Nodes -> Nat] /\ endedAt \in [Nodes -> Nat]
    BY <2>1 DEF ReportTypeOK
  <2> QED
    BY <2>1, <2>2, TimesReported
<1> QED
  BY <1>1, Invariance, PTL

\* Of any graph the share of finished nodes counts each node once, however many paths lead
\* to it and in whatever order the roots come (api.go:681-709).
THEOREM ShareAlwaysExact == RunSpec => []ShareExact
<1>1. IInv => ShareExact
  BY EachCountedOnce
<1> QED
  BY <1>1, Invariance, PTL

\* For any graph and any order of its roots, the outputs of all leaves below the last root
\* are printed when the command ends (run.go:85-104).
THEOREM AlwaysPrintsLastRoot == RunSpec => []PrintsLastRoot
<1>1. IInv => PrintsLastRoot
  BY DEF IInv
<1> QED
  BY <1>1, Invariance, PTL
=============================================================================

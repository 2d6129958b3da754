------------------------- MODULE ItemListingProofs -------------------------
(***************************************************************************)
(* What a client of the HTTP API is answered while others put items        *)
(* (module ItemListing), for any items, graphs, page sizes and pages: an   *)
(* answer fails only for an item that is not whole; no page is refused     *)
(* that an earlier answer promised; a walk through the pages misses no     *)
(* item that has a time of its own; and an item that is shown with an end  *)
(* is shown as complete.                                                   *)
(*                                                                         *)
(* The argument: the rows of a request are stored from the first step to   *)
(* the last, each node with its status before the next, so that a node     *)
(* without one belongs to a request that has not been accepted; and the    *)
(* nodes that are read are those of the item on the row.  The number of    *)
(* pages never falls, as no item is ever deleted and a client does not     *)
(* change its page size on the way.  An item that has not been shown has   *)
(* all the earlier pages' worth of items before it, and the number of      *)
(* those never falls either (Ahead, NotShownYet).                          *)
(*                                                                         *)
(* For the end of an item: nothing of a graph executes before all of it is *)
(* linked (GraphInv).  Where only leaves have siblings, the nodes of one   *)
(* parent are all that is left to read at any time, and the levels above   *)
(* them have ended (Descends), so an end is shown only when all nodes have *)
(* ended.  The reading of the share, later, loses no node: one it does not *)
(* know is left to read or below one it does not know (Reaches), hence all *)
(* are known when nothing is left, the step of the least number first      *)
(* (ReachedIsKnown).                                                       *)
(***************************************************************************)
EXTENDS ItemListing, FiniteSetTheorems, SequenceTheorems, TLAPS

\* What a request has stored and not stored when it is at step k.
Has(i, k) == \A s \in Steps : s < k => node[<<i, s>>] \in Statuses
Lacks(i, k) == \A s \in Steps : s >= k => node[<<i, s>>] = "absent"

PutOK(i) ==
  /\ pc[i] \in {"new", "item"} => step[i] = 1
  /\ pc[i] \in {"new", "item", "node"} => Lacks(i, step[i])
  /\ pc[i] \in {"status", "input"} => Lacks(i, step[i] + 1)
  /\ pc[i] \in {"node", "status", "input", "accepted"} => i \in items /\ Has(i, step[i])
  /\ pc[i] \in {"input", "accepted"} => node[<<i, step[i]>>] \in Statuses
  /\ pc[i] = "accepted" => \A s \in Steps : node[<<i, s>>] \in Statuses

PutsTyped ==
  /\ pc \in [Puts -> {"new", "item", "node", "status", "input", "accepted", "refused"}]
  /\ stamp \in [Puts -> 0..MaxTime]
  /\ step \in [Puts -> Steps]

PutsInv == TablesOK /\ PutsTyped /\ \A i \in Puts : PutOK(i)

Pages == [order : Orders, size : PageSizes, page : Nat]
Views == [roots : SUBSET Nodes, started : BOOLEAN, ended : BOOLEAN,
          known : SUBSET Nodes, done : SUBSET Nodes]
Levels == (SUBSET Nodes) \ {{}}
Reading == {"nodes", "roots", "start", "end", "share"}

WalkOK ==
  /\ walk \in {NoWalk} \cup [id : Items] \cup Pages
  /\ phase = "item" => walk \in [id : Items]
  /\ phase \in {"list", "count"} => walk \in Pages
  /\ walk \in Pages /\ walk.page = 0 => phase = "shown"

\* No page is asked for that there is not, but for the first.
Promised == walk \in Pages /\ walk.page > 1 => walk.page <= TotalPages

RowsOK ==
  /\ rows \in Seq(items)
  /\ phase \in Reading => row \in DOMAIN rows
  /\ phase \in {"idle", "item", "list"} => rows = <<>>

\* The nodes whose inputs are read are those of the item on the row.
RootsOfRow ==
  phase = "roots" =>
    frames = <<>> \/ \E S \in SUBSET ({rows[row]} \X Steps) : frames = <<S>>

ReadTyped ==
  /\ phase \in Reading \cup {"idle", "list", "item", "count", "shown", "empty", "failed", "missing"}
  /\ due \cup seen \subseteq items
  /\ frames \in Seq(Levels)
  /\ view \in [Items -> Views]

ReadInv == ReadTyped /\ WalkOK /\ Promised /\ RowsOK /\ RootsOfRow

ListingInv == PutsInv /\ ReadInv
-----------------------------------------------------------------------------
\* Arithmetic of pages.

LEMMA ProductGrows ==
  ASSUME NEW s \in Nat, NEW x \in Int, NEW y \in Int, x <= y
  PROVE  s * x <= s * y
OBVIOUS

\* With more items there are no fewer pages (pkg/api/api.go:553-566).
LEMMA PagesGrow ==
  ASSUME NEW a \in Nat, NEW b \in Nat, NEW s \in Nat \ {0}, a <= b
  PROVE  (a + s - 1) \div s <= (b + s - 1) \div s
<1> DEFINE x == (a + s - 1) \div s
           y == (b + s - 1) \div s
<1>1. x \in Int /\ y \in Int
  OBVIOUS
<1>2. s * x <= a + s - 1 /\ b + s - 1 < s * (y + 1)
  OBVIOUS
<1>3. ASSUME y + 1 <= x PROVE FALSE
  <2>1. s * (y + 1) <= s * x
    BY <1>1, <1>3, ProductGrows
  <2> QED
    BY <1>1, <1>2, <2>1
<1> QED
  BY <1>1, <1>3

\* There is a page as soon as there is an item.
LEMMA PageOfSome ==
  ASSUME NEW a \in Nat, NEW s \in Nat \ {0}
  PROVE  /\ (a + s - 1) \div s \in Nat
         /\ a # 0 => (a + s - 1) \div s >= 1
<1> DEFINE x == (a + s - 1) \div s
<1>1. x \in Int /\ a + s - 1 < s * (x + 1)
  OBVIOUS
<1>2. ASSUME x + 1 <= 1, a # 0 PROVE FALSE
  <2>1. s * (x + 1) <= s * 1
    BY <1>1, <1>2, ProductGrows
  <2> QED
    BY <1>1, <1>2, <2>1
<1>3. ASSUME x + 1 <= 0 PROVE FALSE
  <2>1. s * (x + 1) <= s * 0
    BY <1>1, <1>3, ProductGrows
  <2> QED
    BY <1>1, <1>3, <2>1
<1> QED
  BY <1>1, <1>2, <1>3

LEMMA ItemsCounted ==
  ASSUME items \subseteq Items
  PROVE  IsFiniteSet(items) /\ CountQueueItems \in Nat
BY TableAssumption, FS_Subset, FS_CardinalityType DEF CountQueueItems

\* The rows of a page are rows of items, whatever store, order and page
\* (pkg/db/in_mem.go:81-98, query.sql.go:330-338).
LEMMA RowsOfItems ==
  ASSUME items \subseteq Items, NEW order \in Orders, NEW size \in Nat \ {0},
         NEW page \in Nat \ {0}, NEW rs \in ListQueueItems(order, page, size)
  PROVE  rs \in Seq(items)
<1>1. \A all \in SetToSeqs(items) : all \in Seq(items)
  <2>1. Cardinality(items) \in Nat
    BY ItemsCounted DEF CountQueueItems
  <2> QED
    BY <2>1 DEF SetToSeqs
<1>2. ASSUME NEW all \in Seq(items), NEW m \in Nat \ {0}, NEW n \in Int
      PROVE  SubSeq(all, m, Smaller(Len(all), n)) \in Seq(items)
  <2>1. Smaller(Len(all), n) \in Int /\ Smaller(Len(all), n) <= Len(all)
    BY DEF Smaller
  <2>2. \A i \in m..Smaller(Len(all), n) : all[i] \in items
    BY <2>1
  <2> QED
    BY <2>1, <2>2, SubSeqProperties
<1>3. (page - 1) * size + 1 \in Nat \ {0} /\ page * size \in Int
  <2>1. size * 0 <= size * (page - 1)
    BY ProductGrows
  <2>2. (page - 1) * size = size * (page - 1) /\ (page - 1) * size \in Int /\ size * 0 = 0
    OBVIOUS
  <2> QED
    BY <2>1, <2>2
<1>4. CASE store = "memory"
  <2>1. PICK all \in SetToSeqs(items) : rs = SubSeq(all, 1, Smaller(Len(all), size))
    BY <1>4 DEF ListQueueItems, ListInMemory
  <2>2. all \in Seq(items)
    BY <1>1
  <2>3. SubSeq(all, 1, Smaller(Len(all), size)) \in Seq(items)
    BY <1>2, <2>2, 1 \in Nat \ {0}, size \in Int
  <2> QED
    BY <2>1, <2>3
<1>5. CASE store # "memory"
  BY <1>1, <1>2, <1>3, <1>5 DEF ListQueueItems, ListInPostgres
<1> QED
  BY <1>4, <1>5

-----------------------------------------------------------------------------
\* What the requests store.

LEMMA StepsCounted ==
  /\ Cardinality(Steps) \in Nat
  /\ 1 \in Steps
  /\ \A k \in Steps : k \in Nat /\ k >= 1 /\ k <= Cardinality(Steps)
  /\ \A k \in Nat : k >= 1 /\ k <= Cardinality(Steps) => k \in Steps
<1>1. Cardinality(Steps) \in Nat
  BY TableAssumption, FS_CardinalityType
<1>2. Steps = 1..Cardinality(Steps) /\ Steps # {}
  BY ListingAssumption
<1> QED
  BY <1>1, <1>2

LEMMA PutsAreItems == Puts \subseteq Items /\ Old \subseteq Items /\ Old \cap Puts = {}
BY ListingAssumption

LEMMA InitPuts == Init => PutsInv
<1> SUFFICES ASSUME Init PROVE PutsInv
  OBVIOUS
<1> USE PutsAreItems, StepsCounted
<1>1. PICK half \in SUBSET items :
        /\ node = [n \in Nodes |->
                     IF n[1] \in items \ half THEN "finished"
                     ELSE IF n[1] \in half /\ n[2] = 1 THEN "bare" ELSE "absent"]
        /\ edges = {e \in Nodes \X Nodes : e[1][1] = e[2][1] /\ e[1][1] \in items \ half
                                          /\ e[1][2] = Input[e[2][2]]}
        /\ rooted = {n \in Nodes : n[1] \in items \ half /\ Input[n[2]] = 0}
  BY DEF Init
<1>2. TablesOK
  <2>1. createdAt \in [Items -> Nat]
    BY ListingAssumption DEF Init
  <2>2. node \in [Nodes -> {"absent", "bare"} \cup Statuses]
    BY <1>1 DEF Statuses
  <2>3. \A n \in Nodes : node[n] # "absent" => n[1] \in items
    BY <1>1
  <2>4. ASSUME NEW e \in edges
        PROVE  e[1][1] = e[2][1] /\ {node[e[1]], node[e[2]]} \subseteq Statuses
    <3>1. /\ e[1] \in Nodes /\ e[2] \in Nodes
          /\ e[1][1] = e[2][1] /\ e[1][1] \in items \ half
      BY <1>1, <2>4
    <3> QED
      BY <1>1, <3>1 DEF Statuses
  <2>5. rooted \subseteq {n \in Nodes : node[n] \in Statuses}
    BY <1>1 DEF Statuses
  <2> QED
    BY <2>1, <2>2, <2>3, <2>4, <2>5 DEF Init, TablesOK
<1>3. PutsTyped
  BY ListingAssumption DEF Init, PutsTyped
<1>4. ASSUME NEW i \in Puts PROVE PutOK(i)
  <2>1. i \notin items
    BY DEF Init
  <2>2. \A s \in Steps : node[<<i, s>>] = "absent"
    BY <1>1, <2>1 DEF Nodes
  <2> QED
    BY <2>2 DEF Init, PutOK, Lacks
<1> QED
  BY <1>2, <1>3, <1>4 DEF PutsInv

\* A step that adds to no table keeps what the other requests have stored.
LEMMA OtherPuts ==
  ASSUME PutsInv, NEW i \in Puts, NEW j \in Puts \ {i},
         items \subseteq items', pc'[j] = pc[j], step'[j] = step[j],
         \A s \in Steps : node'[<<j, s>>] = node[<<j, s>>]
  PROVE  PutOK(j)'
<1>1. PutOK(j) /\ step[j] \in Steps
  BY DEF PutsInv, PutsTyped
<1> QED
  BY <1>1 DEF PutOK, Has, Lacks

LEMMA NodeIsOwn == \A i \in Items, s \in Steps : <<i, s>> \in Nodes
BY DEF Nodes

\* The status of a node of a stored item keeps the tables in order.
LEMMA StatusKept ==
  ASSUME TablesOK, NEW n \in Nodes, NEW s \in Statuses, n[1] \in items,
         CreateStatus(n, s)
  PROVE  /\ TablesOK'
         /\ \A m \in Nodes : node[m] \in Statuses => node'[m] \in Statuses
         /\ \A m \in Nodes \ {n} : node'[m] = node[m]
         /\ node'[n] = s
<1>1. node' = [node EXCEPT ![n] = s] /\ UNCHANGED <<store, items, createdAt, edges, rooted>>
  BY DEF CreateStatus
<1>2. node \in [Nodes -> {"absent", "bare"} \cup Statuses]
  BY DEF TablesOK
<1>3. /\ node' \in [Nodes -> {"absent", "bare"} \cup Statuses]
      /\ \A m \in Nodes : node'[m] = IF m = n THEN s ELSE node[m]
  BY <1>1, <1>2
<1>4. ASSUME NEW e \in edges PROVE {node'[e[1]], node'[e[2]]} \subseteq Statuses
  <2>1. {node[e[1]], node[e[2]]} \subseteq Statuses
    BY DEF TablesOK
  <2> QED
    BY <1>1, <1>2, <2>1
<1> QED
  BY <1>1, <1>3, <1>4 DEF TablesOK

LEMMA PutKeeps == \A i \in Puts : PutsInv /\ Put(i) => PutsInv'
<1> SUFFICES ASSUME NEW i \in Puts, PutsInv, Put(i) PROVE PutsInv'
  OBVIOUS
<1>1. TablesOK'
  BY DEF PutsInv, TablesOK, Put, tables
<1>2. PutsTyped'
  BY ListingAssumption DEF PutsInv, PutsTyped, Put, Goto
<1>3. PutOK(i)'
  <2>1. PutOK(i) /\ pc \in [Puts -> {"new", "item", "node", "status", "input", "accepted", "refused"}]
    BY DEF PutsInv, PutsTyped
  <2> QED
    BY <2>1 DEF PutOK, Put, Goto, Has, Lacks, tables
<1>4. ASSUME NEW j \in Puts \ {i} PROVE PutOK(j)'
  BY OtherPuts DEF Put, Goto, tables, PutsInv, PutsTyped
<1> QED
  BY <1>1, <1>2, <1>3, <1>4 DEF PutsInv

LEMMA NewItemKeeps == \A i \in Puts : PutsInv /\ NewItem(i) => PutsInv'
<1> SUFFICES ASSUME NEW i \in Puts, PutsInv, NewItem(i) PROVE PutsInv'
  OBVIOUS
<1>0. /\ pc[i] = "item" /\ pc' = [pc EXCEPT ![i] = "node"] /\ UNCHANGED <<stamp, step>>
      /\ i \notin items /\ items' = items \cup {i}
      /\ createdAt' = [createdAt EXCEPT ![i] = stamp[i]]
      /\ UNCHANGED <<store, node, edges, rooted>>
  BY DEF NewItem, CreateQueueItem, Goto
<1>1. TablesOK'
  <2>1. stamp[i] \in Nat
    BY ListingAssumption DEF PutsInv, PutsTyped
  <2>2. createdAt' \in [Items -> Nat]
    BY <1>0, <2>1 DEF PutsInv, TablesOK
  <2> QED
    BY <1>0, <2>2, PutsAreItems DEF PutsInv, TablesOK
<1>2. PutsTyped'
  BY <1>0 DEF PutsInv, PutsTyped
<1>3. PutOK(i)'
  <2>1. PutOK(i) /\ pc'[i] = "node" /\ step[i] = 1
    BY <1>0 DEF PutsInv, PutsTyped, PutOK
  <2>2. Has(i, step[i])'
    BY <1>0, <2>1, StepsCounted DEF Has
  <2> QED
    BY <1>0, <2>1, <2>2 DEF PutOK, Lacks
<1>4. ASSUME NEW j \in Puts \ {i} PROVE PutOK(j)'
  BY <1>0, OtherPuts DEF PutsInv, PutsTyped
<1> QED
  BY <1>1, <1>2, <1>3, <1>4 DEF PutsInv

LEMMA NewNodeKeeps == \A i \in Puts : PutsInv /\ NewNode(i) => PutsInv'
<1> SUFFICES ASSUME NEW i \in Puts, PutsInv, NewNode(i) PROVE PutsInv'
  OBVIOUS
<1> DEFINE n == <<i, step[i]>>
<1>0. /\ pc[i] = "node" /\ pc' = [pc EXCEPT ![i] = "status"] /\ UNCHANGED <<stamp, step>>
      /\ node' = [node EXCEPT ![n] = "bare"]
      /\ UNCHANGED <<store, items, createdAt, edges, rooted>>
  BY DEF NewNode, CreateAndReturnNode, Goto
<1>1. /\ PutOK(i) /\ TablesOK /\ step[i] \in Steps /\ step[i] \in Nat /\ n \in Nodes
      /\ node \in [Nodes -> {"absent", "bare"} \cup Statuses]
  BY PutsAreItems, StepsCounted DEF PutsInv, PutsTyped, TablesOK, Nodes
<1>2. node[n] = "absent" /\ i \in items
  BY <1>0, <1>1 DEF PutOK, Lacks
<1>3. /\ node' \in [Nodes -> {"absent", "bare"} \cup Statuses]
      /\ \A m \in Nodes : node'[m] = IF m = n THEN "bare" ELSE node[m]
  BY <1>0, <1>1
<1> HIDE DEF n
<1>4. TablesOK'
  <2>1. ASSUME NEW m \in Nodes, node'[m] # "absent" PROVE m[1] \in items
    <3>1. CASE m = n
      BY <1>2, <3>1 DEF n
    <3> QED
      BY <1>1, <1>3, <2>1, <3>1 DEF TablesOK
  <2>2. ASSUME NEW e \in edges PROVE {node'[e[1]], node'[e[2]]} \subseteq Statuses
    <3>1. {node[e[1]], node[e[2]]} \subseteq Statuses
      BY <1>1 DEF TablesOK
    <3>2. e[1] # n /\ e[2] # n
      BY <1>2, <3>1 DEF Statuses
    <3> QED
      BY <1>0, <1>1, <3>1, <3>2
  <2>3. rooted \subseteq {m \in Nodes : node'[m] \in Statuses}
    BY <1>1, <1>2, <1>3 DEF TablesOK, Statuses
  <2> QED
    BY <1>0, <1>1, <1>3, <2>1, <2>2, <2>3 DEF TablesOK
<1>5. PutsTyped'
  BY <1>0 DEF PutsInv, PutsTyped
<1>6. PutOK(i)'
  <2>1. \A s \in Steps : <<i, s>> \in Nodes /\ (s # step[i] => node'[<<i, s>>] = node[<<i, s>>])
    BY <1>1, <1>3, PutsAreItems, NodeIsOwn DEF n
  <2>2. Has(i, step[i])'
    BY <1>0, <1>1, <2>1, StepsCounted DEF PutOK, Has
  <2>3. Lacks(i, step[i] + 1)'
    BY <1>0, <1>1, <2>1, StepsCounted DEF PutOK, Lacks
  <2>4. pc'[i] = "status"
    BY <1>0 DEF PutsInv, PutsTyped
  <2> QED
    BY <1>0, <1>2, <2>2, <2>3, <2>4 DEF PutOK
<1>7. ASSUME NEW j \in Puts \ {i} PROVE PutOK(j)'
  <2>1. \A s \in Steps : <<j, s>> \in Nodes /\ <<j, s>> # n
    BY PutsAreItems DEF n, Nodes
  <2> QED
    BY <1>0, <1>3, <2>1, OtherPuts DEF PutsInv, PutsTyped
<1> QED
  BY <1>4, <1>5, <1>6, <1>7 DEF PutsInv

LEMMA StoreStatusKeeps == \A i \in Puts : PutsInv /\ StoreStatus(i) => PutsInv'
<1> SUFFICES ASSUME NEW i \in Puts, PutsInv, StoreStatus(i) PROVE PutsInv'
  OBVIOUS
<1> DEFINE n == <<i, step[i]>>
<1>0. /\ pc[i] = "status" /\ pc' = [pc EXCEPT ![i] = "input"] /\ UNCHANGED <<stamp, step>>
      /\ CreateStatus(n, "queued") /\ items' = items
  BY DEF StoreStatus, CreateStatus, Goto
<1>1. /\ PutOK(i) /\ TablesOK /\ step[i] \in Steps /\ step[i] \in Nat /\ n \in Nodes
      /\ node \in [Nodes -> {"absent", "bare"} \cup Statuses]
  BY PutsAreItems, StepsCounted DEF PutsInv, PutsTyped, TablesOK, Nodes
<1> HIDE DEF n
<1>3. /\ node'[n] = "queued"
      /\ \A m \in Nodes \ {n} : node'[m] = node[m]
  BY <1>0, <1>1 DEF CreateStatus
<1>4. TablesOK'
  <2>1. n[1] \in items /\ "queued" \in Statuses
    BY <1>0, <1>1 DEF PutOK, Statuses, n
  <2> QED
    BY <1>0, <1>1, <2>1, StatusKept
<1>5. PutsTyped'
  BY <1>0 DEF PutsInv, PutsTyped
<1>6. PutOK(i)'
  <2>1. \A s \in Steps : <<i, s>> \in Nodes /\ (s # step[i] => node'[<<i, s>>] = node[<<i, s>>])
    BY <1>1, <1>3, PutsAreItems, NodeIsOwn DEF n
  <2>2. Has(i, step[i])'
    BY <1>0, <1>1, <2>1, StepsCounted DEF PutOK, Has
  <2>3. Lacks(i, step[i] + 1)'
    BY <1>0, <1>1, <2>1, StepsCounted DEF PutOK, Lacks
  <2>4. pc'[i] = "input" /\ i \in items
    BY <1>0, <1>1 DEF PutsInv, PutsTyped, PutOK
  <2> QED
    BY <1>0, <1>3, <2>2, <2>3, <2>4 DEF PutOK, Statuses, n
<1>7. ASSUME NEW j \in Puts \ {i} PROVE PutOK(j)'
  <2>1. \A s \in Steps : <<j, s>> \in Nodes /\ <<j, s>> # n
    BY PutsAreItems DEF n, Nodes
  <2> QED
    BY <1>0, <1>3, <2>1, OtherPuts DEF PutsInv, PutsTyped
<1> QED
  BY <1>4, <1>5, <1>6, <1>7 DEF PutsInv

LEMMA AddInputKeeps == \A i \in Puts : PutsInv /\ AddInput(i) => PutsInv'
<1> SUFFICES ASSUME NEW i \in Puts, PutsInv, AddInput(i) PROVE PutsInv'
  OBVIOUS
<1> DEFINE n == <<i, step[i]>>
           p == <<i, Input[step[i]]>>
<1>0. /\ pc[i] = "input" /\ UNCHANGED <<stamp, store, items, createdAt, node>>
      /\ \/ rooted' = rooted \cup {n} /\ UNCHANGED edges
         \/ Input[step[i]] # 0 /\ edges' = edges \cup {<<p, n>>} /\ UNCHANGED rooted
      /\ \/ /\ step[i] + 1 \in Steps
            /\ step' = [step EXCEPT ![i] = step[i] + 1] /\ pc' = [pc EXCEPT ![i] = "node"]
         \/ /\ step[i] + 1 \notin Steps
            /\ pc' = [pc EXCEPT ![i] = "accepted"] /\ UNCHANGED step
  BY DEF AddInput, CreateRootInput, CreateEdge, Goto
<1>1. /\ PutOK(i) /\ TablesOK /\ step[i] \in Steps /\ step[i] \in Nat /\ n \in Nodes
      /\ i \in items /\ node[n] \in Statuses /\ Has(i, step[i])
  BY <1>0, PutsAreItems, StepsCounted DEF PutsInv, PutsTyped, PutOK, Nodes
<1>2. TablesOK'
  <2>1. CASE rooted' = rooted \cup {n} /\ UNCHANGED edges
    BY <1>0, <1>1, <2>1 DEF TablesOK
  <2>2. CASE Input[step[i]] # 0 /\ edges' = edges \cup {<<p, n>>} /\ UNCHANGED rooted
    <3>1. Input[step[i]] \in 1..step[i] - 1
      BY <1>1, <2>2, ListingAssumption
    <3>2. Input[step[i]] \in Steps /\ Input[step[i]] < step[i]
      BY <1>1, <3>1, StepsCounted
    <3>3. node[p] \in Statuses
      BY <1>1, <3>2 DEF Has
    <3>4. ASSUME NEW e \in edges'
          PROVE  e[1][1] = e[2][1] /\ {node[e[1]], node[e[2]]} \subseteq Statuses
      <4>1. CASE e = <<p, n>>
        BY <1>1, <3>3, <4>1
      <4>2. CASE e \in edges
        BY <1>1, <4>2 DEF TablesOK
      <4> QED
        BY <2>2, <4>1, <4>2
    <3> QED
      BY <1>0, <1>1, <2>2, <3>4 DEF TablesOK
  <2> QED
    BY <1>0, <2>1, <2>2
<1>3. PutsTyped'
  BY <1>0 DEF PutsInv, PutsTyped
<1>4. PutOK(i)'
  <2> pc \in [Puts -> {"new", "item", "node", "status", "input", "accepted", "refused"}]
    BY DEF PutsInv, PutsTyped
  <2> step \in [Puts -> Steps]
    BY DEF PutsInv, PutsTyped
  <2>1. CASE /\ step[i] + 1 \in Steps
             /\ step' = [step EXCEPT ![i] = step[i] + 1] /\ pc' = [pc EXCEPT ![i] = "node"]
    <3>1. pc'[i] = "node" /\ step'[i] = step[i] + 1
      BY <2>1
    <3>2. \A s \in Steps : s < step[i] + 1 => node[<<i, s>>] \in Statuses
      BY <1>1, StepsCounted DEF Has
    <3>3. \A s \in Steps : s >= step[i] + 1 => node[<<i, s>>] = "absent"
      BY <1>0, <1>1 DEF PutOK, Lacks
    <3> QED
      BY <1>0, <1>1, <3>1, <3>2, <3>3 DEF PutOK, Has, Lacks
  <2>2. CASE /\ step[i] + 1 \notin Steps
             /\ pc' = [pc EXCEPT ![i] = "accepted"] /\ UNCHANGED step
    <3>1. pc'[i] = "accepted" /\ step'[i] = step[i]
      BY <2>2
    <3>2. \A s \in Steps : s <= step[i]
      BY <1>1, <2>2, StepsCounted
    <3>3. \A s \in Steps : node[<<i, s>>] \in Statuses
      BY <1>1, <3>2, StepsCounted DEF Has
    <3> QED
      BY <1>0, <1>1, <3>1, <3>3 DEF PutOK, Has
  <2> QED
    BY <1>0, <2>1, <2>2
<1>5. ASSUME NEW j \in Puts \ {i} PROVE PutOK(j)'
  BY <1>0, OtherPuts DEF PutsInv, PutsTyped
<1> QED
  BY <1>2, <1>3, <1>4, <1>5 DEF PutsInv

LEMMA FailPutKeeps == \A i \in Puts : PutsInv /\ FailPut(i) => PutsInv'
<1> SUFFICES ASSUME NEW i \in Puts, PutsInv, FailPut(i) PROVE PutsInv'
  OBVIOUS
<1>0. pc' = [pc EXCEPT ![i] = "refused"]
      /\ UNCHANGED <<stamp, step, store, items, createdAt, node, edges, rooted>>
  BY DEF FailPut, Goto, tables
<1>1. TablesOK'
  BY <1>0 DEF PutsInv, TablesOK
<1>2. PutsTyped'
  BY <1>0 DEF PutsInv, PutsTyped
<1>3. PutOK(i)'
  BY <1>0 DEF PutsInv, PutsTyped, PutOK
<1>4. ASSUME NEW j \in Puts \ {i} PROVE PutOK(j)'
  BY <1>0, OtherPuts DEF PutsInv, PutsTyped
<1> QED
  BY <1>1, <1>2, <1>3, <1>4 DEF PutsInv

LEMMA ExecuteKeeps == \A n \in Nodes : PutsInv /\ Execute(n) => PutsInv'
<1> SUFFICES ASSUME NEW n \in Nodes, PutsInv, Execute(n) PROVE PutsInv'
  OBVIOUS
<1> DEFINE i == n[1]
<1>1. PICK s \in {"started", "finished"} :
        /\ CreateStatus(n, s) /\ i \in Puts /\ pc[i] = "accepted"
        /\ UNCHANGED <<pc, stamp, step, items>>
  BY DEF Execute, CreateStatus, putVars
<1>2. PutOK(i) /\ TablesOK /\ s \in Statuses /\ i \in items
  BY <1>1 DEF PutsInv, PutOK, Statuses
<1>3. /\ TablesOK'
      /\ \A m \in Nodes : node[m] \in Statuses => node'[m] \in Statuses
      /\ \A m \in Nodes \ {n} : node'[m] = node[m]
  BY <1>1, <1>2, StatusKept
<1>4. PutsTyped'
  BY <1>1 DEF PutsInv, PutsTyped
<1>5. PutOK(i)'
  <2>1. \A k \in Steps : <<i, k>> \in Nodes
    BY <1>1, PutsAreItems, NodeIsOwn
  <2>2. \A k \in Steps : node'[<<i, k>>] \in Statuses
    BY <1>1, <1>2, <1>3, <2>1 DEF PutOK
  <2> QED
    BY <1>1, <1>2, <2>2 DEF PutOK, Has, PutsInv, PutsTyped
<1>6. ASSUME NEW j \in Puts \ {i} PROVE PutOK(j)'
  <2>1. \A k \in Steps : <<j, k>> \in Nodes /\ <<j, k>> # n
    BY PutsAreItems DEF Nodes
  <2> QED
    BY <1>1, <1>3, <2>1, OtherPuts DEF PutsInv, PutsTyped
<1> QED
  BY <1>3, <1>4, <1>5, <1>6 DEF PutsInv

LEMMA PutsUntouched == PutsInv /\ UNCHANGED <<tables, putVars>> => PutsInv'
<1> SUFFICES ASSUME PutsInv, UNCHANGED <<tables, putVars>> PROVE PutsInv'
  OBVIOUS
<1> USE DEF tables, putVars
<1>1. TablesOK' /\ PutsTyped'
  BY DEF PutsInv, TablesOK, PutsTyped
<1>2. ASSUME NEW i \in Puts PROVE PutOK(i)'
  BY DEF PutsInv, PutOK, Has, Lacks
<1> QED
  BY <1>1, <1>2 DEF PutsInv

\* What the reading client does leaves the tables and the requests alone.
LEMMA ClientReads ==
  \/ \E i \in Items : AskItem(i)
  \/ \E order \in Orders, size \in PageSizes : AskFirstPage(order, size)
  \/ ClientStep
  => UNCHANGED <<tables, putVars>>
BY DEF AskItem, AskFirstPage, ClientStep, List, GetItem, ReadNodes, ReadNode, ReadRoot, ReadStart,
       ReadEnd, ReadShare, Proceed, Count, AskNextPage, Leave

LEMMA NextPuts == PutsInv /\ [Next]_vars => PutsInv'
<1> SUFFICES ASSUME PutsInv, [Next]_vars PROVE PutsInv'
  OBVIOUS
<1>1. ASSUME NEW i \in Puts, PutStep(i) \/ FailPut(i) PROVE PutsInv'
  BY <1>1, PutKeeps, NewItemKeeps, NewNodeKeeps, StoreStatusKeeps, AddInputKeeps, FailPutKeeps
     DEF PutStep
<1>2. ASSUME NEW n \in Nodes, Execute(n) PROVE PutsInv'
  BY <1>2, ExecuteKeeps
<1>3. CASE UNCHANGED <<tables, putVars>>
  BY <1>3, PutsUntouched
<1> QED
  BY <1>1, <1>2, <1>3, ClientReads DEF Next, vars

-----------------------------------------------------------------------------
\* What the client reads.

LEMMA KindsOfWalks ==
  ASSUME WalkOK
  PROVE  /\ Paging <=> walk \in Pages
         /\ walk \in Pages => walk \notin [id : Items]
<1>1. \A w \in [id : Items] : DOMAIN w = {"id"}
  OBVIOUS
<1>2. \A w \in Pages : DOMAIN w = {"order", "size", "page"}
  BY DEF Pages
<1>3. \A w \in Pages : w # NoWalk
  <2>1. DOMAIN NoWalk = {}
    BY DEF NoWalk
  <2> QED
    BY <1>2, <2>1
<1> QED
  BY <1>1, <1>2, <1>3 DEF WalkOK, Paging

LEMMA PushFits ==
  ASSUME NEW S \in SUBSET Nodes, NEW fs \in Seq(Levels)
  PROVE  Push(S, fs) \in Seq(Levels)
<1>1. CASE S = {}
  BY <1>1 DEF Push
<1>2. CASE S # {}
  <2>1. <<S>> \in Seq(Levels)
    BY <1>2 DEF Levels
  <2>2. <<S>> \o fs \in Seq(Levels)
    BY <2>1, ConcatProperties
  <2> QED
    BY <1>2, <2>2 DEF Push
<1> QED
  BY <1>1, <1>2

LEMMA RestFits ==
  ASSUME frames \in Seq(Levels), frames # <<>>
  PROVE  /\ Head(frames) \in Levels /\ Tail(frames) \in Seq(Levels)
         /\ \A n : Rest(n) \in Seq(Levels)
<1>1. Head(frames) \in Levels /\ Tail(frames) \in Seq(Levels)
  OBVIOUS
<1>2. ASSUME NEW n PROVE Rest(n) \in Seq(Levels)
  <2>1. Head(frames) \ {n} \in SUBSET Nodes
    BY <1>1 DEF Levels
  <2> QED
    BY <1>1, <2>1, PushFits DEF Rest
<1> QED
  BY <1>1, <1>2

\* Wherever the reading goes on there is a row, and its roots are nodes.
LEMMA TurnFits ==
  ASSUME NEW ph, NEW j, Turn(ph, j), view \in [Items -> Views], view' = view,
         items \subseteq Items, rows' \in Seq(items),
         ph \in {"start", "end", "share"} => j \in DOMAIN rows'
  PROVE  /\ phase' = ph /\ row' = j /\ frames' \in Seq(Levels)
         /\ ph \notin {"start", "end", "share"} => frames' = <<>>
<1>1. CASE ph \in {"start", "end", "share"}
  <2>1. rows'[j] \in Items
    BY <1>1
  <2>2. view'[rows'[j]].roots \in SUBSET Nodes
    BY <2>1 DEF Views
  <2> DEFINE S == view'[rows'[j]].roots
  <2>3. S # {} => <<S>> \in Seq(Levels)
    BY <2>2 DEF Levels
  <2>4. frames' = IF S # {} THEN <<S>> ELSE <<>>
    BY <1>1 DEF Turn
  <2>5. frames' \in Seq(Levels)
    BY <2>3, <2>4
  <2> QED
    BY <1>1, <2>5 DEF Turn
<1>2. CASE ph \notin {"start", "end", "share"}
  BY <1>2 DEF Turn
<1> QED
  BY <1>1, <1>2

LEMMA InitRead == Init => ReadInv
<1> SUFFICES ASSUME Init PROVE ReadInv
  OBVIOUS
<1>1. NoWalk = <<>> /\ walk = <<>> /\ phase = "idle"
  BY DEF Init, NoWalk
<1>2. WalkOK
  <2>1. \A w \in Pages : DOMAIN w = {"order", "size", "page"}
    BY DEF Pages
  <2>2. walk \notin Pages
    BY <1>1, <2>1
  <2> QED
    BY <1>1, <2>2 DEF WalkOK
<1>3. Promised
  <2>1. walk \notin Pages
    BY <1>1, <1>2, KindsOfWalks DEF Paging
  <2> QED
    BY <2>1 DEF Promised
<1>4. ReadTyped
  BY DEF Init, ReadTyped, Unread, Views
<1> QED
  BY <1>1, <1>2, <1>3, <1>4 DEF Init, ReadInv, RowsOK, RootsOfRow, Reading

\* What is stored meanwhile spoils nothing: there are only more items.
LEMMA ReadUntouched ==
  ASSUME ReadInv, items \subseteq items', items' \subseteq Items, UNCHANGED readVars
  PROVE  ReadInv'
<1> USE DEF readVars
<1>1. ReadTyped' /\ WalkOK' /\ RootsOfRow'
  BY DEF ReadInv, ReadTyped, WalkOK, RootsOfRow
<1>2. RowsOK'
  <2>1. rows' \in Seq(items')
    BY SeqMonotonic DEF ReadInv, RowsOK
  <2> QED
    BY <2>1 DEF ReadInv, RowsOK
<1>3. Promised'
  <2> SUFFICES ASSUME walk \in Pages, walk.page > 1 PROVE walk.page <= TotalPages'
    BY DEF Promised
  <2>1. walk.page <= TotalPages
    BY DEF ReadInv, Promised
  <2>2. /\ Cardinality(items) \in Nat /\ Cardinality(items') \in Nat
        /\ Cardinality(items) <= Cardinality(items')
    BY TableAssumption, FS_Subset, FS_CardinalityType
  <2>3. walk.size \in Nat \ {0} /\ walk.page \in Nat
    BY ListingAssumption DEF Pages
  <2>4. TotalPages <= TotalPages'
    BY <2>2, <2>3, PagesGrow DEF TotalPages, CountQueueItems
  <2>5. TotalPages \in Nat /\ TotalPages' \in Nat
    BY <2>2, <2>3, PageOfSome DEF TotalPages, CountQueueItems
  <2> QED
    BY <2>1, <2>3, <2>4, <2>5
<1> QED
  BY <1>1, <1>2, <1>3 DEF ReadInv

LEMMA OthersRead ==
  \/ \E i \in Puts : PutStep(i) \/ FailPut(i)
  \/ \E n \in Nodes : Execute(n)
  => items \subseteq items' /\ UNCHANGED readVars
BY DEF PutStep, Put, NewItem, NewNode, StoreStatus, AddInput, FailPut, Execute, CreateQueueItem,
       CreateAndReturnNode, CreateStatus, CreateRootInput, CreateEdge, tables

LEMMA AskKeeps ==
  ASSUME PutsInv, ReadInv,
         \/ \E i \in Items : AskItem(i)
         \/ \E order \in Orders, size \in PageSizes : AskFirstPage(order, size)
  PROVE  ReadInv'
<1>0. /\ items' = items /\ UNCHANGED <<rows, row, frames, view, seen>>
      /\ phase = "idle" /\ rows = <<>>
  BY DEF AskItem, AskFirstPage, tables, ReadInv, RowsOK
<1>1. CASE \E i \in Items : AskItem(i)
  <2>1. walk' \in [id : Items] /\ phase' = "item" /\ due' = due
    BY <1>1 DEF AskItem, OfItem
  <2>2. walk' \notin Pages
    <3>1. \A w \in Pages : DOMAIN w = {"order", "size", "page"}
      BY DEF Pages
    <3> QED
      BY <2>1, <3>1
  <2> QED
    BY <1>0, <2>1, <2>2 DEF ReadInv, ReadTyped, WalkOK, Promised, RowsOK, RootsOfRow, Reading
<1>2. CASE \E order \in Orders, size \in PageSizes : AskFirstPage(order, size)
  <2>1. walk' \in Pages /\ walk'.page = 1 /\ phase' = "list" /\ due' = items
    BY <1>2 DEF AskFirstPage, OfPage, Pages
  <2> QED
    BY <1>0, <2>1 DEF ReadInv, ReadTyped, WalkOK, Promised, RowsOK, RootsOfRow, Reading
<1> QED
  BY <1>1, <1>2

LEMMA ListKeeps == PutsInv /\ ReadInv /\ List => ReadInv'
<1> SUFFICES ASSUME PutsInv, ReadInv, List PROVE ReadInv'
  OBVIOUS
<1>0. /\ items' = items /\ items \subseteq Items /\ view' = view /\ phase = "list"
      /\ UNCHANGED <<tables, putVars, walk, due, seen>> /\ view \in [Items -> Views]
  BY DEF List, tables, ReadInv, ReadTyped, PutsInv, TablesOK
<1>1. walk \in Pages /\ walk.page \in Nat \ {0} /\ walk.size \in Nat \ {0} /\ walk.order \in Orders
  BY <1>0, ListingAssumption DEF ReadInv, WalkOK, Pages
<1>2. rows' \in Seq(items)
  BY <1>0, <1>1, RowsOfItems DEF List
<1>3. phase' \in {"count", "nodes"} /\ row' = 1 /\ frames' = <<>>
      /\ (phase' = "nodes" => rows' # <<>>)
  BY DEF List, Turn
<1>4. rows' # <<>> => 1 \in DOMAIN rows'
  BY <1>2
<1> QED
  BY <1>0, <1>1, <1>2, <1>3, <1>4
     DEF ReadInv, ReadTyped, WalkOK, Promised, TotalPages, CountQueueItems, RowsOK, RootsOfRow, Reading

LEMMA GetItemKeeps == PutsInv /\ ReadInv /\ GetItem => ReadInv'
<1> SUFFICES ASSUME PutsInv, ReadInv, GetItem PROVE ReadInv'
  OBVIOUS
<1>0. /\ items' = items /\ view' = view /\ phase = "item" /\ rows = <<>>
      /\ UNCHANGED <<walk, due, seen>>
  BY DEF GetItem, tables, ReadInv, RowsOK
<1>1. walk \in [id : Items] /\ walk \notin Pages
  BY <1>0, KindsOfWalks DEF ReadInv, WalkOK
<1>2. CASE walk.id \in items /\ rows' = <<walk.id>> /\ Turn("nodes", 1)
  <2>1. rows' \in Seq(items) /\ 1 \in DOMAIN rows' /\ phase' = "nodes" /\ row' = 1 /\ frames' = <<>>
    BY <1>2 DEF Turn
  <2> QED
    BY <1>0, <1>1, <2>1 DEF ReadInv, ReadTyped, WalkOK, Promised, RowsOK, RootsOfRow, Reading
<1>3. CASE phase' \in {"missing", "failed"} /\ UNCHANGED <<rows, row, frames>>
  BY <1>0, <1>1, <1>3 DEF ReadInv, ReadTyped, WalkOK, Promised, RowsOK, RootsOfRow, Reading
<1> QED
  BY <1>2, <1>3 DEF GetItem

\* What a step within the reads of an answer leaves alone.
LEMMA WithinAnswer ==
  ASSUME ReadInv, items' = items, UNCHANGED <<walk, due, seen, rows>>,
         phase \in Reading,
         phase' \in Reading \cup {"failed", "shown", "count"},
         phase' = "count" => Paging,
         phase' \in Reading => row' \in DOMAIN rows,
         frames' \in Seq(Levels), view' \in [Items -> Views], RootsOfRow'
  PROVE  ReadInv'
<1>1. Paging <=> walk \in Pages
  BY KindsOfWalks DEF ReadInv
<1>2. phase \notin {"shown", "item", "list"}
  BY DEF Reading
<1>3. WalkOK'
  BY <1>1, <1>2 DEF ReadInv, WalkOK, Reading
<1>4. ReadTyped' /\ RowsOK'
  BY DEF ReadInv, ReadTyped, RowsOK, Reading
<1>5. Promised'
  BY DEF ReadInv, Promised, TotalPages, CountQueueItems
<1> QED
  BY <1>3, <1>4, <1>5 DEF ReadInv

LEMMA ReadNodesKeeps == PutsInv /\ ReadInv /\ ReadNodes => ReadInv'
<1> SUFFICES ASSUME PutsInv, ReadInv, ReadNodes PROVE ReadInv'
  OBVIOUS
<1> DEFINE nodes == GetNodesByQueueItemID(rows[row])
<1>0. /\ items' = items /\ phase = "nodes" /\ phase' = "roots"
      /\ UNCHANGED <<walk, due, seen, rows, row, view>>
      /\ frames' = IF nodes = {} THEN <<>> ELSE <<nodes>>
  BY DEF ReadNodes, tables
<1>1. rows[row] \in Items /\ row \in DOMAIN rows
  BY <1>0 DEF ReadInv, RowsOK, Reading, PutsInv, TablesOK
<1>2. nodes \subseteq {rows[row]} \X Steps /\ nodes \subseteq Nodes
  BY <1>1 DEF GetNodesByQueueItemID, Nodes
<1> HIDE DEF nodes
<1>3. frames' \in Seq(Levels)
  BY <1>0, <1>2 DEF Levels
<1>4. RootsOfRow'
  BY <1>0, <1>2 DEF RootsOfRow
<1> QED
  BY <1>0, <1>1, <1>3, <1>4, WithinAnswer DEF Reading, ReadInv, ReadTyped

LEMMA ReadNodeKeeps == PutsInv /\ ReadInv /\ ReadNode => ReadInv'
<1> SUFFICES ASSUME PutsInv, ReadInv, ReadNode PROVE ReadInv'
  OBVIOUS
<1>1. PICK n \in Nodes : frames # <<>> /\ n \in Head(frames)
                         /\ (ReadRoot(n) \/ ReadStart(n) \/ ReadEnd(n) \/ ReadShare(n))
  BY DEF ReadNode
<1> DEFINE i == rows[row]
<1>2. /\ items' = items /\ UNCHANGED <<walk, due, seen, rows, row>>
      /\ phase \in {"roots", "start", "end", "share"} /\ phase' \in {phase, "failed"}
  BY <1>1 DEF ReadRoot, ReadStart, ReadEnd, ReadShare, tables
<1>3. row \in DOMAIN rows /\ i \in Items /\ view[i] \in Views
  BY <1>2 DEF ReadInv, ReadTyped, RowsOK, Reading, PutsInv, TablesOK
<1>4. /\ frames \in Seq(Levels) /\ view \in [Items -> Views]
      /\ Tail(frames) \in Seq(Levels) /\ Rest(n) \in Seq(Levels)
  BY <1>1, RestFits DEF ReadInv, ReadTyped
<1>5. \A m \in Nodes : IsStarted(m) \in BOOLEAN /\ IsEnded(m) \in BOOLEAN /\ Children(m) \subseteq Nodes
  BY DEF IsStarted, IsEnded, Children
<1> HIDE DEF i
<1>6. frames' \in Seq(Levels) /\ view' \in [Items -> Views]
  <2>1. CASE ReadRoot(n)
    <3>1. CASE frames' = Rest(n) /\ See("roots", Seen.roots \cup ({n} \cap rooted))
      <4>1. view' = [view EXCEPT ![i] = [view[i] EXCEPT !["roots"] = view[i].roots \cup ({n} \cap rooted)]]
        BY <3>1 DEF See, Seen, i
      <4>2. view[i].roots \cup ({n} \cap rooted) \in SUBSET Nodes
        BY <1>3 DEF Views
      <4> QED
        BY <1>3, <1>4, <3>1, <4>1, <4>2 DEF Views
    <3> QED
      BY <1>4, <2>1, <3>1 DEF ReadRoot
  <2>2. CASE ReadStart(n)
    <3>1. view' = [view EXCEPT ![i] = [view[i] EXCEPT !["started"] = view[i].started \/ IsStarted(n)]]
      BY <2>2 DEF ReadStart, See, Seen, i
    <3>2. (view[i].started \/ IsStarted(n)) \in BOOLEAN
      OBVIOUS
    <3> QED
      BY <1>3, <1>4, <2>2, <3>1, <3>2 DEF Views, ReadStart
  <2>3. CASE ReadEnd(n)
    <3>1. view' = [view EXCEPT ![i] = [view[i] EXCEPT !["ended"] = IsEnded(n)]]
      BY <2>3 DEF ReadEnd, See, i
    <3>2. Push(Children(n), Rest(n)) \in Seq(Levels)
      BY <1>4, <1>5, PushFits
    <3> QED
      BY <1>3, <1>4, <1>5, <2>3, <3>1, <3>2 DEF Views, ReadEnd
  <2>4. CASE ReadShare(n)
    <3> DEFINE new == {n} \ Seen.known
               next == UNION {Children(m) : m \in new}
               ended == {m \in new : IsEnded(m)}
    <3>1. /\ frames' = Push(next, Rest(n))
          /\ view' = [view EXCEPT ![rows[row]] =
                        [@ EXCEPT !.known = Seen.known \cup new, !.done = Seen.done \cup ended]]
      BY <2>4 DEF ReadShare
    <3>2. next \in SUBSET Nodes /\ new \in SUBSET Nodes /\ ended \in SUBSET Nodes
      BY <1>5
    <3> HIDE DEF new, next, ended
    <3> DEFINE added == [Seen EXCEPT !.known = Seen.known \cup new, !.done = Seen.done \cup ended]
    <3>3. view' = [view EXCEPT ![rows[row]] = added]
      BY <3>1 DEF Seen
    <3>4. added \in Views
      BY <1>3, <3>2 DEF Views, Seen, i
    <3>5. view' \in [Items -> Views]
      BY <1>3, <1>4, <3>3, <3>4 DEF i
    <3>6. frames' \in Seq(Levels)
      BY <1>4, <3>1, <3>2, PushFits
    <3> QED
      BY <3>5, <3>6
  <2> QED
    BY <1>1, <2>1, <2>2, <2>3, <2>4
<1>7. RootsOfRow'
  <2> SUFFICES ASSUME phase' = "roots"
               PROVE  frames' = <<>> \/ \E S \in SUBSET ({i} \X Steps) : frames' = <<S>>
    BY <1>2 DEF RootsOfRow, i
  <2>1. frames' = Rest(n) /\ phase = "roots"
    BY <1>1, <1>2 DEF ReadRoot, ReadStart, ReadEnd, ReadShare
  <2>2. PICK S \in SUBSET ({i} \X Steps) : frames = <<S>>
    BY <1>1, <2>1 DEF ReadInv, RootsOfRow, i
  <2>3. Head(frames) = S /\ Tail(frames) = <<>>
    BY <2>2
  <2>4. CASE S \ {n} = {}
    BY <2>1, <2>3, <2>4 DEF Rest, Push
  <2>5. CASE S \ {n} # {}
    <3>1. frames' = <<S \ {n}>> \o <<>>
      BY <2>1, <2>3, <2>5 DEF Rest, Push
    <3>2. frames' = <<S \ {n}>>
      BY <3>1
    <3> QED
      BY <3>2
  <2> QED
    BY <2>4, <2>5
<1> QED
  BY <1>2, <1>3, <1>6, <1>7, WithinAnswer DEF Reading

LEMMA ProceedKeeps == PutsInv /\ ReadInv /\ Proceed => ReadInv'
<1> SUFFICES ASSUME PutsInv, ReadInv, Proceed PROVE ReadInv'
  OBVIOUS
<1>1. /\ items' = items /\ items \subseteq Items /\ frames = <<>>
      /\ UNCHANGED <<walk, due, seen, rows, view>> /\ view \in [Items -> Views]
      /\ rows \in Seq(items) /\ phase \in {"roots", "start", "end", "share"}
      /\ row \in DOMAIN rows
  BY DEF Proceed, tables, ReadInv, ReadTyped, RowsOK, Reading, PutsInv, TablesOK
<1>2. 1 \in DOMAIN rows /\ (row < Len(rows) => row + 1 \in DOMAIN rows)
  BY <1>1
<1>3. PICK ph, j : /\ Turn(ph, j)
                   /\ ph \in (Reading \ {"roots"}) \cup {"count", "shown"}
                   /\ ph = "count" => Paging
                   /\ ph \in Reading => j \in DOMAIN rows
  <2>1. CASE phase \in {"roots", "start", "end"}
    BY <1>1, <1>2, <2>1 DEF Proceed, Reading
  <2>2. CASE phase = "share" /\ row < Len(rows)
    BY <1>1, <1>2, <2>2 DEF Proceed, Reading
  <2>3. CASE phase = "share" /\ row = Len(rows) /\ Turn(IF Paging THEN "count" ELSE "shown", 1)
    BY <2>3 DEF Reading
  <2> QED
    BY <1>1, <2>1, <2>2, <2>3 DEF Proceed
<1>4. phase' = ph /\ row' = j /\ frames' \in Seq(Levels)
  BY <1>1, <1>3, TurnFits DEF Reading
<1>5. RootsOfRow'
  BY <1>3, <1>4 DEF RootsOfRow
<1> QED
  BY <1>1, <1>2, <1>3, <1>4, <1>5, WithinAnswer DEF Reading

LEMMA CountKeeps == PutsInv /\ ReadInv /\ Count => ReadInv'
<1> SUFFICES ASSUME PutsInv, ReadInv, Count PROVE ReadInv'
  OBVIOUS
<1>1. /\ items' = items /\ UNCHANGED <<due, rows, row, frames, view>>
      /\ phase = "count" /\ walk \in Pages /\ rows \in Seq(items)
      /\ phase' \in {"empty", "shown"} /\ TotalPages' = (CountQueueItems + walk'.size - 1) \div walk'.size
  BY DEF Count, tables, ReadInv, WalkOK, RowsOK, TotalPages, CountQueueItems
<1>2. walk.page \in Nat /\ walk.size \in Nat \ {0} /\ walk.page # 0
  BY <1>1, ListingAssumption DEF Pages, ReadInv, WalkOK
<1>3. CASE phase' = "empty" /\ UNCHANGED <<walk, seen>>
  BY <1>1, <1>2, <1>3
     DEF ReadInv, ReadTyped, WalkOK, Promised, TotalPages, RowsOK, RootsOfRow, Reading
<1>4. CASE /\ seen' = seen \cup ToSet(rows)
           /\ walk' = [walk EXCEPT !.page = IF @ < TotalPages THEN @ + 1 ELSE 0]
           /\ phase' = "shown"
  <2>1. ToSet(rows) \subseteq items
    BY <1>1 DEF ToSet
  <2>2. TotalPages \in Nat
    BY <1>2, ItemsCounted, PageOfSome DEF TotalPages, CountQueueItems, PutsInv, TablesOK
  <2>3. /\ walk' \in Pages /\ walk'.size = walk.size
        /\ walk'.page > 1 => walk'.page <= TotalPages
    BY <1>1, <1>2, <1>4, <2>2 DEF Pages
  <2>4. TotalPages' = TotalPages
    BY <1>1, <2>3 DEF TotalPages
  <2> QED
    BY <1>1, <1>4, <2>1, <2>3, <2>4 DEF ReadInv, ReadTyped, WalkOK, Promised, RowsOK, RootsOfRow, Reading
<1> QED
  BY <1>3, <1>4 DEF Count

LEMMA ForgetKeeps == PutsInv /\ ReadInv /\ (AskNextPage \/ Leave) => ReadInv'
<1> SUFFICES ASSUME PutsInv, ReadInv, AskNextPage \/ Leave PROVE ReadInv'
  OBVIOUS
<1>1. /\ items' = items /\ rows' = <<>> /\ frames' = <<>>
      /\ view' = [i \in Items |-> Unread] /\ phase' \in {"idle", "list"}
  BY DEF AskNextPage, Leave, Forget, tables
<1>2. view' \in [Items -> Views]
  BY <1>1 DEF Unread, Views
<1>3. CASE AskNextPage
  <2>1. walk \in Pages /\ walk.page # 0 /\ UNCHANGED <<walk, due, seen>> /\ phase' = "list"
    BY <1>3, KindsOfWalks DEF AskNextPage, ReadInv
  <2>2. Promised'
    BY <1>1, <2>1 DEF ReadInv, Promised, TotalPages, CountQueueItems
  <2> QED
    BY <1>1, <1>2, <2>1, <2>2 DEF ReadInv, ReadTyped, WalkOK, RowsOK, RootsOfRow, Reading
<1>4. CASE Leave
  <2>1. walk' = NoWalk /\ due' = {} /\ seen' = {} /\ phase' = "idle"
    BY <1>4 DEF Leave
  <2>2. walk' \notin Pages
    <3>1. \A w \in Pages : DOMAIN w = {"order", "size", "page"}
      BY DEF Pages
    <3>2. DOMAIN NoWalk = {}
      BY DEF NoWalk
    <3> QED
      BY <2>1, <3>1, <3>2
  <2> QED
    BY <1>1, <1>2, <2>1, <2>2 DEF ReadInv, ReadTyped, WalkOK, Promised, RowsOK, RootsOfRow, Reading
<1> QED
  BY <1>3, <1>4

LEMMA NextRead == PutsInv /\ PutsInv' /\ ReadInv /\ [Next]_vars => ReadInv'
<1> SUFFICES ASSUME PutsInv, PutsInv', ReadInv, [Next]_vars PROVE ReadInv'
  OBVIOUS
<1>1. items' \subseteq Items
  BY DEF PutsInv, TablesOK
<1>2. CASE items \subseteq items' /\ UNCHANGED readVars
  BY <1>1, <1>2, ReadUntouched
<1>3. CASE ClientStep
  BY <1>3, ListKeeps, GetItemKeeps, ReadNodesKeeps, ReadNodeKeeps, ProceedKeeps, CountKeeps, ForgetKeeps
     DEF ClientStep
<1> QED
  BY <1>2, <1>3, AskKeeps, OthersRead DEF Next, vars, tables

-----------------------------------------------------------------------------
\* Theorems.

LEMMA InvHolds == Spec => []ListingInv
<1>1. Init => ListingInv
  BY InitPuts, InitRead DEF ListingInv
<1>2. ListingInv /\ [Next]_vars => ListingInv'
  BY NextPuts, NextRead DEF ListingInv
<1> QED
  BY <1>1, <1>2, PTL DEF Spec

\* Whatever clients put, whichever of the calls fail, and whatever another client is
\* reading: the rows fit together and answers are about items that have rows.
THEOREM ListingTyped == Spec => []TypeOK
<1>1. ListingInv => TypeOK
  <2> SUFFICES ASSUME ListingInv PROVE TypeOK
    OBVIOUS
  <2>1. ASSUME NEW i \in Puts
        PROVE  /\ step[i] \in Steps
               /\ pc[i] \in {"node", "status", "input", "accepted"} =>
                    \A s \in 1..step[i] - 1 : node[<<i, s>>] \in Statuses
    <3>1. step[i] \in Steps /\ PutOK(i)
      BY DEF ListingInv, PutsInv, PutsTyped
    <3>2. \A s \in 1..step[i] - 1 : s \in Steps /\ s < step[i]
      BY <3>1, StepsCounted
    <3> QED
      BY <3>1, <3>2 DEF PutOK, Has
  <2>2. \A k \in DOMAIN rows : rows[k] \in items
    BY DEF ListingInv, ReadInv, RowsOK
  <2>3. \A k \in DOMAIN frames : frames[k] # {} /\ frames[k] \subseteq Nodes
    BY DEF ListingInv, ReadInv, ReadTyped, Levels
  <2> QED
    BY <2>1, <2>2, <2>3
       DEF ListingInv, PutsInv, PutsTyped, ReadInv, ReadTyped, Reading, Views, TypeOK
<1> QED
  BY <1>1, InvHolds, PTL

\* A node that has no status yet belongs to an item that is not whole.
LEMMA BareIsUnfinished ==
  ASSUME PutsInv, NEW i \in Items, NEW s \in Steps, node[<<i, s>>] = "bare"
  PROVE  ~Whole(i)
<1>1. "bare" \notin Statuses
  BY DEF Statuses
<1>2. CASE i \in Puts
  <2>1. PutOK(i)
    BY <1>2 DEF PutsInv
  <2> QED
    BY <1>1, <1>2, <2>1 DEF PutOK, Whole
<1>3. CASE i \notin Puts
  BY <1>3 DEF Whole
<1> QED
  BY <1>2, <1>3

LEMMA StepFailsForUnfinished ==
  ASSUME ListingInv, Next, phase # "failed", phase' = "failed"
  PROVE  /\ store = "postgres"
         /\ \/ rows = <<>> /\ walk.id \notin items
            \/ \E k \in DOMAIN rows : ~Whole(rows[k])
<1>1. GetItem \/ \E n \in Nodes : frames # <<>> /\ n \in Head(frames) /\ ReadRoot(n)
  <2>1. phase' # phase
    OBVIOUS
  <2>2. ~UNCHANGED readVars
    BY <2>1 DEF readVars
  <2>3. ASSUME List \/ ReadNodes \/ Proceed \/ Count \/ AskNextPage \/ Leave PROVE FALSE
    BY <2>3 DEF List, ReadNodes, Proceed, Count, AskNextPage, Leave, Turn
  <2>4. ASSUME \/ \E i \in Items : AskItem(i)
               \/ \E order \in Orders, size \in PageSizes : AskFirstPage(order, size)
        PROVE  FALSE
    BY <2>4 DEF AskItem, AskFirstPage
  <2>5. GetItem \/ ReadNode
    BY <2>2, <2>3, <2>4, OthersRead DEF Next, ClientStep
  <2> QED
    BY <2>1, <2>5 DEF ReadNode, ReadStart, ReadEnd, ReadShare
<1>2. store \in {"memory", "postgres"} /\ items \subseteq Items
  BY DEF ListingInv, PutsInv, TablesOK
<1>3. CASE GetItem
  <2>1. rows = <<>>
    BY <1>3 DEF GetItem, ListingInv, ReadInv, RowsOK
  <2>2. walk.id \notin items /\ store # "memory"
    BY <1>3 DEF GetItem, Turn
  <2> QED
    BY <1>2, <2>1, <2>2
<1>4. ASSUME NEW n \in Nodes, frames # <<>>, n \in Head(frames), ReadRoot(n)
      PROVE  store = "postgres" /\ \E k \in DOMAIN rows : ~Whole(rows[k])
  <2>1. phase = "roots" /\ store = "postgres" /\ node[n] = "bare"
    BY <1>4 DEF ReadRoot, GetsNodeByID
  <2>2. PICK S \in SUBSET ({rows[row]} \X Steps) : frames = <<S>>
    BY <1>4, <2>1 DEF ListingInv, ReadInv, RootsOfRow
  <2>3. n \in {rows[row]} \X Steps
    BY <1>4, <2>2
  <2>4. PICK s \in Steps : n = <<rows[row], s>>
    BY <2>3
  <2>5. row \in DOMAIN rows /\ rows[row] \in Items
    BY <1>2, <2>1 DEF ListingInv, ReadInv, RowsOK, Reading
  <2>6. ~Whole(rows[row])
    BY <2>1, <2>4, <2>5, BareIsUnfinished DEF ListingInv
  <2> QED
    BY <2>1, <2>5, <2>6
<1> QED
  BY <1>1, <1>3, <1>4

\* No answer ever fails but for an unknown item or one that is not whole: an accepted
\* item does not make an answer fail, however many other items are being put.
THEOREM AnswersFailOnlyForUnfinished == Spec => FailsOnlyForUnfinished
<1>1. ListingInv /\ [Next]_vars =>
        [phase # "failed" /\ phase' = "failed" =>
           /\ store = "postgres"
           /\ \/ rows = <<>> /\ walk.id \notin items
              \/ \E k \in DOMAIN rows : ~Whole(rows[k])]_vars
  BY StepFailsForUnfinished
<1> QED
  BY <1>1, InvHolds, PTL DEF Spec, FailsOnlyForUnfinished

LEMMA StepRefusesWhenEmpty ==
  ASSUME ListingInv, Next, phase # "empty", phase' = "empty"
  PROVE  items = {} /\ walk.page = 1
<1>1. Count
  <2>1. ~UNCHANGED readVars
    BY DEF readVars
  <2>2. ~ReadNode
    BY DEF ReadNode, ReadRoot, ReadStart, ReadEnd, ReadShare
  <2>3. ASSUME List \/ GetItem \/ ReadNodes \/ Proceed \/ AskNextPage \/ Leave PROVE FALSE
    BY <2>3 DEF List, GetItem, ReadNodes, Proceed, AskNextPage, Leave, Turn
  <2>4. ASSUME \/ \E i \in Items : AskItem(i)
               \/ \E order \in Orders, size \in PageSizes : AskFirstPage(order, size)
        PROVE  FALSE
    BY <2>4 DEF AskItem, AskFirstPage
  <2> QED
    BY <2>1, <2>2, <2>3, <2>4, OthersRead DEF Next, ClientStep
<1>2. walk \in Pages /\ walk.page > TotalPages /\ phase = "count"
  BY <1>1 DEF Count, ListingInv, ReadInv, WalkOK
<1>3. walk.page \in Nat \ {0} /\ walk.size \in Nat \ {0}
  BY <1>2, ListingAssumption DEF Pages, ListingInv, ReadInv, WalkOK
<1>4. IsFiniteSet(items) /\ CountQueueItems \in Nat
  BY ItemsCounted DEF ListingInv, PutsInv, TablesOK
<1>5. TotalPages \in Nat /\ (CountQueueItems # 0 => TotalPages >= 1)
  BY <1>3, <1>4, PageOfSome DEF TotalPages
<1>6. walk.page = 1
  BY <1>2, <1>3, <1>5 DEF ListingInv, ReadInv, Promised
<1>7. CountQueueItems = 0
  BY <1>2, <1>5, <1>6
<1> QED
  BY <1>4, <1>6, <1>7, FS_EmptySet DEF CountQueueItems

\* No page is refused that an earlier answer promised, for every page size and however
\* many items are put on the way.
THEOREM PromisedPagesAnswered == Spec => RefusedOnlyWhenEmpty
<1>1. ListingInv /\ [Next]_vars =>
        [phase # "empty" /\ phase' = "empty" => items = {} /\ walk.page = 1]_vars
  BY StepRefusesWhenEmpty
<1> QED
  BY <1>1, InvHolds, PTL DEF Spec, RefusedOnlyWhenEmpty

-----------------------------------------------------------------------------
\* Page after page.  The items that come before one with a time of its own are as many
\* whatever the order of those with equal times, and never fewer than before: that is
\* why an item that was behind a page is on the next one or still behind it.

Earlier(i) ==
  {j \in items : IF walk.order = "created_at" THEN createdAt[j] < createdAt[i]
                 ELSE createdAt[j] > createdAt[i]}
Ahead(i, n) == Cardinality(Earlier(i)) >= n

Listed == Reading \cup {"count"}

NotShownYet(i) ==
  /\ walk.page # 0
  /\ Ahead(i, (walk.page - 1) * walk.size)
  /\ phase \in Listed /\ i \notin ToSet(rows) => Ahead(i, walk.page * walk.size)

OnOnePage ==
  /\ phase \in Listed => due \subseteq ToSet(rows)
  /\ phase = "shown" => due \subseteq seen

WalkInv ==
  walk \in Pages =>
    /\ store = "postgres" => \A i \in due \ seen : OwnTime(i) => NotShownYet(i)
    /\ store = "memory" /\ Cardinality(items) <= walk.size => OnOnePage

LEMMA AllInOrder ==
  ASSUME items \subseteq Items, NEW all \in SetToSeqs(items)
  PROVE  /\ all \in Seq(items) /\ Len(all) = Cardinality(items)
         /\ all \in Injection(1..Cardinality(items), items)
         /\ all \in Surjection(1..Cardinality(items), items)
<1>1. Cardinality(items) \in Nat /\ IsFiniteSet(items)
  BY ItemsCounted DEF CountQueueItems
<1>2. all \in Injection(1..Cardinality(items), items)
  BY DEF SetToSeqs, Injection, IsInjective
<1>3. all \in Seq(items) /\ Len(all) = Cardinality(items)
  BY <1>1 DEF SetToSeqs
<1>4. Cardinality(1..Cardinality(items)) = Cardinality(items)
  BY <1>1, FS_Interval
<1> QED
  BY <1>1, <1>2, <1>3, <1>4, FS_Injection

\* Where an item is among all in order.
LEMMA PlaceInOrder ==
  ASSUME TablesOK, walk.order \in Orders, NEW all \in SetToSeqs(items),
         IsOrdered(all, walk.order), NEW i \in items, OwnTime(i)
  PROVE  /\ Cardinality(Earlier(i)) \in Nat
         /\ Cardinality(Earlier(i)) + 1 \in 1..Cardinality(items)
         /\ all[Cardinality(Earlier(i)) + 1] = i
<1>1. /\ items \subseteq Items /\ createdAt \in [Items -> Nat] /\ Cardinality(items) \in Nat
      /\ IsFiniteSet(items)
  BY ItemsCounted DEF TablesOK, CountQueueItems
<1>2. /\ all \in [1..Cardinality(items) -> items]
      /\ \A j, k \in 1..Cardinality(items) : all[j] = all[k] => j = k
      /\ \A x \in items : \E k \in 1..Cardinality(items) : all[k] = x
  BY <1>1, AllInOrder DEF Injection, IsInjective, Surjection
<1>3. PICK k \in 1..Cardinality(items) : all[k] = i
  BY <1>2
<1>4. DOMAIN all = 1..Cardinality(items)
  BY <1>2
<1>5. \A m \in 1..Cardinality(items) : all[m] \in Earlier(i) <=> m < k
  <2> TAKE m \in 1..Cardinality(items)
  <2>1. /\ m < k => IF walk.order = "created_at" THEN createdAt[all[m]] <= createdAt[i]
                     ELSE createdAt[all[m]] >= createdAt[i]
        /\ k < m => IF walk.order = "created_at" THEN createdAt[i] <= createdAt[all[m]]
                     ELSE createdAt[i] >= createdAt[all[m]]
    BY <1>3, <1>4 DEF IsOrdered
  <2>2. m # k => createdAt[all[m]] # createdAt[i]
    BY <1>2, <1>3 DEF OwnTime
  <2>3. all[m] \in items /\ createdAt[all[m]] \in Nat /\ createdAt[i] \in Nat
    BY <1>1, <1>2
  <2> QED
    BY <1>3, <2>1, <2>2, <2>3 DEF Earlier
<1>6. Cardinality(Earlier(i)) = k - 1
  <2> DEFINE f == [m \in 1..k - 1 |-> all[m]]
  <2>1. f \in Surjection(1..k - 1, Earlier(i))
    <3>1. f \in [1..k - 1 -> Earlier(i)]
      BY <1>1, <1>5
    <3>2. ASSUME NEW x \in Earlier(i) PROVE \E m \in 1..k - 1 : f[m] = x
      <4>1. PICK m \in 1..Cardinality(items) : all[m] = x
        BY <1>2 DEF Earlier
      <4>2. m \in 1..k - 1
        BY <1>1, <1>5, <4>1
      <4> QED
        BY <4>1, <4>2
    <3> QED
      BY <3>1, <3>2 DEF Surjection
  <2>2. f \in Injection(1..k - 1, Earlier(i))
    BY <1>1, <1>2, <2>1 DEF Surjection, Injection, IsInjective
  <2>3. IsFiniteSet(1..k - 1) /\ Cardinality(1..k - 1) = k - 1
    <3>1. k \in Nat /\ k >= 1 /\ k - 1 \in Int /\ (1 > k - 1 => k - 1 = 0) /\ k - 1 - 1 + 1 = k - 1
      BY <1>1
    <3>2. /\ IsFiniteSet(1..k - 1)
          /\ Cardinality(1..k - 1) = IF 1 > k - 1 THEN 0 ELSE k - 1 - 1 + 1
      BY <3>1, 1 \in Int, FS_Interval
    <3> QED
      BY <3>1, <3>2
  <2> QED
    BY <2>1, <2>2, <2>3, FS_Surjection
<1> QED
  BY <1>1, <1>3, <1>6

LEMMA EarlierCounted ==
  ASSUME TablesOK, NEW i \in items
  PROVE  Cardinality(Earlier(i)) \in Nat /\ Cardinality(Earlier(i)) < Cardinality(items)
<1>1. items \subseteq Items /\ IsFiniteSet(items) /\ createdAt \in [Items -> Nat]
  BY ItemsCounted DEF TablesOK
<1>2. Earlier(i) \in SUBSET items /\ i \notin Earlier(i)
  BY <1>1 DEF Earlier
<1>3. IsFiniteSet(Earlier(i)) /\ Cardinality(Earlier(i)) <= Cardinality(items)
      /\ Cardinality(Earlier(i)) # Cardinality(items)
  BY <1>1, <1>2, FS_Subset
<1> QED
  BY <1>1, <1>3, FS_CardinalityType

\* The items of a slice of a sequence.
LEMMA InSlice ==
  ASSUME NEW S, NEW all \in Seq(S), NEW m \in Nat \ {0}, NEW n \in Nat, n <= Len(all),
         NEW k \in m..n
  PROVE  all[k] \in ToSet(SubSeq(all, m, n))
<1>1. k - m + 1 \in 1..n - m + 1 /\ m + (k - m + 1) - 1 = k /\ m <= n
  OBVIOUS
<1>2. \A i \in m..n : all[i] \in S
  OBVIOUS
<1>3. /\ SubSeq(all, m, n) \in Seq(S)
      /\ Len(SubSeq(all, m, n)) = n - m + 1
      /\ SubSeq(all, m, n)[k - m + 1] = all[k]
  BY <1>1, <1>2, m \in Int, n \in Int, SubSeqProperties
<1> HIDE DEF ToSet
<1>4. k - m + 1 \in DOMAIN SubSeq(all, m, n)
  BY <1>1, <1>3
<1> QED
  BY <1>3, <1>4 DEF ToSet

LEMMA PageBounds ==
  ASSUME walk \in Pages, walk.page \in Nat \ {0}
  PROVE  /\ walk.size \in Nat \ {0} /\ walk.order \in Orders
         /\ (walk.page - 1) * walk.size \in Nat
         /\ walk.page * walk.size \in Nat
         /\ (walk.page - 1) * walk.size <= walk.page * walk.size
         /\ walk.page = 1 => (walk.page - 1) * walk.size = 0
<1>1. walk.size \in Nat \ {0} /\ walk.order \in Orders
  BY ListingAssumption DEF Pages
<1>2. ASSUME NEW p \in Nat, NEW z \in Nat PROVE p * z \in Nat /\ p * z = z * p
  OBVIOUS
<1>3. walk.page - 1 \in Nat /\ walk.page \in Nat
  OBVIOUS
<1>4. walk.size * (walk.page - 1) <= walk.size * walk.page
  BY <1>1, <1>3, ProductGrows
<1>5. (walk.page - 1) * walk.size = walk.size * (walk.page - 1)
      /\ walk.page * walk.size = walk.size * walk.page
  BY <1>1, <1>2, <1>3
<1>6. (walk.page - 1) * walk.size \in Nat /\ walk.page * walk.size \in Nat
  BY <1>1, <1>2, <1>3
<1>7. 0 * walk.size = 0
  BY <1>1
<1> QED
  BY <1>1, <1>4, <1>5, <1>6, <1>7

\* The page that is read shows an item with a time of its own, unless it is behind it.
LEMMA PageShows ==
  ASSUME TablesOK, store # "memory", walk \in Pages, walk.page \in Nat \ {0},
         NEW rs \in ListQueueItems(walk.order, walk.page, walk.size),
         NEW i \in items, OwnTime(i), Ahead(i, (walk.page - 1) * walk.size), i \notin ToSet(rs)
  PROVE  Ahead(i, walk.page * walk.size)
<1> DEFINE from == (walk.page - 1) * walk.size
           to == walk.page * walk.size
           e == Cardinality(Earlier(i))
<1>1. PICK all \in SetToSeqs(items) :
        /\ IsOrdered(all, walk.order)
        /\ rs = SubSeq(all, from + 1, Smaller(Len(all), to))
  BY DEF ListQueueItems, ListInPostgres
<1>2. from \in Nat /\ to \in Nat /\ walk.order \in Orders
  BY PageBounds
<1>3. all \in Seq(items) /\ Len(all) = Cardinality(items) /\ Cardinality(items) \in Nat
  BY AllInOrder, ItemsCounted DEF TablesOK, CountQueueItems
<1>4. e \in Nat /\ e + 1 \in 1..Cardinality(items) /\ all[e + 1] = i
  BY <1>1, <1>2, PlaceInOrder
<1>5. e >= from
  BY DEF Ahead
<1> HIDE DEF from, to, e
<1>6. ASSUME e < to PROVE FALSE
  <2> DEFINE n == Smaller(Len(all), to)
  <2>1. n \in Nat /\ n <= Len(all) /\ e + 1 \in from + 1..n /\ from + 1 \in Nat \ {0}
    BY <1>2, <1>3, <1>4, <1>5, <1>6 DEF Smaller
  <2>2. all[e + 1] \in ToSet(SubSeq(all, from + 1, n))
    BY <1>3, <2>1, InSlice
  <2> QED
    BY <1>1, <1>4, <2>2
<1>7. e >= to
  BY <1>2, <1>4, <1>6
<1> QED
  BY <1>7 DEF Ahead, e, to

\* In memory a page that is not smaller than the table shows all of it.
LEMMA PageShowsAll ==
  ASSUME TablesOK, store = "memory", walk \in Pages, Cardinality(items) <= walk.size,
         NEW rs \in ListQueueItems(walk.order, walk.page, walk.size)
  PROVE  items \subseteq ToSet(rs)
<1>1. PICK all \in SetToSeqs(items) : rs = SubSeq(all, 1, Smaller(Len(all), walk.size))
  BY DEF ListQueueItems, ListInMemory
<1>2. /\ all \in Seq(items) /\ Len(all) = Cardinality(items) /\ Cardinality(items) \in Nat
      /\ all \in Surjection(1..Cardinality(items), items)
  BY AllInOrder, ItemsCounted DEF TablesOK, CountQueueItems
<1>3. Smaller(Len(all), walk.size) = Len(all)
  <2>1. walk.size \in Nat
    BY ListingAssumption DEF Pages
  <2> QED
    BY <1>2, <2>1 DEF Smaller
<1>4. ASSUME NEW i \in items PROVE i \in ToSet(rs)
  <2>1. PICK k \in 1..Cardinality(items) : all[k] = i
    BY <1>2 DEF Surjection
  <2>2. all[k] \in ToSet(SubSeq(all, 1, Len(all)))
    BY <1>2, 1 \in Nat \ {0}, InSlice
  <2> QED
    BY <1>1, <1>3, <2>1, <2>2
<1> QED
  BY <1>4

LEMMA PagesEnough ==
  ASSUME NEW c \in Nat, NEW s \in Nat \ {0}, NEW p \in Nat, (c + s - 1) \div s <= p
  PROVE  c <= p * s
<1> DEFINE q == (c + s - 1) \div s
<1>1. q \in Int /\ c + s - 1 < s * (q + 1) /\ s * (q + 1) = s * q + s
  OBVIOUS
<1>2. s * q <= s * p
  BY <1>1, ProductGrows
<1>3. s * p = p * s /\ s * q \in Int /\ s * p \in Int
  BY <1>1
<1> HIDE DEF q
<1> QED
  BY <1>1, <1>2, <1>3

LEMMA NoWalkNoPages == NoWalk \notin Pages /\ \A w \in [id : Items] : w \notin Pages
<1>1. \A w \in Pages : DOMAIN w = {"order", "size", "page"}
  BY DEF Pages
<1>2. DOMAIN NoWalk = {}
  BY DEF NoWalk
<1>3. \A w \in [id : Items] : DOMAIN w = {"id"}
  OBVIOUS
<1> QED
  BY <1>1, <1>2, <1>3

\* Items that are stored meanwhile come before others or do not, but those that come
\* before an item stay there.
LEMMA WalkUntouched ==
  ASSUME PutsInv, PutsInv', ReadInv, WalkInv, items \subseteq items', store' = store,
         \A i \in items : createdAt'[i] = createdAt[i], UNCHANGED readVars
  PROVE  WalkInv'
<1> SUFFICES ASSUME walk \in Pages
             PROVE  /\ store = "postgres" => \A i \in due \ seen : OwnTime(i)' => NotShownYet(i)'
                    /\ store = "memory" /\ Cardinality(items') <= walk.size => OnOnePage'
  BY DEF WalkInv, readVars
<1>1. /\ IsFiniteSet(items') /\ items \subseteq Items /\ due \subseteq items
      /\ walk.page \in Nat /\ walk.size \in Nat \ {0}
  <2>1. items' \subseteq Items
    BY DEF PutsInv, TablesOK
  <2> QED
    BY <2>1, TableAssumption, ListingAssumption, FS_Subset
       DEF PutsInv, TablesOK, ReadInv, ReadTyped, Pages
<1>2. ASSUME NEW i \in due \ seen, store = "postgres", OwnTime(i)' PROVE NotShownYet(i)'
  <2>1. OwnTime(i)
    BY <1>1, <1>2 DEF OwnTime
  <2>2. NotShownYet(i)
    BY <1>2, <2>1 DEF WalkInv
  <2>3. Earlier(i) \in SUBSET (Earlier(i)') /\ Earlier(i)' \in SUBSET items'
    BY <1>1 DEF Earlier, readVars
  <2>4. /\ Cardinality(Earlier(i)) \in Nat /\ Cardinality(Earlier(i)') \in Nat
        /\ Cardinality(Earlier(i)) <= Cardinality(Earlier(i)')
    BY <1>1, <2>3, FS_Subset, FS_CardinalityType
  <2>5. walk.page # 0 /\ (walk.page - 1) * walk.size \in Nat /\ walk.page * walk.size \in Nat
    BY <1>1, <2>2, PageBounds DEF NotShownYet
  <2> QED
    BY <2>2, <2>4, <2>5 DEF NotShownYet, Ahead, readVars
<1>3. ASSUME store = "memory", Cardinality(items') <= walk.size PROVE OnOnePage'
  <2>1. Cardinality(items) <= Cardinality(items') /\ Cardinality(items) \in Nat
        /\ Cardinality(items') \in Nat
    BY <1>1, FS_Subset, FS_CardinalityType
  <2>2. OnOnePage
    BY <1>1, <1>3, <2>1 DEF WalkInv
  <2> QED
    BY <2>2 DEF OnOnePage, readVars
<1> QED
  BY <1>2, <1>3

\* Requests and executions give no item another time.
LEMMA TimesKept ==
  ASSUME PutsInv,
         \/ \E i \in Puts : PutStep(i) \/ FailPut(i)
         \/ \E n \in Nodes : Execute(n)
  PROVE  store' = store /\ \A i \in items : createdAt'[i] = createdAt[i]
<1>1. ASSUME NEW i \in Puts, NewItem(i)
      PROVE  store' = store /\ \A j \in items : createdAt'[j] = createdAt[j]
  BY <1>1 DEF NewItem, CreateQueueItem, PutsInv, TablesOK
<1>2. ASSUME ~\E i \in Puts : NewItem(i)
      PROVE  store' = store /\ createdAt' = createdAt
  BY <1>2 DEF PutStep, Put, NewNode, StoreStatus, AddInput, FailPut, Execute,
              CreateAndReturnNode, CreateStatus, CreateRootInput, CreateEdge, tables
<1> QED
  BY <1>1, <1>2

LEMMA WithinAnswerKeepsWalk ==
  ASSUME ReadInv, WalkInv, ReadNodes \/ ReadNode \/ Proceed
  PROVE  WalkInv'
<1>1. /\ UNCHANGED <<tables, walk, due, seen, rows>> /\ phase \in Reading
      /\ phase' \in Reading \cup {"failed", "count", "shown"}
      /\ phase' = "shown" => ~Paging
  BY DEF ReadNodes, ReadNode, ReadRoot, ReadStart, ReadEnd, ReadShare, Proceed, Turn, Reading
<1>2. Paging <=> walk \in Pages
  BY KindsOfWalks DEF ReadInv
<1>3. \A i : (OwnTime(i)' <=> OwnTime(i)) /\ Earlier(i)' = Earlier(i)
  BY <1>1 DEF OwnTime, Earlier, tables
<1> QED
  BY <1>1, <1>2, <1>3 DEF WalkInv, NotShownYet, OnOnePage, Ahead, Listed, Reading, tables

LEMMA AskKeepsWalk ==
  ASSUME PutsInv, ReadInv, WalkInv,
         \/ \E i \in Items : AskItem(i)
         \/ \E order \in Orders, size \in PageSizes : AskFirstPage(order, size)
  PROVE  WalkInv'
<1>1. CASE \E i \in Items : AskItem(i)
  <2>1. walk' \in [id : Items]
    BY <1>1 DEF AskItem, OfItem
  <2> QED
    BY <2>1, NoWalkNoPages DEF WalkInv
<1>2. CASE \E order \in Orders, size \in PageSizes : AskFirstPage(order, size)
  <2>1. /\ walk' \in Pages /\ walk'.page = 1 /\ phase' = "list" /\ due' = items
        /\ UNCHANGED <<store, items, createdAt>>
    BY <1>2 DEF AskFirstPage, OfPage, Pages, tables
  <2>2. phase' \notin Listed /\ phase' # "shown"
    BY <2>1 DEF Listed, Reading
  <2>3. ASSUME NEW i \in items PROVE NotShownYet(i)'
    <3>1. Earlier(i)' \in SUBSET items /\ IsFiniteSet(items)
      BY <2>1, ItemsCounted DEF Earlier, PutsInv, TablesOK
    <3>2. Cardinality(Earlier(i)') \in Nat
      BY <3>1, FS_Subset, FS_CardinalityType
    <3>3. (walk'.page - 1) * walk'.size = 0
      <4>1. walk'.size \in Nat
        BY <2>1, ListingAssumption DEF Pages
      <4> QED
        BY <2>1, <4>1
    <3> QED
      BY <2>1, <2>2, <3>2, <3>3 DEF NotShownYet, Ahead
  <2> QED
    BY <2>1, <2>2, <2>3 DEF WalkInv, OnOnePage
<1> QED
  BY <1>1, <1>2

LEMMA ListKeepsWalk == PutsInv /\ ReadInv /\ WalkInv /\ List => WalkInv'
<1> SUFFICES ASSUME PutsInv, ReadInv, WalkInv, List PROVE WalkInv'
  OBVIOUS
<1>1. /\ phase = "list" /\ rows' \in ListQueueItems(walk.order, walk.page, walk.size)
      /\ UNCHANGED <<tables, walk, due, seen>> /\ phase' # "shown"
      /\ TablesOK /\ due \subseteq items /\ store \in {"memory", "postgres"}
  BY DEF List, Turn, PutsInv, TablesOK, ReadInv, ReadTyped
<1>2. walk \in Pages /\ walk.page \in Nat \ {0}
  BY <1>1 DEF ReadInv, WalkOK, Pages
<1>3. ASSUME store = "postgres", NEW i \in due \ seen, OwnTime(i) PROVE NotShownYet(i)'
  <2>1. NotShownYet(i) /\ i \in items
    BY <1>1, <1>2, <1>3 DEF WalkInv
  <2>2. i \notin ToSet(rows') => Ahead(i, walk.page * walk.size)
    BY <1>1, <1>2, <1>3, <2>1, PageShows DEF NotShownYet
  <2> QED
    BY <1>1, <2>1, <2>2 DEF NotShownYet, Ahead, Earlier, tables
<1>4. ASSUME store = "memory", Cardinality(items) <= walk.size PROVE due \subseteq ToSet(rows')
  BY <1>1, <1>2, <1>4, PageShowsAll
<1> QED
  BY <1>1, <1>3, <1>4 DEF WalkInv, OnOnePage, OwnTime, tables

LEMMA CountKeepsWalk == PutsInv /\ ReadInv /\ WalkInv /\ Count => WalkInv'
<1> SUFFICES ASSUME PutsInv, ReadInv, WalkInv, Count PROVE WalkInv'
  OBVIOUS
<1>1. /\ phase = "count" /\ phase \in Listed /\ UNCHANGED <<tables, due, rows>>
      /\ TablesOK /\ due \subseteq items
      /\ Cardinality(items) \in Nat
  BY ItemsCounted DEF Count, PutsInv, TablesOK, ReadInv, ReadTyped, Listed, CountQueueItems
<1>2. walk \in Pages /\ walk.page \in Nat \ {0} /\ walk.size \in Nat \ {0}
  BY <1>1, ListingAssumption DEF ReadInv, WalkOK, Pages
<1>3. CASE phase' = "empty" /\ UNCHANGED <<walk, seen>>
  <2>1. phase' \notin Listed /\ phase' # "shown"
    BY <1>3 DEF Listed, Reading
  <2> QED
    BY <1>1, <1>3, <2>1 DEF WalkInv, NotShownYet, OnOnePage, OwnTime, Ahead, Earlier, tables
<1>4. CASE /\ walk.page <= TotalPages
           /\ seen' = seen \cup ToSet(rows)
           /\ walk' = [walk EXCEPT !.page = IF @ < TotalPages THEN @ + 1 ELSE 0]
           /\ phase' = "shown"
  <2>1. TotalPages \in Nat
    BY <1>1, <1>2, PageOfSome DEF TotalPages, CountQueueItems
  <2>2. /\ walk'.size = walk.size /\ walk'.order = walk.order
        /\ walk'.page = IF walk.page < TotalPages THEN walk.page + 1 ELSE 0
    BY <1>2, <1>4 DEF Pages
  <2>3. ASSUME store = "postgres", NEW i \in due \ seen', OwnTime(i) PROVE NotShownYet(i)'
    <3>1. i \in items /\ i \notin ToSet(rows) /\ NotShownYet(i)
      BY <1>1, <1>2, <1>4, <2>3 DEF WalkInv
    <3>2. Cardinality(Earlier(i)) >= walk.page * walk.size
      BY <1>1, <3>1 DEF NotShownYet, Ahead
    <3>3. Cardinality(Earlier(i)) \in Nat /\ Cardinality(Earlier(i)) < Cardinality(items)
      BY <1>1, <3>1, EarlierCounted
    <3>4. walk.page < TotalPages
      <4>1. walk.page * walk.size \in Nat
        BY <1>2, PageBounds
      <4>2. ~(Cardinality(items) <= walk.page * walk.size)
        BY <1>1, <3>2, <3>3, <4>1
      <4> QED
        BY <1>1, <1>2, <2>1, <4>2, PagesEnough DEF TotalPages, CountQueueItems
    <3>5. walk'.page # 0 /\ walk'.page - 1 = walk.page
      BY <1>2, <2>2, <3>4
    <3>6. Earlier(i)' = Earlier(i)
      BY <1>1, <2>2 DEF Earlier, tables
    <3>7. phase' \notin Listed
      BY <1>4 DEF Listed, Reading
    <3> QED
      BY <2>2, <3>2, <3>5, <3>6, <3>7 DEF NotShownYet, Ahead
  <2>4. ASSUME store = "memory", Cardinality(items) <= walk.size PROVE OnOnePage'
    <3>1. due \subseteq ToSet(rows)
      BY <1>1, <1>2, <2>4 DEF WalkInv, OnOnePage
    <3> QED
      BY <1>1, <1>4, <3>1 DEF OnOnePage, Listed, Reading
  <2> QED
    BY <1>1, <2>2, <2>3, <2>4 DEF WalkInv, OwnTime, tables
<1> QED
  BY <1>3, <1>4 DEF Count

LEMMA NextWalk == PutsInv /\ PutsInv' /\ ReadInv /\ WalkInv /\ [Next]_vars => WalkInv'
<1> SUFFICES ASSUME PutsInv, PutsInv', ReadInv, WalkInv, [Next]_vars PROVE WalkInv'
  OBVIOUS
<1>1. CASE \/ \E i \in Puts : PutStep(i) \/ FailPut(i)
           \/ \E n \in Nodes : Execute(n)
  BY <1>1, OthersRead, TimesKept, WalkUntouched
<1>2. CASE UNCHANGED vars
  BY <1>2, WalkUntouched DEF vars, tables
<1>3. CASE GetItem
  <2>1. walk \in [id : Items] /\ walk' = walk
    BY <1>3 DEF GetItem, ReadInv, WalkOK
  <2> QED
    BY <2>1, NoWalkNoPages DEF WalkInv
<1>4. CASE AskNextPage
  <2>1. UNCHANGED <<tables, walk, due, seen>> /\ phase' = "list"
    BY <1>4 DEF AskNextPage
  <2>2. phase' \notin Listed /\ phase' # "shown"
    BY <2>1 DEF Listed, Reading
  <2>3. \A i : (OwnTime(i)' <=> OwnTime(i)) /\ Earlier(i)' = Earlier(i)
    BY <2>1 DEF OwnTime, Earlier, tables
  <2> QED
    BY <2>1, <2>2, <2>3 DEF WalkInv, NotShownYet, OnOnePage, Ahead, tables
<1>5. CASE Leave
  BY <1>5, NoWalkNoPages DEF Leave, WalkInv
<1> QED
  BY <1>1, <1>2, <1>3, <1>4, <1>5, AskKeepsWalk, ListKeepsWalk, CountKeepsWalk, WithinAnswerKeepsWalk
     DEF Next, ClientStep

\* A client that reads page after page misses no item that was there when it began and
\* has a time of its own, for every page size and whatever is stored meanwhile.
THEOREM WalkNeverMisses == Spec => []WalkMissesNothing
<1>1. Init => WalkInv
  BY NoWalkNoPages DEF Init, WalkInv, NoWalk
<1>2. ListingInv /\ ListingInv' /\ WalkInv /\ [Next]_vars => WalkInv'
  BY NextWalk DEF ListingInv
<1>3. ListingInv /\ WalkInv => WalkMissesNothing
  <2> SUFFICES ASSUME ListingInv, WalkInv, AtLastPage,
                      store = "postgres" \/ Cardinality(items) <= walk.size,
                      NEW i \in due, OwnTime(i)
               PROVE  i \in seen
    BY DEF WalkMissesNothing
  <2>1. walk \in Pages /\ walk.page = 0 /\ phase = "shown"
    BY KindsOfWalks DEF ListingInv, ReadInv, AtLastPage
  <2>2. CASE store = "postgres"
    BY <2>1, <2>2 DEF WalkInv, NotShownYet
  <2>3. CASE store # "postgres"
    <3>1. store = "memory"
      BY <2>3 DEF ListingInv, PutsInv, TablesOK
    <3> QED
      BY <2>1, <2>3, <3>1 DEF WalkInv, OnOnePage
  <2> QED
    BY <2>2, <2>3
<1> QED
  BY <1>1, <1>2, <1>3, InvHolds, PTL DEF Spec

-----------------------------------------------------------------------------
\* The graphs of items: what is linked, and that nothing executes before all is.

Linked(i, s) ==
  IF Input[s] = 0 THEN <<i, s>> \in rooted ELSE <<<<i, Input[s]>>, <<i, s>>>> \in edges
Wired(i) == \A s \in Steps : node[<<i, s>>] \in Statuses /\ Linked(i, s)

GraphInv ==
  /\ \A n \in rooted : Input[n[2]] = 0
  /\ \A e \in edges : \E i \in Items, s \in Steps :
       Input[s] # 0 /\ e = <<<<i, Input[s]>>, <<i, s>>>>
  /\ \A n \in Nodes : IsStarted(n) => Wired(n[1])
  /\ \A i \in Puts :
       /\ pc[i] = "accepted" => Wired(i)
       /\ pc[i] # "accepted" => \A s \in Steps : ~IsStarted(<<i, s>>)
       /\ pc[i] \in {"node", "status", "input"} => \A s \in Steps : s < step[i] => Linked(i, s)

\* The configured graphs the end time is right for.
SiblingsAreLeavesIn(input) ==
  \A s, t \in Steps : s # t /\ input[s] = input[t] => \A u \in Steps : input[u] # s

AllRoots(i) == \A s \in Steps : Input[s] = 0 => <<i, s>> \in view[i].roots
AllEnded(i) == \A s \in Steps : IsEnded(<<i, s>>)

\* The nodes that are left to read are those of one parent, and all above it have ended.
Descends(i) ==
  \E v \in {Input[t] : t \in Steps}, S \in SUBSET ({i} \X Steps) :
    /\ frames = <<S>>
    /\ \A n \in S : Input[n[2]] = v
    /\ \A s \in Steps : Input[s] < v => s <= v /\ IsEnded(<<i, s>>)
    /\ \A s \in Steps : Input[s] = v /\ <<i, s>> \notin S => IsEnded(<<i, s>>)

\* A node is known, or it is left to read, or below one that is not known.
Reaches(i) ==
  \A s \in Steps :
    \/ <<i, s>> \in view[i].known
    \/ \E k \in DOMAIN frames : <<i, s>> \in frames[k]
    \/ Input[s] # 0 /\ <<i, Input[s]>> \notin view[i].known

EndRead(k) ==
  \/ phase \in {"share", "count", "shown"}
  \/ phase \in {"start", "end"} /\ k < row
  \/ phase = "end" /\ k = row /\ frames = <<>>
ShareRead(k) ==
  \/ phase \in {"count", "shown"}
  \/ phase = "share" /\ k < row

RowsDiffer == \A j, k \in DOMAIN rows : rows[j] = rows[k] => j = k

FreshView ==
  /\ phase \in {"idle", "list", "item"} => view = [i \in Items |-> Unread]
  /\ phase \in {"nodes", "roots", "start", "end"} =>
       \A i \in Items : view[i].known = {} /\ view[i].done = {}
OwnView(i) ==
  /\ \A n \in view[i].roots : n[1] = i /\ Input[n[2]] = 0
  /\ view[i].done \subseteq {i} \X Steps /\ view[i].known \subseteq {i} \X Steps
  /\ view[i].ended => Wired(i)
OwnFrames ==
  phase \in {"end", "share"} => \A k \in DOMAIN frames : frames[k] \subseteq {rows[row]} \X Steps
ViewInv == FreshView /\ (\A i \in Items : OwnView(i)) /\ OwnFrames

EndInv ==
  \A k \in DOMAIN rows : AllRoots(rows[k]) =>
    /\ phase = "end" /\ row = k /\ frames # <<>> => Descends(rows[k])
    /\ EndRead(k) /\ view[rows[k]].ended => AllEnded(rows[k])

ShareInv ==
  \A k \in DOMAIN rows : AllRoots(rows[k]) /\ view[rows[k]].ended =>
    /\ view[rows[k]].known \subseteq view[rows[k]].done
    /\ phase = "share" /\ row < k => view[rows[k]].known = {}
    /\ phase = "share" /\ row = k => Reaches(rows[k])
    /\ ShareRead(k) => {rows[k]} \X Steps \subseteq view[rows[k]].done

TreeInv == GraphInv /\ RowsDiffer /\ ViewInv /\ (SiblingsAreLeavesIn(Input) => EndInv /\ ShareInv)

LEMMA LeastOfNaturals ==
  ASSUME NEW T \in SUBSET Nat, T # {}
  PROVE  \E x \in T : \A y \in T : x <= y
<1>1. PICK x \in T : \A y \in T : ~(<<y, x>> \in OpToRel(<, Nat))
  BY NatLessThanWellFounded, WFMin
<1>2. OpToRel(<, Nat) = {ss \in Nat \X Nat : ss[1] < ss[2]}
  BY DEF OpToRel
<1>3. ASSUME NEW y \in T, ~(x <= y) PROVE FALSE
  <2>1. <<y, x>> \in {ss \in Nat \X Nat : ss[1] < ss[2]}
    BY <1>3
  <2> QED
    BY <1>1, <1>2, <2>1
<1> QED
  BY <1>3

\* A node is stored after the one whose output it takes (task/factory.go:94-141).
LEMMA InputsAreEarlier ==
  ASSUME NEW s \in Steps
  PROVE  /\ s \in Nat \ {0} /\ Input[s] \in Nat /\ Input[s] < s
         /\ Input[s] # 0 => Input[s] \in Steps
<1>1. s \in Nat /\ s >= 1 /\ s <= Cardinality(Steps) /\ Cardinality(Steps) \in Nat
  BY StepsCounted
<1>2. Input[s] \in 0..s - 1
  BY ListingAssumption
<1> QED
  BY <1>1, <1>2, StepsCounted

\* What is stored stays, and a node that has ended does not execute again.
LinksKept ==
  /\ edges \subseteq edges' /\ rooted \subseteq rooted'
  /\ \A n \in Nodes : node[n] \in Statuses => node'[n] \in Statuses
  /\ \A n \in Nodes : IsEnded(n) => IsEnded(n)'

LEMMA WiredKept ==
  ASSUME LinksKept, NEW i \in Items
  PROVE  /\ \A s \in Steps : Linked(i, s) => Linked(i, s)'
         /\ Wired(i) => Wired(i)'
<1>1. \A s \in Steps : Linked(i, s) => Linked(i, s)'
  BY DEF LinksKept, Linked
<1> QED
  BY <1>1, NodeIsOwn DEF LinksKept, Wired

\* A step that starts no node keeps the graphs in order.
LEMMA GraphKept ==
  ASSUME PutsInv, PutsInv', GraphInv, LinksKept,
         \A n \in rooted' : Input[n[2]] = 0,
         \A e \in edges' : \E i \in Items, s \in Steps :
           Input[s] # 0 /\ e = <<<<i, Input[s]>>, <<i, s>>>>,
         \A n \in Nodes : IsStarted(n)' => Wired(n[1]),
         \A i \in Puts :
           /\ pc'[i] = "accepted" => pc[i] = "accepted" \/ \A s \in Steps : Linked(i, s)'
           /\ pc'[i] # "accepted" => pc[i] # "accepted" /\ \A s \in Steps : ~IsStarted(<<i, s>>)'
           /\ pc'[i] \in {"node", "status", "input"} => \A s \in Steps : s < step'[i] => Linked(i, s)'
  PROVE  GraphInv'
<1>1. ASSUME NEW n \in Nodes, IsStarted(n)' PROVE Wired(n[1])'
  <2>1. n[1] \in Items
    BY DEF Nodes
  <2> QED
    BY <1>1, <2>1, WiredKept
<1>2. ASSUME NEW i \in Puts, pc'[i] = "accepted" PROVE Wired(i)'
  <2>1. CASE pc[i] = "accepted"
    BY <2>1, PutsAreItems, WiredKept DEF GraphInv
  <2>2. CASE \A s \in Steps : Linked(i, s)'
    <3>1. PutOK(i)'
      BY DEF PutsInv
    <3> QED
      BY <1>2, <2>2, <3>1 DEF PutOK, Wired
  <2> QED
    BY <1>2, <2>1, <2>2
<1> QED
  BY <1>1, <1>2 DEF GraphInv

LEMMA InitGraph == Init => GraphInv
<1> SUFFICES ASSUME Init PROVE GraphInv
  OBVIOUS
<1>1. PICK half \in SUBSET items :
        /\ node = [n \in Nodes |->
                     IF n[1] \in items \ half THEN "finished"
                     ELSE IF n[1] \in half /\ n[2] = 1 THEN "bare" ELSE "absent"]
        /\ edges = {e \in Nodes \X Nodes : e[1][1] = e[2][1] /\ e[1][1] \in items \ half
                                          /\ e[1][2] = Input[e[2][2]]}
        /\ rooted = {n \in Nodes : n[1] \in items \ half /\ Input[n[2]] = 0}
  BY DEF Init
<1>2. \A n \in rooted : Input[n[2]] = 0
  BY <1>1
<1>3. ASSUME NEW e \in edges
      PROVE  \E i \in Items, s \in Steps : Input[s] # 0 /\ e = <<<<i, Input[s]>>, <<i, s>>>>
  <2>1. PICK p \in Nodes, c \in Nodes : e = <<p, c>> /\ p[1] = c[1] /\ p[2] = Input[c[2]]
    BY <1>1
  <2>2. PICK i \in Items, s \in Steps : c = <<i, s>>
    BY DEF Nodes
  <2>3. p = <<i, Input[s]>> /\ Input[s] \in Steps
    BY <2>1, <2>2 DEF Nodes
  <2>4. Input[s] # 0
    BY <2>3, InputsAreEarlier
  <2> QED
    BY <2>1, <2>2, <2>3, <2>4
<1>4. ASSUME NEW n \in Nodes, IsStarted(n) PROVE Wired(n[1])
  <2> DEFINE i == n[1]
  <2>1. i \in items \ half /\ i \in Items
    BY <1>1, <1>4 DEF IsStarted, Nodes
  <2>2. ASSUME NEW s \in Steps PROVE node[<<i, s>>] \in Statuses /\ Linked(i, s)
    <3>1. <<i, s>> \in Nodes /\ node[<<i, s>>] = "finished"
      BY <1>1, <2>1, NodeIsOwn
    <3>2. CASE Input[s] = 0
      BY <1>1, <2>1, <3>1, <3>2 DEF Linked, Statuses
    <3>3. CASE Input[s] # 0
      <4>1. <<i, Input[s]>> \in Nodes
        BY <2>1, <3>3, InputsAreEarlier, NodeIsOwn
      <4>2. <<<<i, Input[s]>>, <<i, s>>>> \in edges
        BY <1>1, <2>1, <3>1, <4>1
      <4> QED
        BY <3>1, <3>3, <4>2 DEF Linked, Statuses
    <3> QED
      BY <3>2, <3>3
  <2> QED
    BY <2>2 DEF Wired
<1>5. ASSUME NEW i \in Puts
      PROVE  pc[i] = "new" /\ \A s \in Steps : ~IsStarted(<<i, s>>)
  <2>1. i \notin items /\ i \in Items /\ pc[i] = "new"
    BY PutsAreItems DEF Init
  <2>2. \A s \in Steps : <<i, s>> \in Nodes /\ node[<<i, s>>] = "absent"
    BY <1>1, <2>1, NodeIsOwn
  <2> QED
    BY <2>1, <2>2 DEF IsStarted
<1> QED
  BY <1>2, <1>3, <1>4, <1>5 DEF GraphInv

LEMMA PutKeepsGraph ==
  ASSUME PutsInv, PutsInv', GraphInv, NEW i \in Puts, Put(i) \/ NewItem(i) \/ FailPut(i)
  PROVE  LinksKept /\ GraphInv'
<1>1. /\ UNCHANGED <<node, edges, rooted, step>>
      /\ pc[i] # "accepted" /\ pc'[i] # "accepted"
      /\ pc'[i] = "node" => step[i] = 1
      /\ pc'[i] \notin {"status", "input"}
      /\ \A j \in Puts \ {i} : pc'[j] = pc[j]
  <2>1. pc \in [Puts -> {"new", "item", "node", "status", "input", "accepted", "refused"}] /\ PutOK(i)
    BY DEF PutsInv, PutsTyped
  <2> QED
    BY <2>1 DEF Put, NewItem, FailPut, CreateQueueItem, Goto, tables, PutOK
<1>2. LinksKept
  BY <1>1 DEF LinksKept, IsEnded
<1>3. ASSUME NEW j \in Puts
      PROVE  /\ pc'[j] = "accepted" => pc[j] = "accepted"
             /\ pc'[j] # "accepted" => pc[j] # "accepted" /\ \A s \in Steps : ~IsStarted(<<j, s>>)'
             /\ pc'[j] \in {"node", "status", "input"} => \A s \in Steps : s < step'[j] => Linked(j, s)'
  <2>1. CASE j = i
    BY <1>1, <2>1, InputsAreEarlier DEF GraphInv, IsStarted
  <2>2. CASE j # i
    BY <1>1, <2>2 DEF GraphInv, IsStarted, Linked
  <2> QED
    BY <2>1, <2>2
<1> QED
  BY <1>1, <1>2, <1>3, GraphKept DEF GraphInv, IsStarted

\* A row of a node that has not executed, nor does with it.
LEMMA RowKeepsGraph ==
  ASSUME PutsInv, PutsInv', GraphInv, NEW i \in Puts, NewNode(i) \/ StoreStatus(i)
  PROVE  LinksKept /\ GraphInv'
<1> DEFINE n == <<i, step[i]>>
<1>1. /\ UNCHANGED <<edges, rooted, step>>
      /\ pc[i] \in {"node", "status"} /\ pc'[i] \in {"status", "input"}
      /\ \A j \in Puts \ {i} : pc'[j] = pc[j]
  BY DEF NewNode, StoreStatus, CreateAndReturnNode, CreateStatus, Goto, PutsInv, PutsTyped
<1>2. n \in Nodes /\ ~IsStarted(n) /\ step[i] \in Nat
  BY <1>1, PutsAreItems, StepsCounted DEF GraphInv, PutsInv, PutsTyped, Nodes
<1>3. /\ \A m \in Nodes \ {n} : node'[m] = node[m]
      /\ node'[n] \in {"bare", "queued"}
      /\ node'[n] = "bare" => node[n] \notin Statuses
  <2>1. node \in [Nodes -> {"absent", "bare"} \cup Statuses] /\ PutOK(i) /\ step[i] \in Steps
    BY DEF PutsInv, TablesOK, PutsTyped
  <2>2. pc[i] = "node" => node[n] = "absent"
    BY <1>2, <2>1 DEF PutOK, Lacks
  <2>3. \/ node' = [node EXCEPT ![n] = "bare"] /\ pc[i] = "node"
        \/ node' = [node EXCEPT ![n] = "queued"]
    BY DEF NewNode, StoreStatus, CreateAndReturnNode, CreateStatus
  <2> QED
    BY <1>2, <2>1, <2>2, <2>3 DEF Statuses
<1> HIDE DEF n
<1>4. LinksKept
  BY <1>1, <1>2, <1>3 DEF LinksKept, IsEnded, IsStarted, Statuses
<1>5. \A m \in Nodes : IsStarted(m)' => IsStarted(m)
  BY <1>3 DEF IsStarted
<1>6. ASSUME NEW j \in Puts
      PROVE  /\ pc'[j] = "accepted" => pc[j] = "accepted"
             /\ pc'[j] # "accepted" => pc[j] # "accepted" /\ \A s \in Steps : ~IsStarted(<<j, s>>)'
             /\ pc'[j] \in {"node", "status", "input"} => \A s \in Steps : s < step'[j] => Linked(j, s)'
  <2>1. \A s \in Steps : <<j, s>> \in Nodes
    BY PutsAreItems, NodeIsOwn
  <2>2. pc[j] \in {"node", "status"} => pc[j] # "accepted"
    OBVIOUS
  <2>3. /\ pc'[j] = "accepted" <=> pc[j] = "accepted"
        /\ pc'[j] \in {"node", "status", "input"} => pc[j] \in {"node", "status", "input"}
    BY <1>1
  <2> QED
    BY <1>1, <1>5, <2>1, <2>3 DEF GraphInv, Linked
<1> QED
  BY <1>1, <1>4, <1>5, <1>6, GraphKept DEF GraphInv

LEMMA AddInputKeepsGraph ==
  ASSUME PutsInv, PutsInv', GraphInv, NEW i \in Puts, AddInput(i)
  PROVE  LinksKept /\ GraphInv'
<1> DEFINE n == <<i, step[i]>>
           e == <<<<i, Input[step[i]]>>, n>>
<1>1. /\ pc[i] = "input" /\ UNCHANGED node
      /\ \/ Input[step[i]] = 0 /\ rooted' = rooted \cup {n} /\ UNCHANGED edges
         \/ Input[step[i]] # 0 /\ edges' = edges \cup {e} /\ UNCHANGED rooted
  BY DEF AddInput, CreateRootInput, CreateEdge
<1>2. /\ i \in Items /\ step[i] \in Steps /\ step \in [Puts -> Steps]
      /\ pc \in [Puts -> {"new", "item", "node", "status", "input", "accepted", "refused"}]
  BY PutsAreItems DEF PutsInv, PutsTyped
<1>3. /\ \A j \in Puts \ {i} : pc'[j] = pc[j] /\ step'[j] = step[j]
      /\ \/ pc'[i] = "node" /\ step'[i] = step[i] + 1
         \/ pc'[i] = "accepted" /\ step'[i] = step[i] /\ step[i] + 1 \notin Steps
  BY <1>2 DEF AddInput, Goto
<1>4. LinksKept
  BY <1>1 DEF LinksKept, IsEnded
<1>5. \A m \in rooted' : Input[m[2]] = 0
  BY <1>1 DEF GraphInv
<1>6. ASSUME NEW d \in edges'
      PROVE  \E j \in Items, s \in Steps : Input[s] # 0 /\ d = <<<<j, Input[s]>>, <<j, s>>>>
  <2>1. CASE d \in edges
    BY <2>1 DEF GraphInv
  <2>2. CASE Input[step[i]] # 0 /\ d = e
    BY <1>2, <2>2
  <2> QED
    BY <1>1, <2>1, <2>2
<1>7. \A s \in Steps : s <= step[i] => Linked(i, s)'
  <2>1. ASSUME NEW s \in Steps, s = step[i] PROVE Linked(i, s)'
    BY <1>1, <1>2, <2>1 DEF Linked
  <2>2. ASSUME NEW s \in Steps, s < step[i] PROVE Linked(i, s)'
    BY <1>1, <1>2, <1>4, <2>2, WiredKept DEF GraphInv
  <2> QED
    BY <1>2, <2>1, <2>2, StepsCounted
<1>8. pc'[i] = "accepted" => \A s \in Steps : Linked(i, s)'
  BY <1>2, <1>3, <1>7, StepsCounted
<1>9. ASSUME NEW j \in Puts
      PROVE  /\ pc'[j] = "accepted" => pc[j] = "accepted" \/ \A s \in Steps : Linked(j, s)'
             /\ pc'[j] # "accepted" => pc[j] # "accepted" /\ \A s \in Steps : ~IsStarted(<<j, s>>)'
             /\ pc'[j] \in {"node", "status", "input"} => \A s \in Steps : s < step'[j] => Linked(j, s)'
  <2>1. CASE j = i
    <3>1. pc'[i] = "node" => \A s \in Steps : s < step'[i] => Linked(i, s)'
      BY <1>2, <1>3, <1>7, StepsCounted
    <3> QED
      BY <1>1, <1>3, <1>8, <2>1, <3>1 DEF GraphInv, IsStarted
  <2>2. CASE j # i
    BY <1>1, <1>3, <1>4, <2>2, PutsAreItems, WiredKept DEF GraphInv, IsStarted
  <2> QED
    BY <2>1, <2>2
<1> QED
  BY <1>1, <1>4, <1>5, <1>6, <1>9, GraphKept DEF GraphInv, IsStarted

LEMMA ExecuteKeepsGraph ==
  ASSUME PutsInv, PutsInv', GraphInv, NEW n \in Nodes, Execute(n)
  PROVE  LinksKept /\ GraphInv'
<1>1. /\ UNCHANGED <<edges, rooted, pc, step>> /\ n[1] \in Puts /\ pc[n[1]] = "accepted"
      /\ node[n] # "finished"
      /\ \E s \in {"started", "finished"} : node' = [node EXCEPT ![n] = s]
  BY DEF Execute, CreateStatus, putVars
<1>2. node \in [Nodes -> {"absent", "bare"} \cup Statuses]
  BY DEF PutsInv, TablesOK
<1>3. node'[n] \in Statuses /\ \A m \in Nodes \ {n} : node'[m] = node[m]
  BY <1>1, <1>2 DEF Statuses
<1>4. LinksKept
  BY <1>1, <1>3 DEF LinksKept, IsEnded
<1>5. ASSUME NEW m \in Nodes, IsStarted(m)' PROVE Wired(m[1])
  BY <1>1, <1>3, <1>5 DEF GraphInv, IsStarted
<1>6. ASSUME NEW j \in Puts
      PROVE  /\ pc'[j] # "accepted" => pc[j] # "accepted" /\ \A s \in Steps : ~IsStarted(<<j, s>>)'
             /\ pc'[j] \in {"node", "status", "input"} => \A s \in Steps : s < step'[j] => Linked(j, s)'
  <2>1. ASSUME pc[j] # "accepted", NEW s \in Steps PROVE ~IsStarted(<<j, s>>)'
    <3>1. <<j, s>> \in Nodes /\ <<j, s>> # n
      BY <1>1, <2>1, PutsAreItems, NodeIsOwn
    <3> QED
      BY <1>3, <2>1, <3>1 DEF GraphInv, IsStarted
  <2> QED
    BY <1>1, <2>1 DEF GraphInv, Linked
<1> QED
  BY <1>1, <1>4, <1>5, <1>6, GraphKept DEF GraphInv

LEMMA NextGraph ==
  ASSUME PutsInv, PutsInv', GraphInv, [Next]_vars
  PROVE  LinksKept /\ GraphInv'
<1>1. CASE UNCHANGED <<tables, putVars>>
  <2>1. LinksKept
    BY <1>1 DEF LinksKept, IsEnded, tables
  <2> QED
    BY <1>1, <2>1 DEF GraphInv, IsStarted, Wired, Linked, tables, putVars
<1>2. ASSUME NEW i \in Puts, PutStep(i) \/ FailPut(i) PROVE LinksKept /\ GraphInv'
  BY <1>2, PutKeepsGraph, RowKeepsGraph, AddInputKeepsGraph DEF PutStep
<1>3. ASSUME NEW n \in Nodes, Execute(n) PROVE LinksKept /\ GraphInv'
  BY <1>3, ExecuteKeepsGraph
<1> QED
  BY <1>1, <1>2, <1>3, ClientReads DEF Next, vars

LEMMA ChildrenInItem ==
  ASSUME GraphInv, NEW i \in Items, NEW s \in Steps
  PROVE  /\ Children(<<i, s>>) \subseteq {<<i, t>> : t \in {t \in Steps : Input[t] = s}}
         /\ Wired(i) => Children(<<i, s>>) = {<<i, t>> : t \in {t \in Steps : Input[t] = s}}
<1>1. ASSUME NEW c \in Children(<<i, s>>)
      PROVE  c \in {<<i, t>> : t \in {t \in Steps : Input[t] = s}}
  <2>1. <<<<i, s>>, c>> \in edges
    BY DEF Children
  <2>2. PICK j \in Items, t \in Steps : <<<<i, s>>, c>> = <<<<j, Input[t]>>, <<j, t>>>>
    BY <2>1 DEF GraphInv
  <2> QED
    BY <2>2
<1>2. ASSUME Wired(i), NEW t \in Steps, Input[t] = s PROVE <<i, t>> \in Children(<<i, s>>)
  <2>1. s # 0 /\ <<i, t>> \in Nodes
    BY StepsCounted, NodeIsOwn
  <2> QED
    BY <1>2, <2>1 DEF Wired, Linked, Children
<1> QED
  BY <1>1, <1>2

LEMMA InitRowsViews == Init => RowsDiffer /\ ViewInv
BY DEF Init, RowsDiffer, ViewInv, FreshView, OwnView, OwnFrames, Unread

LEMMA NextRowsDiffer == PutsInv /\ ReadInv /\ RowsDiffer /\ [Next]_vars => RowsDiffer'
<1> SUFFICES ASSUME PutsInv, ReadInv, RowsDiffer, [Next]_vars PROVE RowsDiffer'
  OBVIOUS
<1>1. CASE rows' = rows \/ rows' = <<>> \/ \E x : rows' = <<x>>
  BY <1>1 DEF RowsDiffer
<1>2. CASE List
  <2>1. /\ rows' \in ListQueueItems(walk.order, walk.page, walk.size)
        /\ items \subseteq Items /\ phase = "list"
    BY <1>2 DEF List, PutsInv, TablesOK
  <2>2. walk \in Pages /\ walk.page \in Nat \ {0}
    BY <2>1 DEF ReadInv, WalkOK, Pages
  <2>3. PICK all \in SetToSeqs(items), m \in Nat \ {0}, n \in Int :
          rows' = SubSeq(all, m, Smaller(Len(all), n))
    <3>1. (walk.page - 1) * walk.size + 1 \in Nat \ {0} /\ walk.page * walk.size \in Int
          /\ walk.size \in Int /\ 1 \in Nat \ {0}
      BY <2>2, PageBounds
    <3>2. CASE store = "memory"
      BY <2>1, <3>1, <3>2 DEF ListQueueItems, ListInMemory
    <3>3. CASE store # "memory"
      BY <2>1, <3>1, <3>3 DEF ListQueueItems, ListInPostgres
    <3> QED
      BY <3>2, <3>3
  <2> DEFINE to == Smaller(Len(all), n)
  <2>4. /\ all \in Seq(items) /\ to \in Int /\ to <= Len(all)
        /\ \A j, k \in 1..Len(all) : all[j] = all[k] => j = k
    BY <2>1, AllInOrder DEF Smaller, Injection, IsInjective
  <2> HIDE DEF to
  <2>5. \A j \in m..to : all[j] \in items
    BY <2>4
  <2>6. /\ rows' \in Seq(items)
        /\ Len(rows') = IF m <= to THEN to - m + 1 ELSE 0
        /\ \A j \in 1..to - m + 1 : rows'[j] = all[m + j - 1]
    BY <2>3, <2>4, <2>5, m \in Int, SubSeqProperties DEF to
  <2>7. ASSUME NEW j \in DOMAIN rows', NEW k \in DOMAIN rows', rows'[j] = rows'[k] PROVE j = k
    <3>1. j \in 1..to - m + 1 /\ k \in 1..to - m + 1
      BY <2>4, <2>6
    <3>2. m + j - 1 \in 1..Len(all) /\ m + k - 1 \in 1..Len(all)
      BY <2>4, <3>1
    <3>3. m + j - 1 = m + k - 1
      BY <2>4, <2>6, <2>7, <3>1, <3>2
    <3> QED
      BY <3>1, <3>3
  <2> QED
    BY <2>7 DEF RowsDiffer
<1>3. rows' = rows \/ rows' = <<>> \/ (\E x : rows' = <<x>>) \/ List
  <2>1. ASSUME ClientStep, ~List PROVE rows' = rows \/ rows' = <<>> \/ \E x : rows' = <<x>>
    BY <2>1 DEF ClientStep, GetItem, ReadNodes, ReadNode, ReadRoot, ReadStart, ReadEnd, ReadShare,
                Proceed, Count, AskNextPage, Leave, Forget
  <2>2. ASSUME \/ \E i \in Items : AskItem(i)
               \/ \E order \in Orders, size \in PageSizes : AskFirstPage(order, size)
        PROVE  rows' = rows
    BY <2>2 DEF AskItem, AskFirstPage
  <2> QED
    BY <2>1, <2>2, OthersRead DEF Next, vars, readVars
<1> QED
  BY <1>1, <1>2, <1>3

\* Frames within a set of nodes stay within it.
LEMMA FramesWithin ==
  ASSUME NEW U, frames \in Seq(SUBSET U), frames # <<>>, NEW S \in SUBSET U
  PROVE  /\ Head(frames) \subseteq U /\ Tail(frames) \in Seq(SUBSET U)
         /\ \A n : Rest(n) \in Seq(SUBSET U) /\ Push(S, Rest(n)) \in Seq(SUBSET U)
<1>1. ASSUME NEW T \in SUBSET U, NEW fs \in Seq(SUBSET U) PROVE Push(T, fs) \in Seq(SUBSET U)
  <2>1. <<T>> \in Seq(SUBSET U)
    OBVIOUS
  <2>2. <<T>> \o fs \in Seq(SUBSET U)
    BY <2>1, ConcatProperties
  <2> QED
    BY <2>2 DEF Push
<1>2. Head(frames) \in SUBSET U /\ Tail(frames) \in Seq(SUBSET U)
  OBVIOUS
<1>3. \A n : Head(frames) \ {n} \in SUBSET U
  BY <1>2
<1>4. \A n : Rest(n) \in Seq(SUBSET U)
  BY <1>1, <1>2, <1>3 DEF Rest
<1> QED
  BY <1>1, <1>2, <1>4

LEMMA FramesOfRow ==
  ASSUME ReadInv, ViewInv, phase \in {"end", "share"}
  PROVE  frames \in Seq(SUBSET ({rows[row]} \X Steps))
BY DEF ReadInv, ReadTyped, ViewInv, OwnFrames

\* The nodes that are read are those of the item on the row.
LEMMA ReadsOwnNode ==
  ASSUME PutsInv, ReadInv, ViewInv, phase \in {"roots", "end", "share"},
         NEW n, frames # <<>>, n \in Head(frames)
  PROVE  /\ row \in DOMAIN rows /\ rows[row] \in Items
         /\ n \in {rows[row]} \X Steps
<1>1. row \in DOMAIN rows /\ rows[row] \in Items
  BY DEF ReadInv, RowsOK, Reading, PutsInv, TablesOK
<1>2. Head(frames) \subseteq {rows[row]} \X Steps
  <2>1. CASE phase = "roots"
    BY <2>1 DEF ReadInv, RootsOfRow
  <2>2. CASE phase # "roots"
    BY <2>2, FramesOfRow, FramesWithin
  <2> QED
    BY <2>1, <2>2
<1> QED
  BY <1>1, <1>2

LEMMA ReadRootKeepsView ==
  ASSUME PutsInv, ReadInv, GraphInv, ViewInv,
         NEW n \in Nodes, frames # <<>>, n \in Head(frames), ReadRoot(n)
  PROVE  ViewInv'
<1> DEFINE i == rows[row]
<1>1. UNCHANGED <<tables, putVars, rows, row>> /\ phase = "roots" /\ phase' \in {"roots", "failed"}
  BY DEF ReadRoot
<1>2. i \in Items /\ n \in {i} \X Steps /\ view \in [Items -> Views]
  BY <1>1, ReadsOwnNode DEF ReadInv, ReadTyped
<1>3. CASE view' = view
  BY <1>1, <1>3 DEF ViewInv, FreshView, OwnView, OwnFrames, Wired, Linked, tables
<1>4. CASE See("roots", Seen.roots \cup ({n} \cap rooted))
  <2> DEFINE v == [view[i] EXCEPT !["roots"] = view[i].roots \cup ({n} \cap rooted)]
  <2>1. view' = [view EXCEPT ![i] = v]
    BY <1>4 DEF See, Seen
  <2>2. /\ v.roots = view[i].roots \cup ({n} \cap rooted) /\ v.ended = view[i].ended
        /\ v.known = view[i].known /\ v.done = view[i].done
    BY <1>2 DEF Views
  <2> HIDE DEF v
  <2>3. /\ view'[i] = v /\ \A j \in Items \ {i} : view'[j] = view[j]
    BY <1>2, <2>1
  <2>4. \A m \in v.roots : m[1] = i /\ Input[m[2]] = 0
    BY <1>2, <2>2 DEF GraphInv, ViewInv, OwnView
  <2>5. FreshView'
    BY <1>1, <2>2, <2>3 DEF ViewInv, FreshView
  <2>6. \A j \in Items : OwnView(j)'
    BY <1>1, <2>2, <2>3, <2>4 DEF ViewInv, OwnView, Wired, Linked, tables
  <2>7. OwnFrames'
    BY <1>1 DEF OwnFrames
  <2> QED
    BY <2>5, <2>6, <2>7 DEF ViewInv
<1> QED
  BY <1>3, <1>4 DEF ReadRoot

LEMMA ReadStartKeepsView ==
  ASSUME PutsInv, ReadInv, GraphInv, ViewInv, NEW n \in Nodes, ReadStart(n)
  PROVE  ViewInv'
<1> DEFINE i == rows[row]
           v == [view[i] EXCEPT !["started"] = view[i].started \/ IsStarted(n)]
<1>1. UNCHANGED <<tables, putVars, rows, row, phase>> /\ phase = "start"
  BY DEF ReadStart
<1>2. i \in Items /\ view \in [Items -> Views]
  BY <1>1 DEF ReadInv, ReadTyped, RowsOK, Reading, PutsInv, TablesOK
<1>3. view' = [view EXCEPT ![i] = v]
  BY DEF ReadStart, See, Seen
<1>4. /\ v.roots = view[i].roots /\ v.ended = view[i].ended
      /\ v.known = view[i].known /\ v.done = view[i].done
  BY <1>2 DEF Views
<1> HIDE DEF v
<1>5. /\ view'[i] = v /\ \A j \in Items \ {i} : view'[j] = view[j]
  BY <1>2, <1>3
<1> QED
  BY <1>1, <1>4, <1>5 DEF ViewInv, FreshView, OwnView, OwnFrames, Wired, Linked, tables

LEMMA ReadEndKeepsView ==
  ASSUME PutsInv, ReadInv, GraphInv, ViewInv,
         NEW n \in Nodes, frames # <<>>, n \in Head(frames), ReadEnd(n)
  PROVE  ViewInv'
<1> DEFINE i == rows[row]
           v == [view[i] EXCEPT !["ended"] = IsEnded(n)]
<1>1. UNCHANGED <<tables, putVars, rows, row, phase>> /\ phase = "end"
      /\ frames' = IF IsEnded(n) THEN Push(Children(n), Rest(n)) ELSE Tail(frames)
  BY DEF ReadEnd
<1>2. i \in Items /\ n \in {i} \X Steps /\ view \in [Items -> Views]
  BY <1>1, ReadsOwnNode DEF ReadInv, ReadTyped
<1>3. view' = [view EXCEPT ![i] = v]
  BY DEF ReadEnd, See
<1>4. /\ v.roots = view[i].roots /\ v.ended = IsEnded(n)
      /\ v.known = view[i].known /\ v.done = view[i].done
  BY <1>2 DEF Views
<1> HIDE DEF v
<1>5. /\ view'[i] = v /\ \A j \in Items \ {i} : view'[j] = view[j]
  BY <1>2, <1>3
<1>6. IsEnded(n) => Wired(i)
  BY <1>2 DEF GraphInv, IsStarted, IsEnded
<1>7. Children(n) \in SUBSET ({i} \X Steps)
  BY <1>2, ChildrenInItem
<1>8. frames' \in Seq(SUBSET ({i} \X Steps))
  BY <1>1, <1>7, FramesOfRow, FramesWithin
<1>9. OwnFrames'
  BY <1>1, <1>8 DEF OwnFrames
<1>10. \A j \in Items : Wired(j)' <=> Wired(j)
  BY <1>1 DEF Wired, Linked, tables
<1>11. \A j \in Items : OwnView(j)'
  BY <1>4, <1>5, <1>6, <1>10 DEF ViewInv, OwnView
<1>12. FreshView'
  BY <1>1, <1>4, <1>5 DEF ViewInv, FreshView
<1> QED
  BY <1>9, <1>11, <1>12 DEF ViewInv

LEMMA ReadShareKeepsView ==
  ASSUME PutsInv, ReadInv, GraphInv, ViewInv,
         NEW n \in Nodes, frames # <<>>, n \in Head(frames), ReadShare(n)
  PROVE  ViewInv'
<1> DEFINE i == rows[row]
           new == {n} \ Seen.known
           next == UNION {Children(m) : m \in new}
           ended == {m \in new : IsEnded(m)}
           v == [Seen EXCEPT !.known = Seen.known \cup new, !.done = Seen.done \cup ended]
<1>1. /\ UNCHANGED <<tables, putVars, rows, row, phase>> /\ phase = "share"
      /\ frames' = Push(next, Rest(n))
      /\ view' = [view EXCEPT ![i] = v]
  BY DEF ReadShare, Seen
<1>2. i \in Items /\ n \in {i} \X Steps /\ view \in [Items -> Views]
  BY <1>1, ReadsOwnNode DEF ReadInv, ReadTyped
<1>3. next \in SUBSET ({i} \X Steps) /\ new \subseteq {n} /\ ended \subseteq {n}
  BY <1>2, ChildrenInItem
<1>4. /\ v.roots = view[i].roots /\ v.ended = view[i].ended
      /\ v.known = view[i].known \cup new /\ v.done = view[i].done \cup ended
  BY <1>2 DEF Views, Seen
<1> HIDE DEF v, new, next, ended
<1>5. /\ view'[i] = v /\ \A j \in Items \ {i} : view'[j] = view[j]
  BY <1>1, <1>2
<1>6. frames' \in Seq(SUBSET ({i} \X Steps))
  BY <1>1, <1>3, FramesOfRow, FramesWithin
<1>7. OwnFrames'
  BY <1>1, <1>6 DEF OwnFrames
<1>8. v.known \subseteq {i} \X Steps /\ v.done \subseteq {i} \X Steps
  BY <1>2, <1>3, <1>4 DEF ViewInv, OwnView
<1> QED
  BY <1>1, <1>4, <1>5, <1>7, <1>8 DEF ViewInv, FreshView, OwnView, Wired, Linked, tables

LEMMA RootsInItem ==
  ASSUME ReadInv, ViewInv, NEW i \in Items
  PROVE  view[i].roots \subseteq {i} \X Steps
<1>1. view[i].roots \subseteq Nodes
  BY DEF ReadInv, ReadTyped, Views
<1> QED
  BY <1>1 DEF ViewInv, OwnView, Nodes

LEMMA ProceedKeepsView ==
  ASSUME PutsInv, ReadInv, ViewInv, Proceed
  PROVE  ViewInv'
<1>1. /\ UNCHANGED <<tables, rows, view>> /\ phase \in {"roots", "start", "end", "share"}
      /\ phase' \in {"nodes", "start", "end"} => phase \in {"roots", "start", "end"}
      /\ phase' \in {"nodes", "start", "end", "share", "count", "shown"}
  BY DEF Proceed, Turn
<1>2. FreshView'
  BY <1>1 DEF ViewInv, FreshView
<1>3. \A i \in Items : OwnView(i)'
  BY <1>1 DEF ViewInv, OwnView, Wired, Linked, tables
<1>4. OwnFrames'
  <2> SUFFICES ASSUME phase' \in {"end", "share"}
               PROVE  \A k \in DOMAIN frames' : frames'[k] \subseteq {rows[row']} \X Steps
    BY <1>1 DEF OwnFrames
  <2>1. ReadInv'
    BY ProceedKeeps
  <2>2. rows[row'] \in Items
    BY <1>1, <2>1 DEF ReadInv, RowsOK, Reading, PutsInv, TablesOK, tables
  <2>3. view[rows[row']].roots \subseteq {rows[row']} \X Steps
    BY <2>2, RootsInItem
  <2>4. frames' = <<>> \/ frames' = <<view[rows[row']].roots>>
    BY <1>1 DEF Proceed, Turn
  <2> QED
    BY <2>3, <2>4
<1> QED
  BY <1>2, <1>3, <1>4 DEF ViewInv

\* Steps that leave what was read as it is, or forget it.
LEMMA OthersKeepView ==
  ASSUME ViewInv, LinksKept, view' = view, frames' = frames, rows' = rows, row' = row,
         phase' = phase
  PROVE  ViewInv'
<1>1. \A i \in Items : Wired(i) => Wired(i)'
  BY WiredKept
<1> QED
  BY <1>1 DEF ViewInv, FreshView, OwnView, OwnFrames

LEMMA TurnsKeepView ==
  ASSUME ViewInv, UNCHANGED tables,
         \/ view' = view /\ phase \in {"idle", "list", "item", "nodes", "roots"}
         \/ view' = view /\ phase' \notin {"idle", "list", "item", "nodes", "roots", "start", "end"}
         \/ view' = [i \in Items |-> Unread],
         phase' \in {"idle", "list", "item"} =>
           phase \in {"idle", "list", "item"} \/ view' = [i \in Items |-> Unread],
         phase' \notin {"end", "share"}
  PROVE  ViewInv'
<1>1. CASE view' = [i \in Items |-> Unread]
  <2>1. \A i \in Items : view'[i] = Unread
    BY <1>1
  <2> QED
    BY <1>1, <2>1 DEF ViewInv, FreshView, OwnView, OwnFrames, Unread
<1>2. CASE view' = view
  <2>1. \A i \in Items : OwnView(i)'
    BY <1>2 DEF ViewInv, OwnView, Wired, Linked, tables
  <2>2. view = [i \in Items |-> Unread] => \A i \in Items : view[i].known = {} /\ view[i].done = {}
    BY DEF Unread
  <2>3. CASE view' = [i \in Items |-> Unread]
    BY <1>1, <2>3
  <2>4. CASE view' # [i \in Items |-> Unread]
    BY <1>2, <2>1, <2>2, <2>4 DEF ViewInv, FreshView, OwnFrames
  <2> QED
    BY <2>3, <2>4
<1> QED
  BY <1>1, <1>2

LEMMA NextView ==
  ASSUME PutsInv, ReadInv, GraphInv, LinksKept, ViewInv, [Next]_vars
  PROVE  ViewInv'
<1>1. CASE UNCHANGED readVars
  BY <1>1, OthersKeepView DEF readVars
<1>2. CASE \/ \E i \in Items : AskItem(i)
           \/ \E order \in Orders, size \in PageSizes : AskFirstPage(order, size)
  <2>1. UNCHANGED <<tables, view>> /\ phase = "idle" /\ phase' \in {"item", "list"}
    BY <1>2 DEF AskItem, AskFirstPage
  <2> QED
    BY <2>1, TurnsKeepView
<1>3. CASE List \/ GetItem \/ ReadNodes \/ Count
  <2>1. /\ UNCHANGED <<tables, view>>
        /\ \/ phase \in {"list", "item", "nodes"} /\ phase' \in {"count", "nodes", "missing", "failed", "roots"}
           \/ phase' \in {"empty", "shown"}
    BY <1>3 DEF List, GetItem, ReadNodes, Count, Turn
  <2> QED
    BY <2>1, TurnsKeepView
<1>4. CASE AskNextPage \/ Leave
  <2>1. UNCHANGED tables /\ view' = [i \in Items |-> Unread] /\ phase' \in {"list", "idle"}
    BY <1>4 DEF AskNextPage, Leave, Forget
  <2> QED
    BY <2>1, TurnsKeepView
<1>5. CASE ReadNode
  BY <1>5, ReadRootKeepsView, ReadStartKeepsView, ReadEndKeepsView, ReadShareKeepsView DEF ReadNode
<1>6. CASE Proceed
  BY <1>6, ProceedKeepsView
<1> QED
  BY <1>1, <1>2, <1>3, <1>4, <1>5, <1>6, OthersRead DEF Next, ClientStep, vars

\* Where only leaves have siblings, a graph has one node with children on each level:
\* below the nodes of one parent there is nothing but what is below that one.
LEMMA OneBranch ==
  ASSUME SiblingsAreLeavesIn(Input), NEW t \in Steps,
         \A s \in Steps : Input[s] < Input[t] => s <= Input[t],
         NEW u \in Steps, Input[u] > Input[t]
  PROVE  /\ Input[u] >= t
         /\ \E s \in Steps : Input[s] = t
<1> DEFINE T == {k \in {Input[s] : s \in Steps} : k > Input[t]}
<1>1. T \in SUBSET Nat /\ Input[u] \in T
  BY InputsAreEarlier
<1>2. PICK x \in T : \A y \in T : x <= y
  BY <1>1, LeastOfNaturals
<1>3. /\ x \in Steps /\ Input[x] \in Nat /\ Input[x] < x /\ Input[t] \in Nat /\ x > Input[t]
      /\ \E s \in Steps : Input[s] = x
  BY <1>2, InputsAreEarlier
<1>4. ~(Input[x] > Input[t])
  <2>1. ASSUME Input[x] > Input[t] PROVE FALSE
    <3>1. Input[x] \in T
      BY <1>3, <2>1
    <3>2. x <= Input[x] /\ x \in Nat
      BY <1>1, <1>2, <3>1
    <3> QED
      BY <1>3, <3>2
  <2> QED
    BY <2>1
<1>5. ~(Input[x] < Input[t])
  BY <1>1, <1>2, <1>3
<1>6. Input[x] = Input[t]
  BY <1>3, <1>4, <1>5
<1>7. x = t
  BY <1>3, <1>6 DEF SiblingsAreLeavesIn
<1> QED
  BY <1>1, <1>2, <1>3, <1>7

\* Reading a node that has ended goes down to its children, or to its siblings when it
\* has none, or ends when there are none of these either (pkg/dag/util.go:37-64).
LEMMA ReadsDown ==
  ASSUME SiblingsAreLeavesIn(Input), GraphInv, NEW i \in Items, NEW n \in Head(frames),
         Descends(i), IsEnded(n), UNCHANGED tables, frames' = Push(Children(n), Rest(n))
  PROVE  IF frames' = <<>> THEN AllEnded(i) ELSE Descends(i)'
<1>1. PICK v \in {Input[t] : t \in Steps}, S \in SUBSET ({i} \X Steps) :
        /\ frames = <<S>>
        /\ \A m \in S : Input[m[2]] = v
        /\ \A s \in Steps : Input[s] < v => s <= v /\ IsEnded(<<i, s>>)
        /\ \A s \in Steps : Input[s] = v /\ <<i, s>> \notin S => IsEnded(<<i, s>>)
  BY DEF Descends
<1>2. Head(frames) = S /\ Tail(frames) = <<>>
  BY <1>1
<1>3. PICK t \in Steps : n = <<i, t>> /\ Input[t] = v
  BY <1>1, <1>2
<1>4. v \in Nat /\ t \in Nat /\ v < t
  BY <1>3, InputsAreEarlier
<1>5. Wired(i)
  BY <1>3, NodeIsOwn DEF GraphInv, IsStarted, IsEnded
<1> DEFINE C == {<<i, s>> : s \in {s \in Steps : Input[s] = t}}
<1>6. Children(n) = C
  BY <1>3, <1>5, ChildrenInItem
<1>7. ASSUME NEW u \in Steps, Input[u] > v PROVE Input[u] >= t /\ C # {}
  <2>1. \A s \in Steps : Input[s] < Input[t] => s <= Input[t]
    BY <1>1, <1>3
  <2>2. Input[u] > Input[t]
    BY <1>3, <1>7
  <2>3. Input[u] >= t /\ \E s \in Steps : Input[s] = t
    BY <2>1, <2>2, OneBranch
  <2> QED
    BY <2>3
<1>8. \A m : IsEnded(m)' <=> IsEnded(m)
  BY DEF IsEnded, tables
<1>9. CASE S \ {n} # {}
  <2>1. PICK m \in S \ {n} : TRUE
    BY <1>9
  <2>2. PICK u \in Steps : m = <<i, u>> /\ u # t /\ Input[u] = Input[t]
    BY <1>1, <1>3, <2>1
  <2>3. C = {}
    BY <2>2 DEF SiblingsAreLeavesIn
  <2>4. frames' = <<S \ {n}>>
    <3>1. frames' = <<S \ {n}>> \o <<>>
      BY <1>2, <1>6, <1>9, <2>3 DEF Push, Rest
    <3> QED
      BY <3>1
  <2>5. \A s \in Steps : Input[s] = v /\ <<i, s>> \notin S \ {n} => IsEnded(<<i, s>>)
    BY <1>1
  <2>6. S \ {n} \in SUBSET ({i} \X Steps)
    OBVIOUS
  <2> QED
    BY <1>1, <1>8, <2>4, <2>5, <2>6 DEF Descends
<1>10. CASE S \ {n} = {}
  <2>1. frames' = IF C = {} THEN <<>> ELSE <<C>>
    <3>1. Rest(n) = <<>>
      BY <1>2, <1>10 DEF Push, Rest
    <3>2. C # {} => frames' = <<C>> \o <<>>
      BY <1>6, <3>1 DEF Push
    <3> QED
      BY <1>6, <3>1, <3>2 DEF Push
  <2>2. \A s \in Steps : Input[s] <= v => IsEnded(<<i, s>>)
    BY <1>1, <1>4, <1>10, InputsAreEarlier
  <2>3. CASE C = {}
    <3>1. ASSUME NEW s \in Steps PROVE Input[s] <= v
      <4>1. ~(Input[s] > v)
        BY <1>7, <2>3
      <4>2. Input[s] \in Nat
        BY InputsAreEarlier
      <4> QED
        BY <1>4, <4>1, <4>2
    <3> QED
      BY <2>1, <2>2, <2>3, <3>1 DEF AllEnded
  <2>4. CASE C # {}
    <3>1. ASSUME NEW s \in Steps, Input[s] < t PROVE s <= t /\ IsEnded(<<i, s>>)
      <4>1. Input[s] <= v /\ s \in Nat
        BY <1>4, <1>7, <3>1, InputsAreEarlier
      <4>2. CASE Input[s] = v
        <5>1. s = t
          BY <1>3, <2>4, <4>2 DEF SiblingsAreLeavesIn
        <5> QED
          BY <1>4, <2>2, <4>1, <5>1
      <4>3. CASE Input[s] < v
        BY <1>1, <1>4, <2>2, <4>1, <4>3
      <4> QED
        BY <1>4, <4>1, <4>2, <4>3, InputsAreEarlier
    <3>2. \A m \in C : Input[m[2]] = t
      OBVIOUS
    <3>3. t \in {Input[s] : s \in Steps} /\ C \in SUBSET ({i} \X Steps)
      BY <2>4
    <3>4. frames' = <<C>>
      BY <2>1, <2>4
    <3>5. \A s \in Steps : Input[s] = t => <<i, s>> \in C
      OBVIOUS
    <3> HIDE DEF C
    <3> QED
      BY <1>8, <3>1, <3>2, <3>3, <3>4, <3>5 DEF Descends
  <2> QED
    BY <2>3, <2>4
<1> QED
  BY <1>9, <1>10

\* What was read of another row, or is not read in a step, is as good as it was.
LEMMA EndKept ==
  ASSUME EndInv, LinksKept, UNCHANGED rows, NEW k \in DOMAIN rows, rows[k] \in Items,
         AllRoots(rows[k])' => AllRoots(rows[k]),
         view'[rows[k]].ended = view[rows[k]].ended,
         phase' = "end" /\ row' = k /\ frames' # <<>> => phase = "end" /\ row = k /\ frames' = frames,
         EndRead(k)' => EndRead(k)
  PROVE  AllRoots(rows[k])' =>
           /\ phase' = "end" /\ row' = k /\ frames' # <<>> => Descends(rows[k])'
           /\ EndRead(k)' /\ view'[rows[k]].ended => AllEnded(rows[k])'
<1> SUFFICES ASSUME AllRoots(rows[k])'
             PROVE  /\ phase' = "end" /\ row' = k /\ frames' # <<>> => Descends(rows[k])'
                    /\ EndRead(k)' /\ view'[rows[k]].ended => AllEnded(rows[k])'
  OBVIOUS
<1>1. \A s \in Steps : IsEnded(<<rows[k], s>>) => IsEnded(<<rows[k], s>>)'
  BY NodeIsOwn DEF LinksKept
<1>2. ASSUME phase' = "end", row' = k, frames' # <<>> PROVE Descends(rows[k])'
  <2>1. Descends(rows[k]) /\ frames' = frames
    BY <1>2 DEF EndInv
  <2> QED
    BY <1>1, <2>1 DEF Descends
<1>3. ASSUME EndRead(k)', view'[rows[k]].ended PROVE AllEnded(rows[k])'
  <2>1. AllEnded(rows[k])
    BY <1>3 DEF EndInv
  <2> QED
    BY <1>1, <2>1 DEF AllEnded
<1> QED
  BY <1>2, <1>3

LEMMA EndOfRead ==
  ASSUME SiblingsAreLeavesIn(Input), PutsInv, ReadInv, GraphInv, RowsDiffer, ViewInv, EndInv, LinksKept,
         NEW n \in Nodes, frames # <<>>, n \in Head(frames), ReadEnd(n)
  PROVE  EndInv'
<1> DEFINE i == rows[row]
           v == [view[i] EXCEPT !["ended"] = IsEnded(n)]
<1>1. /\ UNCHANGED <<tables, rows, row, phase>> /\ phase = "end"
      /\ frames' = IF IsEnded(n) THEN Push(Children(n), Rest(n)) ELSE Tail(frames)
  BY DEF ReadEnd
<1>2. i \in Items /\ row \in DOMAIN rows /\ view \in [Items -> Views]
  BY <1>1, ReadsOwnNode DEF ReadInv, ReadTyped
<1>3. view' = [view EXCEPT ![i] = v]
  BY DEF ReadEnd, See
<1>4. v.roots = view[i].roots /\ v.ended = IsEnded(n)
  BY <1>2 DEF Views
<1> HIDE DEF v
<1>5. /\ view'[i] = v /\ \A j \in Items \ {i} : view'[j] = view[j]
  BY <1>2, <1>3
<1>6. ASSUME NEW k \in DOMAIN rows, k # row
      PROVE  AllRoots(rows[k])' =>
               /\ phase' = "end" /\ row' = k /\ frames' # <<>> => Descends(rows[k])'
               /\ EndRead(k)' /\ view'[rows[k]].ended => AllEnded(rows[k])'
  <2>1. rows[k] \in Items /\ rows[k] # i
    BY <1>2, <1>6 DEF RowsDiffer, ReadInv, RowsOK, PutsInv, TablesOK
  <2>2. view'[rows[k]] = view[rows[k]]
    BY <1>5, <2>1
  <2>3. AllRoots(rows[k])' => AllRoots(rows[k])
    BY <1>1, <2>2 DEF AllRoots
  <2>4. EndRead(k)' => EndRead(k)
    BY <1>1, <1>6 DEF EndRead
  <2> QED
    BY <1>1, <1>6, <2>1, <2>2, <2>3, <2>4, EndKept
<1>7. ASSUME AllRoots(i)'
      PROVE  /\ phase' = "end" /\ row' = row /\ frames' # <<>> => Descends(i)'
             /\ EndRead(row)' /\ view'[i].ended => AllEnded(i)'
  <2>1. AllRoots(i)
    BY <1>1, <1>4, <1>5, <1>7 DEF AllRoots
  <2>2. Descends(i)
    BY <1>1, <1>2, <2>1 DEF EndInv
  <2>3. EndRead(row)' => frames' = <<>>
    <3>1. row \in Nat
      BY <1>2 DEF ReadInv, RowsOK
    <3> QED
      BY <1>1, <3>1 DEF EndRead
  <2>4. CASE IsEnded(n)
    <3>1. IF frames' = <<>> THEN AllEnded(i) ELSE Descends(i)'
      BY <1>1, <1>2, <2>2, <2>4, ReadsDown
    <3>2. AllEnded(i) => AllEnded(i)'
      BY <1>1 DEF AllEnded, IsEnded, tables
    <3> QED
      BY <2>3, <3>1, <3>2
  <2>5. CASE ~IsEnded(n)
    <3>1. frames' = <<>>
      BY <1>1, <2>2, <2>5 DEF Descends
    <3>2. view'[i].ended = FALSE
      BY <1>4, <1>5, <2>5
    <3> QED
      BY <3>1, <3>2
  <2> QED
    BY <2>4, <2>5
<1>8. \A k \in DOMAIN rows :
        AllRoots(rows[k])' =>
          /\ phase' = "end" /\ row' = k /\ frames' # <<>> => Descends(rows[k])'
          /\ EndRead(k)' /\ view'[rows[k]].ended => AllEnded(rows[k])'
  BY <1>1, <1>6, <1>7
<1> QED
  BY <1>1, <1>8 DEF EndInv

\* Reading the end of an item begins with its roots.
LEMMA RootsDescend ==
  ASSUME ReadInv, ViewInv, NEW i \in Items, AllRoots(i), view[i].roots # {},
         frames' = <<view[i].roots>>
  PROVE  Descends(i)'
<1> DEFINE S == view[i].roots
<1>1. S \in SUBSET ({i} \X Steps)
  BY RootsInItem
<1>2. \A n \in S : Input[n[2]] = 0
  BY DEF ViewInv, OwnView
<1>3. 0 \in {Input[t] : t \in Steps}
  <2>1. PICK n \in S : TRUE
    OBVIOUS
  <2>2. n[2] \in Steps
    BY <1>1, <2>1
  <2> QED
    BY <1>2, <2>1, <2>2
<1>4. \A s \in Steps : Input[s] = 0 => <<i, s>> \in S
  BY DEF AllRoots
<1>5. \A s \in Steps : ~(Input[s] < 0)
  BY InputsAreEarlier
<1> HIDE DEF S
<1>6. frames' = <<S>>
  BY DEF S
<1> QED
  BY <1>1, <1>2, <1>3, <1>4, <1>5, <1>6 DEF Descends

\* Neither the start nor the share of an item touches its end.
LEMMA SameEndAndRoots ==
  ASSUME PutsInv, ReadInv, NEW n \in Nodes, ReadStart(n) \/ ReadShare(n)
  PROVE  \A i \in Items : view'[i].ended = view[i].ended /\ view'[i].roots = view[i].roots
<1>1. view \in [Items -> Views]
  BY DEF ReadInv, ReadTyped
<1>2. PICK v : /\ view' = [view EXCEPT ![rows[row]] = v]
               /\ rows[row] \in Items => v.ended = Seen.ended /\ v.roots = Seen.roots
  <2>1. CASE ReadStart(n)
    <3> DEFINE v == [view[rows[row]] EXCEPT !["started"] = Seen.started \/ IsStarted(n)]
    <3>1. view' = [view EXCEPT ![rows[row]] = v]
      BY <2>1 DEF ReadStart, See
    <3>2. rows[row] \in Items => v.ended = Seen.ended /\ v.roots = Seen.roots
      BY <1>1 DEF Seen, Views
    <3> QED
      BY <3>1, <3>2
  <2>2. CASE ReadShare(n)
    <3> DEFINE new == {n} \ Seen.known
               v == [view[rows[row]] EXCEPT !.known = Seen.known \cup new,
                                            !.done = Seen.done \cup {m \in new : IsEnded(m)}]
    <3>1. view' = [view EXCEPT ![rows[row]] = v]
      BY <2>2 DEF ReadShare
    <3>2. rows[row] \in Items => v.ended = Seen.ended /\ v.roots = Seen.roots
      BY <1>1 DEF Seen, Views
    <3> QED
      BY <3>1, <3>2
  <2> QED
    BY <2>1, <2>2
<1> QED
  BY <1>1, <1>2 DEF Seen

\* An answer goes on to the end of an item from its roots, and beyond it when nothing is
\* left to read of that.
LEMMA EndOfProceed ==
  ASSUME PutsInv, ReadInv, ViewInv, EndInv, LinksKept, Proceed
  PROVE  EndInv'
<1>1. /\ UNCHANGED <<tables, rows, view>> /\ frames = <<>> /\ rows \in Seq(items) /\ row \in DOMAIN rows
      /\ items \subseteq Items
  BY DEF Proceed, ReadInv, RowsOK, Reading, PutsInv, TablesOK
<1>2. ASSUME NEW k \in DOMAIN rows, AllRoots(rows[k])
      PROVE  view[rows[k]].roots # {} /\ rows[k] \in Items
  <2>1. 1 \in Steps /\ Input[1] = 0
    <3>1. 1 \in Steps
      BY ListingAssumption, StepsCounted
    <3> QED
      BY <3>1, InputsAreEarlier
  <2>2. <<rows[k], 1>> \in view[rows[k]].roots
    BY <1>2, <2>1 DEF AllRoots
  <2>3. rows[k] \in items
    BY <1>1
  <2> QED
    BY <1>1, <2>2, <2>3
<1>3. CASE phase = "start"
  <2>1. phase' = "end" /\ row' = row
    BY <1>3 DEF Proceed, Turn
  <2>0. frames' = IF view[rows[row]].roots # {} THEN <<view[rows[row]].roots>> ELSE <<>>
    <3>1. Turn("end", row) /\ rows' = rows /\ view' = view
      BY <1>3 DEF Proceed
    <3> QED
      BY <3>1 DEF Turn
  <2>2. ASSUME NEW k \in DOMAIN rows, AllRoots(rows[k]), EndRead(k)' PROVE EndRead(k)
    <3>1. k = row => frames' # <<>>
      BY <1>2, <2>0, <2>2
    <3> QED
      BY <1>3, <2>1, <2>2, <3>1 DEF EndRead
  <2>3. ASSUME AllRoots(rows[row]) PROVE Descends(rows[row])'
    <3>1. PICK i \in Items : i = rows[row]
      BY <1>1, <1>2, <2>3
    <3>2. frames' = <<view[i].roots>>
      BY <1>1, <1>2, <2>0, <2>3, <3>1
    <3>3. Descends(i)'
      BY <1>1, <1>2, <2>3, <3>1, <3>2, RootsDescend
    <3> QED
      BY <1>1, <2>1, <3>1, <3>3
  <2> QED
    BY <1>1, <1>3, <2>1, <2>2, <2>3 DEF EndInv, AllRoots, AllEnded, IsEnded, tables
<1>4. CASE phase # "start"
  <2>1. \/ phase' = "nodes"
        \/ phase' = "start" /\ ((phase = "roots" /\ row' = 1) \/ (phase = "end" /\ row' = row + 1))
        \/ phase' = "share" /\ phase = "end" /\ row = Len(rows)
        \/ phase = "share"
    BY <1>4 DEF Proceed, Turn
  <2>2. phase' # "end"
    BY <1>4 DEF Proceed, Turn
  <2>3. ASSUME NEW k \in DOMAIN rows, EndRead(k)' PROVE EndRead(k)
    <3>1. k \in Nat /\ row \in Nat /\ k <= Len(rows) /\ k >= 1
      BY <1>1
    <3> QED
      BY <1>1, <2>1, <2>2, <2>3, <3>1 DEF EndRead
  <2> QED
    BY <1>1, <2>2, <2>3 DEF EndInv, AllRoots, AllEnded, IsEnded, tables
<1> QED
  BY <1>3, <1>4

LEMMA NextEnd ==
  ASSUME SiblingsAreLeavesIn(Input), PutsInv, ReadInv, GraphInv, LinksKept, RowsDiffer, ViewInv, EndInv,
         [Next]_vars
  PROVE  EndInv'
<1>1. rows \in Seq(items) /\ \A k \in DOMAIN rows : rows[k] \in Items
  BY DEF ReadInv, RowsOK, PutsInv, TablesOK
<1>2. CASE UNCHANGED readVars
  <2>1. UNCHANGED <<rows, row, phase, view, frames>>
    BY <1>2 DEF readVars
  <2>2. \A k \in DOMAIN rows : AllRoots(rows[k])' => AllRoots(rows[k])
    BY <2>1 DEF AllRoots
  <2>3. \A k \in DOMAIN rows : EndRead(k)' => EndRead(k)
    BY <2>1 DEF EndRead
  <2> QED
    BY <1>1, <2>1, <2>2, <2>3, EndKept DEF EndInv
<1>3. CASE rows' = <<>>
  BY <1>3 DEF EndInv
<1>4. CASE phase' \in {"item", "list", "nodes", "roots", "missing", "failed", "empty"}
  BY <1>4 DEF EndInv, EndRead
<1>5. CASE Count
  <2>1. phase = "count" /\ UNCHANGED <<tables, rows, view>> /\ phase' \in {"empty", "shown"}
    BY <1>5 DEF Count
  <2> QED
    BY <2>1 DEF EndInv, EndRead, AllRoots, AllEnded, IsEnded, tables
<1>6. CASE Proceed
  BY <1>6, EndOfProceed
<1>7. CASE ReadNode
  <2>1. PICK n \in Nodes : frames # <<>> /\ n \in Head(frames)
                           /\ (ReadRoot(n) \/ ReadStart(n) \/ ReadEnd(n) \/ ReadShare(n))
    BY <1>7 DEF ReadNode
  <2>2. CASE ReadEnd(n)
    BY <2>1, <2>2, EndOfRead
  <2>3. CASE ReadRoot(n)
    BY <1>4, <2>3 DEF ReadRoot
  <2>4. CASE ReadStart(n) \/ ReadShare(n)
    <3>0. UNCHANGED <<rows, row, phase>> /\ phase \in {"start", "share"}
      BY <2>4 DEF ReadStart, ReadShare
    <3>1. \A k \in DOMAIN rows : /\ view'[rows[k]].ended = view[rows[k]].ended
                                 /\ view'[rows[k]].roots = view[rows[k]].roots
      <4>1. \A i \in Items : view'[i].ended = view[i].ended /\ view'[i].roots = view[i].roots
        BY <2>1, <2>4, SameEndAndRoots
      <4> QED
        BY <1>1, <4>1
    <3>2. \A k \in DOMAIN rows : AllRoots(rows[k])' => AllRoots(rows[k])
      BY <3>0, <3>1 DEF AllRoots
    <3>3. \A k \in DOMAIN rows : EndRead(k)' => EndRead(k)
      BY <3>0 DEF EndRead
    <3> QED
      BY <1>1, <3>0, <3>1, <3>2, <3>3, EndKept DEF EndInv
  <2> QED
    BY <2>1, <2>2, <2>3, <2>4
<1>8. CASE List \/ GetItem \/ ReadNodes
  <2>1. rows' = <<>> \/ phase' \in {"nodes", "missing", "failed", "roots"}
    BY <1>8 DEF List, GetItem, ReadNodes, Turn
  <2> QED
    BY <1>3, <1>4, <2>1
<1>9. CASE \/ \E i \in Items : AskItem(i)
           \/ \E order \in Orders, size \in PageSizes : AskFirstPage(order, size)
           \/ AskNextPage \/ Leave
  BY <1>3, <1>4, <1>9 DEF AskItem, AskFirstPage, AskNextPage, Leave, Forget
<1> QED
  BY <1>2, <1>5, <1>6, <1>7, <1>8, <1>9, OthersRead DEF Next, ClientStep, vars

-----------------------------------------------------------------------------
\* Every node of an item that is shown with an end time is counted in its share.

LEMMA ReachedIsKnown ==
  ASSUME NEW i \in Items, Reaches(i), frames = <<>>
  PROVE  \A s \in Steps : <<i, s>> \in view[i].known
<1> DEFINE T == {s \in Steps : <<i, s>> \notin view[i].known}
<1> SUFFICES ASSUME T # {} PROVE FALSE
  OBVIOUS
<1>1. T \in SUBSET Nat
  BY InputsAreEarlier
<1>2. PICK x \in T : \A y \in T : x <= y
  BY <1>1, LeastOfNaturals
<1>3. Input[x] # 0 /\ <<i, Input[x]>> \notin view[i].known
  BY <1>2 DEF Reaches
<1>4. Input[x] \in T /\ Input[x] < x /\ x \in Nat /\ Input[x] \in Nat
  BY <1>2, <1>3, InputsAreEarlier
<1>5. x <= Input[x]
  BY <1>2, <1>4
<1> QED
  BY <1>4, <1>5

InFrames(x, fs) == \E k \in DOMAIN fs : x \in fs[k]

LEMMA PushHolds ==
  ASSUME NEW U, NEW fs \in Seq(SUBSET U), NEW S \in SUBSET U, NEW x, x \in S \/ InFrames(x, fs)
  PROVE  InFrames(x, Push(S, fs))
<1>1. CASE S = {}
  BY <1>1 DEF Push
<1>2. CASE S # {}
  <2>1. <<S>> \in Seq(SUBSET U) /\ Len(<<S>>) = 1 /\ <<S>>[1] = S
    OBVIOUS
  <2>2. Push(S, fs) = <<S>> \o fs
    BY <1>2 DEF Push
  <2>3. /\ DOMAIN (<<S>> \o fs) = 1..Len(fs) + 1
        /\ (<<S>> \o fs)[1] = S
        /\ \A k \in 1..Len(fs) : (<<S>> \o fs)[k + 1] = fs[k]
    BY <2>1
  <2>4. CASE x \in S
    BY <2>2, <2>3, <2>4, 1 \in 1..Len(fs) + 1 DEF InFrames
  <2>5. CASE InFrames(x, fs)
    <3>1. PICK k \in 1..Len(fs) : x \in fs[k]
      BY <2>5 DEF InFrames
    <3>2. k + 1 \in 1..Len(fs) + 1
      OBVIOUS
    <3> QED
      BY <2>2, <2>3, <3>1, <3>2 DEF InFrames
  <2> QED
    BY <2>4, <2>5
<1> QED
  BY <1>1, <1>2

\* Of the nodes that are left, one less is.
LEMMA RestHolds ==
  ASSUME NEW U, frames \in Seq(SUBSET U), frames # <<>>, NEW n, NEW x,
         InFrames(x, frames), x # n
  PROVE  InFrames(x, Rest(n))
<1>1. PICK k \in 1..Len(frames) : x \in frames[k]
  BY DEF InFrames
<1>2. Tail(frames) \in Seq(SUBSET U) /\ Head(frames) \ {n} \in SUBSET U
  OBVIOUS
<1>3. CASE k = 1
  <2>1. x \in Head(frames) \ {n}
    BY <1>1, <1>3
  <2> QED
    BY <1>2, <2>1, PushHolds DEF Rest
<1>4. CASE k # 1
  <2>1. k - 1 \in DOMAIN Tail(frames) /\ Tail(frames)[k - 1] = frames[k]
    BY <1>1, <1>4
  <2>2. InFrames(x, Tail(frames))
    BY <1>1, <2>1 DEF InFrames
  <2> QED
    BY <1>2, <2>2, PushHolds DEF Rest
<1> QED
  BY <1>3, <1>4

LEMMA ReachesOn ==
  ASSUME ReadInv, GraphInv, NEW i \in Items, Wired(i), Reaches(i), frames # <<>>,
         NEW n \in {i} \X Steps, NEW new, new = {n} \ view[i].known,
         frames \in Seq(SUBSET ({i} \X Steps)),
         frames' = Push(UNION {Children(m) : m \in new}, Rest(n)),
         view'[i].known = view[i].known \cup new
  PROVE  Reaches(i)'
<1> DEFINE U == {i} \X Steps
           next == UNION {Children(m) : m \in new}
<1>1. next \in SUBSET U
  BY ChildrenInItem
<1>2. Rest(n) \in Seq(SUBSET U)
  BY FramesWithin
<1>3. ASSUME NEW x, x \in next \/ InFrames(x, Rest(n)) PROVE InFrames(x, frames')
  BY <1>1, <1>2, <1>3, PushHolds
<1>4. n \in view'[i].known
  OBVIOUS
<1>5. ASSUME NEW s \in Steps
      PROVE  \/ <<i, s>> \in view'[i].known
             \/ InFrames(<<i, s>>, frames')
             \/ Input[s] # 0 /\ <<i, Input[s]>> \notin view'[i].known
  <2>1. CASE <<i, s>> \in view[i].known
    BY <2>1
  <2>2. CASE InFrames(<<i, s>>, frames)
    <3>1. CASE <<i, s>> = n
      BY <1>4, <3>1
    <3>2. CASE <<i, s>> # n
      <4>1. InFrames(<<i, s>>, Rest(n))
        BY <2>2, <3>2, RestHolds
      <4> QED
        BY <1>3, <4>1
    <3> QED
      BY <3>1, <3>2
  <2>3. CASE Input[s] # 0 /\ <<i, Input[s]>> \notin view[i].known
    <3>1. CASE <<i, Input[s]>> = n
      <4>1. n \in new /\ Input[s] \in Steps
        BY <2>3, <3>1
      <4>2. <<i, s>> \in Children(n)
        BY <3>1, <4>1, ChildrenInItem
      <4>3. <<i, s>> \in next
        BY <4>1, <4>2
      <4> QED
        BY <1>3, <4>3
    <3>2. CASE <<i, Input[s]>> # n
      BY <2>3, <3>2
    <3> QED
      BY <3>1, <3>2
  <2> QED
    BY <2>1, <2>2, <2>3 DEF Reaches, InFrames
<1> QED
  BY <1>5 DEF Reaches, InFrames

\* What is read of an item when its share is.
ShareOK(i, k) ==
  /\ view[i].known \subseteq view[i].done
  /\ phase = "share" /\ row < k => view[i].known = {}
  /\ phase = "share" /\ row = k => Reaches(i)
  /\ ShareRead(k) => {i} \X Steps \subseteq view[i].done

LEMMA ShareOfRead ==
  ASSUME PutsInv, ReadInv, GraphInv, RowsDiffer, ViewInv, EndInv, ShareInv,
         NEW n \in Nodes, frames # <<>>, n \in Head(frames), ReadShare(n)
  PROVE  ShareInv'
<1> DEFINE i == rows[row]
           new == {n} \ Seen.known
           ended == {m \in new : IsEnded(m)}
           v == [Seen EXCEPT !.known = Seen.known \cup new, !.done = Seen.done \cup ended]
<1>1. /\ UNCHANGED <<tables, rows, row, phase>> /\ phase = "share"
      /\ frames' = Push(UNION {Children(m) : m \in new}, Rest(n))
      /\ view' = [view EXCEPT ![i] = v]
  BY DEF ReadShare, Seen
<1>2. i \in Items /\ n \in {i} \X Steps /\ row \in DOMAIN rows /\ view \in [Items -> Views]
  BY <1>1, ReadsOwnNode DEF ReadInv, ReadTyped
<1>3. /\ v.roots = view[i].roots /\ v.ended = view[i].ended
      /\ v.known = view[i].known \cup new /\ v.done = view[i].done \cup ended
  BY <1>2 DEF Views, Seen
<1>4. Seen = view[i]
  BY DEF Seen
<1> HIDE DEF v, ended, new
<1>5. /\ view'[i] = v /\ \A j \in Items \ {i} : view'[j] = view[j]
  BY <1>1, <1>2
<1>6. rows \in Seq(items) /\ row \in Nat /\ items \subseteq Items
  BY <1>2 DEF ReadInv, RowsOK, PutsInv, TablesOK
<1>7. ASSUME NEW k \in DOMAIN rows, k # row, AllRoots(rows[k])', view'[rows[k]].ended
      PROVE  ShareOK(rows[k], k)'
  <2>1. rows[k] \in Items /\ rows[k] # i
    BY <1>2, <1>6, <1>7 DEF RowsDiffer
  <2>2. view'[rows[k]] = view[rows[k]]
    BY <1>5, <2>1
  <2>3. AllRoots(rows[k])
    BY <1>1, <1>7, <2>2 DEF AllRoots
  <2> QED
    BY <1>1, <1>7, <2>2, <2>3 DEF ShareInv, ShareOK, ShareRead
<1>8. ASSUME AllRoots(i)', view'[i].ended PROVE ShareOK(i, row)'
  <2>1. AllRoots(i) /\ view[i].ended
    BY <1>1, <1>3, <1>5, <1>8 DEF AllRoots
  <2>2. Wired(i)
    BY <1>2, <2>1 DEF ViewInv, OwnView
  <2>3. AllEnded(i)
    BY <1>1, <1>2, <2>1 DEF EndInv, EndRead
  <2>4. new = {n} \ view[i].known /\ ended = new
    BY <1>2, <1>4, <2>3 DEF new, ended, AllEnded
  <2>5. view'[i].known = view[i].known \cup new
    BY <1>3, <1>5
  <2>6. view'[i].known \subseteq view'[i].done
    BY <1>2, <1>3, <1>5, <2>1, <2>4 DEF ShareInv
  <2>7. Reaches(i)'
    <3>1. Reaches(i)
      BY <1>1, <1>2, <2>1 DEF ShareInv
    <3>2. frames \in Seq(SUBSET ({i} \X Steps))
      BY <1>1, FramesOfRow
    <3>3. PICK j \in Items : j = i
      BY <1>2
    <3>4. Reaches(j)'
      BY <1>1, <1>2, <2>2, <2>4, <2>5, <3>1, <3>2, <3>3, ReachesOn
    <3> QED
      BY <1>1, <3>3, <3>4
  <2> QED
    BY <1>1, <1>6, <2>6, <2>7 DEF ShareOK, ShareRead
<1>9. \A k \in DOMAIN rows : AllRoots(rows[k])' /\ view'[rows[k]].ended => ShareOK(rows[k], k)'
  BY <1>1, <1>7, <1>8
<1> QED
  BY <1>1, <1>9 DEF ShareInv, ShareOK

LEMMA ShareOfProceed ==
  ASSUME PutsInv, ReadInv, ViewInv, ShareInv, Proceed, phase \in {"end", "share"},
         phase' \in {"share", "count", "shown"}
  PROVE  ShareInv'
<1>1. /\ UNCHANGED <<tables, rows, view>> /\ frames = <<>> /\ rows \in Seq(items) /\ row \in DOMAIN rows
      /\ items \subseteq Items
  BY DEF Proceed, ReadInv, RowsOK, Reading, PutsInv, TablesOK
<1>2. \/ phase = "end" /\ phase' = "share" /\ row' = 1
      \/ phase = "share" /\ phase' = "share" /\ row' = row + 1
      \/ phase = "share" /\ phase' \in {"count", "shown"} /\ row = Len(rows)
  BY DEF Proceed, Turn
<1>3. phase' = "share" =>
        frames' = IF view[rows[row']].roots # {} THEN <<view[rows[row']].roots>> ELSE <<>>
  <2>1. \A p, j : Turn(p, j) => phase' = p /\ row' = j /\
          (p = "share" => frames' = IF view'[rows'[j]].roots # {} THEN <<view'[rows'[j]].roots>> ELSE <<>>)
    BY DEF Turn
  <2> QED
    BY <1>1, <2>1 DEF Proceed
<1>4. ASSUME NEW k \in DOMAIN rows, AllRoots(rows[k]), view[rows[k]].ended
      PROVE  ShareOK(rows[k], k)'
  <2> DEFINE i == rows[k]
  <2>1. i \in Items /\ k \in Nat /\ row \in Nat /\ 1 <= k /\ k <= Len(rows)
    BY <1>1
  <2>2. view[i].known \subseteq view[i].done
    BY <1>4 DEF ShareInv
  <2>3. (phase = "end" \/ row < k) => view[i].known = {}
    BY <1>4, <2>1 DEF ShareInv, ViewInv, FreshView
  <2>4. phase = "share" /\ k <= row => {i} \X Steps \subseteq view[i].done
    <3>1. CASE phase = "share" /\ k = row
      <4>1. Reaches(i)
        BY <1>4, <3>1 DEF ShareInv
      <4>2. \A s \in Steps : <<i, s>> \in view[i].known
        BY <1>1, <2>1, <4>1, ReachedIsKnown
      <4> QED
        BY <2>2, <4>2
    <3>2. CASE phase = "share" /\ k < row
      BY <1>4, <3>2 DEF ShareInv, ShareRead
    <3> QED
      BY <2>1, <3>1, <3>2
  <2>5. phase' = "share" /\ row' = k => view[i].known = {} /\ Reaches(i)'
    <3> SUFFICES ASSUME phase' = "share", row' = k PROVE view[i].known = {} /\ Reaches(i)'
      OBVIOUS
    <3>1. view[i].known = {}
      BY <1>2, <2>1, <2>3
    <3>2. frames' = <<>> \/ frames' = <<view[i].roots>>
      BY <1>3
    <3>3. ASSUME NEW s \in Steps
          PROVE  (\E l \in DOMAIN frames' : <<i, s>> \in frames'[l]) \/ Input[s] # 0
      <4>1. CASE Input[s] = 0
        <5>1. <<i, s>> \in view[i].roots
          BY <1>4, <4>1 DEF AllRoots
        <5>2. frames' = <<view[i].roots>>
          BY <1>3, <5>1
        <5> QED
          BY <5>1, <5>2
      <4> QED
        BY <4>1
    <3>4. view'[rows'[k]].known = {} /\ rows'[k] = i
      BY <1>1, <3>1
    <3> QED
      BY <1>1, <3>1, <3>3, <3>4 DEF Reaches
  <2>6. phase' = "share" /\ row' < k => view[i].known = {}
    BY <1>2, <2>1, <2>3
  <2>7. ShareRead(k)' => phase = "share" /\ k <= row
    BY <1>2, <2>1 DEF ShareRead
  <2> QED
    BY <1>1, <2>2, <2>4, <2>5, <2>6, <2>7 DEF ShareOK
<1>5. \A k \in DOMAIN rows : AllRoots(rows[k])' /\ view'[rows[k]].ended => ShareOK(rows[k], k)'
  BY <1>1, <1>4 DEF AllRoots
<1> QED
  BY <1>1, <1>5 DEF ShareInv, ShareOK

\* Nothing is known of an item before its share is read.
LEMMA ShareNotRead ==
  /\ PutsInv /\ ReadInv /\ ViewInv
  /\ phase \in {"idle", "list", "item", "nodes", "roots", "start", "end"}
  => ShareInv
<1> SUFFICES ASSUME PutsInv, ReadInv, ViewInv,
                    phase \in {"idle", "list", "item", "nodes", "roots", "start", "end"}
             PROVE  ShareInv
  OBVIOUS
<1>1. \A k \in DOMAIN rows : rows[k] \in Items
  BY DEF ReadInv, RowsOK, PutsInv, TablesOK
<1>2. phase \in {"idle", "list", "item"} => rows = <<>>
  BY DEF ReadInv, RowsOK
<1>3. phase \notin {"idle", "list", "item"} => \A i \in Items : view[i].known = {}
  BY DEF ViewInv, FreshView
<1> QED
  BY <1>1, <1>2, <1>3 DEF ShareInv, ShareRead

LEMMA NextShare ==
  ASSUME PutsInv, PutsInv', ReadInv, ReadInv', GraphInv, RowsDiffer, ViewInv, ViewInv', EndInv, ShareInv,
         [Next]_vars
  PROVE  ShareInv'
<1>1. CASE UNCHANGED readVars
  BY <1>1 DEF readVars, ShareInv, AllRoots, Reaches, ShareRead
<1>2. CASE phase' \in {"idle", "list", "item", "nodes", "roots", "start", "end"}
  <2>1. (phase \in {"idle", "list", "item", "nodes", "roots", "start", "end"})'
    BY <1>2
  <2> QED
    BY <2>1, ShareNotRead, PTL
<1>3. CASE rows' = <<>>
  BY <1>3 DEF ShareInv
<1>4. CASE phase' \in {"missing", "failed", "empty"} /\ UNCHANGED <<rows, view>>
  BY <1>4 DEF ShareInv, ShareRead, AllRoots
<1>5. CASE Count
  <2>1. phase = "count" /\ UNCHANGED <<rows, view>> /\ phase' \in {"empty", "shown"}
    BY <1>5 DEF Count
  <2> QED
    BY <2>1 DEF ShareInv, ShareRead, AllRoots
<1>6. CASE Proceed
  <2>1. \/ phase' \in {"nodes", "start", "end"}
        \/ phase \in {"end", "share"} /\ phase' \in {"share", "count", "shown"}
    BY <1>6 DEF Proceed, Turn
  <2> QED
    BY <1>2, <1>6, <2>1, ShareOfProceed
<1>7. CASE ReadNode
  <2>1. PICK n \in Nodes : frames # <<>> /\ n \in Head(frames)
                           /\ (ReadRoot(n) \/ ReadStart(n) \/ ReadEnd(n) \/ ReadShare(n))
    BY <1>7 DEF ReadNode
  <2>2. CASE ReadShare(n)
    BY <2>1, <2>2, ShareOfRead
  <2>3. CASE ReadRoot(n) \/ ReadStart(n) \/ ReadEnd(n)
    <3>1. phase' \in {"roots", "start", "end"} \/ (phase' = "failed" /\ UNCHANGED <<rows, view>>)
      BY <2>3 DEF ReadRoot, ReadStart, ReadEnd
    <3> QED
      BY <1>2, <1>4, <3>1
  <2> QED
    BY <2>1, <2>2, <2>3
<1>8. CASE List \/ GetItem \/ ReadNodes
  <2>1. \/ rows' = <<>> \/ phase' \in {"nodes", "roots"}
        \/ phase' \in {"missing", "failed"} /\ UNCHANGED <<rows, view>>
    BY <1>8 DEF List, GetItem, ReadNodes, Turn
  <2> QED
    BY <1>2, <1>3, <1>4, <2>1
<1>9. CASE \/ \E i \in Items : AskItem(i)
           \/ \E order \in Orders, size \in PageSizes : AskFirstPage(order, size)
           \/ AskNextPage \/ Leave
  BY <1>2, <1>9 DEF AskItem, AskFirstPage, AskNextPage, Leave
<1> QED
  BY <1>1, <1>5, <1>6, <1>7, <1>8, <1>9, OthersRead DEF Next, ClientStep, vars

\* While an answer is put together the graphs only grow, so what was seen of an item
\* holds of it when it is shown.
THEOREM EndedAlwaysShownComplete == Spec => []EndedShownComplete
<1> DEFINE Inv == /\ ListingInv /\ GraphInv /\ RowsDiffer /\ ViewInv
                  /\ SiblingsAreLeavesIn(Input) => EndInv /\ ShareInv
<1>1. Init => Inv
  <2> SUFFICES ASSUME Init PROVE Inv
    OBVIOUS
  <2>1. EndInv /\ ShareInv
    BY DEF Init, EndInv, ShareInv
  <2> QED
    BY <2>1, InitPuts, InitRead, InitGraph, InitRowsViews DEF ListingInv
<1>2. Inv /\ [Next]_vars => Inv'
  <2> SUFFICES ASSUME Inv, [Next]_vars PROVE Inv'
    OBVIOUS
  <2>1. PutsInv /\ PutsInv' /\ ReadInv /\ ReadInv'
    BY NextPuts, NextRead DEF ListingInv
  <2>2. LinksKept /\ GraphInv'
    BY <2>1, NextGraph
  <2>3. RowsDiffer' /\ ViewInv'
    BY <2>1, <2>2, NextRowsDiffer, NextView
  <2>4. SiblingsAreLeavesIn(Input) => EndInv' /\ ShareInv'
    BY <2>1, <2>2, <2>3, NextEnd, NextShare
  <2>5. SiblingsAreLeavesIn(Input)' <=> SiblingsAreLeavesIn(Input)
    BY DEF SiblingsAreLeavesIn
  <2> QED
    BY <2>1, <2>2, <2>3, <2>4, <2>5 DEF ListingInv
<1>3. Inv => EndedShownComplete
  <2> SUFFICES ASSUME Inv, phase = "shown", NEW k \in DOMAIN rows, view[rows[k]].ended,
                      SiblingsAreLeaves(rows[k]),
                      GetNodesByQueueItemID(rows[k]) \cap rooted \subseteq view[rows[k]].roots
               PROVE  view[rows[k]].done = GetNodesByQueueItemID(rows[k])
    BY DEF EndedShownComplete
  <2> DEFINE i == rows[k]
  <2>1. i \in Items
    BY DEF ListingInv, ReadInv, RowsOK, PutsInv, TablesOK
  <2>2. Wired(i)
    BY <2>1 DEF ViewInv, OwnView
  <2>3. GetNodesByQueueItemID(i) = {i} \X Steps
    BY <2>1, <2>2, NodeIsOwn DEF Wired, GetNodesByQueueItemID, Statuses, Nodes
  <2>4. AllRoots(i)
    BY <2>1, <2>2, <2>3 DEF Wired, Linked, AllRoots
  <2>5. SiblingsAreLeavesIn(Input)
    <3> SUFFICES ASSUME NEW s \in Steps, NEW t \in Steps, s # t, Input[s] = Input[t],
                        NEW u \in Steps, Input[u] = s
                 PROVE  FALSE
      BY DEF SiblingsAreLeavesIn
    <3>1. <<i, s>> \in {i} \X Steps /\ <<i, t>> \in {i} \X Steps /\ <<i, s>> # <<i, t>>
      OBVIOUS
    <3>2. \/ {<<i, s>>, <<i, t>>} \subseteq rooted
          \/ Parents(<<i, s>>) \cap Parents(<<i, t>>) # {}
      <4>1. CASE Input[s] = 0
        BY <2>2, <4>1 DEF Wired, Linked
      <4>2. CASE Input[s] # 0
        <5>1. <<i, Input[s]>> \in Nodes
          BY <2>1, <4>2, InputsAreEarlier, NodeIsOwn
        <5>2. <<i, Input[s]>> \in Parents(<<i, s>>) /\ <<i, Input[s]>> \in Parents(<<i, t>>)
          BY <2>2, <4>2, <5>1 DEF Wired, Linked, Parents
        <5> QED
          BY <5>2
      <4> QED
        BY <4>1, <4>2
    <3>3. Children(<<i, s>>) = {}
      BY <2>3, <3>1, <3>2 DEF SiblingsAreLeaves
    <3>4. <<i, u>> \in Children(<<i, s>>)
      BY <2>1, <2>2, ChildrenInItem
    <3> QED
      BY <3>3, <3>4
  <2>6. {i} \X Steps \subseteq view[i].done
    BY <2>4, <2>5 DEF ShareInv, ShareRead
  <2> QED
    BY <2>1, <2>3, <2>6 DEF ViewInv, OwnView
<1> HIDE DEF Inv
<1> QED
  BY <1>1, <1>2, <1>3, PTL DEF Spec
=============================================================================

---------------------------- MODULE Persistence ----------------------------
(***************************************************************************)
(* The tables of the two stores, in memory (pkg/db/in_mem.go) and Postgres *)
(* (pkg/db/query.sql.go), as far as queue items and their graphs go: one   *)
(* action per insert, one operator per query.  Every call is one critical  *)
(* section or one statement, hence atomic; the callers are not.            *)
(*                                                                         *)
(* Nothing is ever deleted.  Of the status rows of a node the latest one   *)
(* is kept here: the in-memory loop and ORDER BY id DESC LIMIT 1 look for  *)
(* it alone.  A node is the pair of its item and its place in the graph,   *)
(* and of its inputs only whether one of them is the root input.           *)
(***************************************************************************)
EXTENDS Integers, Sequences, FiniteSets, SequencesExt

CONSTANTS
  Items,  \* identifiers of queue items
  Steps   \* places in the configured graph

ASSUME TableAssumption == IsFiniteSet(Items) /\ IsFiniteSet(Steps)

Nodes == Items \X Steps
Statuses == {"queued", "started", "finished"}
Orders == {"created_at", "-created_at"}

VARIABLES
  store,      \* which of the two stores is configured
  items,      \* the items that have a row
  createdAt,  \* [Items -> Nat]
  node,       \* [Nodes -> ...] no row, a row without status, or the latest status
  edges,      \* pairs <<parent, child>>; a second row for a pair does not show
  rooted      \* nodes with a root input

tables == <<store, items, createdAt, node, edges, rooted>>

\* The rows fit together: the nodes are those of stored items, an edge and a root
\* input belong to a node that has its status (the foreign keys and the order of
\* the calls in pkg/dag/node.go:239-311 and pkg/task/factory.go:115-141).
TablesOK ==
  /\ store \in {"memory", "postgres"}
  /\ items \subseteq Items
  /\ createdAt \in [Items -> Nat]
  /\ node \in [Nodes -> {"absent", "bare"} \cup Statuses]
  /\ \A n \in Nodes : node[n] # "absent" => n[1] \in items
  /\ \A e \in edges : e[1][1] = e[2][1] /\ {node[e[1]], node[e[2]]} \subseteq Statuses
  /\ rooted \subseteq {n \in Nodes : node[n] \in Statuses}

-----------------------------------------------------------------------------
\* Inserts.

CreateQueueItem(i, t) ==
  /\ i \notin items
  /\ items' = items \cup {i}
  /\ createdAt' = [createdAt EXCEPT ![i] = t]
  /\ UNCHANGED <<store, node, edges, rooted>>

CreateAndReturnNode(n) ==
  /\ node' = [node EXCEPT ![n] = "bare"]
  /\ UNCHANGED <<store, items, createdAt, edges, rooted>>

CreateStatus(n, s) ==
  /\ node' = [node EXCEPT ![n] = s]
  /\ UNCHANGED <<store, items, createdAt, edges, rooted>>

CreateEdge(p, c) ==
  /\ edges' = edges \cup {<<p, c>>}
  /\ UNCHANGED <<store, items, createdAt, node, rooted>>

CreateRootInput(n) ==
  /\ rooted' = rooted \cup {n}
  /\ UNCHANGED <<store, items, createdAt, node, edges>>

-----------------------------------------------------------------------------
\* Queries.  Rows with the same time come in any order.

CountQueueItems == Cardinality(items)

IsOrdered(all, order) ==
  \A j, k \in DOMAIN all : j < k =>
    IF order = "created_at" THEN createdAt[all[j]] <= createdAt[all[k]]
                            ELSE createdAt[all[j]] >= createdAt[all[k]]

Smaller(a, b) == IF a < b THEN a ELSE b

\* In memory the oldest items come, whatever order and page were asked for.
ListInMemory(size) ==
  {SubSeq(all, 1, Smaller(Len(all), size)) :
     all \in {r \in SetToSeqs(items) : IsOrdered(r, "created_at")}}

\* A slip: the offset leaves out a row too many.
OffsetPlusOne(order, page, size) ==
  {SubSeq(all, (page - 1) * size + page, Smaller(Len(all), page * size + page - 1)) :
     all \in {r \in SetToSeqs(items) : IsOrdered(r, order)}}

ListInPostgres(order, page, size) ==
  {SubSeq(all, (page - 1) * size + 1, Smaller(Len(all), page * size)) :
     all \in {r \in SetToSeqs(items) : IsOrdered(r, order)}}

ListQueueItems(order, page, size) ==
  IF store = "memory" THEN ListInMemory(size) ELSE ListInPostgres(order, page, size)

GetNodesByQueueItemID(i) == {n \in {i} \X Steps : node[n] # "absent"}

\* Postgres gives no values for the status of a node without one, and they cannot
\* be scanned into a string and a time; in memory they are zero values.
GetsNodeByID(n) == store = "postgres" => node[n] # "bare"

IsStarted(n) == node[n] \in {"started", "finished"}
IsEnded(n) == node[n] = "finished"
Parents(n) == {p \in Nodes : <<p, n>> \in edges}
Children(n) == {c \in Nodes : <<n, c>> \in edges}
=============================================================================

---------------------------- MODULE ItemListing ----------------------------
(***************************************************************************)
(* Queue items as clients of the HTTP API make and see them (pkg/api,      *)
(* pkg/item, pkg/dag): PUT requests store an item and the rows of its      *)
(* graph, a tree, call by call, each of which may fail; the nodes of       *)
(* accepted items execute; and a client reads items meanwhile, one by its  *)
(* identifier or all of them page by page, each answer being put together  *)
(* from many reads.                                                        *)
(***************************************************************************)
EXTENDS Persistence

CONSTANTS
  Old,        \* items that may be there already
  Puts,       \* items that are put, each by a request of its own
  Input,      \* [Steps -> Nat] the step whose output a step takes, 0 for the root input
  PageSizes,
  MaxTime     \* bound of the times

\* A graph without steps has no root, and no item is accepted for it (factory.go:147).
ASSUME ListingAssumption ==
  /\ Steps # {}
  /\ Items = Old \cup Puts /\ Old \cap Puts = {}
  /\ Steps = 1..Cardinality(Steps)
  /\ \A s \in Steps : Input[s] \in 0..s - 1
  /\ PageSizes \subseteq Nat \ {0}
  /\ MaxTime \in Nat \ {0}

VARIABLES
  pc,       \* [Puts -> ...] where the request is
  stamp,    \* [Puts -> Nat] the time it took for its item
  step,     \* [Puts -> Nat] the step whose node it builds
  walk,     \* what the client asks for: an item, or a page of a size in an order
  due,      \* the items that were there when its walk began
  seen,     \* the items it was shown on the pages so far
  phase,    \* which reads the answer is being put together from
  rows,     \* the items on the page
  row,      \* index of the one that is read
  frames,   \* nodes to read: those of the innermost recursion first
  view      \* [Items -> ...] what has been read of an item

putVars == <<pc, stamp, step>>
readVars == <<walk, due, seen, phase, rows, row, frames, view>>
vars == <<tables, putVars, readVars>>

Unread == [roots |-> {}, started |-> FALSE, ended |-> FALSE, known |-> {}, done |-> {}]

\* A request has got past a step only when the rows of it are there, and an answer
\* is about items that have rows (task/factory.go:115-141, api.go:548-563).
TypeOK ==
  /\ TablesOK
  /\ pc \in [Puts -> {"new", "item", "node", "status", "input", "accepted", "refused"}]
  /\ stamp \in [Puts -> 0..MaxTime]
  /\ \A i \in Puts :
       /\ step[i] \in Steps
       /\ pc[i] \in {"node", "status", "input", "accepted"} =>
            \A s \in 1..step[i] - 1 : node[<<i, s>>] \in Statuses
  /\ phase \in {"idle", "list", "item", "nodes", "roots", "start", "end", "share",
                "count", "shown", "empty", "failed", "missing"}
  /\ due \cup seen \subseteq items
  /\ \A k \in DOMAIN rows : rows[k] \in items
  /\ \A k \in DOMAIN frames : frames[k] # {} /\ frames[k] \subseteq Nodes
  /\ view \in [Items -> [roots : SUBSET Nodes, started : BOOLEAN, ended : BOOLEAN,
                         known : SUBSET Nodes, done : SUBSET Nodes]]

-----------------------------------------------------------------------------
\* Items from before: complete ones, and one whose request failed after its first
\* node had been stored.
Init ==
  /\ store \in {"memory", "postgres"}
  /\ items \in SUBSET Old
  /\ createdAt \in [Items -> 0..MaxTime]
  /\ \A i \in Items : createdAt[i] = 0 <=> i \notin items
  /\ \E half \in SUBSET items :
       /\ Cardinality(half) <= 1
       /\ node = [n \in Nodes |->
                    IF n[1] \in items \ half THEN "finished"
                    ELSE IF n[1] \in half /\ n[2] = 1 THEN "bare" ELSE "absent"]
       /\ edges = {e \in Nodes \X Nodes : e[1][1] = e[2][1] /\ e[1][1] \in items \ half
                                          /\ e[1][2] = Input[e[2][2]]}
       /\ rooted = {n \in Nodes : n[1] \in items \ half /\ Input[n[2]] = 0}
  /\ pc = [i \in Puts |-> "new"]
  /\ stamp = [i \in Puts |-> 0]
  /\ step = [i \in Puts |-> 1]
  /\ walk = <<>> /\ due = {} /\ seen = {}
  /\ phase = "idle"
  /\ rows = <<>> /\ row = 0
  /\ frames = <<>>
  /\ view = [i \in Items |-> Unread]

-----------------------------------------------------------------------------
\* PUT /v0/queue/{id}.

Goto(i, label) == pc' = [pc EXCEPT ![i] = label]

\* The handler refuses a request without inputs or with another content type and
\* Create one that finds its queue full; Create then takes the time, and requests that
\* took a later one may well be done before this one stores its item.
Put(i) ==
  /\ pc[i] = "new"
  /\ \/ Goto(i, "refused") /\ UNCHANGED stamp
     \/ Goto(i, "item") /\ \E t \in 1..MaxTime : stamp' = [stamp EXCEPT ![i] = t]
  /\ UNCHANGED <<tables, step, readVars>>

NewItem(i) ==
  /\ pc[i] = "item"
  /\ CreateQueueItem(i, stamp[i])
  /\ Goto(i, "node")
  /\ UNCHANGED <<stamp, step, readVars>>

\* NewNode stores the node and then its status.
NewNode(i) ==
  /\ pc[i] = "node"
  /\ CreateAndReturnNode(<<i, step[i]>>)
  /\ Goto(i, "status")
  /\ UNCHANGED <<stamp, step, readVars>>

\* A slip: NewNode does not look at the outcome of the insert of the status.
StoreStatusUnchecked(i) ==
  /\ pc[i] = "status"
  /\ CreateStatus(<<i, step[i]>>, "queued") \/ UNCHANGED tables
  /\ Goto(i, "input")
  /\ UNCHANGED <<stamp, step, readVars>>

StoreStatus(i) ==
  /\ pc[i] = "status"
  /\ CreateStatus(<<i, step[i]>>, "queued")
  /\ Goto(i, "input")
  /\ UNCHANGED <<stamp, step, readVars>>

\* The root input, or an edge from the node of another step.  After the last step the
\* root nodes are enqueued and the request is accepted.
AddInput(i) ==
  /\ pc[i] = "input"
  /\ \/ Input[step[i]] = 0 /\ CreateRootInput(<<i, step[i]>>)
     \/ Input[step[i]] # 0 /\ CreateEdge(<<i, Input[step[i]]>>, <<i, step[i]>>)
  /\ \/ step[i] + 1 \in Steps /\ step' = [step EXCEPT ![i] = @ + 1] /\ Goto(i, "node")
     \/ step[i] + 1 \notin Steps /\ Goto(i, "accepted") /\ UNCHANGED step
  /\ UNCHANGED <<stamp, readVars>>

\* A call fails, as when the client has gone: what was stored before stays.
FailPut(i) ==
  /\ pc[i] \in {"item", "node", "status", "input"}
  /\ Goto(i, "refused")
  /\ UNCHANGED <<tables, stamp, step, readVars>>

\* The rows that executing a node stores, in the order DagSchedule allows.
Execute(n) ==
  /\ n[1] \in Puts /\ pc[n[1]] = "accepted"
  /\ \/ /\ node[n] = "queued"
        /\ \/ n \in rooted
           \/ Parents(n) # {} /\ \A p \in Parents(n) : IsEnded(p)
        /\ CreateStatus(n, "started")
     \/ node[n] = "started" /\ CreateStatus(n, "finished")
  /\ UNCHANGED <<putVars, readVars>>

-----------------------------------------------------------------------------
\* GET /v0/queue/{id} and GET /v0/queue.

NoWalk == <<>>
OfItem(i) == [id |-> i]
OfPage(order, size, page) == [order |-> order, size |-> size, page |-> page]
Paging == walk # NoWalk /\ "page" \in DOMAIN walk

AskItem(i) ==
  /\ phase = "idle"
  /\ walk' = OfItem(i)
  /\ phase' = "item"
  /\ UNCHANGED <<tables, putVars, due, seen, rows, row, frames, view>>

AskFirstPage(order, size) ==
  /\ phase = "idle"
  /\ walk' = OfPage(order, size, 1)
  /\ due' = items
  /\ phase' = "list"
  /\ UNCHANGED <<tables, putVars, seen, rows, row, frames, view>>

\* Go to a phase for the j-th row, or on when there is none; nodes are read from the
\* roots down, or one after the other.
Turn(p, j) ==
  /\ phase' = p
  /\ row' = j
  /\ frames' = IF p \in {"start", "end", "share"} /\ view'[rows'[j]].roots # {}
               THEN <<view'[rows'[j]].roots>> ELSE <<>>

\* ListItems reads the page.
List ==
  /\ phase = "list"
  /\ rows' \in ListQueueItems(walk.order, walk.page, walk.size)
  /\ UNCHANGED view
  /\ Turn(IF rows' = <<>> THEN "count" ELSE "nodes", 1)
  /\ UNCHANGED <<tables, putVars, walk, due, seen>>

\* GetItem reads one item; in Postgres a missing one is an error like any other.
GetItem ==
  /\ phase = "item"
  /\ \/ walk.id \in items /\ rows' = <<walk.id>> /\ Turn("nodes", 1)
     \/ /\ walk.id \notin items
        /\ phase' = IF store = "memory" THEN "missing" ELSE "failed"
        /\ UNCHANGED <<rows, row, frames>>
  /\ UNCHANGED <<tables, putVars, walk, due, seen, view>>

\* getAllNodes: the nodes the item has by now.
ReadNodes ==
  /\ phase = "nodes"
  /\ LET nodes == GetNodesByQueueItemID(rows[row])
     IN frames' = IF nodes = {} THEN <<>> ELSE <<nodes>>
  /\ phase' = "roots"
  /\ UNCHANGED <<tables, putVars, walk, due, seen, rows, row, view>>

Push(S, fs) == IF S = {} THEN fs ELSE <<S>> \o fs
Rest(n) == Push(Head(frames) \ {n}, Tail(frames))
See(field, value) == view' = [view EXCEPT ![rows[row]] = [@ EXCEPT ![field] = value]]
Seen == view[rows[row]]

\* FilterForRootNodes keeps the nodes with a root input.  The first node that cannot
\* be read ends the whole answer.
ReadRoot(n) ==
  /\ phase = "roots"
  /\ \/ /\ GetsNodeByID(n)
        /\ frames' = Rest(n)
        /\ See("roots", Seen.roots \cup ({n} \cap rooted))
        /\ UNCHANGED phase
     \/ ~GetsNodeByID(n) /\ phase' = "failed" /\ UNCHANGED <<frames, view>>
  /\ UNCHANGED <<tables, putVars, walk, due, seen, rows, row>>

\* GetDagStartTime looks at the roots.
ReadStart(n) ==
  /\ phase = "start"
  /\ frames' = Rest(n)
  /\ See("started", Seen.started \/ IsStarted(n))
  /\ UNCHANGED <<tables, putVars, walk, due, seen, phase, rows, row>>

\* A slip: only the roots are looked at.
ReadEndOfRoot(n) ==
  /\ phase = "end"
  /\ See("ended", IsEnded(n))
  /\ frames' = IF IsEnded(n) THEN Rest(n) ELSE Tail(frames)
  /\ UNCHANGED <<tables, putVars, walk, due, seen, phase, rows, row>>

\* recurseChildren: a node that has not ended ends the loop it was met in, and the
\* zero time it answers is what the loop around it goes on with.
ReadEnd(n) ==
  /\ phase = "end"
  /\ See("ended", IsEnded(n))
  /\ frames' = IF IsEnded(n) THEN Push(Children(n), Rest(n)) ELSE Tail(frames)
  /\ UNCHANGED <<tables, putVars, walk, due, seen, phase, rows, row>>

\* parseChildrenStatus reads the nodes it does not know yet.
ReadShare(n) ==
  /\ phase = "share"
  /\ LET new == {n} \ Seen.known
     IN /\ frames' = Push(UNION {Children(m) : m \in new}, Rest(n))
        /\ view' = [view EXCEPT ![rows[row]] =
                      [@ EXCEPT !.known = Seen.known \cup new,
                                !.done = Seen.done \cup {m \in new : IsEnded(m)}]]
  /\ UNCHANGED <<tables, putVars, walk, due, seen, phase, rows, row>>

ReadNode == \E n \in Nodes :
  frames # <<>> /\ n \in Head(frames) /\ (ReadRoot(n) \/ ReadStart(n) \/ ReadEnd(n) \/ ReadShare(n))

\* All items of a page are built, then each is given its times, and then each its
\* share; the page is counted last.
Proceed ==
  /\ frames = <<>>
  /\ UNCHANGED <<rows, view>>
  /\ \/ phase = "roots" /\ row < Len(rows) /\ Turn("nodes", row + 1)
     \/ phase = "roots" /\ row = Len(rows) /\ Turn("start", 1)
     \/ phase = "start" /\ Turn("end", row)
     \/ phase = "end" /\ row < Len(rows) /\ Turn("start", row + 1)
     \/ phase = "end" /\ row = Len(rows) /\ Turn("share", 1)
     \/ phase = "share" /\ row < Len(rows) /\ Turn("share", row + 1)
     \/ phase = "share" /\ row = Len(rows) /\ Turn(IF Paging THEN "count" ELSE "shown", 1)
  /\ UNCHANGED <<tables, putVars, walk, due, seen>>

\* A slip: the last page is left out unless it is full.
PagesRoundedDown == CountQueueItems \div walk.size

\* A ceiling.
TotalPages == (CountQueueItems + walk.size - 1) \div walk.size

\* getQueue compares the page number with the number of pages there are by now.
Count ==
  /\ phase = "count"
  /\ \/ walk.page > TotalPages /\ phase' = "empty" /\ UNCHANGED <<walk, seen>>
     \/ /\ walk.page <= TotalPages
        /\ seen' = seen \cup ToSet(rows)
        /\ walk' = [walk EXCEPT !.page = IF @ < TotalPages THEN @ + 1 ELSE 0]
        /\ phase' = "shown"
  /\ UNCHANGED <<tables, putVars, due, rows, row, frames, view>>

Forget ==
  /\ rows' = <<>> /\ row' = 0 /\ frames' = <<>>
  /\ view' = [i \in Items |-> Unread]

\* The client goes on to the next page of those it was told there are.
AskNextPage ==
  /\ phase = "shown" /\ Paging /\ walk.page # 0
  /\ phase' = "list"
  /\ Forget
  /\ UNCHANGED <<tables, putVars, walk, due, seen>>

\* It has its answer, or all of them, and may ask for something else.
Leave ==
  /\ \/ phase \in {"failed", "missing", "empty"}
     \/ phase = "shown" /\ (Paging => walk.page = 0)
  /\ phase' = "idle"
  /\ walk' = NoWalk /\ due' = {} /\ seen' = {}
  /\ Forget
  /\ UNCHANGED <<tables, putVars>>

PutStep(i) ==
  Put(i) \/ NewItem(i) \/ NewNode(i) \/ StoreStatus(i) \/ AddInput(i)
ClientStep ==
  List \/ GetItem \/ ReadNodes \/ ReadNode \/ Proceed \/ Count \/ AskNextPage \/ Leave

Next ==
  \/ \E i \in Puts : PutStep(i) \/ FailPut(i)
  \/ \E n \in Nodes : Execute(n)
  \/ \E i \in Items : AskItem(i)
  \/ \E order \in Orders, size \in PageSizes : AskFirstPage(order, size)
  \/ ClientStep

Spec == Init /\ [][Next]_vars

-----------------------------------------------------------------------------
Whole(i) == IF i \in Puts THEN pc[i] = "accepted"
            ELSE \A s \in Steps : node[<<i, s>>] = "finished"

AtLastPage == phase = "shown" /\ Paging /\ walk.page = 0

OwnTime(i) == \A j \in items : createdAt[j] = createdAt[i] => j = i

\* A client that reads page after page, as many as the last answer said there are, is
\* shown every item that was there when it began and has a time of its own, while
\* requests store items whose times are not in the order of their rows: offsets only
\* grow, and the count is read after the page (api.go:549-566, query.sql.go:330-338).
\* In memory this is so only when one page holds them all (in_mem.go:81-98).
WalkMissesNothing ==
  AtLastPage /\ (store = "postgres" \/ Cardinality(items) <= walk.size) =>
    \A i \in due : OwnTime(i) => i \in seen

\* An answer fails only with Postgres, and only for an unknown item or when one of the
\* items on it is not whole: one whose request is in progress or has failed.  An item
\* that was accepted does not make any answer fail (item_store.go:81-105, 165-180).
FailsOnlyForUnfinished ==
  [][phase # "failed" /\ phase' = "failed" =>
       /\ store = "postgres"
       /\ \/ rows = <<>> /\ walk.id \notin items
          \/ \E k \in DOMAIN rows : ~Whole(rows[k])]_vars

\* The nodes of an item that have siblings are leaves.
SiblingsAreLeaves(i) ==
  \A m, n \in GetNodesByQueueItemID(i) :
    m # n /\ (Parents(m) \cap Parents(n) # {} \/ {m, n} \subseteq rooted) => Children(m) = {}

\* An item that is shown with an end time is shown as complete, with all its nodes
\* done, although the times and the share come from separate reads of nodes that
\* execute meanwhile (queue_repository.go:130-142, api.go:711-719).  Where a sibling has
\* children this is not so, as the end time may come too early (dag/util.go:48-53), and
\* neither where some of its roots were not stored yet when they were read.  An item may
\* be shown without a start time: that was read before its first node started.
EndedShownComplete ==
  phase = "shown" =>
    \A k \in DOMAIN rows :
      LET i == rows[k]
          nodes == GetNodesByQueueItemID(i)
      IN view[i].ended /\ SiblingsAreLeaves(i) /\ nodes \cap rooted \subseteq view[i].roots =>
           view[i].done = nodes

\* A page is refused as out of range only if there was no item at all: no page of
\* those an earlier answer promised is (api.go:562-566).
RefusedOnlyWhenEmpty ==
  [][phase # "empty" /\ phase' = "empty" => items = {} /\ walk.page = 1]_vars
=============================================================================

--------------------------- MODULE ResultMetadata ---------------------------
(***************************************************************************)
(* Metadata of results (pkg/analytics, the analytics part of pkg/db, and   *)
(* its handlers in pkg/api): the executors of nodes parse what a job has   *)
(* printed and store it entry by entry, while a client asks for what is    *)
(* stored.  In memory an entry is appended to a slice without a lock; in   *)
(* Postgres it is stored by one statement, which first inserts its type,   *)
(* at the same time as the statements of other nodes.                      *)
(*                                                                         *)
(* A row also says which node it is of: Postgres keeps the queue item, and *)
(* here each item has one node.                                            *)
(***************************************************************************)
EXTENDS Integers, Sequences, FiniteSets, SequencesExt

CONSTANTS
  Nodes,
  Types,    \* keys as they are spelled
  Lower,    \* [Types -> Types] the spelling in lower case
  Output,   \* [Nodes -> sequences of lines] what the job of a node prints
  Junk,     \* what is not an object of strings, on a line of objects
  Long,     \* a line that is longer than the buffer of the scanner
  Created,  \* [Nodes -> Nat] the time of the item of a node
  Done,     \* [Nodes -> Nat] the time of its result, if there is one
  Requests  \* what clients ask for

Kinds == {"results", "recent-results", "node-results", "submissions"}
Sorts == {"count", "-count", "meta.created_at", "-meta.created_at"}

\* A line is a sequence of objects, which are sets of entries, and of Junk.  Values are
\* numbers, for their order.
Metadata == [type : Types, value : Nat]
Line == Seq({Junk} \cup SUBSET Metadata)

ASSUME MetadataAssumption ==
  /\ IsFiniteSet(Nodes) /\ IsFiniteSet(Types)
  /\ Lower \in [Types -> Types] /\ {Created, Done} \subseteq [Nodes -> Nat]
  /\ Output \in [Nodes -> Seq({Long} \cup Line)]
  /\ Requests \subseteq [kind : Kinds, key : Types, sort : Sorts, size : Nat, page : Nat]

VARIABLES
  store,    \* "memory" or "postgres"
  workers,  \* how many nodes execute at a time
  types,    \* result_metadata_type: the types that are committed
  array,    \* the rows, in memory those of the slice's array
  len,      \* how many of them there are, in memory the length of the slice
  pc,       \* [Nodes -> ...] where the node's executor is
  todo,     \* [Nodes -> ...] the entries that are not stored yet, with their places
  entry,    \* [Nodes -> ...] the entry that is being stored
  known,    \* [Nodes -> SUBSET Types] the types its statement sees
  base,     \* [Nodes -> Nat] the length of the slice it appends to
  ask,      \* the client's request
  phase,    \* how far it is
  got,      \* the rows that were read for it
  total     \* and their count

rowVars == <<types, array, len>>
nodeVars == <<pc, todo, entry, known, base>>
readVars == <<ask, phase, got, total>>
fixedVars == <<store, workers>>
vars == <<fixedVars, rowVars, nodeVars, readVars>>

NoEntry == <<>>

\* A row of the slice that two nodes wrote at the same time: it has no fields to speak of.
Torn == <<>>

Running == {n \in Nodes : pc[n] \notin {"ready", "finished", "gave up", "failed"}}
Goto(n, label) == pc' = [pc EXCEPT ![n] = label]

\* With Postgres the types may be known from before.
Init ==
  /\ store \in {"memory", "postgres"}
  /\ workers \in 1..Cardinality(Nodes)
  /\ types \in (IF store = "postgres" THEN {{}, {Lower[t] : t \in Types}} ELSE {{}})
  /\ array = <<>> /\ len = 0
  /\ pc = [n \in Nodes |-> "ready"]
  /\ todo = [n \in Nodes |-> {}]
  /\ entry = [n \in Nodes |-> NoEntry]
  /\ known = [n \in Nodes |-> {}]
  /\ base = [n \in Nodes |-> 0]
  /\ ask = <<>> /\ phase = "idle" /\ got = <<>> /\ total = 0

-----------------------------------------------------------------------------
\* Parsing and storing: node.go:120-132 and ParseAndStore.

Before(s, bad) ==
  IF bad \in ToSet(s) THEN SubSeq(s, 1, SelectInSeq(s, LAMBDA x : x = bad) - 1) ELSE s

\* A slip: the rest of the output is given up at the first thing that cannot be parsed.
ObjectsBeforeJunk(output) ==
  LET lines == Before(output, Long)
      clean == {i \in DOMAIN lines : \A h \in 1..(i - 1) : Junk \notin ToSet(lines[h])}
  IN UNION {{i} \X DOMAIN Before(lines[i], Junk) : i \in clean}

\* The objects that are parsed: what cannot be parsed ends its line; a line that cannot
\* be scanned ends the output.  An object is named by its line and its place on it.
Objects(output) ==
  LET lines == Before(output, Long)
  IN UNION {{i} \X DOMAIN Before(lines[i], Junk) : i \in DOMAIN lines}

Parsed == [n \in Nodes |-> UNION {{p} \X Output[n][p[1]][p[2]] : p \in Objects(Output[n])}]

\* The first of two numbers that differ decides.
Lexical(a, b, c, d) == a < b \/ (a = b /\ c <= d)
First(S) == {x \in S : \A y \in S : Lexical(x[1][1], y[1][1], x[1][2], y[1][2])}

\* The result is stored, and what it has printed is parsed.
SetResults(n) ==
  /\ pc[n] = "ready" /\ Cardinality(Running) < workers
  /\ todo' = [todo EXCEPT ![n] = Parsed[n]]
  /\ Goto(n, "store")
  /\ UNCHANGED <<fixedVars, rowVars, entry, known, base, readVars>>

\* CreateResultMetadata is called for the entries of one object after the other; those
\* of an object come in any order.  The call begins by reading: the length of the slice,
\* or the types that are committed by then.
Take(n) ==
  /\ pc[n] = "store"
  /\ \E x \in First(todo[n]) :
       /\ entry' = [entry EXCEPT ![n] = x[2]]
       /\ todo' = [todo EXCEPT ![n] = @ \ {x}]
  /\ IF store = "memory"
     THEN Goto(n, "fill") /\ base' = [base EXCEPT ![n] = len] /\ UNCHANGED known
     ELSE Goto(n, "insert") /\ known' = [known EXCEPT ![n] = types] /\ UNCHANGED base
  /\ UNCHANGED <<fixedVars, rowVars, readVars>>

Row(n) == [node |-> n, type |-> entry[n].type, value |-> entry[n].value]
Stored(n) ==
  /\ Goto(n, "store")
  /\ entry' = [entry EXCEPT ![n] = NoEntry]
  /\ known' = [known EXCEPT ![n] = {}]
  /\ base' = [base EXCEPT ![n] = 0]
  /\ UNCHANGED todo

\* In memory: the row is written behind the last one the node has seen; what comes of
\* two that are written to the same place is not defined.
Fill(n) ==
  /\ pc[n] = "fill"
  /\ \E row \in {Row(n)} \cup
        {Torn : m \in {m \in Nodes \ {n} : pc[m] \in {"fill", "publish"} /\ base[m] = base[n]}} :
       array' = IF base[n] < Len(array) THEN [array EXCEPT ![base[n] + 1] = row]
                                        ELSE Append(array, row)
  /\ Goto(n, "publish")
  /\ UNCHANGED <<fixedVars, types, len, todo, entry, known, base, readVars>>

\* The slice gets its new length, which may be less than others have given it.
Publish(n) ==
  /\ pc[n] = "publish"
  /\ len' = base[n] + 1
  /\ Stored(n)
  /\ UNCHANGED <<fixedVars, types, array, readVars>>

GiveUp(n) == Goto(n, "gave up") /\ UNCHANGED <<todo, entry, known, base>>

\* A slip: a statement does not wait for one that inserts its type, but fails.
InsertTypeAtOnce(n) ==
  /\ pc[n] = "insert"
  /\ IF \E m \in Nodes \ {n} : pc[m] = "commit new" /\ entry[m].type = entry[n].type
     THEN GiveUp(n)
     ELSE Goto(n, IF entry[n].type \in types THEN "commit" ELSE "commit new")
          /\ UNCHANGED <<todo, entry, known, base>>
  /\ UNCHANGED <<fixedVars, rowVars, readVars>>

\* A slip: a statement that does not see its type looks for it again and again.
InsertTypeAndRetry(n) ==
  /\ pc[n] = "insert"
  /\ \A m \in Nodes \ {n} : ~(pc[m] = "commit new" /\ entry[m].type = entry[n].type)
  /\ \/ entry[n].type \notin types /\ Goto(n, "commit new")
     \/ entry[n].type \in types \cap known[n] /\ Goto(n, "commit")
     \/ entry[n].type \in types \ known[n] /\ UNCHANGED pc
  /\ UNCHANGED <<fixedVars, rowVars, todo, entry, known, base, readVars>>

\* In Postgres: a type another statement is inserting makes this one wait until that has
\* ended.  If it is there then, it is not inserted again, but neither does the look-up
\* see it: the row would have no type, and the statement fails.
InsertType(n) ==
  /\ pc[n] = "insert"
  /\ \A m \in Nodes \ {n} :
       ~(pc[m] = "commit new" /\ entry[m].type = entry[n].type)
  /\ \/ entry[n].type \notin types /\ Goto(n, "commit new")
        /\ UNCHANGED <<todo, entry, known, base>>
     \/ entry[n].type \in types \cap known[n] /\ Goto(n, "commit")
        /\ UNCHANGED <<todo, entry, known, base>>
     \/ entry[n].type \in types \ known[n] /\ GiveUp(n)
  /\ UNCHANGED <<fixedVars, rowVars, readVars>>

Commit(n) ==
  /\ pc[n] \in {"commit", "commit new"}
  /\ types' = types \cup {entry[n].type}
  /\ array' = Append(array, Row(n))
  /\ len' = len + 1
  /\ Stored(n)
  /\ UNCHANGED <<fixedVars, readVars>>

\* The statement fails for another reason, and is rolled back; the node gives up, too.
Fail(n) ==
  /\ pc[n] \in {"insert", "commit", "commit new"}
  /\ Goto(n, "failed")
  /\ UNCHANGED <<fixedVars, rowVars, todo, entry, known, base, readVars>>

\* All is stored, and the execution goes on to its end.
Finish(n) ==
  /\ pc[n] = "store" /\ todo[n] = {}
  /\ Goto(n, "finished")
  /\ UNCHANGED <<fixedVars, rowVars, todo, entry, known, base, readVars>>

-----------------------------------------------------------------------------
\* Queries.

\* Two spellings of a type are more than the subquery for its id may return.
Queryable(k) == Cardinality({t \in types : Lower[t] = Lower[k]}) <= 1

\* What a query makes of a row that is just being written over is not modelled; that
\* happens in memory only, and to two nodes at a time.
RowsOf(k) == {j \in 1..len : array[j] # Torn /\ Lower[array[j].type] = Lower[k]}
Values(k) == {array[j].value : j \in RowsOf(k)}

\* A slip: of two spellings of the key only that of the request is counted.
CountOfSpelled(k, v) == Cardinality({j \in RowsOf(k) : array[j].type = k /\ array[j].value = v})

CountOf(k, v) == Cardinality({j \in RowsOf(k) : array[j].value = v})

\* A slip: the key is taken as it is spelled.
CountAsSpelled(k) == Cardinality({array[j].value : j \in {i \in RowsOf(k) : array[i].type = k}})

CountQueryTopResultsByKey(k) == Cardinality(Values(k))

Least(a, b) == IF a < b THEN a ELSE b
InOrder(S, Leq(_, _)) == {s \in SetToSeqs(S) : \A i, j \in DOMAIN s : i < j => Leq(s[i], s[j])}
PageOf(s) == SubSeq(s, (ask.page - 1) * ask.size + 1, Least(Len(s), ask.page * ask.size))

\* In memory neither order nor page are looked at.
QueryTopResultsByKey ==
  LET Result(s) == [i \in DOMAIN s |-> [value |-> s[i], count |-> CountOf(ask.key, s[i])]]
      Leq(v, w) == LET c == CountOf(ask.key, v)
                       d == CountOf(ask.key, w)
                   IN CASE ask.sort = "count" -> Lexical(c, d, v, w)
                        [] ask.sort = "-count" -> Lexical(d, c, v, w)
                        [] OTHER -> v <= w
      All == InOrder(Values(ask.key), Leq)
  IN IF store = "memory" THEN {Result(s) : s \in SetToSeqs(Values(ask.key))}
     ELSE {Result(PageOf(s)) : s \in All}

\* One row for each entry; in memory all of them, as they were stored.
QueryMostRecentResultsByKey ==
  LET Result(s) == [i \in DOMAIN s |-> [value |-> array[s[i]].value, count |-> 1]]
      At(j) == Created[array[j].node]
      Leq(i, j) == LET v == array[i].value
                       w == array[j].value
                   IN CASE ask.sort = "meta.created_at" -> Lexical(At(i), At(j), v, w)
                        [] ask.sort = "-meta.created_at" -> Lexical(At(j), At(i), v, w)
                        [] OTHER -> v <= w
  IN IF store = "memory" THEN {Result(SetToSortSeq(RowsOf(ask.key), <))}
     ELSE {Result(PageOf(s)) : s \in InOrder(RowsOf(ask.key), Leq)}

\* The hours of results or submissions, the last one first; in memory all are one.
Happened == IF ask.kind = "submissions" THEN Nodes ELSE {n \in Nodes : pc[n] # "ready"}
Hour(n) == IF ask.kind = "submissions" THEN Created[n] ELSE Done[n]
Hours == {Hour(n) : n \in Happened}
NumOverTime ==
  LET last == SetToSortSeq(Hours, >)
  IN IF store = "memory" THEN <<[value |-> 0, count |-> Cardinality(Happened)]>>
     ELSE PageOf([i \in DOMAIN last |->
                    [value |-> last[i], count |-> Cardinality({n \in Happened : Hour(n) = last[i]})]])

-----------------------------------------------------------------------------
\* GET /v0/analytics/...

AllFinished == \A n \in Nodes : pc[n] = "finished"
Answer(label) == phase' = label

\* A size of zero or less is a bad request, as is a sort parameter or a kind of metrics
\* that does not exist.
Ask(request) ==
  /\ phase = "idle"
  /\ ask' = [settled |-> AllFinished, kind |-> request.kind, key |-> request.key,
             sort |-> request.sort, size |-> request.size, page |-> request.page]
  /\ Answer(IF request.size = 0 THEN "bad request" ELSE "read")
  /\ UNCHANGED <<fixedVars, rowVars, nodeVars, got, total>>

\* The offset of page 0 is negative.
ReadFails == store = "postgres" /\ (ask.page = 0 \/ ~Queryable(ask.key))

ReadTop ==
  /\ phase = "read" /\ ask.kind = "results"
  /\ \/ ReadFails /\ Answer("error") /\ UNCHANGED got
     \/ ~ReadFails /\ got' \in QueryTopResultsByKey /\ Answer("count")
  /\ UNCHANGED <<fixedVars, rowVars, nodeVars, ask, total>>

\* The count of all values is a second query.
CountTop ==
  /\ phase = "count"
  /\ \/ store = "postgres" /\ ~Queryable(ask.key) /\ Answer("error") /\ UNCHANGED total
     \/ /\ store = "memory" \/ Queryable(ask.key)
        /\ total' = CountQueryTopResultsByKey(ask.key)
        /\ Answer("answered")
  /\ UNCHANGED <<fixedVars, rowVars, nodeVars, ask, got>>

\* The count comes with the rows: none for a page behind the last one, and in memory
\* always zero.
ReadRecent ==
  /\ phase = "read" /\ ask.kind = "recent-results"
  /\ \/ ReadFails /\ Answer("error") /\ UNCHANGED <<got, total>>
     \/ /\ ~ReadFails
        /\ got' \in QueryMostRecentResultsByKey
        /\ total' = IF store = "memory" \/ got' = <<>> THEN 0 ELSE Cardinality(RowsOf(ask.key))
        /\ Answer("answered")
  /\ UNCHANGED <<fixedVars, rowVars, nodeVars, ask>>

\* Without rows there is no result, and the handler fails on the error there is not.
ReadOverTime ==
  /\ phase = "read" /\ ask.kind \in {"node-results", "submissions"}
  /\ \/ store = "postgres" /\ ask.page = 0 /\ Answer("error") /\ UNCHANGED <<got, total>>
     \/ /\ store = "memory" \/ ask.page # 0
        /\ got' = NumOverTime
        /\ total' = IF store = "memory" THEN got'[1].count ELSE Cardinality(Hours)
        /\ Answer(IF got' = <<>> THEN "panicked" ELSE "answered")
  /\ UNCHANGED <<fixedVars, rowVars, nodeVars, ask>>

Leave ==
  /\ phase \in {"bad request", "error", "panicked", "answered"}
  /\ Answer("idle")
  /\ ask' = <<>> /\ got' = <<>> /\ total' = 0
  /\ UNCHANGED <<fixedVars, rowVars, nodeVars>>

NodeStep(n) ==
  \/ SetResults(n) \/ Take(n) \/ Fill(n) \/ Publish(n)
  \/ InsertType(n) \/ Commit(n) \/ Finish(n)

Next ==
  \/ \E n \in Nodes : NodeStep(n) \/ Fail(n)
  \/ \E request \in Requests : Ask(request)
  \/ ReadTop \/ CountTop \/ ReadRecent \/ ReadOverTime \/ Leave

\* The executor of a node goes on, and Postgres ends the statements it was given.
Spec == Init /\ [][Next]_vars /\ \A n \in Nodes : WF_vars(NodeStep(n))

-----------------------------------------------------------------------------
\* The entries of an output, each with its place: those before anything on their line
\* that is not an object, and before any line that is too long.
Entries(n) ==
  LET out == Output[n]
      Readable(i) == \A h \in 1..i : out[h] # Long
      places == UNION {{<<i, j>> : j \in {j \in DOMAIN out[i] : \A h \in 1..j : out[i][h] # Junk}} :
                         i \in {i \in DOMAIN out : Readable(i)}}
  IN UNION {{<<p, e>> : e \in out[p[1]][p[2]]} : p \in places}

OneAtATime == store = "postgres" \/ workers = 1
RowsFrom(n) == {j \in 1..len : array[j] # Torn /\ array[j].node = n}

\* What is stored fits where its executors are: rows that were not written at the same
\* time are whole, and a type is there before a row of it (in_mem.go:258-264,
\* query.sql.go:151-166).
TypeOK ==
  /\ len \in 0..Len(array)
  /\ OneAtATime => Len(array) <= len + 1 /\ Torn \notin ToSet(array)
  /\ store = "postgres" => {array[j].type : j \in 1..len} \subseteq types
  /\ \A n \in Nodes : pc[n] \in {"ready", "finished"} => entry[n] = NoEntry
  /\ phase \in {"idle", "read", "count", "answered", "bad request", "error", "panicked"}

\* A node that has finished has every entry its job printed stored as often as it was
\* printed, and no other: with Postgres whatever other nodes store meanwhile, in memory
\* if nodes execute one at a time (analytics.go:229-259, node.go:126-132).
FinishedStoresAll ==
  \A n \in Nodes : pc[n] = "finished" /\ OneAtATime =>
    /\ Cardinality(RowsFrom(n)) = Cardinality(Entries(n))
    /\ \A x \in Entries(n) :
         Cardinality({j \in RowsFrom(n) : array[j].type = x[2].type /\ array[j].value = x[2].value})
           = Cardinality({y \in Entries(n) : y[2] = x[2]})

\* A node whose statements do not fail for other reasons gives up only at a type that
\* was new, and that another node has stored an entry of (query.sql.go:151-166).
GivesUpOnlyToAnother ==
  \A n \in Nodes : pc[n] = "gave up" =>
    \E m \in Nodes \ {n} : \E j \in RowsFrom(m) : array[j].type = entry[n].type

\* Every node that executes comes to an end with its metadata: statements that wait for
\* each other's types do not do so for ever (node.go:120-133).
AllReturn == \A n \in Nodes : <>(pc[n] \in {"finished", "gave up", "failed"})

\* The count covers the page it comes with, although it is a second query and nodes store
\* values between the two (analytics.go:143-183, query.sql.go:17-34).
CountCoversPage ==
  phase = "answered" /\ ask.kind = "results" /\ OneAtATime =>
    LET before == IF store = "memory" THEN 0 ELSE (ask.page - 1) * ask.size
    IN got # <<>> => before + Len(got) <= total

\* Entries for a key that were printed, under whichever spelling: each with its node.
Printed(k) ==
  UNION {{<<n, x>> : x \in {x \in Entries(n) : Lower[x[2].type] = Lower[k]}} : n \in Nodes}

\* One who asks for the top values is told of at least as many as are shown, and when all
\* nodes have finished, of each value how often it was printed and how many values there
\* are (analytics.go:143-183, in_mem.go:266-295, query.sql.go:539-556).  A page behind the
\* last one is empty.
TopAnswersFit ==
  /\ CountCoversPage
  /\ phase = "answered" /\ ask.kind = "results" /\ ask.settled /\ OneAtATime =>
       /\ total = Cardinality({y[2][2].value : y \in Printed(ask.key)})
       /\ \A k \in DOMAIN got :
            got[k].count = Cardinality({y \in Printed(ask.key) : y[2][2].value = got[k].value})
=============================================================================

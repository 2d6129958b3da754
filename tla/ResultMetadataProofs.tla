------------------------ MODULE ResultMetadataProofs ------------------------
(***************************************************************************)
(* Metadata of results (module ResultMetadata), for any nodes, outputs and *)
(* requests: a node that has finished has stored what its job printed,     *)
(* each entry as often as it was printed; a node gives up only at a type   *)
(* that another has stored an entry of; and a client that asks for the top *)
(* values of a key is told of at least as many as it is shown, and of what *)
(* was printed when all nodes have finished.                               *)
(*                                                                         *)
(* The argument: rows are only appended where they cannot be torn, which   *)
(* is in Postgres and with one worker in memory (InTurn), so that the      *)
(* values of a key only become more between two queries.  A statement of   *)
(* Postgres sees the types of its beginning; whatever type has been        *)
(* committed since is that of a row of another node, as the node itself is *)
(* in its statement (WitnessInv).                                          *)
(*                                                                         *)
(* What is parsed is what there is before anything that is no object, or   *)
(* too long (ParsedIsPrinted).  Then rows and entries are accounted for    *)
(* one by one (Account): each row has the entry it is of, no two rows the  *)
(* same one, and each entry that is not still to be stored has its row or  *)
(* is in the hand of its node.  A node that finishes has nothing in hand   *)
(* and nothing left to store, so its rows correspond to its entries        *)
(* (RowsOfFinished).  Once all have finished nothing is stored any more,   *)
(* and what a client is told of is that (TopInv).                          *)
(***************************************************************************)
EXTENDS ResultMetadata, FiniteSetTheorems, SequenceTheorems, WellFoundedInduction, TLAPS

Labels == {"ready", "store", "fill", "publish", "insert", "commit", "commit new",
           "gave up", "failed", "finished"}

NodesTyped ==
  /\ store \in {"memory", "postgres"}
  /\ workers \in Nat
  /\ pc \in [Nodes -> Labels]
  /\ base \in [Nodes -> Nat]
  /\ entry = [n \in Nodes |-> entry[n]]
  /\ known = [n \in Nodes |-> known[n]]
  /\ \A n \in Nodes :
       /\ store = "memory" => pc[n] \in {"ready", "store", "fill", "publish", "finished"}
       /\ store = "postgres" => pc[n] \notin {"fill", "publish"}
       /\ pc[n] \in {"ready", "store", "finished"} => entry[n] = NoEntry

\* With one worker one node executes at a time.
Alone == workers = 1 => \A m, n \in Running : m = n

\* Nodes that execute one at a time write behind the last row and leave no gap.
InTurn ==
  /\ \A j \in DOMAIN array : array[j] # Torn
  /\ \A n \in Nodes : pc[n] = "fill" => base[n] = len /\ Len(array) = len
  /\ \A n \in Nodes : pc[n] = "publish" => base[n] = len /\ Len(array) = len + 1
  /\ (\A n \in Nodes : pc[n] # "publish") => Len(array) = len

RowsInv ==
  /\ \E S : array \in Seq(S)
  /\ len \in Nat /\ len <= Len(array)
  /\ \A n \in Nodes : /\ pc[n] = "fill" => base[n] <= Len(array)
                      /\ pc[n] = "publish" => base[n] < Len(array)
  /\ OneAtATime => InTurn
  /\ store = "postgres" => \A j \in 1..len : array[j].type \in types

StoreInv == NodesTyped /\ Alone /\ RowsInv

-----------------------------------------------------------------------------
LEMMA InitStore == Init => StoreInv
<1> SUFFICES ASSUME Init PROVE StoreInv
  OBVIOUS
<1>1. workers \in Nat
  BY MetadataAssumption, FS_CardinalityType DEF Init
<1>2. NodesTyped
  BY <1>1 DEF Init, NodesTyped, Labels
<1>3. Alone
  BY DEF Init, Alone, Running
<1>4. array = <<>> /\ array \in Seq({}) /\ len = 0 /\ \A n \in Nodes : pc[n] = "ready"
  BY DEF Init
<1>5. RowsInv
  BY <1>4 DEF RowsInv, InTurn
<1> QED
  BY <1>2, <1>3, <1>5 DEF StoreInv

\* A node that begins to execute does so alone, if there is one worker.
LEMMA OneRuns ==
  ASSUME StoreInv, NEW n \in Nodes, pc[n] = "ready", Cardinality(Running) < workers, workers = 1
  PROVE  Running = {}
<1>1. IsFiniteSet(Running)
  BY MetadataAssumption, FS_Subset DEF Running
<1>2. Cardinality(Running) = 0
  BY <1>1, FS_CardinalityType
<1> QED
  BY <1>1, <1>2, FS_EmptySet

LEMMA SetResultsKeeps ==
  ASSUME StoreInv, NEW n \in Nodes, SetResults(n)
  PROVE  StoreInv'
<1>1. /\ UNCHANGED <<fixedVars, rowVars, entry, known, base>> /\ pc[n] = "ready"
      /\ Cardinality(Running) < workers /\ pc' = [pc EXCEPT ![n] = "store"]
  BY DEF SetResults, Goto
<1>2. /\ pc' \in [Nodes -> Labels] /\ pc'[n] = "store"
      /\ \A m \in Nodes \ {n} : pc'[m] = pc[m]
  BY <1>1 DEF StoreInv, NodesTyped, Labels
<1>3. NodesTyped'
  BY <1>1, <1>2 DEF StoreInv, NodesTyped, fixedVars
<1>4. Alone'
  <2> SUFFICES ASSUME workers = 1 PROVE Running' \subseteq {n}
    BY <1>1 DEF Alone, fixedVars
  <2>1. Running = {}
    BY <1>1, OneRuns
  <2> QED
    BY <1>2, <2>1 DEF Running
<1>5. RowsInv'
  BY <1>1, <1>2 DEF StoreInv, RowsInv, InTurn, OneAtATime, fixedVars, rowVars
<1> QED
  BY <1>3, <1>4, <1>5 DEF StoreInv

\* What runs goes on or ends.
LEMMA AloneKept ==
  ASSUME NodesTyped, Alone, UNCHANGED workers, NEW n \in Running,
         \A m \in Nodes \ {n} : pc'[m] = pc[m]
  PROVE  Alone'
<1>1. Running' \subseteq Running
  BY DEF Running
<1> QED
  BY <1>1 DEF Alone

LEMMA TakeKeeps ==
  ASSUME StoreInv, NEW n \in Nodes, Take(n)
  PROVE  StoreInv'
<1>1. /\ UNCHANGED <<fixedVars, rowVars>> /\ pc[n] = "store"
      /\ \E e : entry' = [entry EXCEPT ![n] = e]
      /\ IF store = "memory"
         THEN pc' = [pc EXCEPT ![n] = "fill"] /\ base' = [base EXCEPT ![n] = len] /\ UNCHANGED known
         ELSE pc' = [pc EXCEPT ![n] = "insert"] /\ known' = [known EXCEPT ![n] = types] /\ UNCHANGED base
  BY DEF Take, Goto
<1>2. NodesTyped /\ Alone /\ RowsInv
  BY DEF StoreInv
<1>3. /\ pc' \in [Nodes -> Labels] /\ pc'[n] = IF store = "memory" THEN "fill" ELSE "insert"
      /\ \A m \in Nodes \ {n} : pc'[m] = pc[m]
  BY <1>1, <1>2 DEF NodesTyped, Labels
<1>4. /\ base' \in [Nodes -> Nat] /\ (store = "memory" => base'[n] = len)
      /\ \A m \in Nodes \ {n} : base'[m] = base[m]
  BY <1>1, <1>2 DEF NodesTyped, RowsInv
<1>5. NodesTyped'
  BY <1>1, <1>2, <1>3, <1>4 DEF NodesTyped, fixedVars
<1>6. Alone'
  BY <1>1, <1>2, <1>3, AloneKept DEF Running, fixedVars
<1>7. RowsInv'
  <2>1. \A m \in Nodes : /\ pc'[m] = "fill" => base'[m] <= Len(array)
                         /\ pc'[m] = "publish" => base'[m] < Len(array)
    BY <1>2, <1>3, <1>4 DEF RowsInv
  <2>2. ASSUME OneAtATime PROVE InTurn'
    <3>1. ASSUME NEW m \in Nodes PROVE pc'[m] # "publish" /\ pc[m] # "publish"
      <4>1. CASE store = "postgres"
        BY <1>2, <1>3, <4>1 DEF NodesTyped
      <4>2. CASE store # "postgres"
        <5>1. workers = 1 /\ n \in Running
          BY <1>1, <2>2, <4>2 DEF OneAtATime, Running
        <5>2. pc[m] # "publish"
          BY <1>1, <1>2, <5>1 DEF Alone, Running
        <5> QED
          BY <1>3, <5>2
      <4> QED
        BY <4>1, <4>2
    <3>2. InTurn /\ Len(array) = len
      BY <1>2, <2>2, <3>1 DEF RowsInv, InTurn
    <3>3. \A m \in Nodes : pc'[m] = "fill" => base'[m] = len
      BY <1>2, <1>3, <1>4, <3>2 DEF InTurn
    <3> QED
      BY <1>1, <3>1, <3>2, <3>3 DEF InTurn, rowVars
  <2> QED
    BY <1>1, <1>2, <2>1, <2>2 DEF RowsInv, OneAtATime, fixedVars, rowVars
<1> QED
  BY <1>5, <1>6, <1>7 DEF StoreInv

\* Appending a row keeps those before it.
LEMMA RowAppended ==
  ASSUME NEW S, NEW s \in Seq(S), NEW r
  PROVE  /\ Append(s, r) \in Seq(S \cup {r})
         /\ Len(Append(s, r)) = Len(s) + 1
         /\ Append(s, r)[Len(s) + 1] = r
         /\ \A j \in 1..Len(s) : Append(s, r)[j] = s[j]
<1>1. s \in Seq(S \cup {r}) /\ r \in S \cup {r}
  OBVIOUS
<1> QED
  BY <1>1

LEMMA RowIsWhole == \A n \in Nodes : Row(n) # Torn
<1>1. \A n \in Nodes : DOMAIN Row(n) # {} /\ DOMAIN Torn = {}
  BY DEF Row, Torn
<1> QED
  BY <1>1

LEMMA FillKeeps ==
  ASSUME StoreInv, NEW n \in Nodes, Fill(n)
  PROVE  StoreInv'
<1>1. /\ UNCHANGED <<fixedVars, types, len, entry, known, base>> /\ pc[n] = "fill"
      /\ pc' = [pc EXCEPT ![n] = "publish"]
  BY DEF Fill, Goto
<1>2. NodesTyped /\ Alone /\ RowsInv
  BY DEF StoreInv
<1>3. /\ pc' \in [Nodes -> Labels] /\ pc'[n] = "publish"
      /\ \A m \in Nodes \ {n} : pc'[m] = pc[m]
  BY <1>1, <1>2 DEF NodesTyped, Labels
<1>4. PICK row : /\ array' = IF base[n] < Len(array) THEN [array EXCEPT ![base[n] + 1] = row]
                                                     ELSE Append(array, row)
                 /\ \/ row = Row(n)
                    \/ \E m \in Nodes \ {n} : pc[m] \in {"fill", "publish"}
  BY DEF Fill
<1>5. PICK S : array \in Seq(S)
  BY <1>2 DEF RowsInv
<1>6. base[n] \in Nat /\ base[n] <= Len(array) /\ len \in Nat /\ len <= Len(array) /\ store = "memory"
  BY <1>1, <1>2 DEF RowsInv, NodesTyped
<1>7. /\ array' \in Seq(S \cup {row})
      /\ base[n] < Len(array) => Len(array') = Len(array)
      /\ base[n] = Len(array) => /\ Len(array') = Len(array) + 1
                                 /\ array'[Len(array) + 1] = row
                                 /\ \A j \in 1..Len(array) : array'[j] = array[j]
  <2>1. CASE base[n] < Len(array)
    <3>1. array \in Seq(S \cup {row}) /\ base[n] + 1 \in 1..Len(array)
      BY <1>5, <1>6, <2>1
    <3>2. array' = [array EXCEPT ![base[n] + 1] = row]
      BY <1>4, <2>1
    <3> QED
      BY <1>6, <2>1, <3>1, <3>2
  <2>2. CASE base[n] = Len(array)
    <3>1. array' = Append(array, row)
      BY <1>4, <2>2
    <3> QED
      BY <1>5, <2>2, <3>1, RowAppended
  <2> QED
    BY <1>5, <1>6, <2>1, <2>2
<1>8. NodesTyped'
  BY <1>1, <1>2, <1>3, <1>6 DEF NodesTyped, fixedVars
<1>9. Alone'
  BY <1>1, <1>2, <1>3, AloneKept DEF Running, fixedVars
<1>10. ASSUME OneAtATime PROVE InTurn'
  <2>1. workers = 1 /\ InTurn /\ \A m \in Nodes \ {n} : pc[m] \notin {"fill", "publish"}
    BY <1>1, <1>2, <1>6, <1>10 DEF OneAtATime, Alone, Running, RowsInv
  <2>2. base[n] = len /\ Len(array) = len /\ row = Row(n)
    BY <1>1, <1>4, <2>1 DEF InTurn
  <2>3. \A j \in 1..len + 1 : array'[j] # Torn
    BY <1>6, <1>7, <2>1, <2>2, RowIsWhole, <1>5 DEF InTurn
  <2>4. DOMAIN array' = 1..len + 1
    BY <1>7, <2>2
  <2> QED
    BY <1>1, <1>3, <1>7, <2>1, <2>2, <2>3, <2>4 DEF InTurn
<1>11. RowsInv'
  <2>1. \A m \in Nodes : /\ pc'[m] = "fill" => base'[m] <= Len(array')
                         /\ pc'[m] = "publish" => base'[m] < Len(array')
    BY <1>1, <1>2, <1>3, <1>5, <1>6, <1>7 DEF RowsInv, NodesTyped
  <2> QED
    BY <1>1, <1>2, <1>5, <1>6, <1>7, <1>10, <2>1 DEF RowsInv, OneAtATime, fixedVars
<1> QED
  BY <1>8, <1>9, <1>11 DEF StoreInv

LEMMA PublishKeeps ==
  ASSUME StoreInv, NEW n \in Nodes, Publish(n)
  PROVE  StoreInv'
<1>1. /\ UNCHANGED <<fixedVars, types, array>> /\ pc[n] = "publish" /\ len' = base[n] + 1
      /\ pc' = [pc EXCEPT ![n] = "store"] /\ entry' = [entry EXCEPT ![n] = NoEntry]
      /\ known' = [known EXCEPT ![n] = {}] /\ base' = [base EXCEPT ![n] = 0]
  BY DEF Publish, Stored, Goto
<1>2. NodesTyped /\ Alone /\ RowsInv
  BY DEF StoreInv
<1>3. /\ pc' \in [Nodes -> Labels] /\ pc'[n] = "store" /\ entry'[n] = NoEntry
      /\ base' \in [Nodes -> Nat]
      /\ \A m \in Nodes \ {n} : pc'[m] = pc[m] /\ entry'[m] = entry[m] /\ base'[m] = base[m]
  BY <1>1, <1>2 DEF NodesTyped, Labels
<1>4. base[n] \in Nat /\ base[n] < Len(array) /\ store = "memory" /\ Len(array) \in Nat
  BY <1>1, <1>2 DEF RowsInv, NodesTyped
<1>5. NodesTyped'
  <2>1. entry' = [m \in Nodes |-> entry'[m]] /\ known' = [m \in Nodes |-> known'[m]]
    BY <1>1, <1>2 DEF NodesTyped
  <2> QED
    BY <1>1, <1>2, <1>3, <1>4, <2>1 DEF NodesTyped, fixedVars
<1>6. Alone'
  BY <1>1, <1>2, <1>3, AloneKept DEF Running, fixedVars
<1>7. ASSUME OneAtATime PROVE InTurn'
  <2>1. workers = 1 /\ InTurn /\ \A m \in Nodes \ {n} : pc[m] \notin {"fill", "publish"}
    BY <1>1, <1>2, <1>4, <1>7 DEF OneAtATime, Alone, Running, RowsInv
  <2>2. len' = Len(array)
    BY <1>1, <2>1 DEF InTurn
  <2> QED
    BY <1>1, <1>3, <2>1, <2>2 DEF InTurn
<1>8. RowsInv'
  <2>1. \A m \in Nodes : /\ pc'[m] = "fill" => base'[m] <= Len(array)
                         /\ pc'[m] = "publish" => base'[m] < Len(array)
    BY <1>2, <1>3 DEF RowsInv
  <2> QED
    BY <1>1, <1>2, <1>4, <1>7, <2>1 DEF RowsInv, OneAtATime, fixedVars
<1> QED
  BY <1>5, <1>6, <1>8 DEF StoreInv

LEMMA CommitKeeps ==
  ASSUME StoreInv, NEW n \in Nodes, Commit(n)
  PROVE  /\ StoreInv'
         /\ store = "postgres" /\ len' = len + 1 /\ array'[len + 1] = Row(n) /\ InTurn
         /\ \A j \in 1..len : array'[j] = array[j]
<1>1. /\ UNCHANGED fixedVars /\ pc[n] \in {"commit", "commit new"}
      /\ types' = types \cup {entry[n].type} /\ array' = Append(array, Row(n)) /\ len' = len + 1
      /\ pc' = [pc EXCEPT ![n] = "store"] /\ entry' = [entry EXCEPT ![n] = NoEntry]
      /\ known' = [known EXCEPT ![n] = {}] /\ base' = [base EXCEPT ![n] = 0]
  BY DEF Commit, Stored, Goto
<1>2. NodesTyped /\ Alone /\ RowsInv
  BY DEF StoreInv
<1>3. /\ pc' \in [Nodes -> Labels] /\ pc'[n] = "store" /\ entry'[n] = NoEntry
      /\ base' \in [Nodes -> Nat]
      /\ \A m \in Nodes \ {n} : pc'[m] = pc[m] /\ entry'[m] = entry[m] /\ base'[m] = base[m]
  BY <1>1, <1>2 DEF NodesTyped, Labels
<1>4. /\ store = "postgres" /\ InTurn /\ len \in Nat /\ len = Len(array)
      /\ \A m \in Nodes : pc[m] \notin {"fill", "publish"}
  BY <1>1, <1>2 DEF RowsInv, NodesTyped, OneAtATime, InTurn
<1>5. PICK S : array \in Seq(S)
  BY <1>2 DEF RowsInv
<1>6. /\ array' \in Seq(S \cup {Row(n)}) /\ Len(array') = len + 1 /\ array'[len + 1] = Row(n)
      /\ \A j \in 1..len : array'[j] = array[j]
  <2>1. PICK row : row = Row(n)
    OBVIOUS
  <2>2. array' = Append(array, row)
    BY <1>1, <2>1
  <2> QED
    BY <1>4, <1>5, <2>1, <2>2, RowAppended
<1>7. NodesTyped'
  <2>1. entry' = [m \in Nodes |-> entry'[m]] /\ known' = [m \in Nodes |-> known'[m]]
    BY <1>1, <1>2 DEF NodesTyped
  <2> QED
    BY <1>1, <1>2, <1>3, <1>4, <2>1 DEF NodesTyped, fixedVars
<1>8. Alone'
  BY <1>1, <1>2, <1>3, AloneKept DEF Running, fixedVars
<1>9. InTurn'
  <2>1. \A j \in 1..len + 1 : array'[j] # Torn
    BY <1>4, <1>5, <1>6, RowIsWhole DEF InTurn
  <2>2. DOMAIN array' = 1..len + 1
    BY <1>6
  <2>3. \A m \in Nodes : pc'[m] \notin {"fill", "publish"}
    BY <1>3, <1>4
  <2> QED
    BY <1>1, <1>6, <2>1, <2>2, <2>3 DEF InTurn
<1>10. RowsInv'
  <2>1. \A j \in 1..len + 1 : array'[j].type \in types'
    <3>1. Row(n).type = entry[n].type
      BY DEF Row
    <3>2. array'[len + 1].type \in types'
      BY <1>1, <1>6, <3>1
    <3>3. \A j \in 1..len : array'[j].type \in types'
      BY <1>1, <1>2, <1>4, <1>6 DEF RowsInv
    <3> QED
      BY <1>4, <3>2, <3>3
  <2>2. \A m \in Nodes : pc'[m] \notin {"fill", "publish"}
    BY <1>3, <1>4
  <2>3. len' \in Nat /\ len' <= Len(array')
    <3>1. len' = len + 1 /\ Len(array') = len + 1 /\ len \in Nat
      BY <1>1, <1>4, <1>6
    <3> QED
      BY <3>1
  <2> QED
    BY <1>1, <1>6, <1>9, <2>1, <2>2, <2>3 DEF RowsInv
<1> QED
  BY <1>1, <1>4, <1>6, <1>7, <1>8, <1>10 DEF StoreInv

\* Steps that only say where a node is.
LEMMA MoveKeeps ==
  ASSUME StoreInv, NEW n \in Nodes, NEW label \in Labels,
         UNCHANGED <<fixedVars, rowVars, entry, known, base>>, pc' = [pc EXCEPT ![n] = label],
         \/ store = "postgres" /\ pc[n] = "insert" /\ label \in {"commit", "commit new", "gave up"}
         \/ store = "postgres" /\ pc[n] \in {"insert", "commit", "commit new"} /\ label = "failed"
         \/ pc[n] = "store" /\ label = "finished"
  PROVE  StoreInv'
<1>1. NodesTyped /\ Alone /\ RowsInv
  BY DEF StoreInv
<1>2. /\ pc' \in [Nodes -> Labels] /\ pc'[n] = label /\ pc[n] \notin {"fill", "publish"}
      /\ \A m \in Nodes \ {n} : pc'[m] = pc[m]
  BY <1>1 DEF NodesTyped
<1>3. NodesTyped'
  BY <1>1, <1>2 DEF NodesTyped, fixedVars
<1>4. Alone'
  BY <1>1, <1>2, AloneKept DEF Running, fixedVars
<1>5. \A m \in Nodes : pc'[m] \in {"fill", "publish"} <=> pc[m] \in {"fill", "publish"}
  BY <1>2
<1>6. RowsInv'
  BY <1>1, <1>2, <1>5 DEF RowsInv, InTurn, OneAtATime, fixedVars, rowVars
<1> QED
  BY <1>3, <1>4, <1>6 DEF StoreInv

\* The client writes nothing of this.
LEMMA StoreUntouched ==
  ASSUME StoreInv, UNCHANGED <<fixedVars, rowVars, nodeVars>>
  PROVE  StoreInv'
BY DEF StoreInv, NodesTyped, Alone, Running, RowsInv, InTurn, OneAtATime, fixedVars, rowVars, nodeVars

LEMMA ClientOnlyReads ==
  ASSUME \/ \E request \in Requests : Ask(request)
         \/ ReadTop \/ CountTop \/ ReadRecent \/ ReadOverTime \/ Leave
  PROVE  UNCHANGED <<fixedVars, rowVars, nodeVars>>
BY DEF Ask, ReadTop, CountTop, ReadRecent, ReadOverTime, Leave

LEMMA InsertTypeMoves ==
  ASSUME StoreInv, NEW n \in Nodes, InsertType(n)
  PROVE  /\ UNCHANGED <<fixedVars, rowVars, entry, known, base>> /\ store = "postgres" /\ pc[n] = "insert"
         /\ \/ pc' = [pc EXCEPT ![n] = "commit"] \/ pc' = [pc EXCEPT ![n] = "commit new"]
            \/ entry[n].type \in types \ known[n] /\ pc' = [pc EXCEPT ![n] = "gave up"]
<1>1. pc[n] = "insert" /\ UNCHANGED <<fixedVars, rowVars>>
  BY DEF InsertType
<1>2. store = "postgres"
  BY <1>1 DEF StoreInv, NodesTyped
<1> QED
  BY <1>1, <1>2 DEF InsertType, GiveUp, Goto

LEMMA NodeStepKeeps ==
  ASSUME StoreInv, NEW n \in Nodes, NodeStep(n) \/ Fail(n)
  PROVE  StoreInv'
<1>1. CASE InsertType(n)
  <2>1. \E label \in {"commit", "commit new", "gave up"} : pc' = [pc EXCEPT ![n] = label]
    BY <1>1, InsertTypeMoves
  <2> QED
    BY <1>1, <2>1, InsertTypeMoves, MoveKeeps DEF Labels
<1>2. CASE Finish(n)
  BY <1>2, MoveKeeps DEF Finish, Goto, Labels
<1>3. CASE Fail(n)
  <2>1. /\ UNCHANGED <<fixedVars, rowVars, entry, known, base>> /\ pc' = [pc EXCEPT ![n] = "failed"]
        /\ pc[n] \in {"insert", "commit", "commit new"}
    BY <1>3 DEF Fail, Goto
  <2>2. store = "postgres"
    BY <2>1 DEF StoreInv, NodesTyped
  <2> QED
    BY <2>1, <2>2, MoveKeeps DEF Labels
<1> QED
  BY <1>1, <1>2, <1>3, SetResultsKeeps, TakeKeeps, FillKeeps, PublishKeeps, CommitKeeps DEF NodeStep

LEMMA NextStore == StoreInv /\ [Next]_vars => StoreInv'
<1> SUFFICES ASSUME StoreInv, [Next]_vars PROVE StoreInv'
  OBVIOUS
<1>1. CASE UNCHANGED vars
  BY <1>1, StoreUntouched DEF vars
<1>2. CASE \E n \in Nodes : NodeStep(n) \/ Fail(n)
  BY <1>2, NodeStepKeeps
<1> QED
  BY <1>1, <1>2, ClientOnlyReads, StoreUntouched DEF Next

LEMMA StoreFits ==
  ASSUME StoreInv
  PROVE  phase \in {"idle", "read", "count", "answered", "bad request", "error", "panicked"} => TypeOK
<1>1. PICK S : array \in Seq(S)
  BY DEF StoreInv, RowsInv
<1>2. len \in 0..Len(array)
  <2>1. len \in Nat /\ len <= Len(array)
    BY DEF StoreInv, RowsInv
  <2>2. Len(array) \in Nat
    BY <1>1
  <2> QED
    BY <2>1, <2>2
<1>3. ASSUME OneAtATime PROVE Len(array) <= len + 1 /\ Torn \notin ToSet(array)
  <2>1. InTurn /\ len \in Nat
    BY <1>3 DEF StoreInv, RowsInv
  <2>2. Torn \notin ToSet(array)
    BY <2>1 DEF InTurn, ToSet
  <2>3. Len(array) = len + 1 \/ Len(array) = len
    BY <2>1 DEF InTurn
  <2> QED
    BY <2>1, <2>2, <2>3
<1>4. store = "postgres" => {array[j].type : j \in 1..len} \subseteq types
  BY DEF StoreInv, RowsInv
<1>5. \A n \in Nodes : pc[n] \in {"ready", "finished"} => entry[n] = NoEntry
  BY DEF StoreInv, NodesTyped
<1> QED
  BY <1>2, <1>3, <1>4, <1>5 DEF TypeOK

\* The rows fit where the executors of the nodes are, whatever the outputs and requests
\* (in_mem.go:258-264, query.sql.go:151-166).
THEOREM MetadataTyped == Spec => []TypeOK
<1> DEFINE Phased == phase \in {"idle", "read", "count", "answered", "bad request", "error", "panicked"}
<1>1. Init => StoreInv /\ Phased
  BY InitStore DEF Init
<1>2. StoreInv /\ Phased /\ [Next]_vars => (StoreInv /\ Phased)'
  <2> SUFFICES ASSUME StoreInv, Phased, [Next]_vars PROVE Phased'
    BY NextStore
  <2>1. CASE UNCHANGED readVars
    BY <2>1 DEF readVars
  <2>2. CASE \E n \in Nodes : NodeStep(n) \/ Fail(n)
    BY <2>1, <2>2 DEF NodeStep, Fail, SetResults, Take, Fill, Publish, InsertType, Commit, Finish
  <2>3. CASE (\E request \in Requests : Ask(request))
             \/ ReadTop \/ CountTop \/ ReadRecent \/ ReadOverTime \/ Leave
    BY <2>3 DEF Ask, ReadTop, CountTop, ReadRecent, ReadOverTime, Leave, Answer
  <2> QED
    BY <2>1, <2>2, <2>3 DEF Next, vars
<1>3. StoreInv /\ Phased => TypeOK
  BY StoreFits
<1> HIDE DEF Phased
<1> QED
  BY <1>1, <1>2, <1>3, PTL DEF Spec

-----------------------------------------------------------------------------
\* Rows are only appended, where they are not torn.
LEMMA RowsGrow ==
  ASSUME StoreInv, OneAtATime, [Next]_vars
  PROVE  /\ OneAtATime' /\ UNCHANGED store
         /\ len' \in Nat /\ len <= len' /\ \A j \in 1..len : array'[j] = array[j]
<1>1. InTurn /\ len \in Nat /\ len <= Len(array) /\ NodesTyped
  BY DEF StoreInv, RowsInv
<1>2. PICK S : array \in Seq(S)
  BY DEF StoreInv, RowsInv
<1>3. CASE UNCHANGED <<fixedVars, array, len>>
  BY <1>1, <1>3 DEF OneAtATime, fixedVars
<1>4. ASSUME NEW n \in Nodes, Fill(n)
      PROVE  /\ OneAtATime' /\ UNCHANGED store
             /\ len' \in Nat /\ len <= len' /\ \A j \in 1..len : array'[j] = array[j]
  <2>1. base[n] = len /\ Len(array) = len /\ UNCHANGED <<fixedVars, len>>
    BY <1>1, <1>4 DEF Fill, InTurn
  <2>2. \E row : array' = Append(array, row)
    BY <1>1, <1>4, <2>1 DEF Fill
  <2> QED
    BY <1>1, <1>2, <2>1, <2>2, RowAppended DEF OneAtATime, fixedVars
<1>5. ASSUME NEW n \in Nodes, Publish(n)
      PROVE  /\ OneAtATime' /\ UNCHANGED store
             /\ len' \in Nat /\ len <= len' /\ \A j \in 1..len : array'[j] = array[j]
  BY <1>1, <1>5 DEF Publish, InTurn, OneAtATime, fixedVars
<1>6. ASSUME NEW n \in Nodes, Commit(n)
      PROVE  /\ OneAtATime' /\ UNCHANGED store
             /\ len' \in Nat /\ len <= len' /\ \A j \in 1..len : array'[j] = array[j]
  <2>1. len' = len + 1 /\ \A j \in 1..len : array'[j] = array[j]
    BY <1>6, CommitKeeps
  <2>2. UNCHANGED fixedVars
    BY <1>6 DEF Commit
  <2> QED
    BY <1>1, <2>1, <2>2 DEF OneAtATime, fixedVars
<1>7. ASSUME NEW n \in Nodes, SetResults(n) \/ Take(n) \/ InsertType(n) \/ Finish(n) \/ Fail(n)
      PROVE  UNCHANGED <<fixedVars, array, len>>
  BY <1>7 DEF SetResults, Take, InsertType, Finish, Fail, rowVars
<1>8. CASE UNCHANGED <<fixedVars, rowVars>>
  BY <1>3, <1>8 DEF rowVars
<1> QED
  BY <1>3, <1>4, <1>5, <1>6, <1>7, <1>8, ClientOnlyReads DEF Next, NodeStep, vars

\* A type that a statement in progress does not see is one that another node, in the
\* meantime, has stored an entry of.
WitnessInv ==
  /\ store = "postgres" =>
       \A n \in Nodes : pc[n] = "insert" =>
         \A t \in types \ known[n] : \E m \in Nodes \ {n} : \E j \in RowsFrom(m) : array[j].type = t
  /\ GivesUpOnlyToAnother

\* A row that is there stays there.
LEMMA RowsFromGrow ==
  ASSUME StoreInv, OneAtATime, [Next]_vars, NEW m \in Nodes, NEW j \in RowsFrom(m)
  PROVE  j \in RowsFrom(m)' /\ array'[j].type = array[j].type
<1>1. j \in 1..len /\ array'[j] = array[j] /\ len <= len' /\ len' \in Nat /\ len \in Nat
  BY RowsGrow DEF RowsFrom, StoreInv, RowsInv
<1> QED
  BY <1>1 DEF RowsFrom

LEMMA NextWitness ==
  ASSUME StoreInv, WitnessInv, store = "postgres", [Next]_vars
  PROVE  WitnessInv'
<1>1. OneAtATime /\ NodesTyped
  BY DEF OneAtATime, StoreInv
<1>2. ASSUME NEW n \in Nodes, NEW t,
             \E m \in Nodes \ {n} : \E j \in RowsFrom(m) : array[j].type = t
      PROVE  \E m \in Nodes \ {n} : \E j \in RowsFrom(m)' : array'[j].type = t
  BY <1>1, <1>2, RowsFromGrow
<1>3. ASSUME UNCHANGED types,
             \A n \in Nodes :
               /\ pc'[n] = "insert" => known'[n] = types \/ (pc[n] = "insert" /\ known'[n] = known[n])
               /\ pc'[n] = "gave up" =>
                    /\ entry'[n] = entry[n]
                    /\ pc[n] = "gave up" \/ (pc[n] = "insert" /\ entry[n].type \in types \ known[n])
      PROVE  WitnessInv'
  <2>1. ASSUME NEW n \in Nodes, pc'[n] = "insert", NEW t \in types \ known'[n]
        PROVE  \E m \in Nodes \ {n} : \E j \in RowsFrom(m)' : array'[j].type = t
    <3>1. pc[n] = "insert" /\ t \in types \ known[n]
      BY <1>3, <2>1
    <3> QED
      BY <1>2, <3>1 DEF WitnessInv
  <2>2. ASSUME NEW n \in Nodes, pc'[n] = "gave up"
        PROVE  \E m \in Nodes \ {n} : \E j \in RowsFrom(m)' : array'[j].type = entry'[n].type
    <3>1. PICK t : t = entry[n].type
      OBVIOUS
    <3>4. \E m \in Nodes \ {n} : \E j \in RowsFrom(m) : array[j].type = t
      <4>1. CASE pc[n] = "gave up"
        BY <3>1, <4>1 DEF WitnessInv, GivesUpOnlyToAnother
      <4>2. CASE pc[n] = "insert" /\ t \in types \ known[n]
        BY <4>2 DEF WitnessInv
      <4> QED
        BY <1>3, <2>2, <3>1, <4>1, <4>2
    <3>5. entry'[n].type = t
      BY <1>3, <2>2, <3>1
    <3> QED
      BY <1>2, <3>4, <3>5
  <2> QED
    BY <1>3, <2>1, <2>2 DEF WitnessInv, GivesUpOnlyToAnother
<1>4. ASSUME NEW c \in Nodes, Commit(c) PROVE WitnessInv'
  <2>1. /\ len' = len + 1 /\ array'[len + 1] = Row(c) /\ len \in Nat
        /\ types' = types \cup {entry[c].type}
    BY <1>4, CommitKeeps DEF Commit, StoreInv, RowsInv
  <2>2. /\ pc'[c] = "store"
        /\ \A n \in Nodes \ {c} : pc'[n] = pc[n] /\ known'[n] = known[n] /\ entry'[n] = entry[n]
    <3>1. /\ pc' = [pc EXCEPT ![c] = "store"] /\ entry' = [entry EXCEPT ![c] = NoEntry]
          /\ known' = [known EXCEPT ![c] = {}]
      BY <1>4 DEF Commit, Stored, Goto
    <3> QED
      BY <1>1, <3>1 DEF NodesTyped
  <2>3. len + 1 \in RowsFrom(c)' /\ array'[len + 1].type = entry[c].type
    BY <2>1, RowIsWhole DEF RowsFrom, Row
  <2>4. ASSUME NEW n \in Nodes, pc'[n] = "insert", NEW t \in types' \ known'[n]
        PROVE  \E m \in Nodes \ {n} : \E j \in RowsFrom(m)' : array'[j].type = t
    <3>1. n # c /\ pc[n] = "insert" /\ known'[n] = known[n]
      BY <2>2, <2>4
    <3>2. CASE t \in types
      BY <1>2, <2>4, <3>1, <3>2 DEF WitnessInv
    <3>3. CASE t = entry[c].type
      BY <2>3, <3>1, <3>3
    <3> QED
      BY <2>1, <2>4, <3>2, <3>3
  <2>5. ASSUME NEW n \in Nodes, pc'[n] = "gave up"
        PROVE  \E m \in Nodes \ {n} : \E j \in RowsFrom(m)' : array'[j].type = entry'[n].type
    <3>1. n # c /\ pc[n] = "gave up" /\ entry'[n] = entry[n]
      BY <2>2, <2>5
    <3>2. PICK t : t = entry[n].type
      OBVIOUS
    <3>3. \E m \in Nodes \ {n} : \E j \in RowsFrom(m) : array[j].type = t
      BY <3>1, <3>2 DEF WitnessInv, GivesUpOnlyToAnother
    <3>4. entry'[n].type = t
      BY <3>1, <3>2
    <3> QED
      BY <1>2, <3>3, <3>4
  <2> QED
    BY <2>4, <2>5 DEF WitnessInv, GivesUpOnlyToAnother
<1>5. CASE UNCHANGED <<types, pc, known, entry>>
  BY <1>3, <1>5
<1>6. ASSUME NEW c \in Nodes, NEW label \in Labels, UNCHANGED <<types, known, entry>>,
             pc' = [pc EXCEPT ![c] = label], label # "insert",
             label = "gave up" => pc[c] = "insert" /\ entry[c].type \in types \ known[c]
      PROVE  WitnessInv'
  <2>1. pc'[c] = label /\ \A n \in Nodes \ {c} : pc'[n] = pc[n]
    BY <1>1, <1>6 DEF NodesTyped
  <2> QED
    BY <1>3, <1>6, <2>1
<1>7. ASSUME NEW c \in Nodes, SetResults(c) \/ Finish(c) \/ Fail(c) PROVE WitnessInv'
  <2>1. /\ UNCHANGED <<types, known, entry>>
        /\ \E label \in {"store", "finished", "failed"} : pc' = [pc EXCEPT ![c] = label]
    BY <1>7 DEF SetResults, Finish, Fail, Goto, rowVars
  <2> QED
    BY <1>6, <2>1 DEF Labels
<1>8. ASSUME NEW c \in Nodes, InsertType(c) PROVE WitnessInv'
  <2>1. UNCHANGED <<types, known, entry>>
    BY <1>8, InsertTypeMoves DEF rowVars
  <2>2. \E label \in {"commit", "commit new", "gave up"} :
          /\ pc' = [pc EXCEPT ![c] = label]
          /\ label = "gave up" => pc[c] = "insert" /\ entry[c].type \in types \ known[c]
    BY <1>8, InsertTypeMoves
  <2> QED
    BY <1>6, <2>1, <2>2 DEF Labels
<1>9. ASSUME NEW c \in Nodes, Take(c) PROVE WitnessInv'
  <2>1. /\ UNCHANGED types /\ pc' = [pc EXCEPT ![c] = "insert"] /\ known' = [known EXCEPT ![c] = types]
        /\ \E e : entry' = [entry EXCEPT ![c] = e]
    BY <1>9 DEF Take, Goto, rowVars
  <2>2. /\ pc'[c] = "insert" /\ known'[c] = types
        /\ \A n \in Nodes \ {c} : pc'[n] = pc[n] /\ known'[n] = known[n] /\ entry'[n] = entry[n]
    BY <1>1, <2>1 DEF NodesTyped
  <2> QED
    BY <1>3, <2>1, <2>2
<1>10. ASSUME NEW c \in Nodes PROVE ~Fill(c) /\ ~Publish(c)
  BY <1>1 DEF Fill, Publish, NodesTyped
<1> QED
  BY <1>4, <1>5, <1>7, <1>8, <1>9, <1>10, ClientOnlyReads DEF Next, NodeStep, vars, nodeVars, rowVars

\* Whatever types are there at first, and however many nodes store entries of how many
\* types at the same time, a node gives up only when another has stored an entry of its
\* type, so that each type gets at least one entry (query.sql.go:151-166).  In memory no
\* node gives up.
THEOREM GiveUpsAreToAnother == Spec => []GivesUpOnlyToAnother
<1>1. Init => StoreInv /\ WitnessInv
  <2> SUFFICES ASSUME Init PROVE WitnessInv
    BY InitStore
  <2>1. \A n \in Nodes : pc[n] = "ready"
    BY DEF Init
  <2> QED
    BY <2>1 DEF WitnessInv, GivesUpOnlyToAnother
<1>2. StoreInv /\ WitnessInv /\ [Next]_vars => (StoreInv /\ WitnessInv)'
  <2> SUFFICES ASSUME StoreInv, WitnessInv, [Next]_vars PROVE WitnessInv'
    BY NextStore
  <2>1. CASE store = "postgres"
    BY <2>1, NextWitness
  <2>2. CASE store # "postgres"
    <3>1. StoreInv'
      BY NextStore
    <3>2. store' # "postgres"
      <4>1. UNCHANGED fixedVars
        BY ClientOnlyReads DEF Next, NodeStep, Fail, SetResults, Take, Fill, Publish, InsertType, Commit,
                               Finish, vars
      <4> QED
        BY <2>2, <4>1 DEF fixedVars
    <3>3. \A n \in Nodes : pc'[n] # "gave up"
      BY <3>1, <3>2 DEF StoreInv, NodesTyped
    <3> QED
      BY <3>2, <3>3 DEF WitnessInv, GivesUpOnlyToAnother
  <2> QED
    BY <2>1, <2>2
<1>3. WitnessInv => GivesUpOnlyToAnother
  BY DEF WitnessInv
<1> QED
  BY <1>1, <1>2, <1>3, PTL DEF Spec

-----------------------------------------------------------------------------
\* The page of values and the count of values that comes with it.

Finite == \A k : IsFiniteSet(Values(k)) /\ Cardinality(Values(k)) \in Nat

LEMMA ValuesCounted == len \in Nat => Finite
<1> SUFFICES ASSUME len \in Nat, NEW k
             PROVE  IsFiniteSet(Values(k)) /\ Cardinality(Values(k)) \in Nat
  BY DEF Finite
<1>1. IsFiniteSet(1..len) /\ RowsOf(k) \subseteq 1..len
  BY FS_Interval DEF RowsOf
<1>2. IsFiniteSet(RowsOf(k))
  BY <1>1, FS_Subset
<1> DEFINE f == [j \in RowsOf(k) |-> array[j].value]
<1>3. f \in Surjection(RowsOf(k), Values(k))
  BY DEF Surjection, Values
<1>4. IsFiniteSet(Values(k))
  BY <1>2, <1>3, FS_Surjection
<1> QED
  BY <1>4, FS_CardinalityType

LEMMA ValuesGrow ==
  ASSUME StoreInv, OneAtATime, [Next]_vars, NEW k
  PROVE  /\ Cardinality(Values(k)) \in Nat /\ Cardinality(Values(k))' \in Nat
         /\ Cardinality(Values(k)) <= Cardinality(Values(k))'
<1>1. /\ len \in Nat /\ len' \in Nat /\ len <= len'
      /\ \A j \in 1..len : array'[j] = array[j]
  BY RowsGrow DEF StoreInv, RowsInv
<1>2. \A j \in RowsOf(k) : j \in RowsOf(k)' /\ array'[j] = array[j]
  BY <1>1 DEF RowsOf
<1>3. Values(k) \subseteq Values(k)'
  BY <1>2 DEF Values
<1>4. IsFiniteSet(Values(k)) /\ IsFiniteSet(Values(k)')
  <2>1. (len \in Nat => Finite)'
    BY ValuesCounted, PTL
  <2> QED
    BY <1>1, <2>1, ValuesCounted DEF Finite
<1> QED
  BY <1>3, <1>4, FS_Subset, FS_CardinalityType

\* How many values are on the pages before the one that is asked for.
Skipped == IF store = "memory" THEN 0 ELSE (ask.page - 1) * ask.size
Covers(n) == got # <<>> => Skipped + Len(got) \in Int /\ Skipped + Len(got) <= n

LEMMA PageFits ==
  ASSUME NEW S, NEW s \in Seq(S), ask.page \in Nat \ {0}, ask.size \in Nat
  PROVE  /\ PageOf(s) \in Seq(S) /\ (ask.page - 1) * ask.size \in Nat
         /\ Len(PageOf(s)) > 0 => (ask.page - 1) * ask.size + Len(PageOf(s)) <= Len(s)
<1> DEFINE m == (ask.page - 1) * ask.size
           n == Least(Len(s), ask.page * ask.size)
<1>1. m \in Nat /\ ask.page * ask.size \in Nat
  <2>1. \A p \in Nat, z \in Nat : p * z \in Nat
    OBVIOUS
  <2>2. ask.page - 1 \in Nat
    OBVIOUS
  <2> QED
    BY <2>1, <2>2
<1>2. n \in Nat /\ n <= Len(s)
  BY <1>1 DEF Least
<1>3. PageOf(s) = SubSeq(s, m + 1, n)
  BY DEF PageOf
<1> HIDE DEF m, n
<1>4. \A i \in (m + 1)..n : s[i] \in S
  BY <1>1, <1>2
<1>5. PageOf(s) \in Seq(S) /\ Len(PageOf(s)) = IF m + 1 <= n THEN n - (m + 1) + 1 ELSE 0
  BY <1>1, <1>2, <1>3, <1>4, SubSeqProperties
<1>6. Len(PageOf(s)) > 0 => m + Len(PageOf(s)) <= Len(s)
  BY <1>1, <1>2, <1>5
<1> QED
  BY <1>1, <1>5, <1>6 DEF m

\* A page that is read has no more values than there are behind those it skips.
LEMMA TopFits ==
  ASSUME len \in Nat, ask.size \in Nat, ask.page \in Nat, store # "memory" => ask.page # 0,
         NEW r \in QueryTopResultsByKey
  PROVE  r # <<>> => /\ Skipped + Len(r) \in Int
                     /\ Skipped + Len(r) <= Cardinality(Values(ask.key))
<1> DEFINE V == Values(ask.key)
           Result(s) == [i \in DOMAIN s |-> [value |-> s[i], count |-> CountOf(ask.key, s[i])]]
<1>1. Cardinality(V) \in Nat
  BY ValuesCounted DEF Finite
<1>2. ASSUME NEW s \in SetToSeqs(V) PROVE s \in Seq(V) /\ Len(s) = Cardinality(V)
  BY <1>1 DEF SetToSeqs
<1>3. ASSUME NEW S, NEW s \in Seq(S) PROVE Len(Result(s)) = Len(s) /\ (Len(s) = 0 => Result(s) = <<>>)
  <2>1. DOMAIN s = 1..Len(s) /\ Len(s) \in Nat
    BY <1>3
  <2>2. Result(s) = [i \in 1..Len(s) |-> [value |-> s[i], count |-> CountOf(ask.key, s[i])]]
    BY <2>1
  <2> QED
    BY <2>1, <2>2
<1>4. CASE store = "memory"
  <2>1. PICK s \in SetToSeqs(V) : r = Result(s)
    BY <1>4 DEF QueryTopResultsByKey
  <2> HIDE DEF Result
  <2> QED
    BY <1>1, <1>2, <1>3, <1>4, <2>1 DEF Skipped
<1>5. CASE store # "memory"
  <2>1. PICK s \in SetToSeqs(V) : r = Result(PageOf(s))
    BY <1>5 DEF QueryTopResultsByKey, InOrder
  <2> HIDE DEF Result
  <2>2. /\ PageOf(s) \in Seq(V) /\ (ask.page - 1) * ask.size \in Nat
        /\ Len(PageOf(s)) > 0 => (ask.page - 1) * ask.size + Len(PageOf(s)) <= Len(s)
    BY <1>2, <1>5, <2>1, PageFits
  <2>3. Len(r) = Len(PageOf(s)) /\ (r # <<>> => Len(PageOf(s)) > 0)
    BY <1>3, <2>1, <2>2
  <2> QED
    BY <1>1, <1>2, <1>5, <2>2, <2>3 DEF Skipped
<1> QED
  BY <1>4, <1>5

CoverInv ==
  /\ phase # "idle" => ask.size \in Nat /\ ask.page \in Nat
  /\ phase = "count" /\ OneAtATime => Covers(Cardinality(Values(ask.key)))
  /\ CountCoversPage

\* Steps of the nodes: values are not taken away.
LEMMA NodesKeepCover ==
  ASSUME StoreInv, CoverInv, [Next]_vars, UNCHANGED readVars, UNCHANGED fixedVars
  PROVE  CoverInv'
<1>1. UNCHANGED <<phase, ask, got, total>> /\ (OneAtATime' <=> OneAtATime) /\ store' = store
  BY DEF readVars, fixedVars, OneAtATime
<1>2. ASSUME phase = "count", OneAtATime
      PROVE  got # <<>> => /\ Skipped + Len(got) \in Int
                           /\ Skipped + Len(got) <= Cardinality(Values(ask.key))'
  <2>1. /\ Cardinality(Values(ask.key)) \in Nat /\ Cardinality(Values(ask.key))' \in Nat
        /\ Cardinality(Values(ask.key)) <= Cardinality(Values(ask.key))'
    <3>1. PICK k : k = ask.key
      OBVIOUS
    <3>2. /\ Cardinality(Values(k)) \in Nat /\ Cardinality(Values(k))' \in Nat
          /\ Cardinality(Values(k)) <= Cardinality(Values(k))'
      BY <1>2, ValuesGrow
    <3> QED
      BY <1>1, <3>1, <3>2
  <2>2. got # <<>> => /\ Skipped + Len(got) \in Int
                      /\ Skipped + Len(got) <= Cardinality(Values(ask.key))
    BY <1>2 DEF CoverInv, Covers
  <2> QED
    BY <2>1, <2>2
<1>3. Skipped' = Skipped
  BY <1>1 DEF Skipped
<1>4. CountCoversPage'
  BY <1>1 DEF CoverInv, CountCoversPage
<1> QED
  BY <1>1, <1>2, <1>3, <1>4 DEF CoverInv, Covers

LEMMA AskKeepsCover ==
  ASSUME CoverInv, NEW request \in Requests, Ask(request)
  PROVE  CoverInv'
<1>1. /\ phase' \in {"bad request", "read"}
      /\ ask'.size = request.size /\ ask'.page = request.page
  BY DEF Ask, Answer
<1>2. request.size \in Nat /\ request.page \in Nat
  BY MetadataAssumption
<1> QED
  BY <1>1, <1>2 DEF CoverInv, CountCoversPage

LEMMA ClientKeepsCover ==
  ASSUME StoreInv, CoverInv, ReadTop \/ CountTop \/ ReadRecent \/ ReadOverTime \/ Leave
  PROVE  CoverInv'
<1>1. UNCHANGED <<fixedVars, rowVars>> /\ len \in Nat
  BY ClientOnlyReads DEF StoreInv, RowsInv
<1>2. CASE ReadTop
  <2>1. UNCHANGED <<ask, total>> /\ phase = "read"
    BY <1>2 DEF ReadTop
  <2>2. CASE phase' = "error"
    BY <2>1, <2>2 DEF CoverInv, CountCoversPage
  <2>3. CASE phase' = "count"
    <3>1. ~ReadFails /\ got' \in QueryTopResultsByKey
      BY <1>2, <2>3 DEF ReadTop, Answer
    <3>2. ask.size \in Nat /\ ask.page \in Nat /\ (store # "memory" => ask.page # 0)
      BY <2>1, <3>1 DEF CoverInv, ReadFails, StoreInv, NodesTyped
    <3>3. got' # <<>> => /\ Skipped + Len(got') \in Int
                         /\ Skipped + Len(got') <= Cardinality(Values(ask.key))
      BY <1>1, <3>1, <3>2, TopFits
    <3>4. Skipped' = Skipped /\ Cardinality(Values(ask.key))' = Cardinality(Values(ask.key))
      BY <1>1, <2>1 DEF Skipped, Values, RowsOf, fixedVars, rowVars
    <3> QED
      BY <2>1, <2>3, <3>2, <3>3, <3>4 DEF CoverInv, CountCoversPage, Covers
  <2> QED
    BY <1>2, <2>2, <2>3 DEF ReadTop, Answer
<1>3. CASE CountTop
  <2>1. UNCHANGED <<ask, got>> /\ phase = "count"
    BY <1>3 DEF CountTop
  <2>2. CASE phase' = "error"
    BY <2>1, <2>2 DEF CoverInv, CountCoversPage
  <2>3. CASE phase' = "answered"
    <3>1. total' = Cardinality(Values(ask.key))
      BY <1>3, <2>3 DEF CountTop, Answer, CountQueryTopResultsByKey
    <3>2. ASSUME OneAtATime PROVE Covers(total')
      BY <2>1, <3>1, <3>2 DEF CoverInv
    <3>3. Skipped' = Skipped /\ (OneAtATime' <=> OneAtATime) /\ store' = store
      BY <1>1, <2>1 DEF Skipped, OneAtATime, fixedVars
    <3> QED
      BY <2>1, <2>3, <3>2, <3>3 DEF CoverInv, CountCoversPage, Covers, Skipped
  <2> QED
    BY <1>3, <2>2, <2>3 DEF CountTop, Answer
<1>4. CASE ReadRecent \/ ReadOverTime
  <2>1. UNCHANGED ask /\ phase = "read" /\ ask.kind # "results" /\ phase' # "count"
    BY <1>4 DEF ReadRecent, ReadOverTime, Answer
  <2> QED
    BY <2>1 DEF CoverInv, CountCoversPage
<1>5. CASE Leave
  BY <1>5 DEF Leave, Answer, CoverInv, CountCoversPage
<1> QED
  BY <1>2, <1>3, <1>4, <1>5

\* A client is never told of fewer values than it is shown, as values are only added
\* between the query for the page and that for the count: for any outputs, sizes and
\* pages (analytics.go:143-183).
THEOREM CountAlwaysCoversPage == Spec => []CountCoversPage
<1>1. Init => StoreInv /\ CoverInv
  BY InitStore DEF Init, CoverInv, CountCoversPage
<1>2. StoreInv /\ CoverInv /\ [Next]_vars => (StoreInv /\ CoverInv)'
  <2> SUFFICES ASSUME StoreInv, CoverInv, [Next]_vars PROVE CoverInv'
    BY NextStore
  <2>1. CASE UNCHANGED vars
    BY <2>1, NodesKeepCover DEF vars
  <2>2. CASE \E n \in Nodes : NodeStep(n) \/ Fail(n)
    <3>1. UNCHANGED readVars /\ UNCHANGED fixedVars
      BY <2>2 DEF NodeStep, Fail, SetResults, Take, Fill, Publish, InsertType, Commit, Finish
    <3> QED
      BY <3>1, NodesKeepCover
  <2> QED
    BY <2>1, <2>2, AskKeepsCover, ClientKeepsCover DEF Next
<1>3. CoverInv => CountCoversPage
  BY DEF CoverInv
<1> QED
  BY <1>1, <1>2, <1>3, PTL DEF Spec

-----------------------------------------------------------------------------
\* What is parsed of an output is what there is before anything that is no object, or
\* too long.

LEMMA LeastOfNaturals ==
  ASSUME NEW T \in SUBSET Nat, T # {}
  PROVE  Min(T) \in T /\ \A y \in T : Min(T) <= y
<1>1. PICK x \in T : \A y \in T : ~(<<y, x>> \in OpToRel(<, Nat))
  BY NatLessThanWellFounded, WFMin
<1>2. OpToRel(<, Nat) = {ss \in Nat \X Nat : ss[1] < ss[2]}
  BY DEF OpToRel
<1>3. ASSUME NEW y \in T, ~(x <= y) PROVE FALSE
  <2>1. <<y, x>> \in {ss \in Nat \X Nat : ss[1] < ss[2]}
    BY <1>3
  <2> QED
    BY <1>1, <1>2, <2>1
<1>4. \E z \in T : \A y \in T : z <= y
  BY <1>3
<1> QED
  BY <1>4 DEF Min

LEMMA BeforeIs ==
  ASSUME NEW S, NEW s \in Seq(S), NEW bad
  PROVE  /\ \A i : i \in DOMAIN Before(s, bad) <=> i \in DOMAIN s /\ \A h \in 1..i : s[h] # bad
         /\ \A i \in DOMAIN Before(s, bad) : Before(s, bad)[i] = s[i]
<1> DEFINE I == {i \in 1..Len(s) : s[i] = bad}
<1>1. CASE bad \notin ToSet(s)
  <2>1. Before(s, bad) = s /\ \A i \in 1..Len(s) : s[i] # bad
    BY <1>1 DEF Before, ToSet
  <2>2. DOMAIN s = 1..Len(s) /\ Len(s) \in Nat
    OBVIOUS
  <2>3. \A i \in DOMAIN s : \A h \in 1..i : s[h] # bad
    BY <2>1, <2>2
  <2>4. DOMAIN s = {i \in DOMAIN s : \A h \in 1..i : s[h] # bad}
    BY <2>3
  <2> QED
    BY <2>1, <2>4
<1>2. CASE bad \in ToSet(s)
  <2>1. I # {} /\ I \in SUBSET Nat
    BY <1>2 DEF ToSet
  <2>2. PICK m : m = Min(I)
    OBVIOUS
  <2>3. m \in I /\ \A i \in I : m <= i
    <3> HIDE DEF I
    <3> QED
      BY <2>1, <2>2, LeastOfNaturals
  <2>4. SelectInSeq(s, LAMBDA x : x = bad) = m
    BY <2>1, <2>2 DEF SelectInSeq
  <2>5. Before(s, bad) = SubSeq(s, 1, m - 1)
    BY <1>2, <2>4 DEF Before
  <2>6. /\ DOMAIN SubSeq(s, 1, m - 1) = 1..(m - 1)
        /\ \A i \in 1..(m - 1) : SubSeq(s, 1, m - 1)[i] = s[i]
    BY <2>3
  <2>7. 1..(m - 1) = {i \in DOMAIN s : \A h \in 1..i : s[h] # bad}
    BY <2>3
  <2> QED
    BY <2>5, <2>6, <2>7
<1> QED
  BY <1>1, <1>2

Readable(n, i) == i \in DOMAIN Output[n] /\ \A h \in 1..i : Output[n][h] # Long
IsObject(n, i, j) ==
  Readable(n, i) /\ j \in DOMAIN Output[n][i] /\ \A h \in 1..j : Output[n][i][h] # Junk

LEMMA ObjectsAre ==
  ASSUME NEW n \in Nodes, NEW p
  PROVE  p \in Objects(Output[n]) <=> \E i, j : p = <<i, j>> /\ IsObject(n, i, j)
<1> DEFINE lines == Before(Output[n], Long)
<1>1. Output[n] \in Seq({Long} \cup Line)
  BY MetadataAssumption
<1>2. /\ \A i : i \in DOMAIN lines <=> Readable(n, i)
      /\ \A i \in DOMAIN lines : lines[i] = Output[n][i]
  BY <1>1, BeforeIs DEF Readable
<1>3. ASSUME NEW i \in DOMAIN lines
      PROVE  \A j : j \in DOMAIN Before(lines[i], Junk) <=> IsObject(n, i, j)
  <2>1. i \in 1..Len(Output[n]) /\ Output[n][i] # Long
    BY <1>1, <1>2, <1>3 DEF Readable
  <2>2. Output[n][i] \in Line /\ lines[i] = Output[n][i]
    BY <1>1, <1>2, <1>3, <2>1
  <2> HIDE DEF lines
  <2> QED
    BY <1>2, <1>3, <2>2, BeforeIs DEF Line, IsObject
<1>4. p \in Objects(Output[n]) <=> \E i \in DOMAIN lines : p \in {i} \X DOMAIN Before(lines[i], Junk)
  BY DEF Objects
<1> HIDE DEF lines
<1> QED
  BY <1>2, <1>3, <1>4 DEF IsObject

LEMMA ParsedIsPrinted ==
  ASSUME NEW n \in Nodes
  PROVE  Parsed[n] = Entries(n)
<1>1. Parsed[n] = UNION {{p} \X Output[n][p[1]][p[2]] : p \in Objects(Output[n])}
  BY DEF Parsed
<1>2. ASSUME NEW y
      PROVE  y \in Parsed[n] <=>
               \E i, j : IsObject(n, i, j) /\ \E e \in Output[n][i][j] : y = <<<<i, j>>, e>>
  <2>1. y \in Parsed[n] <=> \E p \in Objects(Output[n]) : y \in {p} \X Output[n][p[1]][p[2]]
    BY <1>1
  <2> QED
    BY <2>1, ObjectsAre
<1>3. ASSUME NEW y
      PROVE  y \in Entries(n) <=>
               \E i, j : IsObject(n, i, j) /\ \E e \in Output[n][i][j] : y = <<<<i, j>>, e>>
  <2> DEFINE out == Output[n]
             places == UNION {{<<i, j>> : j \in {j \in DOMAIN out[i] : \A h \in 1..j : out[i][h] # Junk}} :
                               i \in {i \in DOMAIN out : \A h \in 1..i : out[h] # Long}}
  <2>1. \A p : p \in places <=> \E i, j : p = <<i, j>> /\ IsObject(n, i, j)
    BY DEF IsObject, Readable
  <2>2. Entries(n) = UNION {{<<p, e>> : e \in out[p[1]][p[2]]} : p \in places}
    BY DEF Entries
  <2>3. y \in Entries(n) <=> \E p \in places : \E e \in out[p[1]][p[2]] : y = <<p, e>>
    BY <2>2
  <2> HIDE DEF places
  <2> QED
    BY <2>1, <2>3
<1> QED
  BY <1>2, <1>3

\* Entries are of a type and a value.
LEMMA PrintedIsMetadata ==
  ASSUME NEW n \in Nodes, NEW y \in Entries(n)
  PROVE  y[2] \in Metadata
<1>1. Output[n] \in Seq({Long} \cup Line)
  BY MetadataAssumption
<1>2. ASSUME NEW i, NEW j, IsObject(n, i, j)
      PROVE  Output[n][i][j] \in SUBSET Metadata
  <2>1. i \in 1..Len(Output[n]) /\ Output[n][i] # Long
    BY <1>1, <1>2 DEF IsObject, Readable
  <2>2. Output[n][i] \in Line
    BY <1>1, <2>1
  <2>3. j \in 1..Len(Output[n][i]) /\ Output[n][i][j] # Junk
    BY <1>2, <2>2 DEF IsObject, Line
  <2> QED
    BY <2>2, <2>3 DEF Line
<1>3. PICK p \in Objects(Output[n]) : y \in {p} \X Output[n][p[1]][p[2]]
  BY ParsedIsPrinted DEF Parsed
<1> QED
  BY <1>2, <1>3, ObjectsAre

-----------------------------------------------------------------------------
\* The account of the entries: where nodes do not write at the same time, each row is
\* that of one printed entry, and each printed entry has its row, is in the hand of its
\* node, or still to be stored.

Holding(n) == pc[n] \notin {"ready", "store", "finished"}
Handled(n) == Parsed[n] \ todo[n]
RowOf(n, y) == [node |-> n, type |-> y[2].type, value |-> y[2].value]

\* Row j is that of entry f[j][2] of node f[j][1]; the entry in the hand of n is h[n].
InHand(h) == \A n \in Nodes : Holding(n) => h[n] \in Handled(n) /\ h[n][2] = entry[n]
RowHasEntry(f, h, j) ==
  \E n \in Nodes : \E y \in Handled(n) :
    /\ f[j] = <<n, y>> /\ array[j] = RowOf(n, y)
    /\ pc[n] # "ready" /\ (Holding(n) => y # h[n])
EntryHasRow(f, h, n, y) == (Holding(n) /\ y = h[n]) \/ \E j \in 1..len : f[j] = <<n, y>>

Account(f, h) ==
  /\ InHand(h)
  /\ \A j \in 1..len : RowHasEntry(f, h, j)
  /\ \A i, j \in 1..len : f[i] = f[j] => i = j
  /\ \A n \in Nodes : pc[n] # "ready" => \A y \in Handled(n) : EntryHasRow(f, h, n, y)

TodoInv ==
  /\ todo = [n \in Nodes |-> todo[n]]
  /\ \A n \in Nodes : /\ pc[n] # "ready" => todo[n] \subseteq Parsed[n]
                      /\ pc[n] = "finished" => todo[n] = {}

AccountInv ==
  /\ TodoInv
  /\ OneAtATime => /\ \A n \in Nodes : pc[n] = "publish" => array[len + 1] = Row(n)
                   /\ \E f, h : Account(f, h)

\* Where rows, entries and hands stay, so does the account.
LEMMA AccountKept ==
  ASSUME NEW f, NEW h, Account(f, h), UNCHANGED <<len, todo, entry>>,
         \A j \in 1..len : array'[j] = array[j],
         \A n \in Nodes : (Holding(n)' <=> Holding(n)) /\ (pc'[n] = "ready" <=> pc[n] = "ready")
  PROVE  Account(f, h)'
<1>1. \A n \in Nodes : Handled(n)' = Handled(n)
  BY DEF Handled
<1>2. InHand(h)'
  BY <1>1 DEF Account, InHand
<1>3. ASSUME NEW j \in 1..len PROVE RowHasEntry(f, h, j)'
  <2>1. PICK n, y : /\ n \in Nodes /\ y \in Handled(n) /\ f[j] = <<n, y>> /\ array[j] = RowOf(n, y)
                              /\ pc[n] # "ready" /\ (Holding(n) => y # h[n])
    BY DEF Account, RowHasEntry
  <2>2. y \in Handled(n)' /\ array'[j] = RowOf(n, y) /\ pc'[n] # "ready" /\ (Holding(n)' => y # h[n])
    BY <1>1, <2>1
  <2> QED
    BY <2>1, <2>2 DEF RowHasEntry, RowOf
<1>4. ASSUME NEW n \in Nodes, pc'[n] # "ready", NEW y \in Handled(n)' PROVE EntryHasRow(f, h, n, y)'
  BY <1>1, <1>4 DEF Account, EntryHasRow
<1> QED
  BY <1>2, <1>3, <1>4 DEF Account

\* A row for the entry in hand enters it into the account.
LEMMA AccountOfNewRow ==
  ASSUME NEW f, NEW h, Account(f, h), NodesTyped, len \in Nat, NEW n \in Nodes, Holding(n),
         UNCHANGED todo, len' = len + 1, pc' = [pc EXCEPT ![n] = "store"],
         \A m \in Nodes \ {n} : entry'[m] = entry[m],
         array'[len + 1] = Row(n), \A j \in 1..len : array'[j] = array[j]
  PROVE  \E g : Account(g, h)'
<1>0. PICK g : g = [j \in 1..(len + 1) |-> IF j = len + 1 THEN <<n, h[n]>> ELSE f[j]]
  OBVIOUS
<1>1. \A m \in Nodes : Handled(m)' = Handled(m)
  BY DEF Handled
<1>2. /\ pc[n] # "ready" /\ pc'[n] = "store" /\ ~Holding(n)'
      /\ \A m \in Nodes \ {n} : pc'[m] = pc[m] /\ (Holding(m)' <=> Holding(m))
  BY DEF NodesTyped, Holding
<1>3. h[n] \in Handled(n) /\ h[n][2] = entry[n]
  BY DEF Account, InHand
<1>4. /\ 1..len' = 1..(len + 1) /\ g[len + 1] = <<n, h[n]>> /\ len + 1 \notin 1..len
      /\ \A j \in 1..len : j \in 1..(len + 1) /\ g[j] = f[j]
      /\ \A j \in 1..(len + 1) : j = len + 1 \/ j \in 1..len
  BY <1>0
<1>5. InHand(h)'
  BY <1>1, <1>2 DEF Account, InHand
<1>6. ASSUME NEW j \in 1..len, NEW m \in Nodes, NEW y \in Handled(m),
             f[j] = <<m, y>>, array[j] = RowOf(m, y), pc[m] # "ready", Holding(m) => y # h[m]
      PROVE  /\ RowHasEntry(g, h, j)'
             /\ g[j] # <<n, h[n]>>
  <2>1. y \in Handled(m)' /\ g[j] = <<m, y>> /\ array'[j] = RowOf(m, y) /\ pc'[m] # "ready"
    BY <1>1, <1>2, <1>4, <1>6
  <2>2. Holding(m)' => y # h[m]
    BY <1>2, <1>6
  <2>3. RowHasEntry(g, h, j)'
    BY <2>1, <2>2 DEF RowHasEntry, RowOf
  <2>4. g[j] # <<n, h[n]>>
    BY <1>6, <2>1
  <2> QED
    BY <2>3, <2>4
<1>7. \A j \in 1..len : RowHasEntry(g, h, j)' /\ g[j] # <<n, h[n]>>
  BY <1>6 DEF Account, RowHasEntry
<1>8. ASSUME NEW j, j = len + 1 PROVE RowHasEntry(g, h, j)'
  <2>1. array'[j] = RowOf(n, h[n])
    BY <1>3, <1>8 DEF Row, RowOf
  <2>2. h[n] \in Handled(n)' /\ g[j] = <<n, h[n]>> /\ pc'[n] # "ready" /\ ~Holding(n)'
    BY <1>1, <1>2, <1>3, <1>4, <1>8
  <2> QED
    BY <2>1, <2>2 DEF RowHasEntry, RowOf
<1>9. ASSUME NEW i \in 1..(len + 1), NEW j \in 1..(len + 1), g[i] = g[j] PROVE i = j
  BY <1>4, <1>7, <1>9 DEF Account
<1>10. ASSUME NEW m \in Nodes, pc'[m] # "ready", NEW y \in Handled(m)' PROVE EntryHasRow(g, h, m, y)'
  <2>1. EntryHasRow(f, h, m, y)
    BY <1>1, <1>2, <1>10 DEF Account
  <2>2. CASE \E j \in 1..len : f[j] = <<m, y>>
    BY <1>4, <2>2 DEF EntryHasRow
  <2>3. CASE Holding(m) /\ y = h[m]
    <3>1. CASE m = n
      BY <1>4, <2>3, <3>1 DEF EntryHasRow
    <3>2. CASE m # n
      BY <1>2, <2>3, <3>2 DEF EntryHasRow
    <3> QED
      BY <3>1, <3>2
  <2> QED
    BY <2>1, <2>2, <2>3 DEF EntryHasRow
<1>11. Account(g, h)'
  <2>1. \A j \in 1..len' : RowHasEntry(g, h, j)'
    BY <1>4, <1>7, <1>8
  <2>2. \A i, j \in 1..len' : g[i] = g[j] => i = j
    BY <1>4, <1>9
  <2> QED
    BY <1>5, <1>10, <2>1, <2>2 DEF Account
<1> QED
  BY <1>11

\* The output of a node that begins is all to be stored.
LEMMA AccountOfNewNode ==
  ASSUME NEW f, NEW h, Account(f, h), NodesTyped, TodoInv, NEW n \in Nodes, SetResults(n)
  PROVE  Account(f, h)'
<1>1. /\ pc[n] = "ready" /\ pc'[n] = "store" /\ todo'[n] = Parsed[n] /\ UNCHANGED <<array, len, entry>>
      /\ \A m \in Nodes \ {n} : pc'[m] = pc[m] /\ todo'[m] = todo[m]
  BY DEF SetResults, Goto, NodesTyped, TodoInv, rowVars
<1>2. /\ Handled(n)' = {} /\ ~Holding(n)'
      /\ \A m \in Nodes \ {n} : Handled(m)' = Handled(m) /\ (Holding(m)' <=> Holding(m))
  BY <1>1 DEF Handled, Holding
<1>3. InHand(h)'
  BY <1>1, <1>2 DEF Account, InHand
<1>4. ASSUME NEW j \in 1..len PROVE RowHasEntry(f, h, j)'
  <2>1. PICK m, y : /\ m \in Nodes /\ y \in Handled(m) /\ f[j] = <<m, y>> /\ array[j] = RowOf(m, y)
                              /\ pc[m] # "ready" /\ (Holding(m) => y # h[m])
    BY DEF Account, RowHasEntry
  <2>2. /\ y \in Handled(m)' /\ array'[j] = RowOf(m, y) /\ pc'[m] # "ready"
        /\ (Holding(m)' => y # h[m])
    BY <1>1, <1>2, <2>1
  <2> QED
    BY <2>1, <2>2 DEF RowHasEntry, RowOf
<1>5. ASSUME NEW m \in Nodes, pc'[m] # "ready", NEW y \in Handled(m)' PROVE EntryHasRow(f, h, m, y)'
  BY <1>1, <1>2, <1>5 DEF Account, EntryHasRow
<1> QED
  BY <1>1, <1>3, <1>4, <1>5 DEF Account

\* An entry that is taken is in hand.
LEMMA AccountOfTaken ==
  ASSUME NEW f, NEW h, Account(f, h), NodesTyped, TodoInv, NEW n \in Nodes, Take(n)
  PROVE  \E k : Account(f, k)'
<1>1. PICK x \in todo[n] : entry' = [entry EXCEPT ![n] = x[2]] /\ todo' = [todo EXCEPT ![n] = todo[n] \ {x}]
  BY DEF Take, First
<1>2. /\ pc[n] = "store" /\ pc'[n] \in {"fill", "insert"} /\ UNCHANGED <<array, len>>
      /\ entry'[n] = x[2] /\ todo'[n] = todo[n] \ {x}
      /\ \A m \in Nodes \ {n} : pc'[m] = pc[m] /\ todo'[m] = todo[m] /\ entry'[m] = entry[m]
  BY <1>1 DEF Take, Goto, NodesTyped, TodoInv, rowVars
<1>3. x \in Parsed[n]
  BY <1>2 DEF TodoInv
<1> DEFINE k == [m \in Nodes |-> IF m = n THEN x ELSE h[m]]
<1>4. /\ Handled(n)' = Handled(n) \cup {x} /\ x \notin Handled(n) /\ Holding(n)' /\ ~Holding(n)
      /\ \A m \in Nodes \ {n} : Handled(m)' = Handled(m) /\ (Holding(m)' <=> Holding(m))
  BY <1>2, <1>3 DEF Handled, Holding
<1>5. k[n] = x /\ \A m \in Nodes \ {n} : k[m] = h[m]
  OBVIOUS
<1> HIDE DEF k
<1>6. InHand(k)'
  BY <1>2, <1>4, <1>5 DEF Account, InHand
<1>7. ASSUME NEW j \in 1..len PROVE RowHasEntry(f, k, j)'
  <2>1. PICK m, y : /\ m \in Nodes /\ y \in Handled(m) /\ f[j] = <<m, y>> /\ array[j] = RowOf(m, y)
                              /\ pc[m] # "ready" /\ (Holding(m) => y # h[m])
    BY DEF Account, RowHasEntry
  <2>2. /\ y \in Handled(m)' /\ array'[j] = RowOf(m, y) /\ pc'[m] # "ready"
        /\ (Holding(m)' => y # k[m])
    BY <1>2, <1>4, <1>5, <2>1
  <2> QED
    BY <2>1, <2>2 DEF RowHasEntry, RowOf
<1>8. ASSUME NEW m \in Nodes, pc'[m] # "ready", NEW y \in Handled(m)' PROVE EntryHasRow(f, k, m, y)'
  BY <1>2, <1>4, <1>5, <1>8 DEF Account, EntryHasRow
<1>9. Account(f, k)'
  BY <1>2, <1>6, <1>7, <1>8 DEF Account
<1> QED
  BY <1>9

LEMMA NextTodo ==
  ASSUME StoreInv, TodoInv, [Next]_vars
  PROVE  TodoInv'
<1>1. NodesTyped
  BY DEF StoreInv
<1>2. CASE UNCHANGED <<pc, todo>>
  BY <1>2 DEF TodoInv
<1>3. ASSUME NEW n \in Nodes, NEW label \in Labels, pc' = [pc EXCEPT ![n] = label], UNCHANGED todo,
             pc[n] # "ready", label = "finished" => todo[n] = {}
      PROVE  TodoInv'
  <2>1. pc'[n] = label /\ \A m \in Nodes \ {n} : pc'[m] = pc[m]
    BY <1>1, <1>3 DEF NodesTyped
  <2> QED
    BY <1>3, <2>1 DEF TodoInv
<1>4. ASSUME NEW n \in Nodes, NEW label \in {"store", "fill", "insert"}, NEW left \in SUBSET Parsed[n],
             pc' = [pc EXCEPT ![n] = label], todo' = [todo EXCEPT ![n] = left]
      PROVE  TodoInv'
  <2>1. pc'[n] = label /\ \A m \in Nodes \ {n} : pc'[m] = pc[m]
    BY <1>1, <1>4 DEF NodesTyped
  <2>2. todo'[n] = left /\ \A m \in Nodes \ {n} : todo'[m] = todo[m]
    BY <1>4 DEF TodoInv
  <2>3. todo' = [m \in Nodes |-> todo'[m]]
    BY <1>4 DEF TodoInv
  <2> QED
    BY <1>4, <2>1, <2>2, <2>3 DEF TodoInv
<1>5. ASSUME NEW n \in Nodes, SetResults(n) PROVE TodoInv'
  BY <1>4, <1>5 DEF SetResults, Goto
<1>6. ASSUME NEW n \in Nodes, Take(n) PROVE TodoInv'
  <2>1. PICK x : todo' = [todo EXCEPT ![n] = todo[n] \ {x}]
    BY <1>6 DEF Take
  <2>2. pc' = [pc EXCEPT ![n] = "fill"] \/ pc' = [pc EXCEPT ![n] = "insert"]
    BY <1>6 DEF Take, Goto
  <2>3. todo[n] \ {x} \in SUBSET Parsed[n]
    BY <1>6 DEF Take, TodoInv
  <2>4. PICK left \in SUBSET Parsed[n] : left = todo[n] \ {x}
    BY <2>3
  <2> QED
    BY <1>4, <2>1, <2>2, <2>4
<1>7. ASSUME NEW n \in Nodes,
             Fill(n) \/ Publish(n) \/ InsertType(n) \/ Commit(n) \/ Finish(n) \/ Fail(n)
      PROVE  TodoInv'
  <2>1. /\ UNCHANGED todo /\ pc[n] # "ready"
        /\ \E label \in Labels : pc' = [pc EXCEPT ![n] = label] /\ (label = "finished" => todo[n] = {})
    BY <1>7 DEF Fill, Publish, InsertType, Commit, Finish, Fail, Stored, GiveUp, Goto, Labels
  <2> QED
    BY <1>3, <2>1
<1> QED
  BY <1>2, <1>5, <1>6, <1>7, ClientOnlyReads DEF Next, NodeStep, vars, nodeVars

\* What a node has written and not yet published is the row of its entry.
Unpublished == \A n \in Nodes : pc[n] = "publish" => array[len + 1] = Row(n)

LEMMA UnpublishedKept ==
  ASSUME Unpublished, UNCHANGED <<array, len>>,
         \A n \in Nodes : pc'[n] = "publish" => pc[n] = "publish" /\ entry'[n] = entry[n]
  PROVE  Unpublished'
BY DEF Unpublished, Row

LEMMA NodeStepAccounts ==
  ASSUME StoreInv, TodoInv, OneAtATime, Unpublished, NEW f, NEW h, Account(f, h),
         NEW n \in Nodes, NodeStep(n) \/ Fail(n)
  PROVE  Unpublished' /\ \E g, k : Account(g, k)'
<1>1. NodesTyped /\ Alone /\ InTurn /\ len \in Nat
  BY DEF StoreInv, RowsInv
<1>2. CASE SetResults(n)
  <2>1. Account(f, h)'
    BY <1>1, <1>2, AccountOfNewNode
  <2>2. UNCHANGED <<array, len, entry>> /\ pc' = [pc EXCEPT ![n] = "store"]
    BY <1>2 DEF SetResults, Goto, rowVars
  <2>3. Unpublished'
    BY <1>1, <2>2, UnpublishedKept DEF NodesTyped
  <2> QED
    BY <2>1, <2>3
<1>3. CASE Take(n)
  <2>1. \E k : Account(f, k)'
    BY <1>1, <1>3, AccountOfTaken
  <2>2. /\ UNCHANGED <<array, len>>
        /\ pc' = [pc EXCEPT ![n] = "fill"] \/ pc' = [pc EXCEPT ![n] = "insert"]
        /\ \E e : entry' = [entry EXCEPT ![n] = e]
    BY <1>3 DEF Take, Goto, rowVars
  <2>3. Unpublished'
    BY <1>1, <2>2, UnpublishedKept DEF NodesTyped
  <2> QED
    BY <2>1, <2>3
<1>4. CASE Fill(n)
  <2>1. /\ UNCHANGED <<len, todo, entry>> /\ pc[n] = "fill" /\ pc' = [pc EXCEPT ![n] = "publish"]
        /\ base[n] = len /\ Len(array) = len /\ store = "memory"
    BY <1>1, <1>4 DEF Fill, Goto, NodesTyped, InTurn
  <2>2. \A m \in Nodes \ {n} : pc[m] \notin {"fill", "publish"}
    BY <1>1, <2>1 DEF OneAtATime, Alone, Running
  <2>3. array' = Append(array, Row(n))
    BY <1>1, <1>4, <2>1, <2>2 DEF Fill
  <2>4. PICK S : array \in Seq(S)
    BY DEF StoreInv, RowsInv
  <2>5. PICK row : row = Row(n)
    OBVIOUS
  <2>6. array'[len + 1] = row /\ \A j \in 1..len : array'[j] = array[j]
    BY <2>1, <2>3, <2>4, <2>5, RowAppended
  <2>7. /\ pc'[n] = "publish" /\ \A m \in Nodes \ {n} : pc'[m] = pc[m]
    BY <1>1, <2>1 DEF NodesTyped
  <2>8. Unpublished'
    BY <2>1, <2>2, <2>5, <2>6, <2>7 DEF Unpublished, Row
  <2>9. \A m \in Nodes : (Holding(m)' <=> Holding(m)) /\ (pc'[m] = "ready" <=> pc[m] = "ready")
    BY <2>1, <2>7 DEF Holding
  <2>10. Account(f, h)'
    BY <2>1, <2>6, <2>9, AccountKept
  <2> QED
    BY <2>8, <2>10
<1>5. CASE Publish(n)
  <2>1. /\ UNCHANGED <<array, todo>> /\ pc[n] = "publish" /\ len' = base[n] + 1 /\ base[n] = len
        /\ pc' = [pc EXCEPT ![n] = "store"] /\ entry' = [entry EXCEPT ![n] = NoEntry]
        /\ store = "memory"
    BY <1>1, <1>5 DEF Publish, Stored, Goto, InTurn, NodesTyped
  <2>2. \A m \in Nodes \ {n} : pc[m] # "publish"
    BY <1>1, <2>1 DEF OneAtATime, Alone, Running
  <2>3. Unpublished'
    BY <1>1, <2>1, <2>2 DEF Unpublished, NodesTyped
  <2>4. Holding(n) /\ array'[len + 1] = Row(n) /\ \A m \in Nodes \ {n} : entry'[m] = entry[m]
    BY <1>1, <2>1 DEF Holding, Unpublished, NodesTyped
  <2>5. \E g : Account(g, h)'
    BY <1>1, <2>1, <2>4, AccountOfNewRow
  <2> QED
    BY <2>3, <2>5
<1>6. CASE Commit(n)
  <2>1. /\ UNCHANGED todo /\ pc[n] \in {"commit", "commit new"} /\ len' = len + 1
        /\ pc' = [pc EXCEPT ![n] = "store"] /\ entry' = [entry EXCEPT ![n] = NoEntry]
    BY <1>6 DEF Commit, Stored, Goto
  <2>2. store = "postgres" /\ array'[len + 1] = Row(n) /\ \A j \in 1..len : array'[j] = array[j]
    BY <1>6, CommitKeeps
  <2>3. Unpublished'
    BY <1>1, <2>1, <2>2 DEF Unpublished, NodesTyped
  <2>4. Holding(n) /\ \A m \in Nodes \ {n} : entry'[m] = entry[m]
    BY <1>1, <2>1 DEF Holding, NodesTyped
  <2>5. \E g : Account(g, h)'
    BY <1>1, <2>1, <2>2, <2>4, AccountOfNewRow
  <2> QED
    BY <2>3, <2>5
<1>7. CASE InsertType(n) \/ Finish(n) \/ Fail(n)
  <2>1. /\ UNCHANGED <<array, len, todo, entry>>
        /\ \E label \in {"commit", "commit new", "gave up", "failed", "finished"} :
             /\ pc' = [pc EXCEPT ![n] = label]
             /\ label = "finished" => pc[n] = "store"
             /\ label # "finished" => pc[n] \in {"insert", "commit", "commit new"}
    BY <1>7 DEF InsertType, Finish, Fail, GiveUp, Goto, rowVars
  <2>2. \A m \in Nodes : /\ Holding(m)' <=> Holding(m)
                         /\ pc'[m] = "ready" <=> pc[m] = "ready"
                         /\ pc'[m] = "publish" => pc[m] = "publish"
    BY <1>1, <2>1 DEF Holding, NodesTyped
  <2>3. Account(f, h)'
    BY <2>1, <2>2, AccountKept
  <2>4. Unpublished'
    BY <2>1, <2>2, UnpublishedKept
  <2> QED
    BY <2>3, <2>4
<1> QED
  BY <1>2, <1>3, <1>4, <1>5, <1>6, <1>7 DEF NodeStep

LEMMA NextAccount == StoreInv /\ AccountInv /\ [Next]_vars => AccountInv'
<1> SUFFICES ASSUME StoreInv, AccountInv, [Next]_vars PROVE AccountInv'
  OBVIOUS
<1>1. TodoInv'
  BY NextTodo DEF AccountInv
<1>2. ASSUME OneAtATime' PROVE Unpublished' /\ \E f, h : Account(f, h)'
  <2>1. OneAtATime
    <3>1. UNCHANGED fixedVars
      BY ClientOnlyReads DEF Next, NodeStep, Fail, SetResults, Take, Fill, Publish, InsertType, Commit,
                             Finish, vars
    <3> QED
      BY <1>2, <3>1 DEF fixedVars, OneAtATime
  <2>2. PICK f, h : TodoInv /\ Unpublished /\ Account(f, h)
    BY <2>1 DEF AccountInv, Unpublished
  <2>3. CASE \E n \in Nodes : NodeStep(n) \/ Fail(n)
    BY <2>1, <2>2, <2>3, NodeStepAccounts
  <2>4. CASE UNCHANGED <<rowVars, nodeVars>>
    <3>1. UNCHANGED <<array, len, pc, todo, entry>>
      BY <2>4 DEF rowVars, nodeVars
    <3>2. Account(f, h)'
      BY <2>2, <3>1, AccountKept DEF Holding
    <3>3. Unpublished'
      BY <2>2, <3>1, UnpublishedKept
    <3> QED
      BY <3>2, <3>3
  <2> QED
    BY <2>3, <2>4, ClientOnlyReads DEF Next, vars
<1> QED
  BY <1>1, <1>2 DEF AccountInv, Unpublished

LEMMA InitAccount == Init => AccountInv
<1> SUFFICES ASSUME Init PROVE AccountInv
  OBVIOUS
<1>1. len = 0 /\ todo = [n \in Nodes |-> {}] /\ \A n \in Nodes : pc[n] = "ready"
  BY DEF Init
<1>2. TodoInv
  BY <1>1 DEF TodoInv
<1>3. PICK f, h : f = <<>> /\ h = <<>>
  OBVIOUS
<1>4. Account(f, h)
  BY <1>1 DEF Account, InHand, Holding
<1> QED
  BY <1>1, <1>2, <1>4 DEF AccountInv

-----------------------------------------------------------------------------
\* What the account says when nodes have finished.

LEMMA SameNumber ==
  ASSUME NEW S, IsFiniteSet(S), NEW T, NEW g,
         \A j \in S : g[j] \in T,
         \A i, j \in S : g[i] = g[j] => i = j,
         \A t \in T : \E j \in S : g[j] = t
  PROVE  Cardinality(S) = Cardinality(T)
<1> DEFINE b == [j \in S |-> g[j]]
<1>1. b \in Bijection(S, T)
  BY DEF Bijection, Injection, Surjection, IsInjective
<1>2. ExistsBijection(S, T)
  BY <1>1 DEF ExistsBijection
<1> QED
  BY <1>2, FS_Bijection

LEMMA RowsOfFinished ==
  ASSUME NEW f, NEW h, Account(f, h), TodoInv, NEW n \in Nodes, pc[n] = "finished"
  PROVE  /\ \A j \in RowsFrom(n) : \E y \in Entries(n) : f[j] = <<n, y>> /\ array[j] = RowOf(n, y)
         /\ \A y \in Entries(n) : \E j \in RowsFrom(n) : f[j] = <<n, y>>
<1>1. Handled(n) = Entries(n) /\ ~Holding(n)
  BY ParsedIsPrinted DEF Handled, Holding, TodoInv
<1>2. ASSUME NEW j \in 1..len
      PROVE  \E m \in Nodes : \E y \in Handled(m) : /\ f[j] = <<m, y>> /\ array[j] = RowOf(m, y)
                                                    /\ array[j].node = m /\ array[j] # Torn
  <2>1. PICK m, y : m \in Nodes /\ y \in Handled(m) /\ f[j] = <<m, y>> /\ array[j] = RowOf(m, y)
    BY DEF Account, RowHasEntry
  <2>2. RowOf(m, y).node = m /\ DOMAIN RowOf(m, y) # {} /\ DOMAIN Torn = {}
    BY DEF RowOf, Torn
  <2>3. array[j].node = m /\ array[j] # Torn
    BY <2>1, <2>2
  <2> QED
    BY <2>1, <2>3
<1>3. ASSUME NEW j \in RowsFrom(n)
      PROVE  \E y \in Entries(n) : f[j] = <<n, y>> /\ array[j] = RowOf(n, y)
  <2>1. j \in 1..len /\ array[j].node = n
    BY DEF RowsFrom
  <2> QED
    BY <1>1, <1>2, <2>1
<1>4. ASSUME NEW y \in Entries(n) PROVE \E j \in RowsFrom(n) : f[j] = <<n, y>>
  <2>1. PICK j \in 1..len : f[j] = <<n, y>>
    BY <1>1 DEF Account, EntryHasRow
  <2>2. array[j].node = n /\ array[j] # Torn
    BY <1>2, <2>1
  <2> QED
    BY <2>1, <2>2 DEF RowsFrom
<1> QED
  BY <1>3, <1>4

LEMMA FinishedStored == StoreInv /\ AccountInv => FinishedStoresAll
<1> SUFFICES ASSUME StoreInv, AccountInv, NEW n \in Nodes, pc[n] = "finished", OneAtATime
             PROVE  /\ Cardinality(RowsFrom(n)) = Cardinality(Entries(n))
                    /\ \A x \in Entries(n) :
                         Cardinality({j \in RowsFrom(n) : array[j].type = x[2].type /\ array[j].value = x[2].value})
                           = Cardinality({y \in Entries(n) : y[2] = x[2]})
  BY DEF FinishedStoresAll
<1>1. PICK f, h : Account(f, h)
  BY DEF AccountInv
<1>2. /\ \A j \in RowsFrom(n) : \E y \in Entries(n) : f[j] = <<n, y>> /\ array[j] = RowOf(n, y)
      /\ \A y \in Entries(n) : \E j \in RowsFrom(n) : f[j] = <<n, y>>
  BY <1>1, RowsOfFinished DEF AccountInv
<1>3. PICK g : g = [j \in RowsFrom(n) |-> f[j][2]]
  OBVIOUS
<1>4. IsFiniteSet(RowsFrom(n))
  <2>1. IsFiniteSet(1..len) /\ RowsFrom(n) \subseteq 1..len
    BY FS_Interval DEF RowsFrom, StoreInv, RowsInv
  <2> QED
    BY <2>1, FS_Subset
<1>5. /\ \A j \in RowsFrom(n) : /\ g[j] \in Entries(n) /\ f[j] = <<n, g[j]>>
                                /\ array[j].type = g[j][2].type /\ array[j].value = g[j][2].value
      /\ \A y \in Entries(n) : \E j \in RowsFrom(n) : g[j] = y
  <2>1. ASSUME NEW j \in RowsFrom(n), NEW y, f[j] = <<n, y>> PROVE g[j] = y
    BY <1>3, <2>1
  <2>2. ASSUME NEW j \in RowsFrom(n)
        PROVE  /\ g[j] \in Entries(n) /\ f[j] = <<n, g[j]>>
               /\ array[j].type = g[j][2].type /\ array[j].value = g[j][2].value
    <3>1. PICK y \in Entries(n) : f[j] = <<n, y>> /\ array[j] = RowOf(n, y)
      BY <1>2
    <3>2. array[j].type = y[2].type /\ array[j].value = y[2].value
      BY <3>1 DEF RowOf
    <3> QED
      BY <2>1, <3>1, <3>2
  <2>3. ASSUME NEW y \in Entries(n) PROVE \E j \in RowsFrom(n) : g[j] = y
    BY <1>2, <2>1
  <2> QED
    BY <2>2, <2>3
<1>6. \A i, j \in RowsFrom(n) : g[i] = g[j] => i = j
  BY <1>1, <1>5 DEF Account, RowsFrom
<1>7. Cardinality(RowsFrom(n)) = Cardinality(Entries(n))
  BY <1>4, <1>5, <1>6, SameNumber
<1>8. ASSUME NEW x \in Entries(n)
      PROVE  Cardinality({j \in RowsFrom(n) : array[j].type = x[2].type /\ array[j].value = x[2].value})
               = Cardinality({y \in Entries(n) : y[2] = x[2]})
  <2> DEFINE S == {j \in RowsFrom(n) : array[j].type = x[2].type /\ array[j].value = x[2].value}
             T == {y \in Entries(n) : y[2] = x[2]}
  <2>1. IsFiniteSet(S)
    BY <1>4, FS_Subset
  <2>2. \A y \in Entries(n) : y[2] = x[2] <=> y[2].type = x[2].type /\ y[2].value = x[2].value
    BY PrintedIsMetadata DEF Metadata
  <2>3. \A j \in S : g[j] \in T
    BY <1>5, <2>2
  <2>4. \A y \in T : \E j \in S : g[j] = y
    BY <1>5, <2>2
  <2>5. \A i, j \in S : g[i] = g[j] => i = j
    BY <1>6
  <2> HIDE DEF S, T
  <2>6. Cardinality(S) = Cardinality(T)
    BY <2>1, <2>3, <2>4, <2>5, SameNumber
  <2> QED
    BY <2>6 DEF S, T
<1> QED
  BY <1>7, <1>8

\* A node that has finished has stored what its job has printed, each entry as often as it
\* was printed and nothing else, for any outputs: in Postgres whatever others store at the
\* same time, in memory if nodes execute one at a time (analytics.go:229-259).
THEOREM FinishedAlwaysStoresAll == Spec => []FinishedStoresAll
<1>1. Init => StoreInv /\ AccountInv
  BY InitStore, InitAccount
<1>2. StoreInv /\ AccountInv /\ [Next]_vars => (StoreInv /\ AccountInv)'
  BY NextStore, NextAccount
<1> QED
  BY <1>1, <1>2, FinishedStored, PTL DEF Spec

-----------------------------------------------------------------------------
\* One who asks when all nodes have finished is told what is stored, and so what was
\* printed.

Settled == phase # "idle" /\ ask.settled
CountsStored == \A k \in DOMAIN got : got[k].count = CountOf(ask.key, got[k].value)
TopInv ==
  /\ Settled => AllFinished
  /\ Settled /\ ask.kind = "results" =>
       /\ phase \in {"count", "answered"} => CountsStored
       /\ phase = "answered" => total = Cardinality(Values(ask.key))

LEMMA NobodyWrites ==
  ASSUME AllFinished
  PROVE  \A n \in Nodes : ~NodeStep(n) /\ ~Fail(n)
BY DEF AllFinished, NodeStep, Fail, SetResults, Take, Fill, Publish, InsertType, Commit, Finish

LEMMA TopCounts ==
  ASSUME NEW r \in QueryTopResultsByKey
  PROVE  \A k \in DOMAIN r : r[k].count = CountOf(ask.key, r[k].value)
<1> DEFINE Result(s) == [i \in DOMAIN s |-> [value |-> s[i], count |-> CountOf(ask.key, s[i])]]
<1>1. \E s : r = Result(s)
  BY DEF QueryTopResultsByKey
<1> QED
  BY <1>1

LEMMA NextTop == TopInv /\ [Next]_vars => TopInv'
<1> SUFFICES ASSUME TopInv, [Next]_vars PROVE TopInv'
  OBVIOUS
<1>1. CASE UNCHANGED <<pc, rowVars, readVars>>
  BY <1>1 DEF TopInv, Settled, CountsStored, AllFinished, CountOf, Values, RowsOf, rowVars, readVars
<1>2. CASE \E n \in Nodes : NodeStep(n) \/ Fail(n)
  <2>1. ~AllFinished /\ UNCHANGED readVars
    BY <1>2, NobodyWrites DEF NodeStep, Fail, SetResults, Take, Fill, Publish, InsertType, Commit, Finish
  <2> QED
    BY <2>1 DEF TopInv, Settled, readVars
<1>3. ASSUME NEW request \in Requests, Ask(request) PROVE TopInv'
  <2>1. ask'.settled = AllFinished /\ phase' \in {"bad request", "read"} /\ UNCHANGED pc
    BY <1>3 DEF Ask, Answer, nodeVars
  <2> QED
    BY <2>1 DEF TopInv, Settled, AllFinished
<1>4. CASE ReadTop
  <2>1. UNCHANGED <<pc, array, len, ask>> /\ phase = "read" /\ phase' \in {"error", "count"}
    BY <1>4 DEF ReadTop, Answer, nodeVars, rowVars
  <2>2. phase' = "count" => CountsStored'
    <3>1. SUFFICES ASSUME phase' = "count" PROVE CountsStored'
      OBVIOUS
    <3>2. got' \in QueryTopResultsByKey
      BY <1>4, <3>1 DEF ReadTop, Answer
    <3>3. \A k \in DOMAIN got' : got'[k].count = CountOf(ask.key, got'[k].value)
      BY <3>2, TopCounts
    <3> QED
      BY <2>1, <3>3 DEF CountsStored, CountOf, RowsOf
  <2> QED
    BY <2>1, <2>2 DEF TopInv, Settled, AllFinished
<1>5. CASE CountTop
  <2>1. UNCHANGED <<pc, array, len, ask, got>> /\ phase = "count" /\ phase' \in {"error", "answered"}
    BY <1>5 DEF CountTop, Answer, nodeVars, rowVars
  <2>2. CountsStored => CountsStored'
    BY <2>1 DEF CountsStored, CountOf, RowsOf
  <2>3. phase' = "answered" => total' = Cardinality(Values(ask.key))'
    <3>1. phase' = "answered" => total' = Cardinality(Values(ask.key))
      BY <1>5 DEF CountTop, Answer, CountQueryTopResultsByKey
    <3> QED
      BY <2>1, <3>1 DEF Values, RowsOf
  <2> QED
    BY <2>1, <2>2, <2>3 DEF TopInv, Settled, AllFinished
<1>6. CASE ReadRecent \/ ReadOverTime
  <2>1. UNCHANGED <<pc, ask>> /\ phase = "read" /\ ask.kind # "results"
    BY <1>6 DEF ReadRecent, ReadOverTime, nodeVars
  <2> QED
    BY <2>1 DEF TopInv, Settled, AllFinished
<1>7. CASE Leave
  BY <1>7 DEF Leave, Answer, TopInv, Settled
<1> QED
  BY <1>1, <1>2, <1>3, <1>4, <1>5, <1>6, <1>7 DEF Next, vars, nodeVars

LEMMA StoredIsPrinted ==
  ASSUME StoreInv, AccountInv, OneAtATime, AllFinished, NEW k, NEW f, NEW h, Account(f, h)
  PROVE  /\ \A j \in RowsOf(k) : f[j] \in Printed(k) /\ array[j].value = f[j][2][2].value
         /\ \A y \in Printed(k) : \E j \in RowsOf(k) : f[j] = y
<1>1. ASSUME NEW n \in Nodes
      PROVE  /\ \A j \in RowsFrom(n) : \E y \in Entries(n) : f[j] = <<n, y>> /\ array[j] = RowOf(n, y)
             /\ \A y \in Entries(n) : \E j \in RowsFrom(n) : f[j] = <<n, y>>
  BY RowsOfFinished DEF AccountInv, AllFinished
<1>2. ASSUME NEW p
      PROVE  p \in Printed(k) <=>
               \E n \in Nodes : \E y \in Entries(n) : p = <<n, y>> /\ Lower[y[2].type] = Lower[k]
  BY DEF Printed
<1>3. ASSUME NEW n \in Nodes, NEW j \in RowsFrom(n), NEW y \in Entries(n), f[j] = <<n, y>>
      PROVE  /\ j \in 1..len /\ array[j] # Torn
             /\ array[j].type = y[2].type /\ array[j].value = y[2].value /\ f[j][2] = y
  <2>1. PICK z \in Entries(n) : f[j] = <<n, z>> /\ array[j] = RowOf(n, z)
    BY <1>1
  <2>2. z = y
    BY <1>3, <2>1
  <2>3. array[j].type = y[2].type /\ array[j].value = y[2].value
    BY <2>1, <2>2 DEF RowOf
  <2> QED
    BY <1>3, <2>3 DEF RowsFrom
<1>4. ASSUME NEW j \in RowsOf(k) PROVE f[j] \in Printed(k) /\ array[j].value = f[j][2][2].value
  <2>1. j \in 1..len /\ array[j] # Torn /\ Lower[array[j].type] = Lower[k]
    BY DEF RowsOf
  <2>2. PICK m, z : m \in Nodes /\ array[j] = RowOf(m, z)
    BY <2>1 DEF Account, RowHasEntry
  <2>3. j \in RowsFrom(m)
    BY <2>1, <2>2 DEF RowsFrom, RowOf
  <2>4. PICK y \in Entries(m) : f[j] = <<m, y>>
    BY <1>1, <2>2, <2>3
  <2>5. array[j].type = y[2].type /\ array[j].value = y[2].value /\ f[j][2] = y
    BY <1>3, <2>2, <2>3, <2>4
  <2>6. f[j] \in Printed(k)
    BY <1>2, <2>1, <2>2, <2>4, <2>5
  <2> QED
    BY <2>5, <2>6
<1>5. ASSUME NEW p \in Printed(k) PROVE \E j \in RowsOf(k) : f[j] = p
  <2>1. PICK n \in Nodes : \E y \in Entries(n) : p = <<n, y>> /\ Lower[y[2].type] = Lower[k]
    BY <1>2
  <2>2. PICK y \in Entries(n) : p = <<n, y>> /\ Lower[y[2].type] = Lower[k]
    BY <2>1
  <2>3. PICK j \in RowsFrom(n) : f[j] = <<n, y>>
    BY <1>1
  <2>4. j \in RowsOf(k)
    BY <1>3, <2>2, <2>3 DEF RowsOf
  <2> QED
    BY <2>2, <2>3, <2>4
<1> QED
  BY <1>4, <1>5

LEMMA SettledAnswersFit ==
  StoreInv /\ AccountInv /\ TopInv /\ CountCoversPage => TopAnswersFit
<1> SUFFICES ASSUME StoreInv, AccountInv, TopInv, CountCoversPage,
                    phase = "answered", ask.kind = "results", ask.settled, OneAtATime
             PROVE  /\ total = Cardinality({y[2][2].value : y \in Printed(ask.key)})
                    /\ \A k \in DOMAIN got :
                         got[k].count = Cardinality({y \in Printed(ask.key) : y[2][2].value = got[k].value})
  BY DEF TopAnswersFit
<1> DEFINE P == Printed(ask.key)
           R == RowsOf(ask.key)
<1>1. AllFinished /\ CountsStored /\ total = Cardinality(Values(ask.key))
  BY DEF TopInv, Settled
<1>2. PICK f, h : Account(f, h)
  BY DEF AccountInv
<1>3. /\ \A j \in R : f[j] \in P /\ array[j].value = f[j][2][2].value
      /\ \A y \in P : \E j \in R : f[j] = y
  BY <1>1, <1>2, StoredIsPrinted
<1>4. Values(ask.key) = {y[2][2].value : y \in P}
  <2>1. Values(ask.key) = {array[j].value : j \in R}
    BY DEF Values
  <2> HIDE DEF P, R
  <2> QED
    BY <1>3, <2>1
<1>5. ASSUME NEW v PROVE CountOf(ask.key, v) = Cardinality({y \in P : y[2][2].value = v})
  <2> DEFINE S == {j \in R : array[j].value = v}
             T == {y \in P : y[2][2].value = v}
  <2>1. IsFiniteSet(S)
    <3>1. IsFiniteSet(1..len) /\ S \subseteq 1..len
      BY FS_Interval DEF RowsOf, StoreInv, RowsInv
    <3> QED
      BY <3>1, FS_Subset
  <2>2. \A i, j \in S : f[i] = f[j] => i = j
    BY <1>2 DEF Account, RowsOf
  <2>3. CountOf(ask.key, v) = Cardinality(S)
    BY DEF CountOf
  <2>4. \A j \in S : f[j] \in T
    <3> HIDE DEF P, R
    <3> QED
      BY <1>3
  <2>5. \A y \in T : \E j \in S : f[j] = y
    <3> HIDE DEF P, R
    <3> QED
      BY <1>3
  <2> HIDE DEF S, T
  <2>6. Cardinality(S) = Cardinality(T)
    BY <2>1, <2>2, <2>4, <2>5, SameNumber
  <2> QED
    BY <2>3, <2>6 DEF T
<1>6. total = Cardinality({y[2][2].value : y \in P})
  BY <1>1, <1>4
<1> QED
  BY <1>1, <1>5, <1>6 DEF CountsStored

\* One who asks for the top values is told of at least as many as are shown, and when all
\* nodes have finished, of each value how often it was printed, under whichever spelling
\* of its key, and how many values there are in all: for any outputs, orders and pages
\* (analytics.go:143-183).
THEOREM TopAnswersAlwaysFit == Spec => []TopAnswersFit
<1>1. Init => StoreInv /\ AccountInv /\ TopInv
  <2>1. Init => TopInv
    BY DEF Init, TopInv, Settled
  <2> QED
    BY <2>1, InitStore, InitAccount
<1>2. StoreInv /\ AccountInv /\ TopInv /\ [Next]_vars => (StoreInv /\ AccountInv /\ TopInv)'
  BY NextStore, NextAccount, NextTop
<1> QED
  BY <1>1, <1>2, SettledAnswersFit, CountAlwaysCoversPage, PTL DEF Spec
=============================================================================

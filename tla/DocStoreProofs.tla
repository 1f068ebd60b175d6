--------------------------- MODULE DocStoreProofs ---------------------------
(***************************************************************************)
(* For any callers, checksums, columns and values, and any number of ids   *)
(* and faults: an index entry never names another document's row, a call   *)
(* that is alone on a row leaves the row and the index in agreement, and   *)
(* an update that is alone changes the one column it is given.             *)
(***************************************************************************)
EXTENDS DocStore, TLAPS

Agrees(i) == fts[i] = IF docs[i] = None THEN <<>> ELSE <<docs[i]>>

(* What is known of an id came after its insert. *)
UsedIds ==
    /\ \A i \in Ids : i > lastId => docs[i] = None /\ fts[i] = <<>>
    /\ \A c \in Callers : pc[c] \in OfOne => target[c] <= lastId

(* A caller that will store a row has it from the document it works on. *)
HandBelongs ==
    \A c \in Callers : pc[c] \in Storing /\ docs[target[c]] # None =>
        hand[c].sum = docs[target[c]].sum

(* Being alone on an id is what it says. *)
AloneInv ==
    \A c \in Callers :
        /\ alone[c] \subseteq Touches(c)
        /\ \A d \in Callers \ {c} : alone[c] \cap Touches(d) = {}

(* What a caller finds at its next statement about an id it is alone on. *)
Ready ==
    \A c \in Callers : \A i \in alone[c] :
        /\ pc[c] = "write" =>
              docs[i] # None /\ \A k, m \in Columns :
                  hand[c].cols[k] # docs[i].cols[k] /\ hand[c].cols[m] # docs[i].cols[m] => k = m
        /\ pc[c] \in {"unindex", "index"} => docs[i] = hand[c]
        /\ pc[c] \in {"index", "countRows", "backfill"} => fts[i] = <<>>
        /\ pc[c] \in {"drop", "dropAll"} => docs[i] = None

(* Callers that have not changed anything yet. *)
Quiet == {"write", "countIndex", "rebuild"}
SettledInv ==
    \A i \in Ids \ dirty :
        (\A c \in Callers : i \in Touches(c) => pc[c] \in Quiet) => Agrees(i)

IInv ==
    /\ TypeOK /\ UsedIds /\ EntryBelongs /\ HandBelongs
    /\ AloneInv /\ Ready /\ SettledInv

(* A step of one caller. *)
StepOf(c) ==
    \/ Insert(c) \/ Index(c)
    \/ ReadRow(c) \/ Write(c) \/ Unindex(c)
    \/ DeleteRow(c) \/ DropEntries(c)
    \/ PurgeRows(c) \/ DropAllEntries(c)
    \/ Open(c) \/ Rebuild(c) \/ CountIndex(c) \/ CountRows(c) \/ Backfill(c)
    \/ Fails(c)

-----------------------------------------------------------------------------

(* A call that begins keeps the types of the callers' variables. *)
LEMMA BeginTypes ==
    ASSUME TypeOK, NEW c \in Callers, NEW S \in SUBSET Ids,
           NEW place \in OfOne \cup OfAll, Begin(c, place, S)
    PROVE  /\ pc' \in [Callers -> {"idle"} \cup OfOne \cup OfAll]
           /\ alone' \in [Callers -> SUBSET Ids]
           /\ pc' = [pc EXCEPT ![c] = place]
  BY DEF TypeOK, Begin, Goto

(* So does one that ends. *)
LEMMA EndTypes ==
    ASSUME TypeOK, NEW c \in Callers, NEW S \in SUBSET Ids, NEW T \in SUBSET Ids,
           End(c, S, T)
    PROVE  /\ pc' \in [Callers -> {"idle"} \cup OfOne \cup OfAll]
           /\ target' \in [Callers -> Ids \cup {0}]
           /\ hand' \in [Callers -> Rows \cup {None}]
           /\ alone' \in [Callers -> SUBSET Ids]
           /\ dirty' \subseteq Ids
           /\ \A d \in Callers : /\ pc'[d] \in OfOne => target'[d] \in Ids
                                 /\ pc'[d] \in Storing => hand'[d] \in Rows
  BY DEF TypeOK, End, OfOne, Storing

LEMMA TouchesIds ==
    ASSUME TypeOK, NEW c \in Callers
    PROVE  Touches(c) \subseteq Ids
  BY DEF TypeOK, Touches, OfOne

LEMMA NewRowIsRow ==
    ASSUME NEW s \in Checksums
    PROVE  NewRow(s) \in Rows /\ NewRow(s).sum = s
  BY BlankAssumption DEF NewRow, Rows

(* A row with one column changed is a row of the same document. *)
LEMMA EditedRow ==
    ASSUME NEW r \in Rows, NEW k \in Columns, NEW v \in Values
    PROVE  /\ [r EXCEPT !.cols[k] = v] \in Rows
           /\ [r EXCEPT !.cols[k] = v].sum = r.sum
           /\ \A m \in Columns \ {k} : [r EXCEPT !.cols[k] = v].cols[m] = r.cols[m]
  BY DEF Rows

(* A row with the columns of another is that row when the document is the   *)
(* same.                                                                    *)
LEMMA WrittenRow ==
    ASSUME NEW r \in Rows, NEW h \in Rows
    PROVE  /\ [r EXCEPT !.cols = h.cols] \in Rows
           /\ [r EXCEPT !.cols = h.cols].sum = r.sum
           /\ [r EXCEPT !.cols = h.cols].cols = h.cols
           /\ r.sum = h.sum => [r EXCEPT !.cols = h.cols] = h
  BY DEF Rows

LEMMA NoneIsNoRow == None \notin Rows
  BY NoneAssumption DEF Rows

-----------------------------------------------------------------------------

(* A step of a caller keeps the types. *)
LEMMA TypeStep ==
    ASSUME TypeOK, NEW c \in Callers, StepOf(c)
    PROVE  TypeOK'
  <1> USE IdAssumption, FaultsAssumption
  <1>1. CASE Insert(c)
    <2>1. PICK s \in Checksums :
              /\ lastId < MaxId /\ Begin(c, "index", {lastId + 1})
              /\ docs' = [docs EXCEPT ![lastId + 1] = NewRow(s)]
              /\ lastId' = lastId + 1
              /\ target' = [target EXCEPT ![c] = lastId + 1]
              /\ hand' = [hand EXCEPT ![c] = NewRow(s)]
              /\ UNCHANGED <<fts, dirty, faults>>
        BY <1>1 DEF Insert
    <2>2. lastId + 1 \in Ids /\ lastId' \in 0 .. MaxId
        BY <2>1 DEF TypeOK, Ids
    <2>3. NewRow(s) \in Rows
        BY NewRowIsRow
    <2>4. /\ pc' \in [Callers -> {"idle"} \cup OfOne \cup OfAll]
          /\ alone' \in [Callers -> SUBSET Ids]
          /\ pc' = [pc EXCEPT ![c] = "index"]
        BY <2>1, <2>2, BeginTypes DEF OfOne
    <2> QED
        BY <2>1, <2>2, <2>3, <2>4 DEF TypeOK
  <1>2. CASE ReadRow(c)
    <2>1. PICK i \in Ids, k \in Columns, v \in Values :
              /\ docs[i] # None /\ Begin(c, "write", {i})
              /\ target' = [target EXCEPT ![c] = i]
              /\ hand' = [hand EXCEPT ![c] = [docs[i] EXCEPT !.cols[k] = v]]
              /\ UNCHANGED <<docs, fts, lastId, dirty, faults>>
        BY <1>2 DEF ReadRow
    <2>2. [docs[i] EXCEPT !.cols[k] = v] \in Rows
        BY <2>1, EditedRow DEF TypeOK
    <2>3. /\ pc' \in [Callers -> {"idle"} \cup OfOne \cup OfAll]
          /\ alone' \in [Callers -> SUBSET Ids]
          /\ pc' = [pc EXCEPT ![c] = "write"]
        BY <2>1, BeginTypes DEF OfOne
    <2> QED
        BY <2>1, <2>2, <2>3 DEF TypeOK
  <1>3. CASE DeleteRow(c)
    <2>1. PICK i \in 1 .. lastId :
              /\ Begin(c, "drop", {i})
              /\ docs' = [docs EXCEPT ![i] = None]
              /\ target' = [target EXCEPT ![c] = i]
              /\ UNCHANGED <<fts, lastId, hand, dirty, faults>>
        BY <1>3 DEF DeleteRow
    <2>2. i \in Ids
        BY DEF TypeOK, Ids
    <2>3. /\ pc' \in [Callers -> {"idle"} \cup OfOne \cup OfAll]
          /\ alone' \in [Callers -> SUBSET Ids]
          /\ pc' = [pc EXCEPT ![c] = "drop"]
        BY <2>1, <2>2, BeginTypes DEF OfOne
    <2> QED
        BY <2>1, <2>2, <2>3 DEF TypeOK, Storing
  <1>4. CASE PurgeRows(c) \/ Open(c)
    <2>1. PICK place \in OfAll : Begin(c, place, Ids)
        BY <1>4 DEF PurgeRows, Open, OfAll
    <2>2. /\ pc' \in [Callers -> {"idle"} \cup OfOne \cup OfAll]
          /\ alone' \in [Callers -> SUBSET Ids]
          /\ pc' = [pc EXCEPT ![c] = place]
        BY <2>1, BeginTypes
    <2>3. /\ docs' \in [Ids -> Rows \cup {None}] /\ faults' \in 0 .. MaxFaults
          /\ UNCHANGED <<fts, lastId, target, hand, dirty>>
        BY <1>4 DEF PurgeRows, Open, TypeOK
    <2> QED
        BY <2>2, <2>3 DEF TypeOK, OfOne, OfAll, Storing
  <1>5. CASE Write(c)
    <2>1. target[c] \in Ids /\ hand[c] \in Rows
        BY <1>5 DEF Write, TypeOK, OfOne, Storing
    <2>2. docs' \in [Ids -> Rows \cup {None}]
        BY <1>5, <2>1, WrittenRow DEF Write, TypeOK
    <2> QED
        BY <1>5, <2>1, <2>2 DEF Write, Goto, TypeOK, OfOne, Storing
  <1>6. CASE Unindex(c) \/ Rebuild(c)
    <2>1. fts' \in [Ids -> Seq(Rows)]
      <3>1. <<>> \in Seq(Rows)
          OBVIOUS
      <3>2. CASE Unindex(c)
          BY <3>1, <3>2 DEF Unindex, TypeOK
      <3>3. CASE Rebuild(c)
          BY <3>1, <3>3 DEF Rebuild
      <3> QED
          BY <1>6, <3>2, <3>3
    <2> QED
        BY <1>6, <2>1 DEF Unindex, Rebuild, Goto, TypeOK, OfOne, OfAll, Storing
  <1>7. CASE Index(c) \/ DropEntries(c) \/ DropAllEntries(c) \/ Backfill(c)
    <2>1. Touches(c) \subseteq Ids /\ Touches(c) \ alone[c] \subseteq Ids
        BY TouchesIds
    <2>2. End(c, Touches(c), Touches(c) \ alone[c]) /\ UNCHANGED <<docs, lastId, faults>>
        BY <1>7 DEF Index, DropEntries, DropAllEntries, Backfill, Done
    <2>3. CASE Index(c)
      <3>1. target[c] \in Ids /\ hand[c] \in Rows
          BY <2>3 DEF Index, TypeOK, OfOne, Storing
      <3>2. fts[target[c]] \in Seq(Rows)
          BY <3>1 DEF TypeOK
      <3>3. Append(fts[target[c]], hand[c]) \in Seq(Rows)
          BY <3>1, <3>2
      <3>4. fts' \in [Ids -> Seq(Rows)]
          BY <2>3, <3>3 DEF Index, TypeOK
      <3> QED
          BY <2>1, <2>2, <3>4, EndTypes DEF TypeOK
    <2>4. CASE DropEntries(c) \/ DropAllEntries(c)
      <3>1. fts' \in [Ids -> Seq(Rows)]
        <4>1. <<>> \in Seq(Rows)
            OBVIOUS
        <4>2. CASE DropEntries(c)
            BY <4>1, <4>2 DEF DropEntries, TypeOK
        <4>3. CASE DropAllEntries(c)
            BY <4>1, <4>3 DEF DropAllEntries
        <4> QED
            BY <2>4, <4>2, <4>3
      <3> QED
          BY <2>1, <2>2, <3>1, EndTypes DEF TypeOK
    <2>5. CASE Backfill(c)
      <3>1. fts' \in [Ids -> Seq(Rows)]
          BY <2>5 DEF Backfill, TypeOK
      <3> QED
          BY <2>1, <2>2, <3>1, EndTypes DEF TypeOK
    <2> QED
        BY <1>7, <2>3, <2>4, <2>5
  <1>8. CASE CountIndex(c) \/ CountRows(c)
    <2>1. CASE \E place \in OfAll : Goto(c, place) /\ UNCHANGED <<target, hand, alone, dirty>>
      <3> QED
          BY <1>8, <2>1 DEF CountIndex, CountRows, Goto, TypeOK, OfOne, OfAll, Storing
    <2>2. CASE End(c, {}, {}) \/ Done(c)
      <3>1. Touches(c) \subseteq Ids /\ Touches(c) \ alone[c] \subseteq Ids
          BY TouchesIds
      <3> QED
          BY <1>8, <2>2, <3>1, EndTypes DEF CountIndex, CountRows, Done, TypeOK
    <2> QED
        BY <1>8, <2>1, <2>2 DEF CountIndex, CountRows, OfAll
  <1>9. CASE Fails(c)
    <2>1. PICK S \in SUBSET Ids : End(c, {}, S)
        BY <1>9, TouchesIds DEF Fails
    <2>2. /\ faults' \in 0 .. MaxFaults
          /\ UNCHANGED <<docs, fts, lastId>>
        BY <1>9 DEF Fails, TypeOK
    <2>3. /\ pc' \in [Callers -> {"idle"} \cup OfOne \cup OfAll]
          /\ target' \in [Callers -> Ids \cup {0}]
          /\ hand' \in [Callers -> Rows \cup {None}]
          /\ alone' \in [Callers -> SUBSET Ids]
          /\ dirty' \subseteq Ids
          /\ \A d \in Callers : /\ pc'[d] \in OfOne => target'[d] \in Ids
                                /\ pc'[d] \in Storing => hand'[d] \in Rows
        BY <2>1, EndTypes
    <2> QED
        BY <2>2, <2>3 DEF TypeOK
  <1> QED
      BY <1>1, <1>2, <1>3, <1>4, <1>5, <1>6, <1>7, <1>8, <1>9 DEF StepOf

-----------------------------------------------------------------------------

(* A step of a caller leaves the others where they are. *)
LEMMA OthersStay ==
    ASSUME TypeOK, NEW c \in Callers, StepOf(c), NEW d \in Callers \ {c}
    PROVE  /\ pc'[d] = pc[d] /\ target'[d] = target[d] /\ hand'[d] = hand[d]
           /\ Touches(d)' = Touches(d)
  <1>1. pc'[d] = pc[d]
      BY DEF StepOf, TypeOK, Insert, Index, ReadRow, Write, Unindex, DeleteRow,
             DropEntries, PurgeRows, DropAllEntries, Open, Rebuild, CountIndex,
             CountRows, Backfill, Fails, Begin, Done, End, Goto
  <1>2. target'[d] = target[d]
      BY DEF StepOf, TypeOK, Insert, Index, ReadRow, Write, Unindex, DeleteRow,
             DropEntries, PurgeRows, DropAllEntries, Open, Rebuild, CountIndex,
             CountRows, Backfill, Fails, Begin, Done, End, Goto
  <1>3. hand'[d] = hand[d]
      BY DEF StepOf, TypeOK, Insert, Index, ReadRow, Write, Unindex, DeleteRow,
             DropEntries, PurgeRows, DropAllEntries, Open, Rebuild, CountIndex,
             CountRows, Backfill, Fails, Begin, Done, End, Goto
  <1> QED
      BY <1>1, <1>2, <1>3 DEF Touches

(* A step begins a call, or goes on with it, or ends it. *)
Begins(c, S) ==
    /\ pc[c] = "idle"
    /\ alone' = [d \in Callers |->
                    IF d = c THEN S \ UNION {Touches(e) : e \in Callers} ELSE alone[d] \ S]
GoesOn(c) == alone' = alone
Ends(c)   == alone' = [alone EXCEPT ![c] = {}]

LEMMA Phases ==
    ASSUME TypeOK, NEW c \in Callers, StepOf(c)
    PROVE  \/ Touches(c)' \subseteq Ids /\ Begins(c, Touches(c)')
           \/ Touches(c)' = Touches(c) /\ GoesOn(c)
           \/ Touches(c)' = {} /\ Ends(c)
  <1>1. CASE Insert(c)
    <2>1. /\ Begin(c, "index", {lastId + 1})
          /\ target' = [target EXCEPT ![c] = lastId + 1]
          /\ lastId < MaxId
        BY <1>1 DEF Insert
    <2>2. Touches(c)' = {lastId + 1} /\ lastId + 1 \in Ids
        BY <2>1, IdAssumption DEF Begin, Goto, Touches, OfOne, TypeOK, Ids
    <2> QED
        BY <2>1, <2>2 DEF Begin, Begins
  <1>2. CASE ReadRow(c) \/ DeleteRow(c)
    <2>1. PICK i \in Ids, place \in {"write", "drop"} :
              Begin(c, place, {i}) /\ target' = [target EXCEPT ![c] = i]
      <3>1. CASE ReadRow(c)
          BY <3>1 DEF ReadRow
      <3>2. CASE DeleteRow(c)
        <4>1. 1 .. lastId \subseteq Ids
            BY IdAssumption DEF TypeOK, Ids
        <4> QED
            BY <3>2, <4>1 DEF DeleteRow
      <3> QED
          BY <1>2, <3>1, <3>2
    <2>2. Touches(c)' = {i}
        BY <2>1 DEF Begin, Goto, Touches, OfOne, TypeOK
    <2> QED
        BY <2>1, <2>2 DEF Begin, Begins
  <1>3. CASE PurgeRows(c) \/ Open(c)
    <2>1. PICK place \in {"dropAll", "countIndex", "rebuild"} : Begin(c, place, Ids)
        BY <1>3 DEF PurgeRows, Open
    <2>2. Touches(c)' = Ids
        BY <2>1 DEF Begin, Goto, Touches, OfOne, OfAll, TypeOK
    <2> QED
        BY <2>1, <2>2 DEF Begin, Begins
  <1>4. CASE Write(c) \/ Unindex(c) \/ Rebuild(c)
      BY <1>4 DEF Write, Unindex, Rebuild, Goto, Touches, OfOne, OfAll, TypeOK, GoesOn
  <1>5. ASSUME NEW S, NEW T, End(c, S, T)
        PROVE  Touches(c)' = {} /\ Ends(c)
      BY <1>5 DEF End, Touches, OfOne, OfAll, TypeOK, Ends
  <1>6. CASE Index(c) \/ DropEntries(c) \/ DropAllEntries(c) \/ Backfill(c) \/ Fails(c)
      BY <1>5, <1>6 DEF Index, DropEntries, DropAllEntries, Backfill, Fails, Done
  <1>7. CASE CountIndex(c)
    <2>1. CASE \A i \in Ids : fts[i] = <<>>
        BY <1>7, <2>1 DEF CountIndex, Goto, Touches, OfOne, OfAll, TypeOK, GoesOn
    <2>2. CASE ~ \A i \in Ids : fts[i] = <<>>
        BY <1>7, <2>2, <1>5 DEF CountIndex
    <2> QED
        BY <2>1, <2>2
  <1>8. CASE CountRows(c)
    <2>1. CASE \E i \in Ids : docs[i] # None
        BY <1>8, <2>1 DEF CountRows, Goto, Touches, OfOne, OfAll, TypeOK, GoesOn
    <2>2. CASE ~ \E i \in Ids : docs[i] # None
        BY <1>8, <2>2, <1>5 DEF CountRows, Done
    <2> QED
        BY <2>1, <2>2
  <1> QED
      BY <1>1, <1>2, <1>3, <1>4, <1>6, <1>7, <1>8 DEF StepOf

(* Being alone on an id stays what it says. *)
LEMMA AloneStep ==
    ASSUME TypeOK, AloneInv, NEW c \in Callers, StepOf(c)
    PROVE  AloneInv'
  <1> SUFFICES ASSUME NEW a \in Callers, NEW b \in Callers
               PROVE  /\ alone'[a] \subseteq Touches(a)'
                      /\ b # a => alone'[a] \cap Touches(b)' = {}
      BY DEF AloneInv
  <1>1. /\ alone[a] \subseteq Touches(a) /\ alone[b] \subseteq Touches(b)
        /\ b # a => alone[a] \cap Touches(b) = {} /\ alone[b] \cap Touches(a) = {}
      BY DEF AloneInv
  <1>2. \A d \in Callers \ {c} : Touches(d)' = Touches(d)
      BY OthersStay
  <1>3. CASE Begins(c, Touches(c)')
    <2> DEFINE busy == UNION {Touches(e) : e \in Callers}
    <2>1. Touches(a) \subseteq busy /\ Touches(b) \subseteq busy
        OBVIOUS
    <2>2. /\ alone'[c] = Touches(c)' \ busy
          /\ \A d \in Callers \ {c} : alone'[d] = alone[d] \ Touches(c)'
        BY <1>3 DEF Begins
    <2> HIDE DEF busy
    <2> QED
        BY <1>1, <1>2, <2>1, <2>2
  <1>4. CASE Touches(c)' = Touches(c) /\ GoesOn(c)
      BY <1>1, <1>2, <1>4 DEF GoesOn
  <1>5. CASE Touches(c)' = {} /\ Ends(c)
      BY <1>1, <1>2, <1>5 DEF Ends, TypeOK
  <1> QED
      BY <1>3, <1>4, <1>5, Phases

-----------------------------------------------------------------------------

(* What the calls that begin with a row do to the tables. *)
LEMMA InsertEffect ==
    ASSUME TypeOK, NEW c \in Callers, Insert(c)
    PROVE  \E s \in Checksums :
               /\ lastId + 1 \in Ids /\ lastId' = lastId + 1
               /\ docs'[lastId + 1] = NewRow(s)
               /\ \A j \in Ids \ {lastId + 1} : docs'[j] = docs[j]
               /\ pc'[c] = "index" /\ target'[c] = lastId + 1 /\ hand'[c] = NewRow(s)
               /\ UNCHANGED <<fts, dirty>>
  <1>1. PICK s \in Checksums :
            /\ lastId < MaxId /\ Begin(c, "index", {lastId + 1})
            /\ docs' = [docs EXCEPT ![lastId + 1] = NewRow(s)]
            /\ lastId' = lastId + 1
            /\ target' = [target EXCEPT ![c] = lastId + 1]
            /\ hand' = [hand EXCEPT ![c] = NewRow(s)]
            /\ UNCHANGED <<fts, dirty, faults>>
      BY DEF Insert
  <1>2. lastId + 1 \in Ids
      BY <1>1, IdAssumption DEF TypeOK, Ids
  <1>3. pc'[c] = "index"
      BY <1>1 DEF Begin, Goto, TypeOK
  <1> QED
      BY <1>1, <1>2, <1>3 DEF TypeOK

LEMMA ReadEffect ==
    ASSUME TypeOK, NEW c \in Callers, ReadRow(c)
    PROVE  \E i \in Ids, k \in Columns, v \in Values :
               /\ docs[i] \in Rows
               /\ pc'[c] = "write" /\ target'[c] = i
               /\ hand'[c] = [docs[i] EXCEPT !.cols[k] = v]
               /\ UNCHANGED <<docs, fts, lastId, dirty>>
  <1>1. PICK i \in Ids, k \in Columns, v \in Values :
            /\ docs[i] # None /\ Begin(c, "write", {i})
            /\ target' = [target EXCEPT ![c] = i]
            /\ hand' = [hand EXCEPT ![c] = [docs[i] EXCEPT !.cols[k] = v]]
            /\ UNCHANGED <<docs, fts, lastId, dirty, faults>>
      BY DEF ReadRow
  <1>2. docs[i] \in Rows
      BY <1>1 DEF TypeOK
  <1>3. pc'[c] = "write"
      BY <1>1 DEF Begin, Goto, TypeOK
  <1> QED
      BY <1>1, <1>2, <1>3 DEF TypeOK

LEMMA DeleteEffect ==
    ASSUME TypeOK, NEW c \in Callers, DeleteRow(c)
    PROVE  \E i \in Ids :
               /\ i <= lastId
               /\ docs' = [docs EXCEPT ![i] = None]
               /\ pc'[c] = "drop" /\ target'[c] = i
               /\ UNCHANGED <<fts, lastId, dirty>>
  <1>1. PICK i \in 1 .. lastId :
            /\ Begin(c, "drop", {i})
            /\ docs' = [docs EXCEPT ![i] = None]
            /\ target' = [target EXCEPT ![c] = i]
            /\ UNCHANGED <<fts, lastId, hand, dirty, faults>>
      BY DEF DeleteRow
  <1>2. i \in Ids /\ i <= lastId
      BY IdAssumption DEF TypeOK, Ids
  <1>3. pc'[c] = "drop" /\ target'[c] = i
      BY <1>1 DEF Begin, Goto, TypeOK
  <1> QED
      BY <1>1, <1>2, <1>3

LEMMA WriteEffect ==
    ASSUME TypeOK, NEW c \in Callers, Write(c)
    PROVE  /\ target[c] \in Ids /\ hand[c] \in Rows
           /\ \A i \in Ids : docs'[i] # None => docs[i] # None /\ docs'[i].sum = docs[i].sum
           /\ \A i \in Ids \ {target[c]} : docs'[i] = docs[i]
           /\ docs[target[c]] = None => docs'[target[c]] = None
           /\ docs[target[c]] # None =>
                  /\ docs'[target[c]] \in Rows
                  /\ docs'[target[c]].cols = hand[c].cols
                  /\ docs[target[c]].sum = hand[c].sum => docs'[target[c]] = hand[c]
           /\ pc[c] = "write" /\ pc'[c] = "unindex"
           /\ UNCHANGED <<fts, lastId, target, hand, alone, dirty>>
  <1>1. target[c] \in Ids /\ hand[c] \in Rows
      BY DEF Write, TypeOK, OfOne, Storing
  <1>2. CASE docs[target[c]] = None
      BY <1>1, <1>2 DEF Write, Goto, TypeOK
  <1>3. CASE docs[target[c]] # None
    <2> DEFINE r == docs[target[c]]
               h == hand[c]
               w == [r EXCEPT !.cols = h.cols]
    <2>1. r \in Rows
        BY <1>1, <1>3 DEF TypeOK
    <2>2. w \in Rows /\ w.sum = r.sum /\ w.cols = h.cols /\ (r.sum = h.sum => w = h)
        BY <1>1, <2>1, WrittenRow
    <2>3. docs' = [docs EXCEPT ![target[c]] = w]
        BY <1>3 DEF Write
    <2>4. docs'[target[c]] = w /\ \A i \in Ids \ {target[c]} : docs'[i] = docs[i]
        BY <1>1, <2>3 DEF TypeOK
    <2>5. /\ pc[c] = "write" /\ pc'[c] = "unindex"
          /\ UNCHANGED <<fts, lastId, target, hand, alone, dirty>>
        BY DEF Write, Goto, TypeOK
    <2> HIDE DEF w
    <2> QED
        BY <1>1, <1>3, <2>2, <2>4, <2>5
  <1> QED
      BY <1>2, <1>3

-----------------------------------------------------------------------------

(* The calls that drop or fill the index, and those that only look. *)
Clearing(c) == Unindex(c) \/ DropEntries(c) \/ DropAllEntries(c) \/ Rebuild(c)
Looking(c)  == Open(c) \/ CountIndex(c) \/ CountRows(c) \/ Fails(c)

LEMMA ClearEffect ==
    ASSUME TypeOK, NEW c \in Callers, Clearing(c)
    PROVE  /\ \A i \in Ids : fts'[i] = IF i \in Touches(c) THEN <<>> ELSE fts[i]
           /\ docs' = docs /\ lastId' = lastId
           /\ pc'[c] \in OfOne \cup {"idle", "countIndex"}
           /\ pc'[c] \in OfOne => /\ pc[c] = "unindex" /\ pc'[c] = "index"
                                  /\ target'[c] = target[c] /\ hand'[c] = hand[c]
  <1>1. CASE Unindex(c)
      BY <1>1 DEF Unindex, Goto, TypeOK, OfOne, Touches
  <1>2. CASE DropEntries(c)
      BY <1>2 DEF DropEntries, Done, End, TypeOK, OfOne, Touches
  <1>3. CASE DropAllEntries(c)
      BY <1>3 DEF DropAllEntries, Done, End, TypeOK, OfOne, OfAll, Touches
  <1>4. CASE Rebuild(c)
      BY <1>4 DEF Rebuild, Goto, TypeOK, OfOne, OfAll, Touches
  <1> QED
      BY <1>1, <1>2, <1>3, <1>4 DEF Clearing

LEMMA LookEffect ==
    ASSUME TypeOK, NEW c \in Callers, Looking(c)
    PROVE  UNCHANGED <<docs, fts, lastId>> /\ pc'[c] \in OfAll \cup {"idle"}
  <1>1. CASE Open(c)
      BY <1>1 DEF Open, Begin, Goto, TypeOK, OfAll
  <1>2. CASE CountIndex(c)
      BY <1>2 DEF CountIndex, End, Goto, TypeOK, OfAll
  <1>3. CASE CountRows(c)
      BY <1>3 DEF CountRows, Done, End, Goto, TypeOK, OfAll
  <1>4. CASE Fails(c)
      BY <1>4 DEF Fails, End, TypeOK
  <1> QED
      BY <1>1, <1>2, <1>3, <1>4 DEF Looking

LEMMA IndexEffect ==
    ASSUME TypeOK, NEW c \in Callers, Index(c)
    PROVE  /\ pc[c] = "index" /\ target[c] \in Ids /\ hand[c] \in Rows
           /\ fts'[target[c]] = Append(fts[target[c]], hand[c])
           /\ \A i \in Ids \ {target[c]} : fts'[i] = fts[i]
           /\ docs' = docs /\ lastId' = lastId /\ pc'[c] = "idle"
  BY DEF Index, Done, End, TypeOK, OfOne, Storing

LEMMA BackfillEffect ==
    ASSUME TypeOK, NEW c \in Callers, Backfill(c)
    PROVE  /\ pc[c] = "backfill"
           /\ \A i \in Ids : fts'[i] = IF docs[i] # None THEN Append(fts[i], docs[i]) ELSE fts[i]
           /\ docs' = docs /\ lastId' = lastId /\ pc'[c] = "idle"
  BY DEF Backfill, Done, End, TypeOK

LEMMA PurgeEffect ==
    ASSUME TypeOK, NEW c \in Callers, PurgeRows(c)
    PROVE  /\ \A i \in Ids : docs'[i] = None
           /\ pc'[c] = "dropAll"
           /\ UNCHANGED <<fts, lastId, dirty>>
  BY DEF PurgeRows, Begin, Goto, TypeOK

(* Nothing is known of an id before its insert. *)
LEMMA UsedStep ==
    ASSUME TypeOK, UsedIds, NEW c \in Callers, StepOf(c)
    PROVE  UsedIds'
  <1> USE IdAssumption
  <1>1. lastId \in Int /\ \A i \in Ids : i \in Int
      BY DEF TypeOK, Ids
  <1>2. \A d \in Callers \ {c} : pc'[d] = pc[d] /\ target'[d] = target[d]
      BY OthersStay
  <1>3. ASSUME lastId' >= lastId, lastId' \in Int,
               \A i \in Ids : i > lastId' => docs'[i] = None /\ fts'[i] = <<>>,
               pc'[c] \in OfOne => target'[c] <= lastId'
        PROVE  UsedIds'
    <2>1. \A d \in Callers : pc'[d] \in OfOne => target'[d] <= lastId'
      <3> SUFFICES ASSUME NEW d \in Callers \ {c}, pc'[d] \in OfOne
                   PROVE  target'[d] <= lastId'
          BY <1>3
      <3>1. target[d] \in Ids /\ target[d] <= lastId
          BY <1>2 DEF UsedIds, TypeOK
      <3> QED
          BY <1>1, <1>2, <1>3, <3>1
    <2> QED
        BY <1>3, <2>1 DEF UsedIds
  <1>4. CASE Insert(c)
    <2>1. /\ lastId' = lastId + 1 /\ fts' = fts /\ target'[c] = lastId + 1
          /\ \A j \in Ids \ {lastId + 1} : docs'[j] = docs[j]
        BY <1>4, InsertEffect
    <2> QED
        BY <1>1, <1>3, <2>1 DEF UsedIds
  <1>5. CASE ReadRow(c)
    <2>1. PICK i \in Ids : /\ docs[i] \in Rows /\ target'[c] = i
                           /\ UNCHANGED <<docs, fts, lastId>>
        BY <1>5, ReadEffect
    <2>2. i <= lastId
        BY <1>1, <2>1, NoneIsNoRow DEF UsedIds
    <2> QED
        BY <1>1, <1>3, <2>1, <2>2 DEF UsedIds
  <1>6. CASE DeleteRow(c)
    <2>1. PICK i \in Ids : /\ i <= lastId /\ target'[c] = i
                           /\ docs' = [docs EXCEPT ![i] = None]
                           /\ UNCHANGED <<fts, lastId>>
        BY <1>6, DeleteEffect
    <2> QED
        BY <1>1, <1>3, <2>1 DEF UsedIds, TypeOK
  <1>7. CASE Write(c)
    <2>1. /\ target' = target /\ fts' = fts /\ lastId' = lastId /\ pc[c] = "write"
          /\ \A i \in Ids : docs'[i] # None => docs[i] # None
        BY <1>7, WriteEffect
    <2> QED
        BY <1>1, <1>3, <2>1 DEF UsedIds, OfOne
  <1>8. CASE Index(c)
    <2>1. target[c] <= lastId
        BY <1>8, IndexEffect DEF UsedIds, OfOne
    <2> QED
        BY <1>1, <1>3, <1>8, <2>1, IndexEffect DEF UsedIds, OfOne
  <1>9. CASE Clearing(c)
    <2>1. pc'[c] \in OfOne => target'[c] <= lastId
        BY <1>9, ClearEffect DEF UsedIds, OfOne
    <2> QED
        BY <1>1, <1>3, <1>9, <2>1, ClearEffect DEF UsedIds
  <1>10. CASE Looking(c)
      BY <1>1, <1>3, <1>10, LookEffect DEF UsedIds, OfOne, OfAll
  <1>11. CASE Backfill(c)
      BY <1>1, <1>3, <1>11, BackfillEffect DEF UsedIds, OfOne
  <1>12. CASE PurgeRows(c)
      BY <1>1, <1>3, <1>12, PurgeEffect DEF UsedIds, OfOne
  <1> QED
      BY <1>4, <1>5, <1>6, <1>7, <1>8, <1>9, <1>10, <1>11, <1>12
      DEF StepOf, Clearing, Looking

-----------------------------------------------------------------------------

(* A row keeps its document for as long as it is there. *)
LEMMA SumKept ==
    ASSUME TypeOK, UsedIds, NEW c \in Callers, StepOf(c)
    PROVE  \A i \in Ids : i <= lastId /\ docs'[i] # None =>
               docs[i] # None /\ docs'[i].sum = docs[i].sum
  <1>1. CASE Insert(c)
    <2>1. lastId \in Int /\ \A j \in Ids \ {lastId + 1} : docs'[j] = docs[j]
        BY <1>1, InsertEffect DEF TypeOK
    <2> QED
        BY <2>1 DEF Ids
  <1>2. CASE ReadRow(c) \/ Index(c) \/ Backfill(c) \/ Clearing(c) \/ Looking(c)
    <2>1. docs' = docs
        BY <1>2, ReadEffect, IndexEffect, BackfillEffect, ClearEffect, LookEffect
    <2> QED
        BY <2>1
  <1>3. CASE DeleteRow(c)
      BY <1>3, DeleteEffect DEF TypeOK
  <1>4. CASE Write(c)
      BY <1>4, WriteEffect
  <1>5. CASE PurgeRows(c)
      BY <1>5, PurgeEffect
  <1> QED
      BY <1>1, <1>2, <1>3, <1>4, <1>5 DEF StepOf, Clearing, Looking

(* What a caller has in hand stays of the document it works on. *)
LEMMA HandStep ==
    ASSUME TypeOK, UsedIds, HandBelongs, NEW c \in Callers, StepOf(c)
    PROVE  HandBelongs'
  <1>1. ASSUME NEW d \in Callers \ {c}, pc'[d] \in Storing, docs'[target'[d]] # None
        PROVE  hand'[d].sum = docs'[target'[d]].sum
    <2>1. pc'[d] = pc[d] /\ target'[d] = target[d] /\ hand'[d] = hand[d]
        BY OthersStay
    <2>2. target[d] \in Ids /\ target[d] <= lastId
        BY <1>1, <2>1 DEF TypeOK, UsedIds, Storing, OfOne
    <2>3. docs[target[d]] # None /\ docs'[target[d]].sum = docs[target[d]].sum
        BY <1>1, <2>1, <2>2, SumKept
    <2> QED
        BY <1>1, <2>1, <2>3 DEF HandBelongs
  <1>2. ASSUME pc'[c] \in Storing, docs'[target'[c]] # None
        PROVE  hand'[c].sum = docs'[target'[c]].sum
    <2>1. CASE Insert(c)
        BY <2>1, InsertEffect
    <2>2. CASE ReadRow(c)
      <3>1. PICK i \in Ids, k \in Columns, v \in Values :
                /\ docs[i] \in Rows
                /\ pc'[c] = "write" /\ target'[c] = i
                /\ hand'[c] = [docs[i] EXCEPT !.cols[k] = v]
                /\ UNCHANGED <<docs, fts, lastId, dirty>>
          BY <2>2, ReadEffect
      <3>2. [docs[i] EXCEPT !.cols[k] = v].sum = docs[i].sum
          BY <3>1, EditedRow
      <3> QED
          BY <3>1, <3>2
    <2>3. CASE Write(c)
      <3>1. /\ pc[c] = "write" /\ target'[c] = target[c] /\ hand'[c] = hand[c]
            /\ target[c] \in Ids
          BY <2>3, WriteEffect
      <3>2. docs[target[c]] # None /\ docs'[target[c]].sum = docs[target[c]].sum
          BY <1>2, <2>3, <3>1, WriteEffect
      <3> QED
          BY <3>1, <3>2 DEF HandBelongs, Storing
    <2>4. CASE Clearing(c)
      <3>1. /\ pc[c] = "unindex" /\ target'[c] = target[c] /\ hand'[c] = hand[c]
            /\ docs' = docs
          BY <1>2, <2>4, ClearEffect DEF Storing, OfOne
      <3> QED
          BY <1>2, <3>1 DEF HandBelongs, Storing
    <2>5. pc'[c] \notin Storing \/ Insert(c) \/ ReadRow(c) \/ Write(c) \/ Clearing(c)
      <3>1. CASE Looking(c)
          BY <3>1, LookEffect DEF Storing, OfAll
      <3>2. CASE DeleteRow(c) \/ PurgeRows(c) \/ Index(c) \/ Backfill(c)
          BY <3>2, DeleteEffect, PurgeEffect, IndexEffect, BackfillEffect DEF Storing
      <3> QED
          BY <3>1, <3>2 DEF StepOf, Clearing, Looking
    <2> QED
        BY <1>2, <2>1, <2>2, <2>3, <2>4, <2>5
  <1> QED
      BY <1>1, <1>2 DEF HandBelongs

(* An entry that is added is a copy of a row of its document. *)
LEMMA AppendedEntries ==
    ASSUME NEW q \in Seq(Rows), NEW r \in Rows, NEW s,
           r.sum = s, \A n \in 1 .. Len(q) : q[n].sum = s
    PROVE  \A n \in 1 .. Len(Append(q, r)) : Append(q, r)[n].sum = s
  OBVIOUS

(* Entries stay of the document they are joined with. *)
LEMMA EntryStep ==
    ASSUME TypeOK, UsedIds, HandBelongs, EntryBelongs, NEW c \in Callers, StepOf(c)
    PROVE  EntryBelongs'
  <1> SUFFICES ASSUME NEW i \in Ids, docs'[i] # None
               PROVE  \A n \in 1 .. Len(fts'[i]) : fts'[i][n].sum = docs'[i].sum
      BY DEF EntryBelongs
  <1>1. fts[i] \in Seq(Rows) /\ lastId \in Int /\ i \in Int
      BY DEF TypeOK, Ids
  <1>2. ASSUME i > lastId
        PROVE  \A n \in 1 .. Len(fts'[i]) : fts'[i][n].sum = docs'[i].sum
    <2>1. docs[i] = None /\ fts[i] = <<>>
        BY <1>2 DEF UsedIds
    <2>2. Insert(c)
      <3>1. docs'[i] # docs[i]
          BY <2>1
      <3>2. ~DeleteRow(c) /\ ~PurgeRows(c)
          BY <3>1, <2>1, DeleteEffect, PurgeEffect DEF TypeOK
      <3>3. ~Write(c)
          BY <2>1, WriteEffect
      <3>4. ~ReadRow(c) /\ ~Index(c) /\ ~Backfill(c) /\ ~Clearing(c) /\ ~Looking(c)
          BY <3>1, ReadEffect, IndexEffect, BackfillEffect, ClearEffect, LookEffect
      <3> QED
          BY <3>2, <3>3, <3>4 DEF StepOf, Clearing, Looking
    <2>3. fts'[i] = <<>>
        BY <2>1, <2>2, InsertEffect
    <2> QED
        BY <2>3
  <1>3. ASSUME i <= lastId
        PROVE  \A n \in 1 .. Len(fts'[i]) : fts'[i][n].sum = docs'[i].sum
    <2>1. docs[i] # None /\ docs'[i].sum = docs[i].sum
        BY <1>3, SumKept
    <2>2. \A n \in 1 .. Len(fts[i]) : fts[i][n].sum = docs'[i].sum
        BY <2>1 DEF EntryBelongs
    <2>3. CASE fts'[i] = fts[i] \/ fts'[i] = <<>>
        BY <2>2, <2>3
    <2>4. CASE Index(c) /\ i = target[c]
      <3>1. hand[c] \in Rows /\ hand[c].sum = docs'[i].sum /\ fts'[i] = Append(fts[i], hand[c])
          BY <2>1, <2>4, IndexEffect DEF HandBelongs, Storing
      <3> QED
          BY <1>1, <2>2, <3>1, AppendedEntries
    <2>5. CASE Backfill(c)
      <3>1. docs[i] \in Rows /\ fts'[i] = Append(fts[i], docs[i])
          BY <2>1, <2>5, BackfillEffect DEF TypeOK
      <3> QED
          BY <1>1, <2>1, <2>2, <3>1, AppendedEntries
    <2>6. fts'[i] = fts[i] \/ fts'[i] = <<>> \/ Backfill(c) \/ (Index(c) /\ i = target[c])
      <3>1. CASE Clearing(c)
          BY <3>1, ClearEffect
      <3>2. CASE Looking(c) \/ Insert(c) \/ ReadRow(c) \/ Write(c) \/ DeleteRow(c) \/ PurgeRows(c)
          BY <3>2, LookEffect, InsertEffect, ReadEffect, WriteEffect, DeleteEffect, PurgeEffect
      <3>3. CASE Index(c)
          BY <3>3, IndexEffect
      <3> QED
          BY <3>1, <3>2, <3>3 DEF StepOf, Clearing, Looking
    <2> QED
        BY <2>3, <2>4, <2>5, <2>6
  <1> QED
      BY <1>1, <1>2, <1>3

-----------------------------------------------------------------------------

(* A call changes nothing outside of the ids it is said to work on. *)
LEMMA LocalEffect ==
    ASSUME TypeOK, UsedIds, NEW c \in Callers, StepOf(c), NEW i \in Ids,
           i \notin Touches(c), i \notin Touches(c)'
    PROVE  docs'[i] = docs[i] /\ fts'[i] = fts[i]
  <1>1. CASE Insert(c)
      BY <1>1, InsertEffect DEF Touches, OfOne
  <1>2. CASE ReadRow(c) \/ Looking(c)
      BY <1>2, ReadEffect, LookEffect
  <1>3. CASE DeleteRow(c)
    <2>1. PICK j \in Ids : /\ docs' = [docs EXCEPT ![j] = None]
                           /\ pc'[c] = "drop" /\ target'[c] = j /\ fts' = fts
        BY <1>3, DeleteEffect
    <2> QED
        BY <2>1 DEF Touches, OfOne, TypeOK
  <1>4. CASE PurgeRows(c)
      BY <1>4, PurgeEffect DEF Touches, OfOne, OfAll
  <1>5. CASE Write(c)
      BY <1>5, WriteEffect DEF Touches, OfOne
  <1>6. CASE Index(c)
      BY <1>6, IndexEffect DEF Touches, OfOne
  <1>7. CASE Backfill(c)
      BY <1>7, BackfillEffect DEF Touches, OfOne, OfAll
  <1>8. CASE Clearing(c)
      BY <1>8, ClearEffect
  <1> QED
      BY <1>1, <1>2, <1>3, <1>4, <1>5, <1>6, <1>7, <1>8 DEF StepOf, Clearing, Looking

(* Ready, for one caller and one id. *)
ReadyFor(c, i) ==
    /\ pc[c] = "write" =>
          docs[i] # None /\ \A k, m \in Columns :
              hand[c].cols[k] # docs[i].cols[k] /\ hand[c].cols[m] # docs[i].cols[m] => k = m
    /\ pc[c] \in {"unindex", "index"} => docs[i] = hand[c]
    /\ pc[c] \in {"index", "countRows", "backfill"} => fts[i] = <<>>
    /\ pc[c] \in {"drop", "dropAll"} => docs[i] = None

LEMMA ReadyIsFor == Ready <=> \A c \in Callers : \A i \in alone[c] : ReadyFor(c, i)
  BY DEF Ready, ReadyFor

(* A caller that is alone finds what it has left, and the others, which are *)
(* not touched, too.                                                        *)
LEMMA ReadyStep ==
    ASSUME TypeOK, UsedIds, HandBelongs, AloneInv, AloneInv', Ready,
           NEW c \in Callers, StepOf(c)
    PROVE  Ready'
  <1> SUFFICES ASSUME NEW a \in Callers, NEW i \in alone'[a]
               PROVE  ReadyFor(a, i)'
      BY ReadyIsFor DEF Ready, ReadyFor
  <1>1. CASE a # c
    <2>1. i \in alone[a]
      <3>1. CASE Begins(c, Touches(c)')
          BY <1>1, <3>1 DEF Begins
      <3>2. CASE GoesOn(c)
          BY <3>2 DEF GoesOn
      <3>3. CASE Ends(c)
          BY <1>1, <3>3 DEF Ends, TypeOK
      <3> QED
          BY <3>1, <3>2, <3>3, Phases
    <2>2. i \in Ids /\ i \notin Touches(c) /\ i \notin Touches(c)'
        BY <1>1, <2>1 DEF AloneInv, TypeOK
    <2>3. docs'[i] = docs[i] /\ fts'[i] = fts[i]
        BY <2>2, LocalEffect
    <2>4. pc'[a] = pc[a] /\ hand'[a] = hand[a]
        BY <1>1, OthersStay
    <2>5. ReadyFor(a, i)
        BY <2>1, ReadyIsFor
    <2> QED
        BY <2>3, <2>4, <2>5 DEF ReadyFor
  <1>2. CASE a = c
    <2>1. i \in Touches(c)'
        BY <1>2 DEF AloneInv
    <2>2. i \in Ids
        BY <2>1, TouchesIds, Phases
    <2>3. CASE Insert(c)
      <3>1. PICK s \in Checksums :
                /\ lastId + 1 \in Ids /\ lastId' = lastId + 1
                /\ docs'[lastId + 1] = NewRow(s)
                /\ \A j \in Ids \ {lastId + 1} : docs'[j] = docs[j]
                /\ pc'[c] = "index" /\ target'[c] = lastId + 1 /\ hand'[c] = NewRow(s)
                /\ UNCHANGED <<fts, dirty>>
          BY <2>3, InsertEffect
      <3>2. i = lastId + 1
          BY <2>1, <3>1 DEF Touches, OfOne
      <3>3. fts[i] = <<>>
          BY <2>2, <3>2 DEF UsedIds, TypeOK
      <3> QED
          BY <1>2, <3>1, <3>2, <3>3 DEF ReadyFor
    <2>4. CASE ReadRow(c)
      <3>1. PICK j \in Ids, k \in Columns, v \in Values :
                /\ docs[j] \in Rows
                /\ pc'[c] = "write" /\ target'[c] = j
                /\ hand'[c] = [docs[j] EXCEPT !.cols[k] = v]
                /\ UNCHANGED <<docs, fts, lastId, dirty>>
          BY <2>4, ReadEffect
      <3>2. i = j
          BY <2>1, <3>1 DEF Touches, OfOne
      <3>3. \A m \in Columns \ {k} : hand'[c].cols[m] = docs[i].cols[m]
          BY <3>1, <3>2, EditedRow
      <3>4. docs'[i] # None /\ docs' = docs
          BY <3>1, <3>2, NoneIsNoRow
      <3> QED
          BY <1>2, <3>1, <3>3, <3>4 DEF ReadyFor
    <2>5. CASE DeleteRow(c)
      <3>1. PICK j \in Ids : /\ docs' = [docs EXCEPT ![j] = None]
                             /\ pc'[c] = "drop" /\ target'[c] = j
          BY <2>5, DeleteEffect
      <3>2. i = j
          BY <2>1, <3>1 DEF Touches, OfOne
      <3> QED
          BY <1>2, <3>1, <3>2 DEF ReadyFor, TypeOK
    <2>6. CASE PurgeRows(c)
        BY <1>2, <2>2, <2>6, PurgeEffect DEF ReadyFor
    <2>7. CASE Write(c)
      <3>1. i \in alone[c] /\ pc[c] = "write" /\ pc'[c] = "unindex" /\ hand'[c] = hand[c]
          BY <1>2, <2>7, WriteEffect
      <3>2. i = target[c]
          BY <3>1 DEF AloneInv, Touches, OfOne
      <3>3. docs[i] # None
          BY <3>1, ReadyIsFor DEF ReadyFor
      <3>4. docs[i].sum = hand[c].sum
          BY <3>1, <3>2, <3>3 DEF HandBelongs, Storing
      <3>5. docs'[i] = hand[c]
          BY <2>7, <3>2, <3>3, <3>4, WriteEffect
      <3> QED
          BY <1>2, <3>1, <3>5 DEF ReadyFor
    <2>8. CASE Unindex(c)
      <3>1. /\ i \in alone[c] /\ pc[c] = "unindex" /\ pc'[c] = "index"
            /\ hand'[c] = hand[c] /\ docs' = docs
            /\ fts' = [fts EXCEPT ![target[c]] = <<>>]
          BY <1>2, <2>8 DEF Unindex, Goto, TypeOK
      <3>2. i = target[c]
          BY <3>1 DEF AloneInv, Touches, OfOne
      <3>3. docs[i] = hand[c]
          BY <3>1, ReadyIsFor DEF ReadyFor
      <3>4. fts'[i] = <<>>
          BY <2>2, <3>1, <3>2 DEF TypeOK
      <3> QED
          BY <1>2, <3>1, <3>3, <3>4 DEF ReadyFor
    <2>9. CASE Open(c) \/ Rebuild(c)
      <3>1. pc'[c] \in {"countIndex", "rebuild"}
          BY <2>9 DEF Open, Rebuild, Begin, Goto, TypeOK
      <3> QED
          BY <1>2, <3>1 DEF ReadyFor
    <2>10. CASE CountIndex(c)
      <3>1. pc'[c] = "idle" \/ (pc'[c] = "countRows" /\ fts'[i] = <<>>)
          BY <2>2, <2>10 DEF CountIndex, End, Goto, TypeOK
      <3> QED
          BY <1>2, <3>1 DEF ReadyFor
    <2>11. CASE CountRows(c)
      <3>1. \/ pc'[c] = "idle"
            \/ pc[c] = "countRows" /\ pc'[c] = "backfill" /\ i \in alone[c] /\ fts' = fts
          BY <1>2, <2>11 DEF CountRows, Done, End, Goto, TypeOK
      <3> QED
          BY <1>2, <3>1, ReadyIsFor DEF ReadyFor
    <2>12. CASE pc'[c] = "idle"
        BY <1>2, <2>12 DEF ReadyFor
    <2>13. Index(c) \/ DropEntries(c) \/ DropAllEntries(c) \/ Backfill(c) \/ Fails(c)
               => pc'[c] = "idle"
        BY DEF Index, DropEntries, DropAllEntries, Backfill, Fails, Done, End, TypeOK
    <2> QED
        BY <2>3, <2>4, <2>5, <2>6, <2>7, <2>8, <2>9, <2>10, <2>11, <2>12, <2>13 DEF StepOf
  <1> QED
      BY <1>1, <1>2

-----------------------------------------------------------------------------

(* A row that is settled agrees with the index. *)
LEMMA SettledStep ==
    ASSUME TypeOK, UsedIds, AloneInv, Ready, SettledInv, NEW c \in Callers, StepOf(c)
    PROVE  SettledInv'
  <1> SUFFICES ASSUME NEW i \in Ids, i \notin dirty',
                      \A d \in Callers : i \in Touches(d)' => pc'[d] \in Quiet
               PROVE  Agrees(i)'
      BY DEF SettledInv
  <1>1. ASSUME i \notin dirty, i \in Touches(c) => pc[c] \in Quiet,
               docs'[i] = docs[i], fts'[i] = fts[i]
        PROVE  Agrees(i)'
    <2>1. \A d \in Callers : i \in Touches(d) => pc[d] \in Quiet
        BY <1>1, OthersStay
    <2> QED
        BY <1>1, <2>1 DEF SettledInv, Agrees
  (* What a call that ends leaves dirty. *)
  <1>2. ASSUME Done(c), i \in Touches(c)
        PROVE  i \in alone[c]
      BY <1>2 DEF Done, End
  <1>3. ASSUME NEW S \in SUBSET Ids, End(c, {}, S)
        PROVE  i \notin dirty /\ i \notin S
      BY <1>3 DEF End
  <1>4. CASE Insert(c)
    <2>1. /\ \A j \in Ids \ {lastId + 1} : docs'[j] = docs[j]
          /\ pc'[c] = "index" /\ target'[c] = lastId + 1
          /\ fts' = fts /\ dirty' = dirty /\ pc[c] = "idle"
        BY <1>4, InsertEffect DEF Insert, Begin
    <2>2. i # lastId + 1
        BY <2>1 DEF Touches, OfOne, Quiet
    <2> QED
        BY <1>1, <2>1, <2>2 DEF Touches, OfOne, OfAll
  <1>5. CASE ReadRow(c) \/ Open(c)
    <2>1. pc[c] = "idle" /\ UNCHANGED <<docs, fts, dirty>>
        BY <1>5 DEF ReadRow, Open, Begin
    <2> QED
        BY <1>1, <2>1 DEF Touches, OfOne, OfAll
  <1>6. CASE DeleteRow(c)
    <2>1. PICK j \in Ids : /\ docs' = [docs EXCEPT ![j] = None]
                           /\ pc'[c] = "drop" /\ target'[c] = j
                           /\ UNCHANGED <<fts, lastId, dirty>>
        BY <1>6, DeleteEffect
    <2>2. i # j
        BY <2>1 DEF Touches, OfOne, Quiet
    <2>3. pc[c] = "idle"
        BY <1>6 DEF DeleteRow, Begin
    <2> QED
        BY <1>1, <2>1, <2>2, <2>3 DEF Touches, OfOne, OfAll, TypeOK
  <1>7. CASE PurgeRows(c)
    <2>1. pc'[c] = "dropAll"
        BY <1>7, PurgeEffect
    <2> QED
        BY <2>1 DEF Touches, OfOne, OfAll, Quiet
  <1>8. CASE Write(c) \/ Unindex(c)
    <2>1. /\ pc'[c] \in {"unindex", "index"} /\ pc[c] \in {"write", "unindex"}
          /\ target' = target /\ dirty' = dirty
        BY <1>8 DEF Write, Unindex, Goto, TypeOK
    <2>2. i \notin Touches(c)' /\ i \notin Touches(c)
        BY <2>1 DEF Touches, OfOne, Quiet
    <2> QED
        BY <1>1, <2>1, <2>2, LocalEffect
  <1>9. CASE Rebuild(c)
      BY <1>9 DEF Rebuild
  <1>10. CASE Index(c)
    <2>1. CASE i # target[c]
      <3>1. i \notin Touches(c) /\ docs'[i] = docs[i] /\ fts'[i] = fts[i]
          BY <1>10, <2>1, IndexEffect DEF Touches, OfOne
      <3>2. i \notin dirty
          BY <1>10, <3>1 DEF Index, Done, End
      <3> QED
          BY <1>1, <3>1, <3>2
    <2>2. CASE i = target[c]
      <3>1. i \in Touches(c) /\ pc[c] = "index"
          BY <1>10, <2>2 DEF Index, Touches, OfOne
      <3>2. i \in alone[c]
          BY <1>2, <1>10, <3>1 DEF Index
      <3>3. docs[i] = hand[c] /\ fts[i] = <<>>
          BY <3>1, <3>2 DEF Ready
      <3>4. fts'[i] = Append(<<>>, hand[c]) /\ hand[c] \in Rows /\ docs'[i] = hand[c]
          BY <1>10, <2>2, <3>3, IndexEffect
      <3> QED
          BY <3>4, NoneIsNoRow DEF Agrees
    <2> QED
        BY <2>1, <2>2
  <1>11. CASE DropEntries(c) \/ DropAllEntries(c)
    <2>1. /\ fts'[i] = IF i \in Touches(c) THEN <<>> ELSE fts[i]
          /\ docs' = docs
        BY <1>11, ClearEffect DEF Clearing
    <2>2. Done(c) /\ pc[c] \in {"drop", "dropAll"}
        BY <1>11 DEF DropEntries, DropAllEntries
    <2>3. CASE i \in Touches(c)
      <3>1. docs[i] = None
          BY <1>2, <2>2, <2>3 DEF Ready
      <3> QED
          BY <2>1, <2>3, <3>1 DEF Agrees
    <2>4. CASE i \notin Touches(c)
      <3>1. i \notin dirty
          BY <2>2, <2>4 DEF Done, End
      <3> QED
          BY <1>1, <2>1, <2>4, <3>1
    <2> QED
        BY <2>3, <2>4
  <1>12. CASE Backfill(c)
    <2>1. pc[c] = "backfill" /\ i \in Touches(c) /\ Done(c)
        BY <1>12 DEF Backfill, Touches, OfOne, OfAll
    <2>2. fts[i] = <<>>
        BY <1>2, <2>1 DEF Ready
    <2>3. docs'[i] = docs[i] /\ fts'[i] = IF docs[i] # None THEN Append(<<>>, docs[i]) ELSE <<>>
        BY <1>12, <2>2, BackfillEffect
    <2>4. docs[i] # None => docs[i] \in Rows
        BY DEF TypeOK
    <2> QED
        BY <2>3, <2>4 DEF Agrees
  <1>13. CASE CountIndex(c)
    <2>1. pc[c] = "countIndex" /\ docs' = docs /\ fts' = fts
        BY <1>13 DEF CountIndex
    <2>2. CASE End(c, {}, {})
        BY <1>1, <1>3, <2>1, <2>2 DEF Quiet
    <2>3. CASE Goto(c, "countRows") /\ dirty' = dirty
        BY <1>1, <2>1, <2>3 DEF Quiet
    <2> QED
        BY <1>13, <2>2, <2>3 DEF CountIndex
  <1>14. CASE CountRows(c)
    <2>1. pc[c] = "countRows" /\ i \in Touches(c) /\ docs' = docs /\ fts' = fts
        BY <1>14 DEF CountRows, Touches, OfOne, OfAll
    <2>2. CASE Goto(c, "backfill") /\ target' = target
      <3>1. pc'[c] = "backfill"
          BY <2>2 DEF Goto, TypeOK
      <3> QED
          BY <3>1 DEF Touches, OfOne, OfAll, Quiet
    <2>3. CASE Done(c) /\ docs[i] = None
      <3>1. fts[i] = <<>>
          BY <1>2, <2>1, <2>3 DEF Ready
      <3> QED
          BY <2>1, <2>3, <3>1 DEF Agrees
    <2> QED
        BY <1>14, <2>2, <2>3 DEF CountRows
  <1>15. CASE Fails(c)
    <2>1. CASE pc[c] \in {"write", "countIndex"}
      <3>1. End(c, {}, {}) /\ docs' = docs /\ fts' = fts
          BY <1>15, <2>1 DEF Fails
      <3> QED
          BY <1>1, <1>3, <2>1, <3>1 DEF Quiet
    <2>2. CASE pc[c] \notin {"write", "countIndex"}
      <3>1. End(c, {}, Touches(c)) /\ docs' = docs /\ fts' = fts
          BY <1>15, <2>2 DEF Fails
      <3> QED
          BY <1>1, <1>3, <3>1, TouchesIds
    <2> QED
        BY <2>1, <2>2
  <1> QED
      BY <1>4, <1>5, <1>6, <1>7, <1>8, <1>9, <1>10, <1>11, <1>12, <1>13, <1>14, <1>15
      DEF StepOf

-----------------------------------------------------------------------------

LEMMA Initial == Init => IInv
  <1> SUFFICES ASSUME Init PROVE IInv
      OBVIOUS
  <1> USE IdAssumption, FaultsAssumption
  <1>1. TypeOK
    <2>1. <<>> \in Seq(Rows)
        OBVIOUS
    <2> QED
        BY <2>1 DEF Init, TypeOK, OfOne, OfAll, Storing
  <1>2. \A c \in Callers : Touches(c) = {}
      BY DEF Init, Touches, OfOne, OfAll
  <1>3. UsedIds /\ EntryBelongs /\ HandBelongs
      BY DEF Init, UsedIds, EntryBelongs, HandBelongs, OfOne, Storing
  <1>4. AloneInv /\ Ready
      BY <1>2 DEF Init, AloneInv, Ready
  <1>5. SettledInv
      BY DEF Init, SettledInv, Agrees
  <1> QED
      BY <1>1, <1>3, <1>4, <1>5 DEF IInv

LEMMA Inductive == IInv /\ [Next]_vars => IInv'
  <1> SUFFICES ASSUME IInv, [Next]_vars PROVE IInv'
      OBVIOUS
  <1>1. ASSUME NEW c \in Callers, StepOf(c)
        PROVE  IInv'
    <2>1. TypeOK' /\ UsedIds' /\ EntryBelongs' /\ HandBelongs' /\ AloneInv'
        BY <1>1, TypeStep, UsedStep, EntryStep, HandStep, AloneStep DEF IInv
    <2>2. Ready' /\ SettledInv'
        BY <1>1, <2>1, ReadyStep, SettledStep DEF IInv
    <2> QED
        BY <2>1, <2>2 DEF IInv
  <1>2. CASE UNCHANGED vars
    <2> USE <1>2 DEF vars
    <2>1. TypeOK' /\ UsedIds' /\ EntryBelongs' /\ HandBelongs'
        BY DEF IInv, TypeOK, UsedIds, EntryBelongs, HandBelongs
    <2>2. AloneInv' /\ Ready'
        BY DEF IInv, AloneInv, Ready, Touches
    <2>3. SettledInv'
        BY DEF IInv, SettledInv, Touches, Agrees
    <2> QED
        BY <2>1, <2>2, <2>3 DEF IInv
  <1> QED
      BY <1>1, <1>2 DEF Next, StepOf

LEMMA Invariance == Spec => []IInv
  BY Initial, Inductive, PTL DEF Spec

(* The store's variables keep their types. *)
THEOREM TypeCorrect == Spec => []TypeOK
  <1>1. IInv => TypeOK
      BY DEF IInv
  <1> QED
      BY <1>1, Invariance, PTL

(* A search never returns a document through another one's entry: an id is  *)
(* given to one row only, whatever is deleted, purged, raced or lost.       *)
THEOREM EntryTheorem == Spec => []EntryBelongs
  <1>1. IInv => EntryBelongs
      BY DEF IInv
  <1> QED
      BY <1>1, Invariance, PTL

(* What a call that is alone leaves agrees with the index. *)
THEOREM SettledTheorem == Spec => []SettledAgrees
  <1>1. IInv => SettledAgrees
      BY DEF IInv, SettledInv, SettledAgrees, Agrees
  <1> QED
      BY <1>1, Invariance, PTL

(* An update that is alone on a row changes the one column it is given. *)
THEOREM ColumnsTheorem == Spec => OtherColumnsKeptAlone
  <1>1. ASSUME IInv, [Next]_vars, NEW i \in Ids, docs[i] # None, docs'[i] # None
        PROVE  \/ \A k, m \in Edits(i) : k = m
               \/ \E c \in Callers : pc[c] = "write" /\ i \in Touches(c) \ alone[c]
    <2>1. CASE docs'[i] = docs[i]
        BY <2>1 DEF Edits
    <2>2. ASSUME NEW c \in Callers, StepOf(c), docs'[i] # docs[i]
          PROVE  \/ \A k, m \in Edits(i) : k = m
                 \/ pc[c] = "write" /\ i \in Touches(c) \ alone[c]
      <3>1. Write(c) /\ i = target[c]
        <4>1. ~DeleteRow(c) /\ ~PurgeRows(c)
            BY <1>1, <2>2, DeleteEffect, PurgeEffect DEF IInv, TypeOK
        <4>2. ~ReadRow(c) /\ ~Index(c) /\ ~Backfill(c) /\ ~Clearing(c) /\ ~Looking(c)
            BY <1>1, <2>2, ReadEffect, IndexEffect, BackfillEffect, ClearEffect, LookEffect
            DEF IInv
        <4>3. ~Insert(c)
          <5>1. i <= lastId /\ lastId \in Int
              BY <1>1 DEF IInv, UsedIds, TypeOK, Ids
          <5> QED
              BY <1>1, <2>2, <5>1, InsertEffect DEF IInv, Ids
        <4>4. Write(c)
            BY <2>2, <4>1, <4>2, <4>3 DEF StepOf, Clearing, Looking
        <4> QED
            BY <1>1, <2>2, <4>4, WriteEffect DEF IInv
      <3>2. i \in Touches(c) /\ pc[c] = "write"
          BY <3>1 DEF Write, Touches, OfOne
      <3>3. ASSUME i \in alone[c]
            PROVE  \A k, m \in Edits(i) : k = m
        <4>1. \A k, m \in Columns :
                  hand[c].cols[k] # docs[i].cols[k] /\ hand[c].cols[m] # docs[i].cols[m] => k = m
            BY <1>1, <3>2, <3>3 DEF IInv, Ready
        <4>2. docs'[i].cols = hand[c].cols
            BY <1>1, <3>1, WriteEffect DEF IInv
        <4> QED
            BY <4>1, <4>2 DEF Edits
      <3> QED
          BY <3>2, <3>3
    <2>3. docs' # docs => \E c \in Callers : StepOf(c)
        BY <1>1 DEF Next, StepOf, vars
    <2> QED
        BY <2>1, <2>2, <2>3
  <1>2. IInv /\ [Next]_vars => [\A i \in Ids : docs[i] # None /\ docs'[i] # None =>
            \/ \A k, m \in Edits(i) : k = m
            \/ \E c \in Callers : pc[c] = "write" /\ i \in Touches(c) \ alone[c]]_vars
      BY <1>1
  <1> QED
      BY <1>2, Invariance, PTL DEF Spec, OtherColumnsKeptAlone
=============================================================================

------------------------------ MODULE DocStore ------------------------------
(***************************************************************************)
(* store/database: the documents table and its full-text index             *)
(* documents_fts, one SQL statement at a time.  SQLite makes a statement   *)
(* atomic and SetMaxOpenConns(1) orders the statements of one process, but *)
(* no call of the store opens a transaction: the calls of HTTP handlers,   *)
(* of a scan and of the other processes interleave between statements.     *)
(*                                                                         *)
(* A row has a checksum and columns that can be edited; an index entry is  *)
(* the copy of the row that was indexed.                                   *)
(***************************************************************************)
EXTENDS Integers, Sequences

CONSTANTS
    Callers,
    Checksums,
    Columns, Values,
    Blank,       \* the value of every column of a new row
    None,        \* no row
    MaxId,       \* bound on AUTOINCREMENT
    MaxFaults    \* bound on failing statements, deaths and index rebuilds

ASSUME BlankAssumption == Blank \in Values
ASSUME IdAssumption == MaxId \in Nat
ASSUME FaultsAssumption == MaxFaults \in Nat
ASSUME NoneAssumption == None \notin [sum : Checksums, cols : [Columns -> Values]]

Ids  == 1 .. MaxId
Rows == [sum : Checksums, cols : [Columns -> Values]]

VARIABLES
    docs,      \* documents: the row with an id
    fts,       \* documents_fts: the entries with a doc_id
    lastId,    \* sqlite_sequence of documents
    pc,        \* per caller: its next statement
    target,    \* per caller: the id it works on
    hand,      \* per caller: the row it has read or written
    alone,     \* per caller, history: the ids no other call has worked on
               \*   since this one began
    dirty,     \* history: ids whose last call overlapped another or failed
    faults

vars == <<docs, fts, lastId, pc, target, hand, alone, dirty, faults>>

(* Calls about one id, and calls about all of them. *)
OfOne == {"write", "unindex", "index", "drop"}
OfAll == {"dropAll", "rebuild", "countIndex", "countRows", "backfill"}

(* A caller that has a row in hand, which it will store. *)
Storing == {"write", "unindex", "index"}

TypeOK ==
    /\ docs \in [Ids -> Rows \cup {None}]
    /\ fts \in [Ids -> Seq(Rows)]
    /\ lastId \in 0 .. MaxId
    /\ pc \in [Callers -> {"idle"} \cup OfOne \cup OfAll]
    /\ target \in [Callers -> Ids \cup {0}]
    /\ hand \in [Callers -> Rows \cup {None}]
    /\ \A c \in Callers : /\ pc[c] \in OfOne => target[c] \in Ids
                          /\ pc[c] \in Storing => hand[c] \in Rows
    /\ alone \in [Callers -> SUBSET Ids]
    /\ dirty \subseteq Ids
    /\ faults \in 0 .. MaxFaults

Init ==
    /\ docs = [i \in Ids |-> None]
    /\ fts = [i \in Ids |-> <<>>]
    /\ lastId = 0
    /\ pc = [c \in Callers |-> "idle"]
    /\ target = [c \in Callers |-> 0]
    /\ hand = [c \in Callers |-> None]
    /\ alone = [c \in Callers |-> {}]
    /\ dirty = {}
    /\ faults = 0

Touches(c) ==
    IF pc[c] \in OfOne THEN {target[c]} ELSE IF pc[c] \in OfAll THEN Ids ELSE {}

Goto(c, place) == pc' = [pc EXCEPT ![c] = place]

(* A call on the ids S begins; it and the calls on the way are not alone.   *)
Begin(c, place, S) ==
    /\ pc[c] = "idle"
    /\ Goto(c, place)
    /\ alone' = [d \in Callers |->
                    IF d = c THEN S \ UNION {Touches(e) : e \in Callers} ELSE alone[d] \ S]

(* A call ends; what it leaves is its own work if it was alone. *)
End(c, done, spoiled) ==
    /\ pc' = [pc EXCEPT ![c] = "idle"]
    /\ target' = [target EXCEPT ![c] = 0]
    /\ hand' = [hand EXCEPT ![c] = None]
    /\ alone' = [alone EXCEPT ![c] = {}]
    /\ dirty' = (dirty \ (done \cap alone[c])) \cup spoiled

Done(c) == End(c, Touches(c), Touches(c) \ alone[c])

-----------------------------------------------------------------------------
(* InsertDocumentRecord *)

NewRow(s) == [sum |-> s, cols |-> [k \in Columns |-> Blank]]
Owned(s)  == \E i \in Ids : docs[i] # None /\ docs[i].sum = s

(* Mutant: INTEGER PRIMARY KEY without AUTOINCREMENT, the largest id in use *)
(* plus one.                                                                *)
InsertReusingId(c) ==
    \E s \in Checksums, i \in Ids :
        /\ ~Owned(s)
        /\ \A j \in Ids : j = i - 1 => docs[j] # None
        /\ \A j \in i .. MaxId : docs[j] = None
        /\ Begin(c, "index", {i})
        /\ docs' = [docs EXCEPT ![i] = NewRow(s)]
        /\ lastId' = IF lastId > i THEN lastId ELSE i
        /\ target' = [target EXCEPT ![c] = i]
        /\ hand' = [hand EXCEPT ![c] = NewRow(s)]
        /\ UNCHANGED <<fts, dirty, faults>>

(* INSERT INTO documents; a checksum that is already there is an error that *)
(* changes nothing.                                                         *)
Insert(c) ==
    \E s \in Checksums :
        /\ ~Owned(s)
        /\ lastId < MaxId
        /\ LET i == lastId + 1
           IN  /\ Begin(c, "index", {i})
               /\ docs' = [docs EXCEPT ![i] = NewRow(s)]
               /\ lastId' = i
               /\ target' = [target EXCEPT ![c] = i]
        /\ hand' = [hand EXCEPT ![c] = NewRow(s)]
        /\ UNCHANGED <<fts, dirty, faults>>

(* INSERT INTO documents_fts, the last statement of an insert or an update. *)
Index(c) ==
    /\ pc[c] = "index"
    /\ fts' = [fts EXCEPT ![target[c]] = Append(@, hand[c])]
    /\ Done(c)
    /\ UNCHANGED <<docs, lastId, faults>>

-----------------------------------------------------------------------------
(* UpdateDocumentRecord *)

(* Mutant: a column not given is blank. *)
ReadRowBlanking(c) ==
    \E i \in Ids, k \in Columns, v \in Values :
        /\ docs[i] # None
        /\ Begin(c, "write", {i})
        /\ target' = [target EXCEPT ![c] = i]
        /\ hand' = [hand EXCEPT ![c] =
                        [docs[i] EXCEPT !.cols = [m \in Columns |-> IF m = k THEN v ELSE Blank]]]
        /\ UNCHANGED <<docs, fts, lastId, dirty, faults>>

(* GetDocumentByID, and the columns that are given put over the others.     *)
ReadRow(c) ==
    \E i \in Ids, k \in Columns, v \in Values :
        /\ docs[i] # None
        /\ Begin(c, "write", {i})
        /\ target' = [target EXCEPT ![c] = i]
        /\ hand' = [hand EXCEPT ![c] = [docs[i] EXCEPT !.cols[k] = v]]
        /\ UNCHANGED <<docs, fts, lastId, dirty, faults>>

(* UPDATE documents SET every column; of a row that is gone it is no error. *)
Write(c) ==
    /\ pc[c] = "write"
    /\ docs' = [docs EXCEPT ![target[c]] = IF @ = None THEN None ELSE [@ EXCEPT !.cols = hand[c].cols]]
    /\ Goto(c, "unindex")
    /\ UNCHANGED <<fts, lastId, target, hand, alone, dirty, faults>>

(* Mutant: the id is bound as text, and equals no doc_id. *)
UnindexByText(c) ==
    /\ pc[c] = "unindex"
    /\ Goto(c, "index")
    /\ UNCHANGED <<docs, fts, lastId, target, hand, alone, dirty, faults>>

(* DELETE FROM documents_fts WHERE doc_id = ?, with the id as a number. *)
Unindex(c) ==
    /\ pc[c] = "unindex"
    /\ fts' = [fts EXCEPT ![target[c]] = <<>>]
    /\ Goto(c, "index")
    /\ UNCHANGED <<docs, lastId, target, hand, alone, dirty, faults>>

-----------------------------------------------------------------------------
(* DeleteDocument and PurgeAll: the row or the rows, then their entries. *)

DeleteRow(c) ==
    \E i \in 1 .. lastId :
        /\ Begin(c, "drop", {i})
        /\ docs' = [docs EXCEPT ![i] = None]
        /\ target' = [target EXCEPT ![c] = i]
        /\ UNCHANGED <<fts, lastId, hand, dirty, faults>>

DropEntries(c) ==
    /\ pc[c] = "drop"
    /\ fts' = [fts EXCEPT ![target[c]] = <<>>]
    /\ Done(c)
    /\ UNCHANGED <<docs, lastId, faults>>

PurgeRows(c) ==
    /\ Begin(c, "dropAll", Ids)
    /\ docs' = [i \in Ids |-> None]
    /\ UNCHANGED <<fts, lastId, target, hand, dirty, faults>>

DropAllEntries(c) ==
    /\ pc[c] = "dropAll"
    /\ fts' = [i \in Ids |-> <<>>]
    /\ Done(c)
    /\ UNCHANGED <<docs, lastId, faults>>

-----------------------------------------------------------------------------
(* Open: ensureFTS *)

(* The columns of documents_fts are found to be as the code writes them, or *)
(* not, when an older version has made the table.                           *)
Open(c) ==
    /\ \/ Begin(c, "countIndex", Ids) /\ UNCHANGED faults
       \/ faults < MaxFaults /\ Begin(c, "rebuild", Ids) /\ faults' = faults + 1
    /\ UNCHANGED <<docs, fts, lastId, target, hand, dirty>>

(* DROP TABLE and CREATE VIRTUAL TABLE, taken as one. *)
Rebuild(c) ==
    /\ pc[c] = "rebuild"
    /\ fts' = [i \in Ids |-> <<>>]
    /\ Goto(c, "countIndex")
    /\ dirty' = Ids
    /\ UNCHANGED <<docs, lastId, target, hand, alone, faults>>

(* The number of entries is read ... *)
CountIndex(c) ==
    /\ pc[c] = "countIndex"
    /\ IF \A i \in Ids : fts[i] = <<>>
       THEN /\ Goto(c, "countRows")
            /\ UNCHANGED <<target, hand, alone, dirty>>
       ELSE End(c, {}, {})
    /\ UNCHANGED <<docs, fts, lastId, faults>>

(* ... then the number of rows ... *)
CountRows(c) ==
    /\ pc[c] = "countRows"
    /\ IF \E i \in Ids : docs[i] # None
       THEN /\ Goto(c, "backfill")
            /\ UNCHANGED <<target, hand, alone, dirty>>
       ELSE Done(c)
    /\ UNCHANGED <<docs, fts, lastId, faults>>

(* ... and an empty index is filled from the rows. *)
Backfill(c) ==
    /\ pc[c] = "backfill"
    /\ fts' = [i \in Ids |-> IF docs[i] # None THEN Append(fts[i], docs[i]) ELSE fts[i]]
    /\ Done(c)
    /\ UNCHANGED <<docs, lastId, faults>>

-----------------------------------------------------------------------------
(* Faults *)

(* A statement fails, which ends the call whether or not it reports it, or  *)
(* the process dies before it.                                              *)
Fails(c) ==
    /\ faults < MaxFaults
    /\ pc[c] # "idle"
    /\ faults' = faults + 1
    /\ End(c, {}, IF pc[c] \in {"write", "countIndex"} THEN {} ELSE Touches(c))
    /\ UNCHANGED <<docs, fts, lastId>>

-----------------------------------------------------------------------------

Next ==
    \E c \in Callers :
        \/ Insert(c) \/ Index(c)
        \/ ReadRow(c) \/ Write(c) \/ Unindex(c)
        \/ DeleteRow(c) \/ DropEntries(c)
        \/ PurgeRows(c) \/ DropAllEntries(c)
        \/ Open(c) \/ Rebuild(c) \/ CountIndex(c) \/ CountRows(c) \/ Backfill(c)
        \/ Fails(c)

Spec == Init /\ [][Next]_vars

-----------------------------------------------------------------------------
(* Properties *)

(* A search joins entries with rows by doc_id (database.go:1067-1069).      *)
(* However calls interleave and fail, an entry that outlives its document   *)
(* never makes the search return another document: ids are not used again.  *)
EntryBelongs ==
    \A i \in Ids : docs[i] # None => \A n \in 1 .. Len(fts[i]) : fts[i][n].sum = docs[i].sum

(* A row that the last call on its id left alone and without a failure has  *)
(* exactly one entry, which is up to date, and an id without a row has      *)
(* none: "a stale row PLUS a duplicate" (database.go:843-846) cannot come   *)
(* from one call, and the next one that runs alone repairs what a race or   *)
(* a failure has left.                                                      *)
SettledAgrees ==
    \A i \in Ids \ dirty :
        (\A c \in Callers : i \notin Touches(c)) =>
            fts[i] = IF docs[i] = None THEN <<>> ELSE <<docs[i]>>

(* A nil pointer means "not provided" (database.go:619): an update leaves   *)
(* the columns that it is not given as they are, when no other call on the  *)
(* row overlaps it.                                                         *)
Edits(i) == {k \in Columns : docs[i].cols[k] # docs'[i].cols[k]}
OtherColumnsKeptAlone ==
    [][\A i \in Ids : docs[i] # None /\ docs'[i] # None =>
          \/ \A k, m \in Edits(i) : k = m
          \/ \E c \in Callers : pc[c] = "write" /\ i \in Touches(c) \ alone[c]]_vars
=============================================================================

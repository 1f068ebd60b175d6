------------------------------- MODULE DocOps -------------------------------
(***************************************************************************)
(* What the operations on registered documents do to their rows and files: *)
(* the scan that files a document, edit, reclassify, delete to the trash,  *)
(* rename of a subcategory (no lock), repair and clear (the scan lock).  A *)
(* step is one call of the store (DocStore has its statements), one move   *)
(* (FileMove has its system calls) or one look for a file.                 *)
(*                                                                         *)
(* A file is identified by the document it holds.  A name is a folder and  *)
(* a base name; a category stands for the archive folder of its documents. *)
(***************************************************************************)
EXTENDS Integers

CONSTANTS
    Callers,
    Docs,
    Folders,     \* categories, and their folders under __archive
    Raws,        \* the folder __raws
    Bases,       \* base names of files
    NoDoc, NoRow, NoPath, Nobody,
    MaxFaults    \* bound on failing calls, deaths, files the user takes away
                 \*   and calls that begin while another one is about the
                 \*   same document

ASSUME FolderAssumption == Raws \notin Folders
ASSUME NothingAssumption == NoDoc \notin Docs /\ Nobody \notin Callers
ASSUME FaultAssumption == MaxFaults \in Nat

Archive   == Folders \X Bases
Names     == ({Raws} \cup Folders) \X Bases
Folder(n) == n[1]
Base(n)   == n[2]
Rows      == [orig : Names, new : Names \cup {NoPath}, cat : Folders]

ASSUME NoneAssumption == NoPath \notin Names /\ NoRow \notin Rows

VARIABLES
    disk,      \* the document whose file has a name
    gone,      \* the documents whose file is in .delete_files, or taken away
    row,       \* the documents row of a document
    lock,      \* who has the scan lock
    call,      \* per caller: the call under way
    alone,     \* per caller, history: the documents that nobody else has
               \*   worked on, and it has not failed on, since it began
    dirty,     \* history: documents whose last call overlapped another or
               \*   failed, or whose file has been moved for another one
    faults

vars == <<disk, gone, row, lock, call, alone, dirty, faults>>

Kinds  == {"none", "scan", "edit", "reclassify", "delete", "rename", "repair", "clear"}
Places == {"idle", "edit", "stat", "list", "recat", "move", "update", "purge", "trash",
           "back", "walk", "files"}

(* seen: the rows that were read and are still to be worked on; from: the   *)
(* name that a file in a walk of the archive had.                           *)
Idle == [kind |-> "none", at |-> "idle", doc |-> NoDoc, path |-> NoPath, from |-> NoPath,
         cat |-> Raws, seen |-> [d \in Docs |-> NoRow], files |-> {}]

Calls == [kind : Kinds, at : Places, doc : Docs \cup {NoDoc}, path : Names \cup {NoPath},
          from : Names \cup {NoPath}, cat : Folders \cup {Raws},
          seen : [Docs -> Rows \cup {NoRow}], files : SUBSET Archive]

TypeOK ==
    /\ disk \in [Names -> Docs \cup {NoDoc}]
    /\ gone \subseteq Docs
    /\ row \in [Docs -> Rows \cup {NoRow}]
    /\ lock \in Callers \cup {Nobody}
    /\ call \in [Callers -> Calls]
    /\ \A c \in Callers :
          /\ call[c].kind \in {"scan", "repair", "clear"} => lock = c
          /\ call[c].at = "move" => call[c].cat \in Folders
    /\ alone \in [Callers -> SUBSET Docs]
    /\ dirty \subseteq Docs
    /\ faults \in 0 .. MaxFaults

Init ==
    /\ disk = [n \in Names |-> NoDoc]
    /\ gone = {}
    /\ row = [d \in Docs |-> NoRow]
    /\ lock = Nobody
    /\ call = [c \in Callers |-> Idle]
    /\ alone = [c \in Callers |-> {}]
    /\ dirty = {}
    /\ faults = 0

Filed(d)    == \E n \in Archive : disk[n] = d
Free(f)     == {n \in {f} \X Bases : disk[n] = NoDoc}
Snapshot(S) == [d \in Docs |-> IF d \in S THEN row[d] ELSE NoRow]
Registered  == {d \in Docs : row[d] # NoRow}
ToDo(c)     == {d \in Docs : call[c].seen[d] # NoRow}
At(c, place) == call[c].at = place

(* The documents a call is about. *)
Touches(c) ==
    IF call[c].kind \in {"repair", "clear"} THEN Docs
    ELSE ToDo(c) \cup ({call[c].doc} \cap Docs)

-----------------------------------------------------------------------------
(* Beginning, going on and ending *)

Begin(c, new, S) ==
    LET others == UNION {Touches(e) : e \in Callers}
    IN  /\ call[c] = Idle
        /\ call' = [call EXCEPT ![c] = new]
        /\ alone' = [e \in Callers |-> IF e = c THEN S \ others ELSE alone[e] \ S]
        /\ faults' = IF S \cap others = {} THEN faults ELSE faults + 1
        /\ faults' <= MaxFaults

Lock(c) == lock = Nobody /\ lock' = c

Goto(c, place) == call' = [call EXCEPT ![c].at = place]
ToPurge(c)     == call' = [call EXCEPT ![c].at = "purge", ![c].path = NoPath]

(* The document or file in hand is dealt with; the next one of the list or  *)
(* of the walk is up.                                                       *)
Leave(c) ==
    call' = [call EXCEPT ![c].at = IF call[c].from = NoPath THEN "list" ELSE "files",
                         ![c].seen = [d \in Docs |-> IF d = call[c].doc THEN NoRow ELSE @[d]],
                         ![c].doc = NoDoc, ![c].path = NoPath, ![c].from = NoPath]

(* A call ends; repair and clear put right what they were alone with. *)
End(c, healed, spoiled) ==
    /\ call' = [call EXCEPT ![c] = Idle]
    /\ alone' = [alone EXCEPT ![c] = {}]
    /\ lock' = IF lock = c THEN Nobody ELSE lock
    /\ dirty' = (dirty \ (healed \cap alone[c])) \cup spoiled

Spoil(S) ==
    /\ dirty' = dirty \cup S
    /\ alone' = [e \in Callers |-> alone[e] \ S]

(* The document in hand is dealt with well, if nobody has interfered. *)
LeaveDone(c) ==
    LET spoiled == ({call[c].doc} \cap Docs) \ alone[c]
    IN  IF call[c].kind \in {"rename", "repair", "clear"}
        THEN Leave(c) /\ dirty' = dirty \cup spoiled /\ UNCHANGED <<lock, alone>>
        ELSE End(c, {}, spoiled)

(* A call that failed: repair and clear leave the file alone and go on, the *)
(* others return the error.                                                 *)
GiveUp(c) ==
    IF call[c].from # NoPath \/ (call[c].kind = "clear" /\ At(c, "back"))
    THEN /\ Leave(c)
         /\ Spoil({d \in Docs : d = call[c].doc \/ \E n \in {call[c].path} \cap Names : disk[n] = d})
         /\ UNCHANGED lock
    ELSE End(c, {}, Touches(c))

-----------------------------------------------------------------------------
(* RunTriageScan: a new document is inserted PENDING; its move and the      *)
(* update to MOVED follow.                                                  *)
Scan(c) ==
    \E n \in {Raws} \X Bases, k \in Folders :
        LET d == disk[n]
        IN  /\ d # NoDoc /\ row[d] = NoRow
            /\ Lock(c)
            /\ row' = [row EXCEPT ![d] = [orig |-> n, new |-> NoPath, cat |-> k]]
            /\ Begin(c, [Idle EXCEPT !.kind = "scan", !.at = "move", !.doc = d,
                                     !.path = n, !.cat = k], {d})
            /\ UNCHANGED <<disk, gone, dirty>>

-----------------------------------------------------------------------------
(* putDocumentHandler, and the MCP server's update_document *)

(* GetDocumentByID: the document before, and a category for it. *)
Edit(c) ==
    \E d \in Registered, k \in Folders :
        /\ Begin(c, [Idle EXCEPT !.kind = "edit", !.at = "edit", !.doc = d, !.cat = k,
                                 !.seen = Snapshot({d})], {d})
        /\ UNCHANGED <<disk, gone, row, lock, dirty>>

(* UpdateDocumentRecord.  A category is written only if the request has     *)
(* one; one that is other than before certainly comes from the request.     *)
EditRow(c) ==
    /\ At(c, "edit")
    /\ LET d == call[c].doc
       IN  IF row[d] = NoRow
           THEN LeaveDone(c) /\ UNCHANGED row
           ELSE /\ \/ row' = [row EXCEPT ![d].cat = call[c].cat]
                   \/ call[c].cat = call[c].seen[d].cat /\ UNCHANGED row
                /\ Goto(c, "stat")
                /\ UNCHANGED <<lock, alone, dirty>>
    /\ UNCHANGED <<disk, gone, faults>>

(* The file is moved if the row before names one that is there. *)
StatOld(c) ==
    /\ At(c, "stat")
    /\ LET old == call[c].seen[call[c].doc].new
       IN  IF old # NoPath /\ disk[old] # NoDoc
           THEN /\ call' = [call EXCEPT ![c].at = "move", ![c].path = old]
                /\ UNCHANGED <<lock, alone, dirty>>
           ELSE LeaveDone(c)
    /\ UNCHANGED <<disk, gone, row, faults>>

-----------------------------------------------------------------------------
(* Reading rows: one of them, those of a subcategory, or all *)

ReadOne(c) ==
    \E d \in Registered, k \in {"reclassify", "delete"} :
        /\ Begin(c, [Idle EXCEPT !.kind = k, !.at = "list", !.seen = Snapshot({d})], {d})
        /\ UNCHANGED <<disk, gone, row, lock, dirty>>

Rename(c) ==
    \E old, new \in Folders :
        LET S == {d \in Registered : row[d].cat = old}
        IN  /\ old # new /\ S # {}
            /\ Begin(c, [Idle EXCEPT !.kind = "rename", !.at = "list", !.cat = new,
                                     !.seen = Snapshot(S)], S)
            /\ UNCHANGED <<disk, gone, row, lock, dirty>>

ReadAll(c) ==
    \E k \in {"repair", "clear"} :
        /\ Lock(c)
        /\ Begin(c, [Idle EXCEPT !.kind = k, !.at = "list", !.seen = Snapshot(Docs)], Docs)
        /\ UNCHANGED <<disk, gone, row, dirty>>

(* FindActualFileOnDisk: new_path, then original_path, then the name in     *)
(* __raws, then any file of the archive with that name.                     *)
Found(r) ==
    LET raw == <<Raws, Base(r.orig)>>
    IN  IF r.new # NoPath /\ disk[r.new] # NoDoc THEN {r.new}
        ELSE IF disk[r.orig] # NoDoc THEN {r.orig}
        ELSE IF disk[raw] # NoDoc THEN {raw}
        ELSE {n \in Archive : Base(n) = Base(r.orig) /\ disk[n] # NoDoc}

FindFile(c) ==
    /\ At(c, "list")
    /\ \E d \in ToDo(c) : \E p \in Found(call[c].seen[d]) :
          LET take(place, k) == call' = [call EXCEPT ![c].at = place, ![c].doc = d,
                                                     ![c].path = p, ![c].cat = k]
              pass == call' = [call EXCEPT ![c].seen[d] = NoRow]
          IN  CASE call[c].kind = "reclassify" -> \E k \in Folders : take("move", k)
                [] call[c].kind = "rename" -> take("move", call[c].cat)
                [] call[c].kind = "delete" -> take("trash", Raws)
                [] call[c].kind = "clear" /\ p \in Archive -> take("back", Raws)
                [] OTHER -> pass
    /\ UNCHANGED <<disk, gone, row, lock, alone, dirty, faults>>

(* Without a file: reclassify and repair purge the row, delete drops it,    *)
(* rename changes the row only, clear passes on.                            *)
FindNone(c) ==
    /\ At(c, "list")
    /\ \E d \in ToDo(c) :
          /\ Found(call[c].seen[d]) = {}
          /\ call' = IF call[c].kind = "clear"
                     THEN [call EXCEPT ![c].seen[d] = NoRow]
                     ELSE [call EXCEPT ![c].doc = d,
                                       ![c].at = IF call[c].kind = "rename" THEN "update" ELSE "purge"]
    /\ UNCHANGED <<disk, gone, row, lock, alone, dirty, faults>>

(* DeleteDocument *)
Purge(c) ==
    /\ At(c, "purge")
    /\ row' = [row EXCEPT ![call[c].doc] = NoRow]
    /\ LeaveDone(c)
    /\ UNCHANGED <<disk, gone, faults>>

-----------------------------------------------------------------------------
(* Moves *)

(* A file gets the name n, for the document in hand or for another one.     *)
Renamed(c, n) ==
    LET p == call[c].path
    IN  /\ disk' = [disk EXCEPT ![n] = disk[p], ![p] = NoDoc]
        /\ Spoil({disk[p]} \ {call[c].doc})

(* RelocalizeFileIfNeeded: the canonical path is the name the file has, or  *)
(* some name in the folder of the category, made unique if it is taken.     *)
Move(c) ==
    /\ At(c, "move")
    /\ LET p == call[c].path
       IN  \/ /\ Folder(p) = call[c].cat
              /\ Goto(c, "update")
              /\ UNCHANGED <<disk, lock, alone, dirty>>
           \/ /\ disk[p] # NoDoc
              /\ \E n \in Free(call[c].cat) :
                    /\ Renamed(c, n)
                    /\ call' = [call EXCEPT ![c].at = "update", ![c].path = n]
              /\ UNCHANGED lock
           \/ disk[p] = NoDoc /\ GiveUp(c) /\ UNCHANGED disk
    /\ UNCHANGED <<gone, row, faults>>

(* Mutant: the new path of an edit is not written back. *)
UpdateNotEdit(c) ==
    /\ At(c, "update")
    /\ LET d == call[c].doc
       IN  row' = IF call[c].kind = "edit" \/ row[d] = NoRow THEN row
                  ELSE [row EXCEPT ![d].new = IF call[c].path = NoPath THEN @ ELSE call[c].path,
                                   ![d].cat = IF call[c].kind \in {"reclassify", "rename"} THEN call[c].cat ELSE @]
    /\ LeaveDone(c)
    /\ UNCHANGED <<disk, gone, faults>>

(* UpdateDocumentRecord after the move, which is no error without the row;  *)
(* edit and repair leave it out when the path is the one they had read, and *)
(* repair inserts the row of a file that had none.                          *)
Update(c) ==
    /\ At(c, "update")
    /\ LET d == call[c].doc
           old == call[c].seen[d]
           path == call[c].path
           indexing == call[c].kind = "repair" /\ old = NoRow
       IN  row' = IF row[d] = NoRow
                  THEN IF indexing
                       THEN [row EXCEPT ![d] = [orig |-> call[c].from, new |-> path, cat |-> call[c].cat]]
                       ELSE row
                  ELSE IF call[c].kind \in {"edit", "repair"} /\ old # NoRow /\ old.new = path
                  THEN row
                  ELSE [row EXCEPT
                          ![d].new = IF path = NoPath THEN @ ELSE path,
                          ![d].cat = IF call[c].kind \in {"reclassify", "rename"} \/ indexing
                                     THEN call[c].cat ELSE @]
    /\ LeaveDone(c)
    /\ UNCHANGED <<disk, gone, faults>>

(* DeleteDocumentAndMoveToTrash *)
Trash(c) ==
    /\ At(c, "trash")
    /\ LET p == call[c].path
       IN  IF disk[p] = NoDoc
           THEN GiveUp(c) /\ UNCHANGED <<disk, gone>>
           ELSE /\ disk' = [disk EXCEPT ![p] = NoDoc]
                /\ gone' = gone \cup {disk[p]}
                /\ Spoil({disk[p]} \ {call[c].doc})
                /\ ToPurge(c)
                /\ UNCHANGED lock
    /\ UNCHANGED <<row, faults>>

(* MoveBackToRaws: by clear, or by repair, which then deletes the row that  *)
(* has the file's checksum.                                                 *)
Back(c) ==
    /\ At(c, "back")
    /\ LET p == call[c].path
           same == <<Raws, Base(p)>>
       IN  IF disk[p] = NoDoc
           THEN GiveUp(c) /\ UNCHANGED disk
           ELSE /\ \E n \in IF disk[same] = NoDoc THEN {same} ELSE Free(Raws) :
                      disk' = [disk EXCEPT ![n] = disk[p], ![p] = NoDoc]
                /\ IF call[c].kind = "repair"
                   THEN ToPurge(c) /\ UNCHANGED <<lock, alone, dirty>>
                   ELSE LeaveDone(c)
    /\ UNCHANGED <<gone, row, faults>>

-----------------------------------------------------------------------------
(* The end of the list, and the walk over the archive *)

WalkArchive(c) ==
    call' = [call EXCEPT ![c].at = "files", ![c].files = {n \in Archive : disk[n] # NoDoc}]

(* Mutant: clear purges the rows without the walk for files left behind. *)
ListEndsNoWalk(c) ==
    /\ At(c, "list") /\ ToDo(c) = {}
    /\ CASE call[c].kind = "rename" -> End(c, {}, {}) /\ UNCHANGED row
         [] call[c].kind = "repair" -> WalkArchive(c) /\ UNCHANGED <<row, lock, alone, dirty>>
         [] call[c].kind = "clear"  -> /\ row' = [d \in Docs |-> NoRow]
                                       /\ End(c, Docs, Docs \ alone[c])
    /\ UNCHANGED <<disk, gone, faults>>

(* Rename returns, repair walks over the archive, clear purges all rows.    *)
ListEnds(c) ==
    /\ At(c, "list") /\ ToDo(c) = {}
    /\ CASE call[c].kind = "rename" -> End(c, {}, {}) /\ UNCHANGED row
         [] call[c].kind = "repair" -> WalkArchive(c) /\ UNCHANGED <<row, lock, alone, dirty>>
         [] call[c].kind = "clear"  -> /\ row' = [d \in Docs |-> NoRow]
                                       /\ Goto(c, "walk")
                                       /\ UNCHANGED <<lock, alone, dirty>>
    /\ UNCHANGED <<disk, gone, faults>>

Walk(c) ==
    /\ At(c, "walk")
    /\ WalkArchive(c)
    /\ UNCHANGED <<disk, gone, row, lock, alone, dirty, faults>>

(* The next file, and the row with its checksum: clear moves the file back, *)
(* and so does repair with one that has no content or no specific           *)
(* subcategory; otherwise the category is the row's, that of the taxonomy   *)
(* or the classifier's.                                                     *)
NextFile(c) ==
    /\ At(c, "files")
    /\ \E n \in call[c].files :
          LET d == disk[n]
              rest == [call[c] EXCEPT !.files = @ \ {n}]
              take(place, k) == call' = [call EXCEPT ![c] = [rest EXCEPT
                                  !.at = place, !.doc = d, !.path = n, !.from = n, !.cat = k, !.seen[d] = row[d]]]
          IN  IF d = NoDoc THEN call' = [call EXCEPT ![c] = rest]
              ELSE \/ take("back", Raws)
                   \/ /\ call[c].kind = "repair"
                      /\ \E k \in Folders :
                            take(IF row[d] # NoRow /\ row[d].cat # k THEN "recat" ELSE "move", k)
    /\ UNCHANGED <<disk, gone, row, lock, alone, dirty, faults>>

(* repairExisting: the category of the row is put right before the move. *)
Recat(c) ==
    /\ At(c, "recat")
    /\ row' = [row EXCEPT ![call[c].doc] = IF @ = NoRow THEN NoRow ELSE [@ EXCEPT !.cat = call[c].cat]]
    /\ Goto(c, "move")
    /\ UNCHANGED <<disk, gone, lock, alone, dirty, faults>>

(* Repair has dealt with the documents that have no row now or a file in    *)
(* the archive, clear with all of them.                                     *)
FilesEnd(c) ==
    /\ At(c, "files") /\ call[c].files = {}
    /\ End(c, IF call[c].kind = "clear" THEN Docs ELSE {d \in Docs : row[d] = NoRow \/ Filed(d)},
              Docs \ alone[c])
    /\ UNCHANGED <<disk, gone, row, faults>>

-----------------------------------------------------------------------------
(* Faults and the user *)

(* A call of the store, a move or an extraction fails, or the process dies. *)
Fails(c) ==
    /\ faults < MaxFaults
    /\ call[c] # Idle
    /\ faults' = faults + 1
    /\ \/ GiveUp(c)
       \/ End(c, {}, Touches(c))
    /\ UNCHANGED <<disk, gone, row>>

(* The user puts a file into __raws, once; a file of a registered document  *)
(* that comes again is a duplicate, which is TriageScan's.                  *)
Drop(d) ==
    /\ d \notin gone /\ \A n \in Names : disk[n] # d
    /\ \E n \in Free(Raws) : disk' = [disk EXCEPT ![n] = d]
    /\ UNCHANGED <<gone, row, lock, call, alone, dirty, faults>>

TakeAway(d) ==
    /\ faults < MaxFaults
    /\ faults' = faults + 1
    /\ \E n \in Names : disk[n] = d /\ disk' = [disk EXCEPT ![n] = NoDoc]
    /\ gone' = gone \cup {d}
    /\ Spoil({d})
    /\ UNCHANGED <<row, lock, call>>

-----------------------------------------------------------------------------

Next ==
    \/ \E c \in Callers :
          \/ Scan(c) \/ Edit(c) \/ EditRow(c) \/ StatOld(c)
          \/ ReadOne(c) \/ Rename(c) \/ ReadAll(c)
          \/ FindFile(c) \/ FindNone(c) \/ Purge(c)
          \/ Move(c) \/ Update(c) \/ Trash(c) \/ Back(c)
          \/ ListEnds(c) \/ Walk(c) \/ NextFile(c) \/ Recat(c) \/ FilesEnd(c)
          \/ Fails(c)
    \/ \E d \in Docs : Drop(d) \/ TakeAway(d)

Spec == Init /\ [][Next]_vars

-----------------------------------------------------------------------------
(* Properties *)

(* A document that no call is about and whose calls did not overlap. *)
Quiet(d) == d \notin dirty /\ \A c \in Callers : d \notin Touches(c)

(* The row of a document names its own file, in the folder of its category: *)
(* however the calls before went, opening a search result never opens       *)
(* another document or nothing.  Repair and clear restore it.               *)
RowHasFile ==
    \A d \in Registered : Quiet(d) =>
        row[d].new \in Archive /\ disk[row[d].new] = d /\ Folder(row[d].new) = row[d].cat

(* A file in the archive has a row: none is filed and forgotten.  Repair    *)
(* and clear restore it, for files they find as for files of deleted rows.  *)
FileHasRow ==
    \A d \in Docs : Quiet(d) /\ Filed(d) => d \in Registered
=============================================================================

----------------------------- MODULE TriageScan -----------------------------
(***************************************************************************)
(* triagescan.RunTriageScan: what one scan does to each incoming file and  *)
(* to the database, one system call or statement at a time.  A scanner is  *)
(* a process that scans: the server (its auto-watcher and its requests,    *)
(* which the scan lock makes one) and the CLI take the scan lock, the MCP  *)
(* server's scanner does not (mcpserver/handler.go:402).                   *)
(*                                                                         *)
(* A file is known by its path in __raws; loc gives the folders that hold  *)
(* a copy of it.  Its checksum is its content.  Image conversion and       *)
(* folder bundling, which turn photographs into PDFs first, are left out.  *)
(***************************************************************************)
EXTENDS Naturals

CONSTANTS
    Files,
    Content,     \* the checksum of each file
    Scanners,
    LockFree,    \* the scanners that do not take the scan lock
    NoScanner, NoFile,
    MaxFaults    \* bound on crashes and failing calls

ASSUME ScannerAssumption == LockFree \subseteq Scanners /\ NoScanner \notin Scanners
ASSUME FileAssumption == NoFile \notin Files
ASSUME FaultAssumption == MaxFaults \in Nat

Contents == {Content[f] : f \in Files}
Folders  == {"raws", "archive", "duplicates", "blocked"}

VARIABLES
    loc,        \* folders that hold the file
    row,        \* status of the documents row with a checksum
    fileOf,     \* the file that row was inserted for
    blkRaws,    \* blocked_files row for the path in __raws: none, or its
                \*   size and mtime are the same as the file's, or stale
    blkHidden,  \* there is a blocked_files row for the path in .blocked_files
    lock,       \* the scanner that has the scan lock
    pc, list,   \* per scanner: where it is, and the files still to do
    cur,        \* per scanner: the file in hand
    faults

tables == <<row, fileOf, blkRaws, blkHidden>>
vars == <<loc, tables, lock, pc, list, cur, faults>>

(* Past the insert of a row, before its status is MOVED. *)
Filing == {"move", "unlink", "update"}
PerFile == {"stat", "extract", "precheck", "classify", "insert", "duplicate",
            "block", "recordMoved", "recordUnmoved"} \cup Filing
Places == {"idle", "walk", "prune", "loop"} \cup PerFile

TypeOK ==
    /\ loc \in [Files -> SUBSET Folders]
    /\ row \in [Contents -> {"none", "PENDING", "MOVED"}]
    /\ fileOf \in [Contents -> Files \cup {NoFile}]
    /\ blkRaws \in [Files -> {"none", "same", "stale"}]
    /\ blkHidden \in [Files -> BOOLEAN]
    /\ lock \in Scanners \cup {NoScanner}
    /\ pc \in [Scanners -> Places]
    /\ list \in [Scanners -> SUBSET Files]
    /\ cur \in [Scanners -> Files \cup {NoFile}]
    /\ \A s \in Scanners : pc[s] \in PerFile => cur[s] \in Files
    /\ faults \in 0 .. MaxFaults

Init ==
    /\ loc = [f \in Files |-> {}]
    /\ row = [c \in Contents |-> "none"]
    /\ fileOf = [c \in Contents |-> NoFile]
    /\ blkRaws = [f \in Files |-> "none"]
    /\ blkHidden = [f \in Files |-> FALSE]
    /\ lock = NoScanner
    /\ pc = [s \in Scanners |-> "idle"]
    /\ list = [s \in Scanners |-> {}]
    /\ cur = [s \in Scanners |-> NoFile]
    /\ faults = 0

Goto(s, place) == pc' = [pc EXCEPT ![s] = place]
InRaws(s)      == "raws" \in loc[cur[s]]
Checksum(s)    == Content[cur[s]]

(* os.Rename of the file in hand out of __raws. *)
MoveTo(s, folder) ==
    loc' = [loc EXCEPT ![cur[s]] = (@ \ {"raws"}) \cup {folder}]

-----------------------------------------------------------------------------
(* The scan *)

(* Mutant: the callers' scans are not kept apart. *)
StartUnlocked(s) ==
    /\ pc[s] = "idle"
    /\ Goto(s, "walk")
    /\ UNCHANGED <<loc, tables, lock, list, cur, faults>>

(* The caller takes the lock, if it takes it at all. *)
Start(s) ==
    /\ pc[s] = "idle"
    /\ \/ s \in LockFree /\ UNCHANGED lock
       \/ s \notin LockFree /\ lock = NoScanner /\ lock' = s
    /\ Goto(s, "walk")
    /\ UNCHANGED <<loc, tables, list, cur, faults>>

(* GetPDFsRecursively: hidden folders are not descended into. *)
Walk(s) ==
    /\ pc[s] = "walk"
    /\ list' = [list EXCEPT ![s] = {f \in Files : "raws" \in loc[f]}]
    /\ Goto(s, "prune")
    /\ UNCHANGED <<loc, tables, lock, cur, faults>>

(* PruneBlockedFiles: rows of paths that the walk has not found. *)
Prune(s) ==
    /\ pc[s] = "prune"
    /\ blkRaws' = [f \in Files |-> IF f \in list[s] THEN blkRaws[f] ELSE "none"]
    /\ blkHidden' = [f \in Files |-> FALSE]
    /\ Goto(s, "loop")
    /\ UNCHANGED <<loc, row, fileOf, lock, list, cur, faults>>

NextFile(s) ==
    /\ pc[s] = "loop"
    /\ \E f \in list[s] :
          /\ cur' = [cur EXCEPT ![s] = f]
          /\ list' = [list EXCEPT ![s] = @ \ {f}]
    /\ Goto(s, "stat")
    /\ UNCHANGED <<loc, tables, lock, faults>>

End(s) ==
    /\ Goto(s, "idle")
    /\ list' = [list EXCEPT ![s] = {}]
    /\ cur' = [cur EXCEPT ![s] = NoFile]
    /\ lock' = IF lock = s THEN NoScanner ELSE lock
    /\ UNCHANGED <<loc, tables>>

Finish(s) ==
    /\ pc[s] = "loop" /\ list[s] = {}
    /\ End(s)
    /\ UNCHANGED faults

-----------------------------------------------------------------------------
(* processFile *)

(* Mutant: any row for the path is taken for a row of this version. *)
StatIgnoringMtime(s) ==
    /\ pc[s] = "stat"
    /\ Goto(s, IF InRaws(s) /\ blkRaws[cur[s]] = "none" THEN "extract" ELSE "loop")
    /\ UNCHANGED <<loc, tables, lock, list, cur, faults>>

(* os.Stat and GetBlockedFile: a file that is gone fails, one that is       *)
(* blocked and the same since is skipped, and one that has changed loses    *)
(* its row.                                                                 *)
Stat(s) ==
    /\ pc[s] = "stat"
    /\ IF InRaws(s) /\ blkRaws[cur[s]] # "same"
       THEN /\ blkRaws' = [blkRaws EXCEPT ![cur[s]] = "none"]
            /\ Goto(s, "extract")
       ELSE /\ Goto(s, "loop")
            /\ UNCHANGED blkRaws
    /\ UNCHANGED <<loc, row, fileOf, blkHidden, lock, list, cur, faults>>

(* ExtractPDFContent, and Golden Rule 3: no text, no document. *)
Extract(s) ==
    /\ pc[s] = "extract"
    /\ \E outcome \in IF InRaws(s) THEN {"precheck", "block"} ELSE {"loop"} :
          Goto(s, outcome)
    /\ UNCHANGED <<loc, tables, lock, list, cur, faults>>

(* GetDocumentByChecksum before the classification. *)
Precheck(s) ==
    /\ pc[s] = "precheck"
    /\ Goto(s, IF row[Checksum(s)] = "none" THEN "classify" ELSE "duplicate")
    /\ UNCHANGED <<loc, tables, lock, list, cur, faults>>

(* ClassifyPDFText, Golden Rule 4 and the quality gate: the model's answer  *)
(* decides, and it takes a while.                                           *)
Classify(s) ==
    /\ pc[s] = "classify"
    /\ \E outcome \in {"insert", "block"} : Goto(s, outcome)
    /\ UNCHANGED <<loc, tables, lock, list, cur, faults>>

(* Mutants: no UNIQUE constraint; every insert error taken for a collision. *)
InsertTwice(s) ==
    /\ pc[s] = "insert"
    /\ row' = [row EXCEPT ![Checksum(s)] = "PENDING"]
    /\ fileOf' = [fileOf EXCEPT ![Checksum(s)] = cur[s]]
    /\ Goto(s, "move")
    /\ UNCHANGED <<loc, blkRaws, blkHidden, lock, list, cur, faults>>
InsertAnyError(s) ==
    /\ pc[s] = "insert"
    /\ Goto(s, "duplicate")
    /\ UNCHANGED <<loc, tables, lock, list, cur, faults>>

(* InsertDocumentRecord; a row that has appeared since the pre-check        *)
(* violates UNIQUE(checksum) and makes the file a duplicate.                *)
Insert(s) ==
    /\ pc[s] = "insert"
    /\ \/ /\ row[Checksum(s)] = "none"
          /\ row' = [row EXCEPT ![Checksum(s)] = "PENDING"]
          /\ fileOf' = [fileOf EXCEPT ![Checksum(s)] = cur[s]]
          /\ Goto(s, "move")
       \/ /\ row[Checksum(s)] # "none"
          /\ Goto(s, "duplicate")
          /\ UNCHANGED <<row, fileOf>>
    /\ UNCHANGED <<loc, blkRaws, blkHidden, lock, list, cur, faults>>

(* Mutant: the relocalizer's error is dropped. *)
LinkIgnoringError(s) ==
    /\ pc[s] = "move"
    /\ loc' = [loc EXCEPT ![cur[s]] = IF InRaws(s) THEN @ \cup {"archive"} ELSE @]
    /\ Goto(s, "update")
    /\ UNCHANGED <<tables, lock, list, cur, faults>>

(* RelocalizeFileIfNeeded links the file into __archive ... *)
Link(s) ==
    /\ pc[s] = "move"
    /\ \/ /\ InRaws(s)
          /\ loc' = [loc EXCEPT ![cur[s]] = @ \cup {"archive"}]
          /\ Goto(s, "unlink")
       \/ /\ ~InRaws(s)
          /\ Goto(s, "loop")
          /\ UNCHANGED loc
    /\ UNCHANGED <<tables, lock, list, cur, faults>>

(* Mutant: the row is never updated. *)
UnlinkLast(s) ==
    /\ pc[s] = "unlink"
    /\ loc' = [loc EXCEPT ![cur[s]] = @ \ {"raws"}]
    /\ Goto(s, "loop")
    /\ UNCHANGED <<tables, lock, list, cur, faults>>

(* ... and removes its old name, which is an error when that is gone. *)
Unlink(s) ==
    /\ pc[s] = "unlink"
    /\ Goto(s, IF InRaws(s) THEN "update" ELSE "loop")
    /\ loc' = [loc EXCEPT ![cur[s]] = @ \ {"raws"}]
    /\ UNCHANGED <<tables, lock, list, cur, faults>>

(* UpdateDocumentRecord. *)
Update(s) ==
    /\ pc[s] = "update"
    /\ row' = [row EXCEPT ![Checksum(s)] = "MOVED"]
    /\ Goto(s, "loop")
    /\ UNCHANGED <<loc, fileOf, blkRaws, blkHidden, lock, list, cur, faults>>

(* MoveDuplicateFileToDuplicatesFolder; a failure is only reported. *)
Duplicate(s) ==
    /\ pc[s] = "duplicate"
    /\ IF InRaws(s) THEN MoveTo(s, "duplicates") ELSE UNCHANGED loc
    /\ Goto(s, "loop")
    /\ UNCHANGED <<tables, lock, list, cur, faults>>

(* MoveBlockedFileToBlockedFolder; when it fails the row names __raws. *)
Block(s) ==
    /\ pc[s] = "block"
    /\ \/ /\ InRaws(s)
          /\ MoveTo(s, "blocked")
          /\ Goto(s, "recordMoved")
          /\ UNCHANGED faults
       \/ /\ Goto(s, "recordUnmoved")
          /\ IF InRaws(s) THEN faults < MaxFaults /\ faults' = faults + 1
                          ELSE UNCHANGED faults
          /\ UNCHANGED loc
    /\ UNCHANGED <<tables, lock, list, cur>>

(* UpsertBlockedFile. *)
Record(s) ==
    /\ \/ /\ pc[s] = "recordMoved"
          /\ blkHidden' = [blkHidden EXCEPT ![cur[s]] = TRUE]
          /\ UNCHANGED blkRaws
       \/ /\ pc[s] = "recordUnmoved"
          /\ blkRaws' = [blkRaws EXCEPT ![cur[s]] = "same"]
          /\ UNCHANGED blkHidden
    /\ Goto(s, "loop")
    /\ UNCHANGED <<loc, row, fileOf, lock, list, cur, faults>>

-----------------------------------------------------------------------------
(* Faults *)

(* fileFailure: a call about this file fails, and the scan goes on with the *)
(* next one.                                                                *)
FileFails(s) ==
    /\ faults < MaxFaults
    /\ pc[s] \in PerFile
    /\ Goto(s, "loop")
    /\ faults' = faults + 1
    /\ UNCHANGED <<loc, tables, lock, list, cur>>

(* The scan ends early (Ollama down, a stop, an error outside of the files) *)
(* or its process dies; a dead process has lost the lock.                   *)
Interrupted(s) ==
    /\ faults < MaxFaults
    /\ pc[s] # "idle"
    /\ End(s)
    /\ faults' = faults + 1

-----------------------------------------------------------------------------
(* The user *)

(* A file is dropped into __raws, or put back there. *)
Drop(f) ==
    /\ loc[f] \in {{}, {"duplicates"}, {"blocked"}}
    /\ loc' = [loc EXCEPT ![f] = {"raws"}]
    /\ UNCHANGED <<tables, lock, pc, list, cur, faults>>

(* A file that is blocked in __raws is saved again. *)
Touch(f) ==
    /\ "raws" \in loc[f] /\ blkRaws[f] = "same"
    /\ blkRaws' = [blkRaws EXCEPT ![f] = "stale"]
    /\ UNCHANGED <<loc, row, fileOf, blkHidden, lock, pc, list, cur, faults>>

-----------------------------------------------------------------------------

Steps(s) ==
    \/ Walk(s) \/ Prune(s) \/ NextFile(s) \/ Finish(s)
    \/ Stat(s) \/ Extract(s) \/ Precheck(s) \/ Classify(s) \/ Insert(s)
    \/ Link(s) \/ Unlink(s) \/ Update(s) \/ Duplicate(s) \/ Block(s) \/ Record(s)

Next ==
    \/ \E s \in Scanners : Start(s) \/ Steps(s) \/ FileFails(s) \/ Interrupted(s)
    \/ \E f \in Files : Drop(f) \/ Touch(f)

Spec == Init /\ [][Next]_vars

(* A scan that runs goes on, and scanners keep coming: the auto-watcher     *)
(* starts one every ten seconds.                                            *)
FairSpec == Spec /\ \A s \in Scanners : WF_vars(Steps(s)) /\ WF_vars(Start(s))

-----------------------------------------------------------------------------
(* Properties *)

SameContent(f, g) == Content[f] = Content[g]

(* Checksum dedup: whatever fails and however many scans interleave, the    *)
(* archive gets each content once.                                          *)
ArchivedOnce ==
    \A f, g \in Files : SameContent(f, g) /\ "archive" \in loc[f] /\ "archive" \in loc[g]
                            => f = g

(* A row says MOVED only when its file is in the archive.                   *)
MovedRowHasFile ==
    \A c \in Contents : row[c] = "MOVED" =>
        fileOf[c] \in Files /\ "archive" \in loc[fileOf[c]]

(* "A row already owns this checksum, so the incoming file is moved to      *)
(* __raws/.duplicates_files" (checksum.go:15-16): no other reason.          *)
ParkedIsKnown == \A f \in Files : "duplicates" \in loc[f] => row[Content[f]] # "none"

(* "It parks an incoming duplicate" (helpers.go:21): a file is in           *)
(* .duplicates_files because another one with its content is archived.      *)
NeverOnlyParked ==
    \A f \in Files : "duplicates" \in loc[f] =>
        \E g \in Files \ {f} : SameContent(f, g) /\ "archive" \in loc[g]

(* As long as nothing fails and every scanner takes the lock, it is so ...  *)
ParkedHasTwinUnlessFault == LockFree = {} /\ faults = 0 => NeverOnlyParked

(* ... and a row is PENDING only while a scan is filing its file.           *)
NoStrandedRowUnlessFault ==
    LockFree = {} /\ faults = 0 =>
        \A c \in Contents : row[c] = "PENDING" =>
            \E s \in Scanners : pc[s] \in Filing /\ cur[s] = fileOf[c]

(* "The file is never left in __raws to be re-classified by every           *)
(* subsequent auto-watcher tick" (triagescan.go:33-35): it leaves, or is    *)
(* recorded as blocked and unchanged.                                       *)
LeavesRaws ==
    \A f \in Files : "raws" \in loc[f] ~> "raws" \notin loc[f] \/ blkRaws[f] = "same"
=============================================================================

----------------------------- MODULE FolderTidy -----------------------------
(***************************************************************************)
(* The folders files leave behind. Every move out of a folder removes it    *)
(* when it is empty, and the folder above it (app/relocalize); a scan ends  *)
(* with a walk that removes the empty folders of __raws (app/triagescan);   *)
(* a clear moves back what lies in __archive, with a row or without one,    *)
(* and removes the folders (app/clear). Requests move files and the user    *)
(* drops some while a walk is under way. os.Remove refuses a folder that is *)
(* not empty, so a look and the removal after it are one step; RemoveAll    *)
(* does not, and is a step of its own. How a file gets its name is FileMove.*)
(***************************************************************************)
EXTENDS Naturals, Sequences, FiniteSets, SequencesExt

CONSTANTS
  Folders,       \* the folders there may be; Above[d] is the one that holds d,
  Above,         \*   "" for the two roots
  InputDir, OutputRootDir,
  Spared,        \* folders the clean-up passes by: hidden ones, duplicates, blocked
  TrashDir,      \* one of them
  Papers, Junk,  \* documents; Thumbs.db, .DS_Store, desktop.ini
  Requests,      \* requests that move a document, none of which takes the scan lock
  MaxMoves, MaxRefusals \* bounds: moves begun, calls the file system refuses

\* Two trees of folders; every folder is below one of the roots.
ASSUME TidyAssumption ==
  /\ Above \in [Folders -> Folders \cup {""}] /\ {d \in Folders : Above[d] = ""} = {InputDir, OutputRootDir}
  /\ \A S \in SUBSET Folders : S # {} => \E d \in S : Above[d] \notin S
  /\ {InputDir, OutputRootDir} \subseteq Folders /\ InputDir # OutputRootDir
  /\ Spared \subseteq Folders \ {InputDir, OutputRootDir} /\ TrashDir \in Spared /\ Above[TrashDir] = InputDir
  /\ Papers \cap Junk = {} /\ (Papers \cup Junk) \cap Folders = {}
  /\ {"", "nowhere", "deleted"} \cap Folders = {}

VARIABLES
  there,         \* the folders that exist
  lies,          \* per file: its folder, "nowhere" yet, or "deleted"
  mover,         \* per request: where it is, its file, from where to where
  walk,          \* the clean-up or the clear under way: the folders it is in with the
                 \*   entries left of each, and the rows a clear has read
  snatched,      \* history: files dropped between the last look and the RemoveAll
  disturbed,     \* history: since the walk began someone else moved a file, or a removal failed
  moves, refusals

tidyVars == <<there, lies, mover, walk, snatched, disturbed, moves, refusals>>

\* A folder, and every folder above it.
Upwards(S) == \A d \in S : Above[d] # "" => Above[d] \in S
Path[d \in Folders] == {e \in Folders : \A S \in SUBSET Folders : d \in S /\ Upwards(S) => e \in S}
In(root) == {d \in Folders : root \in Path[d]}
Visible(d) == Path[d] \cap Spared = {}

FilesIn(d) == {f \in Papers \cup Junk : lies[f] = d}
FoldersIn(d) == {e \in there : Above[e] = d}
Entries(d) == FilesIn(d) \cup FoldersIn(d)

\* dirIsEmpty, then os.Remove.
Emptied(d) == d \in there /\ Entries(d) = {}
Without(d) == IF Emptied(d) THEN there \ {d} ELSE there

\* EnsureDirectoriesExist
Managed == {InputDir, OutputRootDir} \cup {d \in Spared : Above[d] = InputDir}

IdleMover == [pc |-> "idle", file |-> "", from |-> "", to |-> ""]
NoWalk == [op |-> "none", pc |-> "none", stack |-> <<>>, rows |-> {}, from |-> "", back |-> ""]

TidyInit ==
  /\ lies \in [Papers \cup Junk -> {"nowhere"} \cup {d \in Folders : Visible(d)}]
  /\ \E bare \in {{}, {d \in Folders : Visible(d)}} :
       there = Managed \cup UNION {Path[d] : d \in bare \cup ({lies[f] : f \in Papers \cup Junk} \ {"nowhere"})}
  /\ mover = [m \in Requests |-> IdleMover] /\ walk = NoWalk
  /\ snatched = {} /\ disturbed = FALSE /\ moves = 0 /\ refusals = 0

-----------------------------------------------------------------------------
(* Requests and the user.                                                   *)

\* A document goes to a folder of the archive or to the trash, which are made, or
\* back to __raws, which is not.
BeginMoving(m) ==
  /\ mover[m].pc = "idle" /\ moves < MaxMoves /\ moves' = moves + 1
  /\ \E f \in Papers, to \in (In(OutputRootDir) \ {OutputRootDir}) \cup {TrashDir, InputDir} :
       /\ lies[f] \in Folders /\ Visible(lies[f]) /\ lies[f] # to
       /\ mover' = [mover EXCEPT ![m] =
            [pc |-> IF to = InputDir THEN "link" ELSE "mkdir", file |-> f, from |-> lies[f], to |-> to]]
  /\ UNCHANGED <<there, lies, walk, snatched, disturbed, refusals>>

Turned(m, pc) == mover' = [mover EXCEPT ![m].pc = pc]

\* MkdirAll, unless the folder is there.
MakeTarget(m) ==
  /\ mover[m].pc = "mkdir" /\ Turned(m, "link")
  /\ there' = there \cup Path[mover[m].to] /\ disturbed' = TRUE
  /\ UNCHANGED <<lies, walk, snatched, moves, refusals>>

\* The move fails when its file or its folder has gone meanwhile.
MoveFile(m) ==
  LET f == mover[m].file
      can == lies[f] = mover[m].from /\ mover[m].to \in there
  IN /\ mover[m].pc = "link" /\ Turned(m, IF can THEN "tidy" ELSE "idle")
     /\ lies' = IF can THEN [lies EXCEPT ![f] = mover[m].to] ELSE lies
     /\ disturbed' = TRUE
     /\ UNCHANGED <<there, walk, snatched, moves, refusals>>

\* removeEmptyDirAndParent: the folder, and the one above it only if the first went.
LeaveFolder(m) ==
  LET from == mover[m].from
  IN /\ mover[m].pc \in {"tidy", "above"}
     /\ LET d == IF mover[m].pc = "tidy" THEN from ELSE Above[from]
        IN /\ there' = Without(d)
           /\ Turned(m, IF mover[m].pc = "tidy" /\ Emptied(d) /\ Above[d] # "" THEN "above" ELSE "idle")
     /\ disturbed' = TRUE
     /\ UNCHANGED <<lies, walk, snatched, moves, refusals>>

LookedAt == IF walk.pc = "remove" THEN {Last(walk.stack).dir} ELSE {}

\* The user drops a file into __raws, or a folder with a file in it.
UserDrops(f) ==
  /\ lies[f] = "nowhere"
  /\ \E d \in In(InputDir) :
       /\ Visible(d)
       /\ lies' = [lies EXCEPT ![f] = d] /\ there' = there \cup Path[d]
       /\ snatched' = IF LookedAt \cap Path[d] # {} THEN snatched \cup {f} ELSE snatched
  /\ disturbed' = TRUE
  /\ UNCHANGED <<mover, walk, moves, refusals>>

-----------------------------------------------------------------------------
(* The two walks, one at a time: both are made under the scan lock.         *)

Busy == \E m \in Requests : mover[m].pc # "idle"
Top == Last(walk.stack)
OnTop(left) == [walk.stack EXCEPT ![Len(walk.stack)].left = left]
WalkOnly == UNCHANGED <<mover, snatched, moves>>

\* Mutant: only the files of a folder are looked at.
NoFilesIn(d) == d \in there /\ FilesIn(d) \subseteq Junk
\* What is in a folder the clean-up has left: nothing, or files nobody misses.
OnlyJunk(d) == d \in there /\ Entries(d) \subseteq Junk

Subfolders(d) == FoldersIn(d) \ Spared

\* CleanEmptyDirectories, the folders in it first.
StartClean ==
  /\ walk.op = "none"
  /\ walk' = [NoWalk EXCEPT !.op = "clean", !.pc = "next", !.stack = <<[dir |-> InputDir, left |-> Subfolders(InputDir)]>>]
  /\ disturbed' = Busy
  /\ WalkOnly /\ UNCHANGED <<there, lies, refusals>>

EnterSubfolder ==
  /\ walk.op = "clean" /\ walk.pc = "next"
  /\ \E d \in Top.left :
       walk' = [walk EXCEPT !.stack = Append(OnTop(Top.left \ {d}), [dir |-> d, left |-> Subfolders(d)])]
  /\ WalkOnly /\ UNCHANGED <<there, lies, refusals, disturbed>>

LookAtFolder ==
  /\ walk.op = "clean" /\ walk.pc = "next" /\ Top.left = {} /\ Len(walk.stack) > 1
  /\ walk' = IF OnlyJunk(Top.dir) THEN [walk EXCEPT !.pc = "remove"]
             ELSE [walk EXCEPT !.stack = Front(@)]
  /\ WalkOnly /\ UNCHANGED <<there, lies, refusals, disturbed>>

Refuse == refusals < MaxRefusals /\ refusals' = refusals + 1

\* RemoveAll, whatever is in it by now.
RemoveFolder ==
  /\ walk.pc = "remove"
  /\ there' = there \ In(Top.dir)
  /\ lies' = [f \in DOMAIN lies |-> IF lies[f] \in In(Top.dir) THEN "deleted" ELSE lies[f]]
  /\ walk' = [walk EXCEPT !.pc = "next", !.stack = Front(@)]
  /\ WalkOnly /\ UNCHANGED <<refusals, disturbed>>

\* RemoveAll fails, when some of the files may be gone; that is logged and no more.
RemovalFails ==
  /\ walk.pc = "remove" /\ Refuse /\ disturbed' = TRUE
  /\ \E gone \in SUBSET {f \in DOMAIN lies : lies[f] \in In(Top.dir)} :
       lies' = [f \in DOMAIN lies |-> IF f \in gone THEN "deleted" ELSE lies[f]]
  /\ walk' = [walk EXCEPT !.pc = "next", !.stack = Front(@)]
  /\ WalkOnly /\ UNCHANGED there

CleanIsDone == walk.op = "clean" /\ Len(walk.stack) = 1 /\ Top.left = {}
EndClean == CleanIsDone /\ walk' = NoWalk /\ WalkOnly /\ UNCHANGED <<there, lies, refusals, disturbed>>

\* ClearRegistryAndMoveArchiveToRaws: the folders are made, the rows are read.
StartClear ==
  /\ walk.op = "none"
  /\ there' = there \cup Managed
  /\ \E rows \in SUBSET {f \in Papers : lies[f] \in In(OutputRootDir)} :
       walk' = [NoWalk EXCEPT !.op = "clear", !.pc = "rows", !.rows = rows]
  /\ disturbed' = Busy
  /\ WalkOnly /\ UNCHANGED <<lies, refusals>>

\* MoveBackToRaws of a file that is where the walk has seen it; one that is not, or
\* that cannot be moved, is passed by.
MoveBack(f, from, after) ==
  \/ /\ lies[f] = from
     /\ lies' = [lies EXCEPT ![f] = InputDir]
     /\ walk' = [after EXCEPT !.pc = "tidy", !.from = from, !.back = after.pc]
     /\ UNCHANGED <<there, refusals>>
  \/ /\ \/ lies[f] # from /\ UNCHANGED refusals
        \/ Refuse
     /\ walk' = after /\ UNCHANGED <<there, lies>>

ClearRow ==
  /\ walk.pc = "rows"
  /\ \E f \in walk.rows :
       LET after == [walk EXCEPT !.rows = @ \ {f}]
       IN IF lies[f] \in In(OutputRootDir) THEN MoveBack(f, lies[f], after)
          ELSE walk' = after /\ UNCHANGED <<there, lies, refusals>>
  /\ WalkOnly /\ UNCHANGED disturbed

\* removeEmptyDirAndParent, for a file the walk has moved.
WalkLeaves ==
  /\ walk.pc \in {"tidy", "above"}
  /\ LET d == IF walk.pc = "tidy" THEN walk.from ELSE Above[walk.from]
     IN /\ there' = Without(d)
        /\ walk' = [walk EXCEPT !.pc = IF walk.pc = "tidy" /\ Emptied(d) /\ Above[d] # "" THEN "above" ELSE walk.back]
  /\ WalkOnly /\ UNCHANGED <<lies, refusals, disturbed>>

\* PurgeAll, which may fail and end the clear, and the list of the archive, which
\* may fail too.
RowsCleared ==
  /\ walk.pc = "rows" /\ walk.rows = {}
  /\ \/ walk' = [walk EXCEPT !.pc = "next", !.stack = <<[dir |-> OutputRootDir, left |-> Entries(OutputRootDir)]>>]
        /\ UNCHANGED refusals
     \/ Refuse /\ walk' = NoWalk
  /\ WalkOnly /\ UNCHANGED <<there, lies, disturbed>>

\* moveOrphansAndRemoveEmptyDirs: each entry of the list, a folder by its own list.
ClearEntry ==
  /\ walk.op = "clear" /\ walk.pc = "next"
  /\ \E e \in Top.left :
       LET after == [walk EXCEPT !.stack = OnTop(Top.left \ {e})]
       IN IF e \in Folders
          THEN /\ \/ walk' = [after EXCEPT !.stack = Append(@, [dir |-> e, left |-> Entries(e)])]
                     /\ UNCHANGED refusals
                  \/ Refuse /\ walk' = after
               /\ UNCHANGED <<there, lies>>
          ELSE MoveBack(e, Top.dir, after)
  /\ WalkOnly /\ UNCHANGED disturbed

\* Mutant: the folder that was walked through stays.
LeaveItStanding ==
  /\ walk.op = "clear" /\ walk.pc = "next" /\ Top.left = {}
  /\ walk' = IF Len(walk.stack) > 1 THEN [walk EXCEPT !.stack = Front(@)] ELSE [walk EXCEPT !.pc = "ensure"]
  /\ WalkOnly /\ UNCHANGED <<there, lies, refusals, disturbed>>

ClearLeavesFolder ==
  /\ walk.op = "clear" /\ walk.pc = "next" /\ Top.left = {}
  /\ IF Len(walk.stack) > 1
     THEN there' = Without(Top.dir) /\ walk' = [walk EXCEPT !.stack = Front(@)]
     ELSE walk' = [walk EXCEPT !.pc = "ensure"] /\ UNCHANGED there
  /\ WalkOnly /\ UNCHANGED <<lies, refusals, disturbed>>

\* Mutant: the folders are not made again.
NotEnsured ==
  /\ walk.pc = "ensure" /\ walk' = [walk EXCEPT !.pc = "cleared"]
  /\ WalkOnly /\ UNCHANGED <<there, lies, refusals, disturbed>>

EnsureDirectories ==
  /\ walk.pc = "ensure" /\ walk' = [walk EXCEPT !.pc = "cleared"]
  /\ there' = there \cup Managed
  /\ WalkOnly /\ UNCHANGED <<lies, refusals, disturbed>>

EndClear == walk.pc = "cleared" /\ walk' = NoWalk /\ WalkOnly /\ UNCHANGED <<there, lies, refusals, disturbed>>

TidyNext ==
  \/ \E m \in Requests : BeginMoving(m) \/ MakeTarget(m) \/ MoveFile(m) \/ LeaveFolder(m)
  \/ \E f \in Papers \cup Junk : UserDrops(f)
  \/ StartClean \/ EnterSubfolder \/ LookAtFolder \/ RemoveFolder \/ RemovalFails \/ EndClean
  \/ StartClear \/ ClearRow \/ WalkLeaves \/ RowsCleared \/ ClearEntry
  \/ ClearLeavesFolder \/ EnsureDirectories \/ EndClear

TidySpec == TidyInit /\ [][TidyNext]_tidyVars

-----------------------------------------------------------------------------
(* Properties.                                                              *)

(* No clean-up deletes a document, but one that was dropped into a folder   *)
(* after CleanEmptyDirectories had looked at it for the last time.          *)
NothingDeleted == \A f \in Papers : lies[f] = "deleted" => f \in snatched

(* The folders the program works with are there whenever a walk looks for   *)
(* them, and no file is left in a folder that is not.                       *)
FoldersStand ==
  /\ Managed \ {OutputRootDir} \subseteq there
  /\ \A d \in there : Path[d] \subseteq there
  /\ \A f \in DOMAIN lies : lies[f] \in Folders => lies[f] \in there

(* A scan that nobody disturbed, and whose removals all succeeded, leaves   *)
(* no empty folder in __raws.                                               *)
CleanLeavesNone ==
  CleanIsDone /\ ~disturbed =>
    \A d \in In(InputDir) \ {InputDir} : Visible(d) => ~OnlyJunk(d)

(* A clear that nobody disturbed and nothing refused leaves an __archive    *)
(* without a file or a folder, whatever had a row: but it leaves one.       *)
ClearLeavesRoot ==
  walk.pc = "cleared" /\ ~disturbed /\ refusals = 0 =>
    OutputRootDir \in there /\ Entries(OutputRootDir) = {}

FoldersTidied == NothingDeleted /\ FoldersStand /\ CleanLeavesNone /\ ClearLeavesRoot
=============================================================================

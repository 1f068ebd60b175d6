----------------------------- MODULE FilingPath -----------------------------
(***************************************************************************)
(* Where a document is filed and under which name (canonicalpath), and who  *)
(* moves it there: the triage that files it (relocalize.go), the repair     *)
(* that puts each document of the archive at its place again (repair.go),   *)
(* the edit of its row and the renaming of a subcategory (httpapi           *)
(* documents_write_docs.go). A path is a folder and a name; a name is a     *)
(* stem and the stamp a collision has added to it (0: none). Of the text of *)
(* a path only what decides a move is kept: letter case, accents and the    *)
(* cut of a long title are not.                                             *)
(***************************************************************************)
EXTENDS Integers, Sequences, FiniteSets, SequencesExt

CONSTANTS
  Docs,          \* documents; Given[d] is the name d has in __raws
  Given,
  CodeNames,     \* names of scanners, hashes, numbers: generic with a stamp as well
  EndNames,      \* last words that make a name generic until a stamp follows (_copy, _dup)
  BareNames,     \* facture, invoice, ...: generic once a number follows
  YearNames,     \* subcategories that are years
  InitialBranches, \* pairs <<category, subcategory>> of the taxonomy
  Classified,    \* rows a classification may give to a document
  ByRules,       \* per document: what the rules make of it
  Edits,         \* rows an edit may give to a document; a date of 0 clears it
  Renames,       \* requests to rename a subcategory
  Calendar,      \* the days of a behaviour; a date is its year times ten and a day
  MaxEdits,      \* bound: edits, renamings, rows lost and files that cannot be read
  MaxStamps      \* bound: collisions

\* What a row says of the filing; a date is 0 when there is none.
DocumentRows == [category : STRING, subcategory : STRING, date : Nat, title : Seq(STRING)]
ASSUME FilingAssumption ==
  /\ Classified \cup Edits \subseteq DocumentRows /\ ByRules \in [Docs -> DocumentRows]
  /\ InitialBranches \subseteq STRING \X STRING /\ Renames \subseteq [category : STRING, old : STRING, new : STRING]
  /\ Calendar \in Seq(Nat \ {0}) /\ Calendar # <<>>

VARIABLES
  rows,      \* per document: its row, or NoRow
  files,     \* per document: the folder and the name it has on the disk
  branches,  \* the taxonomy
  day,       \* index into Calendar
  stamps,    \* collisions so far
  renaming,  \* the renaming of a subcategory under way, and the rows it has read
  edits,
  walking,   \* the places the walk of a repair has listed and not come to yet
  settled    \* history: repaired, and since then neither its row, nor the taxonomy,
             \* nor (for a document without a date) the day has changed

filingVars == <<rows, files, branches, day, stamps, renaming, edits, walking, settled>>

NoRow == [category |-> "", subcategory |-> "", date |-> 0, title |-> <<>>]
Raws == [category |-> "__raws", subcategory |-> "", year |-> 0]
GivenName(d) == [stem |-> [date |-> 0, entity |-> "", words |-> <<Given[d]>>], stamp |-> 0]
Nowhere == [d \in {} |-> NoRow]
NotRenaming == [category |-> "", old |-> "", new |-> "", left |-> {}, seen |-> Nowhere, at |-> Nowhere]

Filed == {d \in Docs : files[d].folder # Raws}
Indexed == {d \in Filed : rows[d] # NoRow}

FilingInit ==
  /\ rows = [d \in Docs |-> NoRow]
  /\ files = [d \in Docs |-> [folder |-> Raws, name |-> GivenName(d)]]
  /\ branches = InitialBranches
  /\ day = 1 /\ stamps = 0 /\ edits = 0 /\ settled = {}
  /\ walking = {} /\ renaming = NotRenaming

-----------------------------------------------------------------------------
(* The path of a document.                                                  *)

Vague == {"", "general", "other", "divers"}
IsForbidden(sub) == sub \in Vague \cup YearNames

\* Mutant: a stamp is read as a part of the name like any other.
GenericWhateverStamp(name) ==
  Last(name.stem.words) \in CodeNames \cup EndNames \cup BareNames

\* Mutant: every name is made again.
GenericAlways(name) == TRUE

IsGenericFilename(name) ==
  LET word == Last(name.stem.words)
      made == name.stem.date # 0
  IN \/ ~made /\ word \in CodeNames
     \/ ~made /\ word \in BareNames /\ name.stamp # 0
     \/ word \in EndNames /\ name.stamp = 0

\* A date is read when its year is of this century; another one is as good as none.
DateOr(date, otherwise) == IF date \div 10 >= 2000 THEN date ELSE otherwise
Today == Calendar[day]

Entity(row) ==
  IF ~IsForbidden(row.subcategory) THEN row.subcategory
  ELSE IF row.category # "" THEN row.category ELSE "other"

\* What a title says, without the words the name has already.
TitleWords(row) ==
  LET words == SelectSeq(row.title, LAMBDA w : w # Entity(row))
  IN IF words = <<>> THEN <<"Document">> ELSE words

IntelligentName(row, name) ==
  IF row.title = <<>> \/ ~IsGenericFilename(name) THEN name
  ELSE [stem |-> [date |-> DateOr(row.date, Today), entity |-> Entity(row), words |-> TitleWords(row)],
        stamp |-> 0]

FolderOf(row) ==
  [category |-> IF row.category = "" THEN "other" ELSE row.category,
   subcategory |-> IF row.subcategory \in YearNames \cup {""} THEN "general" ELSE row.subcategory,
   year |-> DateOr(row.date, Today) \div 10]

ComputeCanonicalPath(row, name) ==
  [folder |-> FolderOf(row), name |-> IntelligentName(row, name)]

\* The owner of a subcategory when there is one only, or the category it is in already.
Owners(sub) == {b[1] : b \in {c \in branches : c[2] = sub /\ ~IsForbidden(sub)}}

CanonicalCategory(row) ==
  LET owners == Owners(row.subcategory)
  IN IF row.category \notin owners /\ Cardinality(owners) = 1
     THEN CHOOSE c \in owners : TRUE
     ELSE row.category

-----------------------------------------------------------------------------
(* Moves.                                                                   *)

\* A file at its place stays; one that finds its place taken gets a stamp.
MoveTo(d, target) ==
  LET taken == \E e \in Docs \ {d} : files[e] = target
  IN IF target = files[d] THEN UNCHANGED <<files, stamps>>
     ELSE /\ taken => stamps < MaxStamps
          /\ stamps' = IF taken THEN stamps + 1 ELSE stamps
          /\ files' = [files EXCEPT ![d] = IF taken THEN [target EXCEPT !.name.stamp = stamps'] ELSE target]

RelocalizeFileIfNeeded(d, row) == MoveTo(d, ComputeCanonicalPath(row, files[d].name))

\* MoveBackToRaws: the row goes with the file.
MoveBackToRaws(d) ==
  /\ MoveTo(d, [folder |-> Raws, name |-> files[d].name])
  /\ rows' = [rows EXCEPT ![d] = NoRow]
  /\ settled' = settled \ {d}

\* The triage files a document; its title and its row come from one classification,
\* and one that names no subcategory is not filed.
FileNew(d) ==
  /\ d \notin Filed
  /\ \E row \in Classified :
       /\ ~IsForbidden(row.subcategory)
       /\ rows' = [rows EXCEPT ![d] = row]
       /\ RelocalizeFileIfNeeded(d, row)
  /\ settled' = settled \ {d}
  /\ UNCHANGED <<branches, day, renaming, edits, walking>>

\* repairExisting: a row that says too little is classified by the rules, or its file
\* goes back to __raws; any other goes to the category that owns its subcategory.
SaysTooLittle(row) == row.subcategory \in Vague \/ row.category = "personal"
RowRepaired(d, row) ==
  IF SaysTooLittle(row)
  THEN [row EXCEPT !.category = ByRules[d].category, !.subcategory = ByRules[d].subcategory]
  ELSE [row EXCEPT !.category = CanonicalCategory(row)]
GoesBack(d, row) == SaysTooLittle(row) /\ ByRules[d].subcategory \in Vague \ {""}

\* Before the walk a repair writes every year as "general", and purges the rows of files
\* it does not find: those a failed write has left under a path of before (lost).
Normalized(row) ==
  IF row.subcategory \in YearNames THEN [row EXCEPT !.subcategory = "general"] ELSE row

\* RepairRegistry begins; a repair before it has ended or has died.
RepairBegins ==
  /\ \E lost \in {{}} \cup {{d} : d \in Indexed} :
       /\ lost # {} => edits < MaxEdits
       /\ edits' = edits + Cardinality(lost)
       /\ rows' = [d \in Docs |-> IF d \in lost THEN NoRow ELSE Normalized(rows[d])]
       /\ settled' = settled \ lost
  /\ walking' = {files[d] : d \in Filed}
  /\ UNCHANGED <<files, branches, day, stamps, renaming>>

\* repairArchiveFile: the file that is now at a listed place.
WalkReaches(d) == d \in Filed /\ files[d] \in walking /\ walking' = walking \ {files[d]}

\* What the rules name may be a branch the taxonomy has elsewhere: that document is
\* put right by the next repair only. One whose subcategory is owned by personal goes
\* there, and one renamed to a year since the walk began stays: both are for the rules
\* the next time.
SettledWith(d) ==
  LET row == RowRepaired(d, rows[d])
  IN IF CanonicalCategory(row) = row.category /\ (SaysTooLittle(Normalized(row)) => SaysTooLittle(rows[d]))
     THEN settled \cup {d} ELSE settled \ {d}

\* Mutant: the file is moved by the row as it was.
RepairByOldRow(d) ==
  /\ WalkReaches(d) /\ rows[d] # NoRow
  /\ IF GoesBack(d, rows[d])
     THEN MoveBackToRaws(d)
     ELSE /\ RelocalizeFileIfNeeded(d, rows[d])
          /\ rows' = [rows EXCEPT ![d] = RowRepaired(d, rows[d])] /\ settled' = SettledWith(d)
  /\ UNCHANGED <<branches, day, renaming, edits>>

\* The row is written before the file is moved, and the move may fail.
RepairExisting(d) ==
  /\ WalkReaches(d) /\ rows[d] # NoRow
  /\ IF GoesBack(d, rows[d])
     THEN MoveBackToRaws(d)
     ELSE /\ rows' = [rows EXCEPT ![d] = RowRepaired(d, rows[d])]
          /\ \/ RelocalizeFileIfNeeded(d, RowRepaired(d, rows[d])) /\ settled' = SettledWith(d)
             \/ UNCHANGED <<files, stamps>> /\ settled' = settled \ {d}
  /\ UNCHANGED <<branches, day, renaming, edits>>

\* repairUnindexed: a file without a row is classified and filed like a new one; the only
\* ones left untitled are those whose name has no word, and it is their title. The insert
\* may fail, which is only logged.
RepairUnindexed(d) ==
  /\ WalkReaches(d) /\ rows[d] = NoRow
  /\ \E row \in Classified :
       IF row.subcategory \in Vague THEN MoveBackToRaws(d)
       ELSE /\ RelocalizeFileIfNeeded(d, row)
            /\ LET titled == IF row.title # <<>> THEN row ELSE [row EXCEPT !.title = <<"Document">>]
               IN rows' \in {rows, [rows EXCEPT ![d] = titled]}
            /\ settled' = settled \ {d}
  /\ UNCHANGED <<branches, day, renaming, edits>>

\* repairArchiveFile: no text can be extracted from the file.
RepairUnreadable(d) ==
  /\ WalkReaches(d) /\ edits < MaxEdits /\ edits' = edits + 1
  /\ MoveBackToRaws(d)
  /\ UNCHANGED <<branches, day, renaming>>

\* Who is settled when the row of d changes, and perhaps the taxonomy.
SettledWithout(d) == IF branches' = branches THEN settled \ {d} ELSE {}

\* PUT /api/documents/{id}: the row first, then the branch, then the file, without its
\* title; a date that is cleared still decides the folder. The move may fail.
PutDocument(d) ==
  /\ d \in Indexed /\ edits < MaxEdits /\ edits' = edits + 1
  /\ \E edit \in Edits :
       /\ ~IsForbidden(edit.subcategory)
       /\ rows' = [rows EXCEPT ![d] = [edit EXCEPT !.title = rows[d].title]]
       /\ \/ UNCHANGED <<files, stamps, branches>>
          \/ /\ branches' = branches \cup {<<edit.category, edit.subcategory>>}
             /\ LET date == IF edit.date = 0 THEN rows[d].date ELSE edit.date
                IN \/ UNCHANGED <<files, stamps>>
                   \/ RelocalizeFileIfNeeded(d, [edit EXCEPT !.date = date, !.title = <<>>])
  /\ settled' = SettledWithout(d)
  /\ UNCHANGED <<day, renaming, walking>>

\* POST /api/subcategories/rename: the taxonomy, then the rows read at once, one after
\* the other. The new name may be one an edit is refused.
RenameSubcategory ==
  /\ renaming.left = {} /\ edits < MaxEdits /\ edits' = edits + 1
  /\ \E r \in Renames :
       /\ branches' = (branches \ {<<r.category, r.old>>}) \cup {<<r.category, r.new>>}
       /\ LET named == {d \in Indexed : rows[d].category = r.category /\ rows[d].subcategory = r.old}
          IN renaming' = IF named = {} THEN NotRenaming
                         ELSE [category |-> r.category, old |-> r.old, new |-> r.new,
                               left |-> named, seen |-> rows, at |-> files]
  /\ settled' = {}
  /\ UNCHANGED <<rows, files, day, stamps, walking>>

\* The path and the date come from the row as it was read; a file that was moved
\* meanwhile is found or not; a row that is gone meanwhile is not written.
RenameNext(d) ==
  LET row == [renaming.seen[d] EXCEPT !.subcategory = renaming.new, !.title = <<>>]
  IN /\ d \in renaming.left
     /\ \/ d \in Filed /\ RelocalizeFileIfNeeded(d, row)
        \/ files[d] # renaming.at[d] /\ UNCHANGED <<files, stamps>>
     /\ rows' = IF d \in Indexed THEN [rows EXCEPT ![d].subcategory = renaming.new] ELSE rows
     /\ settled' = settled \ {d}
     /\ renaming' = IF renaming.left = {d} THEN NotRenaming ELSE [renaming EXCEPT !.left = @ \ {d}]
     /\ UNCHANGED <<branches, day, edits, walking>>

\* A move that fails ends the renaming where it is.
RenameStops ==
  /\ renaming.left # {}
  /\ renaming' = NotRenaming
  /\ UNCHANGED <<rows, files, branches, day, stamps, edits, walking, settled>>

DayPasses ==
  /\ day < Len(Calendar) /\ day' = day + 1
  /\ settled' = {d \in settled : DateOr(rows[d].date, 0) # 0}
  /\ UNCHANGED <<rows, files, branches, stamps, renaming, edits, walking>>

FilingNext ==
  \/ \E d \in Docs :
       \/ FileNew(d) \/ PutDocument(d) \/ RenameNext(d)
       \/ RepairExisting(d) \/ RepairUnindexed(d) \/ RepairUnreadable(d)
  \/ RepairBegins \/ RenameSubcategory \/ RenameStops \/ DayPasses

FilingSpec == FilingInit /\ [][FilingNext]_filingVars

-----------------------------------------------------------------------------
(* Properties.                                                              *)

\* A file is at its place, or has a bare name that a collision has stamped.
AtHome(d, row) ==
  \/ ComputeCanonicalPath(row, files[d].name) = files[d]
  \/ files[d].name.stem = GivenName(d).stem /\ Given[d] \in BareNames /\ files[d].name.stamp # 0

(* A repair has nothing to do twice: what it has put at its place the next  *)
(* repair, which writes years as "general" first, leaves there too, and     *)
(* does not move back, whatever else was filed, moved back, renamed or      *)
(* stamped meanwhile. The exception is a bare name (facture.pdf) that a     *)
(* collision has stamped: the number makes it generic.                      *)
SettledStays ==
  \A d \in settled :
    LET row == Normalized(rows[d])
    IN AtHome(d, RowRepaired(d, row)) /\ ~GoesBack(d, row)

(* A name that says something is kept through every move; only the name of  *)
(* a scanner, a copy or a bare word gives way to one made of the title.     *)
SpeakingNamesStay ==
  \A d \in Docs : Given[d] \notin CodeNames \cup EndNames \cup BareNames =>
    files[d].name.stem = GivenName(d).stem

FiledForGood == SettledStays /\ SpeakingNamesStay
=============================================================================

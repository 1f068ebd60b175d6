-------------------------- MODULE TriageScanProofs --------------------------
(***************************************************************************)
(* For every set of files, whatever their contents, every number of        *)
(* scanners, with or without the scan lock, and every number of faults:    *)
(* the UNIQUE checksum alone keeps the archive free of duplicates, a MOVED *)
(* row has its file, and only known contents are parked as duplicates.     *)
(*                                                                         *)
(* The second part is what the scan lock adds when every scanner takes it: *)
(* until something fails, what is parked has its twin in the archive and   *)
(* no scan leaves a PENDING row behind.                                    *)
(*                                                                         *)
(* The last part is about the tables of the Markdown that Step C makes of  *)
(* a document, for replies of any length: what the repairs may not do.     *)
(***************************************************************************)
EXTENDS TriageScan, TableRepair,
        FiniteSetTheorems, SequenceTheorems, NaturalsInduction, WellFoundedInduction, TLAPS

(* The row a scanner is filing is its own, and still PENDING. *)
FilingOwns ==
    \A s \in Scanners : pc[s] \in Filing =>
        row[Checksum(s)] = "PENDING" /\ fileOf[Checksum(s)] = cur[s]

(* No two scanners file the same content. *)
FilingAlone ==
    \A s1, s2 \in Scanners :
        pc[s1] \in Filing /\ pc[s2] \in Filing /\ Checksum(s1) = Checksum(s2)
            => s1 = s2

(* An archived file is the one its content's row was inserted for. *)
ArchivedOwned ==
    \A f \in Files : "archive" \in loc[f] =>
        row[Content[f]] # "none" /\ fileOf[Content[f]] = f

(* The row is updated after the file has got its name in the archive. *)
UpdateHasFile ==
    \A s \in Scanners : pc[s] \in {"unlink", "update"} => "archive" \in loc[cur[s]]

DuplicateIsKnown ==
    \A s \in Scanners : pc[s] = "duplicate" => row[Checksum(s)] # "none"

IInv ==
    /\ TypeOK /\ FilingOwns /\ FilingAlone /\ ArchivedOwned /\ UpdateHasFile
    /\ DuplicateIsKnown /\ MovedRowHasFile /\ ParkedIsKnown

(* What a step may do to the files of a scan that is not filing: the        *)
(* archive keeps what it has, nothing is added to it, and what is parked is *)
(* of a known content.                                                      *)
ArchiveSame == \A f \in Files : "archive" \in loc'[f] <=> "archive" \in loc[f]
ParkedSame ==
    \A f \in Files : "duplicates" \in loc'[f] =>
        "duplicates" \in loc[f] \/ row[Content[f]] # "none"

-----------------------------------------------------------------------------

(* The checksum of the file in hand is a content. *)
LEMMA ChecksumIsContent ==
    ASSUME TypeOK, NEW s \in Scanners, pc[s] \in PerFile
    PROVE  cur[s] \in Files /\ Checksum(s) \in Contents
  BY DEF TypeOK, Checksum, Contents

(* A step of a scanner keeps the types. *)
LEMMA TypeStep ==
    ASSUME TypeOK, NEW s \in Scanners,
           Start(s) \/ Steps(s) \/ FileFails(s) \/ Interrupted(s)
    PROVE  TypeOK'
  <1> USE DEF Goto, tables
  <1> DEFINE Rest == /\ row' \in [Contents -> {"none", "PENDING", "MOVED"}]
                     /\ fileOf' \in [Contents -> Files \cup {NoFile}]
                     /\ blkRaws' \in [Files -> {"none", "same", "stale"}]
                     /\ blkHidden' \in [Files -> BOOLEAN]
             Control == /\ lock' \in Scanners \cup {NoScanner}
                        /\ list' \in [Scanners -> SUBSET Files]
                        /\ faults' \in 0 .. MaxFaults
             Place == /\ pc' \in [Scanners -> Places]
                      /\ cur' \in [Scanners -> Files \cup {NoFile}]
                      /\ \A q \in Scanners : pc'[q] \in PerFile => cur'[q] \in Files
  <1>1. ASSUME NEW place \in Places, pc[s] \in PerFile \/ place \notin PerFile,
               pc' = [pc EXCEPT ![s] = place], cur' = cur
        PROVE  Place
      BY <1>1 DEF TypeOK
  <1>2. ASSUME NEW folders \in SUBSET Folders, pc[s] \in PerFile,
               loc' = [loc EXCEPT ![cur[s]] = folders]
        PROVE  loc' \in [Files -> SUBSET Folders]
      BY <1>2 DEF TypeOK
  <1>3. CASE Start(s) \/ Walk(s) \/ Prune(s)
    <2>1. Place
      <3>1. PICK place \in {"walk", "prune", "loop"} :
                pc' = [pc EXCEPT ![s] = place] /\ cur' = cur
          BY <1>3 DEF Start, Walk, Prune
      <3> QED
          BY <3>1, <1>1 DEF Places, PerFile, Filing
    <2>2. loc' = loc /\ Rest
      <3>1. CASE Prune(s)
        <4>1. \A f \in Files : blkRaws'[f] \in {"none", "same", "stale"}
            BY <3>1 DEF Prune, TypeOK
        <4>2. /\ blkRaws' \in [Files -> {"none", "same", "stale"}]
              /\ blkHidden' \in [Files -> BOOLEAN]
            BY <3>1, <4>1 DEF Prune
        <4> QED
            BY <3>1, <4>2 DEF Prune, TypeOK
      <3>2. CASE Start(s) \/ Walk(s)
        <4>1. UNCHANGED <<loc, row, fileOf, blkRaws, blkHidden>>
            BY <3>2 DEF Start, Walk
        <4> QED
            BY <4>1 DEF TypeOK
      <3> QED
          BY <1>3, <3>1, <3>2
    <2>3. Control
        BY <1>3 DEF Start, Walk, Prune, TypeOK
    <2> QED
        BY <2>1, <2>2, <2>3 DEF TypeOK
  <1>4. CASE NextFile(s)
    <2>1. PICK f \in list[s] : /\ cur' = [cur EXCEPT ![s] = f]
                               /\ list' = [list EXCEPT ![s] = @ \ {f}]
        BY <1>4 DEF NextFile
    <2>2. f \in Files /\ list[s] \ {f} \in SUBSET Files
        BY <2>1 DEF TypeOK
    <2>3. Place
        BY <1>4, <2>1, <2>2 DEF NextFile, TypeOK, Places, PerFile
    <2>4. loc' = loc /\ Rest /\ Control
        BY <1>4, <2>1, <2>2 DEF NextFile, TypeOK
    <2> QED
        BY <2>3, <2>4 DEF TypeOK
  <1>5. CASE Finish(s) \/ Interrupted(s)
    <2>1. Place
        BY <1>5 DEF Finish, Interrupted, End, TypeOK, Places, PerFile, Filing
    <2>2. loc' = loc /\ Rest /\ Control
        BY <1>5, FaultAssumption DEF Finish, Interrupted, End, TypeOK
    <2> QED
        BY <2>1, <2>2 DEF TypeOK
  <1>6. CASE \/ Stat(s) \/ Extract(s) \/ Precheck(s) \/ Classify(s) \/ Insert(s)
             \/ Update(s) \/ Record(s) \/ FileFails(s)
    <2>1. pc[s] \in PerFile /\ cur' = cur /\ loc' = loc
        BY <1>6
        DEF Stat, Extract, Precheck, Classify, Insert, Update, Record, FileFails,
            PerFile, Filing
    <2>2. PICK place \in {"extract", "loop", "precheck", "block", "duplicate",
                          "classify", "insert", "move"} :
              pc' = [pc EXCEPT ![s] = place]
        BY <1>6
        DEF Stat, Extract, Precheck, Classify, Insert, Update, Record, FileFails
    <2>3. place \in Places
        BY DEF Places, PerFile, Filing
    <2>4. Place
        BY <2>1, <2>2, <2>3, <1>1
    <2>5. Checksum(s) \in Contents /\ cur[s] \in Files
        BY <2>1, ChecksumIsContent
    <2>6. Rest
        BY <1>6, <2>5
        DEF Stat, Extract, Precheck, Classify, Insert, Update, Record, FileFails,
            TypeOK
    <2>7. Control
      <3>1. /\ UNCHANGED <<lock, list>>
            /\ faults' = faults \/ (faults < MaxFaults /\ faults' = faults + 1)
          BY <1>6
          DEF Stat, Extract, Precheck, Classify, Insert, Update, Record, FileFails
      <3>2. /\ lock \in Scanners \cup {NoScanner}
            /\ list \in [Scanners -> SUBSET Files]
            /\ faults \in 0 .. MaxFaults
          BY DEF TypeOK
      <3>3. faults' \in 0 .. MaxFaults
          BY <3>1, <3>2, FaultAssumption
      <3> QED
          BY <3>1, <3>2, <3>3
    <2> QED
        BY <2>1, <2>4, <2>6, <2>7 DEF TypeOK
  <1>7. CASE Link(s) \/ Unlink(s) \/ Duplicate(s) \/ Block(s)
    <2>1. pc[s] \in PerFile /\ cur' = cur
        BY <1>7 DEF Link, Unlink, Duplicate, Block, PerFile, Filing
    <2>2. PICK place \in {"unlink", "loop", "update", "recordMoved",
                          "recordUnmoved"} :
              pc' = [pc EXCEPT ![s] = place]
        BY <1>7 DEF Link, Unlink, Duplicate, Block
    <2>3. place \in Places
        BY DEF Places, PerFile, Filing
    <2>4. Place
        BY <2>1, <2>2, <2>3, <1>1
    <2>5. cur[s] \in Files /\ loc[cur[s]] \in SUBSET Folders
        BY <2>1 DEF TypeOK
    <2>6. loc' \in [Files -> SUBSET Folders]
      <3>1. /\ loc[cur[s]] \cup {"archive"} \in SUBSET Folders
            /\ loc[cur[s]] \ {"raws"} \in SUBSET Folders
            /\ (loc[cur[s]] \ {"raws"}) \cup {"duplicates"} \in SUBSET Folders
            /\ (loc[cur[s]] \ {"raws"}) \cup {"blocked"} \in SUBSET Folders
          BY <2>5 DEF Folders
      <3>2. \/ loc' = loc
            \/ loc' = [loc EXCEPT ![cur[s]] = loc[cur[s]] \cup {"archive"}]
            \/ loc' = [loc EXCEPT ![cur[s]] = loc[cur[s]] \ {"raws"}]
            \/ loc' = [loc EXCEPT ![cur[s]] = (loc[cur[s]] \ {"raws"}) \cup {"duplicates"}]
            \/ loc' = [loc EXCEPT ![cur[s]] = (loc[cur[s]] \ {"raws"}) \cup {"blocked"}]
          BY <1>7 DEF Link, Unlink, Duplicate, Block, MoveTo
      <3>3. loc \in [Files -> SUBSET Folders]
          BY DEF TypeOK
      <3> HIDE DEF Goto, tables
      <3> QED
          BY <3>1, <3>2, <3>3, <2>1, <1>2
    <2>7. UNCHANGED <<row, fileOf, blkRaws, blkHidden, lock, list>>
        BY <1>7 DEF Link, Unlink, Duplicate, Block
    <2>8. faults' = faults \/ (faults < MaxFaults /\ faults' = faults + 1)
        BY <1>7 DEF Link, Unlink, Duplicate, Block
    <2>9. Rest
        BY <2>7 DEF TypeOK
    <2>10. lock' \in Scanners \cup {NoScanner} /\ list' \in [Scanners -> SUBSET Files]
        BY <2>7 DEF TypeOK
    <2>11. faults \in 0 .. MaxFaults
        BY DEF TypeOK
    <2>12. faults' \in 0 .. MaxFaults
        BY <2>8, <2>11, FaultAssumption
    <2> QED
        BY <2>4, <2>6, <2>9, <2>10, <2>12 DEF TypeOK
  <1> QED
      BY <1>3, <1>4, <1>5, <1>6, <1>7 DEF Steps

(* The initial state satisfies the invariant. *)
LEMMA InitInv == Init => IInv
  BY ScannerAssumption, FaultAssumption
  DEF Init, IInv, TypeOK, FilingOwns, FilingAlone, ArchivedOwned, UpdateHasFile,
      DuplicateIsKnown, MovedRowHasFile, ParkedIsKnown, Filing, PerFile, Places,
      Folders

(* The argument for every step that leaves the documents table alone: it    *)
(* suffices that a scanner that is filing, or about to park, after the step *)
(* was so before with the same file, that the archive is the same, and that *)
(* only known contents are parked.                                          *)
LEMMA QuietStep ==
    ASSUME IInv, TypeOK', UNCHANGED <<row, fileOf>>, ArchiveSame, ParkedSame,
           \A s \in Scanners :
               /\ pc'[s] \in Filing => cur'[s] = cur[s] /\ pc[s] \in Filing
               /\ pc'[s] = "unlink" => pc[s] = "unlink"
               /\ pc'[s] = "update" => pc[s] \in {"unlink", "update"}
               /\ pc'[s] = "duplicate" =>
                     cur'[s] = cur[s] /\ row[Checksum(s)] # "none"
    PROVE  IInv'
  <1> USE DEF IInv
  <1>1. FilingOwns' /\ FilingAlone' /\ DuplicateIsKnown'
      BY DEF FilingOwns, FilingAlone, DuplicateIsKnown, Checksum
  <1>2. UpdateHasFile'
    <2> SUFFICES ASSUME NEW s \in Scanners, pc'[s] \in {"unlink", "update"}
                 PROVE  "archive" \in loc'[cur'[s]]
        BY DEF UpdateHasFile
    <2>1. pc'[s] \in Filing /\ pc[s] \in {"unlink", "update"} /\ cur'[s] = cur[s]
        BY DEF Filing
    <2>2. cur[s] \in Files /\ "archive" \in loc[cur[s]]
        BY <2>1 DEF UpdateHasFile, TypeOK, PerFile, Filing
    <2> QED
        BY <2>1, <2>2 DEF ArchiveSame
  <1>3. ArchivedOwned' /\ MovedRowHasFile'
      BY DEF ArchivedOwned, MovedRowHasFile, ArchiveSame
  <1>4. ParkedIsKnown'
      BY DEF ParkedIsKnown, ParkedSame
  <1> QED
      BY <1>1, <1>2, <1>3, <1>4

(* The steps of the scan and of a file before its row is inserted, the      *)
(* movers into the hidden folders, and the faults.                          *)
LEMMA QuietSteps ==
    ASSUME IInv, NEW s \in Scanners,
           \/ Start(s) \/ Walk(s) \/ Prune(s) \/ NextFile(s) \/ Finish(s)
           \/ Stat(s) \/ Extract(s) \/ Precheck(s) \/ Classify(s)
           \/ Duplicate(s) \/ Block(s) \/ Record(s)
           \/ FileFails(s) \/ Interrupted(s)
    PROVE  IInv'
  <1> USE DEF IInv, Goto
  <1>1. CASE Start(s) \/ Walk(s) \/ Prune(s) \/ NextFile(s)
    <2>1. TypeOK'
        BY <1>1, TypeStep DEF Steps
    <2>2. UNCHANGED <<loc, row, fileOf>>
        BY <1>1 DEF Start, Walk, Prune, NextFile, tables
    <2>3. \A q \in Scanners :
             pc'[q] \in Filing \cup {"duplicate"} => pc'[q] = pc[q] /\ cur'[q] = cur[q]
        BY <1>1 DEF Start, Walk, Prune, NextFile, TypeOK, Filing
    <2> QED
        BY <2>1, <2>2, <2>3, QuietStep
        DEF ArchiveSame, ParkedSame, DuplicateIsKnown, Filing
  <1>2. CASE Finish(s) \/ Interrupted(s)
    <2>1. TypeOK'
        BY <1>2, TypeStep DEF Steps
    <2>2. UNCHANGED <<loc, row, fileOf>>
        BY <1>2 DEF Finish, Interrupted, End, tables
    <2>3. \A q \in Scanners :
             pc'[q] \in Filing \cup {"duplicate"} => pc'[q] = pc[q] /\ cur'[q] = cur[q]
        BY <1>2 DEF Finish, Interrupted, End, TypeOK, Filing
    <2> QED
        BY <2>1, <2>2, <2>3, QuietStep
        DEF ArchiveSame, ParkedSame, DuplicateIsKnown, Filing
  <1>3. CASE Stat(s) \/ Extract(s) \/ Classify(s) \/ Record(s) \/ FileFails(s)
    <2>1. TypeOK'
        BY <1>3, TypeStep DEF Steps
    <2>2. UNCHANGED <<loc, row, fileOf, cur>>
        BY <1>3 DEF Stat, Extract, Classify, Record, FileFails, tables
    <2>3. \A q \in Scanners : pc'[q] \in Filing \cup {"duplicate"} => pc'[q] = pc[q]
        BY <1>3 DEF Stat, Extract, Classify, Record, FileFails, TypeOK, Filing
    <2> QED
        BY <2>1, <2>2, <2>3, QuietStep
        DEF ArchiveSame, ParkedSame, DuplicateIsKnown, Filing
  <1>4. CASE Precheck(s)
    <2>1. TypeOK'
        BY <1>4, TypeStep DEF Steps
    <2>2. UNCHANGED <<loc, row, fileOf, cur>>
        BY <1>4 DEF Precheck, tables
    <2>3. \A q \in Scanners :
             /\ pc'[q] \in Filing => pc'[q] = pc[q]
             /\ pc'[q] = "duplicate" => pc[q] = "duplicate" \/ row[Checksum(q)] # "none"
        BY <1>4 DEF Precheck, TypeOK, Filing
    <2> QED
        BY <2>1, <2>2, <2>3, QuietStep
        DEF ArchiveSame, ParkedSame, DuplicateIsKnown, Filing
  <1>5. CASE Duplicate(s) \/ Block(s)
    <2>1. cur[s] \in Files
        BY <1>5, ChecksumIsContent DEF Duplicate, Block, PerFile
    <2>2. TypeOK'
        BY <1>5, TypeStep DEF Steps
    <2>3. UNCHANGED <<row, fileOf, cur>>
        BY <1>5 DEF Duplicate, Block, tables
    <2>7. loc \in [Files -> SUBSET Folders]
        BY DEF TypeOK
    <2>8. \/ loc' = loc
          \/ pc[s] = "duplicate" /\ MoveTo(s, "duplicates")
          \/ MoveTo(s, "blocked")
        BY <1>5 DEF Duplicate, Block
    <2>4. ArchiveSame
        BY <2>1, <2>7, <2>8 DEF MoveTo, ArchiveSame
    <2>5. ParkedSame
        BY <2>1, <2>7, <2>8 DEF MoveTo, ParkedSame, DuplicateIsKnown, Checksum
    <2>6. \A q \in Scanners : pc'[q] \in Filing \cup {"duplicate"} => pc'[q] = pc[q]
        BY <1>5 DEF Duplicate, Block, TypeOK, Filing
    <2> QED
        BY <2>2, <2>3, <2>4, <2>5, <2>6, QuietStep DEF DuplicateIsKnown, Filing
  <1> QED
      BY <1>1, <1>2, <1>3, <1>4, <1>5

(* An insert finds no row, so no scanner is filing this content and no file *)
(* with it is archived; or it finds one and changes no row.                 *)
LEMMA InsertStep ==
    ASSUME IInv, NEW s \in Scanners, Insert(s)
    PROVE  IInv'
  <1> USE DEF IInv, Goto, Insert
  <1> DEFINE c == Checksum(s)
  <1>1. cur[s] \in Files /\ c \in Contents /\ c = Content[cur[s]]
      BY ChecksumIsContent DEF PerFile, Checksum
  <1>2. TypeOK'
      BY TypeStep DEF Steps
  <1>3. CASE row[c] # "none"
    <2>1. UNCHANGED <<loc, row, fileOf, cur>>
        BY <1>3
    <2>2. \A q \in Scanners :
             /\ pc'[q] \in Filing => pc'[q] = pc[q]
             /\ pc'[q] = "duplicate" => pc[q] = "duplicate" \/ row[Checksum(q)] # "none"
        BY <1>3 DEF TypeOK, Filing
    <2> QED
        BY <2>1, <2>2, <1>2, QuietStep
        DEF ArchiveSame, ParkedSame, DuplicateIsKnown, Filing
  <1>4. CASE row[c] = "none"
    <2>1. /\ row' = [row EXCEPT ![c] = "PENDING"]
          /\ fileOf' = [fileOf EXCEPT ![c] = cur[s]]
          /\ pc' = [pc EXCEPT ![s] = "move"]
          /\ UNCHANGED <<loc, cur>>
        BY <1>4
    <2>2. \A q \in Scanners : pc[q] \in Filing => Checksum(q) # c
        BY <1>4 DEF FilingOwns
    <2>3. \A f \in Files : "archive" \in loc[f] => Content[f] # c
        BY <1>4 DEF ArchivedOwned
    <2>4. \A q \in Scanners : Checksum(q)' = Checksum(q)
        BY <2>1 DEF Checksum
    <2>5. FilingOwns'
      <3> SUFFICES ASSUME NEW q \in Scanners, pc'[q] \in Filing
                   PROVE  row'[Checksum(q)] = "PENDING" /\ fileOf'[Checksum(q)] = cur[q]
          BY <2>1, <2>4 DEF FilingOwns
      <3>1. CASE q = s
          BY <3>1, <2>1, <1>1 DEF TypeOK
      <3>2. CASE q # s
        <4>1. pc[q] \in Filing /\ Checksum(q) # c
            BY <3>2, <2>1, <2>2 DEF TypeOK
        <4>2. Checksum(q) \in Contents
            BY <4>1, ChecksumIsContent DEF PerFile
        <4> QED
            BY <4>1, <4>2, <2>1, <1>1 DEF FilingOwns, TypeOK
      <3> QED
          BY <3>1, <3>2
    <2>6. FilingAlone'
        BY <2>1, <2>2, <2>4 DEF FilingAlone, TypeOK
    <2>7. ArchivedOwned'
        BY <2>1, <2>3, <1>1 DEF ArchivedOwned, TypeOK, Contents
    <2>8. UpdateHasFile'
        BY <2>1 DEF UpdateHasFile, TypeOK
    <2>9. DuplicateIsKnown'
        BY <2>1, <2>4, <1>1, ChecksumIsContent
        DEF DuplicateIsKnown, TypeOK, PerFile
    <2>10. MovedRowHasFile'
        BY <2>1, <1>1 DEF MovedRowHasFile, TypeOK
    <2>11. ParkedIsKnown'
        BY <2>1, <1>1 DEF ParkedIsKnown, TypeOK, Contents
    <2> QED
        BY <1>2, <2>5, <2>6, <2>7, <2>8, <2>9, <2>10, <2>11
  <1> QED
      BY <1>3, <1>4

(* The link puts into the archive the file its row names. *)
LEMMA LinkStep ==
    ASSUME IInv, NEW s \in Scanners, Link(s)
    PROVE  IInv'
  <1> USE DEF IInv, Goto, Link, tables
  <1>1. cur[s] \in Files /\ Checksum(s) = Content[cur[s]] /\ pc[s] \in Filing
      BY ChecksumIsContent DEF PerFile, Filing, Checksum
  <1>2. TypeOK'
      BY TypeStep DEF Steps
  <1>3. row[Content[cur[s]]] # "none" /\ fileOf[Content[cur[s]]] = cur[s]
      BY <1>1 DEF FilingOwns
  <1>4. \A f \in Files :
           /\ "archive" \in loc[f] => "archive" \in loc'[f]
           /\ "archive" \in loc'[f] => "archive" \in loc[f] \/ f = cur[s]
           /\ "duplicates" \in loc'[f] <=> "duplicates" \in loc[f]
      BY <1>1 DEF TypeOK
  <1>5. FilingOwns' /\ FilingAlone' /\ DuplicateIsKnown'
      BY <1>1 DEF FilingOwns, FilingAlone, DuplicateIsKnown, Checksum, TypeOK, Filing
  <1>6. ArchivedOwned' /\ MovedRowHasFile' /\ ParkedIsKnown'
      BY <1>3, <1>4 DEF ArchivedOwned, MovedRowHasFile, ParkedIsKnown
  <1>7. UpdateHasFile'
    <2> SUFFICES ASSUME NEW q \in Scanners, pc'[q] \in {"unlink", "update"}
                 PROVE  "archive" \in loc'[cur[q]]
        BY DEF UpdateHasFile
    <2>1. CASE q = s
        BY <2>1, <1>1 DEF TypeOK
    <2>2. CASE q # s
      <3>1. pc[q] \in {"unlink", "update"} /\ cur[q] \in Files
          BY <2>2 DEF TypeOK, PerFile, Filing
      <3> QED
          BY <3>1, <1>4 DEF UpdateHasFile
    <2> QED
        BY <2>1, <2>2
  <1> QED
      BY <1>2, <1>5, <1>6, <1>7

(* Removing the old name changes nothing in the archive. *)
LEMMA UnlinkStep ==
    ASSUME IInv, NEW s \in Scanners, Unlink(s)
    PROVE  IInv'
  <1> USE DEF IInv, Goto, Unlink, tables
  <1>1. cur[s] \in Files
      BY ChecksumIsContent DEF PerFile, Filing
  <1>2. TypeOK'
      BY TypeStep DEF Steps
  <1>3. ArchiveSame /\ ParkedSame
      BY <1>1 DEF ArchiveSame, ParkedSame, TypeOK
  <1>4. \A q \in Scanners :
           /\ pc'[q] \in Filing => pc[q] \in Filing
           /\ pc'[q] = "unlink" => pc[q] = "unlink"
           /\ pc'[q] = "update" => pc[q] \in {"unlink", "update"}
           /\ pc'[q] = "duplicate" => pc[q] = "duplicate"
      BY DEF TypeOK, Filing
  <1> QED
      BY <1>2, <1>3, <1>4, QuietStep DEF DuplicateIsKnown

(* The update marks the row of the file in hand, which no other scanner is  *)
(* filing, and whose file is archived.                                      *)
LEMMA UpdateStep ==
    ASSUME IInv, NEW s \in Scanners, Update(s)
    PROVE  IInv'
  <1> USE DEF IInv, Goto, Update
  <1> DEFINE c == Checksum(s)
  <1>1. cur[s] \in Files /\ c \in Contents /\ pc[s] \in Filing
      BY ChecksumIsContent DEF PerFile, Filing
  <1>2. TypeOK'
      BY TypeStep DEF Steps
  <1>3. fileOf[c] = cur[s] /\ "archive" \in loc[cur[s]]
      BY <1>1 DEF FilingOwns, UpdateHasFile
  <1>4. \A q \in Scanners : q # s /\ pc[q] \in Filing => Checksum(q) # c
      BY <1>1 DEF FilingAlone
  <1>5. \A q \in Scanners : Checksum(q)' = Checksum(q)
      BY DEF Checksum
  <1>6. FilingOwns'
      BY <1>4, <1>5, <1>1, ChecksumIsContent DEF FilingOwns, TypeOK, Filing, PerFile
  <1>7. FilingAlone' /\ UpdateHasFile'
      BY <1>5 DEF FilingAlone, UpdateHasFile, TypeOK, Filing
  <1>8. ArchivedOwned' /\ ParkedIsKnown' /\ MovedRowHasFile'
      BY <1>1, <1>3 DEF ArchivedOwned, ParkedIsKnown, MovedRowHasFile, TypeOK, Contents
  <1>9. DuplicateIsKnown'
      BY <1>5, <1>1, ChecksumIsContent DEF DuplicateIsKnown, TypeOK, PerFile
  <1> QED
      BY <1>2, <1>6, <1>7, <1>8, <1>9

(* What the user does touches neither the archive nor the documents. *)
LEMMA UserStep ==
    ASSUME IInv, NEW f \in Files, Drop(f) \/ Touch(f)
    PROVE  IInv'
  <1> USE DEF IInv, tables
  <1>1. TypeOK'
      BY DEF Drop, Touch, TypeOK, Folders
  <1>2. ArchiveSame /\ ParkedSame
      BY DEF Drop, Touch, ArchiveSame, ParkedSame, TypeOK
  <1>3. UNCHANGED <<row, fileOf, pc, cur>>
      BY DEF Drop, Touch
  <1> QED
      BY <1>1, <1>2, <1>3, QuietStep DEF DuplicateIsKnown, Filing

(* Every step keeps the invariant. *)
LEMMA StepInv == IInv /\ [Next]_vars => IInv'
  <1> SUFFICES ASSUME IInv, [Next]_vars PROVE IInv'
      OBVIOUS
  <1>1. ASSUME NEW s \in Scanners,
               Start(s) \/ Steps(s) \/ FileFails(s) \/ Interrupted(s)
        PROVE  IInv'
      BY <1>1, QuietSteps, InsertStep, LinkStep, UnlinkStep, UpdateStep DEF Steps
  <1>2. ASSUME NEW f \in Files, Drop(f) \/ Touch(f)
        PROVE  IInv'
      BY <1>2, UserStep
  <1>3. CASE UNCHANGED vars
      BY <1>3
      DEF vars, tables, IInv, TypeOK, FilingOwns, FilingAlone, ArchivedOwned,
          UpdateHasFile, DuplicateIsKnown, MovedRowHasFile, ParkedIsKnown, Checksum
  <1> QED
      BY <1>1, <1>2, <1>3 DEF Next

(* The inductive invariant, from which the following theorems take theirs. *)
THEOREM ScanInvariant == Spec => []IInv
  BY InitInv, StepInv, PTL DEF Spec

(* The variables keep their types. *)
THEOREM ScanTypes == Spec => []TypeOK
  <1>1. IInv => TypeOK
      BY DEF IInv
  <1> QED
      BY <1>1, ScanInvariant, PTL

(* Checksum dedup (triagescan.go:27-36) keeps the archive free of           *)
(* duplicates without the help of the scan lock.                            *)
THEOREM ArchivedOnceTheorem == Spec => []ArchivedOnce
  <1>1. IInv => ArchivedOnce
      BY DEF IInv, ArchivedOwned, ArchivedOnce, SameContent
  <1> QED
      BY <1>1, ScanInvariant, PTL

(* Relocate, then update (triagescan.go:828-842): a MOVED row has its file  *)
(* in the archive, wherever a scan was cut off.                             *)
THEOREM MovedRowTheorem == Spec => []MovedRowHasFile
  <1>1. IInv => MovedRowHasFile
      BY DEF IInv
  <1> QED
      BY <1>1, ScanInvariant, PTL

(* A file is parked as a duplicate only when a row has its checksum         *)
(* (checksum.go:15-16).                                                     *)
THEOREM ParkedTheorem == Spec => []ParkedIsKnown
  <1>1. IInv => ParkedIsKnown
      BY DEF IInv
  <1> QED
      BY <1>1, ScanInvariant, PTL

-----------------------------------------------------------------------------
(* When every scanner takes the lock: what the lock adds, with any number   *)
(* of faults and as long as there is none.                                  *)

ScansAlone == \A s \in Scanners : pc[s] # "idle" => lock = s

(* From its stat until it is moved, the file in hand is in __raws: nobody   *)
(* else takes it from there.                                                *)
BeforeMove == {"extract", "precheck", "classify", "insert", "duplicate", "block",
               "move", "unlink"}
InHandInRaws == \A s \in Scanners : pc[s] \in BeforeMove => InRaws(s)

RowNamesContent == \A c \in Contents : fileOf[c] \in Files => Content[fileOf[c]] = c

(* Without a fault a file has a name in __raws and one in the archive only  *)
(* between the two halves of its move, and a row is PENDING only while its  *)
(* file is being filed.                                                     *)
HalfMoved ==
    \A f \in Files : {"raws", "archive"} \subseteq loc[f] =>
        \E s \in Scanners : pc[s] = "unlink" /\ cur[s] = f
PendingIsFiled ==
    \A c \in Contents : row[c] = "PENDING" =>
        \E s \in Scanners : pc[s] \in Filing /\ cur[s] = fileOf[c]

LockedInv ==
    /\ ScansAlone /\ InHandInRaws /\ RowNamesContent
    /\ faults = 0 => HalfMoved /\ PendingIsFiled /\ NeverOnlyParked

LInv == LockFree = {} => LockedInv

(* Only one scanner is not idle, before a step of it and after.             *)
LEMMA OneScanner ==
    ASSUME TypeOK, ScansAlone, LockFree = {}, NEW s \in Scanners,
           Start(s) \/ Steps(s) \/ FileFails(s) \/ Interrupted(s)
    PROVE  /\ \A q \in Scanners \ {s} : pc[q] = "idle" /\ pc'[q] = "idle"
           /\ ScansAlone'
  <1> USE DEF Goto
  <1>1. CASE Start(s)
    <2>1. lock = NoScanner /\ lock' = s
        BY <1>1 DEF Start
    <2>2. \A q \in Scanners : pc[q] = "idle"
        BY <2>1, ScannerAssumption DEF ScansAlone
    <2> QED
        BY <1>1, <2>1, <2>2 DEF Start, TypeOK, ScansAlone
  <1>2. CASE Finish(s) \/ Interrupted(s)
    <2>1. pc[s] # "idle" /\ pc' = [pc EXCEPT ![s] = "idle"]
        BY <1>2 DEF Finish, Interrupted, End
    <2> QED
        BY <2>1 DEF TypeOK, ScansAlone
  <1>3. CASE \/ Walk(s) \/ Prune(s) \/ NextFile(s) \/ Stat(s) \/ Extract(s)
             \/ Precheck(s) \/ Classify(s) \/ Insert(s) \/ Link(s) \/ Unlink(s)
             \/ Update(s) \/ Duplicate(s) \/ Block(s) \/ Record(s) \/ FileFails(s)
    <2>1. pc[s] # "idle" /\ lock' = lock
        BY <1>3
        DEF Walk, Prune, NextFile, Stat, Extract, Precheck, Classify, Insert, Link,
            Unlink, Update, Duplicate, Block, Record, FileFails, PerFile, Filing
    <2>2. \E place : pc' = [pc EXCEPT ![s] = place]
        BY <1>3
        DEF Walk, Prune, NextFile, Stat, Extract, Precheck, Classify, Insert, Link,
            Unlink, Update, Duplicate, Block, Record, FileFails
    <2> QED
        BY <2>1, <2>2 DEF TypeOK, ScansAlone
  <1> QED
      BY <1>1, <1>2, <1>3 DEF Steps

(* With the others idle, what is half moved or being filed is in the hand   *)
(* of this scanner.                                                         *)
LEMMA InThisHand ==
    ASSUME NEW s \in Scanners, \A q \in Scanners \ {s} : pc[q] = "idle"
    PROVE  /\ HalfMoved => \A f \in Files : {"raws", "archive"} \subseteq loc[f] =>
                              pc[s] = "unlink" /\ cur[s] = f
           /\ PendingIsFiled => \A c \in Contents : row[c] = "PENDING" =>
                                   pc[s] \in Filing /\ cur[s] = fileOf[c]
  BY DEF HalfMoved, PendingIsFiled, Filing

(* The steps that leave files and rows where they are, and begin or end     *)
(* nothing that concerns them.                                              *)
LEMMA LockedQuietSteps ==
    ASSUME IInv, LockedInv, LockFree = {}, NEW s \in Scanners,
           \/ Start(s) \/ Walk(s) \/ Prune(s) \/ NextFile(s) \/ Finish(s) \/ Stat(s)
           \/ Extract(s) \/ Precheck(s) \/ Classify(s) \/ Record(s)
           \/ FileFails(s) \/ Interrupted(s)
    PROVE  LockedInv'
  <1> USE DEF IInv, LockedInv, Goto, tables
  <1>1. /\ \A q \in Scanners \ {s} : pc[q] = "idle" /\ pc'[q] = "idle"
        /\ ScansAlone'
      BY OneScanner DEF Steps
  <1>2. UNCHANGED <<loc, row, fileOf>>
      BY DEF Start, Walk, Prune, NextFile, Finish, End, Stat, Extract, Precheck,
             Classify, Record, FileFails, Interrupted
  <1>3. CASE Stat(s) \/ Extract(s) \/ Precheck(s) \/ Classify(s)
    <2>1. UNCHANGED <<cur, faults>> /\ pc[s] \notin Filing
        BY <1>3 DEF Stat, Extract, Precheck, Classify, Filing
    <2>2. pc'[s] \in BeforeMove => InRaws(s)
        BY <1>3 DEF Stat, Extract, Precheck, Classify, TypeOK, InHandInRaws, BeforeMove
    <2>3. InHandInRaws'
        BY <1>1, <1>2, <2>1, <2>2 DEF InHandInRaws, InRaws, BeforeMove
    <2>4. RowNamesContent'
        BY <1>2 DEF RowNamesContent
    <2>5. faults' = 0 => HalfMoved' /\ PendingIsFiled' /\ NeverOnlyParked'
        BY <1>1, <1>2, <2>1, InThisHand
        DEF HalfMoved, PendingIsFiled, NeverOnlyParked, Filing
    <2> QED
        BY <1>1, <2>3, <2>4, <2>5
  <1>4. CASE \/ Start(s) \/ Walk(s) \/ Prune(s) \/ NextFile(s) \/ Finish(s) \/ Record(s)
             \/ FileFails(s) \/ Interrupted(s)
    <2>1. pc'[s] \notin BeforeMove
        BY <1>4
        DEF Start, Walk, Prune, NextFile, Finish, End, Record, FileFails, Interrupted,
            TypeOK, BeforeMove
    <2>2. InHandInRaws'
        BY <1>1, <2>1 DEF InHandInRaws, BeforeMove
    <2>3. RowNamesContent'
        BY <1>2 DEF RowNamesContent
    <2>4. ASSUME faults' = 0 PROVE faults = 0 /\ pc[s] \notin Filing
        BY <1>4, <2>4
        DEF Start, Walk, Prune, NextFile, Finish, End, Record, FileFails, Interrupted,
            Filing, TypeOK
    <2>5. faults' = 0 => HalfMoved' /\ PendingIsFiled' /\ NeverOnlyParked'
        BY <1>1, <1>2, <2>4, InThisHand
        DEF HalfMoved, PendingIsFiled, NeverOnlyParked, Filing
    <2> QED
        BY <1>1, <2>2, <2>3, <2>5
  <1> QED
      BY <1>3, <1>4

(* The row that is inserted is filed by this scanner; no other is PENDING.  *)
LEMMA LockedInsertStep ==
    ASSUME IInv, LockedInv, LockFree = {}, NEW s \in Scanners, Insert(s)
    PROVE  LockedInv'
  <1> USE DEF IInv, LockedInv, Goto, Insert
  <1> DEFINE c == Checksum(s)
  <1>1. /\ \A q \in Scanners \ {s} : pc[q] = "idle" /\ pc'[q] = "idle"
        /\ ScansAlone'
      BY OneScanner DEF Steps
  <1>2. cur[s] \in Files /\ c \in Contents /\ c = Content[cur[s]] /\ UNCHANGED <<loc, cur, faults>>
      BY ChecksumIsContent DEF PerFile, Checksum
  <1>3. InHandInRaws'
      BY <1>1, <1>2 DEF InHandInRaws, InRaws, BeforeMove
  <1>4. RowNamesContent'
      BY <1>2 DEF RowNamesContent, TypeOK
  <1>5. ASSUME faults = 0 PROVE HalfMoved' /\ NeverOnlyParked'
      BY <1>1, <1>2, <1>5, InThisHand DEF HalfMoved, NeverOnlyParked
  <1>6. ASSUME faults = 0 PROVE PendingIsFiled'
    <2>1. \A d \in Contents : row[d] # "PENDING"
        BY <1>1, <1>6, InThisHand DEF Filing
    <2>2. CASE row[c] # "none"
        BY <2>1, <2>2 DEF PendingIsFiled
    <2>3. CASE row[c] = "none"
      <3>1. /\ row' = [row EXCEPT ![c] = "PENDING"] /\ fileOf' = [fileOf EXCEPT ![c] = cur[s]]
            /\ pc'[s] = "move"
          BY <2>3 DEF TypeOK
      <3>2. \A d \in Contents : row'[d] = "PENDING" => d = c
          BY <2>1, <3>1 DEF TypeOK
      <3>3. fileOf'[c] = cur'[s] /\ pc'[s] \in Filing
          BY <1>2, <3>1 DEF TypeOK, Filing
      <3> QED
          BY <3>2, <3>3 DEF PendingIsFiled
    <2> QED
        BY <2>2, <2>3
  <1> QED
      BY <1>1, <1>2, <1>3, <1>4, <1>5, <1>6

(* The two halves of the move, and the update that ends it.                 *)
LEMMA LockedFilingSteps ==
    ASSUME IInv, LockedInv, LockFree = {}, NEW s \in Scanners,
           Link(s) \/ Unlink(s) \/ Update(s)
    PROVE  LockedInv'
  <1> USE DEF IInv, LockedInv, Goto, tables
  <1> DEFINE c == Checksum(s)
  <1>1. /\ \A q \in Scanners \ {s} : pc[q] = "idle" /\ pc'[q] = "idle"
        /\ ScansAlone'
      BY OneScanner DEF Steps
  <1>2. /\ cur[s] \in Files /\ c \in Contents /\ c = Content[cur[s]]
        /\ UNCHANGED <<fileOf, cur, faults>> /\ pc[s] \in Filing
      BY ChecksumIsContent DEF PerFile, Checksum, Filing, Link, Unlink, Update
  <1>3. RowNamesContent'
      BY <1>2 DEF RowNamesContent
  <1>4. \A f \in Files :
           /\ "archive" \in loc[f] => "archive" \in loc'[f]
           /\ "duplicates" \in loc'[f] => "duplicates" \in loc[f]
           /\ f # cur[s] => loc'[f] = loc[f]
      BY <1>2 DEF Link, Unlink, Update, TypeOK
  <1>5. InHandInRaws'
    <2>1. CASE Link(s)
        BY <1>1, <1>2, <2>1 DEF Link, InHandInRaws, InRaws, BeforeMove, TypeOK
    <2>2. CASE Unlink(s) \/ Update(s)
      <3>1. pc'[s] \notin BeforeMove
          BY <2>2 DEF Unlink, Update, BeforeMove, TypeOK
      <3> QED
          BY <1>1, <3>1 DEF InHandInRaws, BeforeMove
    <2> QED
        BY <2>1, <2>2
  <1>6. ASSUME faults = 0 PROVE NeverOnlyParked'
      BY <1>4, <1>6 DEF NeverOnlyParked
  <1>7. ASSUME faults = 0 PROVE HalfMoved'
    <2>1. CASE Link(s)
      <3>1. pc'[s] = "unlink"
          BY <2>1 DEF Link, InHandInRaws, BeforeMove, TypeOK
      <3>2. \A f \in Files : {"raws", "archive"} \subseteq loc'[f] => f = cur[s]
          BY <1>1, <1>4, <1>7, <2>1, InThisHand DEF Link
      <3> QED
          BY <1>2, <3>1, <3>2 DEF HalfMoved
    <2>2. CASE Unlink(s)
      <3>1. "raws" \notin loc'[cur[s]]
          BY <1>2, <2>2 DEF Unlink, TypeOK
      <3> QED
          BY <1>1, <1>4, <1>7, <3>1, InThisHand DEF HalfMoved
    <2>3. CASE Update(s)
        BY <1>1, <1>7, <2>3, InThisHand DEF Update, HalfMoved
    <2> QED
        BY <2>1, <2>2, <2>3
  <1>8. ASSUME faults = 0 PROVE PendingIsFiled'
    <2>1. CASE Link(s) \/ Unlink(s)
      <3>1. pc'[s] \in Filing /\ row' = row
          BY <2>1 DEF Link, Unlink, InHandInRaws, BeforeMove, TypeOK, Filing
      <3> QED
          BY <1>1, <1>2, <1>8, <3>1, InThisHand DEF PendingIsFiled
    <2>2. CASE Update(s)
      <3>1. \A d \in Contents : row'[d] = "PENDING" => row[d] = "PENDING" /\ d # c
          BY <1>2, <2>2 DEF Update, TypeOK
      <3>2. \A d \in Contents : row[d] = "PENDING" => d = c
          BY <1>1, <1>2, <1>8, InThisHand DEF RowNamesContent
      <3> QED
          BY <3>1, <3>2 DEF PendingIsFiled
    <2> QED
        BY <2>1, <2>2
  <1> QED
      BY <1>1, <1>2, <1>3, <1>5, <1>6, <1>7, <1>8

(* A file is parked: the row it was measured against is not PENDING, so its *)
(* file is archived, and it is another one, for this one is in __raws.      *)
LEMMA LockedParkingSteps ==
    ASSUME IInv, LockedInv, LockFree = {}, NEW s \in Scanners, Duplicate(s) \/ Block(s)
    PROVE  LockedInv'
  <1> USE DEF IInv, LockedInv, Goto, tables
  <1> DEFINE c == Checksum(s)
  <1>1. /\ \A q \in Scanners \ {s} : pc[q] = "idle" /\ pc'[q] = "idle"
        /\ ScansAlone'
      BY OneScanner DEF Steps
  <1>2. /\ cur[s] \in Files /\ c \in Contents /\ c = Content[cur[s]]
        /\ UNCHANGED <<row, fileOf, cur>> /\ pc[s] \in {"duplicate", "block"}
      BY ChecksumIsContent DEF PerFile, Checksum, Duplicate, Block
  <1>3. RowNamesContent'
      BY <1>2 DEF RowNamesContent
  <1>4. InHandInRaws'
    <2>1. pc'[s] \notin BeforeMove
        BY DEF Duplicate, Block, BeforeMove, TypeOK
    <2> QED
        BY <1>1, <2>1 DEF InHandInRaws, BeforeMove
  <1>5. ASSUME faults' = 0 PROVE faults = 0
      BY <1>5 DEF Duplicate, Block, TypeOK
  <1>6. ASSUME faults = 0
        PROVE  /\ \A f \in Files : ~({"raws", "archive"} \subseteq loc[f])
               /\ \A d \in Contents : row[d] # "PENDING"
      BY <1>1, <1>2, <1>6, InThisHand DEF Filing
  <1>7. \/ loc' = loc
        \/ pc[s] = "duplicate" /\ MoveTo(s, "duplicates")
        \/ MoveTo(s, "blocked")
      BY DEF Duplicate, Block
  <1>8. \A f \in Files :
           /\ "archive" \in loc[f] <=> "archive" \in loc'[f]
           /\ "raws" \in loc'[f] => "raws" \in loc[f]
           /\ "duplicates" \in loc'[f] =>
                 "duplicates" \in loc[f] \/ (f = cur[s] /\ pc[s] = "duplicate")
      BY <1>2, <1>7 DEF MoveTo, TypeOK
  <1>9. ASSUME faults = 0 PROVE HalfMoved' /\ PendingIsFiled'
      BY <1>2, <1>6, <1>8, <1>9 DEF HalfMoved, PendingIsFiled
  <1>10. ASSUME faults = 0 PROVE NeverOnlyParked'
    <2> SUFFICES ASSUME NEW f \in Files, "duplicates" \in loc'[f]
                 PROVE  \E g \in Files \ {f} : SameContent(f, g) /\ "archive" \in loc'[g]
        BY DEF NeverOnlyParked, SameContent
    <2>1. CASE "duplicates" \in loc[f]
        BY <1>8, <1>10, <2>1 DEF NeverOnlyParked
    <2>2. CASE f = cur[s] /\ pc[s] = "duplicate"
      <3>1. row[c] = "MOVED"
          BY <1>2, <1>6, <1>10, <2>2 DEF DuplicateIsKnown, TypeOK
      <3>2. fileOf[c] \in Files /\ "archive" \in loc[fileOf[c]] /\ Content[fileOf[c]] = c
          BY <1>2, <3>1 DEF MovedRowHasFile, RowNamesContent
      <3>3. "raws" \in loc[f]
          BY <2>2 DEF InHandInRaws, InRaws, BeforeMove
      <3>4. fileOf[c] # f
          BY <1>6, <1>10, <3>2, <3>3
      <3> QED
          BY <1>2, <1>8, <2>2, <3>2, <3>4 DEF SameContent
    <2> QED
        BY <1>8, <2>1, <2>2
  <1> QED
      BY <1>1, <1>3, <1>4, <1>5, <1>9, <1>10

(* The user puts back what is parked, and never takes what is in hand.      *)
LEMMA LockedUserStep ==
    ASSUME IInv, LockedInv, NEW f \in Files, Drop(f) \/ Touch(f)
    PROVE  LockedInv'
  <1> USE DEF IInv, LockedInv, tables
  <1>1. UNCHANGED <<row, fileOf, pc, cur, lock, faults>>
      BY DEF Drop, Touch
  <1>2. \A g \in Files :
           /\ "raws" \in loc[g] => "raws" \in loc'[g]
           /\ "archive" \in loc[g] <=> "archive" \in loc'[g]
           /\ {"raws", "archive"} \subseteq loc'[g] => {"raws", "archive"} \subseteq loc[g]
           /\ "duplicates" \in loc'[g] => "duplicates" \in loc[g]
      BY DEF Drop, Touch, TypeOK
  <1>3. InHandInRaws'
    <2>1. \A s \in Scanners : pc[s] \in BeforeMove => cur[s] \in Files
        BY DEF TypeOK, BeforeMove, PerFile, Filing
    <2> QED
        BY <1>1, <1>2, <2>1 DEF InHandInRaws, InRaws
  <1>4. ScansAlone' /\ RowNamesContent'
      BY <1>1 DEF ScansAlone, RowNamesContent
  <1>5. ASSUME faults = 0 PROVE HalfMoved' /\ PendingIsFiled' /\ NeverOnlyParked'
      BY <1>1, <1>2, <1>5 DEF HalfMoved, PendingIsFiled, NeverOnlyParked
  <1> QED
      BY <1>1, <1>3, <1>4, <1>5

LEMMA LockedInit == Init => LockedInv
  <1> SUFFICES ASSUME Init PROVE LockedInv
      OBVIOUS
  <1>1. /\ \A s \in Scanners : pc[s] = "idle"
        /\ \A f \in Files : loc[f] = {}
        /\ \A c \in Contents : row[c] = "none" /\ fileOf[c] = NoFile
      BY DEF Init
  <1>2. ScansAlone /\ InHandInRaws
      BY <1>1, Zenon DEF ScansAlone, InHandInRaws, BeforeMove
  <1>3. RowNamesContent
      BY <1>1, FileAssumption DEF RowNamesContent
  <1>4. HalfMoved /\ PendingIsFiled
      BY <1>1 DEF HalfMoved, PendingIsFiled
  <1>5. NeverOnlyParked
      BY <1>1 DEF NeverOnlyParked
  <1> QED
      BY <1>2, <1>3, <1>4, <1>5 DEF LockedInv

LEMMA LockedStep == IInv /\ LInv /\ [Next]_vars => LInv'
  <1> SUFFICES ASSUME IInv, LockedInv, LockFree = {}, [Next]_vars
               PROVE  LockedInv'
      BY DEF LInv
  <1>1. ASSUME NEW s \in Scanners,
               Start(s) \/ Steps(s) \/ FileFails(s) \/ Interrupted(s)
        PROVE  LockedInv'
      BY <1>1, LockedQuietSteps, LockedInsertStep, LockedFilingSteps, LockedParkingSteps
      DEF Steps
  <1>2. ASSUME NEW f \in Files, Drop(f) \/ Touch(f)
        PROVE  LockedInv'
      BY <1>2, LockedUserStep
  <1>3. CASE UNCHANGED vars
      BY <1>3
      DEF vars, tables, LockedInv, ScansAlone, InHandInRaws, InRaws, RowNamesContent,
          HalfMoved, PendingIsFiled, NeverOnlyParked
  <1> QED
      BY <1>1, <1>2, <1>3 DEF Next

(* What holds besides when no scanner does without the lock.                *)
THEOREM LockedInvariant == Spec => []LInv
  <1>1. Init => LInv
      BY LockedInit DEF LInv
  <1> QED
      BY <1>1, LockedStep, ScanInvariant, PTL DEF Spec

(* "It parks an incoming duplicate" (helpers.go:21): with the lock, and     *)
(* until something fails, a parked file has its twin in the archive, so     *)
(* that parking it loses nothing.                                           *)
THEOREM ParkedHasTwinTheorem == Spec => []ParkedHasTwinUnlessFault
  <1>1. LInv => ParkedHasTwinUnlessFault
      BY DEF LInv, LockedInv, ParkedHasTwinUnlessFault
  <1> QED
      BY <1>1, LockedInvariant, PTL

(* With the lock, and until something fails, no scan leaves a PENDING row   *)
(* behind: the next scan would take its file for a duplicate of itself      *)
(* (triagescan.go:634, :836).                                               *)
THEOREM NoStrandedRowTheorem == Spec => []NoStrandedRowUnlessFault
  <1>1. LInv => NoStrandedRowUnlessFault
      BY DEF LInv, LockedInv, PendingIsFiled, NoStrandedRowUnlessFault
  <1> QED
      BY <1>1, LockedInvariant, PTL

-----------------------------------------------------------------------------
\* What holds of 0, and of n + 1 whenever it holds of n, holds of every n.
LEMMA Counting ==
    ASSUME NEW S, 0 \in S, \A n \in Nat : n \in S => n + 1 \in S
    PROVE  Nat \subseteq S
  <1> DEFINE R == OpToRel(<, Nat)
             T == Nat \ S
  <1>1. IsWellFoundedOn(R, Nat)
      BY NatLessThanWellFounded
  <1>2. SUFFICES ASSUME T # {} PROVE FALSE
      OBVIOUS
  <1>r. \A a, b \in Nat : a < b => <<a, b>> \in R
      BY DEF OpToRel
  <1> HIDE DEF R
  <1>3. PICK x \in T : \A y \in T : ~(<<y, x>> \in R)
      BY <1>1, <1>2, WFMin
  <1>4. x \in Nat /\ x # 0 /\ x - 1 \in Nat /\ x - 1 < x
      BY <1>3
  <1>5. x - 1 \in S
      BY <1>3, <1>4, <1>r
  <1> QED
      BY <1>3, <1>4, <1>5

-----------------------------------------------------------------------------
(* The tables.  FlattenSeq joins pieces one after the other: a recursive    *)
(* function, of which this says where each piece comes to lie.              *)

\* t is the first n pieces of s, piece i behind the first off[i] items.
Joined(s, n, t, off) ==
  /\ off \in [1..(n + 1) -> Nat]
  /\ off[1] = 0 /\ off[n + 1] = Len(t)
  /\ \A i \in 1..n : off[i + 1] = off[i] + Len(s[i])
  /\ \A i \in 1..n : \A j \in 1..Len(s[i]) : t[off[i] + j] = s[i][j]
Joins(s, t, off) == Joined(s, Len(s), t, off)

Behind(t, u) == t \o u
Flattens(s, f, n) == f = [i \in 1..n |-> IF i = 1 THEN s[i] ELSE Behind(f[i - 1], s[i])]

LEMMA FlattenLoop ==
    ASSUME NEW s
    PROVE  \A n \in Nat : \E f : Flattens(s, f, n)
  <1> DEFINE T == {n \in Nat : \E f : Flattens(s, f, n)}
  <1>1. Flattens(s, [i \in 1..0 |-> <<>>], 0)
      BY DEF Flattens
  <1>2. ASSUME NEW n \in Nat, NEW f, Flattens(s, f, n) PROVE \E g : Flattens(s, g, n + 1)
    <2> DEFINE g == [i \in 1..(n + 1) |-> IF i <= n THEN f[i] ELSE IF n = 0 THEN s[1] ELSE Behind(f[n], s[n + 1])]
    <2>1. \A i \in 1..n : f[i] = IF i = 1 THEN s[i] ELSE Behind(f[i - 1], s[i])
        BY <1>2 DEF Flattens
    <2>2. \A i \in 1..(n + 1) : g[i] = IF i = 1 THEN s[i] ELSE Behind(g[i - 1], s[i])
      <3>1. ASSUME NEW i \in 1..n PROVE g[i] = f[i]
          OBVIOUS
      <3>2. g[n + 1] = IF n + 1 = 1 THEN s[n + 1] ELSE Behind(f[n], s[n + 1])
          OBVIOUS
      <3> HIDE DEF g
      <3>3. ASSUME NEW i \in 2..n PROVE g[i - 1] = f[i - 1]
          BY <3>1
      <3>4. n # 0 => g[n] = f[n]
          BY <3>1
      <3> QED
          BY <2>1, <3>1, <3>2, <3>3, <3>4
    <2>3. Flattens(s, g, n + 1)
        BY <2>2 DEF Flattens
    <2> QED
        BY <2>3
  <1>3. 0 \in T /\ \A n \in Nat : n \in T => n + 1 \in T
      BY <1>1, <1>2
  <1> HIDE DEF T
  <1>4. Nat \subseteq T
      BY <1>3, Counting
  <1> QED
      BY <1>4 DEF T

\* One more piece.
LEMMA JoinOne ==
    ASSUME NEW X, NEW s \in Seq(Seq(X)), NEW n \in Nat, n + 1 <= Len(s),
           NEW t \in Seq(X), NEW off, Joined(s, n, t, off)
    PROVE  /\ t \o s[n + 1] \in Seq(X)
           /\ \E new : Joined(s, n + 1, t \o s[n + 1], new)
  <1> DEFINE u == t \o s[n + 1]
             new == [i \in 1..(n + 2) |-> IF i <= n + 1 THEN off[i] ELSE Len(t) + Len(s[n + 1])]
  <1>1. s[n + 1] \in Seq(X) /\ Len(s[n + 1]) \in Nat /\ Len(t) \in Nat
      BY ElementOfSeq
  <1>1a. \A i \in 1..n : s[i] \in Seq(X) /\ Len(s[i]) \in Nat
      BY ElementOfSeq
  <1>2. /\ u \in Seq(X) /\ Len(u) = Len(t) + Len(s[n + 1])
        /\ \A k \in 1..(Len(t) + Len(s[n + 1])) : u[k] = IF k <= Len(t) THEN t[k] ELSE s[n + 1][k - Len(t)]
      BY <1>1, ConcatProperties
  <1>3. /\ off \in [1..(n + 1) -> Nat] /\ off[1] = 0 /\ off[n + 1] = Len(t)
        /\ \A i \in 1..n : off[i + 1] = off[i] + Len(s[i])
        /\ \A i \in 1..n : \A j \in 1..Len(s[i]) : t[off[i] + j] = s[i][j]
      BY DEF Joined
  <1>4. \A i \in 1..(n + 1) : new[i] = off[i]
      OBVIOUS
  <1>5. new[n + 2] = Len(t) + Len(s[n + 1])
      OBVIOUS
  <1>6. new \in [1..(n + 2) -> Nat]
      BY <1>1, <1>3
  <1> HIDE DEF u, new
  \* no offset is behind the end
  <1>7. \A i \in 1..(n + 1) : off[i] <= Len(t)
    <2> DEFINE S == {m \in Nat : m <= n => off[n + 1 - m] <= Len(t)}
    <2>1. 0 \in S
        BY <1>1, <1>3
    <2>2. ASSUME NEW m \in Nat, m \in S PROVE m + 1 \in S
      <3>1. CASE m + 1 <= n
        <4>1. n - m \in 1..n /\ off[n - m] \in Nat
            BY <1>3, <3>1
        <4>2. off[n - m + 1] = off[n - m] + Len(s[n - m]) /\ n - m + 1 = n + 1 - m /\ n + 1 - (m + 1) = n - m
            BY <1>3, <4>1
        <4>3. Len(s[n - m]) \in Nat
            BY <1>1a, <4>1
        <4>4. off[n + 1 - m] <= Len(t)
            BY <2>2, <3>1
        <4>5. off[n - m] <= Len(t)
          <5> DEFINE x == off[n - m]
                     y == Len(s[n - m])
                     z == Len(t)
          <5>1. x \in Nat /\ y \in Nat /\ z \in Nat /\ x + y <= z
              BY <1>1, <4>1, <4>2, <4>3, <4>4
          <5> HIDE DEF x, y, z
          <5>2. x <= z
              BY <5>1
          <5> QED
              BY <5>2 DEF x, z
        <4> QED
            BY <4>2, <4>5
      <3> QED
          BY <3>1
    <2> HIDE DEF S
    <2>3. Nat \subseteq S
        BY <2>1, <2>2, Counting
    <2>4. ASSUME NEW i \in 1..(n + 1) PROVE off[i] <= Len(t)
      <3>1. n + 1 - i \in Nat /\ n + 1 - i <= n /\ n + 1 - (n + 1 - i) = i
          OBVIOUS
      <3> QED
          BY <2>3, <3>1 DEF S
    <2> QED
        BY <2>4
  <1>8. \A i \in 1..(n + 1) : new[i + 1] = new[i] + Len(s[i])
    <2>1. ASSUME NEW i \in 1..n PROVE new[i + 1] = new[i] + Len(s[i])
      <3>1. i \in 1..(n + 1) /\ i + 1 \in 1..(n + 1)
          OBVIOUS
      <3>2. new[i] = off[i] /\ new[i + 1] = off[i + 1]
          BY <1>4, <3>1
      <3>3. off[i + 1] = off[i] + Len(s[i])
          BY <1>3
      <3> QED
          BY <3>2, <3>3
    <2>2. new[n + 2] = new[n + 1] + Len(s[n + 1]) /\ n + 2 = (n + 1) + 1
        BY <1>3, <1>4, <1>5
    <2> QED
        BY <2>1, <2>2
  <1>9. ASSUME NEW i \in 1..(n + 1), NEW j \in 1..Len(s[i]) PROVE u[new[i] + j] = s[i][j]
    <2>1. CASE i \in 1..n
      <3>1. off[i] \in Nat /\ off[i + 1] <= Len(t) /\ off[i + 1] = off[i] + Len(s[i]) /\ Len(s[i]) \in Nat
        <4>1. i \in 1..(n + 1) /\ i + 1 \in 1..(n + 1)
            BY <2>1
        <4>2. off[i] \in Nat
            BY <1>3, <4>1
        <4>3. off[i + 1] <= Len(t)
            BY <1>7, <4>1
        <4>4. off[i + 1] = off[i] + Len(s[i]) /\ Len(s[i]) \in Nat
            BY <1>1a, <1>3, <2>1
        <4> QED
            BY <4>2, <4>3, <4>4
      <3>2. off[i] + j \in 1..(Len(t) + Len(s[n + 1])) /\ off[i] + j <= Len(t)
        <4> DEFINE a == off[i]
                   b == Len(s[i])
                   c == Len(t)
                   d == Len(s[n + 1])
        <4>1. a \in Nat /\ b \in Nat /\ c \in Nat /\ d \in Nat /\ a + b <= c /\ j \in 1..b
            BY <1>1, <3>1
        <4> HIDE DEF a, b, c, d
        <4>2. a + j \in 1..(c + d) /\ a + j <= c
            BY <4>1
        <4> QED
            BY <4>2 DEF a, c, d
      <3>3. u[off[i] + j] = t[off[i] + j]
          BY <1>1, <1>2, <3>2
      <3> QED
          BY <1>3, <1>4, <2>1, <3>3
    <2>2. CASE i = n + 1
      <3>1. new[i] = Len(t) /\ Len(t) + j \in 1..(Len(t) + Len(s[n + 1])) /\ ~(Len(t) + j <= Len(t)) /\ Len(t) + j - Len(t) = j
          BY <1>1, <1>3, <1>4, <2>2
      <3> QED
          BY <1>2, <2>2, <3>1
    <2> QED
        BY <2>1, <2>2
  <1>10. new[1] = 0 /\ new[n + 2] = Len(u) /\ (n + 1) + 1 = n + 2
      BY <1>2, <1>3, <1>4, <1>5
  <1>11. Joined(s, n + 1, u, new)
      BY <1>6, <1>8, <1>9, <1>10 DEF Joined
  <1> QED
      BY <1>2, <1>11 DEF u

LEMMA FlattenJoins ==
    ASSUME NEW X, NEW s \in Seq(Seq(X))
    PROVE  /\ FlattenSeq(s) \in Seq(X)
           /\ \E off : Joins(s, FlattenSeq(s), off)
  <1>1. CASE s = <<>>
    <2>1. Len(s) = 0 /\ FlattenSeq(s) = s
        BY <1>1 DEF FlattenSeq
    <2>2. Joined(s, 0, s, [i \in 1..1 |-> 0])
        BY <2>1 DEF Joined
    <2> QED
        BY <1>1, <2>1, <2>2, EmptySeq DEF Joins
  <1>2. CASE s # <<>>
    <2> DEFINE f == CHOOSE f : Flattens(s, f, Len(s))
    <2>1. Len(s) \in Nat /\ Len(s) # 0
        BY <1>2, EmptySeq
    <2>2. Flattens(s, f, Len(s))
        BY <2>1, FlattenLoop
    <2>3. FlattenSeq(s) = f[Len(s)]
        BY <2>1 DEF FlattenSeq, Flattens, Behind
    <2> HIDE DEF f
    <2>4. \A i \in 1..Len(s) : f[i] = IF i = 1 THEN s[i] ELSE Behind(f[i - 1], s[i])
        BY <2>2 DEF Flattens
    <2>4a. ASSUME NEW i \in 1..Len(s), i # 1 PROVE f[i] = Behind(f[i - 1], s[i])
        BY <2>4, <2>4a
    <2> DEFINE S == {n \in Nat : n < Len(s) => f[n + 1] \in Seq(X) /\ \E off : Joined(s, n + 1, f[n + 1], off)}
    <2>5. 0 \in S
      <3>1. 1 \in 1..Len(s) /\ s[1] \in Seq(X) /\ f[1] = s[1] /\ Len(s[1]) \in Nat
          BY <2>1, <2>4, ElementOfSeq
      <3>2. Joined(s, 1, s[1], [i \in 1..2 |-> IF i = 1 THEN 0 ELSE Len(s[1])])
          BY <3>1 DEF Joined
      <3> QED
          BY <3>1, <3>2
    <2>6. ASSUME NEW n \in Nat, n \in S PROVE n + 1 \in S
      <3>1. CASE n + 1 < Len(s)
        <4>1. f[n + 1] \in Seq(X) /\ \E off : Joined(s, n + 1, f[n + 1], off)
            BY <2>1, <2>6, <3>1
        <4>2. f[n + 2] = f[n + 1] \o s[n + 2]
          <5>1. n + 2 \in 1..Len(s) /\ n + 2 # 1 /\ n + 2 - 1 = n + 1
              BY <2>1, <3>1
          <5>2. f[n + 2] = Behind(f[n + 2 - 1], s[n + 2])
              BY <2>4a, <5>1
          <5> QED
              BY <5>1, <5>2 DEF Behind
        <4>3. n + 1 \in Nat /\ (n + 1) + 1 <= Len(s) /\ (n + 1) + 1 = n + 2
            BY <2>1, <3>1
        <4> DEFINE m == n + 1
                   t == f[n + 1]
        <4> HIDE DEF m, t
        <4>4. PICK off : Joined(s, m, t, off)
            BY <4>1 DEF m, t
        <4>5. t \o s[m + 1] \in Seq(X) /\ \E new : Joined(s, m + 1, t \o s[m + 1], new)
            BY <4>1, <4>3, <4>4, JoinOne DEF m, t
        <4>6. m + 1 = n + 2 /\ t \o s[m + 1] = f[n + 2] /\ m = n + 1
            BY <4>2, <4>3 DEF m, t
        <4>7. f[n + 2] \in Seq(X) /\ \E new : Joined(s, n + 2, f[n + 2], new)
            BY <4>5, <4>6
        <4> QED
            BY <4>3, <4>7
      <3> QED
          BY <2>1, <3>1
    <2> HIDE DEF S
    <2>7. Nat \subseteq S
        BY <2>5, <2>6, Counting
    <2>8. Len(s) - 1 \in Nat /\ Len(s) - 1 < Len(s) /\ Len(s) - 1 + 1 = Len(s)
        BY <2>1
    <2> QED
        BY <2>3, <2>7, <2>8 DEF Joins, S
  <1> QED
      BY <1>1, <1>2

\* The pieces lie in their order, they cover t and no two of them overlap.
Laid(s, t, off) ==
  /\ \A i \in 1..(Len(s) + 1) : off[i] \in Nat
  /\ \A i, m \in 1..(Len(s) + 1) : i <= m => off[i] <= off[m]
  /\ \A i \in 1..Len(s) : \A j \in 1..Len(s[i]) : off[i] + j \in 1..Len(t)
  /\ \A k \in 1..Len(t) : \E i \in 1..Len(s) : \E j \in 1..Len(s[i]) : k = off[i] + j
  /\ \A i, m \in 1..Len(s) : \A j \in 1..Len(s[i]), l \in 1..Len(s[m]) :
       /\ i < m => off[i] + j < off[m] + l
       /\ off[i] + j = off[m] + l => i = m /\ j = l
LEMMA JoinedPlaces ==
    ASSUME NEW X, NEW s \in Seq(Seq(X)), NEW t \in Seq(X), NEW off, Joins(s, t, off)
    PROVE  Laid(s, t, off)
  <1> DEFINE n == Len(s)
  <1>1. /\ off \in [1..(n + 1) -> Nat] /\ off[1] = 0 /\ off[n + 1] = Len(t) /\ n \in Nat /\ Len(t) \in Nat
        /\ \A i \in 1..n : off[i + 1] = off[i] + Len(s[i])
      BY DEF Joins, Joined
  <1>2. \A i \in 1..n : Len(s[i]) \in Nat
      BY ElementOfSeq
  <1>3. \A i \in 1..(n + 1) : off[i] \in Nat
      BY <1>1
  <1> HIDE DEF n
  <1>4. ASSUME NEW i \in 1..(n + 1) PROVE \A m \in 1..(n + 1) : i <= m => off[i] <= off[m]
    <2> DEFINE S == {d \in Nat : i + d <= n + 1 => off[i] <= off[i + d]}
    <2>1. 0 \in S
        BY <1>1, <1>3
    <2>2. ASSUME NEW d \in Nat, d \in S PROVE d + 1 \in S
      <3>1. CASE i + d <= n
        <4>1. i + d \in 1..n /\ i + d \in 1..(n + 1) /\ i + (d + 1) = (i + d) + 1 /\ i + d <= n + 1
            BY <1>1, <3>1
        <4>2. off[(i + d) + 1] = off[i + d] + Len(s[i + d]) /\ Len(s[i + d]) \in Nat /\ off[i] <= off[i + d]
            BY <1>1, <1>2, <2>2, <4>1
        <4>3. off[i] \in Nat /\ off[i + d] \in Nat
            BY <1>3, <4>1
        <4>4. off[i + (d + 1)] = off[i + d] + Len(s[i + d])
            BY <4>1, <4>2
        <4>5. off[i] <= off[i + (d + 1)]
          <5> DEFINE x == off[i]
                     y == off[i + d]
                     z == Len(s[i + d])
          <5>1. x \in Nat /\ y \in Nat /\ z \in Nat /\ x <= y
              BY <4>2, <4>3
          <5> HIDE DEF x, y, z
          <5>2. x <= y + z
              BY <5>1
          <5> QED
              BY <4>4, <5>2 DEF x, y, z
        <4> QED
            BY <4>5
      <3> QED
          BY <1>1, <3>1
    <2> HIDE DEF S
    <2>3. Nat \subseteq S
        BY <2>1, <2>2, Counting
    <2>4. ASSUME NEW m \in 1..(n + 1), i <= m PROVE off[i] <= off[m]
      <3>1. m - i \in Nat /\ i + (m - i) = m
          BY <1>1, <2>4
      <3>2. m - i \in S /\ m <= n + 1
          BY <1>1, <2>3, <3>1
      <3> QED
          BY <3>1, <3>2 DEF S
    <2> QED
        BY <2>4
  <1>5. ASSUME NEW i \in 1..n, NEW j \in 1..Len(s[i]) PROVE off[i] + j \in 1..Len(t) /\ off[i] < off[i] + j /\ off[i] + j <= off[i + 1]
    <2>1. i \in 1..(n + 1) /\ i + 1 \in 1..(n + 1) /\ n + 1 \in 1..(n + 1) /\ i + 1 <= n + 1
        BY <1>1
    <2>2. off[i] \in Nat /\ off[i + 1] = off[i] + Len(s[i]) /\ off[i + 1] <= off[n + 1] /\ Len(s[i]) \in Nat
        BY <1>1, <1>2, <1>3, <1>4, <2>1
    <2> DEFINE a == off[i]
               c == Len(s[i])
               e == Len(t)
    <2>3. a \in Nat /\ c \in Nat /\ e \in Nat /\ a + c <= e /\ j \in 1..c /\ off[i + 1] = a + c
        BY <1>1, <2>2
    <2> HIDE DEF a, c, e
    <2>4. a + j \in 1..e /\ a < a + j /\ a + j <= a + c
        BY <2>3
    <2> QED
        BY <2>3, <2>4 DEF a, e
  <1>6. ASSUME NEW i \in 1..n, NEW m \in 1..n, NEW j \in 1..Len(s[i]), NEW l \in 1..Len(s[m]), i < m
        PROVE  off[i] + j < off[m] + l
    <2>1. i + 1 \in 1..(n + 1) /\ m \in 1..(n + 1) /\ i \in 1..(n + 1) /\ i + 1 <= m
        BY <1>1, <1>6
    <2>2. off[i + 1] <= off[m] /\ off[m] < off[m] + l /\ off[i] + j <= off[i + 1]
        BY <1>4, <1>5, <2>1
    <2>3a. off[i] \in Nat /\ off[m] \in Nat /\ off[i + 1] \in Nat
        BY <1>3, <2>1
    <2>3b. j \in Int /\ l \in Int
        OBVIOUS
    <2>3c. off[i] + j \in Int
        BY <2>3a, <2>3b
    <2>3. off[i] \in Nat /\ off[m] \in Nat /\ off[i + 1] \in Nat /\ j \in Int /\ l \in Int /\ off[i] + j \in Int
        BY <2>3a, <2>3b, <2>3c
    <2> DEFINE x == off[i] + j
               y == off[m]
               z == off[i + 1]
    <2>4. x \in Int /\ y \in Int /\ z \in Int /\ z <= y /\ y < y + l /\ x <= z /\ l \in Int
        BY <2>2, <2>3
    <2> HIDE DEF x, y, z
    <2>5. x < y + l
        BY <2>4
    <2> QED
        BY <2>5 DEF x, y
  <1>7. ASSUME NEW i \in 1..n, NEW m \in 1..n, NEW j \in 1..Len(s[i]), NEW l \in 1..Len(s[m]),
               off[i] + j = off[m] + l
        PROVE  i = m /\ j = l
    <2>1. ~(i < m) /\ ~(m < i)
      <3>1a. i \in 1..(n + 1) /\ m \in 1..(n + 1)
          BY <1>1
      <3>1b. j \in Int /\ l \in Int
          OBVIOUS
      <3>1. off[i] \in Nat /\ off[m] \in Nat /\ j \in Int /\ l \in Int
          BY <1>3, <3>1a, <3>1b
      <3>2. i < m => off[i] + j < off[m] + l
          BY <1>6
      <3>3. m < i => off[m] + l < off[i] + j
          BY <1>6
      <3> QED
          BY <1>7, <3>1, <3>2, <3>3
    <2>2. i = m
        BY <1>1, <2>1
    <2>3. off[i] \in Nat /\ j \in Int /\ l \in Int /\ off[i] + j = off[i] + l
        BY <1>1, <1>3, <1>7, <2>2
    <2>4. j = l
        BY <2>3
    <2> QED
        BY <2>2, <2>4
  <1>8. \A k \in 1..Len(t) : \E i \in 1..n : \E j \in 1..Len(s[i]) : k = off[i] + j
    <2> DEFINE S == {d \in Nat : d <= n => \A k \in 1..off[d + 1] : \E i \in 1..n : \E j \in 1..Len(s[i]) : k = off[i] + j}
    <2>1. 0 \in S
        BY <1>1
    <2>2. ASSUME NEW d \in Nat, d \in S PROVE d + 1 \in S
      <3>1. ASSUME d + 1 <= n, NEW k \in 1..off[(d + 1) + 1]
            PROVE  \E i \in 1..n : \E j \in 1..Len(s[i]) : k = off[i] + j
        <4>1. d + 1 \in 1..n /\ d + 1 \in 1..(n + 1) /\ d <= n
            BY <1>1, <3>1
        <4>2. off[d + 1] \in Nat /\ off[(d + 1) + 1] = off[d + 1] + Len(s[d + 1]) /\ Len(s[d + 1]) \in Nat
            BY <1>1, <1>2, <1>3, <4>1
        <4>3. CASE k <= off[d + 1]
          <5>1. k \in 1..off[d + 1]
              BY <4>2, <4>3
          <5> QED
              BY <2>2, <4>1, <5>1
        <4>4. CASE ~(k <= off[d + 1])
          <5> DEFINE x == off[d + 1]
                     y == Len(s[d + 1])
                     z == off[(d + 1) + 1]
          <5>0. x \in Nat /\ y \in Nat /\ z = x + y /\ k \in 1..z /\ ~(k <= x)
              BY <4>2, <4>4
          <5> HIDE DEF x, y, z
          <5>1. k - x \in 1..y /\ k = x + (k - x)
              BY <5>0
          <5> QED
              BY <4>1, <5>1 DEF x, y
        <4> QED
            BY <4>3, <4>4
      <3> QED
          BY <3>1
    <2> HIDE DEF S
    <2>3. Nat \subseteq S
        BY <2>1, <2>2, Counting
    <2>4. n \in S
        BY <1>1, <2>3
    <2> QED
        BY <1>1, <2>4 DEF S
  <1>9. \A i, m \in 1..(n + 1) : i <= m => off[i] <= off[m]
      BY <1>4
  <1>10. \A i \in 1..n : \A j \in 1..Len(s[i]) : off[i] + j \in 1..Len(t)
      BY <1>5
  <1>11. \A i, m \in 1..n : \A j \in 1..Len(s[i]), l \in 1..Len(s[m]) :
            /\ i < m => off[i] + j < off[m] + l
            /\ off[i] + j = off[m] + l => i = m /\ j = l
      BY <1>6, <1>7
  <1> QED
      BY <1>3, <1>8, <1>9, <1>10, <1>11 DEF n, Laid

\* What lies as the pieces do is what they make when they are joined.
LEMMA JoinsSame ==
    ASSUME NEW X, NEW s \in Seq(Seq(X)), NEW t \in Seq(X), NEW off, Joins(s, t, off),
           NEW u \in Seq(X), NEW new, Joins(s, u, new)
    PROVE  t = u
  <1> DEFINE n == Len(s)
  <1>1. /\ off \in [1..(n + 1) -> Nat] /\ off[1] = 0 /\ off[n + 1] = Len(t) /\ n \in Nat
        /\ \A i \in 1..n : off[i + 1] = off[i] + Len(s[i])
        /\ \A i \in 1..n : \A j \in 1..Len(s[i]) : t[off[i] + j] = s[i][j]
      BY DEF Joins, Joined
  <1>2. /\ new \in [1..(n + 1) -> Nat] /\ new[1] = 0 /\ new[n + 1] = Len(u)
        /\ \A i \in 1..n : new[i + 1] = new[i] + Len(s[i])
        /\ \A i \in 1..n : \A j \in 1..Len(s[i]) : u[new[i] + j] = s[i][j]
      BY DEF Joins, Joined
  <1>3a. Laid(s, t, off)
      BY JoinedPlaces
  <1>3. \A k \in 1..Len(t) : \E i \in 1..n : \E j \in 1..Len(s[i]) : k = off[i] + j
      BY <1>3a DEF Laid
  <1> HIDE DEF n
  <1> DEFINE S == {d \in Nat : d <= n => off[d + 1] = new[d + 1]}
  <1>4. 0 \in S
      BY <1>1, <1>2
  <1>5. ASSUME NEW d \in Nat, d \in S PROVE d + 1 \in S
    <2>1. CASE d + 1 <= n
      <3>1. d + 1 \in 1..n /\ d <= n
          BY <1>1, <2>1
      <3>2. off[(d + 1) + 1] = off[d + 1] + Len(s[d + 1]) /\ new[(d + 1) + 1] = new[d + 1] + Len(s[d + 1])
          BY <1>1, <1>2, <3>1
      <3> QED
          BY <1>5, <3>1, <3>2
    <2> QED
        BY <2>1
  <1> HIDE DEF S
  <1>6. Nat \subseteq S
      BY <1>4, <1>5, Counting
  <1>7. ASSUME NEW i \in 1..(n + 1) PROVE off[i] = new[i]
    <2>1. i - 1 \in Nat /\ i - 1 <= n /\ (i - 1) + 1 = i
        BY <1>1
    <2>2. i - 1 \in S
        BY <1>6, <2>1
    <2> QED
        BY <2>1, <2>2 DEF S
  <1>8. Len(t) = Len(u)
      BY <1>1, <1>2, <1>7
  <1>9. ASSUME NEW k \in 1..Len(t) PROVE t[k] = u[k]
    <2>1. PICK i \in 1..n : \E j \in 1..Len(s[i]) : k = off[i] + j
        BY <1>3
    <2>1a. PICK j \in 1..Len(s[i]) : k = off[i] + j
        BY <2>1
    <2>2. t[off[i] + j] = s[i][j]
        BY <1>1
    <2>3. u[new[i] + j] = s[i][j]
        BY <1>2
    <2>4. i \in 1..(n + 1)
        BY <1>1
    <2> QED
        BY <1>7, <2>1a, <2>2, <2>3, <2>4
  <1> QED
      BY <1>8, <1>9, SeqEqual

\* A set of numbers has a least one.
LEMMA LeastOne ==
    ASSUME NEW I, I \subseteq Nat, I # {}
    PROVE  \E i \in I : \A j \in I : i <= j
  <1> DEFINE R == OpToRel(<, Nat)
  <1>1. IsWellFoundedOn(R, Nat)
      BY NatLessThanWellFounded
  <1>r. \A a, b \in Nat : a < b => <<a, b>> \in R
      BY DEF OpToRel
  <1> HIDE DEF R
  <1>3. PICK x \in I : \A y \in I : ~(<<y, x>> \in R)
      BY <1>1, WFMin
  <1>4. \A y \in I : y \in Nat /\ x \in Nat /\ ~(y < x)
      BY <1>3, <1>r
  <1>5. \A y \in I : x <= y
      BY <1>4
  <1> QED
      BY <1>5

\* What Min and Max choose.
LEMMA MinIs ==
    ASSUME NEW I, I \subseteq Int, NEW m \in I, \A j \in I : m <= j
    PROVE  Min(I) = m
  <1>1. \E x \in I : \A y \in I : x <= y
      OBVIOUS
  <1>2. Min(I) \in I /\ \A y \in I : Min(I) <= y
      BY <1>1 DEF Min
  <1>3. Min(I) \in Int /\ m \in Int /\ Min(I) <= m /\ m <= Min(I)
      BY <1>2
  <1> QED
      BY <1>3

LEMMA MaxIs ==
    ASSUME NEW I, I \subseteq Int, NEW m \in I, \A j \in I : j <= m
    PROVE  Max(I) = m
  <1>1. \E x \in I : \A y \in I : x >= y
      OBVIOUS
  <1>2. Max(I) \in I /\ \A y \in I : Max(I) >= y
      BY <1>1 DEF Max
  <1>3. Max(I) \in Int /\ m \in Int /\ Max(I) <= m /\ m <= Max(I)
      BY <1>2
  <1> QED
      BY <1>3

LineKinds == {"row", "loose", "quote", "blank", "heading", "text"}
Cells == {"w", "v", "e", "-"}
Line == [kind : LineKinds, cells : Seq(Cells), from : Seq(Nat)]

LEMMA PageTyped ==
    ASSUME NEW p \in Seq(Line)
    PROVE  /\ Len(p) \in Nat /\ DOMAIN p = 1..Len(p)
           /\ \A i \in 1..Len(p) : /\ p[i] \in Line /\ p[i].kind \in LineKinds /\ p[i].cells \in Seq(Cells)
                                   /\ p[i].from \in Seq(Nat) /\ CountCells(p[i]) \in Nat
  <1>1. Len(p) \in Nat /\ DOMAIN p = 1..Len(p)
      OBVIOUS
  <1>2. ASSUME NEW i \in 1..Len(p)
        PROVE  /\ p[i] \in Line /\ p[i].kind \in LineKinds /\ p[i].cells \in Seq(Cells)
               /\ p[i].from \in Seq(Nat) /\ CountCells(p[i]) \in Nat
    <2>1. p[i] \in Line
        BY ElementOfSeq
    <2>2. p[i].kind \in LineKinds /\ p[i].cells \in Seq(Cells) /\ p[i].from \in Seq(Nat)
        BY <2>1 DEF Line
    <2> QED
        BY <2>1, <2>2 DEF CountCells
  <1> QED
      BY <1>1, <1>2

\* What a block is, without its pairs.
LEMMA BlockIs ==
    ASSUME NEW p \in Seq(Line), NEW b
    PROVE  b \in Blocks(p) <=> /\ b = <<b[1], b[2]>> /\ b[1] \in 1..Len(p) /\ b[2] \in 1..Len(p) /\ b[1] <= b[2]
                               /\ \A i \in b[1]..b[2] : IsRow(p[i])
                               /\ b[1] = 1 \/ ~IsRow(p[b[1] - 1])
                               /\ b[2] = Len(p) \/ ~IsRow(p[b[2] + 1])
  <1>1. DOMAIN p = 1..Len(p)
      OBVIOUS
  <1>2. b \in (1..Len(p)) \X (1..Len(p)) <=> b = <<b[1], b[2]>> /\ b[1] \in 1..Len(p) /\ b[2] \in 1..Len(p)
      OBVIOUS
  <1> QED
      BY <1>1, <1>2 DEF Blocks

\* Blocks do not overlap.
LEMMA BlocksApart ==
    ASSUME NEW p \in Seq(Line), NEW b \in Blocks(p), NEW c \in Blocks(p), NEW i \in (b[1]..b[2]) \cap (c[1]..c[2])
    PROVE  b = c
  <1>1. \A a \in Blocks(p) : /\ a = <<a[1], a[2]>> /\ a[1] \in 1..Len(p) /\ a[2] \in 1..Len(p) /\ a[1] <= a[2]
                             /\ \A k \in a[1]..a[2] : IsRow(p[k])
                             /\ a[1] = 1 \/ ~IsRow(p[a[1] - 1])
                             /\ a[2] = Len(p) \/ ~IsRow(p[a[2] + 1])
      BY BlockIs
  <1>2. Len(p) \in Nat
      OBVIOUS
  <1>3. \A a, d \in Blocks(p) : i \in a[1]..a[2] /\ i \in d[1]..d[2] => ~(a[1] < d[1]) /\ ~(a[2] < d[2])
    <2> TAKE a, d \in Blocks(p)
    <2> HAVE i \in a[1]..a[2] /\ i \in d[1]..d[2]
    <2>1. ASSUME a[1] < d[1] PROVE FALSE
      <3>1. d[1] - 1 \in a[1]..a[2] /\ d[1] # 1
          BY <1>1, <1>2, <2>1
      <3> QED
          BY <1>1, <3>1
    <2>2. ASSUME a[2] < d[2] PROVE FALSE
      <3>1. a[2] + 1 \in d[1]..d[2] /\ a[2] # Len(p)
          BY <1>1, <1>2, <2>2
      <3> QED
          BY <1>1, <3>1
    <2> QED
        BY <2>1, <2>2
  <1>4. b[1] = c[1] /\ b[2] = c[2]
    <2>1. ~(b[1] < c[1]) /\ ~(b[2] < c[2]) /\ ~(c[1] < b[1]) /\ ~(c[2] < b[2])
        BY <1>3
    <2>2. b[1] \in Nat /\ b[2] \in Nat /\ c[1] \in Nat /\ c[2] \in Nat
        BY <1>1, <1>2
    <2> QED
        BY <2>1, <2>2
  <1> QED
      BY <1>1, <1>4

\* A run of rows that follows none is the beginning of a block.
LEMMA BlockFrom ==
    ASSUME NEW p \in Seq(Line), NEW k \in 1..Len(p), NEW e \in k..Len(p),
           \A i \in k..e : IsRow(p[i]), k = 1 \/ ~IsRow(p[k - 1])
    PROVE  \E b \in Blocks(p) : b[1] = k /\ e <= b[2]
  <1> DEFINE Ends == {i \in k..Len(p) : i = Len(p) \/ ~IsRow(p[i + 1])}
  <1>1. Len(p) \in Nat /\ Ends \subseteq Nat /\ Len(p) \in Ends
      OBVIOUS
  <1>2. PICK z \in Ends : \A j \in Ends : z <= j
      BY <1>1, LeastOne
  <1>3. ASSUME NEW i \in k..z PROVE IsRow(p[i])
    <2>1. CASE i = k
        BY <2>1
    <2>2. CASE i # k
      <3>1. i - 1 \in k..Len(p) /\ ~(z <= i - 1) /\ i - 1 + 1 = i
          BY <1>1, <2>2
      <3>2. i - 1 \notin Ends
          BY <1>2, <3>1
      <3> QED
          BY <3>1, <3>2
    <2> QED
        BY <2>1, <2>2
  <1>4. e <= z
    <2>1. SUFFICES ASSUME z < e PROVE FALSE
        BY <1>1
    <2>2. z + 1 \in k..e /\ z # Len(p)
        BY <1>1, <2>1
    <2> QED
        BY <2>2
  <1>5. <<k, z>> \in Blocks(p)
    <2> DEFINE b == <<k, z>>
    <2>1. b[1] = k /\ b[2] = z /\ z \in 1..Len(p) /\ k <= z /\ (z = Len(p) \/ ~IsRow(p[z + 1]))
        BY <1>1
    <2>2. /\ b = <<b[1], b[2]>> /\ b[1] \in 1..Len(p) /\ b[2] \in 1..Len(p) /\ b[1] <= b[2]
          /\ \A i \in b[1]..b[2] : IsRow(p[i])
          /\ b[1] = 1 \/ ~IsRow(p[b[1] - 1])
          /\ b[2] = Len(p) \/ ~IsRow(p[b[2] + 1])
        BY <1>3, <2>1
    <2> HIDE DEF b
    <2>3. b \in Blocks(p)
        BY <2>2, BlockIs
    <2> QED
        BY <2>3 DEF b
  <1> QED
      BY <1>4, <1>5

\* The first separator of a block makes a table of it.
LEMMA FirstSeparator ==
    ASSUME NEW p \in Seq(Line), NEW b \in Blocks(p), NEW s \in b[1]..b[2], IsSeparator(p[s]),
           \A i \in b[1]..(s - 1) : ~IsSeparator(p[i])
    PROVE  /\ b \in HeadedBlocks(p) /\ FindSeparator(p, b) = s
           /\ HeaderLine(p, b) = IF s = b[1] THEN b[1] ELSE s - 1
  <1>1. b[1] \in Nat /\ b[2] \in Nat /\ Len(p) \in Nat /\ s \in Nat
      BY BlockIs
  <1>2. s \in Separators(p, b) /\ Separators(p, b) \subseteq Int
      BY <1>1 DEF Separators
  <1>3. ASSUME NEW j \in Separators(p, b) PROVE s <= j
    <2>1. j \in b[1]..b[2] /\ IsSeparator(p[j])
        BY DEF Separators
    <2>2. ~(j \in b[1]..(s - 1))
        BY <2>1
    <2> QED
        BY <1>1, <2>1, <2>2
  <1>4. FindSeparator(p, b) = s
      BY <1>2, <1>3, MinIs DEF FindSeparator
  <1>5. b \in HeadedBlocks(p)
      BY <1>2 DEF HeadedBlocks, Headed
  <1>6. Max({b[1], s - 1}) = IF s = b[1] THEN b[1] ELSE s - 1
    <2>1. CASE s = b[1]
      <3>1. {b[1], s - 1} \subseteq Int /\ b[1] \in {b[1], s - 1} /\ \A j \in {b[1], s - 1} : j <= b[1]
          BY <1>1, <2>1
      <3>2. Max({b[1], s - 1}) = b[1]
          BY <3>1, MaxIs
      <3> QED
          BY <2>1, <3>2
    <2>2. CASE s # b[1]
      <3>1. {b[1], s - 1} \subseteq Int /\ s - 1 \in {b[1], s - 1} /\ \A j \in {b[1], s - 1} : j <= s - 1
          BY <1>1, <2>2
      <3>2. Max({b[1], s - 1}) = s - 1
          BY <3>1, MaxIs
      <3> QED
          BY <2>2, <3>2
    <2> QED
        BY <2>1, <2>2
  <1> QED
      BY <1>4, <1>5, <1>6 DEF HeaderLine

\* And every table has one.
LEMMA SeparatorIs ==
    ASSUME NEW p \in Seq(Line), NEW b \in HeadedBlocks(p)
    PROVE  /\ b \in Blocks(p)
           /\ \E s \in b[1]..b[2] : /\ IsSeparator(p[s]) /\ \A i \in b[1]..(s - 1) : ~IsSeparator(p[i])
                                    /\ FindSeparator(p, b) = s
                                    /\ HeaderLine(p, b) = IF s = b[1] THEN b[1] ELSE s - 1
  <1>1. b \in Blocks(p) /\ Separators(p, b) # {}
      BY DEF HeadedBlocks, Headed
  <1>2. b[1] \in Nat /\ b[2] \in Nat /\ b[2] <= Len(p) /\ Len(p) \in Nat /\ b[1] \in 1..Len(p)
      BY <1>1, BlockIs
  <1>3. Separators(p, b) \subseteq Nat
      BY <1>2 DEF Separators
  <1>4. PICK s \in Separators(p, b) : \A j \in Separators(p, b) : s <= j
      BY <1>1, <1>3, LeastOne
  <1>5. s \in b[1]..b[2] /\ IsSeparator(p[s])
      BY DEF Separators
  <1>6. ASSUME NEW i \in b[1]..(s - 1) PROVE ~IsSeparator(p[i])
    <2>1. i \in b[1]..b[2] /\ ~(s <= i)
        BY <1>2, <1>5
    <2>2. i \notin Separators(p, b)
        BY <1>4, <2>1
    <2> QED
        BY <2>1, <2>2 DEF Separators
  <1>7. FindSeparator(p, b) = s /\ HeaderLine(p, b) = IF s = b[1] THEN b[1] ELSE s - 1
      BY <1>1, <1>5, <1>6, FirstSeparator
  <1> QED
      BY <1>1, <1>5, <1>6, <1>7

\* The rows that are as wide as their header.
LEMMA AlignedIs ==
    ASSUME NEW p \in Seq(Line), NEW f
    PROVE  f \in Aligned(p) <=> \E b \in HeadedBlocks(p) : \E i \in DataLines(p, b) :
                                    CountCells(p[i]) = HeaderCells(p, b) /\ f = p[i].from
  <1>1. ASSUME NEW b \in HeadedBlocks(p), NEW c \in HeadedBlocks(p), NEW i \in DataLines(p, b) \cap DataLines(p, c)
        PROVE  b = c
    <2>1. i \in (b[1]..b[2]) \cap (c[1]..c[2]) /\ b \in Blocks(p) /\ c \in Blocks(p)
        BY DEF DataLines, HeadedBlocks
    <2> QED
        BY <2>1, BlocksApart
  <1>2. ASSUME f \in Aligned(p)
        PROVE  \E b \in HeadedBlocks(p) : \E i \in DataLines(p, b) : CountCells(p[i]) = HeaderCells(p, b) /\ f = p[i].from
    <2>1. PICK i \in AllData(p) \ AllRagged(p) : f = p[i].from
        BY <1>2 DEF Aligned
    <2>2. PICK b \in HeadedBlocks(p) : i \in DataLines(p, b)
        BY <2>1 DEF AllData
    <2>3. i \notin RaggedLines(p, b)
        BY <2>1, <2>2 DEF AllRagged
    <2> QED
        BY <2>1, <2>2, <2>3 DEF RaggedLines
  <1>3. ASSUME NEW b \in HeadedBlocks(p), NEW i \in DataLines(p, b), CountCells(p[i]) = HeaderCells(p, b), f = p[i].from
        PROVE  f \in Aligned(p)
    <2>1. i \in AllData(p)
        BY DEF AllData
    <2>2. i \notin AllRagged(p)
      <3>1. SUFFICES ASSUME NEW c \in HeadedBlocks(p), i \in RaggedLines(p, c) PROVE FALSE
          BY DEF AllRagged
      <3>2. i \in DataLines(p, c) /\ CountCells(p[i]) # HeaderCells(p, c)
          BY <3>1 DEF RaggedLines
      <3>3. b = c
          BY <1>1, <3>2
      <3> QED
          BY <1>3, <3>2, <3>3
    <2> QED
        BY <1>3, <2>1, <2>2 DEF Aligned
  <1> QED
      BY <1>2, <1>3

\* From its k-th line on, q has the lines of b, and none of a block before it.
Stands(p, b, q, k) ==
  /\ k \in 1..Len(q) /\ k + (b[2] - b[1]) <= Len(q)
  /\ \A i \in b[1]..b[2] : /\ IsRow(q[k + (i - b[1])]) /\ q[k + (i - b[1])].cells = p[i].cells
                           /\ q[k + (i - b[1])].from = p[i].from
  /\ k = 1 \/ ~IsRow(q[k - 1])

\* A table that stands on another page keeps its columns there.
LEMMA StandingAligned ==
    ASSUME NEW p \in Seq(Line), NEW q \in Seq(Line), NEW b \in HeadedBlocks(p), NEW k, Stands(p, b, q, k),
           NEW i \in DataLines(p, b), CountCells(p[i]) = HeaderCells(p, b)
    PROVE  p[i].from \in Aligned(q)
  <1> DEFINE B1 == b[1]
             B2 == b[2]
             L == Len(q)
             at == [j \in B1..B2 |-> k + (j - B1)]
             e == at[B2]
  <1>1. /\ b \in Blocks(p) /\ B1 \in Nat /\ B2 \in Nat /\ B1 <= B2 /\ L \in Nat
        /\ \A j \in B1..B2 : IsRow(p[j])
      BY BlockIs DEF HeadedBlocks
  <1>3. PICK s \in B1..B2 : /\ IsSeparator(p[s]) /\ \A j \in B1..(s - 1) : ~IsSeparator(p[j])
                            /\ FindSeparator(p, b) = s
                            /\ HeaderLine(p, b) = IF s = B1 THEN B1 ELSE s - 1
      BY SeparatorIs
  <1>e. \A j \in B1..B2 : at[j] = k + (j - B1)
      OBVIOUS
  <1>f. e = k + (B2 - B1)
      BY <1>1
  <1> HIDE DEF at, e
  <1>4. /\ k \in 1..L /\ e <= L /\ (k = 1 \/ ~IsRow(q[k - 1]))
        /\ \A j \in B1..B2 : IsRow(q[at[j]]) /\ q[at[j]].cells = p[j].cells /\ q[at[j]].from = p[j].from
    <2>1. /\ k \in 1..L /\ k + (B2 - B1) <= L /\ (k = 1 \/ ~IsRow(q[k - 1]))
          /\ \A j \in B1..B2 : /\ IsRow(q[k + (j - B1)]) /\ q[k + (j - B1)].cells = p[j].cells
                                /\ q[k + (j - B1)].from = p[j].from
        BY DEF Stands
    <2> QED
        BY <1>e, <1>f, <2>1
  <1>13. i \in B1..B2 /\ i # s /\ i # s - 1
      BY <1>3 DEF DataLines
  <1>a. \A c \in Blocks(q) : c[2] \in 1..L /\ c[1] \in 1..L
      BY BlockIs
  <1>b. \A c \in HeadedBlocks(q) : DataLines(q, c) = (c[1]..c[2]) \ {FindSeparator(q, c), FindSeparator(q, c) - 1}
      BY DEF DataLines
  <1>c. HeaderCells(p, b) = CountCells(p[HeaderLine(p, b)])
      BY DEF HeaderCells
  <1>d. (\A j \in k..e : IsRow(q[j])) /\ e \in k..L => \E c \in Blocks(q) : c[1] = k /\ e <= c[2]
      BY <1>4, BlockFrom
  <1> HIDE DEF B1, B2, L
  <1>5. \A j \in B1..B2 : /\ at[j] \in k..e /\ at[j] \in 1..L
                          /\ IsSeparator(q[at[j]]) <=> IsSeparator(p[j])
                          /\ CountCells(q[at[j]]) = CountCells(p[j])
    <2> TAKE j \in B1..B2
    <2>1. at[j] \in k..e /\ at[j] \in 1..L
      <3>1. k \in Nat /\ 1 <= k /\ e <= L
          BY <1>4
      <3>2. j \in Nat /\ B1 <= j /\ j <= B2
          BY <1>1
      <3>3. at[j] = k + (j - B1)
          BY <1>e
      <3> QED
          BY <1>1, <1>f, <3>1, <3>2, <3>3
    <2>2. IsRow(q[at[j]]) /\ IsRow(p[j]) /\ q[at[j]].cells = p[j].cells
        BY <1>1, <1>4, <1>e, <1>f
    <2> QED
        BY <2>1, <2>2 DEF IsSeparator, CountCells
  <1>6. \E c \in Blocks(q) : c[1] = k /\ e <= c[2]
    <2>1. e \in k..L
        BY <1>1, <1>4, <1>e, <1>f
    <2>2. ASSUME NEW l \in k..e PROVE IsRow(q[l])
      <3>1. l - k + B1 \in B1..B2 /\ at[l - k + B1] = l
          BY <1>1, <1>4, <1>e, <1>f
      <3> QED
          BY <1>4, <3>1
    <2> QED
        BY <1>4, <1>d, <2>1, <2>2
  <1>7. PICK c \in Blocks(q) : c[1] = k /\ e <= c[2]
      BY <1>6
  <1>8. c[2] \in 1..L
      BY <1>a
  <1> DEFINE z == at[s]
  <1>9. z \in c[1]..c[2] /\ IsSeparator(q[z])
    <2>1. z \in k..e
        BY <1>3, <1>5
    <2>2. IsSeparator(q[z])
      <3> QED
          BY <1>3, <1>5
    <2> QED
        BY <1>1, <1>4, <1>7, <1>8, <1>f, <2>1, <2>2
  <1>10. ASSUME NEW l \in c[1]..(z - 1) PROVE ~IsSeparator(q[l])
    <2>1. PICK j \in B1..(s - 1) : j \in B1..B2 /\ at[j] = l
      <3>1. l - k + B1 \in B1..(s - 1) /\ l - k + B1 \in B1..B2 /\ at[l - k + B1] = l
          BY <1>1, <1>3, <1>4, <1>7, <1>e
      <3> QED
          BY <3>1
    <2> QED
        BY <1>3, <1>5, <2>1
  <1>11. /\ c \in HeadedBlocks(q) /\ FindSeparator(q, c) = z
         /\ HeaderLine(q, c) = IF z = c[1] THEN c[1] ELSE z - 1
    <2> HIDE DEF z
    <2> QED
        BY <1>9, <1>10, FirstSeparator
  <1>12. HeaderCells(q, c) = HeaderCells(p, b)
    <2>1. HeaderLine(p, b) \in B1..B2 /\ HeaderLine(q, c) = at[HeaderLine(p, b)]
        BY <1>1, <1>3, <1>4, <1>7, <1>11, <1>e
    <2> QED
        BY <1>5, <1>c, <2>1 DEF HeaderCells
  <1>14. at[i] \in DataLines(q, c)
    <2>0. at[i] = k + (i - B1) /\ z = k + (s - B1) /\ at[i] \in k..e
        BY <1>3, <1>5, <1>13, <1>e
    <2>0a. at[i] \in c[1]..c[2]
      <3> DEFINE x == at[i]
                 y == c[2]
      <3>1. x \in k..e /\ c[1] = k /\ e <= y /\ y \in Int /\ k \in Int /\ e \in Int
          BY <1>1, <1>4, <1>7, <1>8, <1>f, <2>0
      <3> HIDE DEF x, y
      <3>2. x \in k..y
          BY <3>1
      <3> QED
          BY <3>1, <3>2 DEF x, y
    <2>0b. k \in Int /\ i \in Int /\ s \in Int /\ B1 \in Int
        BY <1>1, <1>3, <1>4, <1>13
    <2> DEFINE x == at[i]
    <2>0c. x = k + (i - B1) /\ z = k + (s - B1)
        BY <2>0
    <2> HIDE DEF x, z
    <2>0d. x # z /\ x # z - 1
        BY <1>13, <2>0b, <2>0c
    <2>1. at[i] \in c[1]..c[2] /\ at[i] # z /\ at[i] # z - 1
        BY <2>0a, <2>0d DEF x
    <2> QED
        BY <1>11, <1>b, <2>1
  <1> HIDE DEF z
  <1>15. CountCells(q[at[i]]) = HeaderCells(q, c) /\ q[at[i]].from = p[i].from
      BY <1>4, <1>5, <1>12, <1>13
  <1> QED
      BY <1>11, <1>14, <1>15, AlignedIs

\* The k-th of pieces of one line each lies k lines behind the first.
OneEach(s, a, z) == \A j \in a..(z - 1) : Len(s[j]) = 1
Evenly(off, a, z) == \A j \in a..z : off[j] = off[a] + (j - a)
LEMMA Consecutive ==
    ASSUME NEW s, NEW t, NEW off, Len(s) \in Nat, Joins(s, t, off),
           NEW a \in 1..Len(s), NEW z \in a..(Len(s) + 1), OneEach(s, a, z)
    PROVE  Evenly(off, a, z)
  <1> DEFINE n == Len(s)
  <1>1. /\ n \in Nat /\ off \in [1..(n + 1) -> Nat] /\ a \in 1..n /\ z \in a..(n + 1)
        /\ \A i \in 1..n : off[i + 1] = off[i] + Len(s[i])
        /\ \A j \in a..(z - 1) : Len(s[j]) = 1
      BY DEF Joins, Joined, OneEach
  <1> HIDE DEF n
  <1>1a. \A i \in 1..(n + 1) : off[i] \in Nat
      BY <1>1
  <1>1b. off[a] \in Nat
      BY <1>1, <1>1a
  <1> DEFINE S == {d \in Nat : a + d <= z => off[a + d] = off[a] + d}
  <1>2. 0 \in S
      BY <1>1, <1>1b
  <1>3. ASSUME NEW d \in Nat, d \in S PROVE d + 1 \in S
    <2>1. CASE a + (d + 1) <= z
      <3>1. a + d \in a..(z - 1) /\ a + d \in 1..n /\ (a + d) + 1 = a + (d + 1) /\ a + d <= z
          BY <1>1, <2>1
      <3>2. off[(a + d) + 1] = off[a + d] + Len(s[a + d]) /\ Len(s[a + d]) = 1
          BY <1>1, <3>1
      <3>3. off[a + d] = off[a] + d
          BY <1>3, <3>1
      <3> QED
          BY <1>1b, <3>1, <3>2, <3>3
    <2> QED
        BY <2>1
  <1> HIDE DEF S
  <1>4. Nat \subseteq S
      BY <1>2, <1>3, Counting
  <1>5. ASSUME NEW j \in a..z PROVE off[j] = off[a] + (j - a)
    <2>1. j - a \in Nat /\ a + (j - a) = j /\ j <= z
        BY <1>1
    <2>2. j - a \in S
        BY <1>4, <2>1
    <2> QED
        BY <2>1, <2>2 DEF S
  <1> QED
      BY <1>5 DEF Evenly

LEMMA SingleLine ==
    ASSUME NEW x, NEW s, s = <<x>>
    PROVE  Len(s) = 1 /\ s[1] = x
  OBVIOUS

LEMMA TwoLines ==
    ASSUME NEW x, NEW y
    PROVE  Len(<<x, y>>) = 2 /\ <<x, y>>[1] = x /\ <<x, y>>[2] = y
  OBVIOUS

\* A table whose lines are the first of their pieces, alone but for the last,
\* and the line above which stays, stands on the joined page.
LEMMA StandsWhereJoined ==
    ASSUME NEW p \in Seq(Line), NEW s \in Seq(Seq(Line)), NEW t \in Seq(Line), NEW off, Joins(s, t, off),
           Len(s) = Len(p), NEW b \in Blocks(p),
           \A j \in b[1]..b[2] : Len(s[j]) >= 1 /\ s[j][1] = p[j],
           \A j \in b[1]..(b[2] - 1) : Len(s[j]) = 1,
           b[1] # 1 => s[b[1] - 1] = <<p[b[1] - 1]>>
    PROVE  Stands(p, b, t, off[b[1]] + 1)
  <1> DEFINE B1 == b[1]
             B2 == b[2]
             k == off[B1] + 1
             n == Len(s)
  <1>1a. /\ B1 \in 1..Len(p) /\ B2 \in 1..Len(p) /\ B1 <= B2
         /\ \A j \in B1..B2 : IsRow(p[j])
         /\ (B1 = 1 \/ ~IsRow(p[B1 - 1]))
      BY BlockIs
  <1>1b. n \in Nat /\ Len(p) = n
      OBVIOUS
  <1>1c. \A j \in 1..n : Len(s[j]) \in Nat
      BY ElementOfSeq
  <1>2. /\ off \in [1..(n + 1) -> Nat] /\ off[1] = 0
        /\ \A i \in 1..n : off[i + 1] = off[i] + Len(s[i])
        /\ \A i \in 1..n : \A j \in 1..Len(s[i]) : t[off[i] + j] = s[i][j]
      BY DEF Joins, Joined
  <1>3. \A i \in 1..n : \A j \in 1..Len(s[i]) : off[i] + j \in 1..Len(t)
    <2>1. Laid(s, t, off)
        BY JoinedPlaces
    <2> QED
        BY <2>1 DEF Laid
  <1>4. \A j \in B1..B2 : Len(s[j]) >= 1 /\ s[j][1] = p[j]
      OBVIOUS
  <1>5a. \A j \in B1..(B2 - 1) : Len(s[j]) = 1
      OBVIOUS
  <1>6. B1 # 1 => s[B1 - 1] = <<p[B1 - 1]>>
      OBVIOUS
  <1> HIDE DEF B1, B2, n
  <1>1. /\ B1 \in 1..n /\ B2 \in 1..n /\ B1 <= B2 /\ n \in Nat
        /\ \A j \in B1..B2 : IsRow(p[j])
        /\ (B1 = 1 \/ ~IsRow(p[B1 - 1]))
      BY <1>1a, <1>1b
  <1>1d. off[B1] \in Nat /\ \A i \in 1..(n + 1) : off[i] \in Nat
    <2>1. \A i \in 1..(n + 1) : off[i] \in Nat
        BY <1>2
    <2>2. B1 \in 1..(n + 1)
        BY <1>1
    <2> QED
        BY <2>1, <2>2
  <1>5. \A j \in B1..B2 : off[j] = off[B1] + (j - B1)
    <2>1. B1 \in 1..Len(s) /\ B2 \in B1..(Len(s) + 1)
        BY <1>1 DEF n
    <2>2. OneEach(s, B1, B2) /\ Len(s) \in Nat
        BY <1>5a DEF OneEach
    <2>3. Evenly(off, B1, B2)
        BY <2>1, <2>2, Consecutive
    <2> QED
        BY <2>3 DEF Evenly
  <1> HIDE DEF k
  <1>7. ASSUME NEW j \in B1..B2 PROVE t[k + (j - B1)] = p[j] /\ k + (j - B1) \in 1..Len(t)
    <2>1. j \in 1..n /\ 1 \in 1..Len(s[j])
        BY <1>1, <1>1c, <1>4
    <2>2. t[off[j] + 1] = s[j][1] /\ off[j] + 1 \in 1..Len(t)
        BY <1>2, <1>3, <2>1
    <2>3a. off[j] = off[B1] + (j - B1)
        BY <1>5
    <2>3. off[j] + 1 = k + (j - B1)
        BY <1>1, <1>1d, <2>3a DEF k
    <2> QED
        BY <1>4, <2>2, <2>3
  <1>8. k \in 1..Len(t) /\ k + (B2 - B1) <= Len(t)
    <2>1. B1 \in B1..B2 /\ B2 \in B1..B2 /\ k \in Nat /\ k + (B1 - B1) = k
        BY <1>1, <1>1d DEF k
    <2>2. k + (B1 - B1) \in 1..Len(t) /\ k + (B2 - B1) \in 1..Len(t)
        BY <1>7, <2>1
    <2> QED
        BY <2>1, <2>2
  <1>9. k = 1 \/ ~IsRow(t[k - 1])
    <2>1. CASE B1 = 1
        BY <1>2, <2>1 DEF k
    <2>2. CASE B1 # 1
      <3>1. B1 - 1 \in 1..n /\ (B1 - 1) + 1 = B1
          BY <1>1, <2>2
      <3>2. Len(s[B1 - 1]) = 1 /\ s[B1 - 1][1] = p[B1 - 1]
          BY <1>6, <2>2, SingleLine
      <3>3. off[B1] = off[B1 - 1] + 1 /\ off[B1] \in Nat
          BY <1>1d, <1>2, <3>1, <3>2
      <3>4. 1 \in 1..Len(s[B1 - 1])
          BY <3>2
      <3>5. t[off[B1 - 1] + 1] = p[B1 - 1]
          BY <1>2, <3>1, <3>2, <3>4
      <3>6. t[k - 1] = p[B1 - 1]
          BY <3>3, <3>5 DEF k
      <3> QED
          BY <1>1, <2>2, <3>6
    <2> QED
        BY <2>1, <2>2
  <1>10. \A j \in B1..B2 : IsRow(p[j]) /\ t[k + (j - B1)] = p[j]
      BY <1>1, <1>7
  <1>11. \A j \in B1..B2 : /\ IsRow(t[k + (j - B1)]) /\ t[k + (j - B1)].cells = p[j].cells
                           /\ t[k + (j - B1)].from = p[j].from
      BY <1>10
  <1> QED
      BY <1>8, <1>9, <1>11 DEF Stands, B1, B2, k
-----------------------------------------------------------------------------
(* The pages the passes make.                                               *)

MergePieces(p) ==
  [i \in DOMAIN p |-> IF \E q \in MergedPairs(p) : i \in Between(q[1], q[2]) THEN <<>> ELSE <<p[i]>>]

LEMMA MergeJoins ==
    ASSUME NEW p \in Seq(Line)
    PROVE  /\ MergeHeaderlessContinuationBlocks(p) = FlattenSeq(MergePieces(p))
           /\ MergePieces(p) \in Seq(Seq(Line)) /\ Len(MergePieces(p)) = Len(p)
  <1>1. MergeHeaderlessContinuationBlocks(p) = FlattenSeq(MergePieces(p))
      BY DEF MergeHeaderlessContinuationBlocks, MergePieces, Rewritten
  <1>2. ASSUME NEW i \in 1..Len(p) PROVE <<p[i]>> \in Seq(Line)
    <2>1. p[i] \in Line
        BY ElementOfSeq
    <2> QED
        BY <2>1
  <1>3. <<>> \in Seq(Line) /\ Len(p) \in Nat /\ DOMAIN p = 1..Len(p)
      BY EmptySeq
  <1>4. MergePieces(p) \in [1..Len(p) -> Seq(Line)]
      BY <1>2, <1>3 DEF MergePieces
  <1> QED
      BY <1>1, <1>3, <1>4, IsASeq, LenProperties

ChartLine(p, i) == IF i \in LinesOf(Charts(p)) THEN [p[i] EXCEPT !.kind = "quote"] ELSE p[i]
NeutralPieces(p) ==
  [i \in DOMAIN p |-> (IF \E b \in Charts(p) : b[1] = i THEN <<Marker>> ELSE <<>>) \o <<ChartLine(p, i)>>]

LEMMA ChartLineIs ==
    ASSUME NEW p \in Seq(Line), NEW i \in 1..Len(p)
    PROVE  /\ ChartLine(p, i) \in Line /\ ChartLine(p, i).from = p[i].from
           /\ ChartLine(p, i).kind = IF i \in LinesOf(Charts(p)) THEN "quote" ELSE p[i].kind
  <1> DEFINE l == p[i]
  <1>1. l \in Line
      BY ElementOfSeq
  <1>2. ChartLine(p, i) = IF i \in LinesOf(Charts(p)) THEN [l EXCEPT !.kind = "quote"] ELSE l
      BY DEF ChartLine
  <1> HIDE DEF l
  <1>3. [l EXCEPT !.kind = "quote"] \in Line /\ [l EXCEPT !.kind = "quote"].from = l.from
        /\ [l EXCEPT !.kind = "quote"].kind = "quote"
      BY <1>1 DEF Line, LineKinds
  <1>4. CASE i \in LinesOf(Charts(p))
      BY <1>2, <1>3, <1>4 DEF l
  <1>5. CASE i \notin LinesOf(Charts(p))
      BY <1>1, <1>2, <1>5 DEF l
  <1> QED
      BY <1>4, <1>5

LEMMA MarkerTyped == Marker \in Line /\ Marker.from = <<>> /\ Marker.kind = "text"
  <1>1. <<"w">> \in Seq(Cells)
      BY DEF Cells
  <1>2. <<>> \in Seq(Nat)
      BY EmptySeq
  <1> QED
      BY <1>1, <1>2 DEF Marker, Line, LineKinds

LEMMA PieceTwo ==
    ASSUME NEW X, NEW x \in X, NEW y \in X
    PROVE  /\ <<>> \o <<y>> = <<y>> /\ <<y>> \in Seq(X) /\ <<x>> \o <<y>> = <<x, y>> /\ <<x, y>> \in Seq(X)
  <1>1. <<y>> \in Seq(X) /\ Len(<<y>>) = 1 /\ <<y>>[1] = y
      OBVIOUS
  <1>2. <<x>> \in Seq(X) /\ Len(<<x>>) = 1 /\ <<x>>[1] = x
      OBVIOUS
  <1>3. <<x, y>> \in Seq(X) /\ Len(<<x, y>>) = 2 /\ <<x, y>>[1] = x /\ <<x, y>>[2] = y
      OBVIOUS
  <1>4. <<>> \o <<y>> = <<y>>
      BY <1>1, ConcatEmptySeq
  <1>5. <<x>> \o <<y>> = <<x, y>>
    <2>1. <<x>> \o <<y>> \in Seq(X) /\ Len(<<x>> \o <<y>>) = 2
          /\ (<<x>> \o <<y>>)[1] = x /\ (<<x>> \o <<y>>)[2] = y
        BY <1>1, <1>2, ConcatProperties
    <2> DEFINE u == <<x>> \o <<y>>
               v == <<x, y>>
    <2>2. u \in Seq(X) /\ v \in Seq(X) /\ Len(u) = 2 /\ Len(v) = 2 /\ u[1] = v[1] /\ u[2] = v[2]
        BY <1>3, <2>1
    <2> HIDE DEF u, v
    <2>3. \A i \in 1..Len(u) : u[i] = v[i]
        BY <2>2
    <2>4. u = v
        BY <2>2, <2>3, SeqEqual
    <2> QED
        BY <2>4 DEF u, v
  <1> QED
      BY <1>1, <1>3, <1>4, <1>5

LEMMA NeutralJoins ==
    ASSUME NEW p \in Seq(Line)
    PROVE  /\ NeutralizeChartLikeTables(p) = FlattenSeq(NeutralPieces(p))
           /\ NeutralPieces(p) \in Seq(Seq(Line)) /\ Len(NeutralPieces(p)) = Len(p)
           /\ \A i \in 1..Len(p) : NeutralPieces(p)[i] = IF \E b \in Charts(p) : b[1] = i
                                                         THEN <<Marker, ChartLine(p, i)>> ELSE <<ChartLine(p, i)>>
  <1>1. NeutralizeChartLikeTables(p) = FlattenSeq(NeutralPieces(p))
      BY DEF NeutralizeChartLikeTables, NeutralPieces, Rewritten, ChartLine
  <1>3. Len(p) \in Nat /\ DOMAIN p = 1..Len(p)
      OBVIOUS
  <1>2. ASSUME NEW i \in 1..Len(p)
        PROVE  /\ NeutralPieces(p)[i] \in Seq(Line)
               /\ NeutralPieces(p)[i] = IF \E b \in Charts(p) : b[1] = i
                                        THEN <<Marker, ChartLine(p, i)>> ELSE <<ChartLine(p, i)>>
    <2> DEFINE y == ChartLine(p, i)
    <2>1. y \in Line /\ Marker \in Line
        BY ChartLineIs, MarkerTyped
    <2> HIDE DEF y
    <2>2. <<>> \o <<y>> = <<y>> /\ <<y>> \in Seq(Line) /\ <<Marker>> \o <<y>> = <<Marker, y>> /\ <<Marker, y>> \in Seq(Line)
        BY <2>1, PieceTwo
    <2>3. NeutralPieces(p)[i] = (IF \E b \in Charts(p) : b[1] = i THEN <<Marker>> ELSE <<>>) \o <<y>>
        BY <1>3 DEF NeutralPieces, y
    <2>4. CASE \E b \in Charts(p) : b[1] = i
        BY <2>2, <2>3, <2>4 DEF y
    <2>5. CASE ~\E b \in Charts(p) : b[1] = i
        BY <2>2, <2>3, <2>5 DEF y
    <2> QED
        BY <2>4, <2>5
  <1>4. NeutralPieces(p) \in [1..Len(p) -> Seq(Line)]
    <2>1. DOMAIN NeutralPieces(p) = 1..Len(p) /\ NeutralPieces(p) = [i \in DOMAIN NeutralPieces(p) |-> NeutralPieces(p)[i]]
        BY <1>3 DEF NeutralPieces
    <2> QED
        BY <1>2, <2>1
  <1> QED
      BY <1>1, <1>2, <1>3, <1>4, IsASeq, LenProperties

\* The line nextNonBlank finds.
LEMMA NextNonBlankIs ==
    ASSUME NEW p \in Seq(Line), NEW i \in Nat \ {0}
    PROVE  \/ NextNonBlank(p, i) = 0 /\ \A j \in i..Len(p) : IsBlank(p[j])
           \/ /\ NextNonBlank(p, i) \in i..Len(p) /\ ~IsBlank(p[NextNonBlank(p, i)])
              /\ \A j \in i..(NextNonBlank(p, i) - 1) : IsBlank(p[j])
  <1> DEFINE next == {j \in i..Len(p) : ~IsBlank(p[j])}
  <1>1. NextNonBlank(p, i) = IF next = {} THEN 0 ELSE Min(next)
      BY DEF NextNonBlank
  <1>2. CASE next = {}
      BY <1>1, <1>2
  <1>3. CASE next # {}
    <2>1. next \subseteq Nat /\ next \subseteq Int /\ Len(p) \in Nat
        OBVIOUS
    <2>2. PICK m \in next : \A j \in next : m <= j
        BY <1>3, <2>1, LeastOne
    <2>3. Min(next) = m
        BY <2>1, <2>2, MinIs
    <2>4. NextNonBlank(p, i) = m
        BY <1>1, <1>3, <2>3
    <2>5. m \in i..Len(p) /\ ~IsBlank(p[m])
        OBVIOUS
    <2>6. ASSUME NEW j \in i..(m - 1) PROVE IsBlank(p[j])
      <3>1. j \in i..Len(p) /\ ~(m <= j)
          BY <2>1, <2>5
      <3>2. j \notin next
          BY <2>2, <3>1
      <3> QED
          BY <3>1, <3>2
    <2> QED
        BY <2>4, <2>5, <2>6
  <1> QED
      BY <1>2, <1>3

\* The last table above a heading.
LEMMA ParentIs ==
    ASSUME NEW p \in Seq(Line), NEW h, ParentsAbove(p, h) # {}
    PROVE  /\ ParentBlockAbove(p, h) \in ParentsAbove(p, h)
           /\ \A c \in ParentsAbove(p, h) : c[2] <= ParentBlockAbove(p, h)[2]
  <1> DEFINE I == {Len(p) - b[2] : b \in ParentsAbove(p, h)}
  <1>1. Len(p) \in Nat
      OBVIOUS
  <1>2. \A b \in ParentsAbove(p, h) : b[2] \in 1..Len(p)
      BY BlockIs DEF ParentsAbove, HeadedBlocks
  <1>3. I \subseteq Nat /\ I # {}
      BY <1>1, <1>2
  <1>4. PICK m \in I : \A j \in I : m <= j
      BY <1>3, LeastOne
  <1>5. PICK b \in ParentsAbove(p, h) : m = Len(p) - b[2]
      BY <1>4
  <1>6. ASSUME NEW c \in ParentsAbove(p, h) PROVE c[2] <= b[2]
    <2>1. Len(p) - c[2] \in I
        OBVIOUS
    <2>2. Len(p) - b[2] <= Len(p) - c[2]
        BY <1>4, <1>5, <2>1
    <2>3. c[2] \in Nat /\ b[2] \in Nat
        BY <1>1, <1>2
    <2> QED
        BY <1>1, <2>2, <2>3
  <1> QED
      BY <1>6 DEF ParentBlockAbove

\* An escaped heading, and its row.
Escaped(p, h, r) ==
  /\ h \in 1..Len(p) /\ p[h].kind = "heading"
  /\ r \in (h + 1)..Len(p) /\ IsRow(p[r]) /\ ~IsSeparator(p[r])
  /\ \A j \in (h + 1)..(r - 1) : IsBlank(p[j])
  /\ r = Len(p) \/ ~IsRow(p[r + 1])
  /\ ParentBlockAbove(p, h) \in ParentsAbove(p, h)

LEMMA EscapedIs ==
    ASSUME NEW p \in Seq(Line), NEW h \in EscapedHeadings(p)
    PROVE  Escaped(p, h, NextNonBlank(p, h + 1))
  <1> DEFINE r == NextNonBlank(p, h + 1)
             after == NextNonBlank(p, r + 1)
  <1>1. Len(p) \in Nat /\ DOMAIN p = 1..Len(p)
      OBVIOUS
  <1>2. /\ h \in 1..Len(p) /\ p[h].kind = "heading" /\ r # 0 /\ Lone(p, r) /\ ParentsAbove(p, h) # {}
      BY <1>1 DEF EscapedHeadings
  <1>3. h + 1 \in Nat \ {0}
      BY <1>1, <1>2
  <1>4. r \in (h + 1)..Len(p) /\ \A j \in (h + 1)..(r - 1) : IsBlank(p[j])
      BY <1>2, <1>3, NextNonBlankIs
  <1>5. IsRow(p[r]) /\ ~IsSeparator(p[r]) /\ (after = 0 \/ ~IsRow(p[after]))
      BY <1>2 DEF Lone
  <1> HIDE DEF r
  <1>6. r + 1 \in Nat \ {0}
      BY <1>1, <1>2, <1>4
  <1>7. r = Len(p) \/ ~IsRow(p[r + 1])
    <2>1. SUFFICES ASSUME r # Len(p), IsRow(p[r + 1]) PROVE FALSE
        OBVIOUS
    <2>2a. r \in Nat /\ r <= Len(p)
        BY <1>1, <1>2, <1>4
    <2>2b. r + 1 \in (r + 1)..Len(p)
      <3> DEFINE L == Len(p)
      <3>1. r \in Nat /\ r <= L /\ L \in Nat /\ r # L
          BY <1>1, <2>1, <2>2a
      <3> HIDE DEF L
      <3>2. r + 1 \in (r + 1)..L
          BY <3>1
      <3> QED
          BY <3>2 DEF L
    <2>2c. ~IsBlank(p[r + 1])
        BY <2>1 DEF IsRow, IsBlank
    <2>2. r + 1 \in (r + 1)..Len(p) /\ ~IsBlank(p[r + 1])
        BY <2>2b, <2>2c
    <2>3. after \in (r + 1)..Len(p) /\ \A j \in (r + 1)..(after - 1) : IsBlank(p[j])
        BY <1>6, <2>2, NextNonBlankIs
    <2> HIDE DEF after
    <2>4. after = r + 1
      <3>1. ~(r + 1 \in (r + 1)..(after - 1))
          BY <2>2, <2>3
      <3> QED
          BY <1>1, <1>6, <2>3, <3>1
    <2> QED
        BY <1>5, <1>6, <2>1, <2>4
  <1>8. ParentBlockAbove(p, h) \in ParentsAbove(p, h)
      BY <1>2, ParentIs
  <1> QED
      BY <1>2, <1>4, <1>5, <1>7, <1>8 DEF Escaped, r

\* No table holds the row of an escaped heading.
LEMMA EscapedOutside ==
    ASSUME NEW p \in Seq(Line), NEW h, NEW r, Escaped(p, h, r), NEW b \in HeadedBlocks(p)
    PROVE  r \notin b[1]..b[2] /\ h \notin b[1]..b[2] /\ h # b[1] - 1
  <1>1. /\ h \in 1..Len(p) /\ p[h].kind = "heading"
        /\ r \in (h + 1)..Len(p) /\ IsRow(p[r]) /\ ~IsSeparator(p[r])
        /\ \A j \in (h + 1)..(r - 1) : IsBlank(p[j])
        /\ (r = Len(p) \/ ~IsRow(p[r + 1]))
      BY DEF Escaped
  <1>2. Len(p) \in Nat
      OBVIOUS
  <1>3. ~IsRow(p[r - 1])
    <2>1. CASE r = h + 1
        BY <1>1, <1>2, <2>1 DEF IsRow
    <2>2. CASE r # h + 1
      <3>1. r - 1 \in (h + 1)..(r - 1)
          BY <1>1, <1>2, <2>2
      <3> QED
          BY <1>1, <3>1 DEF IsRow, IsBlank
    <2> QED
        BY <2>1, <2>2
  <1>4. /\ b \in Blocks(p) /\ b[1] \in 1..Len(p) /\ b[2] \in 1..Len(p)
        /\ \A i \in b[1]..b[2] : IsRow(p[i])
      BY SeparatorIs, BlockIs
  <1>5. PICK s \in b[1]..b[2] : IsSeparator(p[s])
      BY SeparatorIs
  <1>6. r \notin b[1]..b[2]
    <2>1. SUFFICES ASSUME r \in b[1]..b[2] PROVE FALSE
        OBVIOUS
    <2>2. b[1] = r
      <3>1. ~(r - 1 \in b[1]..b[2])
          BY <1>3, <1>4
      <3> QED
          BY <1>1, <1>2, <1>4, <2>1, <3>1
    <2>3. b[2] = r
      <3>1. ~(r + 1 \in b[1]..b[2])
          BY <1>1, <1>2, <1>4
      <3> QED
          BY <1>1, <1>2, <1>4, <2>1, <3>1
    <2>4. s = r
        BY <1>1, <1>2, <1>5, <2>2, <2>3
    <2> QED
        BY <1>1, <1>5, <2>4
  <1>7. h \notin b[1]..b[2]
      BY <1>1, <1>4 DEF IsRow
  <1>8. h # b[1] - 1
    <2>1. SUFFICES ASSUME h = b[1] - 1 PROVE FALSE
        OBVIOUS
    <2>2. IsRow(p[b[1]]) /\ b[1] = h + 1 /\ b[1] <= b[2]
        BY <1>2, <1>4, <1>5, <2>1
    <2>3. r = h + 1
      <3>1. ~(h + 1 \in (h + 1)..(r - 1))
          BY <1>1, <2>2 DEF IsRow, IsBlank
      <3> QED
          BY <1>1, <1>2, <3>1
    <2> QED
        BY <1>2, <1>4, <1>6, <2>2, <2>3
  <1> QED
      BY <1>6, <1>7, <1>8
-----------------------------------------------------------------------------

TakenOut(p) == EscapedHeadings(p) \cup {NextNonBlank(p, h + 1) : h \in EscapedHeadings(p)}
FoldPieces(p, i) ==
  [h \in DOMAIN p |-> IF h \in EscapedHeadings(p) /\ ParentBlockAbove(p, h)[2] = i
                      THEN <<FoldedRow(p, h)>> ELSE <<>>]
Folded(p, i) == FlattenSeq(FoldPieces(p, i))
ReattachPieces(p) == [i \in DOMAIN p |-> IF i \in TakenOut(p) THEN <<>> ELSE <<p[i]>> \o Folded(p, i)]

LEMMA ReattachIs ==
    ASSUME NEW p
    PROVE  ReattachHeadingSplitTableRows(p) = FlattenSeq(ReattachPieces(p))
  BY DEF ReattachHeadingSplitTableRows, Rewritten, ReattachPieces, Folded, FoldPieces, TakenOut

LEMMA FoldedRowIs ==
    ASSUME NEW p \in Seq(Line), NEW h, NEW r, Escaped(p, h, r), r = NextNonBlank(p, h + 1)
    PROVE  /\ FoldedRow(p, h) \in Line /\ FoldedRow(p, h).kind = "row"
           /\ FoldedRow(p, h).cells = <<"w">> \o p[r].cells
           /\ FoldedRow(p, h).from = p[h].from \o p[r].from
  <1>1. h \in 1..Len(p) /\ r \in 1..Len(p)
    <2>1. h \in 1..Len(p) /\ r \in (h + 1)..Len(p) /\ Len(p) \in Nat
        BY DEF Escaped
    <2> QED
        BY <2>1
  <1> DEFINE x == p[h].from
             y == p[r].from
             c == p[r].cells
  <1>2. x \in Seq(Nat) /\ y \in Seq(Nat) /\ c \in Seq(Cells)
      BY <1>1, PageTyped
  <1> HIDE DEF x, y, c
  <1>3. x \o y \in Seq(Nat)
      BY <1>2, ConcatProperties
  <1>4. <<"w">> \in Seq(Cells)
      BY DEF Cells
  <1>5. <<"w">> \o c \in Seq(Cells)
      BY <1>2, <1>4, ConcatProperties
  <1>6. FoldedRow(p, h) = [kind |-> "row", cells |-> <<"w">> \o c, from |-> x \o y]
      BY DEF FoldedRow, x, y, c
  <1> DEFINE d == <<"w">> \o c
             f == x \o y
  <1> HIDE DEF d, f
  <1>7. [kind |-> "row", cells |-> d, from |-> f] \in Line
      BY <1>3, <1>5 DEF Line, LineKinds, d, f
  <1>8. FoldedRow(p, h) = [kind |-> "row", cells |-> d, from |-> f]
      BY <1>6 DEF d, f
  <1>9. /\ FoldedRow(p, h) \in Line /\ FoldedRow(p, h).kind = "row"
        /\ FoldedRow(p, h).cells = d /\ FoldedRow(p, h).from = f
      BY <1>7, <1>8
  <1> QED
      BY <1>9 DEF d, f, x, y, c

LEMMA FoldJoins ==
    ASSUME NEW p \in Seq(Line), NEW i
    PROVE  FoldPieces(p, i) \in Seq(Seq(Line)) /\ Len(FoldPieces(p, i)) = Len(p) /\ Folded(p, i) \in Seq(Line)
  <1>1. Len(p) \in Nat /\ DOMAIN p = 1..Len(p)
      OBVIOUS
  <1>2. ASSUME NEW h \in 1..Len(p), h \in EscapedHeadings(p) PROVE <<FoldedRow(p, h)>> \in Seq(Line)
    <2>1. Escaped(p, h, NextNonBlank(p, h + 1))
        BY <1>2, EscapedIs
    <2>2. FoldedRow(p, h) \in Line
        BY <2>1, FoldedRowIs
    <2> QED
        BY <2>2
  <1>3. <<>> \in Seq(Line)
      BY EmptySeq
  <1>4. FoldPieces(p, i) \in [1..Len(p) -> Seq(Line)]
      BY <1>1, <1>2, <1>3 DEF FoldPieces
  <1>5. FoldPieces(p, i) \in Seq(Seq(Line)) /\ Len(FoldPieces(p, i)) = Len(p)
      BY <1>1, <1>4, IsASeq, LenProperties
  <1> QED
      BY <1>5, FlattenJoins DEF Folded

LEMMA ReattachJoins ==
    ASSUME NEW p \in Seq(Line)
    PROVE  /\ ReattachPieces(p) \in Seq(Seq(Line)) /\ Len(ReattachPieces(p)) = Len(p)
           /\ \A i \in 1..Len(p) : ReattachPieces(p)[i] = IF i \in TakenOut(p) THEN <<>> ELSE <<p[i]>> \o Folded(p, i)
  <1>1. Len(p) \in Nat /\ DOMAIN p = 1..Len(p)
      OBVIOUS
  <1>2. ASSUME NEW i \in 1..Len(p) PROVE <<p[i]>> \o Folded(p, i) \in Seq(Line)
    <2>1. p[i] \in Line /\ Folded(p, i) \in Seq(Line)
        BY ElementOfSeq, FoldJoins
    <2>2. <<p[i]>> \in Seq(Line)
        BY <2>1
    <2> QED
        BY <2>1, <2>2, ConcatProperties
  <1>3. <<>> \in Seq(Line)
      BY EmptySeq
  <1>4. ReattachPieces(p) \in [1..Len(p) -> Seq(Line)]
      BY <1>1, <1>2, <1>3 DEF ReattachPieces
  <1>5. \A i \in 1..Len(p) : ReattachPieces(p)[i] = IF i \in TakenOut(p) THEN <<>> ELSE <<p[i]>> \o Folded(p, i)
      BY <1>1 DEF ReattachPieces
  <1> QED
      BY <1>1, <1>4, <1>5, IsASeq, LenProperties
-----------------------------------------------------------------------------
(* No pass takes a row out of its columns.                                  *)

LEMMA MergeAligned ==
    ASSUME NEW p \in Seq(Line)
    PROVE  Aligned(p) \subseteq Aligned(MergeHeaderlessContinuationBlocks(p))
  <1> DEFINE s == MergePieces(p)
             t == FlattenSeq(s)
  <1>1. /\ MergeHeaderlessContinuationBlocks(p) = t /\ s \in Seq(Seq(Line)) /\ Len(s) = Len(p)
        /\ t \in Seq(Line) /\ \E off : Joins(s, t, off)
      BY MergeJoins, FlattenJoins
  <1>2. \A i \in 1..Len(p) : s[i] = IF \E q \in MergedPairs(p) : i \in Between(q[1], q[2]) THEN <<>> ELSE <<p[i]>>
      BY DEF MergePieces
  <1> HIDE DEF s, t
  <1>3. PICK off : Joins(s, t, off)
      BY <1>1
  <1>4. ASSUME NEW b \in HeadedBlocks(p), NEW i \in DataLines(p, b), CountCells(p[i]) = HeaderCells(p, b)
        PROVE  p[i].from \in Aligned(t)
    <2>1. /\ b \in Blocks(p) /\ b[1] \in 1..Len(p) /\ b[2] \in 1..Len(p) /\ b[1] <= b[2]
          /\ \A j \in b[1]..b[2] : IsRow(p[j])
        BY SeparatorIs, BlockIs
    <2>1a. Len(p) \in Nat
        OBVIOUS
    <2>2. ASSUME NEW q \in MergedPairs(p), NEW j \in Between(q[1], q[2])
          PROVE  j \notin b[1]..b[2] /\ j # b[1] - 1
      <3>1. /\ q[2] \in Blocks(p) /\ q[2] \notin HeadedBlocks(p) /\ OnlyBlankBetween(p, q[1], q[2])
            /\ q[1] \in HeadedBlocks(p)
          BY DEF MergedPairs
      <3>2. IsBlank(p[j]) /\ j \in (q[1][2] + 1)..(q[2][1] - 1) /\ \A l \in (q[1][2] + 1)..(q[2][1] - 1) : IsBlank(p[l])
          BY <3>1 DEF OnlyBlankBetween, Between
      <3>3. q[2][1] \in 1..Len(p) /\ q[2][2] \in 1..Len(p) /\ q[2][1] <= q[2][2] /\ q[1][2] \in 1..Len(p)
          BY <3>1, SeparatorIs, BlockIs
      <3>4. j \notin b[1]..b[2]
          BY <2>1, <3>2 DEF IsRow, IsBlank
      <3>5. j # b[1] - 1
        <4>1. SUFFICES ASSUME j = b[1] - 1 PROVE FALSE
            OBVIOUS
        <4>2. b[1] \notin (q[1][2] + 1)..(q[2][1] - 1)
          <5>1. IsRow(p[b[1]])
              BY <2>1, <2>1a
          <5> QED
              BY <3>2, <5>1 DEF IsRow, IsBlank
        <4>3. b[1] = q[2][1]
          <5> DEFINE x == b[1]
                     y == q[2][1]
                     z == q[1][2]
          <5>1. x \in Int /\ y \in Int /\ z \in Int /\ x - 1 \in (z + 1)..(y - 1) /\ x \notin (z + 1)..(y - 1)
              BY <2>1, <2>1a, <3>2, <3>3, <4>1, <4>2
          <5> HIDE DEF x, y, z
          <5>2. x = y
              BY <5>1
          <5> QED
              BY <5>2 DEF x, y
        <4>4. b[1] \in (b[1]..b[2]) \cap (q[2][1]..q[2][2])
            BY <2>1, <2>1a, <3>3, <4>3
        <4>5. b = q[2]
            BY <2>1, <3>1, <4>4, BlocksApart
        <4> QED
            BY <3>1, <4>5
      <3> QED
          BY <3>4, <3>5
    <2>3. \A j \in b[1]..b[2] : Len(s[j]) = 1 /\ s[j][1] = p[j]
      <3> TAKE j \in b[1]..b[2]
      <3>1. j \in 1..Len(p)
          BY <2>1, <2>1a
      <3>2. s[j] = <<p[j]>>
          BY <1>2, <2>2, <3>1
      <3> QED
          BY <3>2, SingleLine
    <2>4. b[1] # 1 => s[b[1] - 1] = <<p[b[1] - 1]>>
      <3>1. SUFFICES ASSUME b[1] # 1 PROVE s[b[1] - 1] = <<p[b[1] - 1]>>
          OBVIOUS
      <3>2. b[1] - 1 \in 1..Len(p)
          BY <2>1, <2>1a, <3>1
      <3> QED
          BY <1>2, <2>2, <3>2
    <2>5. /\ \A j \in b[1]..b[2] : Len(s[j]) >= 1 /\ s[j][1] = p[j]
          /\ \A j \in b[1]..(b[2] - 1) : Len(s[j]) = 1
        BY <2>1, <2>1a, <2>3
    <2>6. Stands(p, b, t, off[b[1]] + 1)
        BY <1>1, <1>3, <2>1, <2>4, <2>5, StandsWhereJoined
    <2> QED
        BY <1>1, <1>4, <2>6, StandingAligned
  <1>5. \A f \in Aligned(p) : f \in Aligned(t)
      BY <1>4, AlignedIs
  <1> QED
      BY <1>1, <1>5

\* Below a line that ends no table nothing is restored.
LEMMA FoldedNone ==
    ASSUME NEW p \in Seq(Line), NEW i,
           \A h \in EscapedHeadings(p) : ParentBlockAbove(p, h)[2] # i
    PROVE  Folded(p, i) = <<>>
  <1> DEFINE s == FoldPieces(p, i)
             t == FlattenSeq(s)
  <1>1. s \in Seq(Seq(Line)) /\ Len(s) = Len(p) /\ t \in Seq(Line) /\ \E off : Joins(s, t, off)
      BY FoldJoins, FlattenJoins
  <1>2. \A h \in 1..Len(p) : s[h] = <<>>
      BY DEF FoldPieces
  <1>2a. Folded(p, i) = t
      BY DEF Folded
  <1> HIDE DEF s, t
  <1>3. PICK off : Joins(s, t, off)
      BY <1>1
  <1>4. Laid(s, t, off)
      BY <1>1, <1>3, JoinedPlaces
  <1>5. ASSUME NEW k \in 1..Len(t) PROVE FALSE
    <2>1. PICK h \in 1..Len(s) : \E j \in 1..Len(s[h]) : k = off[h] + j
        BY <1>4 DEF Laid
    <2>2. s[h] = <<>>
        BY <1>1, <1>2, <2>1
    <2>3. Len(s[h]) = 0
        BY <2>2
    <2> QED
        BY <2>1, <2>3
  <1>6. Len(t) = 0
    <2>1. Len(t) \in Nat
        BY <1>1
    <2> QED
        BY <1>5, <2>1
  <1>7. t = <<>>
      BY <1>1, <1>6, EmptySeq
  <1> QED
      BY <1>2a, <1>7

\* What Reattach takes away is in no table, and not the line above one.
LEMMA GoneOutside ==
    ASSUME NEW p \in Seq(Line), NEW b \in HeadedBlocks(p), NEW j \in TakenOut(p)
    PROVE  j \notin b[1]..b[2] /\ j # b[1] - 1
  <1>1. /\ b \in Blocks(p) /\ b[1] \in 1..Len(p) /\ b[2] \in 1..Len(p) /\ b[1] <= b[2]
        /\ \A l \in b[1]..b[2] : IsRow(p[l])
        /\ (b[1] = 1 \/ ~IsRow(p[b[1] - 1]))
      BY SeparatorIs, BlockIs
  <1>2. Len(p) \in Nat
      OBVIOUS
  <1>3. PICK h \in EscapedHeadings(p) : j = h \/ j = NextNonBlank(p, h + 1)
      BY DEF TakenOut
  <1>4. Escaped(p, h, NextNonBlank(p, h + 1))
      BY EscapedIs
  <1>5. NextNonBlank(p, h + 1) \notin b[1]..b[2] /\ h \notin b[1]..b[2] /\ h # b[1] - 1
      BY <1>4, EscapedOutside
  <1>6. NextNonBlank(p, h + 1) # b[1] - 1
    <2>1. IsRow(p[NextNonBlank(p, h + 1)]) /\ NextNonBlank(p, h + 1) \in (h + 1)..Len(p) /\ h \in 1..Len(p)
        BY <1>4 DEF Escaped
    <2> QED
        BY <1>1, <1>2, <2>1
  <1> QED
      BY <1>3, <1>5, <1>6

LEMMA ReattachAligned ==
    ASSUME NEW p \in Seq(Line)
    PROVE  Aligned(p) \subseteq Aligned(ReattachHeadingSplitTableRows(p))
  <1> DEFINE s == ReattachPieces(p)
             t == FlattenSeq(s)
  <1>1. /\ ReattachHeadingSplitTableRows(p) = t /\ s \in Seq(Seq(Line)) /\ Len(s) = Len(p)
        /\ t \in Seq(Line) /\ \E off : Joins(s, t, off)
      BY ReattachIs, ReattachJoins, FlattenJoins
  <1>2. \A i \in 1..Len(p) : s[i] = IF i \in TakenOut(p) THEN <<>> ELSE <<p[i]>> \o Folded(p, i)
      BY ReattachJoins
  <1> HIDE DEF s, t
  <1>3. PICK off : Joins(s, t, off)
      BY <1>1
  <1>4. ASSUME NEW b \in HeadedBlocks(p), NEW i \in DataLines(p, b), CountCells(p[i]) = HeaderCells(p, b)
        PROVE  p[i].from \in Aligned(t)
    <2>1. /\ b \in Blocks(p) /\ b[1] \in 1..Len(p) /\ b[2] \in 1..Len(p) /\ b[1] <= b[2]
          /\ \A j \in b[1]..b[2] : IsRow(p[j])
          /\ (b[1] = 1 \/ ~IsRow(p[b[1] - 1]))
        BY SeparatorIs, BlockIs
    <2>1a. Len(p) \in Nat
        OBVIOUS
    <2>2. ASSUME NEW j \in TakenOut(p) PROVE j \notin b[1]..b[2] /\ j # b[1] - 1
        BY GoneOutside
    <2>3. ASSUME NEW h \in EscapedHeadings(p) PROVE /\ \A j \in b[1]..(b[2] - 1) : ParentBlockAbove(p, h)[2] # j
                                                    /\ b[1] # 1 => ParentBlockAbove(p, h)[2] # b[1] - 1
      <3> DEFINE c == ParentBlockAbove(p, h)
      <3>1. Escaped(p, h, NextNonBlank(p, h + 1))
          BY EscapedIs
      <3>2. c \in HeadedBlocks(p)
          BY <3>1 DEF Escaped, ParentsAbove
      <3> HIDE DEF c
      <3>3. /\ c \in Blocks(p) /\ c[1] \in 1..Len(p) /\ c[2] \in 1..Len(p) /\ c[1] <= c[2]
            /\ \A j \in c[1]..c[2] : IsRow(p[j])
          BY <3>2, SeparatorIs, BlockIs
      <3>4. ASSUME NEW j \in b[1]..(b[2] - 1), c[2] = j PROVE FALSE
        <4>1. j \in (b[1]..b[2]) \cap (c[1]..c[2])
            BY <2>1, <2>1a, <3>3, <3>4
        <4>2. b = c
            BY <2>1, <3>3, <4>1, BlocksApart
        <4> QED
            BY <2>1, <2>1a, <3>4, <4>2
      <3>5. ASSUME b[1] # 1, c[2] = b[1] - 1 PROVE FALSE
        <4>1. b[1] - 1 \in c[1]..c[2]
            BY <2>1, <2>1a, <3>3, <3>5
        <4> QED
            BY <2>1, <3>3, <3>5, <4>1
      <3> QED
          BY <3>4, <3>5 DEF c
    <2>4. \A j \in b[1]..b[2] : Len(s[j]) >= 1 /\ s[j][1] = p[j]
      <3> TAKE j \in b[1]..b[2]
      <3>1. j \in 1..Len(p) /\ p[j] \in Line /\ Folded(p, j) \in Seq(Line)
          BY <2>1, <2>1a, ElementOfSeq, FoldJoins
      <3>2. s[j] = <<p[j]>> \o Folded(p, j)
          BY <1>2, <2>2, <3>1
      <3>3. <<p[j]>> \in Seq(Line) /\ Len(<<p[j]>>) = 1 /\ <<p[j]>>[1] = p[j]
          BY <3>1
      <3> DEFINE u == <<p[j]>>
                 v == Folded(p, j)
      <3>4. u \in Seq(Line) /\ v \in Seq(Line) /\ Len(u) = 1 /\ u[1] = p[j] /\ s[j] = u \o v
          BY <3>1, <3>2, <3>3
      <3> HIDE DEF u, v
      <3>5. Len(u \o v) = Len(u) + Len(v) /\ \A l \in 1..(Len(u) + Len(v)) : (u \o v)[l] = IF l <= Len(u) THEN u[l] ELSE v[l - Len(u)]
          BY <3>4, ConcatProperties
      <3>6. Len(v) \in Nat
          BY <3>4
      <3>7. 1 \in 1..(Len(u) + Len(v)) /\ 1 <= Len(u)
          BY <3>4, <3>6
      <3> QED
          BY <3>4, <3>5, <3>6, <3>7
    <2>4a. ASSUME NEW j \in 1..Len(p), j \notin TakenOut(p), \A h \in EscapedHeadings(p) : ParentBlockAbove(p, h)[2] # j
           PROVE  s[j] = <<p[j]>>
      <3>1. Folded(p, j) = <<>>
          BY <2>4a, FoldedNone
      <3>2. s[j] = <<p[j]>> \o <<>>
          BY <1>2, <2>4a, <3>1
      <3>3. p[j] \in Line
          BY ElementOfSeq
      <3>4. <<p[j]>> \in Seq(Line)
          BY <3>3
      <3> QED
          BY <3>2, <3>4, ConcatEmptySeq
    <2>5. \A j \in b[1]..(b[2] - 1) : Len(s[j]) = 1
      <3> TAKE j \in b[1]..(b[2] - 1)
      <3>1. j \in 1..Len(p) /\ j \in b[1]..b[2]
          BY <2>1, <2>1a
      <3>2. s[j] = <<p[j]>>
          BY <2>2, <2>3, <2>4a, <3>1
      <3> QED
          BY <3>2, SingleLine
    <2>6. b[1] # 1 => s[b[1] - 1] = <<p[b[1] - 1]>>
      <3>1. SUFFICES ASSUME b[1] # 1 PROVE s[b[1] - 1] = <<p[b[1] - 1]>>
          OBVIOUS
      <3>2. b[1] - 1 \in 1..Len(p)
          BY <2>1, <2>1a, <3>1
      <3>3. \A h \in EscapedHeadings(p) : ParentBlockAbove(p, h)[2] # b[1] - 1
          BY <2>3, <3>1
      <3> QED
          BY <2>2, <2>4a, <3>2, <3>3
    <2>7. Stands(p, b, t, off[b[1]] + 1)
        BY <1>1, <1>3, <2>1, <2>4, <2>5, <2>6, StandsWhereJoined
    <2> QED
        BY <1>1, <1>4, <2>7, StandingAligned
  <1>5. \A f \in Aligned(p) : f \in Aligned(t)
      BY <1>4, AlignedIs
  <1> QED
      BY <1>1, <1>5

\* A line that is padded keeps where it comes from.
LEMMA PaddedIs ==
    ASSUME NEW l \in Line
    PROVE  /\ PrependEmptyCell(l) \in Line /\ PrependEmptyCell(l).kind = "row"
           /\ PrependEmptyCell(l).from = l.from
           /\ PrependEmptyCell(l).cells = (IF l.kind = "quote" THEN <<"e", "w">> ELSE <<"e">>) \o l.cells
  <1> DEFINE c == (IF l.kind = "quote" THEN <<"e", "w">> ELSE <<"e">>) \o l.cells
  <1>1. l.cells \in Seq(Cells)
      BY DEF Line
  <1>2. <<"e", "w">> \in Seq(Cells) /\ <<"e">> \in Seq(Cells)
      BY DEF Cells
  <1>3. c \in Seq(Cells)
    <2>1. CASE l.kind = "quote"
        BY <1>1, <1>2, <2>1, ConcatProperties
    <2>2. CASE l.kind # "quote"
        BY <1>1, <1>2, <2>2, ConcatProperties
    <2> QED
        BY <2>1, <2>2
  <1>4. PrependEmptyCell(l) = [l EXCEPT !.kind = "row", !.cells = c]
      BY DEF PrependEmptyCell
  <1> HIDE DEF c
  <1>5. /\ PrependEmptyCell(l) \in Line /\ PrependEmptyCell(l).kind = "row"
        /\ PrependEmptyCell(l).from = l.from /\ PrependEmptyCell(l).cells = c
      BY <1>3, <1>4 DEF Line, LineKinds
  <1> QED
      BY <1>5 DEF c

LEMMA RestoreIs ==
    ASSUME NEW p \in Seq(Line)
    PROVE  /\ RestoreMissingTableHeaderCells(p) \in Seq(Line)
           /\ Len(RestoreMissingTableHeaderCells(p)) = Len(p)
           /\ \A i \in 1..Len(p) : RestoreMissingTableHeaderCells(p)[i] =
                                       IF i \in PadLines(p) THEN PrependEmptyCell(p[i]) ELSE p[i]
  <1> DEFINE q == RestoreMissingTableHeaderCells(p)
  <1>1. Len(p) \in Nat /\ DOMAIN p = 1..Len(p)
      OBVIOUS
  <1>2. ASSUME NEW i \in 1..Len(p) PROVE p[i] \in Line /\ PrependEmptyCell(p[i]) \in Line
    <2>1. p[i] \in Line
        BY ElementOfSeq
    <2> QED
        BY <2>1, PaddedIs
  <1>3. q = [i \in 1..Len(p) |-> IF i \in PadLines(p) THEN PrependEmptyCell(p[i]) ELSE p[i]]
      BY <1>1 DEF RestoreMissingTableHeaderCells
  <1> HIDE DEF q
  <1>4. q \in [1..Len(p) -> Line]
      BY <1>2, <1>3
  <1>5. q \in Seq(Line) /\ Len(q) = Len(p)
      BY <1>1, <1>4, IsASeq, LenProperties
  <1>6. \A i \in 1..Len(p) : q[i] = IF i \in PadLines(p) THEN PrependEmptyCell(p[i]) ELSE p[i]
      BY <1>3
  <1> QED
      BY <1>5, <1>6 DEF q

LEMMA RestoreAligned ==
    ASSUME NEW p \in Seq(Line)
    PROVE  Aligned(p) \subseteq Aligned(RestoreMissingTableHeaderCells(p))
  <1> DEFINE q == RestoreMissingTableHeaderCells(p)
  <1>1. /\ q \in Seq(Line) /\ Len(q) = Len(p)
        /\ \A i \in 1..Len(p) : q[i] = IF i \in PadLines(p) THEN PrependEmptyCell(p[i]) ELSE p[i]
      BY RestoreIs
  <1> HIDE DEF q
  <1>2. ASSUME NEW b \in HeadedBlocks(p), NEW i \in DataLines(p, b), CountCells(p[i]) = HeaderCells(p, b)
        PROVE  p[i].from \in Aligned(q)
    <2>1. /\ b \in Blocks(p) /\ b[1] \in 1..Len(p) /\ b[2] \in 1..Len(p) /\ b[1] <= b[2]
          /\ \A j \in b[1]..b[2] : IsRow(p[j])
          /\ (b[1] = 1 \/ ~IsRow(p[b[1] - 1]))
        BY SeparatorIs, BlockIs
    <2>1a. Len(p) \in Nat
        OBVIOUS
    <2>2. b \notin OneCellShort(p)
      <3>1. SUFFICES ASSUME b \in OneCellShort(p) PROVE FALSE
          OBVIOUS
      <3>2. CountCells(p[i]) = HeaderCells(p, b) + 1 /\ HeaderCells(p, b) >= 2
          BY <3>1 DEF OneCellShort
      <3>3. i \in 1..Len(p)
          BY <2>1, <2>1a DEF DataLines
      <3>4. CountCells(p[i]) \in Nat
          BY <3>3, PageTyped
      <3> QED
          BY <1>2, <3>2, <3>4
    <2>3. ASSUME NEW j \in PadLines(p) PROVE j \notin b[1]..b[2] /\ j # b[1] - 1
      <3>1. PICK c \in OneCellShort(p) : j \in {FindSeparator(p, c) - 1, FindSeparator(p, c)}
          BY DEF PadLines
      <3>2. c \in HeadedBlocks(p) /\ c # b
          BY <2>2 DEF OneCellShort
      <3>3. /\ c \in Blocks(p) /\ c[1] \in 1..Len(p) /\ c[2] \in 1..Len(p) /\ c[1] <= c[2]
            /\ \A l \in c[1]..c[2] : IsRow(p[l])
            /\ (c[1] = 1 \/ ~IsRow(p[c[1] - 1]))
          BY <3>2, SeparatorIs, BlockIs
      <3>4. FindSeparator(p, c) \in c[1]..c[2]
          BY <3>2, SeparatorIs
      <3>5. \A l \in c[1]..c[2] : l \notin b[1]..b[2]
        <4>1. ASSUME NEW l \in c[1]..c[2], l \in b[1]..b[2] PROVE FALSE
          <5>1. l \in (b[1]..b[2]) \cap (c[1]..c[2])
              BY <4>1
          <5> QED
              BY <2>1, <3>2, <3>3, <5>1, BlocksApart
        <4> QED
            BY <4>1
      <3> DEFINE f == FindSeparator(p, c)
                 C1 == c[1]
                 C2 == c[2]
                 B1 == b[1]
                 B2 == b[2]
                 n == Len(p)
      <3>6. /\ f \in C1..C2 /\ C1 \in 1..n /\ C2 \in 1..n /\ B1 \in 1..n /\ B2 \in 1..n /\ B1 <= B2 /\ n \in Nat
            /\ j \in {f - 1, f}
            /\ \A l \in C1..C2 : l \notin B1..B2 /\ IsRow(p[l])
            /\ \A l \in B1..B2 : IsRow(p[l])
            /\ (B1 = 1 \/ ~IsRow(p[B1 - 1])) /\ (C1 = 1 \/ ~IsRow(p[C1 - 1]))
          BY <2>1, <2>1a, <3>1, <3>3, <3>4, <3>5
      <3> HIDE DEF f, C1, C2, B1, B2, n
      <3>7. CASE j \in C1..C2
        <4>1. j \notin B1..B2 /\ IsRow(p[j])
            BY <3>6, <3>7
        <4>2. j # B1 - 1
          <5>1. SUFFICES ASSUME j = B1 - 1 PROVE FALSE
              OBVIOUS
          <5>2. B1 = 1
              BY <3>6, <4>1, <5>1
          <5> QED
              BY <3>6, <3>7, <5>1, <5>2
        <4> QED
            BY <4>1, <4>2 DEF B1, B2
      <3>8. CASE j \notin C1..C2
        <4>1. j = C1 - 1 /\ f = C1
            BY <3>6, <3>8
        <4>2. j \notin B1..B2
          <5>1. SUFFICES ASSUME j \in B1..B2 PROVE FALSE
              OBVIOUS
          <5>2. IsRow(p[C1 - 1]) /\ C1 # 1
              BY <3>6, <4>1, <5>1
          <5> QED
              BY <3>6, <5>2
        <4>3. j # B1 - 1
          <5>1. SUFFICES ASSUME j = B1 - 1 PROVE FALSE
              OBVIOUS
          <5>2. B1 = C1
              BY <3>6, <4>1, <5>1
          <5>3. f \in B1..B2
              BY <3>6, <4>1, <5>2
          <5> QED
              BY <3>6, <5>3
        <4> QED
            BY <4>2, <4>3 DEF B1, B2
      <3> QED
          BY <3>7, <3>8
    <2>4. ASSUME NEW j \in 1..Len(p), j \in b[1]..b[2] \/ j = b[1] - 1 PROVE q[j] = p[j]
        BY <1>1, <2>3, <2>4
    <2> DEFINE B1 == b[1]
               B2 == b[2]
               n == Len(p)
    <2>5. /\ B1 \in 1..n /\ B2 \in 1..n /\ B1 <= B2 /\ n \in Nat
          /\ \A j \in B1..B2 : IsRow(p[j]) /\ q[j] = p[j]
          /\ (B1 = 1 \/ ~IsRow(p[B1 - 1])) /\ (B1 # 1 => q[B1 - 1] = p[B1 - 1])
      <3>1. \A j \in b[1]..b[2] : q[j] = p[j]
          BY <2>1, <2>1a, <2>4
      <3>2. b[1] # 1 => q[b[1] - 1] = p[b[1] - 1]
          BY <2>1, <2>1a, <2>4
      <3> QED
          BY <2>1, <2>1a, <3>1, <3>2
    <2>5a. Len(q) = n
        BY <1>1
    <2> HIDE DEF B1, B2, n
    <2>6. ASSUME NEW j \in B1..B2
          PROVE  /\ IsRow(q[B1 + (j - B1)]) /\ q[B1 + (j - B1)].cells = p[j].cells
                 /\ q[B1 + (j - B1)].from = p[j].from
      <3>1. B1 + (j - B1) = j
          BY <2>5
      <3>2. q[j] = p[j] /\ IsRow(p[j])
          BY <2>5
      <3> QED
          BY <3>1, <3>2
    <2>7. B1 \in 1..Len(q) /\ B1 + (B2 - B1) <= Len(q) /\ (B1 = 1 \/ ~IsRow(q[B1 - 1]))
        BY <2>5, <2>5a
    <2>8. Stands(p, b, q, B1)
        BY <2>6, <2>7 DEF Stands, B1, B2
    <2> QED
        BY <1>1, <1>2, <2>8, StandingAligned
  <1>3. \A f \in Aligned(p) : f \in Aligned(q)
      BY <1>2, AlignedIs
  <1> QED
      BY <1>3 DEF q
-----------------------------------------------------------------------------
(* What the model writes.                                                   *)

Bare == [kind : LineKinds, cells : Seq(Cells)]

LEMMA RowIs ==
    ASSUME NEW k \in LineKinds, NEW c \in Seq(Cells)
    PROVE  /\ Row(k, c) \in Seq(Bare) /\ Len(Row(k, c)) = 1
           /\ Row(k, c)[1].kind = k /\ Row(k, c)[1].cells = c
  <1> DEFINE x == [kind |-> k, cells |-> c]
  <1>1. x \in Bare /\ x.kind = k /\ x.cells = c
      BY DEF Bare
  <1>2. Row(k, c) = <<x>>
      BY DEF Row
  <1> HIDE DEF x
  <1> QED
      BY <1>1, <1>2

\* Two rows one below the other.
TwoRows(w, k, c, m, d) ==
  /\ w \in Seq(Bare) /\ Len(w) = 2
  /\ w[1].kind = k /\ w[1].cells = c /\ w[2].kind = m /\ w[2].cells = d
OneRow(w, k, c) == w \in Seq(Bare) /\ Len(w) = 1 /\ w[1].kind = k /\ w[1].cells = c
LEMMA RowsAre ==
    ASSUME NEW k \in LineKinds, NEW c \in Seq(Cells), NEW m \in LineKinds, NEW d \in Seq(Cells),
           NEW w, w = Row(k, c) \o Row(m, d)
    PROVE  TwoRows(w, k, c, m, d)
  <1> DEFINE u == Row(k, c)
             v == Row(m, d)
  <1>1. /\ u \in Seq(Bare) /\ Len(u) = 1 /\ u[1].kind = k /\ u[1].cells = c
        /\ v \in Seq(Bare) /\ Len(v) = 1 /\ v[1].kind = m /\ v[1].cells = d
      BY RowIs
  <1> HIDE DEF u, v
  <1>2a. /\ u \o v \in Seq(Bare) /\ Len(u \o v) = Len(u) + Len(v)
         /\ \A i \in 1..(Len(u) + Len(v)) : (u \o v)[i] = IF i <= Len(u) THEN u[i] ELSE v[i - Len(u)]
      BY <1>1, ConcatProperties
  <1>2b. (u \o v)[1] = u[1] /\ (u \o v)[2] = v[2 - 1]
      BY <1>1, <1>2a
  <1>2. u \o v \in Seq(Bare) /\ Len(u \o v) = 2 /\ (u \o v)[1] = u[1] /\ (u \o v)[2] = v[1]
      BY <1>1, <1>2a, <1>2b
  <1>3. w = u \o v
      BY DEF u, v
  <1> QED
      BY <1>1, <1>2, <1>3 DEF TwoRows

\* The lines of each form.
LEMMA WrittenIs ==
  /\ TwoRows(Written("header"), "row", <<"w", "w", "w">>, "row", <<"-", "-", "-">>)
  /\ TwoRows(Written("short header"), "row", <<"w", "w">>, "row", <<"-", "-">>)
  /\ TwoRows(Written("chart"), "row", <<"w", "w", "w", "w">>, "row", <<"-", "-", "-", "-">>)
  /\ TwoRows(Written("escaped"), "heading", <<"w">>, "row", <<"v", "v">>)
  /\ OneRow(Written("separator"), "row", <<"-", "-">>)
  /\ OneRow(Written("row"), "row", <<"w", "v", "v">>)
  /\ OneRow(Written("loose"), "loose", <<"w", "v", "v">>)
  /\ OneRow(Written("heading"), "heading", <<"w">>)
  /\ OneRow(Written("note"), "text", <<"w">>)
  /\ OneRow(Written("blank"), "blank", <<"e">>)
  <1>1. TwoRows(Written("header"), "row", <<"w", "w", "w">>, "row", <<"-", "-", "-">>)
    <2> DEFINE c == <<"w", "w", "w">>
               d == <<"-", "-", "-">>
               k == "row"
               m == "row"
               w == Written("header")
    <2>1. w = Row(k, c) \o Row(m, d)
        BY DEF Written
    <2>2. c \in Seq(Cells) /\ d \in Seq(Cells) /\ k \in LineKinds /\ m \in LineKinds
        BY DEF Cells, LineKinds
    <2> HIDE DEF c, d, k, m, w
    <2>3. TwoRows(w, k, c, m, d)
        BY <2>1, <2>2, RowsAre
    <2> QED
        BY <2>3 DEF c, d, k, m, w
  <1>2. TwoRows(Written("short header"), "row", <<"w", "w">>, "row", <<"-", "-">>)
    <2> DEFINE c == <<"w", "w">>
               d == <<"-", "-">>
               k == "row"
               m == "row"
               w == Written("short header")
    <2>1. w = Row(k, c) \o Row(m, d)
        BY DEF Written
    <2>2. c \in Seq(Cells) /\ d \in Seq(Cells) /\ k \in LineKinds /\ m \in LineKinds
        BY DEF Cells, LineKinds
    <2> HIDE DEF c, d, k, m, w
    <2>3. TwoRows(w, k, c, m, d)
        BY <2>1, <2>2, RowsAre
    <2> QED
        BY <2>3 DEF c, d, k, m, w
  <1>3. TwoRows(Written("chart"), "row", <<"w", "w", "w", "w">>, "row", <<"-", "-", "-", "-">>)
    <2> DEFINE c == <<"w", "w", "w", "w">>
               d == <<"-", "-", "-", "-">>
               k == "row"
               m == "row"
               w == Written("chart")
    <2>1. w = Row(k, c) \o Row(m, d)
        BY DEF Written
    <2>2. c \in Seq(Cells) /\ d \in Seq(Cells) /\ k \in LineKinds /\ m \in LineKinds
        BY DEF Cells, LineKinds
    <2> HIDE DEF c, d, k, m, w
    <2>3. TwoRows(w, k, c, m, d)
        BY <2>1, <2>2, RowsAre
    <2> QED
        BY <2>3 DEF c, d, k, m, w
  <1>4. TwoRows(Written("escaped"), "heading", <<"w">>, "row", <<"v", "v">>)
    <2> DEFINE c == <<"w">>
               d == <<"v", "v">>
               k == "heading"
               m == "row"
               w == Written("escaped")
    <2>1. w = Row(k, c) \o Row(m, d)
        BY DEF Written
    <2>2. c \in Seq(Cells) /\ d \in Seq(Cells) /\ k \in LineKinds /\ m \in LineKinds
        BY DEF Cells, LineKinds
    <2> HIDE DEF c, d, k, m, w
    <2>3. TwoRows(w, k, c, m, d)
        BY <2>1, <2>2, RowsAre
    <2> QED
        BY <2>3 DEF c, d, k, m, w
  <1>5. OneRow(Written("separator"), "row", <<"-", "-">>)
    <2> DEFINE c == <<"-", "-">>
    <2>1. Written("separator") = Row("row", c)
        BY DEF Written
    <2>2. c \in Seq(Cells) /\ "row" \in LineKinds
        BY DEF Cells, LineKinds
    <2> HIDE DEF c
    <2>3. OneRow(Written("separator"), "row", c)
        BY <2>1, <2>2, RowIs DEF OneRow
    <2> QED
        BY <2>3 DEF c
  <1>6. OneRow(Written("row"), "row", <<"w", "v", "v">>)
    <2> DEFINE c == <<"w", "v", "v">>
    <2>1. Written("row") = Row("row", c)
        BY DEF Written
    <2>2. c \in Seq(Cells) /\ "row" \in LineKinds
        BY DEF Cells, LineKinds
    <2> HIDE DEF c
    <2>3. OneRow(Written("row"), "row", c)
        BY <2>1, <2>2, RowIs DEF OneRow
    <2> QED
        BY <2>3 DEF c
  <1>7. OneRow(Written("loose"), "loose", <<"w", "v", "v">>)
    <2> DEFINE c == <<"w", "v", "v">>
    <2>1. Written("loose") = Row("loose", c)
        BY DEF Written
    <2>2. c \in Seq(Cells) /\ "loose" \in LineKinds
        BY DEF Cells, LineKinds
    <2> HIDE DEF c
    <2>3. OneRow(Written("loose"), "loose", c)
        BY <2>1, <2>2, RowIs DEF OneRow
    <2> QED
        BY <2>3 DEF c
  <1>8. OneRow(Written("heading"), "heading", <<"w">>)
    <2> DEFINE c == <<"w">>
    <2>1. Written("heading") = Row("heading", c)
        BY DEF Written
    <2>2. c \in Seq(Cells) /\ "heading" \in LineKinds
        BY DEF Cells, LineKinds
    <2> HIDE DEF c
    <2>3. OneRow(Written("heading"), "heading", c)
        BY <2>1, <2>2, RowIs DEF OneRow
    <2> QED
        BY <2>3 DEF c
  <1>9. OneRow(Written("note"), "text", <<"w">>)
    <2> DEFINE c == <<"w">>
    <2>1. Written("note") = Row("text", c)
        BY DEF Written
    <2>2. c \in Seq(Cells) /\ "text" \in LineKinds
        BY DEF Cells, LineKinds
    <2> HIDE DEF c
    <2>3. OneRow(Written("note"), "text", c)
        BY <2>1, <2>2, RowIs DEF OneRow
    <2> QED
        BY <2>3 DEF c
  <1>10. OneRow(Written("blank"), "blank", <<"e">>)
    <2> DEFINE c == <<"e">>
    <2>1. Written("blank") = Row("blank", c)
        BY DEF Written
    <2>2. c \in Seq(Cells) /\ "blank" \in LineKinds
        BY DEF Cells, LineKinds
    <2> HIDE DEF c
    <2>3. OneRow(Written("blank"), "blank", c)
        BY <2>1, <2>2, RowIs DEF OneRow
    <2> QED
        BY <2>3 DEF c
  <1> QED
      BY <1>1, <1>2, <1>3, <1>4, <1>5, <1>6, <1>7, <1>8, <1>9, <1>10

WrittenPieces == [i \in DOMAIN wrote |-> Written(wrote[i])]
Reply == FlattenSeq(WrittenPieces)

LEMMA DraftIs ==
    ASSUME wrote \in Seq(Forms)
    PROVE  /\ WrittenPieces \in Seq(Seq(Bare)) /\ Len(WrittenPieces) = Len(wrote)
           /\ \A i \in 1..Len(wrote) : WrittenPieces[i] = Written(wrote[i])
           /\ Reply \in Seq(Bare) /\ Draft \in Seq(Line) /\ Len(Draft) = Len(Reply)
           /\ \A i \in 1..Len(Reply) : /\ Draft[i].kind = Reply[i].kind /\ Draft[i].cells = Reply[i].cells
                                       /\ Draft[i].from = <<i>>
  <1>1. Len(wrote) \in Nat /\ DOMAIN wrote = 1..Len(wrote)
      OBVIOUS
  <1>2. \A f \in Forms : Written(f) \in Seq(Bare)
      BY WrittenIs DEF Forms, OneRow, TwoRows
  <1>3. \A i \in 1..Len(wrote) : Written(wrote[i]) \in Seq(Bare)
      BY <1>2, ElementOfSeq
  <1>4. WrittenPieces \in [1..Len(wrote) -> Seq(Bare)] /\ \A i \in 1..Len(wrote) : WrittenPieces[i] = Written(wrote[i])
      BY <1>1, <1>3 DEF WrittenPieces
  <1>5. WrittenPieces \in Seq(Seq(Bare)) /\ Len(WrittenPieces) = Len(wrote)
      BY <1>1, <1>4, IsASeq, LenProperties
  <1>6. Reply \in Seq(Bare)
      BY <1>5, FlattenJoins DEF Reply
  <1>7. Draft = Numbered(Reply)
      BY DEF Draft, Reply, WrittenPieces
  <1> HIDE DEF Reply
  <1>8. Len(Reply) \in Nat /\ DOMAIN Reply = 1..Len(Reply)
      BY <1>6
  <1>9. Draft = [i \in 1..Len(Reply) |-> [kind |-> Reply[i].kind, cells |-> Reply[i].cells, from |-> <<i>>]]
      BY <1>7, <1>8 DEF Numbered
  <1>10. ASSUME NEW i \in 1..Len(Reply)
         PROVE  [kind |-> Reply[i].kind, cells |-> Reply[i].cells, from |-> <<i>>] \in Line
    <2>1. Reply[i] \in Bare
        BY <1>6, ElementOfSeq
    <2>2. Reply[i].kind \in LineKinds /\ Reply[i].cells \in Seq(Cells)
        BY <2>1 DEF Bare
    <2>3. <<i>> \in Seq(Nat)
      <3>1. i \in Nat
          BY <1>8
      <3> QED
          BY <3>1
    <2> QED
        BY <2>2, <2>3 DEF Line
  <1>11. Draft \in [1..Len(Reply) -> Line]
      BY <1>9, <1>10
  <1>12. Draft \in Seq(Line) /\ Len(Draft) = Len(Reply)
      BY <1>8, <1>11, IsASeq, LenProperties
  <1>13. \A i \in 1..Len(Reply) : /\ Draft[i].kind = Reply[i].kind /\ Draft[i].cells = Reply[i].cells
                                  /\ Draft[i].from = <<i>>
      BY <1>9
  <1> QED
      BY <1>4, <1>5, <1>6, <1>12, <1>13

-----------------------------------------------------------------------------
TableTyped == wrote \in Seq(Forms) /\ md \in Seq(Line)

LEMMA NormalizeIs ==
    ASSUME NEW p \in Seq(Line)
    PROVE  /\ NormalizeMalformedPipeRows(p) \in Seq(Line) /\ Len(NormalizeMalformedPipeRows(p)) = Len(p)
           /\ \A i \in 1..Len(p) :
                /\ NormalizeMalformedPipeRows(p)[i].kind = IF p[i].kind = "loose" THEN "row" ELSE p[i].kind
                /\ NormalizeMalformedPipeRows(p)[i].cells = p[i].cells
                /\ NormalizeMalformedPipeRows(p)[i].from = p[i].from
  <1> DEFINE q == NormalizeMalformedPipeRows(p)
             New(l) == IF l.kind = "loose" THEN [l EXCEPT !.kind = "row"] ELSE l
  <1>1. Len(p) \in Nat /\ DOMAIN p = 1..Len(p)
      OBVIOUS
  <1>2. ASSUME NEW l \in Line
        PROVE  /\ New(l) \in Line /\ New(l).kind = IF l.kind = "loose" THEN "row" ELSE l.kind
               /\ New(l).cells = l.cells /\ New(l).from = l.from
      BY DEF Line, LineKinds
  <1>3. q = [i \in 1..Len(p) |-> New(p[i])]
      BY <1>1 DEF NormalizeMalformedPipeRows
  <1> HIDE DEF q, New
  <1>4. \A i \in 1..Len(p) : p[i] \in Line
      BY ElementOfSeq
  <1>5. q \in [1..Len(p) -> Line]
      BY <1>2, <1>3, <1>4
  <1>6. q \in Seq(Line) /\ Len(q) = Len(p)
      BY <1>1, <1>5, IsASeq, LenProperties
  <1>7. \A i \in 1..Len(p) : /\ q[i].kind = IF p[i].kind = "loose" THEN "row" ELSE p[i].kind
                             /\ q[i].cells = p[i].cells /\ q[i].from = p[i].from
      BY <1>2, <1>3, <1>4
  <1> QED
      BY <1>6, <1>7 DEF q

LEMMA PassesTyped ==
    ASSUME NEW p \in Seq(Line)
    PROVE  /\ NeutralizeChartLikeTables(p) \in Seq(Line) /\ NormalizeMalformedPipeRows(p) \in Seq(Line)
           /\ MergeHeaderlessContinuationBlocks(p) \in Seq(Line)
           /\ ReattachHeadingSplitTableRows(p) \in Seq(Line)
           /\ RestoreMissingTableHeaderCells(p) \in Seq(Line)
  <1>1. NeutralizeChartLikeTables(p) \in Seq(Line)
      BY NeutralJoins, FlattenJoins
  <1>2. MergeHeaderlessContinuationBlocks(p) \in Seq(Line)
      BY MergeJoins, FlattenJoins
  <1>3. ReattachHeadingSplitTableRows(p) \in Seq(Line)
      BY ReattachIs, ReattachJoins, FlattenJoins
  <1> QED
      BY <1>1, <1>2, <1>3, NormalizeIs, RestoreIs

LEMMA TableTypedStep ==
    ASSUME TableTyped, [TableNext]_tableVars
    PROVE  TableTyped'
  <1>1. CASE UNCHANGED tableVars
      BY <1>1 DEF TableTyped, tableVars
  <1>2. ASSUME NEW form \in Forms, WriteLine(form) PROVE TableTyped'
      BY <1>2 DEF TableTyped, WriteLine
  <1>3. CASE Assemble
      BY <1>3, DraftIs DEF TableTyped, Assemble
  <1>4. CASE Neutralize
      BY <1>4, PassesTyped DEF TableTyped, Neutralize, Goes
  <1>5. CASE Normalize
      BY <1>5, PassesTyped DEF TableTyped, Normalize, Goes
  <1>6. CASE Merge
      BY <1>6, PassesTyped DEF TableTyped, Merge, Goes
  <1>7. CASE Reattach
      BY <1>7, PassesTyped DEF TableTyped, Reattach, Goes
  <1>8. CASE Restore
      BY <1>8, PassesTyped DEF TableTyped, Restore, Goes
  <1>9. CASE RestorePanics
      BY <1>9 DEF TableTyped, RestorePanics
  <1>10. CASE Assess
      BY <1>10 DEF TableTyped, Assess
  <1> QED
      BY <1>1, <1>2, <1>3, <1>4, <1>5, <1>6, <1>7, <1>8, <1>9, <1>10 DEF TableNext

THEOREM TableTypedTheorem == TableSpec => []TableTyped
  <1>1. TableInit => TableTyped
    <2>1. \A S : <<>> \in Seq(S)
        BY EmptySeq
    <2> QED
        BY <2>1 DEF TableInit, TableTyped
  <1>2. TableTyped /\ [TableNext]_tableVars => TableTyped'
      BY TableTypedStep
  <1> QED
      BY <1>1, <1>2, PTL DEF TableSpec

LEMMA AlignedStep ==
    ASSUME TableTyped, [TableNext]_tableVars, pass \in {"merge", "reattach", "restore"}
    PROVE  Aligned(md) \subseteq Aligned(md') \/ UNCHANGED tableVars
  <1>1. CASE UNCHANGED tableVars
      BY <1>1
  <1>2. ASSUME NEW form \in Forms, WriteLine(form) PROVE FALSE
      BY <1>2 DEF WriteLine
  <1>3. CASE Assemble \/ Neutralize \/ Normalize \/ Assess
      BY <1>3 DEF Assemble, Neutralize, Normalize, Assess, Goes
  <1>4. CASE Merge
      BY <1>4, MergeAligned DEF TableTyped, Merge, Goes
  <1>5. CASE Reattach
      BY <1>5, ReattachAligned DEF TableTyped, Reattach, Goes
  <1>6. CASE Restore
      BY <1>6, RestoreAligned DEF TableTyped, Restore, Goes
  <1>7. CASE RestorePanics
    <2>1. md' = md
        BY <1>7 DEF RestorePanics
    <2> QED
        BY <2>1
  <1> QED
      BY <1>1, <1>2, <1>3, <1>4, <1>5, <1>6, <1>7 DEF TableNext

(* After the edge pipes are back, no pass takes a value out from under its  *)
(* column: whatever text the model wrote, and however often.                *)
THEOREM AlignedStayTheorem == TableSpec => AlignedStay
  <1>1. TableTyped /\ [TableNext]_tableVars
            => [(pass \in {"merge", "reattach", "restore"}) => Aligned(md) \subseteq Aligned(md')]_tableVars
      BY AlignedStep
  <1> QED
      BY <1>1, TableTypedTheorem, PTL DEF TableSpec, AlignedStay
-----------------------------------------------------------------------------
(* Each line that is not blank is in the page once.                         *)

\* K are the lines of the draft that count.
TextKept(p, K) ==
  /\ \A n \in K : \E i \in 1..Len(p) : \E j \in 1..Len(p[i].from) : p[i].from[j] = n
  /\ \A i, k \in 1..Len(p) : \A j \in 1..Len(p[i].from), l \in 1..Len(p[k].from) :
        p[i].from[j] \in K /\ p[i].from[j] = p[k].from[l] => i = k /\ j = l
  /\ \A i \in 1..Len(p) : IsBlank(p[i]) => \A j \in 1..Len(p[i].from) : p[i].from[j] \notin K

FromOf(p, i) == IF i = 0 THEN <<>> ELSE p[i].from

\* Line k of q holds the texts of lines a[k] and b[k] of p; of p at most
\* blank lines are not in q.
Carries(p, q, a, b) ==
  /\ a \in [1..Len(q) -> 0..Len(p)] /\ b \in [1..Len(q) -> 0..Len(p)]
  /\ \A k \in 1..Len(q) : q[k].from = FromOf(p, a[k]) \o FromOf(p, b[k])
  /\ \A k, l \in 1..Len(q) : /\ a[k] = a[l] /\ a[k] # 0 => k = l
                             /\ b[k] = b[l] /\ b[k] # 0 => k = l
                             /\ a[k] = b[l] => a[k] = 0
  /\ \A i \in 1..Len(p) : IsBlank(p[i]) \/ \E k \in 1..Len(q) : a[k] = i \/ b[k] = i
  /\ \A k \in 1..Len(q) : IsBlank(q[k]) => b[k] = 0 /\ (a[k] = 0 \/ IsBlank(p[a[k]]))

LEMMA FromTyped ==
    ASSUME NEW p \in Seq(Line), NEW i \in 0..Len(p)
    PROVE  FromOf(p, i) \in Seq(Nat) /\ Len(FromOf(p, i)) \in Nat /\ (i = 0 => Len(FromOf(p, i)) = 0)
  <1>1. CASE i = 0
    <2>1. FromOf(p, i) = <<>>
        BY <1>1 DEF FromOf
    <2> QED
        BY <2>1, EmptySeq
  <1>2. CASE i # 0
    <2>1. i \in 1..Len(p)
        BY <1>2
    <2>2. p[i].from \in Seq(Nat)
        BY <2>1, PageTyped
    <2>3. FromOf(p, i) = p[i].from
        BY <1>2 DEF FromOf
    <2> QED
        BY <1>2, <2>2, <2>3
  <1> QED
      BY <1>1, <1>2

\* Where the j-th text of two joined sequences comes from.
LEMMA JoinedTexts ==
    ASSUME NEW x \in Seq(Nat), NEW y \in Seq(Nat), NEW w, w = x \o y
    PROVE  /\ Len(w) = Len(x) + Len(y) /\ Len(x) \in Nat /\ Len(y) \in Nat
           /\ \A j \in 1..Len(x) : w[j] = x[j]
           /\ \A j \in 1..Len(y) : w[Len(x) + j] = y[j]
           /\ \A j \in 1..Len(w) : \/ j \in 1..Len(x)
                                   \/ j - Len(x) \in 1..Len(y) /\ j = Len(x) + (j - Len(x))
  <1>1. /\ Len(w) = Len(x) + Len(y) /\ Len(x) \in Nat /\ Len(y) \in Nat
        /\ \A i \in 1..(Len(x) + Len(y)) : w[i] = IF i <= Len(x) THEN x[i] ELSE y[i - Len(x)]
      BY ConcatProperties
  <1> DEFINE n == Len(x)
             m == Len(y)
  <1>2. /\ Len(w) = n + m /\ n \in Nat /\ m \in Nat
        /\ \A i \in 1..(n + m) : w[i] = IF i <= n THEN x[i] ELSE y[i - n]
      BY <1>1
  <1> HIDE DEF n, m
  <1>3. ASSUME NEW j \in 1..n PROVE w[j] = x[j]
    <2>1. j \in 1..(n + m) /\ j <= n
        BY <1>2
    <2> QED
        BY <1>2, <2>1
  <1>4. ASSUME NEW j \in 1..m PROVE w[n + j] = y[j]
    <2>1. n + j \in 1..(n + m) /\ ~(n + j <= n) /\ n + j - n = j
        BY <1>2
    <2>2. w[n + j] = y[n + j - n]
        BY <1>2, <2>1
    <2> QED
        BY <2>1, <2>2
  <1>5. ASSUME NEW j \in 1..(n + m) PROVE j \in 1..n \/ (j - n \in 1..m /\ j = n + (j - n))
      BY <1>2
  <1> QED
      BY <1>2, <1>3, <1>4, <1>5 DEF n, m

\* The text at place j of line k: it is in line i of p, there at place l.
Comes(p, q, a, b, k, j, i, l) ==
  /\ i \in 1..Len(p) /\ l \in 1..Len(p[i].from) /\ q[k].from[j] = p[i].from[l]
  /\ \/ i = a[k] /\ j = l
     \/ i = b[k] /\ j = Len(FromOf(p, a[k])) + l

Carried(p, q, a, b, k) ==
  /\ \A j \in 1..Len(q[k].from) : \E i \in 1..Len(p) : \E l \in 1..Len(p[i].from) : Comes(p, q, a, b, k, j, i, l)
  /\ a[k] # 0 => \A l \in 1..Len(p[a[k]].from) : l \in 1..Len(q[k].from) /\ q[k].from[l] = p[a[k]].from[l]
  /\ b[k] # 0 => \A l \in 1..Len(p[b[k]].from) : \E j \in 1..Len(q[k].from) : q[k].from[j] = p[b[k]].from[l]

LEMMA CarriedFrom ==
    ASSUME NEW p \in Seq(Line), NEW q \in Seq(Line), NEW a, NEW b, Carries(p, q, a, b), NEW k \in 1..Len(q)
    PROVE  Carried(p, q, a, b, k)
  <1> DEFINE x == FromOf(p, a[k])
             y == FromOf(p, b[k])
             w == q[k].from
  <1>1. a[k] \in 0..Len(p) /\ b[k] \in 0..Len(p) /\ w = x \o y
      BY DEF Carries
  <1>2. x \in Seq(Nat) /\ y \in Seq(Nat) /\ (a[k] = 0 => Len(x) = 0) /\ (b[k] = 0 => Len(y) = 0)
      BY <1>1, FromTyped
  <1>2a. (a[k] # 0 => x = p[a[k]].from) /\ (b[k] # 0 => y = p[b[k]].from)
      BY DEF FromOf
  <1>2b. (a[k] # 0 => a[k] \in 1..Len(p)) /\ (b[k] # 0 => b[k] \in 1..Len(p))
      BY <1>1
  <1>d. /\ \A j, i, l : Comes(p, q, a, b, k, j, i, l) <=>
              /\ i \in 1..Len(p) /\ l \in 1..Len(p[i].from) /\ w[j] = p[i].from[l]
              /\ (i = a[k] /\ j = l) \/ (i = b[k] /\ j = Len(x) + l)
      BY DEF Comes
  <1> HIDE DEF x, y, w
  <1>3. /\ Len(w) = Len(x) + Len(y) /\ Len(x) \in Nat /\ Len(y) \in Nat
        /\ \A j \in 1..Len(x) : w[j] = x[j]
        /\ \A j \in 1..Len(y) : w[Len(x) + j] = y[j]
        /\ \A j \in 1..Len(w) : \/ j \in 1..Len(x)
                                \/ j - Len(x) \in 1..Len(y) /\ j = Len(x) + (j - Len(x))
      BY <1>1, <1>2, JoinedTexts
  <1>4. ASSUME NEW j \in 1..Len(w)
        PROVE  \E i \in 1..Len(p) : \E l \in 1..Len(p[i].from) : Comes(p, q, a, b, k, j, i, l)
    <2>1. CASE j \in 1..Len(x)
      <3>1. a[k] # 0
          BY <1>2, <1>3, <2>1
      <3>2. w[j] = p[a[k]].from[j] /\ j \in 1..Len(p[a[k]].from)
          BY <1>2a, <1>3, <2>1, <3>1
      <3> QED
          BY <1>2b, <1>d, <3>1, <3>2
    <2>2. CASE j - Len(x) \in 1..Len(y) /\ j = Len(x) + (j - Len(x))
      <3> DEFINE l == j - Len(x)
      <3>0. l \in 1..Len(y) /\ j = Len(x) + l
          BY <2>2
      <3> HIDE DEF l
      <3>1. b[k] # 0
          BY <1>2, <1>3, <3>0
      <3>2. w[j] = p[b[k]].from[l] /\ l \in 1..Len(p[b[k]].from)
          BY <1>2a, <1>3, <3>0, <3>1
      <3> QED
          BY <1>2b, <1>d, <3>0, <3>1, <3>2
    <2> QED
        BY <1>3, <2>1, <2>2
  <1>5. ASSUME a[k] # 0, NEW l \in 1..Len(p[a[k]].from) PROVE l \in 1..Len(w) /\ w[l] = p[a[k]].from[l]
    <2>1. l \in 1..Len(x)
        BY <1>2a, <1>5
    <2>2. l \in 1..Len(w)
        BY <1>3, <2>1
    <2> QED
        BY <1>2a, <1>3, <1>5, <2>1, <2>2
  <1>6. ASSUME b[k] # 0, NEW l \in 1..Len(p[b[k]].from) PROVE \E j \in 1..Len(w) : w[j] = p[b[k]].from[l]
    <2>1. l \in 1..Len(y)
        BY <1>2a, <1>6
    <2>2. Len(x) + l \in 1..Len(w)
        BY <1>3, <2>1
    <2> QED
        BY <1>2a, <1>3, <1>6, <2>1, <2>2
  <1> QED
      BY <1>4, <1>5, <1>6 DEF w, Carried

LEMMA CarriedKept ==
    ASSUME NEW p \in Seq(Line), NEW q \in Seq(Line), NEW a, NEW b, Carries(p, q, a, b), NEW K, TextKept(p, K)
    PROVE  TextKept(q, K)
  <1>1. /\ \A k, l \in 1..Len(q) : /\ a[k] = a[l] /\ a[k] # 0 => k = l
                                   /\ b[k] = b[l] /\ b[k] # 0 => k = l
                                   /\ a[k] = b[l] => a[k] = 0
        /\ \A i \in 1..Len(p) : IsBlank(p[i]) \/ \E k \in 1..Len(q) : a[k] = i \/ b[k] = i
        /\ \A k \in 1..Len(q) : IsBlank(q[k]) => b[k] = 0 /\ (a[k] = 0 \/ IsBlank(p[a[k]]))
      BY DEF Carries
  <1>2. /\ \A n \in K : \E i \in 1..Len(p) : \E j \in 1..Len(p[i].from) : p[i].from[j] = n
        /\ \A i, k \in 1..Len(p) : \A j \in 1..Len(p[i].from), l \in 1..Len(p[k].from) :
              p[i].from[j] \in K /\ p[i].from[j] = p[k].from[l] => i = k /\ j = l
        /\ \A i \in 1..Len(p) : IsBlank(p[i]) => \A j \in 1..Len(p[i].from) : p[i].from[j] \notin K
      BY DEF TextKept
  <1>0. \A k \in 1..Len(q) : Carried(p, q, a, b, k)
      BY CarriedFrom
  <1>3. ASSUME NEW n \in K PROVE \E k \in 1..Len(q) : \E j \in 1..Len(q[k].from) : q[k].from[j] = n
    <2>1. PICK i \in 1..Len(p) : \E l \in 1..Len(p[i].from) : p[i].from[l] = n
        BY <1>2
    <2>2. PICK l \in 1..Len(p[i].from) : p[i].from[l] = n
        BY <2>1
    <2>3. ~IsBlank(p[i])
        BY <1>2, <2>1, <2>2
    <2>4. PICK k \in 1..Len(q) : a[k] = i \/ b[k] = i
        BY <1>1, <2>1, <2>3
    <2>4a. i # 0
        BY <2>1
    <2>5. CASE a[k] = i
      <3>1. l \in 1..Len(q[k].from) /\ q[k].from[l] = p[i].from[l]
          BY <2>2, <2>4, <2>4a, <2>5, <1>0 DEF Carried
      <3> QED
          BY <2>2, <2>4, <3>1
    <2>6. CASE b[k] = i
      <3>1. \E j \in 1..Len(q[k].from) : q[k].from[j] = p[i].from[l]
          BY <2>2, <2>4, <2>4a, <2>6, <1>0 DEF Carried
      <3> QED
          BY <2>2, <2>4, <3>1
    <2> QED
        BY <2>4, <2>5, <2>6
  <1>4. ASSUME NEW k \in 1..Len(q), NEW m \in 1..Len(q), NEW j \in 1..Len(q[k].from), NEW l \in 1..Len(q[m].from),
               q[k].from[j] \in K, q[k].from[j] = q[m].from[l]
        PROVE  k = m /\ j = l
    <2>1. PICK i1 \in 1..Len(p) : \E l1 \in 1..Len(p[i1].from) : Comes(p, q, a, b, k, j, i1, l1)
        BY <1>0 DEF Carried
    <2>2. PICK l1 \in 1..Len(p[i1].from) : Comes(p, q, a, b, k, j, i1, l1)
        BY <2>1
    <2>3. PICK i2 \in 1..Len(p) : \E l2 \in 1..Len(p[i2].from) : Comes(p, q, a, b, m, l, i2, l2)
        BY <1>0 DEF Carried
    <2>4. PICK l2 \in 1..Len(p[i2].from) : Comes(p, q, a, b, m, l, i2, l2)
        BY <2>3
    <2>5. q[k].from[j] = p[i1].from[l1] /\ q[m].from[l] = p[i2].from[l2]
        BY <2>2, <2>4 DEF Comes
    <2>6. i1 = i2 /\ l1 = l2
      <3>1. p[i1].from[l1] \in K /\ p[i1].from[l1] = p[i2].from[l2]
          BY <1>4, <2>5
      <3>2. \A j1 \in 1..Len(p[i1].from), j2 \in 1..Len(p[i2].from) :
                p[i1].from[j1] \in K /\ p[i1].from[j1] = p[i2].from[j2] => i1 = i2 /\ j1 = j2
          BY <1>2, <2>1, <2>3
      <3> QED
          BY <2>2, <2>4, <3>1, <3>2
    <2>7. i1 # 0
        BY <2>1
    <2>8. k = m
      <3>1. i1 = a[k] \/ i1 = b[k]
          BY <2>2 DEF Comes
      <3>2. i1 = a[m] \/ i1 = b[m]
          BY <2>4, <2>6 DEF Comes
      <3>3. /\ a[k] = a[m] /\ a[k] # 0 => k = m
            /\ b[k] = b[m] /\ b[k] # 0 => k = m
            /\ a[k] = b[m] => a[k] = 0
            /\ a[m] = b[k] => a[m] = 0
          BY <1>1
      <3> QED
          BY <2>7, <3>1, <3>2, <3>3
    <2>9. j = l
        BY <1>1, <2>2, <2>4, <2>6, <2>7, <2>8 DEF Comes
    <2> QED
        BY <2>8, <2>9
  <1>5. ASSUME NEW k \in 1..Len(q), IsBlank(q[k]), NEW j \in 1..Len(q[k].from) PROVE q[k].from[j] \notin K
    <2>1. PICK i \in 1..Len(p) : \E l \in 1..Len(p[i].from) : Comes(p, q, a, b, k, j, i, l)
        BY <1>0 DEF Carried
    <2>2. PICK l \in 1..Len(p[i].from) : Comes(p, q, a, b, k, j, i, l)
        BY <2>1
    <2>3. i # 0 /\ IsBlank(p[i])
        BY <1>1, <1>5, <2>1, <2>2 DEF Comes
    <2> QED
        BY <1>2, <2>1, <2>2, <2>3 DEF Comes
  <1> QED
      BY <1>3, <1>4, <1>5 DEF TextKept

\* Line k of the joined page is piece gi[k]'s line gj[k].
Where(s, t, gi, gj) ==
  /\ gi \in [1..Len(t) -> 1..Len(s)] /\ gj \in [1..Len(t) -> Nat]
  /\ \A k \in 1..Len(t) : gj[k] \in 1..Len(s[gi[k]]) /\ t[k] = s[gi[k]][gj[k]]
  /\ \A k, m \in 1..Len(t) : gi[k] = gi[m] /\ gj[k] = gj[m] => k = m
  /\ \A i \in 1..Len(s) : \A j \in 1..Len(s[i]) : \E k \in 1..Len(t) : gi[k] = i /\ gj[k] = j

LEMMA JoinedWhere ==
    ASSUME NEW X, NEW s \in Seq(Seq(X)), NEW t, t = FlattenSeq(s)
    PROVE  t \in Seq(X) /\ \E gi, gj : Where(s, t, gi, gj)
  <1>1. t \in Seq(X) /\ \E off : Joins(s, t, off)
      BY FlattenJoins
  <1>2. PICK off : Joins(s, t, off)
      BY <1>1
  <1>3. Laid(s, t, off)
      BY <1>1, <1>2, JoinedPlaces
  <1>4. \A i \in 1..Len(s) : \A j \in 1..Len(s[i]) : t[off[i] + j] = s[i][j]
      BY <1>2 DEF Joins, Joined
  <1>5. Len(s) \in Nat /\ Len(t) \in Nat /\ \A i \in 1..Len(s) : Len(s[i]) \in Nat
      BY <1>1, ElementOfSeq
  <1> DEFINE n == Len(t)
             m == Len(s)
             gi == [k \in 1..n |-> CHOOSE i \in 1..m : \E j \in 1..Len(s[i]) : k = off[i] + j]
             gj == [k \in 1..n |-> k - off[gi[k]]]
  <1>6. \A k \in 1..n : gi[k] \in 1..m /\ \E j \in 1..Len(s[gi[k]]) : k = off[gi[k]] + j
    <2>1. \A k \in 1..n : \E i \in 1..m : \E j \in 1..Len(s[i]) : k = off[i] + j
        BY <1>3 DEF Laid
    <2> QED
        BY <2>1
  <1>6a. gi \in [1..n -> 1..m]
      BY <1>6
  <1>7. \A i \in 1..m : off[i] \in Nat
      BY <1>3, <1>5 DEF Laid
  <1>7a. \A k \in 1..n : gj[k] = k - off[gi[k]]
      OBVIOUS
  <1>7b. DOMAIN gj = 1..n /\ gj = [k \in 1..n |-> gj[k]]
      OBVIOUS
  <1> HIDE DEF gi, gj, n, m
  <1>8. ASSUME NEW k \in 1..n PROVE gj[k] \in 1..Len(s[gi[k]]) /\ k = off[gi[k]] + gj[k] /\ gj[k] \in Nat
    <2>1. PICK j \in 1..Len(s[gi[k]]) : k = off[gi[k]] + j
        BY <1>6
    <2>2. off[gi[k]] \in Nat /\ Len(s[gi[k]]) \in Nat
        BY <1>5, <1>6, <1>7 DEF m
    <2>3. gj[k] = k - off[gi[k]]
        BY <1>7a
    <2>4. gj[k] = j
        BY <2>1, <2>2, <2>3
    <2> QED
        BY <2>1, <2>2, <2>4
  <1>9. gj \in [1..n -> Nat]
      BY <1>7b, <1>8
  <1>10. ASSUME NEW k \in 1..n PROVE t[k] = s[gi[k]][gj[k]]
    <2>1. gi[k] \in 1..m /\ gj[k] \in 1..Len(s[gi[k]]) /\ k = off[gi[k]] + gj[k]
        BY <1>6, <1>8
    <2>2. t[off[gi[k]] + gj[k]] = s[gi[k]][gj[k]]
        BY <1>4, <2>1 DEF m
    <2> QED
        BY <2>1, <2>2
  <1>11. ASSUME NEW k \in 1..n, NEW l \in 1..n, gi[k] = gi[l], gj[k] = gj[l] PROVE k = l
      BY <1>8, <1>11
  <1>12. ASSUME NEW i \in 1..m, NEW j \in 1..Len(s[i]) PROVE \E k \in 1..n : gi[k] = i /\ gj[k] = j
    <2> DEFINE k == off[i] + j
    <2>1. k \in 1..n
        BY <1>3 DEF Laid, m, n
    <2> HIDE DEF k
    <2>2. gi[k] \in 1..m /\ gj[k] \in 1..Len(s[gi[k]]) /\ k = off[gi[k]] + gj[k]
        BY <1>6, <1>8, <2>1
    <2>3. off[gi[k]] + gj[k] = off[i] + j
        BY <2>2 DEF k
    <2>3a. \A h, g \in 1..m : \A x \in 1..Len(s[h]), y \in 1..Len(s[g]) : off[h] + x = off[g] + y => h = g /\ x = y
        BY <1>3 DEF Laid, m
    <2>4. gi[k] = i /\ gj[k] = j
        BY <2>2, <2>3, <2>3a
    <2> QED
        BY <2>1, <2>4
  <1>13. Where(s, t, gi, gj)
      BY <1>6a, <1>8, <1>9, <1>10, <1>11, <1>12 DEF Where, n, m
  <1> QED
      BY <1>1, <1>13

\* A pass that drops blank lines and adds lines without text.
Copies(p, q, a) ==
  /\ a \in [1..Len(q) -> 0..Len(p)]
  /\ \A k \in 1..Len(q) : q[k].from = FromOf(p, a[k])
  /\ \A k, l \in 1..Len(q) : a[k] = a[l] /\ a[k] # 0 => k = l
  /\ \A i \in 1..Len(p) : IsBlank(p[i]) \/ \E k \in 1..Len(q) : a[k] = i
  /\ \A k \in 1..Len(q) : IsBlank(q[k]) => a[k] = 0 \/ IsBlank(p[a[k]])

LEMMA CopiesKept ==
    ASSUME NEW p \in Seq(Line), NEW q \in Seq(Line), NEW a, Copies(p, q, a), NEW K, TextKept(p, K)
    PROVE  TextKept(q, K)
  <1> DEFINE b == [k \in 1..Len(q) |-> 0]
  <1>1. Len(p) \in Nat /\ Len(q) \in Nat
      OBVIOUS
  <1>2. b \in [1..Len(q) -> 0..Len(p)] /\ \A k \in 1..Len(q) : b[k] = 0
      BY <1>1
  <1> HIDE DEF b
  <1>3. a \in [1..Len(q) -> 0..Len(p)]
      BY DEF Copies
  <1>4. ASSUME NEW k \in 1..Len(q) PROVE q[k].from = FromOf(p, a[k]) \o FromOf(p, b[k])
    <2>1. q[k].from = FromOf(p, a[k]) /\ a[k] \in 0..Len(p)
        BY <1>3 DEF Copies
    <2>2. FromOf(p, b[k]) = <<>>
        BY <1>2 DEF FromOf
    <2>3. FromOf(p, a[k]) \in Seq(Nat)
        BY <2>1, FromTyped
    <2> QED
        BY <2>1, <2>2, <2>3, ConcatEmptySeq
  <1>5. \A k, l \in 1..Len(q) : /\ a[k] = a[l] /\ a[k] # 0 => k = l
                                /\ b[k] = b[l] /\ b[k] # 0 => k = l
                                /\ a[k] = b[l] => a[k] = 0
      BY <1>2 DEF Copies
  <1>6. \A i \in 1..Len(p) : IsBlank(p[i]) \/ \E k \in 1..Len(q) : a[k] = i \/ b[k] = i
      BY DEF Copies
  <1>7. \A k \in 1..Len(q) : IsBlank(q[k]) => b[k] = 0 /\ (a[k] = 0 \/ IsBlank(p[a[k]]))
      BY <1>2 DEF Copies
  <1>8. Carries(p, q, a, b)
      BY <1>2, <1>3, <1>4, <1>5, <1>6, <1>7 DEF Carries
  <1> QED
      BY <1>8, CarriedKept

LEMMA NormalizeKept ==
    ASSUME NEW p \in Seq(Line), NEW K, TextKept(p, K)
    PROVE  TextKept(NormalizeMalformedPipeRows(p), K)
  <1> DEFINE q == NormalizeMalformedPipeRows(p)
             a == [k \in 1..Len(p) |-> k]
  <1>1. /\ q \in Seq(Line) /\ Len(q) = Len(p)
        /\ \A i \in 1..Len(p) : q[i].kind = (IF p[i].kind = "loose" THEN "row" ELSE p[i].kind) /\ q[i].from = p[i].from
      BY NormalizeIs
  <1>2. Len(p) \in Nat /\ \A k \in 1..Len(p) : k # 0
      OBVIOUS
  <1>3. a \in [1..Len(p) -> 0..Len(p)] /\ \A k \in 1..Len(p) : a[k] = k
      BY <1>2
  <1> HIDE DEF q, a
  <1>4. Copies(p, q, a)
      BY <1>1, <1>2, <1>3 DEF Copies, FromOf, IsBlank
  <1>5. TextKept(q, K)
      BY <1>1, <1>4, CopiesKept
  <1> QED
      BY <1>5 DEF q

LEMMA RestoreKept ==
    ASSUME NEW p \in Seq(Line), NEW K, TextKept(p, K)
    PROVE  TextKept(RestoreMissingTableHeaderCells(p), K)
  <1> DEFINE q == RestoreMissingTableHeaderCells(p)
             a == [k \in 1..Len(p) |-> k]
  <1>1. /\ q \in Seq(Line) /\ Len(q) = Len(p)
        /\ \A i \in 1..Len(p) : q[i] = IF i \in PadLines(p) THEN PrependEmptyCell(p[i]) ELSE p[i]
      BY RestoreIs
  <1>1a. ASSUME NEW i \in 1..Len(p) PROVE q[i].from = p[i].from /\ (IsBlank(q[i]) => IsBlank(p[i]))
    <2>1. p[i] \in Line
        BY ElementOfSeq
    <2>2. PrependEmptyCell(p[i]).kind = "row" /\ PrependEmptyCell(p[i]).from = p[i].from
        BY <2>1, PaddedIs
    <2> QED
        BY <1>1, <2>2 DEF IsBlank
  <1>2. Len(p) \in Nat /\ \A k \in 1..Len(p) : k # 0
      OBVIOUS
  <1>3. a \in [1..Len(p) -> 0..Len(p)] /\ \A k \in 1..Len(p) : a[k] = k
      BY <1>2
  <1> HIDE DEF q, a
  <1>4. Copies(p, q, a)
      BY <1>1, <1>1a, <1>2, <1>3 DEF Copies, FromOf
  <1>5. TextKept(q, K)
      BY <1>1, <1>4, CopiesKept
  <1> QED
      BY <1>5 DEF q

LEMMA MergeKept ==
    ASSUME NEW p \in Seq(Line), NEW K, TextKept(p, K)
    PROVE  TextKept(MergeHeaderlessContinuationBlocks(p), K)
  <1> DEFINE s == MergePieces(p)
             t == FlattenSeq(s)
  <1>1. /\ MergeHeaderlessContinuationBlocks(p) = t /\ s \in Seq(Seq(Line)) /\ Len(s) = Len(p)
        /\ t \in Seq(Line) /\ \E gi, gj : Where(s, t, gi, gj)
      BY MergeJoins, JoinedWhere
  <1>2. \A i \in 1..Len(p) : s[i] = IF \E q \in MergedPairs(p) : i \in Between(q[1], q[2]) THEN <<>> ELSE <<p[i]>>
      BY DEF MergePieces
  <1> HIDE DEF s, t
  <1>3. PICK gi, gj : Where(s, t, gi, gj)
      BY <1>1
  <1>4. ASSUME NEW i \in 1..Len(p)
        PROVE  \/ IsBlank(p[i]) /\ Len(s[i]) = 0
               \/ Len(s[i]) = 1 /\ s[i][1] = p[i]
    <2>1. CASE \E q \in MergedPairs(p) : i \in Between(q[1], q[2])
      <3>1. PICK q \in MergedPairs(p) : i \in Between(q[1], q[2])
          BY <2>1
      <3>2. OnlyBlankBetween(p, q[1], q[2])
          BY DEF MergedPairs
      <3>3. s[i] = <<>>
          BY <1>2, <2>1
      <3> QED
          BY <3>1, <3>2, <3>3 DEF OnlyBlankBetween
    <2>2. CASE ~\E q \in MergedPairs(p) : i \in Between(q[1], q[2])
      <3>1. s[i] = <<p[i]>>
          BY <1>2, <2>2
      <3> QED
          BY <3>1, SingleLine
    <2> QED
        BY <2>1, <2>2
  <1>5. ASSUME NEW k \in 1..Len(t)
        PROVE  gi[k] \in 1..Len(p) /\ gj[k] = 1 /\ t[k] = p[gi[k]] /\ gi[k] # 0
    <2>1. gi[k] \in 1..Len(p) /\ gj[k] \in 1..Len(s[gi[k]]) /\ t[k] = s[gi[k]][gj[k]]
        BY <1>1, <1>3 DEF Where
    <2>2. Len(s[gi[k]]) = 1 /\ s[gi[k]][1] = p[gi[k]]
        BY <1>4, <2>1
    <2>3. gj[k] = 1
        BY <2>1, <2>2
    <2> QED
        BY <2>1, <2>2, <2>3
  <1>6. gi \in [1..Len(t) -> 0..Len(p)]
    <2>1. gi \in [1..Len(t) -> 1..Len(p)] /\ Len(p) \in Nat
        BY <1>1, <1>3 DEF Where
    <2> QED
        BY <2>1
  <1>7. \A k, l \in 1..Len(t) : gi[k] = gi[l] /\ gi[k] # 0 => k = l
      BY <1>3, <1>5 DEF Where
  <1>8. ASSUME NEW i \in 1..Len(p) PROVE IsBlank(p[i]) \/ \E k \in 1..Len(t) : gi[k] = i
    <2>1. SUFFICES ASSUME ~IsBlank(p[i]) PROVE \E k \in 1..Len(t) : gi[k] = i
        OBVIOUS
    <2>2. 1 \in 1..Len(s[i]) /\ i \in 1..Len(s)
        BY <1>1, <1>4, <2>1
    <2> QED
        BY <1>3, <2>2 DEF Where
  <1>9. Copies(p, t, gi)
      BY <1>5, <1>6, <1>7, <1>8 DEF Copies, FromOf
  <1>10. TextKept(t, K)
      BY <1>1, <1>9, CopiesKept
  <1> QED
      BY <1>1, <1>10

LEMMA NeutralKept ==
    ASSUME NEW p \in Seq(Line), NEW K, TextKept(p, K)
    PROVE  TextKept(NeutralizeChartLikeTables(p), K)
  <1> DEFINE s == NeutralPieces(p)
             t == FlattenSeq(s)
  <1>1. /\ NeutralizeChartLikeTables(p) = t /\ s \in Seq(Seq(Line)) /\ Len(s) = Len(p)
        /\ t \in Seq(Line) /\ \E gi, gj : Where(s, t, gi, gj)
      BY NeutralJoins, JoinedWhere
  <1>2. \A i \in 1..Len(p) : s[i] = IF \E b \in Charts(p) : b[1] = i
                                    THEN <<Marker, ChartLine(p, i)>> ELSE <<ChartLine(p, i)>>
      BY NeutralJoins
  <1>2a. Len(p) \in Nat
      OBVIOUS
  <1> HIDE DEF s, t
  <1>3. PICK gi, gj : Where(s, t, gi, gj)
      BY <1>1
  <1>4. ASSUME NEW i \in 1..Len(p)
        PROVE  \/ Len(s[i]) = 1 /\ s[i][1] = ChartLine(p, i)
               \/ Len(s[i]) = 2 /\ s[i][1] = Marker /\ s[i][2] = ChartLine(p, i)
    <2> DEFINE y == ChartLine(p, i)
    <2>1. s[i] = <<Marker, y>> \/ s[i] = <<y>>
        BY <1>2
    <2> HIDE DEF y
    <2>2. (Len(s[i]) = 1 /\ s[i][1] = y) \/ (Len(s[i]) = 2 /\ s[i][1] = Marker /\ s[i][2] = y)
      <3>1. CASE s[i] = <<y>>
          BY <3>1, SingleLine
      <3>2. CASE s[i] = <<Marker, y>>
          BY <3>2, TwoLines
      <3> QED
          BY <2>1, <3>1, <3>2
    <2> QED
        BY <2>2 DEF y
  <1> DEFINE a == [k \in 1..Len(t) |-> IF gj[k] = Len(s[gi[k]]) THEN gi[k] ELSE 0]
  <1>5. \A k \in 1..Len(t) : a[k] = IF gj[k] = Len(s[gi[k]]) THEN gi[k] ELSE 0
      OBVIOUS
  <1>5a. \A k \in 1..Len(t) : gi[k] \in 1..Len(p)
      BY <1>1, <1>3 DEF Where
  <1>5b. a \in [1..Len(t) -> 0..Len(p)]
    <2>1. \A k \in 1..Len(t) : gi[k] \in 0..Len(p) /\ 0 \in 0..Len(p)
        BY <1>2a, <1>5a
    <2> QED
        BY <2>1
  <1> HIDE DEF a
  <1>6. ASSUME NEW k \in 1..Len(t)
        PROVE  \/ a[k] = gi[k] /\ gj[k] = Len(s[gi[k]]) /\ t[k] = ChartLine(p, gi[k])
               \/ a[k] = 0 /\ t[k] = Marker
    <2>1. gi[k] \in 1..Len(p) /\ gj[k] \in 1..Len(s[gi[k]]) /\ t[k] = s[gi[k]][gj[k]]
        BY <1>1, <1>3 DEF Where
    <2>2. CASE Len(s[gi[k]]) = 1 /\ s[gi[k]][1] = ChartLine(p, gi[k])
      <3>1. gj[k] = 1
          BY <2>1, <2>2
      <3> QED
          BY <1>5, <2>1, <2>2, <3>1
    <2>3. CASE Len(s[gi[k]]) = 2 /\ s[gi[k]][1] = Marker /\ s[gi[k]][2] = ChartLine(p, gi[k])
      <3>1. gj[k] = 1 \/ gj[k] = 2
          BY <2>1, <2>3
      <3> QED
          BY <1>5, <2>1, <2>3, <3>1
    <2> QED
        BY <1>4, <2>1, <2>2, <2>3
  <1>7. ASSUME NEW k \in 1..Len(t) PROVE t[k].from = FromOf(p, a[k]) /\ (IsBlank(t[k]) => a[k] = 0 \/ IsBlank(p[a[k]]))
    <2>1. CASE a[k] = gi[k] /\ t[k] = ChartLine(p, gi[k])
      <3>1. gi[k] \in 1..Len(p) /\ gi[k] # 0
          BY <1>5a
      <3>2. /\ ChartLine(p, gi[k]).from = p[gi[k]].from
            /\ ChartLine(p, gi[k]).kind = IF gi[k] \in LinesOf(Charts(p)) THEN "quote" ELSE p[gi[k]].kind
          BY <3>1, ChartLineIs
      <3> QED
          BY <2>1, <3>1, <3>2 DEF FromOf, IsBlank
    <2>2. CASE a[k] = 0 /\ t[k] = Marker
        BY <2>2, MarkerTyped DEF FromOf
    <2> QED
        BY <1>6, <2>1, <2>2
  <1>8. ASSUME NEW k \in 1..Len(t), NEW l \in 1..Len(t), a[k] = a[l], a[k] # 0 PROVE k = l
    <2>1. gi[k] = gi[l] /\ gj[k] = gj[l]
        BY <1>6, <1>8
    <2> QED
        BY <1>3, <2>1 DEF Where
  <1>9. ASSUME NEW i \in 1..Len(p) PROVE \E k \in 1..Len(t) : a[k] = i
    <2>1. Len(s[i]) \in 1..Len(s[i]) /\ i \in 1..Len(s)
      <3>1. CASE Len(s[i]) = 1
          BY <1>1, <3>1
      <3>2. CASE Len(s[i]) = 2
          BY <1>1, <3>2
      <3> QED
          BY <1>4, <3>1, <3>2
    <2>1a. \A h \in 1..Len(s) : \A j \in 1..Len(s[h]) : \E k \in 1..Len(t) : gi[k] = h /\ gj[k] = j
        BY <1>3 DEF Where
    <2>2. PICK k \in 1..Len(t) : gi[k] = i /\ gj[k] = Len(s[i])
        BY <2>1, <2>1a
    <2>3. a[k] = i
        BY <1>5, <2>2
    <2> QED
        BY <2>3
  <1>10. Copies(p, t, a)
      BY <1>5b, <1>7, <1>8, <1>9 DEF Copies
  <1>11. TextKept(t, K)
      BY <1>1, <1>10, CopiesKept
  <1> QED
      BY <1>1, <1>11

\* The rows restored below line i are those of the headings whose table ends there.
FoldedBy(p, i, g) ==
  /\ g \in [1..Len(Folded(p, i)) -> EscapedHeadings(p)]
  /\ \A l \in 1..Len(Folded(p, i)) : ParentBlockAbove(p, g[l])[2] = i /\ Folded(p, i)[l] = FoldedRow(p, g[l])
  /\ \A l, m \in 1..Len(Folded(p, i)) : g[l] = g[m] => l = m
  /\ \A h \in EscapedHeadings(p) : ParentBlockAbove(p, h)[2] = i => \E l \in 1..Len(Folded(p, i)) : g[l] = h

LEMMA FoldedIs ==
    ASSUME NEW p \in Seq(Line), NEW i
    PROVE  \E g : FoldedBy(p, i, g)
  <1> DEFINE s == FoldPieces(p, i)
             t == Folded(p, i)
             In == {h \in EscapedHeadings(p) : ParentBlockAbove(p, h)[2] = i}
  <1>1. s \in Seq(Seq(Line)) /\ Len(s) = Len(p) /\ t = FlattenSeq(s)
      BY FoldJoins DEF Folded
  <1>2. \A h \in 1..Len(p) : s[h] = IF h \in In THEN <<FoldedRow(p, h)>> ELSE <<>>
      BY DEF FoldPieces
  <1>2a. EscapedHeadings(p) \subseteq 1..Len(p)
      BY EscapedIs DEF Escaped
  <1> HIDE DEF s, t
  <1>3. PICK gi, gj : Where(s, t, gi, gj)
      BY <1>1, JoinedWhere
  <1>4. \A h \in 1..Len(p) : \/ h \in In /\ Len(s[h]) = 1 /\ s[h][1] = FoldedRow(p, h)
                             \/ h \notin In /\ Len(s[h]) = 0
    <2> TAKE h \in 1..Len(p)
    <2>1. CASE h \in In
      <3>1. s[h] = <<FoldedRow(p, h)>>
          BY <1>2, <2>1
      <3> QED
          BY <2>1, <3>1, SingleLine
    <2>2. CASE h \notin In
      <3>1. s[h] = <<>>
          BY <1>2, <2>2
      <3> QED
          BY <2>2, <3>1
    <2> QED
        BY <2>1, <2>2
  <1>5. ASSUME NEW l \in 1..Len(t) PROVE gi[l] \in In /\ gj[l] = 1 /\ t[l] = FoldedRow(p, gi[l])
    <2>1. gi[l] \in 1..Len(p) /\ gj[l] \in 1..Len(s[gi[l]]) /\ t[l] = s[gi[l]][gj[l]]
        BY <1>1, <1>3 DEF Where
    <2>2. gi[l] \in In /\ Len(s[gi[l]]) = 1 /\ s[gi[l]][1] = FoldedRow(p, gi[l])
        BY <1>4, <2>1
    <2>3. gj[l] = 1
        BY <2>1, <2>2
    <2> QED
        BY <2>1, <2>2, <2>3
  <1>6. gi \in [1..Len(t) -> EscapedHeadings(p)]
    <2>1. DOMAIN gi = 1..Len(t) /\ gi = [l \in DOMAIN gi |-> gi[l]]
        BY <1>3 DEF Where
    <2> QED
        BY <1>5, <2>1
  <1>7. \A l, m \in 1..Len(t) : gi[l] = gi[m] => l = m
      BY <1>3, <1>5 DEF Where
  <1>8. ASSUME NEW h \in In PROVE \E l \in 1..Len(t) : gi[l] = h
    <2>1. h \in 1..Len(s) /\ 1 \in 1..Len(s[h])
        BY <1>1, <1>2a, <1>4
    <2> QED
        BY <1>3, <2>1 DEF Where
  <1>9. FoldedBy(p, i, gi)
      BY <1>5, <1>6, <1>7, <1>8 DEF FoldedBy, t
  <1> QED
      BY <1>9

\* Two headings have two rows.
LEMMA HeadingOfRow ==
    ASSUME NEW p \in Seq(Line), NEW h, NEW g, NEW r, Escaped(p, h, r), Escaped(p, g, r)
    PROVE  h = g
  <1>1. /\ h \in 1..Len(p) /\ p[h].kind = "heading" /\ r \in (h + 1)..Len(p)
        /\ \A j \in (h + 1)..(r - 1) : IsBlank(p[j])
        /\ g \in 1..Len(p) /\ p[g].kind = "heading" /\ r \in (g + 1)..Len(p)
        /\ \A j \in (g + 1)..(r - 1) : IsBlank(p[j])
      BY DEF Escaped
  <1>2. Len(p) \in Nat
      OBVIOUS
  <1>3. ~(g \in (h + 1)..(r - 1)) /\ ~(h \in (g + 1)..(r - 1))
      BY <1>1 DEF IsBlank
  <1> QED
      BY <1>1, <1>2, <1>3

\* A piece: the line that stays, and the rows restored below it.
Below(p, s, i, g) ==
  /\ FoldedBy(p, i, g)
  /\ \/ i \in TakenOut(p) /\ Len(s[i]) = 0
     \/ /\ i \notin TakenOut(p) /\ Len(s[i]) = Len(Folded(p, i)) + 1 /\ s[i][1] = p[i]
        /\ \A l \in 1..Len(Folded(p, i)) : s[i][l + 1] = FoldedRow(p, g[l])

LEMMA BelowIs ==
    ASSUME NEW p \in Seq(Line), NEW i \in 1..Len(p)
    PROVE  \E g : Below(p, ReattachPieces(p), i, g)
  <1> DEFINE s == ReattachPieces(p)
             v == Folded(p, i)
             u == <<p[i]>>
  <1>1. PICK g : FoldedBy(p, i, g)
      BY FoldedIs
  <1>2. s[i] = IF i \in TakenOut(p) THEN <<>> ELSE u \o v
      BY ReattachJoins
  <1>3. v \in Seq(Line) /\ p[i] \in Line
      BY FoldJoins, ElementOfSeq
  <1>4. u \in Seq(Line) /\ Len(u) = 1 /\ u[1] = p[i]
      BY <1>3
  <1>5. \A l \in 1..Len(v) : v[l] = FoldedRow(p, g[l])
      BY <1>1 DEF FoldedBy
  <1> HIDE DEF s, u, v
  <1>6. CASE i \in TakenOut(p)
    <2>1. s[i] = <<>>
        BY <1>2, <1>6
    <2>2. Len(s[i]) = 0
        BY <2>1
    <2> QED
        BY <1>1, <1>6, <2>2 DEF Below, s
  <1>7. CASE i \notin TakenOut(p)
    <2>0. Len(v) \in Nat
        BY <1>3
    <2>1. /\ Len(u \o v) = Len(u) + Len(v) /\ Len(v) \in Nat
          /\ \A k \in 1..(Len(u) + Len(v)) : (u \o v)[k] = IF k <= Len(u) THEN u[k] ELSE v[k - Len(u)]
        BY <1>3, <1>4, <2>0, ConcatProperties
    <2> DEFINE n == Len(v)
               w == u \o v
    <2>2. /\ s[i] = w /\ Len(w) = n + 1 /\ n \in Nat
          /\ \A k \in 1..(1 + n) : w[k] = IF k <= 1 THEN u[k] ELSE v[k - 1]
        BY <1>2, <1>4, <1>7, <2>1
    <2>2a. \A l \in 1..n : v[l] = FoldedRow(p, g[l])
        BY <1>5
    <2> HIDE DEF n, w
    <2>3. w[1] = p[i]
        BY <1>4, <2>2
    <2>4. ASSUME NEW l \in 1..n PROVE w[l + 1] = FoldedRow(p, g[l])
      <3>1. l + 1 \in 1..(1 + n) /\ ~(l + 1 <= 1) /\ l + 1 - 1 = l
          BY <2>2
      <3>2. w[l + 1] = v[l + 1 - 1]
          BY <2>2, <3>1
      <3> QED
          BY <2>2a, <3>1, <3>2
    <2>5. Len(s[i]) = Len(Folded(p, i)) + 1 /\ s[i][1] = p[i]
          /\ \A l \in 1..Len(Folded(p, i)) : s[i][l + 1] = FoldedRow(p, g[l])
        BY <2>2, <2>3, <2>4 DEF n, v
    <2> QED
        BY <1>1, <1>7, <2>5 DEF Below, s
  <1> QED
      BY <1>6, <1>7

\* Line k of the joined page is a line that stays, or the row of heading h.
Stays(p, t, gi, gj, k) == gj[k] = 1 /\ gi[k] \notin TakenOut(p) /\ t[k] = p[gi[k]]
Restores(p, t, gi, gj, G, k, h) ==
  /\ gj[k] # 1 /\ h \in EscapedHeadings(p) /\ t[k] = FoldedRow(p, h)
  /\ ParentBlockAbove(p, h)[2] = gi[k] /\ gj[k] - 1 \in 1..Len(Folded(p, gi[k]))
  /\ G[gi[k]][gj[k] - 1] = h

LEMMA ReattachedLine ==
    ASSUME NEW p \in Seq(Line), NEW s \in Seq(Seq(Line)), NEW t \in Seq(Line), NEW gi, NEW gj, Where(s, t, gi, gj),
           NEW G, Len(s) = Len(p), \A i \in 1..Len(p) : Below(p, s, i, G[i]), NEW k \in 1..Len(t)
    PROVE  Stays(p, t, gi, gj, k) \/ Restores(p, t, gi, gj, G, k, G[gi[k]][gj[k] - 1])
  <1> DEFINE i == gi[k]
             j == gj[k]
             n == Len(Folded(p, i))
             h == G[i][j - 1]
  <1>1. i \in 1..Len(p) /\ j \in 1..Len(s[i]) /\ t[k] = s[i][j]
      BY DEF Where
  <1>2. Below(p, s, i, G[i])
      BY <1>1
  <1>3. n \in Nat
      BY FoldJoins
  <1>4. i \notin TakenOut(p) /\ Len(s[i]) = n + 1 /\ s[i][1] = p[i] /\ \A l \in 1..n : s[i][l + 1] = FoldedRow(p, G[i][l])
    <2>1. Len(s[i]) # 0
        BY <1>1
    <2> QED
        BY <1>2, <2>1 DEF Below
  <1>5. /\ \A l \in 1..n : G[i][l] \in EscapedHeadings(p)
        /\ \A l \in 1..n : ParentBlockAbove(p, G[i][l])[2] = i
      BY <1>2 DEF Below, FoldedBy
  <1> HIDE DEF n
  <1>6. CASE j = 1
      BY <1>1, <1>4, <1>6 DEF Stays
  <1>7. CASE j # 1
    <2> DEFINE l == j - 1
    <2>0. j \in 1..(n + 1) /\ n \in Nat /\ j # 1
        BY <1>1, <1>3, <1>4, <1>7
    <2>1. l \in 1..n /\ j = l + 1
      <3> HIDE DEF j
      <3> QED
          BY <2>0
    <2>2. h = G[i][l]
        OBVIOUS
    <2> HIDE DEF l
    <2>3. t[k] = FoldedRow(p, G[i][l]) /\ G[i][l] \in EscapedHeadings(p) /\ ParentBlockAbove(p, G[i][l])[2] = i
        BY <1>1, <1>4, <1>5, <2>1
    <2>4. l \in 1..n
        BY <2>1
    <2> QED
        BY <1>7, <2>2, <2>3, <2>4 DEF Restores, l, n
  <1> QED
      BY <1>6, <1>7

\* A restored row: its heading, and the row below that one.
LEMMA HeadingIs ==
    ASSUME NEW p \in Seq(Line), NEW h \in EscapedHeadings(p)
    PROVE  /\ h \in 1..Len(p) /\ p[h].kind = "heading" /\ h \in TakenOut(p) /\ h # 0 /\ ~IsBlank(p[h])
           /\ NextNonBlank(p, h + 1) \in 1..Len(p) /\ p[NextNonBlank(p, h + 1)].kind = "row"
           /\ NextNonBlank(p, h + 1) \in TakenOut(p) /\ NextNonBlank(p, h + 1) # 0
           /\ ~IsBlank(FoldedRow(p, h))
           /\ FoldedRow(p, h).from = FromOf(p, h) \o FromOf(p, NextNonBlank(p, h + 1))
           /\ ParentBlockAbove(p, h) \in HeadedBlocks(p)
  <1> DEFINE r == NextNonBlank(p, h + 1)
  <1>1. Escaped(p, h, r)
      BY EscapedIs
  <1>2. h \in TakenOut(p) /\ r \in TakenOut(p)
      BY DEF TakenOut
  <1> HIDE DEF r
  <1>3. /\ h \in 1..Len(p) /\ p[h].kind = "heading" /\ r \in (h + 1)..Len(p) /\ IsRow(p[r])
        /\ ParentBlockAbove(p, h) \in HeadedBlocks(p)
      BY <1>1 DEF Escaped, ParentsAbove
  <1>4. r \in 1..Len(p) /\ h # 0 /\ r # 0
    <2>1. Len(p) \in Nat
        OBVIOUS
    <2> QED
        BY <1>3, <2>1
  <1>5. r = NextNonBlank(p, h + 1)
      BY DEF r
  <1>6. FoldedRow(p, h).kind = "row" /\ FoldedRow(p, h).from = p[h].from \o p[r].from
      BY <1>1, <1>5, FoldedRowIs
  <1>7. FromOf(p, h) = p[h].from /\ FromOf(p, r) = p[r].from
      BY <1>4 DEF FromOf
  <1>8. p[r].kind = "row" /\ ~IsBlank(p[h]) /\ ~IsBlank(FoldedRow(p, h))
      BY <1>3, <1>6 DEF IsRow, IsBlank
  <1> QED
      BY <1>2, <1>3, <1>4, <1>6, <1>7, <1>8 DEF r

LEMMA ReattachKept ==
    ASSUME NEW p \in Seq(Line), NEW K, TextKept(p, K)
    PROVE  TextKept(ReattachHeadingSplitTableRows(p), K)
  <1> DEFINE s == ReattachPieces(p)
             t == FlattenSeq(s)
             G == [i \in 1..Len(p) |-> CHOOSE g : Below(p, s, i, g)]
  <1>1. /\ ReattachHeadingSplitTableRows(p) = t /\ s \in Seq(Seq(Line)) /\ Len(s) = Len(p)
        /\ t \in Seq(Line) /\ \E gi, gj : Where(s, t, gi, gj)
      BY ReattachIs, ReattachJoins, JoinedWhere
  <1>2. \A i \in 1..Len(p) : Below(p, s, i, G[i])
    <2>1. \A i \in 1..Len(p) : \E g : Below(p, s, i, g)
        BY BelowIs
    <2> QED
        BY <2>1
  <1> HIDE DEF s, t, G
  <1>3. PICK gi, gj : Where(s, t, gi, gj)
      BY <1>1
  <1> DEFINE n == Len(t)
             head == [k \in 1..n |-> G[gi[k]][gj[k] - 1]]
             a == [k \in 1..n |-> IF gj[k] = 1 THEN gi[k] ELSE head[k]]
             b == [k \in 1..n |-> IF gj[k] = 1 THEN 0 ELSE NextNonBlank(p, head[k] + 1)]
  <1>4. \A k \in 1..n : Stays(p, t, gi, gj, k) \/ Restores(p, t, gi, gj, G, k, head[k])
    <2>1. \A k \in 1..n : Stays(p, t, gi, gj, k) \/ Restores(p, t, gi, gj, G, k, G[gi[k]][gj[k] - 1])
        BY <1>1, <1>2, <1>3, ReattachedLine
    <2> QED
        BY <2>1
  <1>5. \A k \in 1..n : /\ gj[k] = 1 => a[k] = gi[k] /\ b[k] = 0
                        /\ gj[k] # 1 => a[k] = head[k] /\ b[k] = NextNonBlank(p, head[k] + 1)
      OBVIOUS
  <1>5a. /\ DOMAIN a = 1..n /\ a = [k \in 1..n |-> a[k]]
         /\ DOMAIN b = 1..n /\ b = [k \in 1..n |-> b[k]]
      OBVIOUS
  <1>6. /\ \A k \in 1..n : gi[k] \in 1..Len(p) /\ gi[k] # 0
        /\ \A k, l \in 1..n : gi[k] = gi[l] /\ gj[k] = gj[l] => k = l
        /\ \A i \in 1..Len(p) : \A j \in 1..Len(s[i]) : \E k \in 1..n : gi[k] = i /\ gj[k] = j
    <2> HIDE DEF head, a, b, n
    <2>1. \A k \in 1..n : gi[k] \in 1..Len(p)
        BY <1>1, <1>3 DEF Where, n
    <2>2. \A k, l \in 1..n : gi[k] = gi[l] /\ gj[k] = gj[l] => k = l
        BY <1>3 DEF Where, n
    <2>3. \A i \in 1..Len(p) : \A j \in 1..Len(s[i]) : \E k \in 1..n : gi[k] = i /\ gj[k] = j
        BY <1>1, <1>3 DEF Where, n
    <2>4. \A k \in 1..n : gi[k] # 0
        BY <2>1
    <2> QED
        BY <2>1, <2>2, <2>3, <2>4
  <1>6a. Len(p) \in Nat
      OBVIOUS
  <1> HIDE DEF n, head, a, b
  \* a line that stays, and a restored one
  <1> DEFINE One(k) == gj[k] = 1 /\ a[k] = gi[k] /\ b[k] = 0 /\ gi[k] \notin TakenOut(p) /\ t[k] = p[gi[k]]
             Two(k) == /\ gj[k] # 1 /\ a[k] = head[k] /\ b[k] = NextNonBlank(p, head[k] + 1)
                       /\ head[k] \in EscapedHeadings(p) /\ t[k] = FoldedRow(p, head[k])
                       /\ ParentBlockAbove(p, head[k])[2] = gi[k]
                       /\ gj[k] - 1 \in 1..Len(Folded(p, gi[k])) /\ G[gi[k]][gj[k] - 1] = head[k]
  <1>7. \A k \in 1..n : One(k) \/ Two(k)
      BY <1>4, <1>5 DEF Stays, Restores
  <1>8. ASSUME NEW k \in 1..n
        PROVE  /\ a[k] \in 1..Len(p) /\ a[k] # 0 /\ b[k] \in 0..Len(p)
               /\ t[k].from = FromOf(p, a[k]) \o FromOf(p, b[k])
               /\ IsBlank(t[k]) => b[k] = 0 /\ IsBlank(p[a[k]])
    <2>1. CASE One(k)
      <3>1. FromOf(p, b[k]) = <<>> /\ FromOf(p, a[k]) = p[gi[k]].from /\ a[k] \in 0..Len(p)
          BY <1>6, <1>6a, <2>1 DEF FromOf
      <3>2. FromOf(p, a[k]) \in Seq(Nat)
          BY <3>1, FromTyped
      <3>3. FromOf(p, a[k]) \o <<>> = FromOf(p, a[k])
          BY <3>2, ConcatEmptySeq
      <3>4. 0 \in 0..Len(p)
          BY <1>6a
      <3> QED
          BY <1>6, <2>1, <3>1, <3>3, <3>4
    <2>2. CASE Two(k)
      <3> DEFINE h == head[k]
      <3>1. h \in EscapedHeadings(p) /\ a[k] = h /\ b[k] = NextNonBlank(p, h + 1) /\ t[k] = FoldedRow(p, h)
          BY <2>2
      <3> HIDE DEF h
      <3>2. /\ h \in 1..Len(p) /\ h # 0 /\ NextNonBlank(p, h + 1) \in 1..Len(p) /\ ~IsBlank(FoldedRow(p, h))
            /\ FoldedRow(p, h).from = FromOf(p, h) \o FromOf(p, NextNonBlank(p, h + 1))
          BY <3>1, HeadingIs
      <3>3. NextNonBlank(p, h + 1) \in 0..Len(p)
          BY <1>6a, <3>2
      <3> QED
          BY <3>1, <3>2, <3>3
    <2> QED
        BY <1>7, <2>1, <2>2
  <1>9. ASSUME NEW k \in 1..n, NEW l \in 1..n, Two(k), Two(l), head[k] = head[l] PROVE k = l
    <2>1. gi[k] = gi[l]
        BY <1>9
    <2> DEFINE i == gi[k]
               x == gj[k] - 1
               y == gj[l] - 1
    <2>2. i \in 1..Len(p) /\ x \in 1..Len(Folded(p, i)) /\ y \in 1..Len(Folded(p, i)) /\ G[i][x] = G[i][y]
        BY <1>6, <1>9, <2>1
    <2>3. gj[k] \in Nat /\ gj[l] \in Nat
        BY <1>1, <1>3 DEF Where, n
    <2> HIDE DEF x, y
    <2>4. FoldedBy(p, i, G[i])
        BY <1>2, <2>2 DEF Below
    <2>5. x = y
        BY <2>2, <2>4 DEF FoldedBy
    <2>6. gj[k] = gj[l]
        BY <2>3, <2>5 DEF x, y
    <2> QED
        BY <1>6, <2>1, <2>6
  <1>10. ASSUME NEW k \in 1..n, NEW l \in 1..n, a[k] = a[l] PROVE k = l
    <2>1. CASE One(k) /\ One(l)
      <3>1. gi[k] = gi[l] /\ gj[k] = gj[l]
          BY <1>10, <2>1
      <3> QED
          BY <1>6, <3>1
    <2>2. CASE Two(k) /\ Two(l)
        BY <1>9, <1>10, <2>2
    <2>3. CASE One(k) /\ Two(l)
      <3>1. a[l] \in TakenOut(p)
          BY <2>3, HeadingIs
      <3>2. a[k] \notin TakenOut(p)
          BY <2>3
      <3> QED
          BY <1>10, <3>1, <3>2
    <2>4. CASE Two(k) /\ One(l)
      <3>1. a[k] \in TakenOut(p)
          BY <2>4, HeadingIs
      <3>2. a[l] \notin TakenOut(p)
          BY <2>4
      <3> QED
          BY <1>10, <3>1, <3>2
    <2> QED
        BY <1>7, <2>1, <2>2, <2>3, <2>4
  <1>11. ASSUME NEW k \in 1..n, NEW l \in 1..n, b[k] = b[l], b[k] # 0 PROVE k = l
    <2>1. Two(k) /\ Two(l)
        BY <1>7, <1>11
    <2> DEFINE h == head[k]
               g == head[l]
               r == NextNonBlank(p, h + 1)
    <2>2. h \in EscapedHeadings(p) /\ g \in EscapedHeadings(p) /\ NextNonBlank(p, g + 1) = r
        BY <1>11, <2>1
    <2> HIDE DEF h, g
    <2>3. Escaped(p, h, r) /\ Escaped(p, g, r)
        BY <2>2, EscapedIs
    <2>4. h = g
        BY <2>3, HeadingOfRow
    <2> QED
        BY <1>9, <2>1, <2>4 DEF h, g
  <1>12. ASSUME NEW k \in 1..n, NEW l \in 1..n PROVE a[k] # b[l]
    <2>1. SUFFICES ASSUME a[k] = b[l] PROVE FALSE
        OBVIOUS
    <2>2. Two(l)
        BY <1>7, <1>8, <2>1
    <2>3. b[l] \in TakenOut(p) /\ p[b[l]].kind = "row"
        BY <2>2, HeadingIs
    <2>4. CASE One(k)
        BY <2>1, <2>3, <2>4
    <2>5. CASE Two(k)
      <3>1. p[a[k]].kind = "heading"
          BY <2>5, HeadingIs
      <3> QED
          BY <2>1, <2>3, <3>1
    <2> QED
        BY <1>7, <2>4, <2>5
  <1>13. ASSUME NEW h \in EscapedHeadings(p) PROVE \E k \in 1..n : a[k] = h /\ b[k] = NextNonBlank(p, h + 1)
    <2> DEFINE c == ParentBlockAbove(p, h)
               i == c[2]
    <2>1. c \in HeadedBlocks(p)
        BY HeadingIs
    <2> HIDE DEF c
    <2>2. i \in 1..Len(p) /\ i \in c[1]..c[2]
      <3>1. c[1] \in 1..Len(p) /\ c[2] \in 1..Len(p) /\ c[1] <= c[2]
          BY <2>1, SeparatorIs, BlockIs
      <3> QED
          BY <1>6a, <3>1
    <2>3. i \notin TakenOut(p)
        BY <2>1, <2>2, GoneOutside
    <2>4. /\ FoldedBy(p, i, G[i]) /\ Len(s[i]) = Len(Folded(p, i)) + 1
        BY <1>2, <2>2, <2>3 DEF Below
    <2>5. ParentBlockAbove(p, h)[2] = i
        BY DEF c
    <2> HIDE DEF i
    <2>6. PICK l \in 1..Len(Folded(p, i)) : G[i][l] = h
        BY <2>4, <2>5 DEF FoldedBy
    <2>7. Len(Folded(p, i)) \in Nat
        BY FoldJoins
    <2>8. l + 1 \in 1..Len(s[i]) /\ l + 1 # 1 /\ l + 1 - 1 = l
        BY <2>4, <2>6, <2>7
    <2>9. PICK k \in 1..n : gi[k] = i /\ gj[k] = l + 1
        BY <1>6, <2>2, <2>8
    <2>10. head[k] = h
      <3>1. head[k] = G[gi[k]][gj[k] - 1]
          BY DEF head
      <3> QED
          BY <2>6, <2>8, <2>9, <3>1
    <2>11. gj[k] # 1
        BY <2>8, <2>9
    <2> QED
        BY <1>5, <2>10, <2>11
  <1>14. ASSUME NEW i \in 1..Len(p) PROVE \E k \in 1..n : a[k] = i \/ b[k] = i
    <2>1. CASE i \in TakenOut(p)
      <3>1. PICK h \in EscapedHeadings(p) : i = h \/ i = NextNonBlank(p, h + 1)
          BY <2>1 DEF TakenOut
      <3> QED
          BY <1>13, <3>1
    <2>2. CASE i \notin TakenOut(p)
      <3>1. Len(s[i]) = Len(Folded(p, i)) + 1
          BY <1>2, <2>2 DEF Below
      <3>2. Len(Folded(p, i)) \in Nat
          BY FoldJoins
      <3>3. 1 \in 1..Len(s[i])
          BY <3>1, <3>2
      <3>4. PICK k \in 1..n : gi[k] = i /\ gj[k] = 1
          BY <1>6, <3>3
      <3> QED
          BY <1>5, <3>4
    <2> QED
        BY <2>1, <2>2
  <1>15. a \in [1..n -> 0..Len(p)] /\ b \in [1..n -> 0..Len(p)]
    <2>1. \A k \in 1..n : a[k] \in 0..Len(p) /\ b[k] \in 0..Len(p)
      <3> TAKE k \in 1..n
      <3>1. a[k] \in 1..Len(p) /\ b[k] \in 0..Len(p)
          BY <1>8
      <3> QED
          BY <1>6a, <3>1
    <2> QED
        BY <1>5a, <2>1
  <1>16. Carries(p, t, a, b)
    <2>1. \A k \in 1..n : t[k].from = FromOf(p, a[k]) \o FromOf(p, b[k])
        BY <1>8
    <2>2. \A k, l \in 1..n : /\ a[k] = a[l] /\ a[k] # 0 => k = l
                             /\ b[k] = b[l] /\ b[k] # 0 => k = l
                             /\ a[k] = b[l] => a[k] = 0
        BY <1>10, <1>11, <1>12
    <2>3. \A k \in 1..n : IsBlank(t[k]) => b[k] = 0 /\ (a[k] = 0 \/ IsBlank(p[a[k]]))
        BY <1>8
    <2> QED
        BY <1>14, <1>15, <2>1, <2>2, <2>3 DEF Carries, n
  <1>17. TextKept(t, K)
      BY <1>1, <1>16, CarriedKept
  <1> QED
      BY <1>1, <1>17

\* What is kept is held at one place.
LEMMA HeldOnce ==
    ASSUME NEW p \in Seq(Line), NEW K, TextKept(p, K), NEW n \in K
    PROVE  Cardinality({j \in DOMAIN Held(p) : Held(p)[j] = n}) = 1
  <1> DEFINE s == [i \in DOMAIN p |-> p[i].from]
             t == Held(p)
  <1>1. Len(p) \in Nat /\ DOMAIN p = 1..Len(p)
      OBVIOUS
  <1>2. \A i \in 1..Len(p) : s[i] = p[i].from
      BY <1>1
  <1>3. s \in [1..Len(p) -> Seq(Nat)]
      BY <1>1, PageTyped
  <1>4. s \in Seq(Seq(Nat)) /\ Len(s) = Len(p)
      BY <1>1, <1>3, IsASeq, LenProperties
  <1>5. t = FlattenSeq(s)
      BY DEF Held
  <1> HIDE DEF s, t
  <1>6. t \in Seq(Nat) /\ \E gi, gj : Where(s, t, gi, gj)
      BY <1>4, <1>5, JoinedWhere
  <1>7. PICK gi, gj : Where(s, t, gi, gj)
      BY <1>6
  <1>8. DOMAIN t = 1..Len(t)
      BY <1>6
  <1>9. ASSUME NEW k \in 1..Len(t)
        PROVE  gi[k] \in 1..Len(p) /\ gj[k] \in 1..Len(p[gi[k]].from) /\ t[k] = p[gi[k]].from[gj[k]]
    <2>1. gi[k] \in 1..Len(p) /\ gj[k] \in 1..Len(s[gi[k]]) /\ t[k] = s[gi[k]][gj[k]]
        BY <1>4, <1>7 DEF Where
    <2> QED
        BY <1>2, <2>1
  <1>10. PICK i \in 1..Len(p) : \E j \in 1..Len(p[i].from) : p[i].from[j] = n
      BY DEF TextKept
  <1>11. PICK j \in 1..Len(p[i].from) : p[i].from[j] = n
      BY <1>10
  <1>12. i \in 1..Len(s) /\ j \in 1..Len(s[i])
      BY <1>2, <1>4, <1>10, <1>11
  <1>13. PICK k \in 1..Len(t) : gi[k] = i /\ gj[k] = j
      BY <1>7, <1>12 DEF Where
  <1>14. t[k] = n
      BY <1>9, <1>11, <1>13
  <1>15. ASSUME NEW l \in 1..Len(t), t[l] = n PROVE l = k
    <2>1. gi[l] \in 1..Len(p) /\ gj[l] \in 1..Len(p[gi[l]].from) /\ p[gi[l]].from[gj[l]] = p[i].from[j]
          /\ p[gi[l]].from[gj[l]] \in K
        BY <1>9, <1>11, <1>15
    <2> DEFINE x == gi[l]
               y == gj[l]
    <2>1a. x \in 1..Len(p) /\ y \in 1..Len(p[x].from) /\ p[x].from[y] \in K /\ p[x].from[y] = p[i].from[j]
        BY <2>1
    <2>1b. \A h, k2 \in 1..Len(p) : \A g \in 1..Len(p[h].from), l2 \in 1..Len(p[k2].from) :
              p[h].from[g] \in K /\ p[h].from[g] = p[k2].from[l2] => h = k2 /\ g = l2
        BY DEF TextKept
    <2> HIDE DEF x, y
    <2>1c. x = i /\ y = j
        BY <1>10, <1>11, <2>1a, <2>1b
    <2>2. gi[l] = i /\ gj[l] = j
        BY <2>1c DEF x, y
    <2> QED
        BY <1>7, <1>13, <2>2 DEF Where
  <1>16. {l \in DOMAIN t : t[l] = n} = {k}
      BY <1>8, <1>13, <1>14, <1>15
  <1>17. Cardinality({k}) = 1
      BY FS_Singleton
  <1> QED
      BY <1>16, <1>17 DEF t

\* The lines of the draft that hold text are on every page.
Counted == {n \in DOMAIN Draft : ~IsBlank(Draft[n])}
PageKeepsText == pass # "write" => TextKept(md, Counted)

LEMMA DraftKept ==
    ASSUME wrote \in Seq(Forms)
    PROVE  TextKept(Draft, Counted)
  <1>1. Draft \in Seq(Line) /\ \A i \in 1..Len(Draft) : Draft[i].from = <<i>>
      BY DraftIs
  <1>2. DOMAIN Draft = 1..Len(Draft)
      BY <1>1
  <1> DEFINE d == Draft
  <1>3. \A i \in 1..Len(d) : Len(d[i].from) = 1 /\ d[i].from[1] = i
      BY <1>1, SingleLine
  <1>4. \A n \in Counted : n \in 1..Len(d) /\ ~IsBlank(d[n])
      BY <1>2 DEF Counted
  <1> HIDE DEF d
  <1>5. ASSUME NEW n \in Counted PROVE \E i \in 1..Len(d) : \E j \in 1..Len(d[i].from) : d[i].from[j] = n
    <2>1. n \in 1..Len(d) /\ Len(d[n].from) = 1 /\ d[n].from[1] = n
        BY <1>3, <1>4
    <2>2. 1 \in 1..Len(d[n].from)
        BY <2>1
    <2> QED
        BY <2>1, <2>2
  <1>6. ASSUME NEW i \in 1..Len(d), NEW j \in 1..Len(d[i].from) PROVE j = 1 /\ d[i].from[j] = i
    <2>1. Len(d[i].from) = 1
        BY <1>3
    <2>2. j = 1
        BY <2>1
    <2> QED
        BY <1>3, <2>2
  <1>7. ASSUME NEW i \in 1..Len(d), IsBlank(d[i]) PROVE \A j \in 1..Len(d[i].from) : d[i].from[j] \notin Counted
      BY <1>4, <1>6, <1>7
  <1>8. \A i, k \in 1..Len(d) : \A j \in 1..Len(d[i].from), l \in 1..Len(d[k].from) :
            d[i].from[j] \in Counted /\ d[i].from[j] = d[k].from[l] => i = k /\ j = l
      BY <1>6
  <1>9. TextKept(d, Counted)
      BY <1>5, <1>7, <1>8 DEF TextKept
  <1> QED
      BY <1>9 DEF d

LEMMA LinesKeptStep ==
    ASSUME TableTyped, PageKeepsText, [TableNext]_tableVars
    PROVE  PageKeepsText'
  <1> USE DEF PageKeepsText
  <1>0. ASSUME wrote' = wrote PROVE Counted' = Counted
    <2>1. Draft' = Draft
        BY <1>0 DEF Draft
    <2> QED
        BY <2>1 DEF Counted
  <1>1. CASE UNCHANGED tableVars
    <2>1. Counted' = Counted /\ md' = md /\ pass' = pass
        BY <1>0, <1>1 DEF tableVars
    <2> QED
        BY <2>1
  <1>2. ASSUME NEW form \in Forms, WriteLine(form) PROVE PageKeepsText'
      BY <1>2 DEF WriteLine
  <1>3. CASE Assemble
    <2>1. Counted' = Counted /\ md' = Draft
        BY <1>0, <1>3 DEF Assemble
    <2>2. TextKept(Draft, Counted)
        BY DraftKept DEF TableTyped
    <2> QED
        BY <2>1, <2>2
  <1>4. ASSUME NEW q, pass # "write", wrote' = wrote, md' = q,
               TextKept(md, Counted) => TextKept(q, Counted) PROVE PageKeepsText'
    <2>1. Counted' = Counted
        BY <1>0, <1>4
    <2> QED
        BY <1>4, <2>1
  <1>5. CASE Neutralize
    <2>1. pass # "write" /\ wrote' = wrote /\ md' = NeutralizeChartLikeTables(md)
        BY <1>5 DEF Neutralize, Goes
    <2>2. TextKept(md, Counted) => TextKept(NeutralizeChartLikeTables(md), Counted)
        BY NeutralKept DEF TableTyped
    <2> QED
        BY <1>4, <2>1, <2>2
  <1>6. CASE Normalize
    <2>1. pass # "write" /\ wrote' = wrote /\ md' = NormalizeMalformedPipeRows(md)
        BY <1>6 DEF Normalize, Goes
    <2>2. TextKept(md, Counted) => TextKept(NormalizeMalformedPipeRows(md), Counted)
        BY NormalizeKept DEF TableTyped
    <2> QED
        BY <1>4, <2>1, <2>2
  <1>7. CASE Merge
    <2>1. pass # "write" /\ wrote' = wrote /\ md' = MergeHeaderlessContinuationBlocks(md)
        BY <1>7 DEF Merge, Goes
    <2>2. TextKept(md, Counted) => TextKept(MergeHeaderlessContinuationBlocks(md), Counted)
        BY MergeKept DEF TableTyped
    <2> QED
        BY <1>4, <2>1, <2>2
  <1>8. CASE Reattach
    <2>1. pass # "write" /\ wrote' = wrote /\ md' = ReattachHeadingSplitTableRows(md)
        BY <1>8 DEF Reattach, Goes
    <2>2. TextKept(md, Counted) => TextKept(ReattachHeadingSplitTableRows(md), Counted)
        BY ReattachKept DEF TableTyped
    <2> QED
        BY <1>4, <2>1, <2>2
  <1>9. CASE Restore
    <2>1. pass # "write" /\ wrote' = wrote /\ md' = RestoreMissingTableHeaderCells(md)
        BY <1>9 DEF Restore, Goes
    <2>2. TextKept(md, Counted) => TextKept(RestoreMissingTableHeaderCells(md), Counted)
        BY RestoreKept DEF TableTyped
    <2> QED
        BY <1>4, <2>1, <2>2
  <1>10. CASE RestorePanics \/ Assess
    <2>1. pass # "write" /\ wrote' = wrote /\ md' = md
        BY <1>10 DEF RestorePanics, Assess
    <2> QED
        BY <1>4, <2>1
  <1> QED
      BY <1>1, <1>2, <1>3, <1>5, <1>6, <1>7, <1>8, <1>9, <1>10 DEF TableNext

(* Whatever the passes move, fold, quote or drop, each line the model wrote *)
(* that is not blank is in the page once, however long its reply.           *)
THEOREM NothingLostTheorem == TableSpec => []NothingLost
  <1>1. TableInit => PageKeepsText
      BY DEF TableInit, PageKeepsText
  <1>2. TableTyped /\ PageKeepsText /\ [TableNext]_tableVars => PageKeepsText'
      BY LinesKeptStep
  <1>3. TableTyped /\ PageKeepsText => NothingLost
    <2>1. ASSUME TableTyped, PageKeepsText, pass # "write", NEW i \in DOMAIN Draft, ~IsBlank(Draft[i])
          PROVE  Cardinality({j \in DOMAIN Held(md) : Held(md)[j] = i}) = 1
      <3>1. i \in Counted
          BY <2>1 DEF Counted
      <3> QED
          BY <2>1, <3>1, HeldOnce DEF TableTyped, PageKeepsText
    <2> QED
        BY <2>1 DEF NothingLost
  <1> QED
      BY <1>1, <1>2, <1>3, TableTypedTheorem, PTL DEF TableSpec

-----------------------------------------------------------------------------
(* The damage undone: what each pass makes of a repairable reply.           *)

\* What the pieces are joined to, told by where they lie.
LEMMA FlattenIs ==
    ASSUME NEW X, NEW s \in Seq(Seq(X)), NEW t \in Seq(X), NEW off, Joins(s, t, off)
    PROVE  FlattenSeq(s) = t
  <1>1. FlattenSeq(s) \in Seq(X)
      BY FlattenJoins
  <1>2. PICK new : Joins(s, FlattenSeq(s), new)
      BY FlattenJoins
  <1> QED
      BY <1>1, <1>2, JoinsSame

LEMMA FlattenSingles ==
    ASSUME NEW X, NEW p \in Seq(X), NEW s \in Seq(Seq(X)), Len(s) = Len(p),
           \A i \in 1..Len(p) : s[i] = <<p[i]>>
    PROVE  FlattenSeq(s) = p
  <1> DEFINE n == Len(p)
             off == [i \in 1..(n + 1) |-> i - 1]
  <1>1. n \in Nat
      OBVIOUS
  <1>2. \A i \in 1..n : Len(s[i]) = 1 /\ s[i][1] = p[i]
      BY SingleLine
  <1>3. \A i \in 1..(n + 1) : off[i] = i - 1
      OBVIOUS
  <1>4. off \in [1..(n + 1) -> Nat]
      BY <1>1
  <1> HIDE DEF off
  <1>5. ASSUME NEW i \in 1..n PROVE off[i] = i - 1 /\ off[i + 1] = i
    <2>1. i \in 1..(n + 1) /\ i + 1 \in 1..(n + 1) /\ i + 1 - 1 = i
        BY <1>1
    <2>2. off[i] = i - 1
        BY <1>3, <2>1
    <2>3. off[i + 1] = i + 1 - 1
        BY <1>3, <2>1
    <2> QED
        BY <2>1, <2>2, <2>3
  <1>6. off[1] = 0 /\ off[n + 1] = n
    <2>1. 1 \in 1..(n + 1) /\ n + 1 \in 1..(n + 1) /\ n + 1 - 1 = n
        BY <1>1
    <2> QED
        BY <1>3, <2>1
  <1>7. ASSUME NEW i \in 1..n PROVE off[i + 1] = off[i] + Len(s[i])
    <2>1. off[i] = i - 1 /\ off[i + 1] = i /\ Len(s[i]) = 1 /\ i - 1 + 1 = i
        BY <1>1, <1>2, <1>5
    <2> QED
        BY <2>1
  <1>8. \A i \in 1..n : \A j \in 1..Len(s[i]) : p[off[i] + j] = s[i][j]
      BY <1>1, <1>2, <1>5
  <1>9. Joins(s, p, off)
      BY <1>4, <1>6, <1>7, <1>8 DEF Joins, Joined
  <1> QED
      BY <1>9, FlattenIs

\* A page whose second line is its only separator.
SecondDivides(p) ==
  /\ Len(p) >= 2 /\ IsRow(p[1])
  /\ \A i \in 1..Len(p) : IsSeparator(p[i]) <=> i = 2

LEMMA HeadedTop ==
    ASSUME NEW p \in Seq(Line), SecondDivides(p), NEW b \in HeadedBlocks(p)
    PROVE  /\ b \in Blocks(p) /\ b[1] = 1 /\ 2 <= b[2] /\ FindSeparator(p, b) = 2
           /\ HeaderLine(p, b) = 1
  <1>1. b \in Blocks(p)
      BY SeparatorIs
  <1>2. PICK s \in b[1]..b[2] : /\ IsSeparator(p[s]) /\ FindSeparator(p, b) = s
                                /\ HeaderLine(p, b) = IF s = b[1] THEN b[1] ELSE s - 1
      BY SeparatorIs
  <1>3. b[1] \in 1..Len(p) /\ b[2] \in 1..Len(p) /\ (b[1] = 1 \/ ~IsRow(p[b[1] - 1])) /\ Len(p) \in Nat
      BY <1>1, BlockIs
  <1>4. s = 2
    <2>1. s \in 1..Len(p)
        BY <1>2, <1>3
    <2> QED
        BY <1>2, <2>1 DEF SecondDivides
  <1>5. b[1] = 1
    <2>1. b[1] = 1 \/ b[1] = 2
        BY <1>2, <1>3, <1>4
    <2>2. b[1] = 2 => b[1] - 1 = 1
        OBVIOUS
    <2> QED
        BY <1>3, <2>1, <2>2 DEF SecondDivides
  <1>6. 2 <= b[2]
      BY <1>2, <1>3, <1>4
  <1> QED
      BY <1>1, <1>2, <1>4, <1>5, <1>6

\* The table of lines 1 to n.
OneTable(p, n) ==
  /\ SecondDivides(p)
  /\ n \in 2..Len(p)
  /\ \A i \in 1..n : IsRow(p[i])
  /\ n = Len(p) \/ ~IsRow(p[n + 1])

LEMMA TableIs ==
    ASSUME NEW p \in Seq(Line), NEW n \in Nat, OneTable(p, n)
    PROVE  /\ HeadedBlocks(p) = {<<1, n>>}
           /\ FindSeparator(p, <<1, n>>) = 2
           /\ HeaderCells(p, <<1, n>>) = CountCells(p[1])
           /\ DataLines(p, <<1, n>>) = 3..n
  <1> DEFINE b == <<1, n>>
  <1>1. b[1] = 1 /\ b[2] = n /\ b = <<b[1], b[2]>> /\ Len(p) \in Nat
      OBVIOUS
  <1>2. SecondDivides(p) /\ n \in 2..Len(p) /\ (\A i \in 1..n : IsRow(p[i])) /\ (n = Len(p) \/ ~IsRow(p[n + 1]))
      BY DEF OneTable
  <1> HIDE DEF b
  <1>3. b \in Blocks(p)
    <2>1. 1 \in 1..Len(p) /\ n \in 1..Len(p) /\ 1 <= n
        BY <1>1, <1>2
    <2> QED
        BY <1>1, <1>2, <2>1, BlockIs
  <1>4. b \in HeadedBlocks(p)
    <2>1. 2 \in b[1]..b[2] /\ 2 \in 1..Len(p)
        BY <1>1, <1>2
    <2>2. IsSeparator(p[2])
        BY <1>2, <2>1 DEF SecondDivides
    <2>3. \A i \in b[1]..(2 - 1) : ~IsSeparator(p[i])
      <3>1. ASSUME NEW i \in b[1]..(2 - 1) PROVE i \in 1..Len(p) /\ i # 2
          BY <1>1, <1>2
      <3> QED
          BY <1>2, <3>1 DEF SecondDivides
    <2> QED
        BY <1>3, <2>1, <2>2, <2>3, FirstSeparator
  <1>5. ASSUME NEW c \in HeadedBlocks(p) PROVE c = b
    <2>1. c \in Blocks(p) /\ c[1] = 1 /\ 2 <= c[2]
        BY <1>2, HeadedTop
    <2>2. c[2] \in 1..Len(p)
        BY <2>1, BlockIs
    <2>3. 1 \in (b[1]..b[2]) \cap (c[1]..c[2])
        BY <1>1, <1>2, <2>1, <2>2
    <2> QED
        BY <1>3, <2>1, <2>3, BlocksApart
  <1>6. HeadedBlocks(p) = {b}
      BY <1>4, <1>5
  <1>7. FindSeparator(p, b) = 2 /\ HeaderLine(p, b) = 1
      BY <1>2, <1>4, HeadedTop
  <1>8. HeaderCells(p, b) = CountCells(p[1])
      BY <1>7 DEF HeaderCells
  <1>9. DataLines(p, b) = (1..n) \ {2, 1}
      BY <1>1, <1>7 DEF DataLines
  <1>10. DataLines(p, b) = 3..n
      BY <1>9
  <1> QED
      BY <1>6, <1>7, <1>8, <1>10 DEF b

LEMMA NoCharts ==
    ASSUME NEW p \in Seq(Line), SecondDivides(p), CountCells(p[1]) < ChartTableMaxHeaderCells
    PROVE  NeutralizeChartLikeTables(p) = p
  <1>1. ASSUME NEW b \in Charts(p) PROVE FALSE
    <2>1. b \in HeadedBlocks(p) /\ HeaderCells(p, b) >= ChartTableMaxHeaderCells
        BY DEF Charts
    <2>2. HeaderCells(p, b) = CountCells(p[1])
        BY <2>1, HeadedTop DEF HeaderCells
    <2>3. CountCells(p[1]) \in Nat
      <3>1. 1 \in 1..Len(p)
          BY DEF SecondDivides
      <3> QED
          BY <3>1, PageTyped
    <2> QED
        BY <2>1, <2>2, <2>3, TableAssumption
  <1>2. Charts(p) = {}
      BY <1>1
  <1>3. LinesOf(Charts(p)) = {}
      BY <1>2 DEF LinesOf
  <1>4. ASSUME NEW i \in 1..Len(p) PROVE NeutralPieces(p)[i] = <<p[i]>>
    <2>1. ChartLine(p, i) = p[i]
        BY <1>3 DEF ChartLine
    <2> QED
        BY <1>2, <2>1, NeutralJoins
  <1> DEFINE s == NeutralPieces(p)
  <1>5. s \in Seq(Seq(Line)) /\ Len(s) = Len(p) /\ NeutralizeChartLikeTables(p) = FlattenSeq(s)
      BY NeutralJoins
  <1>6. \A i \in 1..Len(p) : s[i] = <<p[i]>>
      BY <1>4
  <1> HIDE DEF s
  <1> QED
      BY <1>5, <1>6, FlattenSingles

-----------------------------------------------------------------------------

ThreeWords == <<"w", "w", "w">>
ThreeDashes == <<"-", "-", "-">>
HeadRow == <<"w", "v", "v">>
LEMMA CellsAre ==
    ASSUME NEW l
    PROVE  /\ l.cells = HeadRow => CountCells(l) = 3 /\ l.cells[3] = "v" /\ l.cells[1] = "w" /\ ~IsSeparator(l)
           /\ l.cells = <<"v", "v">> => /\ CountCells(l) = 2 /\ ~IsSeparator(l)
                                        /\ \A i \in DOMAIN l.cells : l.cells[i] = "v"
           /\ l.cells = ThreeWords => CountCells(l) = 3 /\ ~IsSeparator(l)
           /\ l.cells = <<"w", "w">> => CountCells(l) = 2 /\ ~IsSeparator(l)
           /\ l.cells = <<"e", "w", "w">> => CountCells(l) = 3 /\ ~IsSeparator(l)
           /\ l.cells = ThreeDashes /\ IsRow(l) => CountCells(l) = 3 /\ IsSeparator(l)
           /\ l.cells = <<"-", "-">> /\ IsRow(l) => CountCells(l) = 2 /\ IsSeparator(l)
           /\ l.cells = <<"e", "-", "-">> /\ IsRow(l) => CountCells(l) = 3 /\ IsSeparator(l)
  <1> USE DEF CountCells, IsSeparator
  <1>1. l.cells = HeadRow => CountCells(l) = 3 /\ l.cells[3] = "v" /\ l.cells[1] = "w" /\ ~IsSeparator(l)
      BY DEF HeadRow
  <1>2. l.cells = <<"v", "v">> => /\ CountCells(l) = 2 /\ ~IsSeparator(l)
                                  /\ \A i \in DOMAIN l.cells : l.cells[i] = "v"
      OBVIOUS
  <1>3. l.cells = ThreeWords => CountCells(l) = 3 /\ ~IsSeparator(l)
      BY DEF ThreeWords
  <1>4. l.cells = <<"w", "w">> => CountCells(l) = 2 /\ ~IsSeparator(l)
      OBVIOUS
  <1>5. l.cells = <<"e", "w", "w">> => CountCells(l) = 3 /\ ~IsSeparator(l)
      OBVIOUS
  <1>6. l.cells = ThreeDashes /\ IsRow(l) => CountCells(l) = 3 /\ IsSeparator(l)
      BY DEF ThreeDashes
  <1>7. l.cells = <<"-", "-">> /\ IsRow(l) => CountCells(l) = 2 /\ IsSeparator(l)
      OBVIOUS
  <1>8. l.cells = <<"e", "-", "-">> /\ IsRow(l) => CountCells(l) = 3 /\ IsSeparator(l)
      OBVIOUS
  <1> QED
      BY <1>1, <1>2, <1>3, <1>4, <1>5, <1>6, <1>7, <1>8

\* The header as the model wrote it, whole or a cell short.
FullHeader(p) == p[1].cells = ThreeWords /\ p[2].cells = ThreeDashes
ShortHeader(p) == p[1].cells = <<"w", "w">> /\ p[2].cells = <<"-", "-">>
Header(p) == IsRow(p[1]) /\ IsRow(p[2]) /\ (FullHeader(p) \/ ShortHeader(p))
TableRow(l) == IsRow(l) /\ l.cells = HeadRow
Beside(l) == l.kind \in {"text", "blank"}
Rising(p, a, z) == \A i, j \in a..z : i < j => p[i].from[1] < p[j].from[1]

LEMMA HeaderIs ==
    ASSUME NEW p, Header(p)
    PROVE  /\ ~IsSeparator(p[1]) /\ IsSeparator(p[2])
           /\ FullHeader(p) => CountCells(p[1]) = 3
           /\ ShortHeader(p) => CountCells(p[1]) = 2
  BY CellsAre DEF Header, FullHeader, ShortHeader

\* One table and nothing but notes below it.
Whole(p, n) ==
  /\ p \in Seq(Line) /\ n \in Nat /\ 3 <= n /\ n <= Len(p)
  /\ Header(p)
  /\ \A i \in 3..n : TableRow(p[i])
  /\ \A i \in (n + 1)..Len(p) : Beside(p[i])
  /\ Rising(p, 3, n)

\* Lines that the first two and the rest tell apart.
LEMMA TopDivides ==
    ASSUME NEW p \in Seq(Line), Len(p) >= 2, IsRow(p[1]), ~IsSeparator(p[1]), IsSeparator(p[2]),
           \A i \in 3..Len(p) : ~IsSeparator(p[i])
    PROVE  SecondDivides(p)
  <1>1. ASSUME NEW i \in 1..Len(p) PROVE i = 1 \/ i = 2 \/ i \in 3..Len(p)
      OBVIOUS
  <1> QED
      BY <1>1 DEF SecondDivides

LEMMA BesideIs ==
    ASSUME NEW l, Beside(l)
    PROVE  ~IsRow(l) /\ ~IsSeparator(l) /\ l.kind \notin {"loose", "quote", "heading"}
  BY DEF Beside, IsRow, IsSeparator

LEMMA WholeIs ==
    ASSUME NEW p, NEW n, Whole(p, n)
    PROVE  OneTable(p, n)
  <1>1. /\ p \in Seq(Line) /\ n \in Nat /\ 3 <= n /\ n <= Len(p) /\ Header(p)
        /\ \A i \in 3..n : TableRow(p[i])
        /\ \A i \in (n + 1)..Len(p) : Beside(p[i])
      BY DEF Whole
  <1>2. Len(p) \in Nat
      BY <1>1
  <1>3. IsRow(p[1]) /\ IsRow(p[2]) /\ ~IsSeparator(p[1]) /\ IsSeparator(p[2])
      BY <1>1, HeaderIs DEF Header
  <1>4. ASSUME NEW i \in 3..Len(p) PROVE ~IsSeparator(p[i])
    <2>1. CASE i \in 3..n
        BY <1>1, <2>1, CellsAre DEF TableRow
    <2>2. CASE i \in (n + 1)..Len(p)
        BY <1>1, <2>2, BesideIs
    <2> QED
        BY <1>1, <1>2, <2>1, <2>2
  <1>5. SecondDivides(p)
      BY <1>1, <1>2, <1>3, <1>4, TopDivides
  <1>6. ASSUME NEW i \in 1..n PROVE IsRow(p[i])
    <2>1. CASE i \in 3..n
        BY <1>1, <2>1 DEF TableRow
    <2> QED
        BY <1>1, <1>3, <2>1
  <1>7. n = Len(p) \/ ~IsRow(p[n + 1])
    <2>1. CASE n < Len(p)
      <3>1. n + 1 \in (n + 1)..Len(p)
          BY <1>1, <1>2, <2>1
      <3> QED
          BY <1>1, <3>1, BesideIs
    <2> QED
        BY <1>1, <1>2, <2>1
  <1> QED
      BY <1>1, <1>2, <1>5, <1>6, <1>7 DEF OneTable

\* What the last pass leaves: the header as wide as the rows.
Repaired(p, n) ==
  /\ p \in Seq(Line) /\ n \in Nat /\ OneTable(p, n) /\ 3 <= n
  /\ CountCells(p[1]) = 3
  /\ \A i \in 3..n : CountCells(p[i]) = 3
  /\ \A i \in 1..Len(p) : p[i].kind \notin {"loose", "quote"}
  /\ \A i \in (n + 1)..Len(p) : ~IsRow(p[i])
  /\ Rising(p, 3, n)

LEMMA PadLinesAre ==
    ASSUME NEW p, NEW n, Whole(p, n)
    PROVE  PadLines(p) = IF ShortHeader(p) THEN {1, 2} ELSE {}
  <1> DEFINE b == <<1, n>>
  <1>1. p \in Seq(Line) /\ n \in Nat /\ 3 <= n /\ Header(p) /\ \A i \in 3..n : TableRow(p[i])
      BY DEF Whole
  <1>2. HeadedBlocks(p) = {b} /\ FindSeparator(p, b) = 2 /\ HeaderCells(p, b) = CountCells(p[1])
        /\ DataLines(p, b) = 3..n
      BY <1>1, WholeIs, TableIs
  <1> HIDE DEF b
  <1>3. CASE ShortHeader(p)
    <2>1. HeaderCells(p, b) = 2
        BY <1>1, <1>2, <1>3, HeaderIs
    <2>2. 3 \in 3..n
        BY <1>1
    <2>3. \A i \in 3..n : /\ CountCells(p[i]) = 3 /\ p[i].cells[3] = "v" /\ p[i].cells[1] = "w"
        BY <1>1, CellsAre DEF TableRow
    <2>4. \A i \in DataLines(p, b) : /\ CountCells(p[i]) = HeaderCells(p, b) + 1
                                     /\ p[i].cells[CountCells(p[i])] = "v"
                                     /\ p[i].cells[1] # "v"
        BY <1>2, <2>1, <2>3
    <2>5a. HeaderCells(p, b) >= 2 /\ DataLines(p, b) # {}
        BY <1>2, <2>1, <2>2
    <2>5b. b \in OneCellShort(p)
        BY <1>2, <2>4, <2>5a DEF OneCellShort
    <2>5c. OneCellShort(p) \subseteq {b}
        BY <1>2 DEF OneCellShort
    <2>5. OneCellShort(p) = {b}
        BY <2>5b, <2>5c
    <2>6. PadLines(p) = {FindSeparator(p, b) - 1, FindSeparator(p, b)}
        BY <2>5 DEF PadLines
    <2> QED
        BY <1>2, <1>3, <2>6
  <1>4. CASE ~ShortHeader(p)
    <2>1. HeaderCells(p, b) = 3
        BY <1>1, <1>2, <1>4, HeaderIs DEF Header
    <2>2. 3 \in DataLines(p, b) /\ CountCells(p[3]) = 3
      <3>1. 3 \in 3..n
          BY <1>1
      <3> QED
          BY <1>1, <1>2, <3>1, CellsAre DEF TableRow
    <2>3a. OneCellShort(p) \subseteq {b}
        BY <1>2 DEF OneCellShort
    <2>3b. b \notin OneCellShort(p)
      <3>1. CountCells(p[3]) # HeaderCells(p, b) + 1
          BY <2>1, <2>2
      <3> QED
          BY <2>2, <3>1 DEF OneCellShort
    <2>3. OneCellShort(p) = {}
        BY <2>3a, <2>3b
    <2> QED
        BY <1>4, <2>3 DEF PadLines
  <1> QED
      BY <1>3, <1>4

LEMMA Prepended ==
    ASSUME NEW l \in Line, IsRow(l)
    PROVE  /\ IsRow(PrependEmptyCell(l)) /\ PrependEmptyCell(l).cells = <<"e">> \o l.cells
           /\ PrependEmptyCell(l).kind = "row"
  BY PaddedIs DEF IsRow

LEMMA OneAndTwo ==
    ASSUME NEW x, NEW y, NEW z
    PROVE  <<x>> \o <<y, z>> = <<x, y, z>>
  <1> DEFINE u == <<x>>
             v == <<y, z>>
             w == <<x, y, z>>
             S == {x, y, z}
  <1>1. u \in Seq(S) /\ Len(u) = 1 /\ u[1] = x
      OBVIOUS
  <1>2. v \in Seq(S) /\ Len(v) = 2 /\ v[1] = y /\ v[2] = z
      OBVIOUS
  <1>3. w \in Seq(S) /\ Len(w) = 3 /\ w[1] = x /\ w[2] = y /\ w[3] = z
      OBVIOUS
  <1> HIDE DEF u, v, w, S
  <1>4. /\ u \o v \in Seq(S) /\ Len(u \o v) = 3
        /\ \A i \in 1..3 : (u \o v)[i] = IF i <= 1 THEN u[i] ELSE v[i - 1]
      BY <1>1, <1>2, ConcatProperties
  <1>5. (u \o v)[1] = x /\ (u \o v)[2] = y /\ (u \o v)[3] = z
      BY <1>1, <1>2, <1>4
  <1>6. \A i \in 1..3 : (u \o v)[i] = w[i]
    <2>1. \A i \in 1..3 : i = 1 \/ i = 2 \/ i = 3
        OBVIOUS
    <2> QED
        BY <1>3, <1>5, <2>1
  <1>7. u \o v = w
      BY <1>3, <1>4, <1>6, SeqEqual
  <1> QED
      BY <1>7 DEF u, v, w
LEMMA PadsTwo ==
  /\ <<"e">> \o <<"w", "w">> = <<"e", "w", "w">>
  /\ <<"e">> \o <<"-", "-">> = <<"e", "-", "-">>
  BY OneAndTwo

LEMMA RestoreWhole ==
    ASSUME NEW p, NEW n, Whole(p, n)
    PROVE  Repaired(RestoreMissingTableHeaderCells(p), n)
  <1> DEFINE q == RestoreMissingTableHeaderCells(p)
  <1>1. /\ p \in Seq(Line) /\ n \in Nat /\ 3 <= n /\ n <= Len(p) /\ Header(p)
        /\ \A i \in 3..n : TableRow(p[i])
        /\ \A i \in (n + 1)..Len(p) : Beside(p[i])
        /\ Rising(p, 3, n)
      BY DEF Whole
  <1>2. /\ q \in Seq(Line) /\ Len(q) = Len(p) /\ Len(p) \in Nat
        /\ \A i \in 1..Len(p) : q[i] = IF i \in PadLines(p) THEN PrependEmptyCell(p[i]) ELSE p[i]
      BY <1>1, RestoreIs
  <1>3. PadLines(p) = IF ShortHeader(p) THEN {1, 2} ELSE {}
      BY PadLinesAre
  <1> HIDE DEF q
  <1>4. ASSUME NEW i \in 3..Len(p) PROVE q[i] = p[i]
    <2>1. i \in 1..Len(p) /\ i \notin PadLines(p)
        BY <1>3
    <2> QED
        BY <1>2, <2>1
  <1>5. /\ IsRow(q[1]) /\ IsRow(q[2]) /\ ~IsSeparator(q[1]) /\ IsSeparator(q[2]) /\ CountCells(q[1]) = 3
    <2>0. 1 \in 1..Len(p) /\ 2 \in 1..Len(p) /\ p[1] \in Line /\ p[2] \in Line
        BY <1>1, <1>2, PageTyped
    <2>1. CASE ShortHeader(p)
      <3>1. q[1] = PrependEmptyCell(p[1]) /\ q[2] = PrependEmptyCell(p[2])
          BY <1>2, <1>3, <2>0, <2>1
      <3>2. IsRow(q[1]) /\ IsRow(q[2]) /\ q[1].cells = <<"e">> \o p[1].cells /\ q[2].cells = <<"e">> \o p[2].cells
          BY <1>1, <2>0, <3>1, Prepended DEF Header
      <3>3. q[1].cells = <<"e", "w", "w">> /\ q[2].cells = <<"e", "-", "-">>
          BY <2>1, <3>2, PadsTwo DEF ShortHeader
      <3> QED
          BY <3>2, <3>3, CellsAre
    <2>2. CASE ~ShortHeader(p)
      <3>1. q[1] = p[1] /\ q[2] = p[2]
          BY <1>2, <1>3, <2>0, <2>2
      <3> QED
          BY <1>1, <2>2, <3>1, HeaderIs DEF Header
    <2> QED
        BY <2>1, <2>2
  <1>6. \A i \in 3..n : i \in 3..Len(p) /\ q[i] = p[i] /\ TableRow(q[i]) /\ ~IsSeparator(q[i]) /\ CountCells(q[i]) = 3
    <2>1. ASSUME NEW i \in 3..n PROVE i \in 3..Len(p) /\ q[i] = p[i] /\ TableRow(q[i])
        BY <1>1, <1>2, <1>4
    <2> QED
        BY <2>1, CellsAre DEF TableRow
  <1>7. \A i \in (n + 1)..Len(p) : i \in 3..Len(p) /\ Beside(q[i]) /\ ~IsRow(q[i]) /\ ~IsSeparator(q[i])
    <2>1. ASSUME NEW i \in (n + 1)..Len(p) PROVE i \in 3..Len(p) /\ Beside(q[i])
        BY <1>1, <1>2, <1>4
    <2> QED
        BY <2>1, BesideIs
  <1>8. \A i \in 3..Len(p) : i \in 3..n \/ i \in (n + 1)..Len(p)
      BY <1>1, <1>2
  <1>9. SecondDivides(q)
    <2>1. \A i \in 3..Len(q) : ~IsSeparator(q[i])
        BY <1>2, <1>6, <1>7, <1>8
    <2>2. Len(q) >= 2
        BY <1>1, <1>2
    <2> QED
        BY <1>2, <1>5, <2>1, <2>2, TopDivides
  <1>10. OneTable(q, n)
    <2>1. ASSUME NEW i \in 1..n PROVE IsRow(q[i])
      <3>1. i = 1 \/ i = 2 \/ i \in 3..n
          BY <1>1
      <3> QED
          BY <1>5, <1>6, <3>1 DEF TableRow
    <2>2. n = Len(q) \/ ~IsRow(q[n + 1])
      <3>1. CASE n < Len(p)
        <4>1. n + 1 \in (n + 1)..Len(p)
            BY <1>1, <1>2, <3>1
        <4> QED
            BY <1>7, <4>1
      <3> QED
          BY <1>1, <1>2, <3>1
    <2>3. n \in 2..Len(q)
        BY <1>1, <1>2
    <2> QED
        BY <1>9, <2>1, <2>2, <2>3 DEF OneTable
  <1>11. ASSUME NEW i \in 1..Len(p) PROVE q[i].kind \notin {"loose", "quote"}
    <2>1. CASE i \in (n + 1)..Len(p)
        BY <1>7, <2>1, BesideIs
    <2>2. CASE i \in 1..n
        BY <1>10, <2>2 DEF OneTable, IsRow
    <2> QED
        BY <1>1, <1>2, <2>1, <2>2
  <1>12. Rising(q, 3, n)
    <2>1. ASSUME NEW i \in 3..n, NEW j \in 3..n, i < j PROVE q[i].from[1] < q[j].from[1]
        BY <1>1, <1>6, <2>1 DEF Rising
    <2> QED
        BY <2>1 DEF Rising
  <1>13. Repaired(q, n)
      BY <1>1, <1>2, <1>5, <1>6, <1>7, <1>10, <1>11, <1>12 DEF Repaired
  <1> QED
      BY <1>13 DEF q

\* The gate finds nothing.
LEMMA RepairedPasses ==
    ASSUME NEW p, NEW n, Repaired(p, n)
    PROVE  /\ AssessExtractionQuality(p) = {} /\ AllRagged(p) = {}
           /\ <<1, n>> \in HeadedBlocks(p) /\ Blocks(p) = {<<1, n>>}
           /\ DataLines(p, <<1, n>>) = 3..n
           /\ HeaderCells(p, <<1, n>>) = 3 /\ RowsInOrder(p, <<1, n>>)
  <1> DEFINE b == <<1, n>>
  <1>1. /\ p \in Seq(Line) /\ n \in Nat /\ OneTable(p, n) /\ 3 <= n
        /\ CountCells(p[1]) = 3
        /\ \A i \in 3..n : CountCells(p[i]) = 3
        /\ \A i \in 1..Len(p) : p[i].kind \notin {"loose", "quote"}
        /\ \A i \in (n + 1)..Len(p) : ~IsRow(p[i])
        /\ Rising(p, 3, n)
      BY DEF Repaired
  <1>2. HeadedBlocks(p) = {b} /\ HeaderCells(p, b) = 3 /\ DataLines(p, b) = 3..n
      BY <1>1, TableIs
  <1>3. b[1] = 1 /\ b[2] = n
      OBVIOUS
  <1> HIDE DEF b
  <1>4. ASSUME NEW c \in Blocks(p) PROVE c = b
    <2>1. c[1] \in 1..Len(p) /\ c[2] \in 1..Len(p) /\ c[1] <= c[2] /\ (\A i \in c[1]..c[2] : IsRow(p[i])) /\ Len(p) \in Nat
        BY <1>1, BlockIs
    <2>2. c[1] \in c[1]..c[2]
        BY <2>1
    <2>3. c[1] \in 1..n
        BY <1>1, <2>1, <2>2
    <2>4. b \in Blocks(p)
        BY <1>1, <1>2, SeparatorIs
    <2>5. c[1] \in (b[1]..b[2]) \cap (c[1]..c[2])
        BY <1>3, <2>2, <2>3
    <2> QED
        BY <1>1, <2>4, <2>5, BlocksApart
  <1>5. b \in HeadedBlocks(p) /\ Blocks(p) = {b}
    <2>1. b \in Blocks(p)
        BY <1>1, <1>2, SeparatorIs
    <2> QED
        BY <1>2, <1>4, <2>1
  <1>6. RaggedLines(p, b) = {}
      BY <1>1, <1>2 DEF RaggedLines
  <1>7. AllRagged(p) = {}
      BY <1>2, <1>6 DEF AllRagged
  <1>8. Headerless(p) = {}
      BY <1>2, <1>5 DEF Headerless
  <1>9. Malformed(p) = {}
    <2>1. DOMAIN p = 1..Len(p)
        BY <1>1
    <2> QED
        BY <1>1, <2>1 DEF Malformed
  <1>10. AllData(p) = 3..n
      BY <1>2 DEF AllData
  <1>11. Cardinality({}) = 0
      BY FS_EmptySet
  <1>12. Cardinality(AllData(p)) \in Nat
    <2>1. IsFiniteSet(3..n)
        BY <1>1, FS_Interval
    <2> QED
        BY <1>10, <2>1, FS_CardinalityType
  <1>13. AssessExtractionQuality(p) = {}
    <2>1. ~(Cardinality(Malformed(p)) >= MdMalformedMinLines)
        BY <1>9, <1>11, TableAssumption
    <2>2. ~(Cardinality(Headerless(p)) >= MdHeaderlessMinBlocks)
        BY <1>8, <1>11, TableAssumption
    <2>3. ~(Cardinality(AllRagged(p)) >= MdRaggedMinRows)
        BY <1>7, <1>11, TableAssumption
    <2>4. ~(Cardinality(AllData(p)) >= MdRaggedMinDataRows /\ 2 * Cardinality(AllRagged(p)) >= Cardinality(AllData(p)))
      <3> DEFINE x == Cardinality(AllData(p))
      <3>1. x \in Nat /\ Cardinality(AllRagged(p)) = 0
          BY <1>7, <1>11, <1>12
      <3> HIDE DEF x
      <3>2. ~(x >= MdRaggedMinDataRows /\ 2 * 0 >= x)
          BY <3>1, TableAssumption
      <3> QED
          BY <3>1, <3>2 DEF x
    <2> QED
        BY <2>1, <2>2, <2>3, <2>4 DEF AssessExtractionQuality
  <1>14. RowsInOrder(p, b)
      BY <1>1, <1>2 DEF RowsInOrder, Rising
  <1> QED
      BY <1>2, <1>5, <1>7, <1>13, <1>14 DEF b

\* The table's lines 1 to T, notes to H (a blank line first, if B is 1), then
\* E rows of which the first cell stands in a heading above.
At(H, e) == H + 2 * e - 1
Shape(p, T, H, E, B) ==
  /\ p \in Seq(Line) /\ T \in Nat /\ H \in Nat /\ E \in Nat /\ B \in {0, 1}
  /\ 3 <= T /\ T + B <= H /\ Len(p) = H + 2 * E
  /\ Header(p)
  /\ \A i \in 3..T : TableRow(p[i])
  /\ \A i \in (T + 1)..H : Beside(p[i])
  /\ B = 1 => IsBlank(p[T + 1])
  /\ \A e \in 1..E : /\ p[At(H, e)].kind = "heading"
                     /\ IsRow(p[At(H, e) + 1]) /\ p[At(H, e) + 1].cells = <<"v", "v">>
  /\ E # 0 => (H - T - B) + 2 * (E - 1) <= HeadingSplitMaxGapLines
  /\ \A i \in 1..Len(p) : Len(p[i].from) = 1
  /\ Rising(p, 1, Len(p))

LEMMA Pairs ==
    ASSUME NEW H \in Nat, NEW E \in Nat, NEW k \in (H + 1)..(H + 2 * E)
    PROVE  \E e \in 1..E : k = At(H, e) \/ k = At(H, e) + 1
  <1> DEFINE e == (k - H + 1) \div 2
  <1>1. k - H \in 1..(2 * E) /\ k \in Int
      OBVIOUS
  <1>2. e \in Int /\ 2 * e <= k - H + 1 /\ k - H + 1 < 2 * e + 2
      BY <1>1
  <1> HIDE DEF e
  <1>3. e \in 1..E
      BY <1>1, <1>2
  <1>4. k = H + 2 * e - 1 \/ k = H + 2 * e
      BY <1>1, <1>2
  <1>5. k = At(H, e) \/ k = At(H, e) + 1
      BY <1>1, <1>2, <1>4 DEF At
  <1> QED
      BY <1>3, <1>5

LEMMA AtIs ==
    ASSUME NEW H \in Nat, NEW E \in Nat, NEW e \in 1..E
    PROVE  /\ At(H, e) \in (H + 1)..(H + 2 * E) /\ At(H, e) + 1 \in (H + 1)..(H + 2 * E)
           /\ At(H, e) - 1 <= H + 2 * (E - 1)
           /\ \A d \in 1..E : d < e => At(H, d) < At(H, e)
           /\ e < E => e + 1 \in 1..E /\ At(H, e + 1) = At(H, e) + 2
           /\ e = E => At(H, e) + 1 = H + 2 * E
  BY DEF At

LEMMA NextIs ==
    ASSUME NEW p \in Seq(Line), NEW i \in 1..Len(p), ~IsBlank(p[i])
    PROVE  NextNonBlank(p, i) = i
  <1> DEFINE n == NextNonBlank(p, i)
  <1>1. i \in Nat \ {0} /\ Len(p) \in Nat /\ i \in i..Len(p)
      OBVIOUS
  <1>2. \/ n = 0 /\ \A j \in i..Len(p) : IsBlank(p[j])
        \/ n \in i..Len(p) /\ ~IsBlank(p[n]) /\ \A j \in i..(n - 1) : IsBlank(p[j])
      BY <1>1, NextNonBlankIs
  <1> HIDE DEF n
  <1>3. n \in i..Len(p) /\ \A j \in i..(n - 1) : IsBlank(p[j])
      BY <1>1, <1>2
  <1>4. n = i
    <2>1. SUFFICES ASSUME n # i PROVE FALSE
        OBVIOUS
    <2>2. i \in i..(n - 1)
        BY <1>1, <1>3, <2>1
    <2> QED
        BY <1>3, <2>2
  <1> QED
      BY <1>4 DEF n

LEMMA ShapeLines ==
    ASSUME NEW p, NEW T, NEW H, NEW E, NEW B, Shape(p, T, H, E, B), NEW k \in 1..Len(p)
    PROVE  \/ k = 1 \/ k = 2 \/ k \in 3..T \/ k \in (T + 1)..H
           \/ \E e \in 1..E : k = At(H, e) \/ k = At(H, e) + 1
  <1>1. Len(p) \in Nat /\ T \in Nat /\ H \in Nat /\ E \in Nat /\ T <= H /\ Len(p) = H + 2 * E
      BY DEF Shape
  <1>2. k \in 1..H \/ k \in (H + 1)..(H + 2 * E)
      BY <1>1
  <1>3. k \in 1..H => k = 1 \/ k = 2 \/ k \in 3..T \/ k \in (T + 1)..H
      BY <1>1
  <1> QED
      BY <1>1, <1>2, <1>3, Pairs

LEMMA ShapeTable ==
    ASSUME NEW p, NEW T, NEW H, NEW E, NEW B, Shape(p, T, H, E, B)
    PROVE  OneTable(p, T)
  <1>1. /\ p \in Seq(Line) /\ T \in Nat /\ H \in Nat /\ E \in Nat /\ B \in {0, 1}
        /\ 3 <= T /\ T + B <= H /\ Len(p) = H + 2 * E /\ Header(p)
        /\ \A i \in 3..T : TableRow(p[i])
        /\ \A i \in (T + 1)..H : Beside(p[i])
        /\ \A e \in 1..E : /\ p[At(H, e)].kind = "heading"
                           /\ IsRow(p[At(H, e) + 1]) /\ p[At(H, e) + 1].cells = <<"v", "v">>
      BY DEF Shape
  <1>2. Len(p) \in Nat /\ T <= H
      BY <1>1
  <1>3. IsRow(p[1]) /\ IsRow(p[2]) /\ ~IsSeparator(p[1]) /\ IsSeparator(p[2])
      BY <1>1, HeaderIs DEF Header
  <1>4. ASSUME NEW i \in 3..Len(p) PROVE ~IsSeparator(p[i])
    <2>1. CASE i \in 3..T
        BY <1>1, <2>1, CellsAre DEF TableRow
    <2>2. CASE i \in (T + 1)..H
        BY <1>1, <2>2, BesideIs
    <2>3. ASSUME NEW e \in 1..E, i = At(H, e) PROVE ~IsSeparator(p[i])
        BY <1>1, <2>3 DEF IsSeparator, IsRow
    <2>4. ASSUME NEW e \in 1..E, i = At(H, e) + 1 PROVE ~IsSeparator(p[i])
        BY <1>1, <2>4, CellsAre
    <2>5. i \in 1..Len(p) /\ i # 1 /\ i # 2
        BY <1>2
    <2> QED
        BY <2>1, <2>2, <2>3, <2>4, <2>5, ShapeLines
  <1>5. SecondDivides(p)
    <2>1. Len(p) >= 2
        BY <1>1, <1>2
    <2> QED
        BY <1>1, <1>3, <1>4, <2>1, TopDivides
  <1>6. ASSUME NEW i \in 1..T PROVE IsRow(p[i])
    <2>1. CASE i \in 3..T
        BY <1>1, <2>1 DEF TableRow
    <2> QED
        BY <1>1, <1>3, <2>1
  <1>7. T = Len(p) \/ ~IsRow(p[T + 1])
    <2>1. CASE T < H
      <3>1. T + 1 \in (T + 1)..H
          BY <1>1, <2>1
      <3> QED
          BY <1>1, <3>1, BesideIs
    <2>2. CASE T = H /\ E # 0
      <3>1. 1 \in 1..E /\ At(H, 1) = T + 1
          BY <1>1, <2>2 DEF At
      <3> QED
          BY <1>1, <3>1 DEF IsRow
    <2>3. CASE T = H /\ E = 0
        BY <1>1, <2>3
    <2> QED
        BY <1>1, <2>1, <2>2, <2>3
  <1>8. T \in 2..Len(p)
      BY <1>1, <1>2
  <1> QED
      BY <1>5, <1>6, <1>7, <1>8 DEF OneTable

LEMMA ShapeFoldWidth ==
    ASSUME NEW p, NEW T, NEW H, NEW E, NEW B, Shape(p, T, H, E, B)
    PROVE  FoldWidth(p, <<1, T>>) = 3
  <1> DEFINE b == <<1, T>>
             widths == {CountCells(p[i]) : i \in DataLines(p, b)}
  <1>1. p \in Seq(Line) /\ T \in Nat /\ 3 <= T /\ Header(p) /\ \A i \in 3..T : TableRow(p[i])
      BY DEF Shape
  <1>2. DataLines(p, b) = 3..T /\ HeaderCells(p, b) \in {2, 3}
    <2>1. DataLines(p, b) = 3..T /\ HeaderCells(p, b) = CountCells(p[1])
        BY <1>1, ShapeTable, TableIs
    <2> QED
        BY <1>1, <2>1, HeaderIs DEF Header
  <1> HIDE DEF b
  <1>3. widths = {3}
    <2>1. \A i \in 3..T : CountCells(p[i]) = 3
        BY <1>1, CellsAre DEF TableRow
    <2>2. 3 \in 3..T
        BY <1>1
    <2> QED
        BY <1>2, <2>1, <2>2
  <1>4. Cardinality(widths) = 1
      BY <1>3, FS_Singleton
  <1>5. Max({3} \cup {HeaderCells(p, b)}) = 3
    <2> DEFINE I == {3} \cup {HeaderCells(p, b)}
    <2>1. I \subseteq Int /\ 3 \in I /\ \A j \in I : j <= 3
        BY <1>2
    <2> HIDE DEF I
    <2>2. Max(I) = 3
        BY <2>1, MaxIs
    <2> QED
        BY <2>2 DEF I
  <1>6. FoldWidth(p, b) = 3
    <2>1. FoldWidth(p, b) = IF Cardinality(widths) = 1 THEN Max(widths \cup {HeaderCells(p, b)}) ELSE HeaderCells(p, b)
        BY DEF FoldWidth
    <2> HIDE DEF widths
    <2> QED
        BY <1>3, <1>4, <1>5, <2>1
  <1> QED
      BY <1>6 DEF b

LEMMA ParentTop ==
    ASSUME NEW p, NEW T, NEW H, NEW E, NEW B, Shape(p, T, H, E, B), NEW e \in 1..E
    PROVE  ParentsAbove(p, At(H, e)) # {} /\ ParentBlockAbove(p, At(H, e)) = <<1, T>>
  <1> DEFINE b == <<1, T>>
             h == At(H, e)
  <1>1. p \in Seq(Line) /\ T \in Nat /\ H \in Nat /\ E \in Nat /\ B \in {0, 1} /\ T + B <= H
      BY DEF Shape
  <1>2. HeadedBlocks(p) = {b}
      BY <1>1, ShapeTable, TableIs
  <1>3. b[2] < h
    <2>1. h \in (H + 1)..(H + 2 * E)
        BY <1>1, AtIs
    <2>2. b[2] = T
        OBVIOUS
    <2> HIDE DEF h, b
    <2> QED
        BY <1>1, <2>1, <2>2
  <1> HIDE DEF h, b
  <1>4. ParentsAbove(p, h) = {b}
      BY <1>2, <1>3 DEF ParentsAbove
  <1>5. ParentBlockAbove(p, h) \in {b}
      BY <1>1, <1>4, ParentIs
  <1> QED
      BY <1>4, <1>5 DEF h, b

LEMMA GapHolds ==
    ASSUME NEW p, NEW T, NEW H, NEW E, NEW B, Shape(p, T, H, E, B), NEW e \in 1..E
    PROVE  Cardinality({i \in (T + 1)..(At(H, e) - 1) : ~IsBlank(p[i])}) <= HeadingSplitMaxGapLines
  <1> DEFINE h == At(H, e)
             S == {i \in (T + 1)..(h - 1) : ~IsBlank(p[i])}
             a == T + B + 1
             z == H + 2 * (E - 1)
  <1>1. /\ p \in Seq(Line) /\ T \in Nat /\ H \in Nat /\ E \in Nat /\ B \in {0, 1} /\ T + B <= H
        /\ B = 1 => IsBlank(p[T + 1])
        /\ E # 0 => (H - T - B) + 2 * (E - 1) <= HeadingSplitMaxGapLines
      BY DEF Shape
  <1>2. h \in Int /\ h - 1 <= z
    <2>1. h \in (H + 1)..(H + 2 * E) /\ h - 1 <= z
        BY <1>1, AtIs
    <2> HIDE DEF h, z
    <2> QED
        BY <2>1
  <1>3. E # 0
      BY <1>1
  <1> HIDE DEF h
  <1>4. ASSUME NEW i \in S PROVE i \in a..z
    <2>1. i \in (T + 1)..(h - 1) /\ ~IsBlank(p[i])
        OBVIOUS
    <2>2. B = 1 => i # T + 1
        BY <1>1, <2>1
    <2> QED
        BY <1>1, <1>2, <2>1, <2>2
  <1>5. a \in Int /\ z \in Int /\ a <= z + 1 /\ z - a + 1 = (H - T - B) + 2 * (E - 1)
      BY <1>1, <1>3
  <1> HIDE DEF S, a, z
  <1>6. IsFiniteSet(a..z) /\ Cardinality(a..z) = z - a + 1
    <2>1. IsFiniteSet(a..z) /\ Cardinality(a..z) = IF a > z THEN 0 ELSE z - a + 1
        BY <1>5, FS_Interval
    <2> QED
        BY <1>5, <2>1
  <1>7. S \subseteq a..z
      BY <1>4
  <1>8. IsFiniteSet(S) /\ Cardinality(S) <= Cardinality(a..z) /\ Cardinality(S) \in Nat
      BY <1>6, <1>7, FS_Subset, FS_CardinalityType
  <1> DEFINE x == Cardinality(S)
             y == (H - T - B) + 2 * (E - 1)
  <1>9. x \in Nat /\ x <= y /\ y <= HeadingSplitMaxGapLines
      BY <1>1, <1>3, <1>5, <1>6, <1>8
  <1> HIDE DEF x, y
  <1>10. y \in Int
      BY <1>1 DEF y
  <1>11. x <= HeadingSplitMaxGapLines
      BY <1>9, <1>10, TableAssumption
  <1> QED
      BY <1>11 DEF x, S, h

\* A row of values under its heading.
LEMMA ValuesBelow ==
    ASSUME NEW p, NEW T, NEW H, NEW E, NEW B, Shape(p, T, H, E, B), NEW e \in 1..E
    PROVE  NextNonBlank(p, At(H, e) + 1) = At(H, e) + 1 /\ Lone(p, At(H, e) + 1)
  <1> DEFINE h == At(H, e)
             r == h + 1
             after == NextNonBlank(p, r + 1)
  <1>1. /\ p \in Seq(Line) /\ H \in Nat /\ E \in Nat /\ Len(p) = H + 2 * E
        /\ \A d \in 1..E : /\ p[At(H, d)].kind = "heading"
                           /\ IsRow(p[At(H, d) + 1]) /\ p[At(H, d) + 1].cells = <<"v", "v">>
      BY DEF Shape
  <1>2. /\ h \in (H + 1)..(H + 2 * E) /\ r \in (H + 1)..(H + 2 * E)
        /\ e < E => e + 1 \in 1..E /\ At(H, e + 1) = h + 2
        /\ e = E => r = H + 2 * E
      BY <1>1, AtIs
  <1>3. IsRow(p[r]) /\ p[r].cells = <<"v", "v">>
      BY <1>1
  <1>0. r = h + 1
      OBVIOUS
  <1> HIDE DEF h, r
  <1>4. r \in 1..Len(p) /\ Len(p) \in Nat /\ r + 1 \in Nat \ {0}
      BY <1>1, <1>2
  <1>5. ~IsSeparator(p[r])
      BY <1>3, CellsAre
  <1>6. NextNonBlank(p, r) = r
      BY <1>1, <1>3, <1>4, NextIs DEF IsRow, IsBlank
  <1>7. after = 0 \/ ~IsRow(p[after])
    <2>1. CASE e = E
      <3>1. r + 1 > Len(p)
          BY <1>1, <1>2, <1>4, <2>1
      <3>2. after = 0 \/ after \in (r + 1)..Len(p)
          BY <1>1, <1>4, NextNonBlankIs
      <3> HIDE DEF after
      <3> QED
          BY <1>4, <3>1, <3>2
    <2>2. CASE e < E
      <3>1. e + 1 \in 1..E /\ At(H, e + 1) = r + 1
          BY <1>0, <1>2, <2>2
      <3>2. p[r + 1].kind = "heading"
          BY <1>1, <3>1
      <3>3. r + 1 \in 1..Len(p)
        <4>1. r + 1 \in (H + 1)..(H + 2 * E)
          <5>1. H \in Nat /\ E \in Nat
              BY <1>1
          <5>2. At(H, e + 1) \in (H + 1)..(H + 2 * E)
              BY <3>1, <5>1, AtIs
          <5> QED
              BY <3>1, <5>2
        <4> QED
            BY <1>1, <4>1
      <3>4. after = r + 1
          BY <1>1, <3>2, <3>3, NextIs DEF IsBlank
      <3> QED
          BY <3>2, <3>4 DEF IsRow
    <2> QED
        BY <1>1, <2>1, <2>2
  <1>8. Lone(p, r)
      BY <1>3, <1>5, <1>7 DEF Lone
  <1> QED
      BY <1>6, <1>8 DEF r, h

LEMMA EscapedIf ==
    ASSUME NEW p, NEW h \in DOMAIN p, p[h].kind = "heading", NEW r, r = NextNonBlank(p, h + 1),
           r # 0, Lone(p, r), CountCells(p[r]) >= 2, \A i \in DOMAIN p[r].cells : p[r].cells[i] = "v",
           ParentsAbove(p, h) # {}, CountCells(p[r]) + 1 = FoldWidth(p, ParentBlockAbove(p, h)),
           Cardinality({i \in (ParentBlockAbove(p, h)[2] + 1)..(h - 1) : ~IsBlank(p[i])})
               <= HeadingSplitMaxGapLines
    PROVE  h \in EscapedHeadings(p)
  BY DEF EscapedHeadings

LEMMA EscapedAre ==
    ASSUME NEW p, NEW T, NEW H, NEW E, NEW B, Shape(p, T, H, E, B)
    PROVE  EscapedHeadings(p) = {At(H, e) : e \in 1..E}
  <1>1. /\ p \in Seq(Line) /\ T \in Nat /\ H \in Nat /\ E \in Nat /\ B \in {0, 1}
        /\ 3 <= T /\ T + B <= H /\ Len(p) = H + 2 * E /\ Header(p)
        /\ \A i \in 3..T : TableRow(p[i])
        /\ \A i \in (T + 1)..H : Beside(p[i])
        /\ \A e \in 1..E : /\ p[At(H, e)].kind = "heading"
                           /\ IsRow(p[At(H, e) + 1]) /\ p[At(H, e) + 1].cells = <<"v", "v">>
      BY DEF Shape
  <1>1a. DOMAIN p = 1..Len(p)
      BY <1>1
  <1>2. ASSUME NEW e \in 1..E PROVE At(H, e) \in EscapedHeadings(p)
    <2> DEFINE h == At(H, e)
               r == NextNonBlank(p, h + 1)
    <2>1. h \in 1..Len(p)
      <3>1. h \in (H + 1)..(H + 2 * E)
          BY <1>1, AtIs
      <3> HIDE DEF h
      <3> QED
          BY <1>1, <3>1
    <2>2. r = h + 1 /\ Lone(p, r)
        BY ValuesBelow
    <2>3. ParentsAbove(p, h) # {} /\ ParentBlockAbove(p, h) = <<1, T>>
        BY ParentTop
    <2>4. CountCells(p[r]) = 2 /\ \A i \in DOMAIN p[r].cells : p[r].cells[i] = "v"
        BY <1>1, <2>2, CellsAre
    <2>5. CountCells(p[r]) + 1 = FoldWidth(p, ParentBlockAbove(p, h))
        BY <2>3, <2>4, ShapeFoldWidth
    <2>6. Cardinality({i \in (ParentBlockAbove(p, h)[2] + 1)..(h - 1) : ~IsBlank(p[i])}) <= HeadingSplitMaxGapLines
      <3>1. ParentBlockAbove(p, h)[2] = T
          BY <2>3
      <3> QED
          BY <3>1, GapHolds
    <2>7. p[h].kind = "heading"
        BY <1>1
    <2>8. r # 0
        BY <2>1, <2>2
    <2>9. h \in DOMAIN p
        BY <1>1a, <2>1
    <2>10. CountCells(p[r]) >= 2
        BY <2>4
    <2> HIDE DEF h, r
    <2>11. h \in EscapedHeadings(p)
        BY <2>2, <2>3, <2>4, <2>5, <2>6, <2>7, <2>8, <2>9, <2>10, EscapedIf DEF r
    <2> QED
        BY <2>11 DEF h
  <1>3. ASSUME NEW h \in EscapedHeadings(p) PROVE \E e \in 1..E : h = At(H, e)
    <2>1. h \in 1..Len(p) /\ p[h].kind = "heading"
        BY <1>1a DEF EscapedHeadings
    <2>2. ~IsRow(p[h]) /\ ~Beside(p[h])
        BY <2>1 DEF IsRow, Beside
    <2>3. h # 1 /\ h # 2 /\ h \notin 3..T /\ h \notin (T + 1)..H
        BY <1>1, <2>2 DEF Header, TableRow
    <2>4. PICK e \in 1..E : h = At(H, e) \/ h = At(H, e) + 1
        BY <2>1, <2>3, ShapeLines
    <2>5. h # At(H, e) + 1
        BY <1>1, <2>2
    <2> QED
        BY <2>4, <2>5
  <1> QED
      BY <1>2, <1>3

\* The row folded out of the e-th heading and the values below it.
Refolded(p, H, e) == FoldedRow(p, At(H, e))
RefoldedRows(p, H, E) == [e \in 1..E |-> Refolded(p, H, e)]

LEMMA RefoldedIs ==
    ASSUME NEW p, NEW T, NEW H, NEW E, NEW B, Shape(p, T, H, E, B), NEW e \in 1..E
    PROVE  /\ Refolded(p, H, e) \in Line /\ TableRow(Refolded(p, H, e))
           /\ Refolded(p, H, e).from[1] = p[At(H, e)].from[1]
  <1> DEFINE h == At(H, e)
             r == h + 1
  <1>1. /\ p \in Seq(Line) /\ H \in Nat /\ E \in Nat /\ Len(p) = H + 2 * E
        /\ \A d \in 1..E : /\ p[At(H, d)].kind = "heading"
                           /\ IsRow(p[At(H, d) + 1]) /\ p[At(H, d) + 1].cells = <<"v", "v">>
        /\ \A i \in 1..Len(p) : Len(p[i].from) = 1
      BY DEF Shape
  <1>2. r = NextNonBlank(p, h + 1)
      BY ValuesBelow
  <1>3. h \in EscapedHeadings(p)
      BY EscapedAre
  <1>4. Escaped(p, h, r)
      BY <1>1, <1>2, <1>3, EscapedIs
  <1>5. h \in (H + 1)..(H + 2 * E) /\ r \in (H + 1)..(H + 2 * E)
      BY <1>1, AtIs
  <1>6. p[r].cells = <<"v", "v">>
      BY <1>1
  <1>7. Refolded(p, H, e) = FoldedRow(p, h)
      BY DEF Refolded
  <1> HIDE DEF h, r
  <1>8. h \in 1..Len(p) /\ r \in 1..Len(p)
      BY <1>1, <1>5
  <1>9. /\ FoldedRow(p, h) \in Line /\ FoldedRow(p, h).kind = "row"
        /\ FoldedRow(p, h).cells = <<"w">> \o p[r].cells
        /\ FoldedRow(p, h).from = p[h].from \o p[r].from
      BY <1>1, <1>2, <1>4, FoldedRowIs
  <1>10. <<"w">> \o <<"v", "v">> = HeadRow
      BY OneAndTwo DEF HeadRow
  <1>11. TableRow(FoldedRow(p, h))
      BY <1>6, <1>9, <1>10 DEF TableRow, IsRow
  <1> DEFINE x == p[h].from
             y == p[r].from
  <1>12. x \in Seq(Nat) /\ y \in Seq(Nat) /\ Len(x) = 1 /\ Len(y) = 1
      BY <1>1, <1>8, PageTyped
  <1> HIDE DEF x, y
  <1>13. (x \o y)[1] = x[1]
    <2>1. \A i \in 1..(Len(x) + Len(y)) : (x \o y)[i] = IF i <= Len(x) THEN x[i] ELSE y[i - Len(x)]
        BY <1>12, ConcatProperties
    <2>2. 1 \in 1..(Len(x) + Len(y)) /\ 1 <= Len(x)
        BY <1>12
    <2> QED
        BY <2>1, <2>2
  <1>14. FoldedRow(p, h).from[1] = p[h].from[1]
      BY <1>9, <1>13 DEF x, y
  <1> QED
      BY <1>7, <1>9, <1>11, <1>14 DEF h

\* The headings are the lines of the pairs that stand first in them.
LEMMA EscapedLine ==
    ASSUME NEW p, NEW T, NEW H, NEW E, NEW B, Shape(p, T, H, E, B)
    PROVE  /\ \A i \in 1..H : i \notin EscapedHeadings(p)
           /\ \A e \in 1..E : At(H, e) \in EscapedHeadings(p) /\ At(H, e) + 1 \notin EscapedHeadings(p)
  <1>1. H \in Nat /\ E \in Nat
      BY DEF Shape
  <1>2. EscapedHeadings(p) = {At(H, e) : e \in 1..E}
      BY EscapedAre
  <1>3. ASSUME NEW i \in 1..H, NEW e \in 1..E, i = At(H, e) PROVE FALSE
      BY <1>1, <1>3 DEF At
  <1>4. ASSUME NEW e \in 1..E, NEW d \in 1..E, At(H, e) + 1 = At(H, d) PROVE FALSE
      BY <1>1, <1>4 DEF At
  <1> QED
      BY <1>2, <1>3, <1>4

LEMMA HalfIs ==
    ASSUME NEW e \in Nat
    PROVE  (2 * e) \div 2 = e /\ (2 * e + 1) \div 2 = e
  OBVIOUS

\* So many headings stand above a line.
HeadingsAbove(H, E) == [h \in 1..(H + 2 * E + 1) |-> IF h <= H THEN 0 ELSE (h - H) \div 2]
CountsHeadings(f, H, E) ==
  /\ f \in [1..(H + 2 * E + 1) -> Nat]
  /\ f[1] = 0 /\ f[H + 2 * E + 1] = E
  /\ \A i \in 1..H : f[i] = 0 /\ f[i + 1] = 0
  /\ \A e \in 1..E : f[At(H, e)] = e - 1 /\ f[At(H, e) + 1] = e /\ f[At(H, e) + 1 + 1] = e
LEMMA HeadingsAboveIs ==
    ASSUME NEW H \in Nat, NEW E \in Nat
    PROVE  CountsHeadings(HeadingsAbove(H, E), H, E)
  <1> DEFINE f == HeadingsAbove(H, E)
             n == H + 2 * E + 1
  <1>1. \A h \in 1..n : f[h] = IF h <= H THEN 0 ELSE (h - H) \div 2
      BY DEF HeadingsAbove
  <1>2. ASSUME NEW h \in 1..n PROVE f[h] \in Nat
    <2>1. CASE h <= H
        BY <1>1, <2>1
    <2>2. CASE ~(h <= H)
      <3>1. h - H \in Nat
          BY <2>2
      <3>2. (h - H) \div 2 \in Nat
          BY <3>1
      <3> QED
          BY <1>1, <2>2, <3>2
    <2> QED
        BY <2>1, <2>2
  <1>3. f \in [1..n -> Nat]
      BY <1>2 DEF HeadingsAbove
  <1>4. n \in Nat /\ n = H + 2 * E + 1
      OBVIOUS
  <1> HIDE DEF f, n
  <1>5. ASSUME NEW e \in Nat, H + 2 * e + 1 \in 1..n PROVE f[H + 2 * e + 1] = e
    <2> DEFINE h == H + 2 * e + 1
    <2>1. h \in 1..n /\ ~(h <= H) /\ h - H = 2 * e + 1
        BY <1>5
    <2> HIDE DEF h
    <2>2. f[h] = (2 * e + 1) \div 2
        BY <1>1, <2>1
    <2>3. f[h] = e
        BY <2>2, HalfIs
    <2> QED
        BY <2>3 DEF h
  <1>6. ASSUME NEW e \in Nat \ {0}, H + 2 * e \in 1..n PROVE f[H + 2 * e] = e
    <2> DEFINE h == H + 2 * e
    <2>1. h \in 1..n /\ ~(h <= H) /\ h - H = 2 * e
        BY <1>6
    <2> HIDE DEF h
    <2>2. f[h] = (2 * e) \div 2
        BY <1>1, <2>1
    <2>3. f[h] = e
        BY <2>2, HalfIs
    <2> QED
        BY <2>3 DEF h
  <1>7. f[n] = E
    <2>1. H + 2 * E + 1 \in 1..n
        BY <1>4
    <2> QED
        BY <1>4, <1>5, <2>1
  <1>8. ASSUME NEW i \in 1..H PROVE f[i] = 0 /\ f[i + 1] = 0
    <2>1. i \in 1..n /\ i <= H
        BY <1>4
    <2>2. CASE i + 1 <= H
      <3>1. i + 1 \in 1..n
          BY <1>4
      <3> QED
          BY <1>1, <2>1, <2>2, <3>1
    <2>3. CASE i + 1 = H + 2 * 0 + 1
      <3>1. H + 2 * 0 + 1 \in 1..n
          BY <1>4
      <3>2. f[H + 2 * 0 + 1] = 0
          BY <1>5, <3>1
      <3> QED
          BY <1>1, <2>1, <2>3, <3>2
    <2> QED
        BY <2>2, <2>3
  <1>9. f[1] = 0
    <2>1. CASE H = 0
      <3>1. 1 = H + 2 * 0 + 1 /\ H + 2 * 0 + 1 \in 1..n
          BY <1>4, <2>1
      <3> QED
          BY <1>5, <3>1
    <2>2. CASE H # 0
      <3>1. 1 \in 1..H
          BY <2>2
      <3> QED
          BY <1>8, <3>1
    <2> QED
        BY <2>1, <2>2
  <1>10. ASSUME NEW e \in 1..E
         PROVE  f[At(H, e)] = e - 1 /\ f[At(H, e) + 1] = e /\ f[At(H, e) + 1 + 1] = e
    <2> DEFINE d == e - 1
    <2>1. d \in Nat /\ At(H, e) = H + 2 * d + 1 /\ H + 2 * d + 1 \in 1..n
        BY <1>4 DEF At
    <2>2. At(H, e) + 1 = H + 2 * e /\ H + 2 * e \in 1..n /\ e \in Nat \ {0}
        BY <1>4 DEF At
    <2>3. At(H, e) + 1 + 1 = H + 2 * e + 1 /\ H + 2 * e + 1 \in 1..n
        BY <1>4 DEF At
    <2>4. f[At(H, e)] = d
        BY <1>5, <2>1
    <2>5. f[At(H, e) + 1] = e
        BY <1>6, <2>2
    <2>6. f[At(H, e) + 1 + 1] = e
        BY <1>5, <2>2, <2>3
    <2> QED
        BY <2>4, <2>5, <2>6
  <1>11. CountsHeadings(f, H, E)
      BY <1>3, <1>4, <1>7, <1>8, <1>9, <1>10 DEF CountsHeadings
  <1> QED
      BY <1>11 DEF f

\* The rows put back together come below the table, in their order.
LEMMA FoldedShape ==
    ASSUME NEW p, NEW T, NEW H, NEW E, NEW B, Shape(p, T, H, E, B)
    PROVE  /\ Folded(p, T) = RefoldedRows(p, H, E)
           /\ RefoldedRows(p, H, E) \in Seq(Line) /\ Len(RefoldedRows(p, H, E)) = E
           /\ \A e \in 1..E : RefoldedRows(p, H, E)[e] = Refolded(p, H, e)
           /\ \A i : i # T => Folded(p, i) = <<>>
  <1> DEFINE s == FoldPieces(p, T)
             u == RefoldedRows(p, H, E)
             off == HeadingsAbove(H, E)
             n == H + 2 * E
  <1>1. p \in Seq(Line) /\ T \in Nat /\ H \in Nat /\ E \in Nat /\ Len(p) = n
      BY DEF Shape
  <1>2. EscapedHeadings(p) = {At(H, e) : e \in 1..E}
      BY EscapedAre
  <1>3. ASSUME NEW h \in EscapedHeadings(p) PROVE ParentBlockAbove(p, h)[2] = T
    <2>1. PICK e \in 1..E : h = At(H, e)
        BY <1>2
    <2> QED
        BY <2>1, ParentTop
  <1>4. \A i : i # T => Folded(p, i) = <<>>
      BY <1>1, <1>3, FoldedNone
  <1>5. s \in Seq(Seq(Line)) /\ Len(s) = n /\ n \in Nat
      BY <1>1, FoldJoins
  <1>6. \A h \in 1..n : s[h] = IF h \in EscapedHeadings(p) THEN <<FoldedRow(p, h)>> ELSE <<>>
    <2>1. DOMAIN p = 1..n
        BY <1>1
    <2> QED
        BY <1>3, <2>1 DEF FoldPieces
  <1>7. \A e \in 1..E : u[e] = Refolded(p, H, e)
      BY DEF RefoldedRows
  <1>8. u \in Seq(Line) /\ Len(u) = E
    <2>1. u \in [1..E -> Line]
        BY RefoldedIs DEF RefoldedRows
    <2> HIDE DEF u
    <2> QED
        BY <1>1, <2>1, IsASeq, LenProperties
  <1>9. /\ off \in [1..(n + 1) -> Nat] /\ off[1] = 0 /\ off[n + 1] = E
        /\ \A i \in 1..H : off[i] = 0 /\ off[i + 1] = 0
        /\ \A e \in 1..E : off[At(H, e)] = e - 1 /\ off[At(H, e) + 1] = e /\ off[At(H, e) + 1 + 1] = e
    <2>1. CountsHeadings(off, H, E)
        BY <1>1, HeadingsAboveIs
    <2> HIDE DEF off
    <2> QED
        BY <2>1 DEF CountsHeadings
  <1>9a. \A i \in 1..n : i \in 1..H \/ i \in (H + 1)..(H + 2 * E)
      BY <1>1
  <1> HIDE DEF s, u, off, n
  <1>10. ASSUME NEW i \in 1..n
         PROVE  off[i + 1] = off[i] + Len(s[i]) /\ \A j \in 1..Len(s[i]) : u[off[i] + j] = s[i][j]
    <2>1. CASE i \in 1..H
      <3>1. s[i] = <<>>
          BY <1>6, <2>1, EscapedLine
      <3>2. Len(s[i]) = 0 /\ off[i] = 0 /\ off[i + 1] = 0
          BY <1>9, <2>1, <3>1
      <3> QED
          BY <3>2
    <2>2. ASSUME NEW e \in 1..E, i = At(H, e)
          PROVE  off[i + 1] = off[i] + Len(s[i]) /\ \A j \in 1..Len(s[i]) : u[off[i] + j] = s[i][j]
      <3>1. s[i] = <<Refolded(p, H, e)>>
          BY <1>6, <2>2, EscapedLine DEF Refolded
      <3>2. Len(s[i]) = 1 /\ s[i][1] = Refolded(p, H, e)
          BY <3>1, SingleLine
      <3>3. off[i] = e - 1 /\ off[i + 1] = e
          BY <1>9, <2>2
      <3>4. e - 1 + 1 = e /\ \A j \in 1..1 : j = 1
          BY <1>1
      <3> QED
          BY <1>7, <3>2, <3>3, <3>4
    <2>3. ASSUME NEW e \in 1..E, i = At(H, e) + 1
          PROVE  off[i + 1] = off[i] + Len(s[i]) /\ \A j \in 1..Len(s[i]) : u[off[i] + j] = s[i][j]
      <3>1. s[i] = <<>>
          BY <1>6, <2>3, EscapedLine
      <3>2. Len(s[i]) = 0 /\ off[i] = e /\ off[i + 1] = e
          BY <1>9, <2>3, <3>1
      <3> QED
          BY <1>1, <3>2
    <2>4. i \in 1..H \/ i \in (H + 1)..(H + 2 * E)
        BY <1>9a
    <2> QED
        BY <1>1, <2>1, <2>2, <2>3, <2>4, Pairs
  <1>11. Joins(s, u, off)
      BY <1>5, <1>8, <1>9, <1>10 DEF Joins, Joined
  <1>12. FlattenSeq(s) = u
      BY <1>5, <1>8, <1>11, FlattenIs
  <1>13. Folded(p, T) = u
      BY <1>12 DEF Folded, s
  <1> QED
      BY <1>4, <1>7, <1>8, <1>13 DEF u

LEMMA TakenOutIs ==
    ASSUME NEW p, NEW T, NEW H, NEW E, NEW B, Shape(p, T, H, E, B)
    PROVE  TakenOut(p) = (H + 1)..(H + 2 * E)
  <1>1. H \in Nat /\ E \in Nat
      BY DEF Shape
  <1>2. EscapedHeadings(p) = {At(H, e) : e \in 1..E}
      BY EscapedAre
  <1>3. \A e \in 1..E : NextNonBlank(p, At(H, e) + 1) = At(H, e) + 1
      BY ValuesBelow
  <1>4. ASSUME NEW k \in TakenOut(p) PROVE k \in (H + 1)..(H + 2 * E)
    <2>1. PICK h \in EscapedHeadings(p) : k = h \/ k = NextNonBlank(p, h + 1)
        BY DEF TakenOut
    <2>2. PICK e \in 1..E : h = At(H, e)
        BY <1>2
    <2>3. k = At(H, e) \/ k = At(H, e) + 1
        BY <1>3, <2>1, <2>2
    <2>4. At(H, e) \in (H + 1)..(H + 2 * E) /\ At(H, e) + 1 \in (H + 1)..(H + 2 * E)
        BY <1>1, AtIs
    <2> QED
        BY <2>3, <2>4
  <1>5. ASSUME NEW k \in (H + 1)..(H + 2 * E) PROVE k \in TakenOut(p)
    <2>1. PICK e \in 1..E : k = At(H, e) \/ k = At(H, e) + 1
        BY <1>1, Pairs
    <2>2. At(H, e) \in EscapedHeadings(p)
        BY <1>2
    <2> QED
        BY <1>3, <2>1, <2>2 DEF TakenOut
  <1> QED
      BY <1>4, <1>5

\* The page with the rows put back below the table.
Reattached(p, T, H, E) ==
  [k \in 1..(H + E) |-> IF k <= T THEN p[k] ELSE IF k <= T + E THEN Refolded(p, H, k - T) ELSE p[k - E]]
LinesAbove(T, H, E) ==
  [i \in 1..(H + 2 * E + 1) |-> IF i <= T THEN i - 1 ELSE IF i <= H THEN i - 1 + E ELSE H + E]

LEMMA ReattachedIs ==
    ASSUME NEW p, NEW T, NEW H, NEW E, NEW B, Shape(p, T, H, E, B)
    PROVE  /\ Reattached(p, T, H, E) \in Seq(Line) /\ Len(Reattached(p, T, H, E)) = H + E
           /\ \A k \in 1..T : Reattached(p, T, H, E)[k] = p[k]
           /\ \A e \in 1..E : Reattached(p, T, H, E)[T + e] = Refolded(p, H, e)
           /\ \A k \in (T + 1)..H : Reattached(p, T, H, E)[k + E] = p[k]
  <1> DEFINE u == Reattached(p, T, H, E)
  <1>1. p \in Seq(Line) /\ T \in Nat /\ H \in Nat /\ E \in Nat /\ Len(p) = H + 2 * E /\ T <= H
    <2>1. B \in {0, 1} /\ T \in Nat /\ H \in Nat /\ T + B <= H
        BY DEF Shape
    <2>2. T <= H
        BY <2>1
    <2> QED
        BY <2>2 DEF Shape
  <1>2. \A k \in 1..(H + E) : u[k] = IF k <= T THEN p[k] ELSE IF k <= T + E THEN Refolded(p, H, k - T) ELSE p[k - E]
      BY DEF Reattached
  <1>3. \A i \in 1..(H + 2 * E) : p[i] \in Line
      BY <1>1, PageTyped
  <1>4. ASSUME NEW k \in 1..(H + E) PROVE u[k] \in Line
    <2>1. CASE k <= T
      <3>1. k \in 1..(H + 2 * E)
          BY <1>1
      <3> QED
          BY <1>2, <1>3, <2>1, <3>1
    <2>2. CASE ~(k <= T) /\ k <= T + E
      <3>1. k - T \in 1..E
          BY <1>1, <2>2
      <3> QED
          BY <1>2, <2>2, <3>1, RefoldedIs
    <2>3. CASE ~(k <= T + E)
      <3>1. k - E \in 1..(H + 2 * E) /\ ~(k <= T)
          BY <1>1, <2>3
      <3> QED
          BY <1>2, <1>3, <2>3, <3>1
    <2> QED
        BY <2>1, <2>2, <2>3
  <1>5. u \in [1..(H + E) -> Line]
      BY <1>4 DEF Reattached
  <1> HIDE DEF u
  <1>6. u \in Seq(Line) /\ Len(u) = H + E
    <2>1. H + E \in Nat
        BY <1>1
    <2> QED
        BY <1>5, <2>1, IsASeq, LenProperties
  <1>7. \A k \in 1..T : u[k] = p[k]
    <2>1. ASSUME NEW k \in 1..T PROVE k \in 1..(H + E) /\ k <= T
        BY <1>1
    <2> QED
        BY <1>2, <2>1
  <1>8. ASSUME NEW e \in 1..E PROVE u[T + e] = Refolded(p, H, e)
    <2> DEFINE k == T + e
    <2>1. k \in 1..(H + E) /\ ~(k <= T) /\ k <= T + E /\ k - T = e
        BY <1>1
    <2> HIDE DEF k
    <2>2. u[k] = Refolded(p, H, k - T)
        BY <1>2, <2>1
    <2> QED
        BY <2>1, <2>2 DEF k
  <1>9. ASSUME NEW i \in (T + 1)..H PROVE u[i + E] = p[i]
    <2> DEFINE k == i + E
    <2>1. k \in 1..(H + E) /\ ~(k <= T) /\ ~(k <= T + E) /\ k - E = i
        BY <1>1
    <2> HIDE DEF k
    <2>2. u[k] = p[k - E]
        BY <1>2, <2>1
    <2> QED
        BY <2>1, <2>2 DEF k
  <1> QED
      BY <1>6, <1>7, <1>8, <1>9 DEF u

LayAround(f, T, H, E) ==
  /\ f \in [1..(H + 2 * E + 1) -> Nat] /\ f[1] = 0 /\ f[H + 2 * E + 1] = H + E
  /\ \A i \in 1..(T - 1) : f[i] = i - 1 /\ f[i + 1] = i
  /\ f[T] = T - 1 /\ f[T + 1] = T + E
  /\ \A i \in (T + 1)..H : f[i] = i - 1 + E /\ f[i + 1] = i + E
  /\ \A i \in (H + 1)..(H + 2 * E) : f[i] = H + E /\ f[i + 1] = H + E
LEMMA LinesAboveIs ==
    ASSUME NEW T \in Nat, NEW H \in Nat, NEW E \in Nat, 3 <= T, T <= H
    PROVE  LayAround(LinesAbove(T, H, E), T, H, E)
  <1> DEFINE f == LinesAbove(T, H, E)
             n == H + 2 * E + 1
  <1>1. \A i \in 1..n : f[i] = IF i <= T THEN i - 1 ELSE IF i <= H THEN i - 1 + E ELSE H + E
      BY DEF LinesAbove
  <1>2. f \in [1..n -> Nat]
    <2>1. ASSUME NEW i \in 1..n PROVE f[i] \in Nat
        BY <1>1
    <2> QED
        BY <2>1 DEF LinesAbove
  <1>3. n \in Nat /\ n = H + 2 * E + 1
      OBVIOUS
  <1> HIDE DEF f, n
  <1>4. \A i \in 1..T : f[i] = i - 1
    <2>1. ASSUME NEW i \in 1..T PROVE i \in 1..n /\ i <= T
        BY <1>3
    <2> QED
        BY <1>1, <2>1
  <1>5. ASSUME NEW i \in (T + 1)..(H + 1) PROVE f[i] = i - 1 + E
    <2>1. i \in 1..n /\ ~(i <= T)
        BY <1>3
    <2>2. CASE i <= H
        BY <1>1, <2>1, <2>2
    <2>3. CASE ~(i <= H)
      <3>1. f[i] = H + E
          BY <1>1, <2>1, <2>3
      <3>2. i - 1 = H
          BY <2>3
      <3> QED
          BY <3>1, <3>2
    <2> QED
        BY <2>2, <2>3
  <1>6. ASSUME NEW i \in (H + 1)..n PROVE f[i] = H + E
    <2>1. i \in 1..n /\ ~(i <= T) /\ ~(i <= H)
        BY <1>3
    <2> QED
        BY <1>1, <2>1
  <1>7. f[1] = 0
    <2>1. 1 \in 1..T /\ 1 - 1 = 0
        OBVIOUS
    <2> QED
        BY <1>4, <2>1
  <1>8. f[n] = H + E
    <2>1. n \in (H + 1)..n
        BY <1>3
    <2> QED
        BY <1>6, <2>1
  <1>9. ASSUME NEW i \in 1..(T - 1) PROVE f[i] = i - 1 /\ f[i + 1] = i
    <2>1. i \in 1..T /\ i + 1 \in 1..T /\ i + 1 - 1 = i
        OBVIOUS
    <2> QED
        BY <1>4, <2>1
  <1>10. f[T] = T - 1
    <2>1. T \in 1..T
        OBVIOUS
    <2> QED
        BY <1>4, <2>1
  <1>11. f[T + 1] = T + E
    <2>1. T + 1 \in (T + 1)..(H + 1) /\ T + 1 - 1 = T
        OBVIOUS
    <2>2. f[T + 1] = T + 1 - 1 + E
        BY <1>5, <2>1
    <2> QED
        BY <2>1, <2>2
  <1>12. ASSUME NEW i \in (T + 1)..H PROVE f[i] = i - 1 + E /\ f[i + 1] = i + E
    <2>1. i \in (T + 1)..(H + 1) /\ i + 1 \in (T + 1)..(H + 1) /\ i + 1 - 1 = i
        OBVIOUS
    <2>2. f[i] = i - 1 + E /\ f[i + 1] = i + 1 - 1 + E
        BY <1>5, <2>1
    <2> QED
        BY <2>1, <2>2
  <1>13. ASSUME NEW i \in (H + 1)..(H + 2 * E) PROVE f[i] = H + E /\ f[i + 1] = H + E
    <2>1. i \in (H + 1)..n /\ i + 1 \in (H + 1)..n
        BY <1>3
    <2> QED
        BY <1>6, <2>1
  <1>14. LayAround(f, T, H, E)
      BY <1>2, <1>3, <1>7, <1>8, <1>9, <1>10, <1>11, <1>12, <1>13 DEF LayAround
  <1> QED
      BY <1>14 DEF f

LEMMA ReattachShape ==
    ASSUME NEW p, NEW T, NEW H, NEW E, NEW B, Shape(p, T, H, E, B)
    PROVE  ReattachHeadingSplitTableRows(p) = Reattached(p, T, H, E)
  <1> DEFINE s == ReattachPieces(p)
             u == Reattached(p, T, H, E)
             v == RefoldedRows(p, H, E)
             off == LinesAbove(T, H, E)
             n == H + 2 * E
  <1>1. p \in Seq(Line) /\ T \in Nat /\ H \in Nat /\ E \in Nat /\ Len(p) = n /\ 3 <= T /\ T <= H
    <2>1. B \in {0, 1} /\ T \in Nat /\ H \in Nat /\ T + B <= H
        BY DEF Shape
    <2>2. T <= H
        BY <2>1
    <2> QED
        BY <2>2 DEF Shape
  <1>2. s \in Seq(Seq(Line)) /\ Len(s) = n /\ n \in Nat
        /\ \A i \in 1..n : s[i] = IF i \in TakenOut(p) THEN <<>> ELSE <<p[i]>> \o Folded(p, i)
    <2>1. s \in Seq(Seq(Line)) /\ Len(s) = Len(p)
          /\ \A i \in 1..Len(p) : s[i] = IF i \in TakenOut(p) THEN <<>> ELSE <<p[i]>> \o Folded(p, i)
        BY <1>1, ReattachJoins
    <2>2. n \in Nat
        BY <1>1
    <2> HIDE DEF s, n
    <2> QED
        BY <1>1, <2>1, <2>2
  <1>3. TakenOut(p) = (H + 1)..n
      BY TakenOutIs
  <1>4. /\ Folded(p, T) = v /\ v \in Seq(Line) /\ Len(v) = E
        /\ \A e \in 1..E : v[e] = Refolded(p, H, e)
        /\ \A i : i # T => Folded(p, i) = <<>>
      BY FoldedShape
  <1>5. /\ u \in Seq(Line) /\ Len(u) = H + E
        /\ \A k \in 1..T : u[k] = p[k]
        /\ \A e \in 1..E : u[T + e] = Refolded(p, H, e)
        /\ \A k \in (T + 1)..H : u[k + E] = p[k]
      BY ReattachedIs
  <1>6. LayAround(off, T, H, E)
      BY <1>1, LinesAboveIs
  <1>7. n = H + 2 * E
      OBVIOUS
  <1>8. ReattachHeadingSplitTableRows(p) = FlattenSeq(s)
      BY ReattachIs
  <1> HIDE DEF s, u, v, off, n
  <1>9. /\ off \in [1..(n + 1) -> Nat] /\ off[1] = 0 /\ off[n + 1] = H + E
        /\ \A i \in 1..(T - 1) : off[i] = i - 1 /\ off[i + 1] = i
        /\ off[T] = T - 1 /\ off[T + 1] = T + E
        /\ \A i \in (T + 1)..H : off[i] = i - 1 + E /\ off[i + 1] = i + E
        /\ \A i \in (H + 1)..n : off[i] = H + E /\ off[i + 1] = H + E
      BY <1>6, <1>7 DEF LayAround
  <1>10. ASSUME NEW i \in 1..n, i # T, i \notin (H + 1)..n PROVE Len(s[i]) = 1 /\ s[i][1] = p[i]
    <2>1. s[i] = <<p[i]>> \o <<>>
        BY <1>2, <1>3, <1>4, <1>10
    <2>2. p[i] \in Line
        BY <1>1, PageTyped
    <2>3. <<p[i]>> \in Seq(Line)
        BY <2>2
    <2>4. s[i] = <<p[i]>>
        BY <2>1, <2>3, ConcatEmptySeq
    <2> QED
        BY <2>4, SingleLine
  <1>11. ASSUME NEW i \in 1..n
         PROVE  off[i + 1] = off[i] + Len(s[i]) /\ \A j \in 1..Len(s[i]) : u[off[i] + j] = s[i][j]
    <2>1. CASE i \in 1..(T - 1)
      <3>1. i # T /\ i \notin (H + 1)..n /\ i \in 1..T
          BY <1>1, <2>1
      <3>2. Len(s[i]) = 1 /\ s[i][1] = p[i] /\ off[i] = i - 1 /\ off[i + 1] = i /\ u[i] = p[i]
          BY <1>5, <1>9, <1>10, <2>1, <3>1
      <3>3. i - 1 + 1 = i /\ \A j \in 1..1 : j = 1
          BY <1>1
      <3> QED
          BY <3>2, <3>3
    <2>2. CASE i = T
      <3>1. i \notin (H + 1)..n
          BY <1>1, <2>2
      <3>2. s[i] = <<p[T]>> \o v
          BY <1>2, <1>3, <1>4, <2>2, <3>1
      <3> DEFINE w == <<p[T]>>
      <3>3. w \in Seq(Line) /\ Len(w) = 1 /\ w[1] = p[T]
        <4>1. p[T] \in Line
            BY <1>1, <2>2, PageTyped
        <4> QED
            BY <4>1
      <3> HIDE DEF w
      <3>4. /\ Len(w \o v) = Len(w) + Len(v)
            /\ \A j \in 1..(Len(w) + Len(v)) : (w \o v)[j] = IF j <= Len(w) THEN w[j] ELSE v[j - Len(w)]
          BY <1>4, <3>3, ConcatProperties
      <3>5. Len(s[i]) = 1 + E /\ \A j \in 1..(1 + E) : s[i][j] = IF j <= 1 THEN p[T] ELSE v[j - 1]
        <4>1. s[i] = w \o v
            BY <3>2 DEF w
        <4>2. \A j \in 1..(1 + E) : j <= 1 => j = 1
            OBVIOUS
        <4> QED
            BY <1>4, <3>3, <3>4, <4>1, <4>2
      <3>6. off[i] = T - 1 /\ off[i + 1] = T + E
          BY <1>9, <2>2
      <3>7. T + E = T - 1 + (1 + E)
          BY <1>1
      <3>8. ASSUME NEW j \in 1..(1 + E) PROVE u[T - 1 + j] = s[i][j]
        <4>1. CASE j = 1
          <5>1. T - 1 + j = T /\ T \in 1..T /\ j <= 1
              BY <1>1, <4>1
          <5>2. s[i][j] = p[T]
              BY <3>5, <5>1
          <5>3. u[T] = p[T]
              BY <1>5, <5>1
          <5> QED
              BY <5>1, <5>2, <5>3
        <4>2. CASE j # 1
          <5> DEFINE e == j - 1
          <5>1. e \in 1..E /\ T - 1 + j = T + e /\ ~(j <= 1)
              BY <1>1, <4>2
          <5>2. s[i][j] = v[e]
              BY <3>5, <5>1
          <5> HIDE DEF e
          <5>3. u[T + e] = v[e]
              BY <1>4, <1>5, <5>1
          <5> QED
              BY <5>1, <5>2, <5>3
        <4> QED
            BY <4>1, <4>2
      <3> QED
          BY <3>5, <3>6, <3>7, <3>8
    <2>3. CASE i \in (T + 1)..H
      <3>1. i # T /\ i \notin (H + 1)..n
          BY <1>1, <2>3
      <3>2. Len(s[i]) = 1 /\ s[i][1] = p[i] /\ off[i] = i - 1 + E /\ off[i + 1] = i + E /\ u[i + E] = p[i]
          BY <1>5, <1>9, <1>10, <2>3, <3>1
      <3>3. i - 1 + E + 1 = i + E /\ \A j \in 1..1 : j = 1
          BY <1>1, <2>3
      <3> QED
          BY <3>2, <3>3
    <2>4. CASE i \in (H + 1)..n
      <3>1. s[i] = <<>>
          BY <1>2, <1>3, <2>4
      <3>2. Len(s[i]) = 0 /\ off[i] = H + E /\ off[i + 1] = H + E
          BY <1>9, <2>4, <3>1
      <3>3. H + E + 0 = H + E
          BY <1>1
      <3> QED
          BY <3>2, <3>3
    <2>5. i \in 1..(T - 1) \/ i = T \/ i \in (T + 1)..H \/ i \in (H + 1)..n
        BY <1>1, <1>2
    <2> QED
        BY <2>1, <2>2, <2>3, <2>4, <2>5
  <1>12. Joins(s, u, off)
      BY <1>2, <1>5, <1>9, <1>11 DEF Joins, Joined
  <1>13. FlattenSeq(s) = u
      BY <1>2, <1>5, <1>12, FlattenIs
  <1> QED
      BY <1>8, <1>13 DEF u

LEMMA ReattachWhole ==
    ASSUME NEW p, NEW T, NEW H, NEW E, NEW B, Shape(p, T, H, E, B)
    PROVE  Whole(ReattachHeadingSplitTableRows(p), T + E)
  <1> DEFINE q == Reattached(p, T, H, E)
             n == T + E
  <1>1. /\ p \in Seq(Line) /\ T \in Nat /\ H \in Nat /\ E \in Nat /\ B \in {0, 1}
        /\ 3 <= T /\ T + B <= H /\ Len(p) = H + 2 * E /\ Header(p)
        /\ \A i \in 3..T : TableRow(p[i])
        /\ \A i \in (T + 1)..H : Beside(p[i])
        /\ Rising(p, 1, Len(p))
      BY DEF Shape
  <1>1a. T <= H
      BY <1>1
  <1>2. /\ q \in Seq(Line) /\ Len(q) = H + E
        /\ \A k \in 1..T : q[k] = p[k]
        /\ \A e \in 1..E : q[T + e] = Refolded(p, H, e)
        /\ \A k \in (T + 1)..H : q[k + E] = p[k]
      BY ReattachedIs
  <1>3. n \in Nat /\ 3 <= n /\ n <= H + E /\ n = T + E
      BY <1>1, <1>1a
  <1> HIDE DEF q, n
  <1>4. Header(q)
    <2>1. 1 \in 1..T /\ 2 \in 1..T
        BY <1>1
    <2>2. q[1] = p[1] /\ q[2] = p[2]
        BY <1>2, <2>1
    <2> QED
        BY <1>1, <2>2 DEF Header, FullHeader, ShortHeader
  \* a row of the table as it was, or one put back
  <1>5. ASSUME NEW i \in 3..n
        PROVE  \/ i \in 3..T /\ q[i] = p[i]
               \/ \E e \in 1..E : i = T + e /\ q[i] = Refolded(p, H, e)
    <2>1. CASE i <= T
      <3>1. i \in 3..T /\ i \in 1..T
          BY <2>1
      <3> QED
          BY <1>2, <3>1
    <2>2. CASE ~(i <= T)
      <3>1. i - T \in 1..E /\ i = T + (i - T)
          BY <1>1, <1>3, <2>2
      <3> QED
          BY <1>2, <3>1
    <2> QED
        BY <2>1, <2>2
  <1>6. \A i \in 3..n : TableRow(q[i])
      BY <1>1, <1>5, RefoldedIs
  <1>7. ASSUME NEW i \in (n + 1)..Len(q) PROVE Beside(q[i])
    <2> DEFINE k == i - E
    <2>0. T \in Nat /\ H \in Nat /\ E \in Nat /\ Len(q) = H + E
        BY <1>1, <1>2
    <2>1. k \in (T + 1)..H /\ i = k + E
        BY <1>3, <2>0
    <2> HIDE DEF k
    <2> QED
        BY <1>1, <1>2, <2>1
  <1>8. ASSUME NEW i \in 3..n, NEW j \in 3..n, i < j PROVE q[i].from[1] < q[j].from[1]
    <2>1. CASE i \in 3..T /\ q[i] = p[i] /\ j \in 3..T /\ q[j] = p[j]
      <3>1. i \in 1..Len(p) /\ j \in 1..Len(p)
          BY <1>1, <1>1a, <2>1
      <3> QED
          BY <1>1, <1>8, <2>1, <3>1 DEF Rising
    <2>2. ASSUME i \in 3..T, q[i] = p[i], NEW e \in 1..E, j = T + e, q[j] = Refolded(p, H, e)
          PROVE  q[i].from[1] < q[j].from[1]
      <3>1. At(H, e) \in (H + 1)..(H + 2 * E)
          BY <1>1, AtIs
      <3> DEFINE h == At(H, e)
      <3>2. q[j].from[1] = p[h].from[1]
          BY <2>2, RefoldedIs
      <3> HIDE DEF h
      <3>3. h \in 1..Len(p) /\ i \in 1..Len(p) /\ i < h
          BY <1>1, <1>1a, <2>2, <3>1 DEF h
      <3> QED
          BY <1>1, <2>2, <3>2, <3>3 DEF Rising
    <2>3. ASSUME NEW e \in 1..E, i = T + e, q[i] = Refolded(p, H, e),
                 NEW d \in 1..E, j = T + d, q[j] = Refolded(p, H, d)
          PROVE  q[i].from[1] < q[j].from[1]
      <3> DEFINE h == At(H, e)
                 g == At(H, d)
      <3>1. e < d
          BY <1>1, <1>8, <2>3
      <3>2. h \in (H + 1)..(H + 2 * E) /\ g \in (H + 1)..(H + 2 * E) /\ h < g
          BY <1>1, <3>1, AtIs
      <3>3. q[i].from[1] = p[h].from[1] /\ q[j].from[1] = p[g].from[1]
          BY <2>3, RefoldedIs
      <3> HIDE DEF h, g
      <3>4. h \in 1..Len(p) /\ g \in 1..Len(p)
          BY <1>1, <3>2
      <3> QED
          BY <1>1, <3>2, <3>3, <3>4 DEF Rising
    <2>4. ~\E e \in 1..E : i = T + e /\ j \in 3..T
        BY <1>1, <1>8
    <2> QED
        BY <1>5, <2>1, <2>2, <2>3, <2>4
  <1>9. Whole(q, n)
      BY <1>2, <1>3, <1>4, <1>6, <1>7, <1>8 DEF Whole, Rising
  <1> QED
      BY <1>3, <1>9, ReattachShape DEF q

\* A whole table is continued by nothing: the values of an escaped row stand
\* behind their heading.
LEMMA MergeShape ==
    ASSUME NEW p, NEW T, NEW H, NEW E, NEW B, Shape(p, T, H, E, B)
    PROVE  MergeHeaderlessContinuationBlocks(p) = p
  <1>1. /\ p \in Seq(Line) /\ T \in Nat /\ H \in Nat /\ E \in Nat /\ B \in {0, 1}
        /\ 3 <= T /\ T + B <= H /\ Len(p) = H + 2 * E
        /\ \A i \in (T + 1)..H : Beside(p[i])
        /\ \A e \in 1..E : p[At(H, e)].kind = "heading"
      BY DEF Shape
  <1>2. HeadedBlocks(p) = {<<1, T>>}
      BY <1>1, ShapeTable, TableIs
  <1>3. ASSUME NEW q \in MergedPairs(p) PROVE FALSE
    <2>1. /\ q[1] \in HeadedBlocks(p) /\ q[2] \in Blocks(p)
          /\ q[1][2] < q[2][1] /\ OnlyBlankBetween(p, q[1], q[2])
        BY DEF MergedPairs
    <2> DEFINE a == q[1]
               k == q[2][1]
    <2>2. a[2] = T
        BY <1>2, <2>1
    <2>3. k \in 1..Len(p) /\ IsRow(p[k])
      <3> DEFINE d == q[2]
      <3>1. d \in Blocks(p)
          BY <2>1
      <3> HIDE DEF d
      <3>2. d[1] \in 1..Len(p) /\ d[2] \in 1..Len(p) /\ d[1] <= d[2] /\ \A i \in d[1]..d[2] : IsRow(p[i])
          BY <1>1, <3>1, BlockIs
      <3>3. d[1] \in d[1]..d[2]
          BY <3>2
      <3>4. d[1] \in 1..Len(p) /\ IsRow(p[d[1]])
          BY <3>2, <3>3
      <3> QED
          BY <3>4 DEF d
    <2>4. \A i \in (T + 1)..(k - 1) : IsBlank(p[i])
        BY <2>1, <2>2 DEF OnlyBlankBetween, Between
    <2>5. T < k
        BY <2>1, <2>2
    <2> HIDE DEF k
    <2>6. k \notin (T + 1)..H
        BY <1>1, <2>3, BesideIs
    <2>7. k # 1 /\ k # 2 /\ k \notin 3..T
        BY <1>1, <2>5
    <2>8. PICK e \in 1..E : k = At(H, e) \/ k = At(H, e) + 1
        BY <2>3, <2>6, <2>7, ShapeLines
    <2>9. k = At(H, e) + 1
        BY <1>1, <2>3, <2>8 DEF IsRow
    <2>10. At(H, e) \in (T + 1)..(k - 1)
      <3> DEFINE h == At(H, e)
      <3>1. h \in (H + 1)..(H + 2 * E) /\ k = h + 1
          BY <1>1, <2>9, AtIs
      <3> HIDE DEF h
      <3>2. h \in (T + 1)..(k - 1)
          BY <1>1, <3>1
      <3> QED
          BY <3>2 DEF h
    <2> QED
        BY <1>1, <2>4, <2>10 DEF IsBlank
  <1>4. \A i \in 1..Len(p) : MergePieces(p)[i] = <<p[i]>>
    <2>1. DOMAIN p = 1..Len(p)
        BY <1>1
    <2> QED
        BY <1>3, <2>1 DEF MergePieces
  <1> DEFINE s == MergePieces(p)
  <1>5. /\ MergeHeaderlessContinuationBlocks(p) = FlattenSeq(s)
        /\ s \in Seq(Seq(Line)) /\ Len(s) = Len(p) /\ \A i \in 1..Len(p) : s[i] = <<p[i]>>
      BY <1>1, <1>4, MergeJoins
  <1> HIDE DEF s
  <1> QED
      BY <1>1, <1>5, FlattenSingles

\* A page without one of its lines.
Without(p, c) == [k \in 1..(Len(p) - 1) |-> IF k < c THEN p[k] ELSE p[k + 1]]

LEMMA WithoutIs ==
    ASSUME NEW p \in Seq(Line), NEW c \in 1..Len(p)
    PROVE  /\ Without(p, c) \in Seq(Line) /\ Len(Without(p, c)) = Len(p) - 1
           /\ \A k \in 1..(c - 1) : Without(p, c)[k] = p[k]
           /\ \A k \in (c + 1)..Len(p) : Without(p, c)[k - 1] = p[k]
  <1> DEFINE u == Without(p, c)
             n == Len(p)
  <1>1. n \in Nat /\ c \in 1..n /\ n - 1 \in Nat
      OBVIOUS
  <1>2. \A k \in 1..(n - 1) : u[k] = IF k < c THEN p[k] ELSE p[k + 1]
      BY DEF Without
  <1>3. ASSUME NEW k \in 1..(n - 1) PROVE u[k] \in Line
    <2>1. p[k] \in Line /\ p[k + 1] \in Line
      <3>1. k \in 1..Len(p) /\ k + 1 \in 1..Len(p)
          BY <1>1
      <3> QED
          BY <3>1, PageTyped
    <2> QED
        BY <1>2, <2>1
  <1>4. u \in [1..(n - 1) -> Line]
      BY <1>3 DEF Without
  <1> HIDE DEF u, n
  <1>5. u \in Seq(Line) /\ Len(u) = n - 1
      BY <1>1, <1>4, IsASeq, LenProperties
  <1>6. ASSUME NEW k \in 1..(c - 1) PROVE u[k] = p[k]
    <2>1. k \in 1..(n - 1) /\ k < c
        BY <1>1
    <2> QED
        BY <1>2, <2>1
  <1>7. ASSUME NEW k \in (c + 1)..n PROVE u[k - 1] = p[k]
    <2> DEFINE j == k - 1
    <2>1. j \in 1..(n - 1) /\ ~(j < c) /\ j + 1 = k
        BY <1>1
    <2> HIDE DEF j
    <2>2. u[j] = p[j + 1]
        BY <1>2, <2>1
    <2> QED
        BY <2>1, <2>2 DEF j
  <1> QED
      BY <1>5, <1>6, <1>7 DEF u, n

LEMMA FlattenWithout ==
    ASSUME NEW p \in Seq(Line), NEW c \in 1..Len(p), NEW s \in Seq(Seq(Line)), Len(s) = Len(p),
           s[c] = <<>>, \A i \in 1..Len(p) : i # c => s[i] = <<p[i]>>
    PROVE  FlattenSeq(s) = Without(p, c)
  <1> DEFINE u == Without(p, c)
             n == Len(p)
             off == [i \in 1..(n + 1) |-> IF i <= c THEN i - 1 ELSE i - 2]
  <1>1. n \in Nat /\ c \in 1..n
      OBVIOUS
  <1>2. /\ u \in Seq(Line) /\ Len(u) = n - 1
        /\ \A k \in 1..(c - 1) : u[k] = p[k]
        /\ \A k \in (c + 1)..n : u[k - 1] = p[k]
      BY WithoutIs
  <1>3. \A i \in 1..(n + 1) : off[i] = IF i <= c THEN i - 1 ELSE i - 2
      OBVIOUS
  <1>4. off \in [1..(n + 1) -> Nat]
    <2>1. ASSUME NEW i \in 1..(n + 1) PROVE (IF i <= c THEN i - 1 ELSE i - 2) \in Nat
        BY <1>1
    <2> QED
        BY <2>1
  <1>5. \A i \in 1..n : i # c => Len(s[i]) = 1 /\ s[i][1] = p[i]
      BY SingleLine
  <1>6. Len(s) = n
      OBVIOUS
  <1> HIDE DEF u, n, off
  <1>7. off[1] = 0 /\ off[n + 1] = n - 1
    <2> DEFINE k == n + 1
    <2>1. 1 \in 1..k /\ k \in 1..k /\ 1 <= c /\ ~(k <= c) /\ k - 2 = n - 1 /\ 1 - 1 = 0
        BY <1>1
    <2>2. \A i \in 1..k : off[i] = IF i <= c THEN i - 1 ELSE i - 2
        BY <1>3
    <2> HIDE DEF k
    <2>3. off[1] = 0
        BY <2>1, <2>2
    <2>4. off[k] = n - 1
        BY <2>1, <2>2
    <2> QED
        BY <2>3, <2>4 DEF k
  <1>8. ASSUME NEW i \in 1..n
        PROVE  off[i + 1] = off[i] + Len(s[i]) /\ \A j \in 1..Len(s[i]) : u[off[i] + j] = s[i][j]
    <2>0. i \in 1..(n + 1) /\ i + 1 \in 1..(n + 1)
        BY <1>1
    <2>1. CASE i < c
      <3>1. off[i] = i - 1 /\ off[i + 1] = i /\ i \in 1..(c - 1)
        <4>1. i <= c /\ i + 1 <= c /\ i + 1 - 1 = i /\ i \in 1..(c - 1)
            BY <1>1, <2>1
        <4>2. off[i] = i - 1
            BY <1>3, <2>0, <4>1
        <4>3. off[i + 1] = i + 1 - 1
            BY <1>3, <2>0, <4>1
        <4> QED
            BY <4>1, <4>2, <4>3
      <3>2. Len(s[i]) = 1 /\ s[i][1] = p[i] /\ u[i] = p[i]
          BY <1>2, <1>5, <2>1, <3>1
      <3>3. i - 1 + 1 = i /\ \A j \in 1..1 : j = 1
          BY <1>1
      <3> QED
          BY <3>1, <3>2, <3>3
    <2>2. CASE i = c
      <3>1. off[i] = i - 1 /\ off[i + 1] = i - 1
        <4>1. i <= c /\ ~(i + 1 <= c) /\ i + 1 - 2 = i - 1
            BY <1>1, <2>2
        <4> QED
            BY <1>3, <2>0, <4>1
      <3>2. Len(s[i]) = 0
          BY <2>2
      <3>3. i - 1 + 0 = i - 1
          BY <1>1
      <3> QED
          BY <3>1, <3>2, <3>3
    <2>3. CASE c < i
      <3>1. off[i] = i - 2 /\ off[i + 1] = i - 1 /\ i \in (c + 1)..n
        <4>1. ~(i <= c) /\ ~(i + 1 <= c) /\ i + 1 - 2 = i - 1 /\ i \in (c + 1)..n
            BY <1>1, <2>3
        <4> QED
            BY <1>3, <2>0, <4>1
      <3>2a. Len(s[i]) = 1 /\ s[i][1] = p[i]
          BY <1>1, <1>5, <2>3
      <3>2b. u[i - 1] = p[i]
          BY <1>2, <3>1
      <3>2. Len(s[i]) = 1 /\ s[i][1] = p[i] /\ u[i - 1] = p[i]
          BY <3>2a, <3>2b
      <3>3. i - 2 + 1 = i - 1 /\ \A j \in 1..1 : j = 1
          BY <1>1
      <3> QED
          BY <3>1, <3>2, <3>3
    <2> QED
        BY <1>1, <2>1, <2>2, <2>3
  <1>9. Joins(s, u, off)
      BY <1>2, <1>4, <1>6, <1>7, <1>8 DEF Joins, Joined
  <1>10. FlattenSeq(s) = u
      BY <1>2, <1>9, FlattenIs
  <1> QED
      BY <1>10 DEF u

\* A table whose rows a blank line c has split.
Split(p, c, T, H, E) ==
  /\ p \in Seq(Line) /\ T \in Nat /\ c \in 4..T /\ T + 1 <= Len(p)
  /\ IsBlank(p[c]) /\ FullHeader(p)
  /\ Shape(Without(p, c), T, H, E, 0)

\* Every other line is one of the page without it.
LEMMA SplitLines ==
    ASSUME NEW p, NEW c, NEW T, NEW H, NEW E, Split(p, c, T, H, E)
    PROVE  /\ OneTable(Without(p, c), T) /\ Len(Without(p, c)) = Len(p) - 1
           /\ \A k \in 1..(c - 1) : k \in 1..T /\ p[k] = Without(p, c)[k]
           /\ \A k \in (c + 1)..Len(p) : k - 1 \in 1..(Len(p) - 1) /\ k - 1 > 2 /\ p[k] = Without(p, c)[k - 1]
  <1>1. p \in Seq(Line) /\ T \in Nat /\ c \in 4..T /\ T + 1 <= Len(p) /\ Shape(Without(p, c), T, H, E, 0)
      BY DEF Split
  <1>2. c \in 1..Len(p) /\ Len(p) \in Nat
      BY <1>1
  <1>3. /\ Len(Without(p, c)) = Len(p) - 1
        /\ \A k \in 1..(c - 1) : Without(p, c)[k] = p[k]
        /\ \A k \in (c + 1)..Len(p) : Without(p, c)[k - 1] = p[k]
      BY <1>1, <1>2, WithoutIs
  <1>4. OneTable(Without(p, c), T)
      BY <1>1, ShapeTable
  <1>5. \A k \in 1..(c - 1) : k \in 1..T
      BY <1>1
  <1>6. \A k \in (c + 1)..Len(p) : k - 1 \in 1..(Len(p) - 1) /\ k - 1 > 2
      BY <1>1, <1>2
  <1> QED
      BY <1>3, <1>4, <1>5, <1>6

LEMMA SplitTable ==
    ASSUME NEW p, NEW c, NEW T, NEW H, NEW E, Split(p, c, T, H, E)
    PROVE  OneTable(p, c - 1) /\ <<c + 1, T + 1>> \in Blocks(p)
  <1> DEFINE u == Without(p, c)
             n == Len(p)
  <1>1. p \in Seq(Line) /\ T \in Nat /\ c \in 4..T /\ T + 1 <= n /\ IsBlank(p[c])
      BY DEF Split
  <1>2. n \in Nat
      BY <1>1
  <1>3. /\ OneTable(u, T) /\ Len(u) = n - 1
        /\ \A k \in 1..(c - 1) : k \in 1..T /\ p[k] = u[k]
        /\ \A k \in (c + 1)..n : k - 1 \in 1..(n - 1) /\ k - 1 > 2 /\ p[k] = u[k - 1]
      BY SplitLines
  <1> HIDE DEF u, n
  <1>4. /\ \A i \in 1..(n - 1) : IsSeparator(u[i]) <=> i = 2
        /\ \A i \in 1..T : IsRow(u[i])
        /\ T = n - 1 \/ ~IsRow(u[T + 1])
      BY <1>3 DEF OneTable, SecondDivides
  <1>5. ~IsRow(p[c]) /\ ~IsSeparator(p[c])
      BY <1>1 DEF IsBlank, IsRow, IsSeparator
  <1>6. \A i \in 1..n : i \in 1..(c - 1) \/ i = c \/ i \in (c + 1)..n
      BY <1>1, <1>2
  <1>7. ASSUME NEW i \in 1..n PROVE IsSeparator(p[i]) <=> i = 2
    <2>1. CASE i \in 1..(c - 1)
      <3>1. i \in 1..(n - 1)
          BY <1>1, <1>2, <2>1
      <3> QED
          BY <1>3, <1>4, <2>1, <3>1
    <2>2. CASE i = c
        BY <1>1, <1>5, <2>2
    <2>3. CASE i \in (c + 1)..n
      <3> DEFINE j == i - 1
      <3>1. j \in 1..(n - 1) /\ j > 2 /\ p[i] = u[j] /\ i = j + 1 /\ j \in Int
          BY <1>2, <1>3, <2>3
      <3> HIDE DEF j
      <3>2. ~IsSeparator(u[j])
          BY <1>4, <3>1
      <3> QED
          BY <3>1, <3>2
    <2> QED
        BY <1>6, <2>1, <2>2, <2>3
  <1>8. \A i \in 1..(c - 1) : IsRow(p[i])
      BY <1>3, <1>4
  <1>9. 1 \in 1..(c - 1) /\ c - 1 \in 2..n /\ c - 1 + 1 = c /\ n >= 2
      BY <1>1, <1>2
  <1>10. OneTable(p, c - 1)
    <2>1. SecondDivides(p)
        BY <1>7, <1>8, <1>9 DEF SecondDivides, n
    <2> QED
        BY <1>5, <1>8, <1>9, <2>1 DEF OneTable, n
  <1>11. ASSUME NEW i \in (c + 1)..(T + 1) PROVE IsRow(p[i])
    <2> DEFINE j == i - 1
    <2>1. i \in (c + 1)..n /\ j \in 1..T
        BY <1>1, <1>2
    <2>2. p[i] = u[j]
        BY <1>3, <2>1
    <2> HIDE DEF j
    <2> QED
        BY <1>4, <2>1, <2>2
  <1>12. T + 1 = n \/ ~IsRow(p[T + 1 + 1])
    <2>1. CASE T + 1 # n
      <3> DEFINE k == T + 1 + 1
      <3>1. k \in (c + 1)..n /\ T # n - 1 /\ k - 1 = T + 1
          BY <1>1, <1>2, <2>1
      <3> HIDE DEF k
      <3>2. p[k] = u[k - 1]
          BY <1>3, <3>1
      <3>3. p[T + 1 + 1] = u[T + 1]
          BY <3>1, <3>2 DEF k
      <3> QED
          BY <1>4, <3>1, <3>3
    <2> QED
        BY <2>1
  <1>13. <<c + 1, T + 1>> \in Blocks(p)
    <2> DEFINE b == <<c + 1, T + 1>>
    <2>1. b[1] = c + 1 /\ b[2] = T + 1 /\ b = <<b[1], b[2]>>
        OBVIOUS
    <2>2. c + 1 \in 1..n /\ T + 1 \in 1..n /\ c + 1 <= T + 1 /\ c + 1 - 1 = c
        BY <1>1, <1>2
    <2> HIDE DEF b
    <2>3. b \in Blocks(p)
        BY <1>1, <1>5, <1>11, <1>12, <2>1, <2>2, BlockIs DEF n
    <2> QED
        BY <2>3 DEF b
  <1> QED
      BY <1>10, <1>13

\* The blank line is all that stands between, and the only one to go.
LEMMA SplitPairs ==
    ASSUME NEW p, NEW c, NEW T, NEW H, NEW E, Split(p, c, T, H, E)
    PROVE  MergedPairs(p) = {<< <<1, c - 1>>, <<c + 1, T + 1>> >>}
  <1> DEFINE a == <<1, c - 1>>
             b == <<c + 1, T + 1>>
  <1>1. p \in Seq(Line) /\ T \in Nat /\ c \in 4..T /\ T + 1 <= Len(p) /\ IsBlank(p[c]) /\ FullHeader(p)
      BY DEF Split
  <1>2. OneTable(p, c - 1) /\ b \in Blocks(p)
      BY SplitTable
  <1>3. HeadedBlocks(p) = {a} /\ HeaderCells(p, a) = CountCells(p[1])
    <2>1. c - 1 \in Nat
        BY <1>1
    <2> QED
        BY <1>1, <1>2, <2>1, TableIs
  <1>4. a[1] = 1 /\ a[2] = c - 1 /\ b[1] = c + 1 /\ b[2] = T + 1 /\ a # b
      BY <1>1
  <1> HIDE DEF a, b
  <1>5. CountCells(p[1]) = 3
      BY <1>1, CellsAre DEF FullHeader
  <1>6. CountCells(p[c + 1]) = 3
    <2>1. c + 1 \in (c + 1)..Len(p) /\ c + 1 - 1 = c /\ c \in 3..T
        BY <1>1
    <2>2. p[c + 1] = Without(p, c)[c + 1 - 1]
        BY <2>1, SplitLines
    <2>3. TableRow(Without(p, c)[c])
        BY <2>1 DEF Split, Shape
    <2>4. TableRow(p[c + 1])
        BY <2>1, <2>2, <2>3
    <2> QED
        BY <2>4, CellsAre DEF TableRow
  <1>7. ASSUME NEW d \in Blocks(p)
        PROVE  /\ d = <<d[1], d[2]>> /\ d[1] \in 1..Len(p) /\ d[2] \in 1..Len(p) /\ d[1] <= d[2]
               /\ d[1] \in d[1]..d[2] /\ IsRow(p[d[1]])
    <2>1. /\ d = <<d[1], d[2]>> /\ d[1] \in 1..Len(p) /\ d[2] \in 1..Len(p) /\ d[1] <= d[2]
          /\ \A i \in d[1]..d[2] : IsRow(p[i])
        BY <1>1, BlockIs
    <2>2. d[1] \in d[1]..d[2]
        BY <2>1
    <2> QED
        BY <2>1, <2>2
  <1>8. \A i \in Between(a, b) : i = c
      BY <1>1, <1>4 DEF Between
  <1>9. OnlyBlankBetween(p, a, b)
      BY <1>1, <1>8 DEF OnlyBlankBetween
  <1>10. ASSUME NEW d \in Blocks(p) PROVE ~(a[2] < d[1] /\ d[2] < b[1])
    <2>1. SUFFICES ASSUME c - 1 < d[1], d[2] < c + 1 PROVE FALSE
        BY <1>4
    <2>2. d[1] = c
        BY <1>1, <1>7, <2>1
    <2> QED
        BY <1>1, <1>7, <2>2 DEF IsBlank, IsRow
  <1>11. <<a, b>> \in MergedPairs(p)
    <2>1. a[2] < b[1]
        BY <1>1, <1>4
    <2>2. CountCells(p[b[1]]) = HeaderCells(p, a)
        BY <1>3, <1>4, <1>5, <1>6
    <2>3. a \in HeadedBlocks(p) /\ b \in Blocks(p) \ HeadedBlocks(p)
        BY <1>2, <1>3, <1>4
    <2> QED
        BY <1>9, <1>10, <2>1, <2>2, <2>3 DEF MergedPairs
  <1>12. ASSUME NEW q \in MergedPairs(p) PROVE q = <<a, b>>
    <2>1. /\ q[1] \in HeadedBlocks(p) /\ q[2] \in Blocks(p) /\ q = <<q[1], q[2]>>
          /\ q[1][2] < q[2][1]
          /\ ~\E d \in Blocks(p) : q[1][2] < d[1] /\ d[2] < q[2][1]
        BY DEF MergedPairs
    <2>2. q[1] = a
        BY <1>3, <2>1
    <2> DEFINE d == q[2]
    <2>3. d \in Blocks(p) /\ a[2] < d[1] /\ ~(a[2] < b[1] /\ b[2] < d[1])
        BY <1>2, <2>1, <2>2
    <2> HIDE DEF d
    <2>4. d[1] \in 1..Len(p) /\ d[1] \in d[1]..d[2] /\ IsRow(p[d[1]])
        BY <1>7, <2>3
    <2>5. d[1] # c
        BY <1>1, <2>4 DEF IsBlank, IsRow
    <2>6. d[1] \in b[1]..b[2]
        BY <1>1, <1>4, <2>3, <2>4, <2>5
    <2>7. d = b
        BY <1>1, <1>2, <2>3, <2>4, <2>6, BlocksApart
    <2> QED
        BY <2>1, <2>2, <2>7 DEF d
  <1>13. MergedPairs(p) = {<<a, b>>}
      BY <1>11, <1>12
  <1> QED
      BY <1>13 DEF a, b

LEMMA MergeSplit ==
    ASSUME NEW p, NEW c, NEW T, NEW H, NEW E, Split(p, c, T, H, E)
    PROVE  MergeHeaderlessContinuationBlocks(p) = Without(p, c)
  <1> DEFINE a == <<1, c - 1>>
             b == <<c + 1, T + 1>>
             s == MergePieces(p)
  <1>1. p \in Seq(Line) /\ T \in Nat /\ c \in 4..T /\ T + 1 <= Len(p)
      BY DEF Split
  <1>2. MergedPairs(p) = {<<a, b>>}
      BY SplitPairs
  <1>3. Between(a, b) = {c}
      BY <1>1 DEF Between
  <1>4. c \in 1..Len(p) /\ DOMAIN p = 1..Len(p)
      BY <1>1
  <1> HIDE DEF a, b
  <1>5. \A i : (\E q \in MergedPairs(p) : i \in Between(q[1], q[2])) <=> i = c
    <2>1. <<a, b>>[1] = a /\ <<a, b>>[2] = b
        OBVIOUS
    <2> QED
        BY <1>2, <1>3, <2>1
  <1>6. s[c] = <<>> /\ \A i \in 1..Len(p) : i # c => s[i] = <<p[i]>>
      BY <1>4, <1>5 DEF MergePieces
  <1>7. /\ MergeHeaderlessContinuationBlocks(p) = FlattenSeq(s)
        /\ s \in Seq(Seq(Line)) /\ Len(s) = Len(p)
      BY <1>1, MergeJoins
  <1> HIDE DEF s
  <1> QED
      BY <1>1, <1>4, <1>6, <1>7, FlattenWithout

-----------------------------------------------------------------------------
(* How a repairable reply is laid out, form by form.                        *)

Precedes(S, R) == \A i \in R, j \in S : j < i
Cut(S, R, a, m) == S = 1..a /\ R = (a + 1)..m
LEMMA Segment ==
    ASSUME NEW m \in Nat, NEW S, NEW R, S \cup R = 1..m, Precedes(S, R)
    PROVE  \E a \in 0..m : Cut(S, R, a, m)
  <1> USE DEF Precedes, Cut
  <1>1. CASE R = {}
    <2>1. m \in 0..m /\ S = 1..m /\ R = (m + 1)..m
        BY <1>1
    <2> QED
        BY <2>1
  <1>2. CASE R # {}
    <2>1. R \subseteq Nat /\ R \subseteq 1..m /\ S \subseteq 1..m
        OBVIOUS
    <2>2. PICK r \in R : \A j \in R : r <= j
        BY <1>2, <2>1, LeastOne
    <2>3. r \in 1..m
        BY <2>1, <2>2
    <2>4. ASSUME NEW i \in 1..m PROVE (i \in S <=> i < r) /\ (i \in R <=> ~(i < r))
      <3>1. i \in S => i < r
          BY <2>2
      <3>2. i \in R => r <= i
          BY <2>2
      <3> QED
          BY <2>3, <3>1, <3>2
    <2>5. \A i \in 1..m : (i \in S <=> i \in 1..(r - 1)) /\ (i \in R <=> i \in (r - 1 + 1)..m)
        BY <2>3, <2>4
    <2>6. 1..(r - 1) \subseteq 1..m /\ (r - 1 + 1)..m \subseteq 1..m /\ r - 1 \in 0..m
        BY <2>3
    <2>7. S = 1..(r - 1) /\ R = (r - 1 + 1)..m
        BY <2>1, <2>5, <2>6
    <2> QED
        BY <2>6, <2>7
  <1> QED
      BY <1>1, <1>2

LEMMA IntervalCount ==
    ASSUME NEW a \in Nat, NEW z \in Nat, a <= z
    PROVE  IsFiniteSet((a + 1)..z) /\ Cardinality((a + 1)..z) = z - a
  <1>1. a + 1 \in Int /\ z \in Int
      OBVIOUS
  <1>2. /\ IsFiniteSet((a + 1)..z)
        /\ Cardinality((a + 1)..z) = IF a + 1 > z THEN 0 ELSE z - (a + 1) + 1
      BY <1>1, FS_Interval
  <1>3. (IF a + 1 > z THEN 0 ELSE z - (a + 1) + 1) = z - a
      OBVIOUS
  <1> QED
      BY <1>2, <1>3

\* Rows (a blank line among them, perhaps), then notes, then escaped rows.
LaidOut(a, c, m) ==
  /\ a \in Nat /\ c \in Nat /\ m \in Nat /\ Len(wrote) = m + 1
  /\ 1 <= a /\ a <= c /\ c <= m
  /\ wrote[1] \in {"header", "short header"}
  /\ \A i \in 1..a : wrote[i + 1] \in {"row", "loose", "blank"}
  /\ \A i \in (a + 1)..c : wrote[i + 1] = "note"
  /\ \A i \in (c + 1)..m : wrote[i + 1] = "escaped"
  /\ (c - a) + 2 * ((m - c) - 1) <= HeadingSplitMaxGapLines
  /\ Cardinality(FormPlaces("escaped")) = m - c
Unbroken(a) == Cardinality(RowForms) = a /\ \A i \in 1..a : wrote[i + 1] # "blank"
BrokenAt(a, k) ==
  /\ k \in 2..a /\ wrote[1] = "header" /\ Cardinality(RowForms) = a - 1
  /\ \A i \in 1..a : wrote[i + 1] = "blank" <=> i = k

LEMMA RepairableIs ==
    ASSUME wrote \in Seq(Forms), Repairable
    PROVE  \E a \in Nat : \E c \in Nat : \E m \in Nat :
               LaidOut(a, c, m) /\ (Unbroken(a) \/ \E k \in 2..a : BrokenAt(a, k))
  <1> DEFINE m == Len(wrote) - 1
             Rows == RowForms
             Blanks == FormPlaces("blank")
             Notes == FormPlaces("note")
             Escapes == FormPlaces("escaped")
  <1>1. m \in Nat /\ Len(wrote) = m + 1 /\ wrote[1] \in {"header", "short header"}
    <2>1. Len(wrote) \in Nat /\ Len(wrote) # 0
        BY EmptySeq DEF Repairable
    <2>2. m \in Nat /\ Len(wrote) = m + 1
        BY <2>1
    <2>3. wrote[1] \in {"header", "short header"}
        BY DEF Repairable
    <2> QED
        BY <2>2, <2>3
  <1>1a. m \in Nat
      BY <1>1
  <1>2. DOMAIN Body = 1..m /\ \A i \in 1..m : Body[i] = wrote[i + 1]
      BY DEF Body
  <1>3. /\ Blanks = {i \in 1..m : wrote[i + 1] = "blank"}
        /\ Notes = {i \in 1..m : wrote[i + 1] = "note"}
        /\ Escapes = {i \in 1..m : wrote[i + 1] = "escaped"}
        /\ Rows = {i \in 1..m : wrote[i + 1] \in {"row", "loose"}}
      BY <1>2 DEF FormPlaces, RowForms
  <1>4. /\ Rows \cup Escapes \cup Notes \cup Blanks = 1..m
        /\ Rows # {} /\ Body[1] \in {"row", "loose"}
        /\ \A i \in Escapes, j \in Rows \cup Notes \cup Blanks : j < i
        /\ \A i \in Notes, j \in Rows \cup Blanks : j < i
        /\ Cardinality(Notes) + 2 * (Cardinality(Escapes) - 1) <= HeadingSplitMaxGapLines
        /\ Blanks # {} => wrote[1] = "header" /\ Cardinality(Blanks) = 1
      BY <1>2 DEF Repairable
  <1> HIDE DEF m, Rows, Blanks, Notes, Escapes
  <1>5. PICK c \in 0..m : Rows \cup Notes \cup Blanks = 1..c /\ Escapes = (c + 1)..m
    <2> DEFINE S == Rows \cup Notes \cup Blanks
    <2>1. S \cup Escapes = 1..m /\ Precedes(S, Escapes)
        BY <1>4 DEF Precedes
    <2> HIDE DEF S
    <2>2. \E c \in 0..m : Cut(S, Escapes, c, m)
        BY <1>1a, <2>1, Segment
    <2> QED
        BY <2>2 DEF S, Cut
  <1>5a. c \in Nat /\ c <= m
    <2>1. c \in 0..m
        BY <1>5
    <2> QED
        BY <1>1a, <2>1
  <1>6. PICK a \in 0..c : Rows \cup Blanks = 1..a /\ Notes = (a + 1)..c
    <2> DEFINE S == Rows \cup Blanks
    <2>1. S \cup Notes = 1..c /\ Precedes(S, Notes)
        BY <1>4, <1>5 DEF Precedes
    <2>2. c \in Nat
        BY <1>1a, <1>5
    <2> HIDE DEF S
    <2>3. \E a \in 0..c : Cut(S, Notes, a, c)
        BY <2>1, <2>2, Segment
    <2> QED
        BY <2>3 DEF S, Cut
  <1>7. a \in Nat /\ c \in Nat /\ a <= c /\ c <= m
    <2>1. a \in 0..c
        BY <1>6
    <2> QED
        BY <1>5a, <2>1
  <1>8. 1 <= a
    <2>1. PICK i \in Rows : TRUE
        BY <1>4
    <2>2. i \in 1..a
        BY <1>6, <2>1
    <2> QED
        BY <1>7, <2>2
  <1>9. Cardinality(Notes) = c - a /\ Cardinality(Escapes) = m - c
    <2>1. Cardinality((a + 1)..c) = c - a
        BY <1>7, IntervalCount
    <2>2. Cardinality((c + 1)..m) = m - c
        BY <1>1, <1>7, IntervalCount
    <2> QED
        BY <1>5, <1>6, <2>1, <2>2
  <1>10. \A i \in 1..a : wrote[i + 1] \in {"row", "loose", "blank"}
      BY <1>3, <1>6
  <1>11. \A i \in (a + 1)..c : wrote[i + 1] = "note"
      BY <1>3, <1>6
  <1>12. \A i \in (c + 1)..m : wrote[i + 1] = "escaped"
      BY <1>3, <1>5
  <1>13. LaidOut(a, c, m)
    <2>1. (c - a) + 2 * ((m - c) - 1) <= HeadingSplitMaxGapLines
        BY <1>4, <1>9
    <2> QED
        BY <1>1, <1>7, <1>8, <1>9, <1>10, <1>11, <1>12, <2>1 DEF LaidOut, Escapes
  <1>14. Cardinality(1..a) = a /\ IsFiniteSet(1..a)
    <2>1. a \in Nat /\ 1 \in Int /\ a \in Int
        BY <1>7
    <2>2. IsFiniteSet(1..a) /\ Cardinality(1..a) = IF 1 > a THEN 0 ELSE a - 1 + 1
        BY <2>1, FS_Interval
    <2> QED
        BY <1>8, <2>1, <2>2
  <1>15. \A i \in 1..a : i \in 1..m
      BY <1>1a, <1>7
  <1>16. CASE Blanks = {}
    <2>1. Rows = 1..a
        BY <1>6, <1>16
    <2>2. \A i \in 1..a : wrote[i + 1] # "blank"
        BY <1>3, <1>15, <1>16
    <2>3. Unbroken(a)
        BY <1>14, <2>1, <2>2 DEF Unbroken, Rows
    <2> QED
        BY <1>1, <1>7, <1>13, <2>3
  <1>17. CASE Blanks # {}
    <2>1. IsFiniteSet(Blanks) /\ Cardinality(Blanks) = 1
      <3>1. Blanks \subseteq 1..a
          BY <1>6
      <3> QED
          BY <1>4, <1>14, <1>17, <3>1, FS_Subset
    <2>2. PICK k : Blanks = {k}
        BY <2>1, FS_Singleton
    <2>3. k \in 1..a /\ k \in 1..m
        BY <1>6, <1>15, <2>2
    <2>4. wrote[2] \in {"row", "loose"}
      <3>1. 1 \in 1..m /\ 1 + 1 = 2
          BY <1>1a, <1>7, <1>8
      <3> QED
          BY <1>2, <1>4, <3>1
    <2>5. k # 1
      <3>1. wrote[k + 1] = "blank"
          BY <1>3, <2>2
      <3>2. k = 1 => wrote[2] = "blank"
          BY <3>1
      <3> QED
          BY <2>4, <3>2
    <2>6. \A i \in 1..a : wrote[i + 1] = "blank" <=> i = k
        BY <1>3, <1>15, <2>2
    <2>7. Rows = (1..a) \ {k}
      <3>1. Rows \subseteq 1..a
          BY <1>6
      <3>2. k \notin Rows
          BY <1>3, <2>2
      <3>3. 1..a \subseteq Rows \cup {k}
          BY <1>6, <2>2
      <3> QED
          BY <3>1, <3>2, <3>3
    <2>8. Cardinality(Rows) = a - 1
      <3>1. Cardinality((1..a) \ {k}) = Cardinality(1..a) - 1
          BY <1>14, <2>3, FS_RemoveElement
      <3> QED
          BY <1>14, <2>7, <3>1
    <2>9. k \in 2..a
        BY <1>7, <2>3, <2>5
    <2>10. BrokenAt(a, k)
        BY <1>4, <1>17, <2>6, <2>8, <2>9 DEF BrokenAt, Rows
    <2> QED
        BY <1>1, <1>7, <1>13, <2>9, <2>10
  <1> QED
      BY <1>16, <1>17

\* The draft of such a reply, line by line.
Drafted(d, a, c, m) ==
  /\ d \in Seq(Line) /\ Len(d) = (c + 2) + 2 * (m - c)
  /\ Header(d) /\ (wrote[1] = "header" => FullHeader(d))
  /\ \A i \in 1..a : \/ wrote[i + 1] = "blank" /\ d[i + 2].kind = "blank"
                     \/ wrote[i + 1] # "blank" /\ d[i + 2].kind \in {"row", "loose"} /\ d[i + 2].cells = HeadRow
  /\ \A i \in (a + 1)..c : d[i + 2].kind = "text"
  /\ \A e \in 1..(m - c) : /\ d[At(c + 2, e)].kind = "heading"
                           /\ IsRow(d[At(c + 2, e) + 1]) /\ d[At(c + 2, e) + 1].cells = <<"v", "v">>
  /\ \A i \in 1..Len(d) : d[i].from = <<i>>

\* Where the pieces of the reply begin.
LEMMA PiecesLie ==
    ASSUME wrote \in Seq(Forms), NEW a, NEW c, NEW m, LaidOut(a, c, m),
           NEW off, Joins(WrittenPieces, Reply, off)
    PROVE  /\ off[1] = 0 /\ \A i \in 1..c : off[i + 1] = i + 1
           /\ \A e \in 1..(m - c) : off[c + 1 + e] = c + 2 + 2 * (e - 1)
           /\ Len(Reply) = (c + 2) + 2 * (m - c)
  <1> DEFINE s == WrittenPieces
             n == m + 1
  <1>1. /\ a \in Nat /\ c \in Nat /\ m \in Nat /\ Len(wrote) = n
        /\ 1 <= a /\ a <= c /\ c <= m
        /\ wrote[1] \in {"header", "short header"}
        /\ \A i \in 1..a : wrote[i + 1] \in {"row", "loose", "blank"}
        /\ \A i \in (a + 1)..c : wrote[i + 1] = "note"
        /\ \A i \in (c + 1)..m : wrote[i + 1] = "escaped"
      BY DEF LaidOut
  <1>0. a \in Nat /\ c \in Nat /\ m \in Nat /\ 1 <= a /\ a <= c /\ c <= m
      BY <1>1
  <1>2. Len(s) = n /\ \A i \in 1..n : s[i] = Written(wrote[i])
      BY <1>1, DraftIs
  <1>3. /\ off \in [1..(n + 1) -> Nat] /\ off[1] = 0 /\ off[n + 1] = Len(Reply)
        /\ \A i \in 1..n : off[i + 1] = off[i] + Len(s[i])
      BY <1>2 DEF Joins, Joined
  <1>4. n = m + 1 /\ n \in Nat
      BY <1>0
  <1> HIDE DEF s, n
  <1>5. off[2] = 2
    <2>1. 1 \in 1..n /\ 1 + 1 = 2
        BY <1>0, <1>4
    <2>2. Len(s[1]) = 2
        BY <1>1, <1>2, <2>1, WrittenIs DEF TwoRows
    <2>3. off[2] = 0 + 2
        BY <1>3, <2>1, <2>2
    <2> QED
        BY <2>3
  <1>6. ASSUME NEW i \in 1..c PROVE Len(s[i + 1]) = 1
    <2>1. i + 1 \in 1..n /\ (i \in 1..a \/ i \in (a + 1)..c)
        BY <1>0, <1>4
    <2>2. wrote[i + 1] \in {"row", "loose", "blank", "note"}
        BY <1>1, <2>1
    <2> QED
        BY <1>2, <2>1, <2>2, WrittenIs DEF OneRow
  <1>7. OneEach(s, 2, c + 2)
    <2> DEFINE z == c + 2
    <2>1. ASSUME NEW j \in 2..(z - 1) PROVE Len(s[j]) = 1
      <3>1. j - 1 \in 1..c /\ j - 1 + 1 = j
          BY <1>0
      <3>2. Len(s[j - 1 + 1]) = 1
          BY <1>6, <3>1
      <3> QED
          BY <3>1, <3>2
    <2> HIDE DEF z
    <2>2. OneEach(s, 2, z)
        BY <2>1 DEF OneEach
    <2> QED
        BY <2>2 DEF z
  <1>8. ASSUME NEW i \in 2..(c + 2) PROVE off[i] = i
    <2>1. 2 \in 1..Len(s) /\ c + 2 \in 2..(Len(s) + 1) /\ Len(s) \in Nat
        BY <1>0, <1>2, <1>4
    <2>2. Evenly(off, 2, c + 2)
        BY <1>7, <2>1, Consecutive DEF s
    <2>3. off[i] = off[2] + (i - 2)
        BY <2>2 DEF Evenly
    <2>4. 2 + (i - 2) = i
        BY <1>0
    <2> QED
        BY <1>5, <2>3, <2>4
  <1>9. ASSUME NEW i \in (c + 1)..m PROVE i + 1 \in 1..n /\ Len(s[i + 1]) = 2
    <2>1. i + 1 \in 1..n
        BY <1>0, <1>4
    <2>2. wrote[i + 1] = "escaped"
        BY <1>1
    <2> QED
        BY <1>2, <2>1, <2>2, WrittenIs DEF TwoRows
  <1>10. ASSUME NEW e \in Nat, e <= m - c PROVE off[c + 2 + e] = c + 2 + 2 * e
    <2> DEFINE S == {d \in Nat : d <= m - c => off[c + 2 + d] = c + 2 + 2 * d}
    <2>1. 0 \in S
      <3>1. c + 2 + 0 \in 2..(c + 2) /\ c + 2 + 2 * 0 = c + 2 + 0
          BY <1>0
      <3>2. off[c + 2 + 0] = c + 2 + 0
          BY <1>8, <3>1
      <3> QED
          BY <3>1, <3>2
    <2>2. ASSUME NEW d \in Nat, d \in S PROVE d + 1 \in S
      <3>1. CASE d + 1 <= m - c
        <4> DEFINE k == c + 1 + d + 1
        <4>1. c + 1 + d \in (c + 1)..m /\ k = c + 2 + d /\ k + 1 = c + 2 + (d + 1)
            BY <1>0, <3>1
        <4>2. k \in 1..n /\ Len(s[k]) = 2
            BY <1>9, <4>1
        <4> HIDE DEF k
        <4>3. off[k + 1] = off[k] + 2
            BY <1>3, <4>2
        <4>4. off[k] = c + 2 + 2 * d
            BY <1>0, <2>2, <3>1, <4>1
        <4>5. c + 2 + 2 * d + 2 = c + 2 + 2 * (d + 1)
            BY <1>0
        <4>6. off[c + 2 + (d + 1)] = c + 2 + 2 * (d + 1)
            BY <4>1, <4>3, <4>4, <4>5
        <4> QED
            BY <4>6
      <3> QED
          BY <3>1
    <2> HIDE DEF S
    <2>3. e \in S
        BY <2>1, <2>2, Counting
    <2> QED
        BY <1>10, <2>3 DEF S
  <1>11. \A i \in 1..c : off[i + 1] = i + 1
    <2>1. \A i \in 1..c : i + 1 \in 2..(c + 2)
        BY <1>0
    <2> QED
        BY <1>8, <2>1
  <1>12. ASSUME NEW e \in 1..(m - c) PROVE off[c + 1 + e] = c + 2 + 2 * (e - 1)
    <2> DEFINE d == e - 1
    <2>1. d \in Nat /\ d <= m - c /\ c + 1 + e = c + 2 + d
        BY <1>0
    <2> HIDE DEF d
    <2>2. off[c + 1 + e] = c + 2 + 2 * d
        BY <1>10, <2>1
    <2> QED
        BY <2>2 DEF d
  <1>13. Len(Reply) = (c + 2) + 2 * (m - c)
    <2> DEFINE d == m - c
    <2>1. d \in Nat /\ d <= m - c /\ c + 2 + d = n + 1
        BY <1>0, <1>4
    <2> HIDE DEF d
    <2>2. off[n + 1] = c + 2 + 2 * d
        BY <1>10, <2>1
    <2> QED
        BY <1>3, <2>2 DEF d
  <1> QED
      BY <1>3, <1>11, <1>12, <1>13

LEMMA DraftedIs ==
    ASSUME wrote \in Seq(Forms), NEW a, NEW c, NEW m, LaidOut(a, c, m)
    PROVE  Drafted(Draft, a, c, m)
  <1> DEFINE s == WrittenPieces
             d == Draft
  <1>1. /\ a \in Nat /\ c \in Nat /\ m \in Nat /\ 1 <= a /\ a <= c /\ c <= m
      BY DEF LaidOut
  <1>2. /\ Len(wrote) = m + 1
        /\ wrote[1] \in {"header", "short header"}
        /\ \A i \in 1..a : wrote[i + 1] \in {"row", "loose", "blank"}
        /\ \A i \in (a + 1)..c : wrote[i + 1] = "note"
        /\ \A i \in (c + 1)..m : wrote[i + 1] = "escaped"
      BY DEF LaidOut
  <1>3. /\ s \in Seq(Seq(Bare)) /\ Len(s) = m + 1
        /\ \A i \in 1..(m + 1) : s[i] = Written(wrote[i])
        /\ d \in Seq(Line) /\ Len(d) = Len(Reply)
        /\ \A i \in 1..Len(Reply) : /\ d[i].kind = Reply[i].kind /\ d[i].cells = Reply[i].cells
                                    /\ d[i].from = <<i>>
      BY <1>2, DraftIs
  <1>4. PICK off : Joins(s, Reply, off)
      BY <1>3, FlattenJoins DEF Reply
  <1>5. /\ off[1] = 0 /\ \A i \in 1..c : off[i + 1] = i + 1
        /\ \A e \in 1..(m - c) : off[c + 1 + e] = c + 2 + 2 * (e - 1)
        /\ Len(Reply) = (c + 2) + 2 * (m - c)
      BY <1>4, PiecesLie
  <1> HIDE DEF s, d
  <1>6. ASSUME NEW i \in 1..(m + 1), NEW j \in 1..Len(s[i]), NEW k \in 1..Len(Reply), k = off[i] + j
        PROVE  d[k].kind = s[i][j].kind /\ d[k].cells = s[i][j].cells
    <2>1. Reply[off[i] + j] = s[i][j]
        BY <1>3, <1>4 DEF Joins, Joined
    <2> QED
        BY <1>3, <1>6, <2>1
  <1>7. Header(d) /\ (wrote[1] = "header" => FullHeader(d))
    <2>1. 1 \in 1..(m + 1) /\ 1 \in 1..Len(Reply) /\ 2 \in 1..Len(Reply) /\ 1 = 0 + 1 /\ 2 = 0 + 2
        BY <1>1, <1>5
    <2>2. s[1] = Written(wrote[1])
        BY <1>3, <2>1
    <2>3. Len(s[1]) = 2
        BY <1>2, <2>2, WrittenIs DEF TwoRows
    <2>4. 1 \in 1..Len(s[1]) /\ 2 \in 1..Len(s[1])
        BY <2>3
    <2>5. d[1].kind = s[1][1].kind /\ d[1].cells = s[1][1].cells
        BY <1>5, <1>6, <2>1, <2>4
    <2>6. d[2].kind = s[1][2].kind /\ d[2].cells = s[1][2].cells
        BY <1>5, <1>6, <2>1, <2>4
    <2>7. CASE wrote[1] = "header"
      <3>1. TwoRows(s[1], "row", ThreeWords, "row", ThreeDashes)
          BY <2>2, <2>7, WrittenIs DEF ThreeWords, ThreeDashes
      <3>2. /\ d[1].kind = "row" /\ d[1].cells = ThreeWords
            /\ d[2].kind = "row" /\ d[2].cells = ThreeDashes
          BY <2>5, <2>6, <3>1 DEF TwoRows
      <3> QED
          BY <3>2 DEF Header, FullHeader, IsRow
    <2>8. CASE wrote[1] = "short header"
      <3>1. TwoRows(s[1], "row", <<"w", "w">>, "row", <<"-", "-">>)
          BY <2>2, <2>8, WrittenIs
      <3>2. /\ d[1].kind = "row" /\ d[1].cells = <<"w", "w">>
            /\ d[2].kind = "row" /\ d[2].cells = <<"-", "-">>
          BY <2>5, <2>6, <3>1 DEF TwoRows
      <3> QED
          BY <2>8, <3>2 DEF Header, ShortHeader, IsRow
    <2> QED
        BY <1>2, <2>7, <2>8
  <1>8. ASSUME NEW i \in 1..c, NEW k, NEW cells, OneRow(Written(wrote[i + 1]), k, cells)
        PROVE  d[i + 2].kind = k /\ d[i + 2].cells = cells
    <2>1. i + 1 \in 1..(m + 1) /\ i + 2 \in 1..Len(Reply) /\ i + 2 = i + 1 + 1
        BY <1>1, <1>5
    <2> DEFINE x == i + 1
               y == i + 2
    <2>2. off[x] = i + 1 /\ x \in 1..(m + 1) /\ y \in 1..Len(Reply) /\ s[x] = Written(wrote[x])
        BY <1>3, <1>5, <2>1
    <2>3. OneRow(s[x], k, cells)
        BY <1>8, <2>2
    <2>4. y = off[x] + 1
        BY <2>1, <2>2
    <2> HIDE DEF x, y
    <2>5. 1 \in 1..Len(s[x]) /\ s[x][1].kind = k /\ s[x][1].cells = cells
        BY <2>3 DEF OneRow
    <2>6. d[y].kind = k /\ d[y].cells = cells
        BY <1>6, <2>2, <2>4, <2>5
    <2> QED
        BY <2>6 DEF y
  <1>9. ASSUME NEW i \in 1..a
        PROVE  \/ wrote[i + 1] = "blank" /\ d[i + 2].kind = "blank"
               \/ wrote[i + 1] # "blank" /\ d[i + 2].kind \in {"row", "loose"} /\ d[i + 2].cells = HeadRow
    <2>1. i \in 1..c
        BY <1>1
    <2>2. CASE wrote[i + 1] = "blank"
      <3>1. OneRow(Written(wrote[i + 1]), "blank", <<"e">>)
          BY <2>2, WrittenIs
      <3> QED
          BY <1>8, <2>1, <2>2, <3>1
    <2>3. CASE wrote[i + 1] = "row"
      <3>1. OneRow(Written(wrote[i + 1]), "row", HeadRow)
          BY <2>3, WrittenIs DEF HeadRow
      <3> QED
          BY <1>8, <2>1, <2>3, <3>1
    <2>4. CASE wrote[i + 1] = "loose"
      <3>1. OneRow(Written(wrote[i + 1]), "loose", HeadRow)
          BY <2>4, WrittenIs DEF HeadRow
      <3> QED
          BY <1>8, <2>1, <2>4, <3>1
    <2> QED
        BY <1>2, <2>2, <2>3, <2>4
  <1>10. ASSUME NEW i \in (a + 1)..c PROVE d[i + 2].kind = "text"
    <2>1. i \in 1..c
        BY <1>1
    <2>2. OneRow(Written(wrote[i + 1]), "text", <<"w">>)
        BY <1>2, WrittenIs
    <2> QED
        BY <1>8, <2>1, <2>2
  <1>11. ASSUME NEW e \in 1..(m - c)
         PROVE  /\ d[At(c + 2, e)].kind = "heading"
                /\ IsRow(d[At(c + 2, e) + 1]) /\ d[At(c + 2, e) + 1].cells = <<"v", "v">>
    <2> DEFINE x == c + 1 + e
               h == At(c + 2, e)
               E == m - c
               H == c + 2
    <2>1. x \in 1..(m + 1) /\ x - 1 \in (c + 1)..m /\ x = x - 1 + 1
        BY <1>1
    <2>2. wrote[x] = "escaped"
      <3> HIDE DEF x
      <3>1. wrote[x - 1 + 1] = "escaped"
          BY <1>2, <2>1
      <3> QED
          BY <2>1, <3>1
    <2>3. off[x] = c + 2 + 2 * (e - 1)
        BY <1>5
    <2>4. h = c + 2 + 2 * (e - 1) + 1 /\ h + 1 = c + 2 + 2 * (e - 1) + 2
        BY <1>1 DEF At
    <2>5. h \in 1..Len(Reply) /\ h + 1 \in 1..Len(Reply)
      <3>1. H \in Nat /\ E \in Nat /\ Len(Reply) = H + 2 * E
          BY <1>1, <1>5
      <3>2. h \in (H + 1)..(H + 2 * E) /\ h + 1 \in (H + 1)..(H + 2 * E)
          BY <3>1, AtIs
      <3> HIDE DEF h, H, E
      <3> QED
          BY <3>1, <3>2
    <2> HIDE DEF x, h
    <2>6. TwoRows(s[x], "heading", <<"w">>, "row", <<"v", "v">>)
        BY <1>3, <2>1, <2>2, WrittenIs
    <2>7. /\ 1 \in 1..Len(s[x]) /\ 2 \in 1..Len(s[x])
          /\ s[x][1].kind = "heading" /\ s[x][2].kind = "row" /\ s[x][2].cells = <<"v", "v">>
        BY <2>6 DEF TwoRows
    <2>8. d[h].kind = "heading"
      <3>1. h = off[x] + 1
          BY <2>3, <2>4
      <3> QED
          BY <1>6, <2>1, <2>5, <2>7, <3>1
    <2>9. d[h + 1].kind = "row" /\ d[h + 1].cells = <<"v", "v">>
      <3> DEFINE g == h + 1
      <3>1. g = off[x] + 2 /\ g \in 1..Len(Reply)
          BY <2>3, <2>4, <2>5
      <3> HIDE DEF g
      <3>2. d[g].kind = "row" /\ d[g].cells = <<"v", "v">>
          BY <1>6, <2>1, <2>7, <3>1
      <3> QED
          BY <3>2 DEF g
    <2> QED
        BY <2>8, <2>9 DEF h, IsRow
  <1>12. Len(d) = (c + 2) + 2 * (m - c)
      BY <1>3, <1>5
  <1>13. \A i \in 1..Len(d) : d[i].from = <<i>>
      BY <1>3
  <1>14. Drafted(d, a, c, m)
      BY <1>3, <1>7, <1>9, <1>10, <1>11, <1>12, <1>13 DEF Drafted
  <1> QED
      BY <1>14 DEF d

\* The same lines with their edge pipes.
Piped(q, a, c, m) ==
  /\ q \in Seq(Line) /\ Len(q) = (c + 2) + 2 * (m - c)
  /\ Header(q) /\ (wrote[1] = "header" => FullHeader(q))
  /\ \A i \in 1..a : \/ wrote[i + 1] = "blank" /\ q[i + 2].kind = "blank"
                     \/ wrote[i + 1] # "blank" /\ TableRow(q[i + 2])
  /\ \A i \in (a + 1)..c : q[i + 2].kind = "text"
  /\ \A e \in 1..(m - c) : /\ q[At(c + 2, e)].kind = "heading"
                           /\ IsRow(q[At(c + 2, e) + 1]) /\ q[At(c + 2, e) + 1].cells = <<"v", "v">>
  /\ \A i \in 1..Len(q) : q[i].from = <<i>>

LEMMA DraftedPlain ==
    ASSUME NEW a, NEW c, NEW m, LaidOut(a, c, m), NEW d, Drafted(d, a, c, m)
    PROVE  NeutralizeChartLikeTables(d) = d
  <1>1. a \in Nat /\ c \in Nat /\ m \in Nat /\ 1 <= a /\ a <= c /\ c <= m
      BY DEF LaidOut
  <1>2. /\ d \in Seq(Line) /\ Len(d) = (c + 2) + 2 * (m - c) /\ Header(d)
        /\ \A i \in 1..a : \/ d[i + 2].kind = "blank"
                           \/ d[i + 2].kind \in {"row", "loose"} /\ d[i + 2].cells = HeadRow
        /\ \A i \in (a + 1)..c : d[i + 2].kind = "text"
        /\ \A e \in 1..(m - c) : /\ d[At(c + 2, e)].kind = "heading"
                                 /\ IsRow(d[At(c + 2, e) + 1]) /\ d[At(c + 2, e) + 1].cells = <<"v", "v">>
      BY DEF Drafted
  <1> DEFINE H == c + 2
             E == m - c
  <1>3. H \in Nat /\ E \in Nat /\ Len(d) = H + 2 * E
      BY <1>1, <1>2
  <1>4. ASSUME NEW i \in 3..Len(d) PROVE ~IsSeparator(d[i])
    <2>1. CASE i \in 3..(a + 2)
      <3> DEFINE j == i - 2
      <3>1. j \in 1..a /\ i = j + 2
          BY <1>1, <2>1
      <3> HIDE DEF j
      <3>2. \/ d[i].kind = "blank"
            \/ d[i].kind \in {"row", "loose"} /\ d[i].cells = HeadRow
          BY <1>2, <3>1
      <3> QED
          BY <3>2, CellsAre DEF IsSeparator, IsRow
    <2>2. CASE i \in (a + 3)..(c + 2)
      <3> DEFINE j == i - 2
      <3>1. j \in (a + 1)..c /\ i = j + 2
          BY <1>1, <2>2
      <3> HIDE DEF j
      <3>2. d[i].kind = "text"
          BY <1>2, <3>1
      <3> QED
          BY <3>2 DEF IsSeparator, IsRow
    <2>3. CASE i \in (H + 1)..(H + 2 * E)
      <3>1. PICK e \in 1..E : i = At(H, e) \/ i = At(H, e) + 1
          BY <1>3, <2>3, Pairs
      <3>2. CASE i = At(H, e)
          BY <1>2, <3>2 DEF IsSeparator, IsRow
      <3>3. CASE i = At(H, e) + 1
          BY <1>2, <3>3, CellsAre
      <3> QED
          BY <3>1, <3>2, <3>3
    <2>4. i \in 3..(a + 2) \/ i \in (a + 3)..(c + 2) \/ i \in (H + 1)..(H + 2 * E)
        BY <1>1, <1>3
    <2> QED
        BY <2>1, <2>2, <2>3, <2>4
  <1>5. SecondDivides(d)
    <2>1. Len(d) >= 2
        BY <1>1, <1>3
    <2>2. IsRow(d[1]) /\ ~IsSeparator(d[1]) /\ IsSeparator(d[2])
        BY <1>2, HeaderIs DEF Header
    <2> QED
        BY <1>2, <1>4, <2>1, <2>2, TopDivides
  <1>6. CountCells(d[1]) < ChartTableMaxHeaderCells
    <2>1. CountCells(d[1]) \in {2, 3}
        BY <1>2, HeaderIs DEF Header
    <2> QED
        BY <2>1, TableAssumption
  <1> QED
      BY <1>2, <1>5, <1>6, NoCharts

LEMMA PipedIs ==
    ASSUME NEW a, NEW c, NEW m, LaidOut(a, c, m), NEW d, Drafted(d, a, c, m)
    PROVE  Piped(NormalizeMalformedPipeRows(d), a, c, m)
  <1> DEFINE q == NormalizeMalformedPipeRows(d)
             H == c + 2
             E == m - c
  <1>1. a \in Nat /\ c \in Nat /\ m \in Nat /\ 1 <= a /\ a <= c /\ c <= m
      BY DEF LaidOut
  <1>2. /\ d \in Seq(Line) /\ Len(d) = (c + 2) + 2 * (m - c) /\ Header(d) /\ (wrote[1] = "header" => FullHeader(d))
        /\ \A i \in 1..a : \/ wrote[i + 1] = "blank" /\ d[i + 2].kind = "blank"
                           \/ wrote[i + 1] # "blank" /\ d[i + 2].kind \in {"row", "loose"} /\ d[i + 2].cells = HeadRow
        /\ \A i \in (a + 1)..c : d[i + 2].kind = "text"
        /\ \A e \in 1..(m - c) : /\ d[At(c + 2, e)].kind = "heading"
                                 /\ IsRow(d[At(c + 2, e) + 1]) /\ d[At(c + 2, e) + 1].cells = <<"v", "v">>
        /\ \A i \in 1..Len(d) : d[i].from = <<i>>
      BY DEF Drafted
  <1>3. /\ q \in Seq(Line) /\ Len(q) = Len(d)
        /\ \A i \in 1..Len(d) : /\ q[i].kind = IF d[i].kind = "loose" THEN "row" ELSE d[i].kind
                                /\ q[i].cells = d[i].cells /\ q[i].from = d[i].from
      BY <1>2, NormalizeIs
  <1>4. H \in Nat /\ E \in Nat /\ Len(d) = H + 2 * E
      BY <1>1, <1>2
  <1> HIDE DEF q
  <1>5. Header(q) /\ (wrote[1] = "header" => FullHeader(q))
    <2>1. 1 \in 1..Len(d) /\ 2 \in 1..Len(d)
        BY <1>1, <1>4
    <2>2. d[1].kind = "row" /\ d[2].kind = "row"
        BY <1>2 DEF Header, IsRow
    <2>3. q[1].kind = "row" /\ q[2].kind = "row" /\ q[1].cells = d[1].cells /\ q[2].cells = d[2].cells
        BY <1>3, <2>1, <2>2
    <2> QED
        BY <1>2, <2>3 DEF Header, FullHeader, ShortHeader, IsRow
  <1>6. ASSUME NEW i \in 1..a
        PROVE  \/ wrote[i + 1] = "blank" /\ q[i + 2].kind = "blank"
               \/ wrote[i + 1] # "blank" /\ TableRow(q[i + 2])
    <2>1. i + 2 \in 1..Len(d)
        BY <1>1, <1>4
    <2>2. \/ wrote[i + 1] = "blank" /\ d[i + 2].kind = "blank"
          \/ wrote[i + 1] # "blank" /\ d[i + 2].kind \in {"row", "loose"} /\ d[i + 2].cells = HeadRow
        BY <1>2
    <2>3. /\ q[i + 2].kind = IF d[i + 2].kind = "loose" THEN "row" ELSE d[i + 2].kind
          /\ q[i + 2].cells = d[i + 2].cells
        BY <1>3, <2>1
    <2> QED
        BY <2>2, <2>3 DEF TableRow, IsRow
  <1>7. ASSUME NEW i \in (a + 1)..c PROVE q[i + 2].kind = "text"
    <2>1. i + 2 \in 1..Len(d)
        BY <1>1, <1>4
    <2>2. d[i + 2].kind = "text"
        BY <1>2
    <2>3. q[i + 2].kind = IF d[i + 2].kind = "loose" THEN "row" ELSE d[i + 2].kind
        BY <1>3, <2>1
    <2> QED
        BY <2>2, <2>3
  <1>8. ASSUME NEW e \in 1..E
        PROVE  /\ q[At(H, e)].kind = "heading"
               /\ IsRow(q[At(H, e) + 1]) /\ q[At(H, e) + 1].cells = <<"v", "v">>
    <2> DEFINE h == At(H, e)
               g == h + 1
    <2>1. h \in (H + 1)..(H + 2 * E) /\ g \in (H + 1)..(H + 2 * E)
        BY <1>4, AtIs
    <2>2. d[h].kind = "heading" /\ IsRow(d[g]) /\ d[g].cells = <<"v", "v">>
        BY <1>2
    <2> HIDE DEF h, g
    <2>3. h \in 1..Len(d) /\ g \in 1..Len(d)
        BY <1>4, <2>1
    <2>4. q[h].kind = "heading"
        BY <1>3, <2>2, <2>3
    <2>5. IsRow(q[g]) /\ q[g].cells = <<"v", "v">>
        BY <1>3, <2>2, <2>3 DEF IsRow
    <2> QED
        BY <2>4, <2>5 DEF h, g
  <1>9. \A i \in 1..Len(q) : q[i].from = <<i>>
      BY <1>2, <1>3
  <1>10. Piped(q, a, c, m)
      BY <1>2, <1>3, <1>5, <1>6, <1>7, <1>8, <1>9 DEF Piped
  <1> QED
      BY <1>10 DEF q

\* What the lines of a piped page are, by their places in it.
LEMMA PipedLines ==
    ASSUME NEW a, NEW c, NEW m, LaidOut(a, c, m), NEW q, Piped(q, a, c, m)
    PROVE  /\ \A i \in 3..(a + 2) : /\ wrote[i - 1] = "blank" => IsBlank(q[i]) /\ Beside(q[i])
                                    /\ wrote[i - 1] # "blank" => TableRow(q[i])
           /\ \A i \in (a + 3)..(c + 2) : Beside(q[i])
           /\ \A i \in 1..Len(q) : Len(q[i].from) = 1 /\ q[i].from[1] = i
  <1>1. a \in Nat /\ c \in Nat /\ m \in Nat /\ 1 <= a /\ a <= c /\ c <= m
      BY DEF LaidOut
  <1>2. /\ \A i \in 1..a : \/ wrote[i + 1] = "blank" /\ q[i + 2].kind = "blank"
                           \/ wrote[i + 1] # "blank" /\ TableRow(q[i + 2])
        /\ \A i \in (a + 1)..c : q[i + 2].kind = "text"
        /\ \A i \in 1..Len(q) : q[i].from = <<i>>
      BY DEF Piped
  <1>3. ASSUME NEW i \in 3..(a + 2)
        PROVE  /\ wrote[i - 1] = "blank" => IsBlank(q[i]) /\ Beside(q[i])
               /\ wrote[i - 1] # "blank" => TableRow(q[i])
    <2> DEFINE j == i - 2
               k == i - 1
    <2>1. j \in 1..a /\ i = j + 2 /\ k = j + 1
        BY <1>1
    <2> HIDE DEF j, k
    <2>2. \/ wrote[k] = "blank" /\ q[i].kind = "blank"
          \/ wrote[k] # "blank" /\ TableRow(q[i])
        BY <1>2, <2>1
    <2>3. /\ wrote[k] = "blank" => IsBlank(q[i]) /\ Beside(q[i])
          /\ wrote[k] # "blank" => TableRow(q[i])
        BY <2>2 DEF IsBlank, Beside
    <2> QED
        BY <2>3 DEF k
  <1>4. ASSUME NEW i \in (a + 3)..(c + 2) PROVE Beside(q[i])
    <2> DEFINE j == i - 2
    <2>1. j \in (a + 1)..c /\ i = j + 2
        BY <1>1
    <2> HIDE DEF j
    <2> QED
        BY <1>2, <2>1 DEF Beside
  <1>5. \A i \in 1..Len(q) : Len(q[i].from) = 1 /\ q[i].from[1] = i
      BY <1>2, SingleLine
  <1> QED
      BY <1>3, <1>4, <1>5

LEMMA UnbrokenShape ==
    ASSUME NEW a, NEW c, NEW m, LaidOut(a, c, m), NEW q, Piped(q, a, c, m), Unbroken(a)
    PROVE  Shape(q, a + 2, c + 2, m - c, 0)
  <1> DEFINE T == a + 2
             H == c + 2
             E == m - c
  <1>1. a \in Nat /\ c \in Nat /\ m \in Nat /\ 1 <= a /\ a <= c /\ c <= m
        /\ (c - a) + 2 * ((m - c) - 1) <= HeadingSplitMaxGapLines
      BY DEF LaidOut
  <1>2. /\ q \in Seq(Line) /\ Len(q) = H + 2 * E /\ Header(q)
        /\ \A e \in 1..E : /\ q[At(H, e)].kind = "heading"
                           /\ IsRow(q[At(H, e) + 1]) /\ q[At(H, e) + 1].cells = <<"v", "v">>
      BY DEF Piped
  <1>3. T \in Nat /\ H \in Nat /\ E \in Nat /\ 3 <= T /\ T + 0 <= H /\ T <= H
      BY <1>1
  <1>4. ASSUME NEW i \in 3..T PROVE TableRow(q[i])
    <2> DEFINE j == i - 2
               k == i - 1
    <2>1. j \in 1..a /\ k = j + 1
        BY <1>1
    <2> HIDE DEF j, k
    <2>2. wrote[k] # "blank"
        BY <2>1 DEF Unbroken
    <2> QED
        BY <2>2, PipedLines DEF k
  <1>5. ASSUME NEW i \in (T + 1)..H PROVE Beside(q[i])
    <2>1. i \in (a + 3)..(c + 2)
        BY <1>1
    <2> QED
        BY <2>1, PipedLines
  <1>6. (H - T - 0) + 2 * (E - 1) <= HeadingSplitMaxGapLines
    <2>1. (H - T - 0) + 2 * (E - 1) = (c - a) + 2 * ((m - c) - 1)
        BY <1>1
    <2> QED
        BY <1>1, <2>1
  <1>7. \A i \in 1..Len(q) : Len(q[i].from) = 1 /\ q[i].from[1] = i
      BY PipedLines
  <1>8. Rising(q, 1, Len(q))
      BY <1>7 DEF Rising
  <1> HIDE DEF T, H, E
  <1>9. Shape(q, T, H, E, 0)
      BY <1>2, <1>3, <1>4, <1>5, <1>6, <1>7, <1>8 DEF Shape
  <1> QED
      BY <1>9 DEF T, H, E

\* The blank line below the last row breaks nothing.
LEMMA TrailingShape ==
    ASSUME NEW a, NEW c, NEW m, LaidOut(a, c, m), NEW q, Piped(q, a, c, m), BrokenAt(a, a)
    PROVE  Shape(q, a + 1, c + 2, m - c, 1)
  <1> DEFINE T == a + 1
             H == c + 2
             E == m - c
  <1>1. a \in Nat /\ c \in Nat /\ m \in Nat /\ 1 <= a /\ a <= c /\ c <= m
        /\ (c - a) + 2 * ((m - c) - 1) <= HeadingSplitMaxGapLines
      BY DEF LaidOut
  <1>2. /\ q \in Seq(Line) /\ Len(q) = H + 2 * E /\ Header(q)
        /\ \A e \in 1..E : /\ q[At(H, e)].kind = "heading"
                           /\ IsRow(q[At(H, e) + 1]) /\ q[At(H, e) + 1].cells = <<"v", "v">>
      BY DEF Piped
  <1>2a. a \in 2..a /\ \A i \in 1..a : wrote[i + 1] = "blank" <=> i = a
      BY DEF BrokenAt
  <1>3. T \in Nat /\ H \in Nat /\ E \in Nat /\ 3 <= T /\ T + 1 <= H /\ T <= H
      BY <1>1, <1>2a
  <1>4. ASSUME NEW i \in 3..T PROVE TableRow(q[i])
    <2> DEFINE j == i - 2
               k == i - 1
    <2>1. j \in 1..a /\ j # a /\ k = j + 1 /\ i \in 3..(a + 2)
        BY <1>1
    <2> HIDE DEF j, k
    <2>2. wrote[k] # "blank"
        BY <1>2a, <2>1
    <2> QED
        BY <2>1, <2>2, PipedLines DEF k
  <1>4a. IsBlank(q[T + 1]) /\ Beside(q[T + 1])
    <2> DEFINE i == a + 2
    <2>1. i \in 3..(a + 2) /\ i - 1 = a + 1 /\ i = T + 1 /\ a \in 1..a
        BY <1>1
    <2>2. wrote[i - 1] = "blank"
        BY <1>2a, <2>1
    <2> HIDE DEF i, T
    <2>3. IsBlank(q[i]) /\ Beside(q[i])
        BY <2>1, <2>2, PipedLines
    <2> QED
        BY <2>1, <2>3
  <1>5. ASSUME NEW i \in (T + 1)..H PROVE Beside(q[i])
    <2>1. i = T + 1 \/ i \in (a + 3)..(c + 2)
        BY <1>1
    <2> QED
        BY <1>4a, <2>1, PipedLines
  <1>6. (H - T - 1) + 2 * (E - 1) <= HeadingSplitMaxGapLines
    <2>1. (H - T - 1) + 2 * (E - 1) = (c - a) + 2 * ((m - c) - 1)
        BY <1>1
    <2> QED
        BY <1>1, <2>1
  <1>7. \A i \in 1..Len(q) : Len(q[i].from) = 1 /\ q[i].from[1] = i
      BY PipedLines
  <1>8. Rising(q, 1, Len(q))
      BY <1>7 DEF Rising
  <1> HIDE DEF T, H, E
  <1>9. Shape(q, T, H, E, 1)
      BY <1>2, <1>3, <1>4, <1>4a, <1>5, <1>6, <1>7, <1>8 DEF Shape
  <1> QED
      BY <1>9 DEF T, H, E

LEMMA BrokenSplit ==
    ASSUME NEW a, NEW c, NEW m, LaidOut(a, c, m), NEW q, Piped(q, a, c, m),
           NEW k \in 2..(a - 1), BrokenAt(a, k)
    PROVE  Split(q, k + 2, a + 1, c + 1, m - c)
  <1> DEFINE T == a + 1
             H == c + 1
             E == m - c
             x == k + 2
             u == Without(q, x)
             n == Len(q)
  <1>1. a \in Nat /\ c \in Nat /\ m \in Nat /\ 1 <= a /\ a <= c /\ c <= m
        /\ (c - a) + 2 * ((m - c) - 1) <= HeadingSplitMaxGapLines
      BY DEF LaidOut
  <1>2. /\ q \in Seq(Line) /\ n = (c + 2) + 2 * E /\ Header(q) /\ (wrote[1] = "header" => FullHeader(q))
        /\ \A e \in 1..E : /\ q[At(c + 2, e)].kind = "heading"
                           /\ IsRow(q[At(c + 2, e) + 1]) /\ q[At(c + 2, e) + 1].cells = <<"v", "v">>
      BY DEF Piped
  <1>3. wrote[1] = "header" /\ \A i \in 1..a : wrote[i + 1] = "blank" <=> i = k
      BY DEF BrokenAt
  <1>4. T \in Nat /\ H \in Nat /\ E \in Nat /\ 3 <= T /\ T + 0 <= H /\ T <= H /\ n = H + 1 + 2 * E /\ n \in Nat
    <2>1. T \in Nat /\ H \in Nat /\ E \in Nat /\ 3 <= T /\ T + 0 <= H /\ T <= H /\ c + 2 = H + 1
        BY <1>1
    <2>2. n = (c + 2) + 2 * E
        BY <1>2
    <2> HIDE DEF n, T, H, E
    <2>3. n = H + 1 + 2 * E /\ n \in Nat
        BY <2>1, <2>2
    <2> QED
        BY <2>1, <2>3
  <1>5. x \in 4..T /\ x \in 1..n /\ T + 1 <= n /\ k \in Int /\ x = k + 2
      BY <1>1, <1>4
  <1>6. /\ \A i \in 3..(a + 2) : /\ wrote[i - 1] = "blank" => IsBlank(q[i])
                                 /\ wrote[i - 1] # "blank" => TableRow(q[i])
        /\ \A i \in (a + 3)..(c + 2) : Beside(q[i])
        /\ \A i \in 1..n : Len(q[i].from) = 1 /\ q[i].from[1] = i
      BY PipedLines
  <1>7. /\ u \in Seq(Line) /\ Len(u) = n - 1
        /\ \A i \in 1..(x - 1) : u[i] = q[i]
        /\ \A i \in (x + 1)..n : u[i - 1] = q[i]
      BY <1>2, <1>5, WithoutIs
  <1>8. T = a + 1 /\ H = c + 1 /\ E = m - c
      OBVIOUS
  <1> HIDE DEF T, H, E, x, u, n
  <1>9. ASSUME NEW i \in x..(n - 1) PROVE u[i] = q[i + 1]
    <2> DEFINE j == i + 1
    <2>1. j \in (x + 1)..n /\ j - 1 = i
        BY <1>4, <1>5
    <2> HIDE DEF j
    <2>2. u[j - 1] = q[j]
        BY <1>7, <2>1
    <2> QED
        BY <2>1, <2>2 DEF j
  <1>10. ASSUME NEW i \in 3..(a + 2), i # x PROVE TableRow(q[i])
    <2> DEFINE j == i - 2
               l == i - 1
    <2>1. j \in 1..a /\ j # k /\ l = j + 1
        BY <1>1, <1>5, <1>10
    <2> HIDE DEF j, l
    <2>2. wrote[l] # "blank"
        BY <1>3, <2>1
    <2> QED
        BY <1>6, <2>2 DEF l
  <1>11. IsBlank(q[x])
    <2>1. x \in 3..(a + 2) /\ x - 1 = k + 1 /\ k \in 1..a
        BY <1>1, <1>5, <1>8
    <2>2. wrote[x - 1] = "blank"
        BY <1>3, <2>1
    <2> QED
        BY <1>6, <2>1, <2>2
  <1>12. Header(u)
    <2>1. 1 \in 1..(x - 1) /\ 2 \in 1..(x - 1)
        BY <1>5
    <2>2. u[1] = q[1] /\ u[2] = q[2]
        BY <1>7, <2>1
    <2> QED
        BY <1>2, <2>2 DEF Header, FullHeader, ShortHeader
  <1>13. ASSUME NEW i \in 3..T PROVE TableRow(u[i])
    <2>1. CASE i < x
      <3>1. i \in 1..(x - 1) /\ i \in 3..(a + 2) /\ i # x
          BY <1>1, <1>5, <1>8, <2>1
      <3> QED
          BY <1>7, <1>10, <3>1
    <2>2. CASE ~(i < x)
      <3>1. i \in x..(n - 1) /\ i + 1 \in 3..(a + 2) /\ i + 1 # x
          BY <1>1, <1>4, <1>5, <1>8, <2>2
      <3> QED
          BY <1>9, <1>10, <3>1
    <2> QED
        BY <2>1, <2>2
  <1>14. ASSUME NEW i \in (T + 1)..H PROVE Beside(u[i])
    <2>1. i \in x..(n - 1) /\ i + 1 \in (a + 3)..(c + 2)
        BY <1>1, <1>4, <1>5, <1>8
    <2> QED
        BY <1>6, <1>9, <2>1
  <1>15. ASSUME NEW e \in 1..E
         PROVE  /\ u[At(H, e)].kind = "heading"
                /\ IsRow(u[At(H, e) + 1]) /\ u[At(H, e) + 1].cells = <<"v", "v">>
    <2> DEFINE h == At(H, e)
               g == At(c + 2, e)
    <2>1. g = h + 1
        BY <1>1, <1>8 DEF At
    <2>2. h \in (H + 1)..(H + 2 * E) /\ h + 1 \in (H + 1)..(H + 2 * E)
        BY <1>4, AtIs
    <2>3. q[g].kind = "heading" /\ IsRow(q[g + 1]) /\ q[g + 1].cells = <<"v", "v">>
        BY <1>2
    <2> HIDE DEF h, g
    <2>4. h \in x..(n - 1) /\ h + 1 \in x..(n - 1)
        BY <1>4, <1>5, <2>2
    <2>5. u[h] = q[g] /\ u[h + 1] = q[g + 1]
      <3>1. u[h] = q[h + 1] /\ u[h + 1] = q[h + 1 + 1]
          BY <1>9, <2>4
      <3> QED
          BY <2>1, <3>1
    <2>6. u[h].kind = "heading" /\ IsRow(u[h + 1]) /\ u[h + 1].cells = <<"v", "v">>
        BY <2>3, <2>5
    <2> QED
        BY <2>6 DEF h
  <1>16. (H - T - 0) + 2 * (E - 1) <= HeadingSplitMaxGapLines
    <2>1. (H - T - 0) + 2 * (E - 1) = (c - a) + 2 * ((m - c) - 1)
        BY <1>1, <1>8
    <2> QED
        BY <1>1, <2>1
  <1>17. ASSUME NEW i \in 1..(n - 1)
         PROVE  Len(u[i].from) = 1 /\ u[i].from[1] = IF i < x THEN i ELSE i + 1
    <2>1. CASE i < x
      <3>1. i \in 1..(x - 1) /\ i \in 1..n
          BY <1>4, <1>5, <2>1
      <3> QED
          BY <1>6, <1>7, <2>1, <3>1
    <2>2. CASE ~(i < x)
      <3>1. i \in x..(n - 1) /\ i + 1 \in 1..n
          BY <1>4, <1>5, <2>2
      <3>2. u[i] = q[i + 1] /\ Len(q[i + 1].from) = 1 /\ q[i + 1].from[1] = i + 1
          BY <1>6, <1>9, <3>1
      <3> QED
          BY <2>2, <3>2
    <2> QED
        BY <2>1, <2>2
  <1>18. Rising(u, 1, Len(u))
    <2>1. ASSUME NEW i \in 1..(n - 1), NEW j \in 1..(n - 1), i < j PROVE u[i].from[1] < u[j].from[1]
      <3>1. (IF i < x THEN i ELSE i + 1) < (IF j < x THEN j ELSE j + 1)
          BY <1>4, <1>5, <2>1
      <3> QED
          BY <1>17, <3>1
    <2> QED
        BY <1>7, <2>1 DEF Rising
  <1>19. Len(u) = H + 2 * E
      BY <1>4, <1>7
  <1>20. Shape(u, T, H, E, 0)
      BY <1>4, <1>7, <1>12, <1>13, <1>14, <1>15, <1>16, <1>17, <1>18, <1>19 DEF Shape
  <1>21. Split(q, x, T, H, E)
      BY <1>2, <1>3, <1>4, <1>5, <1>11, <1>20 DEF Split, u, n
  <1> QED
      BY <1>21 DEF x, T, H, E

\* What Step C makes of the model's reply.
Normalized == NormalizeMalformedPipeRows(NeutralizeChartLikeTables(Draft))
Merged == MergeHeaderlessContinuationBlocks(Normalized)
Judged == RestoreMissingTableHeaderCells(ReattachHeadingSplitTableRows(Merged))

LEMMA JudgedIs ==
    ASSUME wrote \in Seq(Forms), Repairable
    PROVE  \E n \in Nat : Repaired(Judged, n) /\ n - 2 = Cardinality(RowForms) + Cardinality(FormPlaces("escaped"))
  <1>1. PICK a \in Nat : \E c \in Nat : \E m \in Nat :
               LaidOut(a, c, m) /\ (Unbroken(a) \/ \E k \in 2..a : BrokenAt(a, k))
      BY RepairableIs
  <1>2. PICK c \in Nat : \E m \in Nat : LaidOut(a, c, m) /\ (Unbroken(a) \/ \E k \in 2..a : BrokenAt(a, k))
      BY <1>1
  <1>3. PICK m \in Nat : LaidOut(a, c, m) /\ (Unbroken(a) \/ \E k \in 2..a : BrokenAt(a, k))
      BY <1>2
  <1>4. c <= m /\ m - c \in Nat /\ Cardinality(FormPlaces("escaped")) = m - c
    <2>1. c <= m /\ Cardinality(FormPlaces("escaped")) = m - c
        BY <1>3 DEF LaidOut
    <2> QED
        BY <2>1
  <1>5. Drafted(Draft, a, c, m)
      BY <1>3, DraftedIs
  <1>6. NeutralizeChartLikeTables(Draft) = Draft
      BY <1>3, <1>5, DraftedPlain
  <1>7. Piped(Normalized, a, c, m)
      BY <1>3, <1>5, <1>6, PipedIs DEF Normalized
  <1> DEFINE q == Normalized
             E == m - c
  <1>8. Merged = MergeHeaderlessContinuationBlocks(q)
      BY DEF Merged
  <1> HIDE DEF q, E
  <1>9. ASSUME NEW T, NEW H, NEW B, Shape(Merged, T, H, m - c, B)
        PROVE  Repaired(Judged, T + E)
    <2>1. Whole(ReattachHeadingSplitTableRows(Merged), T + E)
        BY <1>9, ReattachWhole DEF E
    <2> QED
        BY <2>1, RestoreWhole DEF Judged
  <1>10. ASSUME NEW T \in Nat, NEW H, NEW B, Shape(Merged, T, H, m - c, B), T - 2 = Cardinality(RowForms)
         PROVE  \E n \in Nat : Repaired(Judged, n) /\ n - 2 = Cardinality(RowForms) + Cardinality(FormPlaces("escaped"))
    <2> DEFINE n == T + E
    <2>1. Repaired(Judged, n)
        BY <1>9, <1>10
    <2>2. E \in Nat /\ Cardinality(FormPlaces("escaped")) = E
        BY <1>4 DEF E
    <2>3. n \in Nat /\ n - 2 = (T - 2) + E
        BY <2>2
    <2> HIDE DEF n
    <2> QED
        BY <1>10, <2>1, <2>2, <2>3
  <1>11. CASE Unbroken(a)
    <2>1. Shape(q, a + 2, c + 2, m - c, 0)
        BY <1>3, <1>7, <1>11, UnbrokenShape DEF q
    <2>2. Merged = q
        BY <1>8, <2>1, MergeShape
    <2>3. a + 2 \in Nat /\ a + 2 - 2 = Cardinality(RowForms)
        BY <1>11 DEF Unbroken
    <2> QED
        BY <1>10, <2>1, <2>2, <2>3
  <1>12. ASSUME NEW k \in 2..a, BrokenAt(a, k)
         PROVE  \E n \in Nat : Repaired(Judged, n) /\ n - 2 = Cardinality(RowForms) + Cardinality(FormPlaces("escaped"))
    <2>1. a + 1 \in Nat /\ a + 1 - 2 = Cardinality(RowForms)
        BY <1>12 DEF BrokenAt
    <2>2. CASE k = a
      <3>1. Shape(q, a + 1, c + 2, m - c, 1)
          BY <1>3, <1>7, <1>12, <2>2, TrailingShape DEF q
      <3>2. Merged = q
          BY <1>8, <3>1, MergeShape
      <3> QED
          BY <1>10, <2>1, <3>1, <3>2
    <2>3. CASE k # a
      <3>1. k \in 2..(a - 1)
          BY <2>3
      <3>2. Split(q, k + 2, a + 1, c + 1, m - c)
          BY <1>3, <1>7, <1>12, <3>1, BrokenSplit DEF q
      <3>3. Merged = Without(q, k + 2)
          BY <1>8, <3>2, MergeSplit
      <3>4. Shape(Merged, a + 1, c + 1, m - c, 0)
          BY <3>2, <3>3 DEF Split
      <3> QED
          BY <1>10, <2>1, <3>4
    <2> QED
        BY <2>2, <2>3
  <1> QED
      BY <1>3, <1>11, <1>12

\* The page at each pass is what the passes before it made of the reply.
PassesMade ==
  /\ pass = "neutralize" => md = Draft
  /\ pass = "normalize" => md = NeutralizeChartLikeTables(Draft)
  /\ pass = "merge" => md = Normalized
  /\ pass = "reattach" => md = Merged
  /\ pass = "restore" => md = ReattachHeadingSplitTableRows(Merged)
  /\ pass \in {"assess", "judged"} => md = Judged
  /\ pass = "judged" => failures = AssessExtractionQuality(md)

LEMMA PassesMadeStep ==
    ASSUME PassesMade, [TableNext]_tableVars
    PROVE  PassesMade'
  <1> USE DEF PassesMade
  <1>0. ASSUME wrote' = wrote
        PROVE  Draft' = Draft /\ Normalized' = Normalized /\ Merged' = Merged /\ Judged' = Judged
    <2>1. Draft' = Draft
        BY <1>0 DEF Draft
    <2>2. Normalized' = Normalized
        BY <2>1 DEF Normalized
    <2>3. Merged' = Merged
        BY <2>2 DEF Merged
    <2>4. Judged' = Judged
        BY <2>3 DEF Judged
    <2> QED
        BY <2>1, <2>2, <2>3, <2>4
  <1>1. CASE UNCHANGED tableVars
    <2>1. pass' = pass /\ md' = md /\ failures' = failures /\ wrote' = wrote
        BY <1>1 DEF tableVars
    <2> QED
        BY <1>0, <2>1
  <1>2. ASSUME NEW form \in Forms, WriteLine(form) PROVE PassesMade'
      BY <1>2 DEF WriteLine
  <1>3. CASE Assemble
      BY <1>0, <1>3 DEF Assemble
  <1>4. CASE Neutralize
      BY <1>0, <1>4 DEF Neutralize, Goes
  <1>5. CASE Normalize
      BY <1>0, <1>5 DEF Normalize, Goes, Normalized
  <1>6. CASE Merge
      BY <1>0, <1>6 DEF Merge, Goes, Merged
  <1>7. CASE Reattach
      BY <1>0, <1>7 DEF Reattach, Goes
  <1>8. CASE Restore
      BY <1>0, <1>8 DEF Restore, Goes, Judged
  <1>9. CASE RestorePanics
      BY <1>9 DEF RestorePanics
  <1>10. CASE Assess
      BY <1>0, <1>10 DEF Assess
  <1> QED
      BY <1>1, <1>2, <1>3, <1>4, <1>5, <1>6, <1>7, <1>8, <1>9, <1>10 DEF TableNext

(* However long the reply: a table of which the model left rows out of      *)
(* their pipes, split off rows at a chunk boundary, put first cells into    *)
(* headings or lost the first header cell is one whole table after the      *)
(* passes, with all its rows in their order, and the gate lets it pass.     *)
THEOREM DamageUndoneTheorem == TableSpec => []DamageUndone
  <1>1. TableInit => PassesMade
      BY DEF TableInit, PassesMade
  <1>2. PassesMade /\ [TableNext]_tableVars => PassesMade'
      BY PassesMadeStep
  <1>3. TableTyped /\ PassesMade => DamageUndone
    <2>1. ASSUME TableTyped, PassesMade, pass = "judged", Repairable
          PROVE  /\ failures = {} /\ AllRagged(md) = {}
                 /\ \E b \in HeadedBlocks(md) :
                      /\ Blocks(md) = {b}
                      /\ Cardinality(DataLines(md, b)) = Cardinality(RowForms) + Cardinality(FormPlaces("escaped"))
                      /\ HeaderCells(md, b) = 3 /\ RowsInOrder(md, b)
      <3>1. md = Judged /\ failures = AssessExtractionQuality(md)
          BY <2>1 DEF PassesMade
      <3>2. PICK n \in Nat : Repaired(md, n) /\ n - 2 = Cardinality(RowForms) + Cardinality(FormPlaces("escaped"))
          BY <2>1, <3>1, JudgedIs DEF TableTyped
      <3> DEFINE b == <<1, n>>
      <3>3. /\ AssessExtractionQuality(md) = {} /\ AllRagged(md) = {}
            /\ b \in HeadedBlocks(md) /\ Blocks(md) = {b}
            /\ DataLines(md, b) = 3..n
            /\ HeaderCells(md, b) = 3 /\ RowsInOrder(md, b)
          BY <3>2, RepairedPasses
      <3> HIDE DEF b
      <3>4. Cardinality(3..n) = n - 2
        <4>1. 3 <= n
            BY <3>2 DEF Repaired
        <4>2. n \in Int /\ 3 \in Int
            BY <3>2
        <4>3. Cardinality(3..n) = IF 3 > n THEN 0 ELSE n - 3 + 1
            BY <4>2, FS_Interval
        <4> QED
            BY <4>1, <4>2, <4>3
      <3> QED
          BY <3>1, <3>2, <3>3, <3>4
    <2> QED
        BY <2>1 DEF DamageUndone
  <1> QED
      BY <1>1, <1>2, <1>3, TableTypedTheorem, PTL DEF TableSpec

(* What the repair passes promise, taken together: no value of the text is  *)
(* lost, and the damage they were written for is undone.                    *)
THEOREM TablesRepairedTheorem == TableSpec => []TablesRepaired
  BY NothingLostTheorem, DamageUndoneTheorem, PTL DEF TablesRepaired
=============================================================================

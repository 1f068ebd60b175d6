----------------------------- MODULE StoreProofs -----------------------------
(***************************************************************************)
(* For any number of writers, calls, faults and crashes: what the stores   *)
(* promise.  The settings, the JSON mirror of the documents and that of    *)
(* the decisions are replaced as a whole: all write "<file>.tmp" and       *)
(* rename it; what keeps the file whole is that the temp file is never the *)
(* file itself, and that nobody has a descriptor of the file unless two    *)
(* writers overlapped.  The taxonomy is read, copied and saved over        *)
(* whatever was saved in the meantime: what keeps it is that a copy older  *)
(* than another save is known to be.                                       *)
(***************************************************************************)
EXTENDS Settings, Mirrors, TaxonomyStore, FiniteSetTheorems, SequenceTheorems,
        NaturalsInduction, WellFoundedInduction, TLAPS

-----------------------------------------------------------------------------
(* A file that is replaced as a whole, with the inodes 1..n and lists of     *)
(* elements of S                                                            *)

Contents(S) == [state : {"empty", "json", "garbled"}, list : Seq(S), at : Nat]
Files(n, S) == [node : [1..n -> Contents(S)], tmp : 0..n, file : 0..n]

\* The content is this text, whenever it was written.
Holds(content, list) == content.state = "json" /\ content.list = list

(* The temp file is not the file: no rename leaves a name with two files.   *)
Apart(fs) == fs.tmp = fs.file => fs.tmp = 0

LEMMA ContentTypes ==
    ASSUME NEW S, NEW now \in Nat
    PROVE  /\ Blank(now) \in Contents(S) /\ Garbled(now) \in Contents(S)
           /\ \A list \in Seq(S) : Json(list, now) \in Contents(S)
  BY EmptySeq DEF Blank, Garbled, Json, Contents

(* There is always an inode for one more name: the writers have at most one *)
(* each, and one of the names has one.                                      *)
LEMMA FreeInodeExists ==
    ASSUME NEW W, IsFiniteSet(W), NEW S, NEW fs \in Files(Cardinality(W) + 2, S), NEW f, NEW held,
           \A h \in held : \E w \in W : f[w] = h, fs.tmp = 0 \/ fs.file = 0
    PROVE  FreeInode(fs, held) \in (1..Cardinality(W) + 2) \ (held \cup {fs.tmp, fs.file})
  <1> DEFINE n == Cardinality(W)
             I == 1..n + 2
  <1>1. n \in Nat
      BY FS_CardinalityType
  <1>2. DOMAIN fs.node = I
      BY DEF Files
  <1>3. PICK x : {fs.tmp, fs.file} \subseteq {0, x}
      OBVIOUS
  <1>4. IsFiniteSet(I) /\ Cardinality(I) = n + 2
      BY <1>1, FS_Interval
  <1>5. IsFiniteSet(I \ {x}) /\ Cardinality(I \ {x}) >= n + 1
    <2> HIDE DEF n, I
    <2>1. /\ IsFiniteSet(I \ {x})
          /\ Cardinality(I \ {x}) = IF x \in I THEN Cardinality(I) - 1 ELSE Cardinality(I)
        BY <1>4, FS_RemoveElement
    <2> QED
        BY <1>1, <1>4, <2>1
  <1>6. \E i \in I : i \notin held \cup {fs.tmp, fs.file}
    <2> SUFFICES ASSUME \A i \in I : i \in held \cup {fs.tmp, fs.file} PROVE FALSE
        OBVIOUS
    <2> DEFINE who == [i \in I \ {x} |-> CHOOSE w \in W : f[w] = i]
    <2>1. ASSUME NEW i \in I \ {x} PROVE who[i] \in W /\ f[who[i]] = i
      <3>1. i \in held
          BY <1>1, <1>3
      <3> QED
          BY <3>1
    <2>2. who \in [I \ {x} -> W]
        BY <2>1
    <2>3. n < Cardinality(I \ {x})
      <3>1. Cardinality(I \ {x}) \in Nat
          BY <1>5, FS_CardinalityType
      <3> QED
          BY <1>1, <1>5, <3>1
    <2> HIDE DEF who
    <2>4. \E i, j \in I \ {x} : i # j /\ who[i] = who[j]
        BY <1>5, <2>2, <2>3, FS_PigeonHole
    <2> QED
        BY <2>1, <2>4
  <1> QED
      BY <1>2, <1>6 DEF FreeInode

LEMMA TmpOpenedFile ==
    ASSUME NEW n \in Nat, NEW S, NEW now \in Nat, NEW fs \in Files(n, S), Apart(fs), NEW held,
           fs.tmp = 0 => FreeInode(fs, held) \in (1..n) \ (held \cup {fs.tmp, fs.file}),
           NEW new, new = TmpOpened(fs, held, now)
    PROVE  /\ new \in Files(n, S) /\ Apart(new)
           /\ new.file = fs.file /\ new.tmp \in 1..n /\ new.node[new.tmp].state = "empty"
           /\ \A j \in 1..n : new.node[j] = fs.node[j] \/ new.node[j].state = "empty"
           /\ fs.file # 0 => new.node[fs.file] = fs.node[fs.file]
           /\ new.tmp \notin held \/ new.tmp = fs.tmp
  <1> DEFINE i == IF fs.tmp # 0 THEN fs.tmp ELSE FreeInode(fs, held)
  <1>1. /\ i \in 1..n /\ i # fs.file /\ (i \notin held \/ i = fs.tmp)
        /\ fs.file \in 0..n /\ fs.tmp \in 0..n /\ fs.node \in [1..n -> Contents(S)]
      BY DEF Files, Apart
  <1>2. new = [fs EXCEPT !.tmp = i, !.node = [fs.node EXCEPT ![i] = Blank(now)]]
      BY DEF TmpOpened, Files
  <1> HIDE DEF i
  <1>3. /\ new.tmp = i /\ new.file = fs.file
        /\ new.node = [fs.node EXCEPT ![i] = Blank(now)]
      BY <1>2 DEF Files
  <1>4. new.node \in [1..n -> Contents(S)]
      BY <1>1, <1>3, ContentTypes
  <1>5. new \in Files(n, S)
    <2>1. new = [node |-> new.node, tmp |-> i, file |-> fs.file]
        BY <1>2, <1>3 DEF Files
    <2> QED
        BY <1>1, <1>4, <2>1 DEF Files
  <1> QED
      BY <1>1, <1>3, <1>5 DEF Apart, Blank

\* What a write through a descriptor of inode i leaves.
WrittenTo(n, S, fs, i, list, new) ==
  /\ new \in Files(n, S) /\ Apart(new)
  /\ new.file = fs.file /\ new.tmp = fs.tmp
  /\ \A j \in (1..n) \ {i} : new.node[j] = fs.node[j]
  /\ fs.node[i].state = "empty" => Holds(new.node[i], list)
  /\ new.node[i].state = "json" => new.node[i].list = list

LEMMA WrittenFile ==
    ASSUME NEW n \in Nat, NEW S, NEW now \in Nat, NEW fs \in Files(n, S), Apart(fs), NEW i \in 1..n,
           NEW list \in Seq(S), NEW new, new = Written(fs, i, list, now)
    PROVE  WrittenTo(n, S, fs, i, list, new)
  <1> DEFINE old == fs.node[i]
             content == IF \/ old.state = "garbled"
                           \/ old.state = "json" /\ Len(old.list) > Len(list)
                        THEN Garbled(now) ELSE Json(list, now)
  <1>1. fs.node \in [1..n -> Contents(S)] /\ fs.tmp \in 0..n /\ fs.file \in 0..n
      BY DEF Files
  <1>2. content \in Contents(S)
      BY ContentTypes
  <1>3. /\ old.state = "empty" => content = Json(list, now)
        /\ content = Json(list, now) \/ content = Garbled(now)
      OBVIOUS
  <1>4. new = [fs EXCEPT !.node = [fs.node EXCEPT ![i] = content]]
      BY DEF Written, Files
  <1> HIDE DEF content
  <1>5. /\ new.tmp = fs.tmp /\ new.file = fs.file
        /\ new.node = [fs.node EXCEPT ![i] = content]
      BY <1>4 DEF Files
  <1>6. new.node \in [1..n -> Contents(S)]
      BY <1>1, <1>2, <1>5
  <1>7. new \in Files(n, S)
      BY <1>1, <1>4, <1>5, <1>6 DEF Files
  <1> QED
      BY <1>1, <1>3, <1>5, <1>7 DEF Apart, Json, Garbled, Holds, WrittenTo

LEMMA TmpRenamedFile ==
    ASSUME NEW n \in Nat, NEW S, NEW fs \in Files(n, S), Apart(fs),
           NEW new, new = TmpRenamed(fs)
    PROVE  /\ new \in Files(n, S) /\ Apart(new)
           /\ new.file = fs.tmp /\ new.tmp = 0 /\ new.node = fs.node
  <1>1. new = [node |-> fs.node, tmp |-> 0, file |-> fs.tmp]
      BY DEF TmpRenamed, Files
  <1>2. fs.node \in [1..n -> Contents(S)] /\ fs.tmp \in 0..n
      BY DEF Files
  <1> QED
      BY <1>1, <1>2 DEF Files, Apart

LEMMA NoFilesFile ==
    ASSUME NEW n \in Nat, NEW S
    PROVE  /\ NoFiles(1..n) \in Files(n, S) /\ Apart(NoFiles(1..n))
           /\ NoFiles(1..n).file = 0 /\ NoFiles(1..n).tmp = 0
  BY ContentTypes DEF NoFiles, Files, Apart

LEMMA FileOpenedFile ==
    ASSUME NEW n \in Nat, NEW S, NEW now \in Nat, NEW fs \in Files(n, S), Apart(fs), NEW held,
           fs.file = 0 => FreeInode(fs, held) \in (1..n) \ (held \cup {fs.tmp, fs.file}),
           NEW new, new = FileOpened(fs, held, now)
    PROVE  /\ new \in Files(n, S) /\ Apart(new)
           /\ new.tmp = fs.tmp /\ new.file \in 1..n /\ new.node[new.file].state = "empty"
           /\ fs.tmp # 0 => new.node[fs.tmp] = fs.node[fs.tmp]
           /\ \A j \in 1..n : new.node[j] = fs.node[j] \/ new.node[j].state = "empty"
           /\ new.file \notin held \/ new.file = fs.file
  <1> DEFINE i == IF fs.file # 0 THEN fs.file ELSE FreeInode(fs, held)
  <1>1. /\ i \in 1..n /\ i # fs.tmp /\ (i \notin held \/ i = fs.file)
        /\ fs.file \in 0..n /\ fs.tmp \in 0..n /\ fs.node \in [1..n -> Contents(S)]
      BY DEF Files, Apart
  <1>2. new = [fs EXCEPT !.file = i, !.node = [fs.node EXCEPT ![i] = Blank(now)]]
      BY DEF FileOpened, Files
  <1> HIDE DEF i
  <1>3. /\ new.file = i /\ new.tmp = fs.tmp
        /\ new.node = [fs.node EXCEPT ![i] = Blank(now)]
      BY <1>2 DEF Files
  <1>4. new.node \in [1..n -> Contents(S)]
      BY <1>1, <1>3, ContentTypes
  <1>5. new \in Files(n, S)
    <2>1. new = [node |-> new.node, tmp |-> fs.tmp, file |-> i]
        BY <1>2, <1>3 DEF Files
    <2> QED
        BY <1>1, <1>4, <2>1 DEF Files
  <1> QED
      BY <1>1, <1>3, <1>5 DEF Apart, Blank

LEMMA TmpCopiedFile ==
    ASSUME NEW n \in Nat, NEW S, NEW now \in Nat, NEW fs \in Files(n, S), Apart(fs),
           fs.tmp # 0, fs.file # 0, NEW new, new = TmpCopied(fs, now)
    PROVE  /\ new \in Files(n, S) /\ Apart(new)
           /\ new.file = fs.file /\ new.tmp = 0 /\ new.node[fs.file].at = now
           /\ \A list : Holds(fs.node[fs.tmp], list) => Holds(new.node[fs.file], list)
           /\ new.node[fs.file].state = fs.node[fs.tmp].state
           /\ new.node[fs.file].list = fs.node[fs.tmp].list
           /\ \A j \in (1..n) \ {fs.file} : new.node[j] = fs.node[j]
  <1> DEFINE content == [fs.node[fs.tmp] EXCEPT !.at = now]
  <1>1. /\ fs.node \in [1..n -> Contents(S)] /\ fs.tmp \in 1..n /\ fs.file \in 1..n
        /\ fs.node[fs.tmp] \in Contents(S)
      BY DEF Files
  <1>2. /\ content \in Contents(S) /\ content.at = now
        /\ content.state = fs.node[fs.tmp].state /\ content.list = fs.node[fs.tmp].list
      BY <1>1 DEF Contents
  <1>3. new = [fs EXCEPT !.node = [fs.node EXCEPT ![fs.file] = content], !.tmp = 0]
      BY DEF TmpCopied, Files
  <1> HIDE DEF content
  <1>4. new = [node |-> [fs.node EXCEPT ![fs.file] = content], tmp |-> 0, file |-> fs.file]
      BY <1>3 DEF Files
  <1>5. [fs.node EXCEPT ![fs.file] = content] \in [1..n -> Contents(S)]
      BY <1>1, <1>2
  <1>6. new.node[fs.file] = content /\ \A j \in (1..n) \ {fs.file} : new.node[j] = fs.node[j]
      BY <1>1, <1>4
  <1>7. new \in Files(n, S) /\ Apart(new) /\ new.file = fs.file /\ new.tmp = 0
      BY <1>1, <1>4, <1>5 DEF Files, Apart
  <1> QED
      BY <1>2, <1>6, <1>7 DEF Holds

-----------------------------------------------------------------------------
(* The JSON mirror of the documents.  A sync that nobody overlapped knows   *)
(* the temp file for its own and the rows for those it read; a sync that    *)
(* was overlapped knows nothing, and leaves `crossing' behind.              *)

\* The strings of a list; the provers do not count a literal among STRING.
Texts == STRING \cup {"doc", "EN", "FR", "organized"}

RegistryInodes == Cardinality(Syncers) + 2

Places == {"idle", "read", "open", "write", "rename", "copy"}

SyncRecords == [pc : Places, rows : Seq(Texts), fd : 0..RegistryInodes, alone : BOOLEAN]

MirrorTyped ==
  /\ docRows \in Seq(Texts)
  /\ registry \in Files(RegistryInodes, Texts) /\ Apart(registry)
  /\ syncer \in [Syncers -> SyncRecords]
  /\ crossing \in BOOLEAN /\ torn \in BOOLEAN /\ behindRows \in BOOLEAN

\* A descriptor is held while it is written, and a copy has its target.
SyncPlaces ==
  \A s \in Syncers :
    /\ syncer[s].fd # 0 <=> syncer[s].pc = "write"
    /\ syncer[s].pc = "copy" => registry.file # 0

\* What a sync that nobody overlapped knows.
TmpIsMine(s) ==
  /\ Syncing = {s}
  /\ syncer[s].pc # "read" => syncer[s].rows = docRows
  /\ syncer[s].pc = "write" =>
       syncer[s].fd = registry.tmp /\ registry.node[registry.tmp].state = "empty"
  /\ syncer[s].pc \in {"rename", "copy"} =>
       registry.tmp # 0 /\ Holds(registry.node[registry.tmp], docRows)

AloneSyncs == \A s \in Syncing : syncer[s].alone => TmpIsMine(s)

\* Nobody has the registry itself open unless the last two syncs overlapped.
RegistryUnheld ==
  ~crossing /\ registry.file # 0 => \A s \in Syncers : syncer[s].fd # registry.file

MirrorInv ==
  /\ MirrorTyped /\ SyncPlaces /\ AloneSyncs /\ RegistryUnheld
  /\ RegistryWhole /\ RegistryFollowsRows

LEMMA InodesOfSyncers == RegistryInodes \in Nat
  BY SyncersAssumption, FS_CardinalityType DEF RegistryInodes

LEMMA SyncerFields ==
    ASSUME MirrorTyped, NEW s \in Syncers
    PROVE  /\ syncer[s] \in SyncRecords
           /\ syncer[s].pc \in Places
           /\ syncer[s].rows \in Seq(Texts) /\ syncer[s].fd \in 0..RegistryInodes
           /\ syncer[s].alone \in BOOLEAN
  BY DEF MirrorTyped, SyncRecords

\* There is an inode for a sync that creates a name.
LEMMA FreeForSync ==
    ASSUME MirrorTyped, registry.tmp = 0 \/ registry.file = 0
    PROVE  FreeInode(registry, Descriptors)
             \in (1..RegistryInodes) \ (Descriptors \cup {registry.tmp, registry.file})
  <1> DEFINE fds == [s \in Syncers |-> syncer[s].fd]
  <1>1. \A h \in Descriptors : \E s \in Syncers : fds[s] = h
      BY DEF Descriptors
  <1> HIDE DEF fds
  <1> QED
      BY <1>1, SyncersAssumption, FreeInodeExists DEF MirrorTyped, RegistryInodes

LEMMA MirrorInitInv == MirrorInit => MirrorInv
  <1> SUFFICES ASSUME MirrorInit PROVE MirrorInv
      OBVIOUS
  <1> USE DEF MirrorInit
  <1>1. MirrorTyped
    <2>1. registry \in Files(RegistryInodes, Texts) /\ Apart(registry)
        BY InodesOfSyncers, NoFilesFile DEF RegistryInodes
    <2>2. <<>> \in Seq(Texts)
        BY EmptySeq
    <2>3. NotSyncing \in SyncRecords
        BY <2>2, InodesOfSyncers DEF NotSyncing, SyncRecords, Places
    <2> QED
        BY <2>1, <2>2, <2>3 DEF MirrorTyped
  <1>2. registry.file = 0
      BY InodesOfSyncers, NoFilesFile DEF RegistryInodes
  <1>3. \A s \in Syncers : syncer[s].pc = "idle" /\ syncer[s].fd = 0
      BY DEF NotSyncing
  <1>4. Syncing = {}
      BY <1>3 DEF Syncing
  <1> QED
      BY <1>1, <1>2, <1>3, <1>4 DEF MirrorInv, SyncPlaces, AloneSyncs, RegistryUnheld,
         RegistryWhole, RegistryFollowsRows, FileParses, FileList

\* A step of a busy sync s that leaves the others alone: what it owes.
LEMMA SyncMoves ==
    ASSUME MirrorInv, MirrorTyped', NEW s \in Syncing, UNCHANGED docRows,
           NEW now \in SyncRecords, syncer' = [syncer EXCEPT ![s] = now],
           now.pc # "idle", now.alone = syncer[s].alone,
           now.fd # 0 <=> now.pc = "write",
           registry.file # 0 => registry'.file # 0,
           now.pc = "copy" => registry'.file # 0,
           now.alone /\ TmpIsMine(s) =>
             /\ now.pc # "read" => now.rows = docRows
             /\ now.pc = "write" =>
                  now.fd = registry'.tmp /\ registry'.node[registry'.tmp].state = "empty"
             /\ now.pc \in {"rename", "copy"} =>
                  registry'.tmp # 0 /\ Holds(registry'.node[registry'.tmp], docRows)
    PROVE  SyncPlaces' /\ AloneSyncs' /\ RegistryFollowsRows'
  <1>1. s \in Syncers /\ syncer' \in [Syncers -> SyncRecords] /\ syncer \in [Syncers -> SyncRecords]
      BY DEF Syncing, MirrorInv, MirrorTyped
  <1>2. syncer'[s] = now /\ \A r \in Syncers \ {s} : syncer'[r] = syncer[r]
      BY <1>1
  <1>3. Syncing' = Syncing
      BY <1>2 DEF Syncing
  <1>4. SyncPlaces'
      BY <1>1, <1>2 DEF SyncPlaces, MirrorInv
  <1>5. AloneSyncs'
    <2> SUFFICES ASSUME NEW r \in Syncing', syncer'[r].alone PROVE TmpIsMine(r)'
        BY DEF AloneSyncs
    <2>1. r \in Syncing /\ r \in Syncers /\ syncer[r].alone
        BY <1>2, <1>3 DEF Syncing
    <2>2. TmpIsMine(r) /\ r = s
        BY <2>1 DEF MirrorInv, AloneSyncs, TmpIsMine
    <2> QED
        BY <1>2, <1>3, <2>1, <2>2 DEF TmpIsMine
  <1>6. RegistryFollowsRows'
      BY <1>3 DEF RegistryFollowsRows
  <1> QED
      BY <1>4, <1>5, <1>6

\* A sync that ends: what it leaves behind.
LEMMA SyncEnds ==
    ASSUME MirrorInv, MirrorTyped', NEW s \in Syncing, UNCHANGED docRows,
           syncer' = [syncer EXCEPT ![s] = NotSyncing], crossing' = ~syncer[s].alone,
           registry.file # 0 => registry'.file # 0,
           syncer[s].alone /\ TmpIsMine(s) =>
             registry'.file # 0 /\ Holds(registry'.node[registry'.file], docRows)
    PROVE  MirrorInv'
  <1>1. s \in Syncers /\ syncer \in [Syncers -> SyncRecords] /\ syncer[s].alone \in BOOLEAN
      BY SyncerFields DEF Syncing, MirrorInv, MirrorTyped
  <1>2. syncer'[s] = NotSyncing /\ \A r \in Syncers \ {s} : syncer'[r] = syncer[r]
      BY <1>1
  <1>3. Syncing' = Syncing \ {s}
      BY <1>2 DEF Syncing, NotSyncing
  <1>4. SyncPlaces'
      BY <1>1, <1>2 DEF SyncPlaces, MirrorInv, NotSyncing
  <1>5. AloneSyncs'
    <2> SUFFICES ASSUME NEW r \in Syncing', syncer'[r].alone PROVE FALSE
        BY DEF AloneSyncs
    <2>1. r \in Syncing /\ r # s /\ syncer[r].alone
        BY <1>2, <1>3 DEF Syncing
    <2> QED
        BY <2>1 DEF MirrorInv, AloneSyncs, TmpIsMine
  <1>6. ASSUME ~crossing'
        PROVE  /\ registry'.file # 0 /\ Holds(registry'.node[registry'.file], docRows)
               /\ Syncing' = {}
    <2>1. TmpIsMine(s) /\ syncer[s].alone
        BY <1>1, <1>6 DEF MirrorInv, AloneSyncs
    <2> QED
        BY <1>3, <2>1 DEF TmpIsMine
  <1>7. RegistryUnheld'
    <2> SUFFICES ASSUME ~crossing', NEW r \in Syncers PROVE syncer'[r].fd # registry'.file
        BY DEF RegistryUnheld
    <2>1. syncer'[r].pc = "idle" /\ registry'.file # 0
        BY <1>6 DEF Syncing
    <2> QED
        BY <1>4, <2>1 DEF SyncPlaces
  <1>8. RegistryWhole' /\ RegistryFollowsRows'
      BY <1>6 DEF RegistryWhole, RegistryFollowsRows, FileParses, FileList, Holds
  <1> QED
      BY <1>4, <1>5, <1>7, <1>8 DEF MirrorInv

LEMMA ChangeRowsStep ==
    ASSUME MirrorInv, NEW s \in Syncers, ChangeRows(s)
    PROVE  MirrorInv'
  <1> USE DEF MirrorInv
  <1>1. syncer[s].pc = "idle" /\ UNCHANGED <<registry, behindRows, crossing, torn>>
      BY DEF ChangeRows
  <1>2. \A x \in Syncers :
          /\ syncer'[x] \in SyncRecords
          /\ syncer'[x].pc = IF x = s THEN "read" ELSE syncer[x].pc
          /\ syncer'[x].fd = syncer[x].fd
          /\ syncer'[x].alone = (Syncing = {})
    <2> DEFINE none == Syncing = {}
    <2> SUFFICES ASSUME NEW x \in Syncers
                 PROVE  /\ syncer'[x] \in SyncRecords
                        /\ syncer'[x].pc = IF x = s THEN "read" ELSE syncer[x].pc
                        /\ syncer'[x].fd = syncer[x].fd
                        /\ syncer'[x].alone = none
        OBVIOUS
    <2>1. none \in BOOLEAN
        OBVIOUS
    <2>2. syncer'[x] = [syncer[x] EXCEPT !.alone = none, !.pc = IF x = s THEN "read" ELSE @]
        BY DEF ChangeRows
    <2> HIDE DEF none
    <2>3. /\ syncer[x] \in SyncRecords
          /\ syncer[x].pc \in Places
        BY SyncerFields DEF Places
    <2>4. PICK p \in Places : p = IF x = s THEN "read" ELSE syncer[x].pc
        BY <2>3 DEF Places
    <2>5. syncer'[x] = [syncer[x] EXCEPT !.alone = none, !.pc = p]
        BY <2>2, <2>3, <2>4 DEF SyncRecords
    <2> QED
        BY <2>1, <2>3, <2>4, <2>5 DEF SyncRecords, Places
  <1>3. MirrorTyped'
    <2>1. syncer' \in [Syncers -> SyncRecords]
      <3>1. syncer' = [x \in Syncers |-> syncer'[x]]
          BY DEF ChangeRows
      <3> QED
          BY <1>2, <3>1
    <2>2. docRows' \in Seq(Texts)
      <3>1. CASE docRows' = Append(docRows, "doc")
        <4>1. docRows \in Seq(Texts)
            BY DEF MirrorTyped
        <4>2. "doc" \in Texts
            BY DEF Texts
        <4> QED
            BY <3>1, <4>1, <4>2, AppendProperties
      <3>2. CASE docRows # <<>> /\ docRows' = SubSeq(docRows, 1, Len(docRows) - 1)
          BY <3>2, LenProperties, ElementOfSeq, SubSeqProperties DEF MirrorTyped
      <3> QED
          BY <3>1, <3>2 DEF ChangeRows
    <2> QED
        BY <1>1, <2>1, <2>2 DEF MirrorTyped
  <1>4. Syncing' = Syncing \cup {s}
      BY <1>2 DEF Syncing
  <1>5. SyncPlaces' /\ RegistryUnheld'
      BY <1>1, <1>2 DEF SyncPlaces, RegistryUnheld
  <1>6. AloneSyncs'
    <2> SUFFICES ASSUME NEW r \in Syncing', syncer'[r].alone PROVE TmpIsMine(r)'
        BY DEF AloneSyncs
    <2>1. Syncing = {} /\ r = s /\ syncer'[s].pc = "read"
        BY <1>2, <1>4 DEF Syncing
    <2> QED
        BY <1>4, <2>1 DEF TmpIsMine
  <1>7. RegistryWhole' /\ RegistryFollowsRows'
      BY <1>1, <1>4 DEF RegistryWhole, RegistryFollowsRows
  <1> QED
      BY <1>3, <1>5, <1>6, <1>7

LEMMA ReadRowsStep ==
    ASSUME MirrorInv, NEW s \in Syncers, ReadRows(s)
    PROVE  MirrorInv'
  <1> DEFINE now == [syncer[s] EXCEPT !.pc = "open", !.rows = docRows]
  <1>1. /\ syncer[s].pc = "read" /\ s \in Syncing
        /\ UNCHANGED <<docRows, registry, behindRows, crossing, torn>>
      BY DEF ReadRows, Syncing
  <1>2. syncer' = [syncer EXCEPT ![s] = now]
      BY DEF ReadRows
  <1>3. syncer[s].fd = 0
      BY <1>1 DEF MirrorInv, SyncPlaces
  <1>4. /\ now \in SyncRecords
        /\ now.pc = "open" /\ now.alone = syncer[s].alone /\ now.rows = docRows /\ now.fd = 0
    <2>1. docRows \in Seq(Texts) /\ syncer[s] \in SyncRecords
        BY DEF MirrorInv, MirrorTyped
    <2>2. "open" \in Places
        BY DEF Places
    <2>3. now = [syncer[s] EXCEPT !.pc = "open", !.rows = docRows]
        OBVIOUS
    <2> HIDE DEF now
    <2> QED
        BY <1>3, <2>1, <2>2, <2>3 DEF SyncRecords, Places
  <1> HIDE DEF now
  <1>5. MirrorTyped'
      BY <1>1, <1>2, <1>4 DEF MirrorInv, MirrorTyped
  <1>7. SyncPlaces' /\ AloneSyncs' /\ RegistryFollowsRows'
      BY <1>1, <1>2, <1>4, <1>5, SyncMoves
  <1>8. \A r \in Syncers : syncer'[r].fd = syncer[r].fd
      BY <1>1, <1>2, <1>3, <1>4 DEF MirrorInv, MirrorTyped
  <1> QED
      BY <1>1, <1>5, <1>7, <1>8 DEF MirrorInv, RegistryUnheld, RegistryWhole

LEMMA OpenRegistryTmpStep ==
    ASSUME MirrorInv, NEW s \in Syncers, OpenRegistryTmp(s)
    PROVE  MirrorInv'
  <1> DEFINE now == [syncer[s] EXCEPT !.pc = "write", !.fd = registry'.tmp]
  <1>1. /\ syncer[s].pc = "open" /\ s \in Syncing
        /\ UNCHANGED <<docRows, behindRows, crossing, torn>>
        /\ MirrorTyped
      BY DEF OpenRegistryTmp, Syncing, MirrorInv
  <1>2. syncer' = [syncer EXCEPT ![s] = now]
      BY <1>1 DEF OpenRegistryTmp, MirrorTyped
  <1>3. /\ registry' \in Files(RegistryInodes, Texts) /\ Apart(registry')
        /\ registry'.file = registry.file /\ registry'.tmp \in 1..RegistryInodes
        /\ registry'.node[registry'.tmp].state = "empty"
        /\ registry.file # 0 => registry'.node[registry.file] = registry.node[registry.file]
    <2>1. registry.tmp = 0 => FreeInode(registry, Descriptors)
             \in (1..RegistryInodes) \ (Descriptors \cup {registry.tmp, registry.file})
        BY <1>1, FreeForSync
    <2>2. registry' = TmpOpened(registry, Descriptors, 0)
        BY DEF OpenRegistryTmp
    <2>3. /\ RegistryInodes \in Nat /\ 0 \in Nat
          /\ registry \in Files(RegistryInodes, Texts) /\ Apart(registry)
        BY <1>1, InodesOfSyncers DEF MirrorTyped
    <2> DEFINE new == registry'
    <2>4. new = TmpOpened(registry, Descriptors, 0)
        BY <2>2
    <2> HIDE DEF new
    <2>5. /\ new \in Files(RegistryInodes, Texts) /\ Apart(new)
          /\ new.file = registry.file /\ new.tmp \in 1..RegistryInodes /\ new.node[new.tmp].state = "empty"
          /\ registry.file # 0 => new.node[registry.file] = registry.node[registry.file]
        BY ONLY <2>1, <2>3, <2>4, TmpOpenedFile
    <2> QED
        BY <2>5 DEF new
  <1>4. registry'.tmp \in 0..RegistryInodes /\ registry'.tmp # 0
      BY <1>3, InodesOfSyncers
  <1>6. /\ now \in SyncRecords
        /\ now.pc = "write" /\ now.alone = syncer[s].alone /\ now.rows = syncer[s].rows
        /\ now.fd = registry'.tmp /\ now.fd # 0
    <2>1. "write" \in Places /\ syncer[s] \in SyncRecords
        BY <1>1, SyncerFields DEF Places
    <2>2. now = [syncer[s] EXCEPT !.pc = "write", !.fd = registry'.tmp]
        OBVIOUS
    <2> HIDE DEF now
    <2> QED
        BY <1>4, <2>1, <2>2 DEF SyncRecords, Places
  <1> HIDE DEF now
  <1>5. MirrorTyped'
      BY <1>1, <1>2, <1>3, <1>6 DEF MirrorTyped
  <1>7. now.alone /\ TmpIsMine(s) => now.rows = docRows
      BY <1>1, <1>6 DEF TmpIsMine
  <1>8. SyncPlaces' /\ AloneSyncs' /\ RegistryFollowsRows'
      BY <1>1, <1>2, <1>3, <1>5, <1>6, <1>7, SyncMoves
  <1>9. RegistryUnheld'
    <2>1. \A r \in Syncers : syncer'[r].fd = syncer[r].fd \/ syncer'[r].fd = registry'.tmp
        BY <1>1, <1>2, <1>6 DEF MirrorTyped
    <2>2. registry'.tmp # registry'.file
        BY <1>3, InodesOfSyncers DEF Apart
    <2> QED
        BY <1>1, <1>3, <2>1, <2>2 DEF MirrorInv, RegistryUnheld
  <1>10. RegistryWhole'
      BY <1>1, <1>3 DEF MirrorInv, RegistryWhole, FileParses
  <1> QED
      BY <1>5, <1>8, <1>9, <1>10 DEF MirrorInv

LEMMA WriteRegistryTmpStep ==
    ASSUME MirrorInv, NEW s \in Syncers, WriteRegistryTmp(s)
    PROVE  MirrorInv'
  <1> DEFINE i == syncer[s].fd
             now == [syncer[s] EXCEPT !.pc = "rename", !.fd = 0]
  <1>1. /\ syncer[s].pc = "write" /\ s \in Syncing
        /\ UNCHANGED <<docRows, behindRows, crossing, torn>>
        /\ MirrorTyped
      BY DEF WriteRegistryTmp, Syncing, MirrorInv
  <1>2. syncer' = [syncer EXCEPT ![s] = now]
      BY <1>1 DEF WriteRegistryTmp, MirrorTyped
  <1>3. i \in 1..RegistryInodes
    <2>1. syncer[s].fd \in 0..RegistryInodes
        BY <1>1, SyncerFields
    <2>2. syncer[s].fd # 0
        BY <1>1 DEF MirrorInv, SyncPlaces
    <2> QED
        BY <2>1, <2>2, InodesOfSyncers
  <1>4. /\ registry' \in Files(RegistryInodes, Texts) /\ Apart(registry')
        /\ registry'.file = registry.file /\ registry'.tmp = registry.tmp
        /\ \A j \in (1..RegistryInodes) \ {i} : registry'.node[j] = registry.node[j]
        /\ registry.node[i].state = "empty" => Holds(registry'.node[i], syncer[s].rows)
    <2>1. registry' = Written(registry, i, syncer[s].rows, 0) /\ syncer[s].rows \in Seq(Texts)
        BY <1>1, SyncerFields DEF WriteRegistryTmp
    <2> HIDE DEF i
    <2>2. /\ RegistryInodes \in Nat /\ 0 \in Nat
          /\ registry \in Files(RegistryInodes, Texts) /\ Apart(registry)
        BY <1>1, InodesOfSyncers DEF MirrorTyped
    <2>3. WrittenTo(RegistryInodes, Texts, registry, i, syncer[s].rows, registry')
        BY <1>3, <2>1, <2>2, WrittenFile
    <2> QED
        BY <2>3 DEF WrittenTo
  <1>7. /\ now \in SyncRecords
        /\ now.pc = "rename" /\ now.alone = syncer[s].alone /\ now.rows = syncer[s].rows
        /\ now.fd = 0
    <2>1. 0 \in 0..RegistryInodes /\ "rename" \in Places /\ syncer[s] \in SyncRecords
        BY <1>1, InodesOfSyncers, SyncerFields DEF Places
    <2>2. now = [syncer[s] EXCEPT !.pc = "rename", !.fd = 0]
        OBVIOUS
    <2> HIDE DEF now
    <2> QED
        BY <2>1, <2>2 DEF SyncRecords, Places
  <1> HIDE DEF now, i
  <1>6. MirrorTyped'
      BY <1>1, <1>2, <1>4, <1>7 DEF MirrorTyped
  <1>8. TmpIsMine(s) => /\ now.rows = docRows /\ registry'.tmp # 0
                        /\ Holds(registry'.node[registry'.tmp], docRows)
    <2> USE DEF i
    <2>1. i # 0
        BY <1>3, InodesOfSyncers
    <2> QED
        BY <1>1, <1>4, <1>7, <2>1 DEF TmpIsMine
  <1>9. SyncPlaces' /\ AloneSyncs' /\ RegistryFollowsRows'
      BY <1>1, <1>2, <1>4, <1>6, <1>7, <1>8, SyncMoves
  <1>10. RegistryUnheld'
    <2>1. \A r \in Syncers : syncer'[r].fd = syncer[r].fd \/ syncer'[r].fd = 0
        BY <1>1, <1>2, <1>7 DEF MirrorTyped
    <2> QED
        BY <1>1, <1>4, <2>1 DEF MirrorInv, RegistryUnheld
  <1>11. RegistryWhole'
    <2>1. registry.file \in 0..RegistryInodes
        BY <1>1 DEF MirrorTyped, Files
    <2>2. crossing \/ registry.file = 0 \/ i # registry.file
        BY DEF i, MirrorInv, RegistryUnheld
    <2> QED
        BY <1>1, <1>4, <2>1, <2>2, InodesOfSyncers DEF MirrorInv, RegistryWhole, FileParses
  <1> QED
      BY <1>6, <1>9, <1>10, <1>11 DEF MirrorInv

LEMMA RenameRegistryStep ==
    ASSUME MirrorInv, NEW s \in Syncers, RenameRegistry(s)
    PROVE  MirrorInv'
  <1>1. /\ syncer[s].pc = "rename" /\ s \in Syncing /\ UNCHANGED docRows
        /\ syncer' = [syncer EXCEPT ![s] = NotSyncing] /\ crossing' = ~syncer[s].alone
        /\ MirrorTyped
      BY DEF RenameRegistry, Syncing, MirrorInv
  <1>2. NotSyncing \in SyncRecords
      BY EmptySeq, InodesOfSyncers DEF NotSyncing, SyncRecords, Places
  <1>3. CASE registry.tmp = 0
    <2>1. behindRows' = TRUE /\ UNCHANGED <<registry, torn>>
        BY <1>3 DEF RenameRegistry
    <2>2. MirrorTyped'
        BY <1>1, <1>2, <2>1 DEF MirrorTyped
    <2>3. ~TmpIsMine(s)
        BY <1>1, <1>3 DEF TmpIsMine
    <2> QED
        BY <1>1, <2>1, <2>2, <2>3, SyncEnds
  <1>4. CASE registry.tmp # 0
    <2>1. registry' = TmpRenamed(registry) /\ behindRows' = FALSE /\ torn' = FALSE
        BY <1>4 DEF RenameRegistry
    <2>2. /\ registry' \in Files(RegistryInodes, Texts) /\ Apart(registry')
          /\ registry'.file = registry.tmp /\ registry'.node = registry.node
        BY <1>1, <2>1, InodesOfSyncers, TmpRenamedFile DEF MirrorTyped
    <2>3. MirrorTyped'
        BY <1>1, <1>2, <2>1, <2>2 DEF MirrorTyped
    <2>4. TmpIsMine(s) => Holds(registry'.node[registry'.file], docRows)
        BY <1>1, <2>2 DEF TmpIsMine
    <2> QED
        BY <1>1, <1>4, <2>2, <2>3, <2>4, SyncEnds
  <1> QED
      BY <1>3, <1>4

LEMMA RenameRefusedOpenStep ==
    ASSUME MirrorInv, NEW s \in Syncers, RenameRefusedOpen(s)
    PROVE  MirrorInv'
  <1> DEFINE now == [syncer[s] EXCEPT !.pc = "copy"]
  <1>1. /\ syncer[s].pc = "rename" /\ s \in Syncing /\ registry.tmp # 0 /\ torn' = TRUE
        /\ UNCHANGED <<docRows, behindRows, crossing>>
        /\ MirrorTyped
      BY DEF RenameRefusedOpen, Syncing, MirrorInv
  <1>2. syncer' = [syncer EXCEPT ![s] = now]
      BY <1>1 DEF RenameRefusedOpen, MirrorTyped
  <1>3. /\ registry' \in Files(RegistryInodes, Texts) /\ Apart(registry')
        /\ registry'.tmp = registry.tmp /\ registry'.file \in 1..RegistryInodes
        /\ registry'.node[registry.tmp] = registry.node[registry.tmp]
        /\ registry'.file \notin Descriptors \/ registry'.file = registry.file
    <2>1. registry.file = 0 => FreeInode(registry, Descriptors)
             \in (1..RegistryInodes) \ (Descriptors \cup {registry.tmp, registry.file})
        BY <1>1, FreeForSync
    <2>2. registry' = FileOpened(registry, Descriptors, 0)
        BY DEF RenameRefusedOpen
    <2>3. /\ RegistryInodes \in Nat /\ 0 \in Nat
          /\ registry \in Files(RegistryInodes, Texts) /\ Apart(registry)
        BY <1>1, InodesOfSyncers DEF MirrorTyped
    <2> DEFINE new == FileOpened(registry, Descriptors, 0)
    <2>4. /\ new \in Files(RegistryInodes, Texts) /\ Apart(new)
          /\ new.tmp = registry.tmp /\ new.file \in 1..RegistryInodes
          /\ registry.tmp # 0 => new.node[registry.tmp] = registry.node[registry.tmp]
          /\ new.file \notin Descriptors \/ new.file = registry.file
        BY <2>1, <2>3, FileOpenedFile
    <2>5. registry' = new
        BY <2>2
    <2> HIDE DEF new
    <2> QED
        BY <1>1, <2>4, <2>5
  <1>4. syncer[s].fd = 0
      BY <1>1 DEF MirrorInv, SyncPlaces
  <1>6. /\ now \in SyncRecords
        /\ now.pc = "copy" /\ now.alone = syncer[s].alone /\ now.rows = syncer[s].rows
        /\ now.fd = 0 /\ syncer[s].fd = 0
    <2>1. "copy" \in Places /\ syncer[s] \in SyncRecords
        BY <1>1, SyncerFields DEF Places
    <2> QED
        BY <1>4, <2>1 DEF SyncRecords, Places
  <1> HIDE DEF now
  <1>5. MirrorTyped'
      BY <1>1, <1>2, <1>3, <1>6 DEF MirrorTyped
  <1>7. registry'.file # 0
      BY <1>3, InodesOfSyncers
  <1>8. TmpIsMine(s) => /\ now.rows = docRows /\ registry'.tmp # 0
                        /\ Holds(registry'.node[registry'.tmp], docRows)
      BY <1>1, <1>3, <1>6 DEF TmpIsMine
  <1>9. SyncPlaces' /\ AloneSyncs' /\ RegistryFollowsRows'
      BY <1>1, <1>2, <1>5, <1>6, <1>7, <1>8, SyncMoves
  <1>10. RegistryUnheld'
    <2> SUFFICES ASSUME ~crossing, NEW r \in Syncers PROVE syncer'[r].fd # registry'.file
        BY <1>1 DEF RegistryUnheld
    <2>1. syncer'[r].fd = syncer[r].fd
        BY <1>1, <1>2, <1>6 DEF MirrorTyped
    <2>2. syncer[r].fd \in Descriptors
        BY DEF Descriptors
    <2> QED
        BY <1>3, <1>7, <2>1, <2>2 DEF MirrorInv, RegistryUnheld
  <1>11. RegistryWhole'
      BY <1>1 DEF RegistryWhole
  <1> QED
      BY <1>5, <1>9, <1>10, <1>11 DEF MirrorInv

LEMMA CopyRegistryStep ==
    ASSUME MirrorInv, NEW s \in Syncers, CopyRegistry(s)
    PROVE  MirrorInv'
  <1>1. /\ syncer[s].pc = "copy" /\ s \in Syncing /\ UNCHANGED docRows
        /\ syncer' = [syncer EXCEPT ![s] = NotSyncing] /\ crossing' = ~syncer[s].alone
        /\ MirrorTyped /\ registry.file # 0
      BY DEF CopyRegistry, Syncing, MirrorInv, SyncPlaces
  <1>2. NotSyncing \in SyncRecords
      BY EmptySeq, InodesOfSyncers DEF NotSyncing, SyncRecords, Places
  <1>3. CASE registry.tmp = 0
    <2>1. behindRows' = TRUE /\ UNCHANGED <<registry, torn>>
        BY <1>3 DEF CopyRegistry
    <2>2. MirrorTyped'
        BY <1>1, <1>2, <2>1 DEF MirrorTyped
    <2>3. ~TmpIsMine(s)
        BY <1>1, <1>3 DEF TmpIsMine
    <2> QED
        BY <1>1, <2>1, <2>2, <2>3, SyncEnds
  <1>4. CASE registry.tmp # 0
    <2>1. registry' = TmpCopied(registry, 0) /\ behindRows' = FALSE /\ torn' = FALSE
        BY <1>4 DEF CopyRegistry
    <2>2. /\ registry' \in Files(RegistryInodes, Texts) /\ Apart(registry')
          /\ registry'.file = registry.file
          /\ \A list : Holds(registry.node[registry.tmp], list)
                       => Holds(registry'.node[registry.file], list)
      <3>1. RegistryInodes \in Nat /\ 0 \in Nat /\ registry \in Files(RegistryInodes, Texts) /\ Apart(registry)
          BY <1>1, InodesOfSyncers DEF MirrorTyped
      <3> QED
          BY <1>1, <1>4, <2>1, <3>1, TmpCopiedFile, SMTT(60)
    <2>3. MirrorTyped'
        BY <1>1, <1>2, <2>1, <2>2 DEF MirrorTyped
    <2>4. TmpIsMine(s) => Holds(registry'.node[registry'.file], docRows)
        BY <1>1, <2>2 DEF TmpIsMine
    <2> QED
        BY <1>1, <2>2, <2>3, <2>4, SyncEnds
  <1> QED
      BY <1>3, <1>4

LEMMA MirrorCrashStep ==
    ASSUME MirrorInv, MirrorCrash
    PROVE  MirrorInv'
  <1>1. /\ syncer' = [s \in Syncers |-> NotSyncing] /\ behindRows' = TRUE
        /\ UNCHANGED <<docRows, registry, crossing, torn>>
      BY DEF MirrorCrash
  <1>2. NotSyncing \in SyncRecords
      BY EmptySeq, InodesOfSyncers DEF NotSyncing, SyncRecords, Places
  <1>3. MirrorTyped'
      BY <1>1, <1>2 DEF MirrorInv, MirrorTyped
  <1>4. \A s \in Syncers : syncer'[s].pc = "idle" /\ syncer'[s].fd = 0
      BY <1>1 DEF NotSyncing
  <1>5. Syncing' = {}
      BY <1>4 DEF Syncing
  <1> QED
      BY <1>1, <1>3, <1>4, <1>5 DEF MirrorInv, SyncPlaces, AloneSyncs, RegistryUnheld,
         RegistryWhole, RegistryFollowsRows

LEMMA MirrorStep == MirrorInv /\ [MirrorNext]_mirrorVars => MirrorInv'
  <1> SUFFICES ASSUME MirrorInv, [MirrorNext]_mirrorVars PROVE MirrorInv'
      OBVIOUS
  <1>1. CASE UNCHANGED mirrorVars
      BY <1>1 DEF mirrorVars, MirrorInv, MirrorTyped, SyncPlaces, AloneSyncs, TmpIsMine,
         RegistryUnheld, RegistryWhole, RegistryFollowsRows, Syncing
  <1>2. CASE MirrorCrash
      BY <1>2, MirrorCrashStep
  <1>3. ASSUME NEW s \in Syncers,
               \/ ChangeRows(s) \/ ReadRows(s) \/ OpenRegistryTmp(s) \/ WriteRegistryTmp(s)
               \/ RenameRegistry(s) \/ RenameRefusedOpen(s) \/ CopyRegistry(s)
        PROVE  MirrorInv'
      BY <1>3, ChangeRowsStep, ReadRowsStep, OpenRegistryTmpStep, WriteRegistryTmpStep,
         RenameRegistryStep, RenameRefusedOpenStep, CopyRegistryStep
  <1> QED
      BY <1>1, <1>2, <1>3 DEF MirrorNext

(* However many goroutines sync the documents' JSON mirror, however often   *)
(* the rename is refused, fails or the process dies between two steps of    *)
(* SyncJSONRegistry: MirrorInv is an invariant.                             *)
THEOREM MirrorInvariant == MirrorSpec => []MirrorInv
  <1>1. MirrorInit => MirrorInv
      BY MirrorInitInv
  <1>2. MirrorInv /\ [MirrorNext]_mirrorVars => MirrorInv'
      BY MirrorStep
  <1> QED
      BY <1>1, <1>2, PTL DEF MirrorSpec

(* registry.json lists the rows of the table whenever nobody is at it, the  *)
(* last sync did not fail and overlapped no other, for any number of syncs. *)
THEOREM RegistryFollowsRowsTheorem == MirrorSpec => []RegistryFollowsRows
  <1>1. MirrorInv => RegistryFollowsRows
      BY DEF MirrorInv
  <1> QED
      BY <1>1, MirrorInvariant, PTL

(* registry.json is absent or whole at every moment, crashes included, but  *)
(* for the copy that replaces a refused rename and for overlapping syncs.   *)
THEOREM RegistryWholeTheorem == MirrorSpec => []RegistryWhole
  <1>1. MirrorInv => RegistryWhole
      BY DEF MirrorInv
  <1> QED
      BY <1>1, MirrorInvariant, PTL

-----------------------------------------------------------------------------
(* The settings.  A PUT that overlaps no other writer knows that the temp   *)
(* file is its own and that the Config it saves is still the one in memory; *)
(* a reload that overlaps no PUT knows that the file is as it read it.  The *)
(* file is the text of what was saved but for a copy that is under way or   *)
(* was cut off.                                                             *)

SettingsInodes == Cardinality(Updaters) + 2

Configs == [lang : {"EN", "FR"}, out : OutputDirs \cup {"organized"}, names : Seq(Texts)]
SaveStages == {"idle", "open", "write", "rename", "copy"}

SavingTyped ==
  /\ env \in Environments /\ conf \in Configs
  /\ json \in Files(SettingsInodes, Texts) /\ Apart(json)
  /\ updater \in [Updaters -> [pc : SaveStages, snap : Configs \cup {Nothing},
                               fd : 0..SettingsInodes]]
  /\ scanConf \in [Scans -> [pc : {"idle", "read"}, read : Configs \cup {Nothing}]]
  /\ saved \in Configs \cup {Nothing} /\ mixed \in BOOLEAN /\ half \in BOOLEAN
  /\ cutOff \in BOOLEAN

\* A descriptor is held while it is written, and a copy has its target; what is
\* saved was a Config.
SavePlaces ==
  \A u \in Updaters :
    /\ updater[u].fd # 0 <=> updater[u].pc = "write"
    /\ updater[u].pc = "copy" => json.file # 0
    /\ updater[u].pc # "idle" => updater[u].snap \in Configs

\* Whatever two writers did, a text that parses is the text of a Config.
TextsAreConfigs ==
  \A i \in 1..SettingsInodes :
    json.node[i].state = "json" => \E c \in Configs : json.node[i].list = TextOf(c)

SaveKnows(u) ==
  /\ updater[u].snap = conf
  /\ updater[u].pc = "write" => updater[u].fd = json.tmp /\ json.node[json.tmp].state = "empty"
  /\ updater[u].pc \in {"rename", "copy"} =>
       json.tmp # 0 /\ Holds(json.node[json.tmp], TextOf(updater[u].snap))

\* The file is the text of the last Config that was confirmed.
FileIsSaved ==
  IF saved = Nothing THEN json.file = 0
  ELSE json.file # 0 /\ Holds(json.node[json.file], TextOf(saved))

\* What holds as long as no two writers have overlapped.
OneAtATime ==
  /\ \A u, v \in Putting : u = v
  /\ Putting = {} \/ Reloading = {}
  /\ \A u \in Putting : SaveKnows(u)
  /\ \A s \in Reloading : scanConf[s].read = FieldsOf(json)
  /\ cutOff \/ FileIsSaved
  /\ Putting = {} /\ ~half /\ ~cutOff /\ saved # Nothing => conf = saved

SavingInv == SavingTyped /\ SavePlaces /\ TextsAreConfigs /\ (mixed \/ OneAtATime)

LEMMA InodesOfSettings == SettingsInodes \in Nat /\ 0 \in 0..SettingsInodes
  <1>1. SettingsInodes \in Nat
      BY UpdatersAssumption, FS_CardinalityType DEF SettingsInodes
  <1> QED
      BY <1>1

LEMMA NothingFields == Nothing.lang = "" /\ Nothing.out = "" /\ Nothing.names = <<>>
  BY DEF Nothing

LEMMA ConfigFields ==
    ASSUME NEW c \in Configs
    PROVE  /\ c.lang \in {"EN", "FR"} /\ c.out \in OutputDirs \cup {"organized"}
           /\ c.out # "" /\ c.names \in Seq(Texts) /\ c # Nothing
           /\ c.lang \in Texts /\ c.out \in Texts
           /\ c = [lang |-> c.lang, out |-> c.out, names |-> c.names]
  <1>1. /\ c.lang \in {"EN", "FR"} /\ c.out \in OutputDirs \cup {"organized"}
        /\ c.names \in Seq(Texts)
        /\ c = [lang |-> c.lang, out |-> c.out, names |-> c.names]
      BY DEF Configs
  <1>2. c.out # "" /\ c.lang \in Texts /\ c.out \in Texts
      BY <1>1, OutputsAssumption DEF Texts
  <1>3. c # Nothing
      BY <1>2, NothingFields
  <1> QED
      BY <1>1, <1>2, <1>3

LEMMA TextTyped ==
    ASSUME NEW c \in Configs
    PROVE  TextOf(c) \in Seq(Texts)
  <1>1. c.lang \in Texts /\ c.out \in Texts /\ c.names \in Seq(Texts)
      BY ConfigFields
  <1>2. <<c.lang, c.out>> \in Seq(Texts)
      BY <1>1
  <1> QED
      BY <1>1, <1>2, ConcatProperties DEF TextOf

\* FieldsOf reads back what TextOf wrote.
LEMMA TextReadsBack ==
    ASSUME NEW c \in Configs, NEW fs, fs.file # 0,
           fs.node[fs.file].state = "json", fs.node[fs.file].list = TextOf(c)
    PROVE  FieldsOf(fs) = c
  <1> DEFINE head == <<c.lang, c.out>>
             text == TextOf(c)
  <1>1. /\ head \in Seq(Texts) /\ Len(head) = 2 /\ head[1] = c.lang /\ head[2] = c.out
        /\ c.names \in Seq(Texts)
    <2>1. c.lang \in Texts /\ c.out \in Texts /\ c.names \in Seq(Texts)
        BY ConfigFields
    <2> QED
        BY <2>1
  <1>2. text = head \o c.names
      BY DEF TextOf
  <1> HIDE DEF head, text
  <1>3. Len(c.names) \in Nat
      BY <1>1, LenProperties
  <1>4. /\ text \in Seq(Texts) /\ Len(text) = 2 + Len(c.names)
        /\ \A i \in 1..2 + Len(c.names) : text[i] = IF i <= 2 THEN head[i] ELSE c.names[i - 2]
    <2>1. /\ head \o c.names \in Seq(Texts)
          /\ Len(head \o c.names) = Len(head) + Len(c.names)
          /\ \A i \in 1..Len(head) + Len(c.names) :
               (head \o c.names)[i] = IF i <= Len(head) THEN head[i] ELSE c.names[i - Len(head)]
        BY <1>1, ConcatProperties
    <2> QED
        BY <1>1, <1>2, <2>1
  <1>5. text[1] = c.lang /\ text[2] = c.out
      BY <1>1, <1>3, <1>4
  <1>6. SubSeq(text, 3, Len(text)) = c.names
    <2> DEFINE rest == SubSeq(text, 3, Len(text))
    <2>1. \A i \in 3..Len(text) : text[i] \in Texts
        BY <1>3, <1>4, ElementOfSeq
    <2>2. /\ rest \in Seq(Texts)
          /\ Len(rest) = IF 3 <= Len(text) THEN Len(text) - 3 + 1 ELSE 0
          /\ \A i \in 1..Len(text) - 3 + 1 : rest[i] = text[3 + i - 1]
        BY <1>3, <1>4, <2>1, SubSeqProperties
    <2> HIDE DEF rest
    <2>3. Len(rest) = Len(c.names)
        BY <1>3, <1>4, <2>2
    <2>4. \A i \in 1..Len(rest) : rest[i] = c.names[i]
      <3> SUFFICES ASSUME NEW i \in 1..Len(rest) PROVE rest[i] = c.names[i]
          OBVIOUS
      <3>1. i \in 1..Len(text) - 3 + 1 /\ 3 + i - 1 = i + 2 /\ i + 2 \in 1..2 + Len(c.names)
          BY <1>3, <1>4, <2>3
      <3>2. rest[i] = text[i + 2] /\ text[i + 2] = c.names[(i + 2) - 2]
          BY <1>3, <1>4, <2>2, <2>3, <3>1
      <3>3. (i + 2) - 2 = i
          BY <1>3, <2>3
      <3> QED
          BY <3>2, <3>3
    <2> QED
        BY <1>1, <2>2, <2>3, <2>4, SeqEqual DEF rest
  <1>7. FileList(fs) = text /\ FileExists(fs) /\ FileParses(fs)
      BY DEF FileList, FileExists, FileParses, text
  <1>8. FieldsOf(fs) = [lang |-> text[1], out |-> text[2], names |-> SubSeq(text, 3, Len(text))]
    <2>1. ~(Len(text) < 2)
        BY <1>3, <1>4
    <2> QED
        BY <1>7, <2>1 DEF FieldsOf
  <1> QED
      BY <1>5, <1>6, <1>8, ConfigFields

LEMMA FieldsAreConfig ==
    ASSUME SavingTyped, TextsAreConfigs
    PROVE  FieldsOf(json) \in Configs \cup {Nothing}
  <1>1. CASE ~FileExists(json) \/ ~FileParses(json)
      BY <1>1 DEF FieldsOf
  <1>2. CASE FileExists(json) /\ FileParses(json)
    <2>1. json.file \in 1..SettingsInodes /\ json.file # 0 /\ json.node[json.file].state = "json"
        BY <1>2, InodesOfSettings DEF SavingTyped, Files, FileExists, FileParses
    <2>2. PICK c \in Configs : json.node[json.file].list = TextOf(c)
        BY <2>1 DEF TextsAreConfigs
    <2>3. FieldsOf(json) = c
        BY <2>1, <2>2, TextReadsBack
    <2> QED
        BY <2>3
  <1> QED
      BY <1>1, <1>2

LEMMA SavedIsRead ==
    ASSUME SavingTyped, FileIsSaved, saved # Nothing
    PROVE  saved \in Configs /\ FieldsOf(json) = saved
  <1>1. saved \in Configs
      BY DEF SavingTyped
  <1>2. json.file # 0 /\ json.node[json.file].state = "json"
        /\ json.node[json.file].list = TextOf(saved)
      BY DEF FileIsSaved, Holds
  <1> QED
      BY <1>1, <1>2, TextReadsBack

\* What a Config makes of what was read: a Config again, and the one that was
\* saved when that is what was read.
LEMMA ReloadedConfig ==
    ASSUME NEW c \in Configs, NEW read \in Configs \cup {Nothing}
    PROVE  Reloaded(c, read) \in Configs /\ (read # Nothing => Reloaded(c, read) = read)
  <1>1. CASE read = Nothing
      BY <1>1, EmptySeq, ConfigFields
         DEF Reloaded, Nothing, SanitizeLanguage, FirstNonEmpty, Configs
  <1>2. CASE read \in Configs
    <2>1. SanitizeLanguage(read.lang) = read.lang /\ FirstNonEmpty(read.out, c.out) = read.out
        BY <1>2, ConfigFields DEF SanitizeLanguage, FirstNonEmpty
    <2>2. Reloaded(c, read) = read
        BY <1>2, <2>1, ConfigFields DEF Reloaded
    <2> QED
        BY <1>2, <2>2
  <1> QED
      BY <1>1, <1>2

LEMMA BuiltConfig ==
    ASSUME NEW vars \in Environments, NEW read \in Configs \cup {Nothing}
    PROVE  BuildConfig(read, vars) \in Configs /\ (read # Nothing => BuildConfig(read, vars) = read)
  <1>1. CASE read = Nothing
    <2>1. vars.out \in {""} \cup OutputDirs
        BY DEF Environments
    <2>2. /\ BuildConfig(read, vars).lang \in {"EN", "FR"}
          /\ BuildConfig(read, vars).out \in OutputDirs \cup {"organized"}
          /\ BuildConfig(read, vars).names \in Seq(Texts)
        BY <1>1, <2>1, EmptySeq, OutputsAssumption
           DEF BuildConfig, Nothing, SanitizeLanguage, FirstNonEmpty
    <2> QED
        BY <1>1, <2>2 DEF BuildConfig, Configs
  <1>2. CASE read \in Configs
    <2>1. /\ SanitizeLanguage(FirstNonEmpty(read.lang, vars.lang)) = read.lang
          /\ FirstNonEmpty(read.out, FirstNonEmpty(vars.out, "organized")) = read.out
        BY <1>2, ConfigFields DEF SanitizeLanguage, FirstNonEmpty
    <2>2. BuildConfig(read, vars) = read
        BY <1>2, <2>1, ConfigFields DEF BuildConfig
    <2> QED
        BY <1>2, <2>2
  <1> QED
      BY <1>1, <1>2

LEMMA SavingInit == SettingsInit => SavingInv
  <1> SUFFICES ASSUME SettingsInit PROVE SavingInv
      OBVIOUS
  <1> USE DEF SettingsInit
  <1>1. json \in Files(SettingsInodes, Texts) /\ Apart(json) /\ json.file = 0
      BY InodesOfSettings, NoFilesFile DEF SettingsInodes
  <1>2. conf \in Configs
      BY BuiltConfig
  <1>3. SavingTyped
    <2>1. AtRest \in [pc : SaveStages, snap : Configs \cup {Nothing}, fd : 0..SettingsInodes]
        BY InodesOfSettings DEF AtRest, SaveStages
    <2>2. NoReload \in [pc : {"idle", "read"}, read : Configs \cup {Nothing}]
        BY DEF NoReload
    <2> QED
        BY <1>1, <1>2, <2>1, <2>2 DEF SavingTyped
  <1>4. \A u \in Updaters : updater[u].pc = "idle" /\ updater[u].fd = 0
      BY DEF AtRest
  <1>5. \A s \in Scans : scanConf[s].pc = "idle"
      BY DEF NoReload
  <1>6. Putting = {} /\ Reloading = {}
      BY <1>4, <1>5 DEF Putting, Reloading
  <1>7. TextsAreConfigs
      BY InodesOfSettings DEF TextsAreConfigs, NoFiles, Blank, SettingsInodes
  <1> QED
      BY <1>1, <1>3, <1>4, <1>6, <1>7 DEF SavingInv, SavePlaces, OneAtATime, FileIsSaved

LEMMA PutBegins ==
    ASSUME SavingInv, NEW u \in Updaters, NEW lang \in Languages \cup {""},
           NEW out \in OutputDirs \cup {""}, NEW names \in Denylists, Put(u, lang, out, names)
    PROVE  SavingInv'
  <1> DEFINE now == [pc |-> "open", snap |-> conf', fd |-> 0]
  <1>1. /\ updater' = [updater EXCEPT ![u] = now]
        /\ mixed' = (mixed \/ Putting # {} \/ Reloading # {})
        /\ UNCHANGED <<env, json, scanConf, saved, half, cutOff>>
        /\ SavingTyped
      BY DEF Put, SavingInv
  <1>2. conf' \in Configs
    <2>1. names \in Seq(Texts)
        BY DenylistAssumption, SeqMonotonic DEF Texts
    <2>2. conf.lang \in {"EN", "FR"} /\ conf.out \in OutputDirs \cup {"organized"}
        BY <1>1, ConfigFields DEF SavingTyped
    <2>3. conf' = [lang |-> IF lang = "" THEN conf.lang ELSE SanitizeLanguage(lang),
                   out |-> FirstNonEmpty(out, conf.out), names |-> names]
        BY DEF Put
    <2> QED
        BY <2>1, <2>2, <2>3 DEF Configs, SanitizeLanguage, FirstNonEmpty
  <1>3. /\ now \in [pc : SaveStages, snap : Configs \cup {Nothing}, fd : 0..SettingsInodes]
        /\ now.pc = "open" /\ now.snap = conf' /\ now.fd = 0
    <2>2. "open" \in SaveStages
        BY DEF SaveStages
    <2> QED
        BY <1>2, <2>2, InodesOfSettings
  <1> HIDE DEF now
  <1>4. SavingTyped'
    <2>1. mixed' \in BOOLEAN
        BY <1>1
    <2> QED
        BY <1>1, <1>2, <1>3, <2>1 DEF SavingTyped
  <1>5. updater'[u] = now /\ \A v \in Updaters \ {u} : updater'[v] = updater[v]
      BY <1>1 DEF SavingTyped
  <1>6. SavePlaces'
      BY <1>1, <1>2, <1>3, <1>5 DEF SavingInv, SavePlaces
  <1>7. TextsAreConfigs'
      BY <1>1 DEF SavingInv, TextsAreConfigs
  <1>8. ASSUME ~mixed' PROVE OneAtATime'
    <2>1. OneAtATime /\ Putting = {} /\ Reloading = {}
        BY <1>1, <1>8 DEF SavingInv
    <2>2. Putting' = {u}
        BY <1>3, <1>5, <2>1 DEF Putting
    <2>3. Reloading' = {}
        BY <1>1, <2>1 DEF Reloading
    <2>4. SaveKnows(u)'
        BY <1>3, <1>5 DEF SaveKnows
    <2>5. cutOff' \/ FileIsSaved'
        BY <1>1, <2>1 DEF OneAtATime, FileIsSaved
    <2> QED
        BY <2>2, <2>3, <2>4, <2>5 DEF OneAtATime
  <1> QED
      BY <1>4, <1>6, <1>7, <1>8 DEF SavingInv

\* A PUT that goes on under way: what it owes.
LEMMA PutMoves ==
    ASSUME SavingInv, NEW u \in Putting, UNCHANGED <<env, conf, scanConf, saved, mixed, half, cutOff>>,
           json' \in Files(SettingsInodes, Texts), Apart(json'),
           NEW now \in [pc : SaveStages, snap : Configs \cup {Nothing}, fd : 0..SettingsInodes],
           updater' = [updater EXCEPT ![u] = now],
           now.pc \notin {"idle", "copy"}, now.snap = updater[u].snap, now.fd # 0 <=> now.pc = "write",
           json'.file = json.file,
           TextsAreConfigs',
           OneAtATime =>
             /\ json.file # 0 => json'.node[json.file] = json.node[json.file]
             /\ now.pc = "write" => now.fd = json'.tmp /\ json'.node[json'.tmp].state = "empty"
             /\ now.pc = "rename" =>
                  json'.tmp # 0 /\ Holds(json'.node[json'.tmp], TextOf(now.snap))
    PROVE  SavingInv'
  <1>1. u \in Updaters /\ updater[u].pc # "idle" /\ SavingTyped
      BY DEF Putting, SavingInv
  <1>2. updater'[u] = now /\ \A v \in Updaters \ {u} : updater'[v] = updater[v]
      BY <1>1 DEF SavingTyped
  <1>3. SavingTyped'
      BY <1>1 DEF SavingTyped
  <1>4. SavePlaces'
      BY <1>1, <1>2 DEF SavingInv, SavePlaces
  <1>5. Putting' = Putting /\ Reloading' = Reloading
      BY <1>1, <1>2 DEF Putting, Reloading
  <1>6. ASSUME ~mixed PROVE OneAtATime'
    <2>1. OneAtATime
        BY <1>6 DEF SavingInv
    <2>2. Putting = {u} /\ Reloading = {} /\ SaveKnows(u)
        BY <2>1 DEF OneAtATime
    <2>3. SaveKnows(u)'
        BY <1>2, <2>1, <2>2 DEF SaveKnows
    <2>4. cutOff' \/ FileIsSaved'
        BY <2>1 DEF OneAtATime, FileIsSaved
    <2> QED
        BY <1>5, <2>2, <2>3, <2>4 DEF OneAtATime
  <1> QED
      BY <1>3, <1>4, <1>6 DEF SavingInv

LEMMA UpdaterFields ==
    ASSUME SavingTyped, NEW u \in Updaters
    PROVE  /\ updater[u] \in [pc : SaveStages, snap : Configs \cup {Nothing}, fd : 0..SettingsInodes]
           /\ updater[u].pc \in SaveStages /\ updater[u].snap \in Configs \cup {Nothing}
           /\ updater[u].fd \in 0..SettingsInodes
  BY DEF SavingTyped

LEMMA OpenJsonStep ==
    ASSUME SavingInv, NEW u \in Updaters, OpenJson(u)
    PROVE  SavingInv'
  <1> DEFINE now == [updater[u] EXCEPT !.pc = "write", !.fd = json'.tmp]
             fds == [v \in Updaters |-> updater[v].fd]
  <1>1. /\ updater[u].pc = "open" /\ u \in Putting
        /\ UNCHANGED <<env, conf, scanConf, saved, mixed, half, cutOff>>
        /\ SavingTyped
      BY DEF OpenJson, Putting, SavingInv
  <1>2. updater' = [updater EXCEPT ![u] = now]
      BY <1>1 DEF OpenJson, SavingTyped
  <1>3. json.tmp = 0 =>
          FreeInode(json, Fds) \in (1..SettingsInodes) \ (Fds \cup {json.tmp, json.file})
    <2>1. \A h \in Fds : \E v \in Updaters : fds[v] = h
        BY DEF Fds
    <2> HIDE DEF fds
    <2> QED
        BY <1>1, <2>1, UpdatersAssumption, FreeInodeExists DEF SavingTyped, SettingsInodes
  <1>4. /\ json' \in Files(SettingsInodes, Texts) /\ Apart(json')
        /\ json'.file = json.file /\ json'.tmp \in 1..SettingsInodes
        /\ json'.node[json'.tmp].state = "empty"
        /\ json.file # 0 => json'.node[json.file] = json.node[json.file]
        /\ \A j \in 1..SettingsInodes : json'.node[j] = json.node[j] \/ json'.node[j].state = "empty"
    <2>1. json' = TmpOpened(json, Fds, 0)
        BY DEF OpenJson
    <2>2. /\ SettingsInodes \in Nat /\ 0 \in Nat
          /\ json \in Files(SettingsInodes, Texts) /\ Apart(json)
        BY <1>1, InodesOfSettings DEF SavingTyped
    <2> QED
        BY <1>3, <2>1, <2>2, TmpOpenedFile
  <1>5. json'.tmp \in 0..SettingsInodes /\ json'.tmp # 0
      BY <1>4, InodesOfSettings
  <1>6. /\ now \in [pc : SaveStages, snap : Configs \cup {Nothing}, fd : 0..SettingsInodes]
        /\ now.pc = "write" /\ now.snap = updater[u].snap /\ now.fd = json'.tmp
      BY <1>1, <1>5, UpdaterFields DEF SaveStages
  <1> HIDE DEF now
  <1>7. TextsAreConfigs'
      BY <1>4 DEF SavingInv, TextsAreConfigs
  <1> QED
      BY <1>1, <1>2, <1>4, <1>5, <1>6, <1>7, PutMoves

LEMMA WriteJsonStep ==
    ASSUME SavingInv, NEW u \in Updaters, WriteJson(u)
    PROVE  SavingInv'
  <1> DEFINE i == updater[u].fd
             now == [updater[u] EXCEPT !.pc = "rename", !.fd = 0]
  <1>1. /\ updater[u].pc = "write" /\ u \in Putting
        /\ UNCHANGED <<env, conf, scanConf, saved, mixed, half, cutOff>>
        /\ SavingTyped
      BY DEF WriteJson, Putting, SavingInv
  <1>2. updater' = [updater EXCEPT ![u] = now]
      BY <1>1 DEF WriteJson, SavingTyped
  <1>3. i \in 1..SettingsInodes /\ updater[u].snap \in Configs
    <2>1. updater[u].fd \in 0..SettingsInodes
        BY <1>1, UpdaterFields
    <2>2. updater[u].fd # 0 /\ updater[u].snap \in Configs
        BY <1>1 DEF SavingInv, SavePlaces
    <2> QED
        BY <2>1, <2>2, InodesOfSettings
  <1>4. TextOf(updater[u].snap) \in Seq(Texts)
      BY <1>3, TextTyped
  <1>5. /\ json' \in Files(SettingsInodes, Texts) /\ Apart(json')
        /\ json'.file = json.file /\ json'.tmp = json.tmp
        /\ \A j \in (1..SettingsInodes) \ {i} : json'.node[j] = json.node[j]
        /\ json.node[i].state = "empty" => Holds(json'.node[i], TextOf(updater[u].snap))
        /\ json'.node[i].state = "json" => json'.node[i].list = TextOf(updater[u].snap)
    <2> DEFINE text == TextOf(updater[u].snap)
    <2>1. json' = Written(json, i, text, 0) /\ text \in Seq(Texts)
        BY <1>4 DEF WriteJson
    <2> HIDE DEF i, text
    <2>2. /\ SettingsInodes \in Nat /\ 0 \in Nat /\ i \in 1..SettingsInodes
          /\ json \in Files(SettingsInodes, Texts) /\ Apart(json)
        BY <1>1, <1>3, InodesOfSettings DEF SavingTyped
    <2>3. WrittenTo(SettingsInodes, Texts, json, i, text, json')
        BY <2>1, <2>2, WrittenFile
    <2> QED
        BY <2>3 DEF text, WrittenTo
  <1>6. /\ now \in [pc : SaveStages, snap : Configs \cup {Nothing}, fd : 0..SettingsInodes]
        /\ now.pc = "rename" /\ now.snap = updater[u].snap /\ now.fd = 0
    <2>1. 0 \in 0..SettingsInodes /\ "rename" \in SaveStages
        BY InodesOfSettings DEF SaveStages
    <2> QED
        BY <1>1, <2>1, UpdaterFields
  <1> HIDE DEF now
  <1>7. TextsAreConfigs'
    <2> SUFFICES ASSUME NEW j \in 1..SettingsInodes, json'.node[j].state = "json"
                 PROVE  \E c \in Configs : json'.node[j].list = TextOf(c)
        BY DEF TextsAreConfigs
    <2>1. CASE j = i
        BY <1>3, <1>5, <2>1 DEF Holds
    <2>2. CASE j # i
        BY <1>5, <2>2 DEF SavingInv, TextsAreConfigs
    <2> QED
        BY <2>1, <2>2
  <1>8. OneAtATime =>
          /\ json.file # 0 => json'.node[json.file] = json.node[json.file]
          /\ json'.tmp # 0 /\ Holds(json'.node[json'.tmp], TextOf(now.snap))
    <2> SUFFICES ASSUME OneAtATime
                 PROVE  /\ json.file # 0 => json'.node[json.file] = json.node[json.file]
                        /\ json'.tmp # 0 /\ Holds(json'.node[json'.tmp], TextOf(now.snap))
        OBVIOUS
    <2>1. i = json.tmp /\ json.node[i].state = "empty"
        BY <1>1 DEF OneAtATime, SaveKnows
    <2>2. i # 0 /\ i # json.file /\ json.file \in 0..SettingsInodes
        BY <1>1, <1>3, <2>1, InodesOfSettings DEF SavingTyped, Apart, Files
    <2> QED
        BY <1>5, <1>6, <2>1, <2>2, InodesOfSettings
  <1> QED
      BY <1>1, <1>2, <1>5, <1>6, <1>7, <1>8, PutMoves

\* A PUT that ends: what it leaves.
LEMMA PutEnds ==
    ASSUME SavingInv, NEW u \in Putting, UNCHANGED <<env, conf, scanConf, mixed>>,
           json' \in Files(SettingsInodes, Texts), Apart(json'), TextsAreConfigs',
           saved' \in Configs \cup {Nothing}, half' \in BOOLEAN, cutOff' \in BOOLEAN,
           json.file # 0 => json'.file # 0,
           updater' = [updater EXCEPT ![u] = AtRest],
           OneAtATime => (cutOff' \/ FileIsSaved') /\ (~half' /\ ~cutOff' => conf = saved')
    PROVE  SavingInv'
  <1>1. u \in Updaters /\ updater[u].pc # "idle" /\ SavingTyped
      BY DEF Putting, SavingInv
  <1>2. updater'[u] = AtRest /\ \A v \in Updaters \ {u} : updater'[v] = updater[v]
      BY <1>1 DEF SavingTyped
  <1>3. AtRest \in [pc : SaveStages, snap : Configs \cup {Nothing}, fd : 0..SettingsInodes]
      BY InodesOfSettings DEF AtRest, SaveStages
  <1>4. SavingTyped'
      BY <1>1, <1>3 DEF SavingTyped
  <1>5. SavePlaces'
      BY <1>1, <1>2 DEF SavingInv, SavePlaces, AtRest
  <1>6. Putting' = Putting \ {u} /\ Reloading' = Reloading
      BY <1>1, <1>2 DEF Putting, Reloading, AtRest
  <1>7. ASSUME ~mixed PROVE OneAtATime'
    <2>1. OneAtATime
        BY <1>7 DEF SavingInv
    <2>2. Putting' = {} /\ Reloading' = {}
        BY <1>6, <2>1 DEF OneAtATime
    <2> QED
        BY <2>1, <2>2 DEF OneAtATime
  <1> QED
      BY <1>4, <1>5, <1>7 DEF SavingInv

LEMMA RenamedStep ==
    ASSUME SavingInv, NEW u \in Updaters, Renamed(u)
    PROVE  SavingInv'
  <1>1. /\ updater[u].pc = "rename" /\ u \in Putting
        /\ UNCHANGED <<env, conf, scanConf, mixed>>
        /\ updater' = [updater EXCEPT ![u] = AtRest]
        /\ SavingTyped /\ TextsAreConfigs
      BY DEF Renamed, Putting, SavingInv
  <1>2. CASE json.tmp = 0
    <2>1. half' = TRUE /\ UNCHANGED <<json, saved, cutOff>>
        BY <1>2 DEF Renamed
    <2>2. /\ json' \in Files(SettingsInodes, Texts) /\ Apart(json')
          /\ saved' \in Configs \cup {Nothing} /\ cutOff' \in BOOLEAN
        BY <1>1, <2>1 DEF SavingTyped
    <2>3. TextsAreConfigs'
        BY <1>1, <2>1 DEF TextsAreConfigs
    <2>4. OneAtATime => cutOff' \/ FileIsSaved'
        BY <2>1 DEF OneAtATime, FileIsSaved
    <2> QED
        BY <1>1, <2>1, <2>2, <2>3, <2>4, PutEnds
  <1>3. CASE json.tmp # 0
    <2>1. /\ json' = TmpRenamed(json) /\ saved' = updater[u].snap
          /\ half' = FALSE /\ cutOff' = FALSE
        BY <1>3 DEF Renamed
    <2>2. /\ json' \in Files(SettingsInodes, Texts) /\ Apart(json')
          /\ json'.file = json.tmp /\ json'.node = json.node
        BY <1>1, <2>1, InodesOfSettings, TmpRenamedFile DEF SavingTyped
    <2>3. TextsAreConfigs'
        BY <1>1, <2>2 DEF TextsAreConfigs
    <2>4. saved' \in Configs /\ saved' # Nothing
        BY <1>1, <2>1, ConfigFields DEF SavingInv, SavePlaces
    <2>5. OneAtATime => FileIsSaved' /\ conf = saved'
      <3> SUFFICES ASSUME OneAtATime PROVE FileIsSaved' /\ conf = saved'
          OBVIOUS
      <3>1. SaveKnows(u)
          BY <1>1 DEF OneAtATime
      <3>2. conf = saved' /\ json'.file # 0 /\ Holds(json'.node[json'.file], TextOf(saved'))
          BY <1>1, <1>3, <2>1, <2>2, <3>1 DEF SaveKnows
      <3> QED
          BY <2>4, <3>2 DEF FileIsSaved
    <2> QED
        BY <1>1, <1>3, <2>1, <2>2, <2>3, <2>4, <2>5, PutEnds
  <1> QED
      BY <1>2, <1>3

LEMMA JsonRenameRefusedStep ==
    ASSUME SavingInv, NEW u \in Updaters, JsonRenameRefused(u)
    PROVE  SavingInv'
  <1> DEFINE now == [updater[u] EXCEPT !.pc = "copy"]
             fds == [v \in Updaters |-> updater[v].fd]
  <1>1. /\ updater[u].pc = "rename" /\ u \in Putting /\ json.tmp # 0 /\ cutOff' = TRUE
        /\ UNCHANGED <<env, conf, scanConf, saved, mixed, half>>
        /\ SavingTyped
      BY DEF JsonRenameRefused, Putting, SavingInv
  <1>2. updater' = [updater EXCEPT ![u] = now]
      BY <1>1 DEF JsonRenameRefused, SavingTyped
  <1>3. json.file = 0 =>
          FreeInode(json, Fds) \in (1..SettingsInodes) \ (Fds \cup {json.tmp, json.file})
    <2>1. \A h \in Fds : \E v \in Updaters : fds[v] = h
        BY DEF Fds
    <2> HIDE DEF fds
    <2> QED
        BY <1>1, <2>1, UpdatersAssumption, FreeInodeExists DEF SavingTyped, SettingsInodes
  <1>4. /\ json' \in Files(SettingsInodes, Texts) /\ Apart(json')
        /\ json'.tmp = json.tmp /\ json'.file \in 1..SettingsInodes
        /\ json'.node[json.tmp] = json.node[json.tmp]
        /\ \A j \in 1..SettingsInodes : json'.node[j] = json.node[j] \/ json'.node[j].state = "empty"
    <2>1. json' = FileOpened(json, Fds, 0)
        BY DEF JsonRenameRefused
    <2>2. /\ SettingsInodes \in Nat /\ 0 \in Nat
          /\ json \in Files(SettingsInodes, Texts) /\ Apart(json)
        BY <1>1, InodesOfSettings DEF SavingTyped
    <2> QED
        BY <1>1, <1>3, <2>1, <2>2, FileOpenedFile
  <1>5. json'.file # 0
      BY <1>4, InodesOfSettings
  <1>6. /\ now \in [pc : SaveStages, snap : Configs \cup {Nothing}, fd : 0..SettingsInodes]
        /\ now.pc = "copy" /\ now.snap = updater[u].snap /\ now.fd = updater[u].fd
      BY <1>1, UpdaterFields DEF SaveStages
  <1> HIDE DEF now
  <1>7. updater'[u] = now /\ \A v \in Updaters \ {u} : updater'[v] = updater[v]
      BY <1>1, <1>2 DEF SavingTyped
  <1>8. SavingTyped'
      BY <1>1, <1>2, <1>4, <1>6 DEF SavingTyped
  <1>9. SavePlaces'
      BY <1>1, <1>5, <1>6, <1>7 DEF SavingInv, SavePlaces
  <1>10. TextsAreConfigs'
      BY <1>4 DEF SavingInv, TextsAreConfigs
  <1>11. Putting' = Putting /\ Reloading' = Reloading
      BY <1>1, <1>6, <1>7 DEF Putting, Reloading
  <1>12. ASSUME ~mixed PROVE OneAtATime'
    <2>1. OneAtATime
        BY <1>12 DEF SavingInv
    <2>2. Putting = {u} /\ Reloading = {} /\ SaveKnows(u)
        BY <1>1, <2>1 DEF OneAtATime
    <2>3. SaveKnows(u)'
        BY <1>1, <1>4, <1>6, <1>7, <2>2 DEF SaveKnows
    <2> QED
        BY <1>1, <1>11, <2>2, <2>3 DEF OneAtATime
  <1> QED
      BY <1>1, <1>8, <1>9, <1>10, <1>12 DEF SavingInv

LEMMA CopyJsonStep ==
    ASSUME SavingInv, NEW u \in Updaters, CopyJson(u)
    PROVE  SavingInv'
  <1>1. /\ updater[u].pc = "copy" /\ u \in Putting
        /\ UNCHANGED <<env, conf, scanConf, mixed>>
        /\ updater' = [updater EXCEPT ![u] = AtRest]
        /\ SavingTyped /\ TextsAreConfigs
      BY DEF CopyJson, Putting, SavingInv
  <1>2. CASE json.tmp = 0
    <2>1. half' = TRUE /\ UNCHANGED <<json, saved, cutOff>>
        BY <1>2 DEF CopyJson
    <2>2. /\ json' \in Files(SettingsInodes, Texts) /\ Apart(json')
          /\ saved' \in Configs \cup {Nothing} /\ cutOff' \in BOOLEAN
        BY <1>1, <2>1 DEF SavingTyped
    <2>3. TextsAreConfigs'
        BY <1>1, <2>1 DEF TextsAreConfigs
    <2>4. OneAtATime => cutOff' \/ FileIsSaved'
        BY <2>1 DEF OneAtATime, FileIsSaved
    <2> QED
        BY <1>1, <2>1, <2>2, <2>3, <2>4, PutEnds
  <1>3. CASE json.tmp # 0
    <2>1. /\ json' = TmpCopied(json, 0) /\ saved' = updater[u].snap
          /\ half' = FALSE /\ cutOff' = FALSE
        BY <1>3 DEF CopyJson
    <2>2. json.file # 0 /\ updater[u].snap \in Configs
        BY <1>1 DEF SavingInv, SavePlaces
    <2>3. /\ json' \in Files(SettingsInodes, Texts) /\ Apart(json') /\ json'.file = json.file
          /\ \A list : Holds(json.node[json.tmp], list) => Holds(json'.node[json.file], list)
          /\ json'.node[json.file].state = json.node[json.tmp].state
          /\ json'.node[json.file].list = json.node[json.tmp].list
          /\ \A j \in (1..SettingsInodes) \ {json.file} : json'.node[j] = json.node[j]
      <3>1. /\ SettingsInodes \in Nat /\ 0 \in Nat
            /\ json \in Files(SettingsInodes, Texts) /\ Apart(json) /\ json' = TmpCopied(json, 0)
          BY <1>1, <2>1, InodesOfSettings DEF SavingTyped
      <3> QED
          BY <1>3, <2>2, <3>1, TmpCopiedFile
    <2>4. TextsAreConfigs'
      <3>1. json.tmp \in 1..SettingsInodes
          BY <1>1, <1>3, InodesOfSettings DEF SavingTyped, Files
      <3> QED
          BY <1>1, <2>3, <3>1 DEF TextsAreConfigs
    <2>5. saved' \in Configs /\ saved' # Nothing
        BY <2>1, <2>2, ConfigFields
    <2>6. OneAtATime => FileIsSaved' /\ conf = saved'
      <3> SUFFICES ASSUME OneAtATime PROVE FileIsSaved' /\ conf = saved'
          OBVIOUS
      <3>1. SaveKnows(u)
          BY <1>1 DEF OneAtATime
      <3>2. conf = saved' /\ json'.file # 0 /\ Holds(json'.node[json'.file], TextOf(saved'))
          BY <1>1, <2>1, <2>2, <2>3, <3>1 DEF SaveKnows
      <3> QED
          BY <2>5, <3>2 DEF FileIsSaved
    <2> QED
        BY <1>1, <2>1, <2>2, <2>3, <2>4, <2>5, <2>6, PutEnds
  <1> QED
      BY <1>2, <1>3

LEMMA SaveFailsStep ==
    ASSUME SavingInv, NEW u \in Updaters, SaveFails(u)
    PROVE  SavingInv'
  <1>1. /\ u \in Putting /\ half' = TRUE
        /\ UNCHANGED <<env, conf, json, scanConf, saved, mixed, cutOff>>
        /\ updater' = [updater EXCEPT ![u] = AtRest]
        /\ SavingTyped /\ TextsAreConfigs
      BY DEF SaveFails, Putting, SavingInv
  <1>2. /\ json' \in Files(SettingsInodes, Texts) /\ Apart(json')
        /\ saved' \in Configs \cup {Nothing} /\ cutOff' \in BOOLEAN
      BY <1>1 DEF SavingTyped
  <1>3. TextsAreConfigs'
      BY <1>1 DEF TextsAreConfigs
  <1>4. OneAtATime => cutOff' \/ FileIsSaved'
      BY <1>1 DEF OneAtATime, FileIsSaved
  <1> QED
      BY <1>1, <1>2, <1>3, <1>4, PutEnds

LEMMA ReloadReadStep ==
    ASSUME SavingInv, NEW s \in Scans, ReloadRead(s)
    PROVE  SavingInv'
  <1> DEFINE now == [pc |-> "read", read |-> FieldsOf(json)]
  <1>1. /\ scanConf' = [scanConf EXCEPT ![s] = now] /\ mixed' = (mixed \/ Putting # {})
        /\ UNCHANGED <<env, conf, json, updater, saved, half, cutOff>>
        /\ SavingTyped /\ TextsAreConfigs
      BY DEF ReloadRead, SavingInv
  <1>2. /\ now \in [pc : {"idle", "read"}, read : Configs \cup {Nothing}]
        /\ now.read = FieldsOf(json)
      BY <1>1, FieldsAreConfig
  <1> HIDE DEF now
  <1>3. SavingTyped'
    <2>1. mixed' \in BOOLEAN
        BY <1>1
    <2> QED
        BY <1>1, <1>2, <2>1 DEF SavingTyped
  <1>4. SavePlaces' /\ TextsAreConfigs'
      BY <1>1 DEF SavingInv, SavePlaces, TextsAreConfigs
  <1>5. ASSUME ~mixed' PROVE OneAtATime'
    <2>1. OneAtATime /\ Putting = {}
        BY <1>1, <1>5 DEF SavingInv
    <2>2. Putting' = {}
        BY <1>1, <2>1 DEF Putting
    <2>3. FieldsOf(json)' = FieldsOf(json)
        BY <1>1 DEF FieldsOf, FileExists, FileParses, FileList
    <2>4. \A r \in Reloading' : scanConf'[r].read = FieldsOf(json)
        BY <1>1, <1>2, <2>1 DEF OneAtATime, Reloading, SavingTyped
    <2>5. cutOff' \/ FileIsSaved'
        BY <1>1, <2>1 DEF OneAtATime, FileIsSaved
    <2> QED
        BY <1>1, <2>1, <2>2, <2>3, <2>4, <2>5 DEF OneAtATime
  <1> QED
      BY <1>3, <1>4, <1>5 DEF SavingInv

LEMMA ReloadApplyStep ==
    ASSUME SavingInv, NEW s \in Scans, ReloadApply(s)
    PROVE  SavingInv'
  <1>1. /\ scanConf[s].pc = "read" /\ scanConf' = [scanConf EXCEPT ![s] = NoReload]
        /\ conf' = Reloaded(conf, scanConf[s].read) /\ half' = FALSE
        /\ UNCHANGED <<env, json, updater, saved, mixed, cutOff>>
        /\ SavingTyped /\ TextsAreConfigs
      BY DEF ReloadApply, SavingInv
  <1>2. scanConf[s].read \in Configs \cup {Nothing} /\ s \in Reloading
      BY <1>1 DEF SavingTyped, Reloading
  <1>3. conf' \in Configs
      BY <1>1, <1>2, ReloadedConfig DEF SavingTyped
  <1>4. NoReload \in [pc : {"idle", "read"}, read : Configs \cup {Nothing}] /\ NoReload.pc = "idle"
      BY DEF NoReload
  <1>5. SavingTyped'
      BY <1>1, <1>3, <1>4 DEF SavingTyped
  <1>6. SavePlaces' /\ TextsAreConfigs'
      BY <1>1 DEF SavingInv, SavePlaces, TextsAreConfigs
  <1>7. ASSUME ~mixed' PROVE OneAtATime'
    <2>1. OneAtATime
        BY <1>1, <1>7 DEF SavingInv
    <2>2. Putting = {} /\ scanConf[s].read = FieldsOf(json)
        BY <1>2, <2>1 DEF OneAtATime
    <2>3. Putting' = {}
        BY <1>1, <2>2 DEF Putting
    <2>4. FieldsOf(json)' = FieldsOf(json)
        BY <1>1 DEF FieldsOf, FileExists, FileParses, FileList
    <2>5. \A r \in Reloading' : scanConf'[r].read = FieldsOf(json)
        BY <1>1, <1>4, <2>1 DEF OneAtATime, Reloading, SavingTyped
    <2>6. cutOff' \/ FileIsSaved'
        BY <1>1, <2>1 DEF OneAtATime, FileIsSaved
    <2>7. ~cutOff' /\ saved' # Nothing => conf' = saved'
      <3> SUFFICES ASSUME ~cutOff, saved # Nothing PROVE conf' = saved
          BY <1>1
      <3>1. saved \in Configs /\ FieldsOf(json) = saved
          BY <1>1, <2>1, SavedIsRead DEF OneAtATime
      <3> QED
          BY <1>1, <2>2, <3>1, ReloadedConfig DEF SavingTyped
    <2> QED
        BY <2>3, <2>4, <2>5, <2>6, <2>7 DEF OneAtATime
  <1> QED
      BY <1>5, <1>6, <1>7 DEF SavingInv

LEMMA SettingsRestartStep ==
    ASSUME SavingInv, SettingsRestart
    PROVE  SavingInv'
  <1>1. /\ env' \in Environments /\ conf' = BuildConfig(FieldsOf(json), env')
        /\ updater' = [u \in Updaters |-> AtRest] /\ scanConf' = [s \in Scans |-> NoReload]
        /\ half' = FALSE /\ UNCHANGED <<json, saved, mixed, cutOff>>
        /\ SavingTyped /\ TextsAreConfigs
      BY DEF SettingsRestart, SavingInv
  <1>2. FieldsOf(json) \in Configs \cup {Nothing}
      BY <1>1, FieldsAreConfig
  <1>3. conf' \in Configs
      BY <1>1, <1>2, BuiltConfig
  <1>4. /\ AtRest \in [pc : SaveStages, snap : Configs \cup {Nothing}, fd : 0..SettingsInodes]
        /\ NoReload \in [pc : {"idle", "read"}, read : Configs \cup {Nothing}]
      BY InodesOfSettings DEF AtRest, NoReload, SaveStages
  <1>5. SavingTyped'
      BY <1>1, <1>3, <1>4 DEF SavingTyped
  <1>6. /\ \A u \in Updaters : updater'[u].pc = "idle" /\ updater'[u].fd = 0
        /\ \A s \in Scans : scanConf'[s].pc = "idle"
      BY <1>1 DEF AtRest, NoReload
  <1>7. Putting' = {} /\ Reloading' = {}
      BY <1>6 DEF Putting, Reloading
  <1>8. SavePlaces' /\ TextsAreConfigs'
      BY <1>1, <1>6 DEF SavePlaces, TextsAreConfigs
  <1>9. ASSUME ~mixed' PROVE OneAtATime'
    <2>1. cutOff \/ FileIsSaved
        BY <1>1, <1>9 DEF SavingInv, OneAtATime
    <2>2. cutOff' \/ FileIsSaved'
        BY <1>1, <2>1 DEF FileIsSaved
    <2>3. ~cutOff' /\ saved' # Nothing => conf' = saved'
      <3> SUFFICES ASSUME ~cutOff, saved # Nothing PROVE conf' = saved
          BY <1>1
      <3>1. saved \in Configs /\ FieldsOf(json) = saved
          BY <1>1, <2>1, SavedIsRead
      <3> QED
          BY <1>1, <1>2, <3>1, BuiltConfig
    <2> QED
        BY <1>7, <2>2, <2>3 DEF OneAtATime
  <1> QED
      BY <1>5, <1>8, <1>9 DEF SavingInv

savingVars == <<env, conf, json, updater, scanConf, saved, mixed, half, cutOff>>

LEMMA SavingStutters == SavingInv /\ UNCHANGED savingVars => SavingInv'
  <1> SUFFICES ASSUME SavingInv, UNCHANGED savingVars PROVE SavingInv'
      OBVIOUS
  <1> USE DEF savingVars
  <1>1. SavingTyped' /\ SavePlaces' /\ TextsAreConfigs'
      BY DEF SavingInv, SavingTyped, SavePlaces, TextsAreConfigs
  <1>2. Putting' = Putting /\ Reloading' = Reloading
      BY DEF Putting, Reloading
  <1>3. FieldsOf(json)' = FieldsOf(json)
      BY DEF FieldsOf, FileExists, FileParses, FileList
  <1>4. FileIsSaved' <=> FileIsSaved
      BY DEF FileIsSaved
  <1>5. \A u \in Updaters : SaveKnows(u) => SaveKnows(u)'
      BY DEF SaveKnows
  <1>6. OneAtATime => OneAtATime'
    <2>1. \A u \in Putting : u \in Updaters
        BY DEF Putting
    <2> QED
        BY <1>2, <1>3, <1>4, <1>5, <2>1 DEF OneAtATime
  <1> QED
      BY <1>1, <1>6 DEF SavingInv

LEMMA SavingStep == SavingInv /\ [SettingsNext]_settingsVars => SavingInv'
  <1> SUFFICES ASSUME SavingInv, [SettingsNext]_settingsVars PROVE SavingInv'
      OBVIOUS
  <1>1. CASE UNCHANGED settingsVars
      BY <1>1, SavingStutters DEF settingsVars, savingVars
  <1>2. CASE MigrateStart \/ MigrateCopied \/ \E n \in LegacyNames : MigrateRename(n) \/ MigrateCopy(n)
    <2>1. UNCHANGED savingVars
        BY <1>2 DEF MigrateStart, MigrateCopied, MigrateRename, MigrateCopy, savingVars
    <2> QED
        BY <2>1, SavingStutters
  <1>3. ASSUME NEW u \in Updaters,
               \/ OpenJson(u) \/ WriteJson(u) \/ Renamed(u)
               \/ JsonRenameRefused(u) \/ CopyJson(u) \/ SaveFails(u)
        PROVE  SavingInv'
      BY <1>3, OpenJsonStep, WriteJsonStep, RenamedStep, JsonRenameRefusedStep, CopyJsonStep,
         SaveFailsStep
  <1>4. ASSUME NEW u \in Updaters, NEW lang \in Languages \cup {""},
               NEW out \in OutputDirs \cup {""}, NEW names \in Denylists,
               Put(u, lang, out, names)
        PROVE  SavingInv'
      BY <1>4, PutBegins
  <1>5. ASSUME NEW s \in Scans, ReloadRead(s) \/ ReloadApply(s) PROVE SavingInv'
      BY <1>5, ReloadReadStep, ReloadApplyStep
  <1>6. CASE SettingsRestart
      BY <1>6, SettingsRestartStep
  <1> QED
      BY <1>1, <1>2, <1>3, <1>4, <1>5, <1>6 DEF SettingsNext

-----------------------------------------------------------------------------
(* Moving the legacy folder                                                 *)

MovingInv ==
  /\ legacy \in [LegacyNames -> {"none", "old"}]
  /\ parked \in [LegacyNames -> {"none", "new", "old", "part"}]
  /\ moving \in [pc : {"idle", "next", "copy"}, left : SUBSET LegacyNames, at : LegacyNames \cup {""}]
  /\ moving.pc = "copy" => moving.at \in moving.left
  /\ \A n \in moving.left : legacy[n] = "old"
  /\ LegacyFilesKept

LEMMA MovingInit == SettingsInit => MovingInv
  <1> SUFFICES ASSUME SettingsInit PROVE MovingInv
      OBVIOUS
  <1>1. legacy \in [LegacyNames -> {"none", "old"}] /\ parked \in [LegacyNames -> {"none", "new"}]
      BY DEF SettingsInit
  <1>2. /\ moving \in [pc : {"idle", "next", "copy"}, left : SUBSET LegacyNames,
                        at : LegacyNames \cup {""}]
        /\ moving.left = {} /\ moving.pc = "idle"
      BY DEF SettingsInit, NoMove
  <1>3. parked \in [LegacyNames -> {"none", "new", "old", "part"}]
      BY <1>1
  <1>4. LegacyFilesKept
      BY <1>1 DEF LegacyFilesKept
  <1> QED
      BY <1>1, <1>2, <1>3, <1>4 DEF MovingInv

LEMMA MovingStutters == MovingInv /\ UNCHANGED <<legacy, parked, moving>> => MovingInv'
  BY DEF MovingInv, LegacyFilesKept

LEMMA MovingStep == MovingInv /\ [SettingsNext]_settingsVars => MovingInv'
  <1> SUFFICES ASSUME MovingInv, [SettingsNext]_settingsVars PROVE MovingInv'
      OBVIOUS
  <1> USE DEF MovingInv, LegacyFilesKept
  <1>1. CASE UNCHANGED settingsVars
      BY <1>1, MovingStutters DEF settingsVars
  <1>2. CASE \/ \E u \in Updaters :
                  \/ \E lang \in Languages \cup {""}, out \in OutputDirs \cup {""}, names \in Denylists :
                       Put(u, lang, out, names)
                  \/ OpenJson(u) \/ WriteJson(u) \/ Renamed(u) \/ JsonRenameRefused(u) \/ CopyJson(u) \/ SaveFails(u)
             \/ \E s \in Scans : ReloadRead(s) \/ ReloadApply(s)
    <2>1. UNCHANGED <<legacy, parked, moving>>
        BY <1>2 DEF Put, OpenJson, WriteJson, Renamed, JsonRenameRefused, CopyJson, SaveFails,
                    ReloadRead, ReloadApply
    <2> QED
        BY <2>1, MovingStutters
  <1>3. CASE SettingsRestart
      BY <1>3 DEF SettingsRestart, NoMove
  <1>4. CASE MigrateStart
      BY <1>4 DEF MigrateStart
  <1>5. ASSUME NEW n \in LegacyNames, MigrateRename(n) PROVE MovingInv'
    <2>1. /\ n \in moving.left /\ moving.pc = "next"
          /\ parked' = [parked EXCEPT ![n] = legacy[n]] /\ legacy' = [legacy EXCEPT ![n] = "none"]
          /\ moving' = IF moving.left = {n} THEN NoMove ELSE [moving EXCEPT !.left = @ \ {n}]
        BY <1>5 DEF MigrateRename
    <2>2. legacy[n] = "old"
        BY <2>1
    <2>3. CASE moving.left = {n}
        BY <2>1, <2>2, <2>3 DEF NoMove
    <2>4. CASE moving.left # {n}
      <3>1. moving' = [moving EXCEPT !.left = moving.left \ {n}]
          BY <2>1, <2>4
      <3>2. /\ moving' \in [pc : {"idle", "next", "copy"}, left : SUBSET LegacyNames,
                            at : LegacyNames \cup {""}]
            /\ moving'.left = moving.left \ {n} /\ moving'.pc = "next"
          BY <2>1, <3>1
      <3> QED
          BY <2>1, <2>2, <3>2
    <2> QED
        BY <2>3, <2>4
  <1>6. ASSUME NEW n \in LegacyNames, MigrateCopy(n) PROVE MovingInv'
    <2>1. /\ n \in moving.left /\ UNCHANGED legacy
          /\ parked' = [parked EXCEPT ![n] = "part"]
          /\ moving' = [moving EXCEPT !.pc = "copy", !.at = n]
        BY <1>6 DEF MigrateCopy
    <2>2. /\ moving' \in [pc : {"idle", "next", "copy"}, left : SUBSET LegacyNames,
                          at : LegacyNames \cup {""}]
          /\ moving'.left = moving.left /\ moving'.at = n
        BY <2>1
    <2> HIDE DEF MovingInv
    <2>3. /\ legacy \in [LegacyNames -> {"none", "old"}]
          /\ parked' \in [LegacyNames -> {"none", "new", "old", "part"}]
          /\ \A m \in moving.left : legacy[m] = "old"
          /\ \A m \in LegacyNames : legacy[m] # "none" \/ parked'[m] \in {"none", "old", "new"}
        BY <2>1 DEF MovingInv
    <2> QED
        BY <2>1, <2>2, <2>3 DEF MovingInv
  <1>7. CASE MigrateCopied
    <2> DEFINE n == moving.at
    <2>1. /\ n \in moving.left
          /\ \/ /\ parked' = [parked EXCEPT ![n] = legacy[n]]
                /\ legacy' = [legacy EXCEPT ![n] = "none"]
             \/ UNCHANGED <<parked, legacy>>
          /\ moving' = IF moving.left = {n} THEN NoMove
                       ELSE [pc |-> "next", left |-> moving.left \ {n}, at |-> ""]
        BY <1>7 DEF MigrateCopied
    <2>5. /\ moving' \in [pc : {"idle", "next", "copy"}, left : SUBSET LegacyNames,
                          at : LegacyNames \cup {""}]
          /\ moving'.left \subseteq moving.left \ {n} /\ moving'.pc # "copy"
        BY <2>1 DEF NoMove
    <2> HIDE DEF n
    <2>2. n \in LegacyNames /\ legacy[n] = "old"
        BY <2>1
    <2>3. CASE parked' = [parked EXCEPT ![n] = legacy[n]] /\ legacy' = [legacy EXCEPT ![n] = "none"]
        BY <2>2, <2>3, <2>5
    <2>4. CASE UNCHANGED <<parked, legacy>>
        BY <2>4, <2>5
    <2> QED
        BY <2>1, <2>3, <2>4
  <1> QED
      BY <1>1, <1>2, <1>3, <1>4, <1>5, <1>6, <1>7 DEF SettingsNext

(* However many PUTs, reloads, faults and restarts, in any environments:    *)
(* SavingInv and MovingInv are invariants of the settings.                  *)
THEOREM SettingsInvariant == SettingsSpec => [](SavingInv /\ MovingInv)
  <1>1. SettingsInit => SavingInv /\ MovingInv
      BY SavingInit, MovingInit
  <1>2. SavingInv /\ MovingInv /\ [SettingsNext]_settingsVars => (SavingInv /\ MovingInv)'
      BY SavingStep, MovingStep
  <1> QED
      BY <1>1, <1>2, PTL DEF SettingsSpec

(* A setting that PUT /api/config confirmed stays through reloads, crashes  *)
(* and restarts, settings.json is absent or whole at every moment, both but *)
(* for a copy in place that was cut off, and the migration of the legacy    *)
(* folder loses no file, for any number of writers.                         *)
THEOREM SettingsKeptTheorem == SettingsSpec => []SettingsKept
  <1>1. SavingInv /\ MovingInv => SettingsKept
    <2> SUFFICES ASSUME SavingInv, MovingInv PROVE SettingsKept
        OBVIOUS
    <2>1. SettingsTypeOK
      <3>1. conf.lang \in {"EN", "FR"} /\ conf.out # ""
          BY ConfigFields DEF SavingInv, SavingTyped
      <3>2. json.file \in DOMAIN json.node \cup {0}
          BY InodesOfSettings DEF SavingInv, SavingTyped, Files
      <3>3. \A u \in Updaters : updater[u].snap.lang \in {"EN", "FR", ""}
        <4> SUFFICES ASSUME NEW u \in Updaters PROVE updater[u].snap.lang \in {"EN", "FR", ""}
            OBVIOUS
        <4>1. CASE updater[u].snap \in Configs
            BY <4>1, ConfigFields
        <4>2. CASE updater[u].snap = Nothing
            BY <4>2, NothingFields
        <4> QED
            BY <4>1, <4>2, UpdaterFields DEF SavingInv
      <3> QED
          BY <3>1, <3>2, <3>3 DEF SettingsTypeOK
    <2>2. ConfirmedSettingsStay
        BY DEF SavingInv, OneAtATime, ConfirmedSettingsStay
    <2>3. SettingsParse
      <3> SUFFICES ASSUME ~mixed, ~cutOff PROVE FileParses(json)
          BY DEF SettingsParse
      <3>1. FileIsSaved
          BY DEF SavingInv, OneAtATime
      <3> QED
          BY <3>1 DEF FileIsSaved, FileParses, Holds
    <2> QED
        BY <2>1, <2>2, <2>3 DEF SettingsKept, MovingInv
  <1> QED
      BY <1>1, SettingsInvariant, PTL

-----------------------------------------------------------------------------
(* The log of decisions.  The mirror is a list of the rows by increasing    *)
(* ids; what update, delete and the view of the Settings tab make of it     *)
(* rests on that.                                                           *)

Named == Targets \cup {""}
Records == [id : Nat, target : Named, on : BOOLEAN]
Row(D, id) == [id |-> id, target |-> D[id].target, on |-> D[id].on]

IsTable(list, D) ==
  /\ list \in Seq(Records)
  /\ \A i \in 1..Len(list) : list[i].id \in DOMAIN D /\ list[i] = Row(D, list[i].id)
  /\ \A i, j \in 1..Len(list) : i < j => list[i].id < list[j].id
  /\ \A id \in DOMAIN D : \E i \in 1..Len(list) : list[i].id = id

\* What ReadMirror makes of the list it has read.
Merged(op, list, rec) ==
  LET i == IndexOf(list, rec.id)
  IN  CASE op = "record" -> Append(list, rec)
        [] op = "update" -> IF i = 0 THEN list ELSE [list EXCEPT ![i] = rec]
        [] op = "delete" -> IF i = 0 THEN list ELSE RemoveAt(list, i)

LEMMA IndexOfRow ==
    ASSUME NEW D, NEW list, IsTable(list, D), NEW id \in DOMAIN D
    PROVE  /\ IndexOf(list, id) \in 1..Len(list)
           /\ list[IndexOf(list, id)].id = id
  <1>1. PICK k \in 1..Len(list) : list[k].id = id
      BY DEF IsTable
  <1>2. \A i \in 1..Len(list) : list[i].id = id => i = k
    <2> SUFFICES ASSUME NEW i \in 1..Len(list), list[i].id = id PROVE i = k
        OBVIOUS
    <2>1. i < k => list[i].id < list[k].id
        BY DEF IsTable
    <2>2. k < i => list[k].id < list[i].id
        BY DEF IsTable
    <2>3. Len(list) \in Nat /\ list[k] \in Records /\ list[i] \in Records
        BY <1>1 DEF IsTable
    <2>4. list[k].id \in Nat /\ list[i].id \in Nat
        BY <2>3 DEF Records
    <2> QED
        BY <1>1, <2>1, <2>2, <2>3, <2>4
  <1>3. {i \in 1..Len(list) : list[i].id = id} = {k}
      BY <1>1, <1>2
  <1>4. Min({k}) = k
    <2>1. Len(list) \in Nat
        BY DEF IsTable
    <2> QED
        BY <2>1 DEF Min
  <1>5. IndexOf(list, id) = Min({i \in 1..Len(list) : list[i].id = id})
      BY <1>3 DEF IndexOf, SelectInSeq
  <1> QED
      BY <1>1, <1>3, <1>4, <1>5

\* What a record keeps, whatever the two of them are made of.
LEMMA RecordAppends ==
    ASSUME NEW D, NEW last \in Nat, DOMAIN D \subseteq 1..last, NEW list, IsTable(list, D),
           NEW t \in Targets,
           NEW new, new = [id |-> last + 1, target |-> t, on |-> TRUE],
           NEW E, E = [i \in DOMAIN D \cup {last + 1} |->
                         IF i = last + 1 THEN [target |-> t, on |-> TRUE] ELSE D[i]]
    PROVE  IsTable(Append(list, new), E)
  <1> DEFINE all == Append(list, new)
             n == Len(list)
  <1>1. /\ list \in Seq(Records) /\ n \in Nat /\ new \in Records
        /\ new.id = last + 1 /\ new.target = t /\ new.on = TRUE
    <2>1. list \in Seq(Records)
        BY DEF IsTable
    <2>2. last + 1 \in Nat
        OBVIOUS
    <2>3. new \in Records
        BY <2>2, Zenon DEF Records, Named
    <2> QED
        BY <2>1, <2>3
  <1>2. /\ all \in Seq(Records) /\ Len(all) = n + 1 /\ all[n + 1] = new
        /\ \A i \in 1..n : all[i] = list[i]
      BY <1>1
  <1> HIDE DEF all
  <1>3. \A i \in 1..n : list[i].id \in DOMAIN D /\ list[i].id \in 1..last
                        /\ list[i] = Row(D, list[i].id)
      BY DEF IsTable
  <1>4. DOMAIN E = DOMAIN D \cup {last + 1}
      OBVIOUS
  <1>5. new = Row(E, last + 1)
      BY <1>1 DEF Row
  <1>6. \A id \in DOMAIN D : Row(E, id) = Row(D, id)
    <2> SUFFICES ASSUME NEW id \in DOMAIN D PROVE E[id] = D[id]
        BY DEF Row
    <2>1. id \in 1..last
        OBVIOUS
    <2> QED
        BY <2>1
  <1>7. \A i \in 1..n + 1 : all[i].id \in DOMAIN E /\ all[i] = Row(E, all[i].id)
    <2> SUFFICES ASSUME NEW i \in 1..n + 1 PROVE all[i].id \in DOMAIN E /\ all[i] = Row(E, all[i].id)
        OBVIOUS
    <2>1. CASE i = n + 1
        BY <1>1, <1>2, <1>4, <1>5, <2>1
    <2>2. CASE i \in 1..n
        BY <1>2, <1>3, <1>4, <1>6, <2>2
    <2> QED
        BY <1>1, <2>1, <2>2
  <1>8. \A i, j \in 1..n + 1 : i < j => all[i].id < all[j].id
    <2> SUFFICES ASSUME NEW i \in 1..n + 1, NEW j \in 1..n + 1, i < j PROVE all[i].id < all[j].id
        OBVIOUS
    <2>1. i \in 1..n /\ all[i].id = list[i].id /\ list[i].id \in 1..last
        BY <1>1, <1>2, <1>3
    <2>2. CASE j = n + 1
        BY <1>1, <1>2, <2>1, <2>2
    <2>3. CASE j \in 1..n
        BY <1>2, <2>1, <2>3 DEF IsTable
    <2> QED
        BY <1>1, <2>2, <2>3
  <1>9. \A id \in DOMAIN E : \E i \in 1..n + 1 : all[i].id = id
    <2> SUFFICES ASSUME NEW id \in DOMAIN E PROVE \E i \in 1..n + 1 : all[i].id = id
        OBVIOUS
    <2>1. CASE id = last + 1
        BY <1>1, <1>2, <2>1
    <2>2. CASE id \in DOMAIN D
      <3>1. PICK i \in 1..n : list[i].id = id
          BY <2>2 DEF IsTable
      <3> QED
          BY <1>1, <1>2, <3>1
    <2> QED
        BY <1>4, <2>1, <2>2
  <1> QED
      BY <1>2, <1>7, <1>8, <1>9 DEF IsTable, all

LEMMA UpdateReplaces ==
    ASSUME NEW D, NEW list, IsTable(list, D), NEW rec \in Records, rec.id \in DOMAIN D,
           NEW E, E = [i \in DOMAIN D |->
                         IF i = rec.id THEN [target |-> rec.target, on |-> rec.on] ELSE D[i]]
    PROVE  IsTable([list EXCEPT ![IndexOf(list, rec.id)] = rec], E)
  <1> DEFINE k == IndexOf(list, rec.id)
             all == [list EXCEPT ![k] = rec]
             n == Len(list)
  <1>1. list \in Seq(Records) /\ n \in Nat /\ k \in 1..n /\ list[k].id = rec.id
    <2>1. k \in 1..n /\ list[k].id = rec.id
        BY IndexOfRow
    <2> QED
        BY <2>1 DEF IsTable
  <1> HIDE DEF k
  <1>2. /\ all \in Seq(Records) /\ Len(all) = n /\ all[k] = rec
        /\ \A i \in 1..n : i # k => all[i] = list[i]
      BY <1>1
  <1> HIDE DEF all
  <1>3. \A i \in 1..n : all[i].id = list[i].id
      BY <1>1, <1>2
  <1>4. \A i, j \in 1..n : i < j => list[i].id < list[j].id
      BY DEF IsTable
  <1>5. rec = Row(E, rec.id)
      BY DEF Row, Records
  <1>6. \A i \in 1..n : i # k => list[i].id # rec.id
    <2> SUFFICES ASSUME NEW i \in 1..n, i # k PROVE list[i].id # rec.id
        OBVIOUS
    <2>1. list[i].id \in Nat /\ list[k].id \in Nat
      <3>1. list[i] \in Records /\ list[k] \in Records
          BY <1>1
      <3> QED
          BY <3>1 DEF Records
    <2>2. i < k \/ k < i
        BY <1>1
    <2> QED
        BY <1>1, <1>4, <2>1, <2>2
  <1>7. \A id \in DOMAIN D : id # rec.id => Row(E, id) = Row(D, id)
      BY DEF Row
  <1>8. \A i \in 1..n : list[i].id \in DOMAIN D /\ list[i] = Row(D, list[i].id)
      BY DEF IsTable
  <1>9. \A i \in 1..n : all[i].id \in DOMAIN E /\ all[i] = Row(E, all[i].id)
    <2> SUFFICES ASSUME NEW i \in 1..n PROVE all[i].id \in DOMAIN E /\ all[i] = Row(E, all[i].id)
        OBVIOUS
    <2>1. CASE i = k
        BY <1>2, <1>5, <2>1
    <2>2. CASE i # k
        BY <1>2, <1>6, <1>7, <1>8, <2>2
    <2> QED
        BY <2>1, <2>2
  <1>10. \A id \in DOMAIN E : \E i \in 1..n : all[i].id = id
      BY <1>3 DEF IsTable
  <1> QED
      BY <1>2, <1>3, <1>4, <1>9, <1>10 DEF IsTable, all, k

LEMMA DeleteRemoves ==
    ASSUME NEW D, NEW list, IsTable(list, D), NEW id \in DOMAIN D,
           NEW E, E = [i \in DOMAIN D \ {id} |-> D[i]]
    PROVE  IsTable(RemoveAt(list, IndexOf(list, id)), E)
  <1> DEFINE k == IndexOf(list, id)
             all == RemoveAt(list, k)
             n == Len(list)
             old == [i \in 1..n - 1 |-> IF i < k THEN i ELSE i + 1]
  <1>1. list \in Seq(Records) /\ n \in Nat /\ k \in 1..n /\ list[k].id = id
    <2>1. k \in 1..n /\ list[k].id = id
        BY IndexOfRow
    <2> QED
        BY <2>1 DEF IsTable
  <1> HIDE DEF k
  <1>2. all \in Seq(Records) /\ Len(all) = n - 1 /\ \A i \in 1..n - 1 : all[i] = list[old[i]]
    <2>1. /\ SubSeq(list, 1, k - 1) \in Seq(Records) /\ Len(SubSeq(list, 1, k - 1)) = k - 1
          /\ \A i \in 1..k - 1 : SubSeq(list, 1, k - 1)[i] = list[i]
        BY <1>1
    <2>2. /\ SubSeq(list, k + 1, n) \in Seq(Records) /\ Len(SubSeq(list, k + 1, n)) = n - k
          /\ \A i \in 1..n - k : SubSeq(list, k + 1, n)[i] = list[k + i]
        BY <1>1
    <2> DEFINE before == SubSeq(list, 1, k - 1)
               after == SubSeq(list, k + 1, n)
    <2>3. all = before \o after
        BY DEF RemoveAt
    <2>4. before \in Seq(Records) /\ after \in Seq(Records)
        BY <2>1, <2>2
    <2>5. Len(before) = k - 1 /\ Len(after) = n - k
        BY <2>1, <2>2
    <2>6. \A i \in 1..k - 1 : before[i] = list[i]
        BY <2>1
    <2>7. \A i \in 1..n - k : after[i] = list[k + i]
        BY <2>2
    <2> HIDE DEF before, after, all
    <2>8. all \in Seq(Records) /\ Len(all) = n - 1
        BY <1>1, <2>3, <2>4, <2>5
    <2>9. ASSUME NEW i \in 1..n - 1 PROVE all[i] = list[old[i]]
      <3>1. CASE i < k
        <4>1. all[i] = before[i]
            BY <1>1, <2>3, <2>4, <2>5, <3>1
        <4> QED
            BY <1>1, <2>6, <3>1, <4>1
      <3>2. CASE i >= k
        <4>1. all[i] = after[i - (k - 1)]
          <5>1. i \in 1..(Len(before) + Len(after)) /\ ~(i <= Len(before))
              BY <1>1, <2>5, <3>2
          <5> QED
              BY <2>3, <2>4, <2>5, <5>1, ConcatProperties
        <4>2. i - (k - 1) \in 1..n - k /\ k + (i - (k - 1)) = i + 1
            BY <1>1, <3>2
        <4>3. after[i - (k - 1)] = list[k + (i - (k - 1))]
            BY <2>7, <4>2
        <4> QED
            BY <1>1, <3>2, <4>1, <4>2, <4>3
      <3> QED
          BY <1>1, <3>1, <3>2
    <2> QED
        BY <2>8, <2>9
  <1> HIDE DEF all
  <1>3. /\ \A i \in 1..n - 1 : old[i] \in 1..n /\ old[i] # k
        /\ \A i, j \in 1..n - 1 : i < j => old[i] < old[j]
        /\ \A i \in 1..n : i # k => \E j \in 1..n - 1 : old[j] = i
    <2>1. \A i \in 1..n : i # k => \E j \in 1..n - 1 : old[j] = i
      <3> SUFFICES ASSUME NEW i \in 1..n, i # k PROVE \E j \in 1..n - 1 : old[j] = i
          OBVIOUS
      <3>1. CASE i < k
          BY <1>1, <3>1
      <3>2. CASE i > k
        <4>1. i - 1 \in 1..n - 1 /\ old[i - 1] = i
            BY <1>1, <3>2
        <4> QED
            BY <4>1
      <3> QED
          BY <1>1, <3>1, <3>2
    <2> QED
        BY <1>1, <2>1
  <1> HIDE DEF old
  <1>4. \A i, j \in 1..n : i < j => list[i].id < list[j].id
      BY DEF IsTable
  <1>5. \A i \in 1..n : i # k => list[i].id # id
    <2> SUFFICES ASSUME NEW i \in 1..n, i # k PROVE list[i].id # id
        OBVIOUS
    <2>1. list[i].id \in Nat /\ list[k].id \in Nat
      <3>1. list[i] \in Records /\ list[k] \in Records
          BY <1>1
      <3> QED
          BY <3>1 DEF Records
    <2>2. i < k \/ k < i
        BY <1>1
    <2> QED
        BY <1>1, <1>4, <2>1, <2>2
  <1>6. \A j \in DOMAIN D \ {id} : Row(E, j) = Row(D, j)
      BY DEF Row
  <1>7. \A i \in 1..n - 1 : all[i].id \in DOMAIN E /\ all[i] = Row(E, all[i].id)
    <2> SUFFICES ASSUME NEW i \in 1..n - 1 PROVE all[i].id \in DOMAIN E /\ all[i] = Row(E, all[i].id)
        OBVIOUS
    <2>1. /\ all[i] = list[old[i]] /\ list[old[i]].id \in DOMAIN D \ {id}
          /\ list[old[i]] = Row(D, list[old[i]].id)
        BY <1>2, <1>3, <1>5 DEF IsTable
    <2> QED
        BY <1>6, <2>1
  <1>8. \A i, j \in 1..n - 1 : i < j => all[i].id < all[j].id
      BY ZenonT(40), <1>2, <1>3, <1>4
  <1>9. \A j \in DOMAIN E : \E i \in 1..n - 1 : all[i].id = j
    <2> SUFFICES ASSUME NEW j \in DOMAIN E PROVE \E i \in 1..n - 1 : all[i].id = j
        OBVIOUS
    <2>1. PICK i \in 1..n : list[i].id = j
        BY DEF IsTable
    <2>2. i # k
        BY <1>1, <2>1
    <2>3. PICK m \in 1..n - 1 : old[m] = i
        BY <1>3, <2>2
    <2> QED
        BY <1>2, <2>1, <2>3
  <1> QED
      BY <1>2, <1>7, <1>8, <1>9 DEF IsTable, all, k

LEMMA ReversedRows ==
    ASSUME NEW S, NEW list \in Seq(S)
    PROVE  /\ Reverse(list) \in Seq(S) /\ Len(Reverse(list)) = Len(list)
           /\ \A n \in 1..Len(list) : Reverse(list)[n] = list[Len(list) - n + 1]
  BY DEF Reverse

\* A list of which the ids ascend from k+1 on has that many greater ids.
LEMMA GreaterIds ==
    ASSUME NEW D, NEW list, IsTable(list, D), NEW k \in 0..Len(list),
           NEW T, T = {list[i].id : i \in (k + 1)..Len(list)}
    PROVE  IsFiniteSet(T) /\ Cardinality(T) = Len(list) - k
  <1> DEFINE I == (k + 1)..Len(list)
             f == [i \in I |-> list[i].id]
  <1>1. Len(list) \in Nat /\ I \subseteq 1..Len(list)
      BY DEF IsTable
  <1>2. \A i, j \in I : i # j => f[i] # f[j]
    <2> SUFFICES ASSUME NEW i \in I, NEW j \in I, i < j PROVE f[i] # f[j]
        BY <1>1
    <2>1. list[i].id < list[j].id /\ list[i] \in Records /\ list[j] \in Records
        BY <1>1 DEF IsTable
    <2>2. list[i].id \in Nat /\ list[j].id \in Nat
        BY <2>1 DEF Records
    <2> QED
        BY <2>1, <2>2
  <1>3. f \in Bijection(I, T)
    <2>1. f \in [I -> T]
        OBVIOUS
    <2>2. IsInjective(f)
        BY <1>2 DEF IsInjective
    <2>3. \A t \in T : \E i \in I : f[i] = t
        OBVIOUS
    <2> QED
        BY <2>1, <2>2, <2>3 DEF Bijection, Injection, Surjection
  <1>4. IsFiniteSet(I) /\ Cardinality(I) = Len(list) - k
    <2>1. /\ IsFiniteSet(I)
          /\ Cardinality(I) = IF k + 1 > Len(list) THEN 0 ELSE Len(list) - (k + 1) + 1
      <3>1. k + 1 \in Int /\ Len(list) \in Int
          BY <1>1
      <3> QED
          BY <3>1, FS_Interval
    <2> QED
        BY <1>1, <2>1
  <1> HIDE DEF I
  <1>5. ExistsBijection(I, T)
      BY <1>3 DEF ExistsBijection
  <1> QED
      BY <1>4, <1>5, FS_Bijection

\* The row of which n - 1 have a greater id is the nth from the end.
LEMMA RowsFromTheEnd ==
    ASSUME NEW D, NEW list, IsTable(list, D)
    PROVE  /\ IsFiniteSet(DOMAIN D) /\ Cardinality(DOMAIN D) = Len(list)
           /\ \A k, m \in 1..Len(list) :
                Cardinality({j \in DOMAIN D : j > list[m].id}) = Len(list) - k <=> m = k
  <1>0. Len(list) \in Nat /\ \A i \in 1..Len(list) : list[i].id \in Nat
    <2>1. list \in Seq(Records)
        BY DEF IsTable
    <2>2. ASSUME NEW i \in 1..Len(list) PROVE list[i].id \in Nat
      <3>1. list[i] \in Records
          BY <2>1
      <3> QED
          BY <3>1 DEF Records
    <2> QED
        BY <2>1, <2>2
  <1>1. DOMAIN D = {list[i].id : i \in (0 + 1)..Len(list)}
    <2>1. (0 + 1)..Len(list) = 1..Len(list)
        BY <1>0
    <2>2. \A j : j \in DOMAIN D <=> \E i \in 1..Len(list) : list[i].id = j
        BY DEF IsTable
    <2> QED
        BY <2>1, <2>2
  <1>2. IsFiniteSet(DOMAIN D) /\ Cardinality(DOMAIN D) = Len(list)
    <2>1. 0 \in 0..Len(list) /\ Len(list) - 0 = Len(list)
        BY <1>0
    <2> QED
        BY <1>1, <2>1, GreaterIds
  <1>3. ASSUME NEW m \in 1..Len(list)
        PROVE  Cardinality({j \in DOMAIN D : j > list[m].id}) = Len(list) - m
    <2>1. {j \in DOMAIN D : j > list[m].id} = {list[i].id : i \in (m + 1)..Len(list)}
      <3>1. ASSUME NEW i \in 1..Len(list) PROVE list[i].id > list[m].id <=> i \in (m + 1)..Len(list)
        <4>1. i < m => list[i].id < list[m].id
            BY DEF IsTable
        <4>2. m < i => list[m].id < list[i].id
            BY DEF IsTable
        <4> QED
            BY <1>0, <4>1, <4>2
      <3>2. \A j : j \in DOMAIN D <=> \E i \in 1..Len(list) : list[i].id = j
          BY DEF IsTable
      <3>3. (m + 1)..Len(list) \subseteq 1..Len(list)
          BY <1>0
      <3> QED
          BY <3>1, <3>2, <3>3
    <2>2. m \in 0..Len(list)
        BY <1>0
    <2> QED
        BY <2>1, <2>2, GreaterIds
  <1>4. \A k, m \in 1..Len(list) :
          Cardinality({j \in DOMAIN D : j > list[m].id}) = Len(list) - k <=> m = k
      BY <1>0, <1>3
  <1> QED
      BY <1>2, <1>4

\* The view of the Settings tab is the mirror's list, newest first.
LEMMA TableIsShown ==
    ASSUME NEW list, IsTable(list, decisions)
    PROVE  Reverse(list) = Shown
  <1> DEFINE n == Len(list)
  <1>1. list \in Seq(Records) /\ n \in Nat
      BY DEF IsTable
  <1>2. IsFiniteSet(DOMAIN decisions) /\ Cardinality(DOMAIN decisions) = n
      BY RowsFromTheEnd
  <1>3. Reverse(list) = [i \in 1..n |-> list[(n - i) + 1]]
      BY DEF Reverse
  <1>4. Shown = [i \in 1..n |->
                   LET id == CHOOSE j \in DOMAIN decisions :
                               Cardinality({m \in DOMAIN decisions : m > j}) = i - 1
                   IN  [id |-> id, target |-> decisions[id].target, on |-> decisions[id].on]]
      BY <1>2 DEF Shown
  <1>5. ASSUME NEW i \in 1..n
        PROVE  list[(n - i) + 1] =
                 LET id == CHOOSE j \in DOMAIN decisions :
                             Cardinality({m \in DOMAIN decisions : m > j}) = i - 1
                 IN  [id |-> id, target |-> decisions[id].target, on |-> decisions[id].on]
    <2> DEFINE k == (n - i) + 1
               Nth(j) == Cardinality({m \in DOMAIN decisions : m > j}) = i - 1
    <2>1. k \in 1..n /\ n - k = i - 1
        BY <1>1
    <2>2. \A m \in 1..n : Nth(list[m].id) <=> m = k
      <3>1. \A q, m \in 1..n :
              Cardinality({j \in DOMAIN decisions : j > list[m].id}) = n - q <=> m = q
          BY RowsFromTheEnd
      <3> HIDE DEF k, n
      <3> QED
          BY <2>1, <3>1
    <2>3. \A j : j \in DOMAIN decisions <=> \E m \in 1..n : list[m].id = j
        BY DEF IsTable
    <2>4. (CHOOSE j \in DOMAIN decisions : Nth(j)) = list[k].id
      <3> HIDE DEF k
      <3>1. list[k].id \in DOMAIN decisions /\ Nth(list[k].id)
          BY <2>1, <2>2, <2>3
      <3>2. \A j \in DOMAIN decisions : Nth(j) => j = list[k].id
          BY <2>2, <2>3
      <3> HIDE DEF Nth
      <3> QED
          BY <3>1, <3>2
    <2>5. list[k] = Row(decisions, list[k].id)
        BY <2>1 DEF IsTable
    <2> QED
        BY <2>4, <2>5 DEF Row
  <1> QED
      BY <1>3, <1>4, <1>5

-----------------------------------------------------------------------------
(* The invariant.  An edit that has the mirror to itself knows the temp     *)
(* file for its own and the list for the table's, or, on its way there,     *)
(* what the list will be; a reader and the cache know the list of the       *)
(* modification time they have seen.                                        *)

MirrorInodes == Cardinality(Editors) + 2
EditPlaces == {"idle", "update", "delete", "read", "open", "write", "rename", "copy", "uncache"}
EditOps == {"", "record", "update", "delete", "clear"}

EditorRecs == [pc : EditPlaces, op : EditOps, rec : Records, list : Seq(Records),
               fd : 0..MirrorInodes, alone : BOOLEAN]
ReaderRecs == [pc : {"idle", "stat", "store"}, at : Nat \cup {-1}, list : Seq(Records),
               alone : BOOLEAN]

TableTyped ==
  /\ lastId \in Nat /\ lastId <= MaxDecisions /\ DOMAIN decisions \subseteq 1..lastId
  /\ \A id \in DOMAIN decisions :
       decisions[id].target \in Named /\ decisions[id].on \in BOOLEAN
FlagsTyped ==
  /\ raced \in BOOLEAN /\ behind \in BOOLEAN /\ sameTick \in BOOLEAN /\ shut \in BOOLEAN
LogTyped ==
  /\ TableTyped /\ FlagsTyped /\ tick \in Nat
  /\ disk \in Files(MirrorInodes, Records) /\ Apart(disk)
  /\ editor \in [Editors -> EditorRecs]
  /\ reader \in [Readers -> ReaderRecs]
  /\ cache \in [at : Nat \cup {-1}, list : Seq(Records)]

\* What an editor's place says of what it holds.
EditorPlace(c, file) ==
  /\ c.fd # 0 <=> c.pc = "write"
  /\ c.pc \in {"update", "delete"} => c.op = c.pc
  /\ c.pc = "read" => c.op \in {"record", "update", "delete"}
  /\ c.pc = "copy" => file # 0
  /\ c.op = "clear" => c.list = <<>>
EditPlacesRight == \A e \in Editors : EditorPlace(editor[e], disk.file)

AloneIsAlone ==
  /\ \A e \in Editors : editor[e].pc # "idle" /\ editor[e].alone => Busy(Editors) = {e}
  /\ ~raced => \A e \in Editors : editor[e].pc # "idle" => editor[e].alone
  /\ \A r \in Readers : reader[r].alone => Busy(Editors) = {}

\* Its part of the temp file.
KnowsTmp(c) ==
  /\ c.pc = "write" => c.fd = disk.tmp /\ disk.node[disk.tmp].state = "empty"
  /\ c.pc \in {"rename", "copy"} => disk.tmp # 0 /\ Holds(disk.node[disk.tmp], c.list)

\* The rows, and the list that is to be theirs or is already.
KnowsTable(c) ==
  /\ c.pc \in {"update", "delete"} =>
       c.rec.id \in DOMAIN decisions /\ IsTable(FileList(disk), decisions)
  /\ c.pc = "read" => IsTable(Merged(c.op, FileList(disk), c.rec), decisions)
  /\ c.pc \in {"open", "write", "rename", "copy"} => IsTable(c.list, decisions)
  /\ c.pc = "uncache" => IsTable(FileList(disk), decisions)

EditorKnows(c) ==
  /\ KnowsTmp(c)
  /\ c.op = "clear" \/ (~raced /\ ~behind) => KnowsTable(c)
  /\ c.op = "clear" /\ c.pc = "uncache" => FileParses(disk)
AloneKnow == \A e \in Editors : editor[e].pc # "idle" /\ editor[e].alone => EditorKnows(editor[e])

AtRestAgrees ==
  Busy(Editors) = {} /\ ~raced /\ ~behind => IsTable(FileList(disk), decisions)
AtRestParses ==
  ~raced /\ ~shut /\ (\A e \in Editors : editor[e].pc # "copy") => FileParses(disk)

\* A list that belongs to a modification time is the list of the file, if the
\* file has that time.
Good(at, list) ==
  disk.file # 0 /\ FileParses(disk) /\ at = FileAt(disk) => list = Reverse(FileList(disk))

\* A clear that forgets all that came before, as its last step.
Anew(c) == c.op = "clear" /\ c.alone /\ c.pc = "uncache"

ReadersGood ==
  (~raced \/ \E e \in Editors : Anew(editor[e])) /\ ~sameTick =>
    \A r \in Readers : reader[r].pc = "store" => Good(reader[r].at, reader[r].list)
CacheGood ==
  ~raced /\ ~sameTick /\ (\A e \in Editors : editor[e].pc # "uncache") =>
    Good(cache.at, cache.list)
ReadersFresh ==
  \A r \in Readers : reader[r].alone /\ ~raced /\ ~sameTick =>
    IF reader[r].pc = "stat" THEN disk.file # 0 /\ reader[r].at = FileAt(disk)
    ELSE (FileParses(disk) => reader[r].list = Reverse(FileList(disk)))

LogInv ==
  /\ LogTyped /\ EditPlacesRight /\ AloneIsAlone /\ AloneKnow
  /\ AtRestAgrees /\ AtRestParses /\ ReadersGood /\ CacheGood /\ ReadersFresh

LEMMA InodesOfMirror == MirrorInodes \in Nat
  BY EditorsAssumption, FS_CardinalityType DEF MirrorInodes

LEMMA EditorFields ==
    ASSUME LogTyped, NEW e \in Editors
    PROVE  /\ editor[e] \in EditorRecs
           /\ editor[e].pc \in EditPlaces /\ editor[e].op \in EditOps
           /\ editor[e].rec \in Records /\ editor[e].list \in Seq(Records)
           /\ editor[e].fd \in 0..MirrorInodes /\ editor[e].alone \in BOOLEAN
  BY DEF LogTyped, EditorRecs

\* There is an inode for an edit that creates a name.
LEMMA FreeForEdit ==
    ASSUME LogTyped, disk.tmp = 0 \/ disk.file = 0
    PROVE  FreeInode(disk, Held) \in (1..MirrorInodes) \ (Held \cup {disk.tmp, disk.file})
  <1> DEFINE fds == [e \in Editors |-> editor[e].fd]
  <1>1. \A h \in Held : \E e \in Editors : fds[e] = h
      BY DEF Held
  <1> HIDE DEF fds
  <1> QED
      BY <1>1, EditorsAssumption, FreeInodeExists DEF LogTyped, MirrorInodes

LEMMA RestingTyped ==
    /\ Resting \in EditorRecs /\ NotReading \in ReaderRecs
    /\ NoCache \in [at : Nat \cup {-1}, list : Seq(Records)]
  <1>1. <<>> \in Seq(Records) /\ 0 \in 0..MirrorInodes
      BY EmptySeq, InodesOfMirror
  <1>2. NoDecision \in Records
      BY Zenon DEF NoDecision, Records, Named
  <1>3. Resting \in EditorRecs
      BY <1>1, <1>2 DEF Resting, EditorRecs, EditPlaces, EditOps
  <1>4. NotReading \in ReaderRecs
      BY <1>1 DEF NotReading, ReaderRecs
  <1>5. NoCache \in [at : Nat \cup {-1}, list : Seq(Records)]
      BY <1>1 DEF NoCache
  <1> QED
      BY <1>3, <1>4, <1>5

LEMMA NoRows ==
    ASSUME NEW D, DOMAIN D = {}
    PROVE  IsTable(<<>>, D)
  BY EmptySeq DEF IsTable

LEMMA LogInit == DecisionInit => LogInv
  <1> SUFFICES ASSUME DecisionInit PROVE LogInv
      OBVIOUS
  <1>1. /\ disk \in Files(MirrorInodes, Records) /\ Apart(disk)
        /\ disk.file = 0 /\ disk.tmp = 0
      BY InodesOfMirror, NoFilesFile DEF DecisionInit, MirrorInodes
  <1>2. DOMAIN decisions = {}
      BY DEF DecisionInit
  <1>3. /\ \A e \in Editors : editor[e] = Resting
        /\ \A r \in Readers : reader[r] = NotReading
        /\ cache = NoCache /\ tick = 0 /\ lastId = 0
        /\ raced = FALSE /\ behind = FALSE /\ sameTick = FALSE /\ shut = FALSE
      BY DEF DecisionInit
  <1>4. LogTyped
    <2>1. TableTyped
        BY <1>2, <1>3, DecisionsAssumption DEF TableTyped
    <2>2. /\ editor \in [Editors -> EditorRecs] /\ reader \in [Readers -> ReaderRecs]
          /\ cache \in [at : Nat \cup {-1}, list : Seq(Records)]
        BY <1>3, RestingTyped DEF DecisionInit
    <2> QED
        BY <1>1, <1>3, <2>1, <2>2 DEF LogTyped, FlagsTyped
  <1>5. \A e \in Editors : editor[e].pc = "idle" /\ editor[e].fd = 0 /\ editor[e].op = ""
    <2>1. Resting.pc = "idle" /\ Resting.fd = 0 /\ Resting.op = ""
        BY DEF Resting
    <2> QED
        BY <1>3, <2>1
  <1>6. \A r \in Readers : reader[r].pc = "idle" /\ reader[r].alone = FALSE
      BY <1>3 DEF NotReading
  <1>7. EditPlacesRight /\ AloneIsAlone /\ AloneKnow
      BY <1>5, <1>6 DEF EditPlacesRight, EditorPlace, AloneIsAlone, AloneKnow
  <1>8. AtRestAgrees /\ AtRestParses /\ ReadersGood /\ CacheGood /\ ReadersFresh
      BY <1>1, <1>2, <1>6, NoRows
      DEF AtRestAgrees, AtRestParses, ReadersGood, CacheGood, ReadersFresh, Good, FileParses, FileList
  <1> QED
      BY <1>4, <1>7, <1>8 DEF LogInv

\* A call that begins: it has the mirror to itself if nobody is at it.
LEMMA CallStep ==
    ASSUME LogInv, NEW e \in Editors, NEW op \in EditOps, NEW pc \in {"update", "delete", "read", "open"},
           NEW rec \in Records, Call(e, op, pc, rec),
           pc \in {"update", "delete"} => op = pc,
           pc = "read" => op \in {"record", "update", "delete"},
           TableTyped', behind' \in BOOLEAN, UNCHANGED <<disk, tick, cache, sameTick, shut>>,
           Busy(Editors) = {} /\ (op = "clear" \/ (~raced /\ ~behind')) => KnowsTable(editor[e])'
    PROVE  LogInv'
  <1> DEFINE first == Busy(Editors) = {}
             fresh == [Resting EXCEPT !.pc = pc, !.op = op, !.rec = rec, !.alone = first]
  <1>1. editor[e].pc = "idle" /\ raced' = (raced \/ ~first)
      BY DEF Call
  <1>2. LogTyped /\ editor \in [Editors -> EditorRecs] /\ reader \in [Readers -> ReaderRecs]
      BY DEF LogInv, LogTyped
  <1>3. /\ fresh \in EditorRecs /\ fresh.pc = pc /\ fresh.op = op /\ fresh.fd = 0
        /\ fresh.list = <<>> /\ fresh.alone = first
    <2>1. /\ pc \in EditPlaces /\ first \in BOOLEAN
        BY DEF EditPlaces
    <2> HIDE DEF first
    <2> QED
        BY <2>1, RestingTyped DEF Resting, EditorRecs
  <1>4. /\ editor'[e] = fresh
        /\ \A f \in Editors \ {e} :
             editor'[f] = IF editor[f].pc = "idle" THEN editor[f]
                          ELSE [editor[f] EXCEPT !.alone = FALSE]
        /\ editor' = [f \in Editors |-> editor'[f]]
      BY DEF Call
  <1> HIDE DEF fresh
  <1>5. \A f \in Editors \ {e} :
          /\ editor'[f] \in EditorRecs
          /\ editor'[f].pc = editor[f].pc /\ editor'[f].op = editor[f].op
          /\ editor'[f].fd = editor[f].fd /\ editor'[f].list = editor[f].list
          /\ editor'[f].pc # "idle" => ~editor'[f].alone
    <2> SUFFICES ASSUME NEW f \in Editors \ {e}
                 PROVE  /\ editor'[f] \in EditorRecs
                        /\ editor'[f].pc = editor[f].pc /\ editor'[f].op = editor[f].op
                        /\ editor'[f].fd = editor[f].fd /\ editor'[f].list = editor[f].list
                        /\ editor'[f].pc # "idle" => ~editor'[f].alone
        OBVIOUS
    <2>1. editor[f] \in EditorRecs
        BY <1>2
    <2>2. CASE editor[f].pc = "idle"
        BY <1>4, <2>1, <2>2
    <2>3. CASE editor[f].pc # "idle"
      <3>1. editor'[f] = [editor[f] EXCEPT !.alone = FALSE]
          BY <1>4, <2>3
      <3> QED
          BY <2>1, <3>1 DEF EditorRecs
    <2> QED
        BY <2>2, <2>3
  <1>6. \A r \in Readers :
          /\ reader'[r] \in ReaderRecs /\ reader'[r].pc = reader[r].pc
          /\ reader'[r].at = reader[r].at /\ reader'[r].list = reader[r].list
          /\ ~reader'[r].alone
      BY <1>2 DEF Call, ReaderRecs
  <1>7. LogTyped'
    <2>1. editor' \in [Editors -> EditorRecs]
        BY <1>3, <1>4, <1>5
    <2>2. reader' \in [Readers -> ReaderRecs]
      <3>1. reader' = [r \in Readers |-> reader'[r]]
          BY DEF Call
      <3> QED
          BY <1>6, <3>1
    <2>3. raced' \in BOOLEAN
        BY <1>1
    <2> HIDE DEF first
    <2> QED
        BY <1>2, <2>1, <2>2, <2>3 DEF LogTyped, FlagsTyped
  <1>8. Busy(Editors)' = Busy(Editors) \cup {e}
      BY <1>3, <1>4, <1>5 DEF Busy
  <1>9. EditPlacesRight'
      BY <1>3, <1>4, <1>5 DEF LogInv, EditPlacesRight, EditorPlace
  <1>10. AloneIsAlone'
      BY ZenonT(40), <1>1, <1>3, <1>4, <1>5, <1>6, <1>8 DEF AloneIsAlone, Busy
  <1>11. AloneKnow'
    <2> SUFFICES ASSUME NEW f \in Editors, editor'[f].pc # "idle", editor'[f].alone
                 PROVE  EditorKnows(editor[f])'
        BY DEF AloneKnow
    <2>1. f = e /\ first
        BY <1>3, <1>4, <1>5
    <2>2. KnowsTmp(editor[e])'
        BY <1>3, <1>4 DEF KnowsTmp
    <2>3. ~raced' => ~raced
        BY <1>1
    <2>4. editor'[e].op = "clear" \/ (~raced' /\ ~behind') => KnowsTable(editor[e])'
        BY <1>3, <1>4, <2>1, <2>3
    <2> QED
        BY <1>3, <1>4, <2>1, <2>2, <2>4 DEF EditorKnows
  <1>12. AtRestAgrees' /\ AtRestParses'
      BY <1>1, <1>3, <1>4, <1>5, <1>8 DEF LogInv, AtRestAgrees, AtRestParses
  <1>13. ReadersGood' /\ CacheGood' /\ ReadersFresh'
    <2>1. \A f \in Editors : ~Anew(editor[f])'
        BY <1>3, <1>4, <1>5 DEF Anew
    <2>2. \A f \in Editors : editor'[f].pc # "uncache" => editor[f].pc # "uncache"
        BY <1>1, <1>5
    <2>3. ReadersGood'
        BY <1>1, <1>6, <2>1 DEF LogInv, ReadersGood, Good
    <2>4. CacheGood'
        BY <1>1, <2>2 DEF LogInv, CacheGood, Good
    <2> QED
        BY <1>6, <2>3, <2>4 DEF ReadersFresh
  <1> QED
      BY <1>7, <1>9, <1>10, <1>11, <1>12, <1>13 DEF LogInv

\* A step of a busy edit that leaves the others alone.
EditorStep(e) ==
  /\ editor[e].pc # "idle" /\ editor'[e] \in EditorRecs
  /\ editor' = [editor EXCEPT ![e] = editor'[e]]
  /\ editor'[e].pc # "idle" /\ editor'[e].op = editor[e].op /\ editor'[e].alone = editor[e].alone
  /\ EditorPlace(editor'[e], disk'.file)
  /\ disk' \in Files(MirrorInodes, Records) /\ Apart(disk')
  /\ disk.file # 0 => disk'.file # 0
  /\ TableTyped' /\ FlagsTyped' /\ UNCHANGED <<tick, cache, reader, raced, shut>>
  /\ sameTick => sameTick'
  /\ editor[e].alone => EditorKnows(editor[e])'

LEMMA EditorMoves ==
    ASSUME LogInv, NEW e \in Editors, EditorStep(e),
           ~raced /\ ~shut /\ editor'[e].pc # "copy" => FileParses(disk'),
           (~raced \/ Anew(editor[e])') /\ ~sameTick' =>
             \A r \in Readers : reader[r].pc = "store" => Good(reader[r].at, reader[r].list)',
           ~raced /\ ~sameTick' /\ editor'[e].pc # "uncache" => Good(cache.at, cache.list)'
    PROVE  LogInv'
  <1> USE DEF EditorStep
  <1>1. LogTyped /\ editor \in [Editors -> EditorRecs]
      BY DEF LogInv, LogTyped
  <1>2. \A f \in Editors \ {e} : editor'[f] = editor[f]
      BY <1>1
  <1>3. LogTyped'
    <2>1. editor' \in [Editors -> EditorRecs]
        BY <1>1
    <2> QED
        BY <1>1, <2>1 DEF LogTyped
  <1>4. Busy(Editors)' = Busy(Editors) /\ e \in Busy(Editors)
      BY <1>2 DEF Busy
  <1>5. EditPlacesRight'
      BY <1>2 DEF LogInv, EditPlacesRight, EditorPlace
  <1>6. AloneIsAlone' /\ \A r \in Readers : ~reader[r].alone
      BY <1>2, <1>4 DEF LogInv, AloneIsAlone
  <1>7. \A f \in Editors \ {e} : editor[f].pc # "idle" => ~editor[f].alone
      BY <1>4 DEF LogInv, AloneIsAlone
  <1>8. AloneKnow'
      BY <1>2, <1>7 DEF AloneKnow
  <1>9. AtRestAgrees' /\ AtRestParses'
      BY <1>4 DEF AtRestAgrees, AtRestParses
  <1>10. \A f \in Editors \ {e} : ~Anew(editor[f])'
      BY <1>2, <1>7 DEF Anew
  <1>11. ReadersGood' /\ CacheGood' /\ ReadersFresh'
      BY <1>6, <1>10 DEF ReadersGood, CacheGood, ReadersFresh
  <1> QED
      BY <1>3, <1>5, <1>6, <1>8, <1>9, <1>11 DEF LogInv

\* Such a step on the way to the rename: an edit that has the mirror to
\* itself leaves the file alone.
LEMMA EditorWorks ==
    ASSUME LogInv, NEW e \in Editors, EditorStep(e), UNCHANGED sameTick,
           editor[e].pc \notin {"copy", "uncache"}, editor'[e].pc # "copy",
           editor'[e].pc = "uncache" => editor[e].op # "clear",
           editor[e].alone =>
             /\ disk'.file = disk.file
             /\ disk.file # 0 => disk'.node[disk.file] = disk.node[disk.file]
    PROVE  LogInv'
  <1>1. editor[e].pc # "idle" /\ editor'[e].op = editor[e].op /\ raced' = raced /\ UNCHANGED <<reader, cache>>
      BY DEF EditorStep
  <1>2. ASSUME ~raced
        PROVE  /\ \A f \in Editors : editor[f].pc \notin {"copy", "uncache"}
               /\ FileParses(disk') = FileParses(disk) /\ FileList(disk') = FileList(disk)
               /\ disk'.file = disk.file /\ (disk.file # 0 => FileAt(disk') = FileAt(disk))
    <2>1. editor[e].alone
        BY <1>1, <1>2 DEF LogInv, AloneIsAlone
    <2>2. Busy(Editors) = {e}
        BY <1>1, <2>1 DEF LogInv, AloneIsAlone
    <2>3. \A f \in Editors : editor[f].pc # "idle" => f = e
        BY <2>2 DEF Busy
    <2> QED
        BY <2>1, <2>3 DEF FileParses, FileList, FileAt
  <1>3. ~Anew(editor[e])'
      BY <1>1 DEF Anew
  <1>4. ~raced => \A at, list : Good(at, list) => Good(at, list)'
      BY <1>2 DEF Good
  <1>5. ~raced /\ ~shut => FileParses(disk')
      BY <1>2 DEF LogInv, AtRestParses
  <1>6. ~raced /\ ~sameTick =>
          /\ \A r \in Readers : reader[r].pc = "store" => Good(reader[r].at, reader[r].list)
          /\ Good(cache.at, cache.list)
      BY <1>2 DEF LogInv, ReadersGood, CacheGood
  <1>7. ~raced /\ ~sameTick =>
          /\ \A r \in Readers : reader[r].pc = "store" => Good(reader[r].at, reader[r].list)'
          /\ Good(cache.at, cache.list)'
      BY <1>1, <1>4, <1>6
  <1> QED
      BY <1>3, <1>5, <1>7, EditorMoves

\* Among numbers up to n there is a least one, since the sets 1..i are
\* well-founded by inclusion.
LEMMA LeastOf ==
    ASSUME NEW n \in Nat, NEW I, I \subseteq 1..n, I # {}
    PROVE  \E x \in I : \A y \in I : x =< y
  <1> DEFINE T == {1..i : i \in I}
             R == StrictSubsetOrdering(1..n)
  <1>1. T \subseteq FiniteSubsetsOf(1..n) /\ T # {}
    <2>1. ASSUME NEW i \in I PROVE 1..i \in SUBSET (1..n) /\ IsFiniteSet(1..i)
      <3>1. i \in Int /\ 1 \in Int
          OBVIOUS
      <3> QED
          BY <3>1, FS_Interval
    <2> QED
        BY <2>1 DEF FiniteSubsetsOf
  <1>2. PICK m \in T : \A y \in T : <<y, m>> \notin R
    <2>1. IsWellFoundedOn(R, FiniteSubsetsOf(1..n))
        BY FS_StrictSubsetOrderingWellFounded
    <2> HIDE DEF T, R
    <2> QED
        BY <1>1, <2>1, WFMin
  <1>3. PICK x \in I : m = 1..x
      OBVIOUS
  <1>4. ASSUME NEW y \in I, y < x PROVE FALSE
    <2>1. 1..y \in T /\ 1..y \in SUBSET (1..n) /\ m \in SUBSET (1..n)
        BY <1>3
    <2>2. 1..y \subseteq m /\ x \in m /\ x \notin 1..y
        BY <1>3, <1>4
    <2>3. <<1..y, m>> \in R
        BY <2>1, <2>2 DEF StrictSubsetOrdering
    <2> QED
        BY <1>2, <2>1, <2>3
  <1> QED
      BY <1>4

\* SelectInSeq takes the least index, which there is, or 0.
LEMMA IndexTyped ==
    ASSUME NEW S, NEW list \in Seq(S), NEW id
    PROVE  IndexOf(list, id) \in 0..Len(list)
  <1> DEFINE I == {i \in 1..Len(list) : list[i].id = id}
  <1>1. IndexOf(list, id) = IF I # {} THEN Min(I) ELSE 0
      BY DEF IndexOf, SelectInSeq
  <1>2. ASSUME I # {} PROVE Min(I) \in I
    <2>1. I \subseteq 1..Len(list) /\ Len(list) \in Nat
        OBVIOUS
    <2> HIDE DEF I
    <2>2. \E x \in I : \A y \in I : x =< y
        BY <1>2, <2>1, LeastOf
    <2> QED
        BY <2>2 DEF Min
  <1>3. Len(list) \in Nat
      OBVIOUS
  <1> QED
      BY <1>1, <1>2, <1>3

LEMMA MergedTyped ==
    ASSUME NEW op \in {"record", "update", "delete"}, NEW list \in Seq(Records),
           NEW rec \in Records
    PROVE  Merged(op, list, rec) \in Seq(Records)
  <1> DEFINE i == IndexOf(list, rec.id)
  <1>1. i \in 0..Len(list) /\ Len(list) \in Nat
      BY IndexTyped
  <1>2. /\ op = "record" => Merged(op, list, rec) = Append(list, rec)
        /\ op = "update" => Merged(op, list, rec) = IF i = 0 THEN list ELSE [list EXCEPT ![i] = rec]
        /\ op = "delete" => Merged(op, list, rec) = IF i = 0 THEN list ELSE RemoveAt(list, i)
      BY DEF Merged
  <1> HIDE DEF i
  <1>3. Append(list, rec) \in Seq(Records)
      OBVIOUS
  <1>4. i # 0 => [list EXCEPT ![i] = rec] \in Seq(Records)
      BY <1>1
  <1>5. i # 0 => RemoveAt(list, i) \in Seq(Records)
    <2>1. i # 0 => SubSeq(list, 1, i - 1) \in Seq(Records) /\ SubSeq(list, i + 1, Len(list)) \in Seq(Records)
        BY <1>1
    <2> QED
        BY <2>1, ConcatProperties DEF RemoveAt
  <1> QED
      BY <1>2, <1>3, <1>4, <1>5

LEMMA FileFields ==
    ASSUME LogTyped
    PROVE  /\ FileList(disk) \in Seq(Records)
           /\ disk.file # 0 => FileAt(disk) \in Nat
           /\ disk.file \in 0..MirrorInodes /\ disk.tmp \in 0..MirrorInodes
           /\ \A i \in 1..MirrorInodes : disk.node[i] \in Contents(Records)
  <1>1. /\ disk.file \in 0..MirrorInodes /\ disk.tmp \in 0..MirrorInodes
        /\ disk.node \in [1..MirrorInodes -> Contents(Records)]
      BY DEF LogTyped, Files
  <1>2. disk.file # 0 => disk.node[disk.file] \in Contents(Records)
      BY <1>1, InodesOfMirror
  <1>3. <<>> \in Seq(Records)
      BY EmptySeq
  <1>4. disk.file # 0 => disk.node[disk.file].list \in Seq(Records) /\ disk.node[disk.file].at \in Nat
      BY <1>2 DEF Contents
  <1> QED
      BY <1>1, <1>3, <1>4 DEF FileList, FileAt

LEMMA CalledFields ==
    ASSUME NEW e \in Editors, NEW op, NEW pc, NEW rec, Call(e, op, pc, rec)
    PROVE  /\ editor'[e].pc = pc /\ editor'[e].op = op /\ editor'[e].rec = rec
           /\ editor'[e].list = <<>>
  <1> DEFINE first == Busy(Editors) = {}
  <1>1. editor'[e] = [Resting EXCEPT !.pc = pc, !.op = op, !.rec = rec, !.alone = first]
      BY DEF Call
  <1> HIDE DEF first
  <1> QED
      BY <1>1 DEF Resting

LEMMA RecordStep ==
    ASSUME LogInv, NEW e \in Editors, NEW t \in Targets, Record(e, t)
    PROVE  LogInv'
  <1> DEFINE Rec(id) == [id |-> id, target |-> t, on |-> TRUE]
  <1>0. LogTyped /\ TableTyped /\ FlagsTyped
      BY DEF LogInv, LogTyped
  <1>1. \A id \in Nat : Rec(id) \in Records /\ Rec(id).id = id
      BY Zenon DEF Records, Named
  <1>2. ASSUME lastId < MaxDecisions, Call(e, "record", "read", Rec(lastId + 1)),
               lastId' = lastId + 1,
               decisions' = [i \in DOMAIN decisions \cup {lastId + 1} |->
                               IF i = lastId + 1 THEN [target |-> t, on |-> TRUE] ELSE decisions[i]],
               UNCHANGED <<disk, tick, cache, reads, misses, behind, sameTick, shut>>
        PROVE  LogInv'
    <2>1. lastId + 1 \in Nat /\ Rec(lastId + 1) \in Records
        BY <1>0, <1>1 DEF TableTyped
    <2>2. TableTyped'
      <3>1. /\ lastId' \in Nat /\ lastId' <= MaxDecisions /\ DOMAIN decisions' \subseteq 1..lastId'
          BY <1>0, <1>2, DecisionsAssumption DEF TableTyped
      <3>2. ASSUME NEW id \in DOMAIN decisions'
            PROVE  decisions'[id].target \in Named /\ decisions'[id].on \in BOOLEAN
        <4>1. CASE id = lastId + 1
          <5>1. decisions'[id] = [target |-> t, on |-> TRUE]
              BY <1>2, <4>1
          <5>2. t \in Named
              BY Zenon DEF Named
          <5> QED
              BY <5>1, <5>2
        <4>2. CASE id # lastId + 1
            BY <1>0, <1>2, <4>2 DEF TableTyped
        <4> QED
            BY <4>1, <4>2
      <3> QED
          BY <3>1, <3>2 DEF TableTyped
    <2>3. ASSUME Busy(Editors) = {}, ~raced, ~behind'
          PROVE  KnowsTable(editor[e])'
      <3>1. IsTable(FileList(disk), decisions)
          BY <1>2, <2>3 DEF LogInv, AtRestAgrees
      <3> DEFINE new == Rec(lastId + 1)
      <3>2. IsTable(Append(FileList(disk), new), decisions')
          BY <1>0, <1>2, <3>1, RecordAppends DEF TableTyped
      <3>3. editor'[e].pc = "read" /\ editor'[e].op = "record" /\ editor'[e].rec = new
          BY <1>2, CalledFields
      <3> HIDE DEF new
      <3>4. Merged("record", FileList(disk), new) = Append(FileList(disk), new)
          BY DEF Merged
      <3> QED
          BY <1>2, <3>2, <3>3, <3>4 DEF KnowsTable
    <2>4. "record" \in EditOps /\ behind' \in BOOLEAN
        BY <1>0, <1>2 DEF EditOps, FlagsTyped
    <2> HIDE DEF Rec
    <2> QED
        BY <1>2, <2>1, <2>2, <2>3, <2>4, CallStep
  <1>3. ASSUME Call(e, "record", "read", Rec(0)), behind' = TRUE,
               UNCHANGED <<decisions, lastId, disk, tick, cache, reads, sameTick, shut>>
        PROVE  LogInv'
    <2>1. Rec(0) \in Records /\ TableTyped' /\ "record" \in EditOps
        BY <1>0, <1>1, <1>3 DEF TableTyped, EditOps
    <2> HIDE DEF Rec
    <2> QED
        BY <1>3, <2>1, CallStep
  <1> QED
      BY <1>2, <1>3 DEF Record

LEMMA FetchStep ==
    ASSUME LogInv, NEW e \in Editors, NEW op \in {"update", "delete"},
           NEW id \in DOMAIN decisions, Fetch(e, op, id)
    PROVE  LogInv'
  <1> DEFINE rec == [id |-> id, target |-> decisions[id].target, on |-> decisions[id].on]
  <1>1. LogTyped /\ TableTyped /\ FlagsTyped
      BY DEF LogInv, LogTyped
  <1>2. rec \in Records /\ rec.id = id
    <2>1. /\ id \in Nat /\ decisions[id].target \in Named /\ decisions[id].on \in BOOLEAN
        BY <1>1 DEF TableTyped
    <2> QED
        BY <2>1 DEF Records
  <1>3. Call(e, op, op, rec) /\ UNCHANGED <<decisions, lastId, disk, tick, cache, behind, sameTick, shut>>
      BY DEF Fetch
  <1> HIDE DEF rec
  <1>4. TableTyped' /\ behind' \in BOOLEAN /\ op \in EditOps
      BY <1>1, <1>3 DEF TableTyped, FlagsTyped, EditOps
  <1>5. ASSUME Busy(Editors) = {}, ~raced, ~behind'
        PROVE  KnowsTable(editor[e])'
    <2>1. IsTable(FileList(disk), decisions)
        BY <1>3, <1>5 DEF LogInv, AtRestAgrees
    <2>2. editor'[e].pc = op /\ editor'[e].rec = rec
        BY <1>3, CalledFields
    <2> QED
        BY <1>2, <1>3, <2>1, <2>2 DEF KnowsTable
  <1> QED
      BY <1>2, <1>3, <1>4, <1>5, CallStep

LEMMA ClearRowsStep ==
    ASSUME LogInv, NEW e \in Editors, ClearRows(e)
    PROVE  LogInv'
  <1>1. /\ Call(e, "clear", "open", NoDecision) /\ decisions' = <<>>
        /\ UNCHANGED <<lastId, disk, tick, cache, behind, sameTick, shut>>
      BY DEF ClearRows
  <1>2. TableTyped' /\ behind' \in BOOLEAN /\ DOMAIN decisions' = {}
      BY <1>1 DEF LogInv, LogTyped, TableTyped, FlagsTyped
  <1>3. NoDecision \in Records /\ "clear" \in EditOps
      BY Zenon DEF NoDecision, Records, Named, EditOps
  <1>4. KnowsTable(editor[e])'
    <2>1. editor'[e].pc = "open" /\ editor'[e].list = <<>>
        BY <1>1, CalledFields
    <2> QED
        BY <1>2, <2>1, NoRows DEF KnowsTable
  <1> QED
      BY <1>1, <1>2, <1>3, <1>4, CallStep

\* What is common to the steps of an edit under way: the edit goes on from
\* `now', and nothing but the mirror, the table and two flags is changed.
LEMMA GoesOn ==
    ASSUME LogInv, NEW e \in Editors, editor[e].pc # "idle",
           NEW now \in EditorRecs, editor' = [editor EXCEPT ![e] = now],
           now.pc # "idle", now.op = editor[e].op, now.alone = editor[e].alone
    PROVE  /\ editor'[e] = now /\ editor' = [editor EXCEPT ![e] = editor'[e]]
           /\ editor'[e].op = editor[e].op /\ editor'[e].alone = editor[e].alone
           /\ editor[e].alone => EditorKnows(editor[e])
           /\ ~raced => editor[e].alone
           /\ EditorPlace(editor[e], disk.file)
  <1>1. editor \in [Editors -> EditorRecs]
      BY DEF LogInv, LogTyped
  <1> QED
      BY <1>1 DEF LogInv, AloneKnow, AloneIsAlone, EditPlacesRight

LEMMA UpdateRowStep ==
    ASSUME LogInv, NEW e \in Editors, UpdateRow(e)
    PROVE  LogInv'
  <1>0. LogTyped /\ TableTyped
      BY DEF LogInv, LogTyped
  <1>1. PICK rec \in Patched(editor[e].rec) :
          /\ editor' = [editor EXCEPT ![e].pc = "read", ![e].rec = rec]
          /\ decisions' = [i \in DOMAIN decisions |->
               IF i = rec.id THEN [target |-> rec.target, on |-> rec.on] ELSE decisions[i]]
      BY DEF UpdateRow
  <1>2. /\ editor[e].pc = "update"
        /\ UNCHANGED <<lastId, disk, tick, cache, reader, raced, behind, sameTick, shut>>
      BY DEF UpdateRow
  <1>3. rec \in Records /\ rec.id = editor[e].rec.id
    <2>1. editor[e].rec \in Records
        BY <1>0, EditorFields
    <2>2. CASE \E t \in Targets : rec = [editor[e].rec EXCEPT !.target = t]
      <3>1. \A t \in Targets : t \in Named
          BY Zenon DEF Named
      <3> QED
          BY <2>1, <2>2, <3>1 DEF Records
    <2>3. CASE rec = [editor[e].rec EXCEPT !.on = ~editor[e].rec.on]
        BY <2>1, <2>3 DEF Records
    <2> QED
        BY <2>2, <2>3 DEF Patched
  <1> DEFINE now == [editor[e] EXCEPT !.pc = "read", !.rec = rec]
  <1>4. /\ now \in EditorRecs /\ now.pc = "read" /\ now.op = editor[e].op
        /\ now.rec = rec /\ now.fd = editor[e].fd /\ now.list = editor[e].list
        /\ now.alone = editor[e].alone
    <2>1. "read" \in EditPlaces
        BY DEF EditPlaces
    <2> QED
        BY <1>0, <1>3, <2>1, EditorFields DEF EditorRecs
  <1>5. editor' = [editor EXCEPT ![e] = now]
      BY <1>0, <1>1 DEF LogTyped
  <1> HIDE DEF now
  <1>6. /\ editor'[e] = now /\ editor' = [editor EXCEPT ![e] = editor'[e]]
        /\ editor'[e].op = editor[e].op /\ editor'[e].alone = editor[e].alone
        /\ editor[e].alone => EditorKnows(editor[e])
        /\ EditorPlace(editor[e], disk.file)
      BY <1>2, <1>4, <1>5, GoesOn
  <1>7. editor[e].op = "update" /\ editor[e].fd = 0
      BY <1>2, <1>6 DEF EditorPlace
  <1>8. TableTyped'
    <2>1. rec.target \in Named /\ rec.on \in BOOLEAN
        BY <1>3 DEF Records
    <2>2. ASSUME NEW i \in DOMAIN decisions'
          PROVE  decisions'[i].target \in Named /\ decisions'[i].on \in BOOLEAN
      <3>1. CASE i = rec.id
        <4>1. decisions'[i] = [target |-> rec.target, on |-> rec.on]
            BY <1>1, <3>1
        <4> QED
            BY <2>1, <4>1
      <3>2. CASE i # rec.id
          BY <1>0, <1>1, <3>2 DEF TableTyped
      <3> QED
          BY <3>1, <3>2
    <2>3. DOMAIN decisions' = DOMAIN decisions
        BY <1>1
    <2> QED
        BY <1>0, <1>2, <2>2, <2>3 DEF TableTyped
  <1>9. editor[e].alone => EditorKnows(editor[e])'
    <2> SUFFICES ASSUME editor[e].alone, ~raced, ~behind PROVE KnowsTable(editor[e])'
        BY <1>2, <1>4, <1>6, <1>7 DEF EditorKnows, KnowsTmp
    <2>1. rec.id \in DOMAIN decisions /\ IsTable(FileList(disk), decisions)
        BY <1>2, <1>3, <1>6 DEF EditorKnows, KnowsTable
    <2>2. IndexOf(FileList(disk), rec.id) # 0
        BY <2>1, IndexOfRow
    <2>3. Merged("update", FileList(disk), rec) = [FileList(disk) EXCEPT ![IndexOf(FileList(disk), rec.id)] = rec]
        BY <2>2 DEF Merged
    <2>4. IsTable(Merged("update", FileList(disk), rec), decisions')
        BY <1>1, <1>3, <2>1, <2>3, UpdateReplaces
    <2> QED
        BY <1>2, <1>4, <1>6, <1>7, <2>4 DEF KnowsTable
  <1>10. EditorStep(e)
      BY <1>0, <1>2, <1>4, <1>6, <1>7, <1>8, <1>9
      DEF EditorStep, EditorPlace, LogInv, LogTyped, FlagsTyped
  <1> QED
      BY <1>2, <1>4, <1>6, <1>10, EditorWorks

LEMMA DeleteRowStep ==
    ASSUME LogInv, NEW e \in Editors, DeleteRow(e)
    PROVE  LogInv'
  <1>0. LogTyped /\ TableTyped
      BY DEF LogInv, LogTyped
  <1> DEFINE now == [editor[e] EXCEPT !.pc = "read"]
  <1>2. /\ editor[e].pc = "delete"
        /\ editor' = [editor EXCEPT ![e].pc = "read"]
        /\ decisions' = [i \in DOMAIN decisions \ {editor[e].rec.id} |-> decisions[i]]
        /\ UNCHANGED <<lastId, disk, tick, cache, reader, raced, behind, sameTick, shut>>
      BY DEF DeleteRow
  <1>4. /\ now \in EditorRecs /\ now.pc = "read" /\ now.op = editor[e].op
        /\ now.rec = editor[e].rec /\ now.fd = editor[e].fd /\ now.list = editor[e].list
        /\ now.alone = editor[e].alone
    <2>1. "read" \in EditPlaces
        BY DEF EditPlaces
    <2> QED
        BY <1>0, <2>1, EditorFields DEF EditorRecs
  <1>5. editor' = [editor EXCEPT ![e] = now]
      BY <1>0, <1>2 DEF LogTyped
  <1> HIDE DEF now
  <1>6. /\ editor'[e] = now /\ editor' = [editor EXCEPT ![e] = editor'[e]]
        /\ editor'[e].op = editor[e].op /\ editor'[e].alone = editor[e].alone
        /\ editor[e].alone => EditorKnows(editor[e])
        /\ EditorPlace(editor[e], disk.file)
      BY <1>2, <1>4, <1>5, GoesOn
  <1>7. editor[e].op = "delete" /\ editor[e].fd = 0
      BY <1>2, <1>6 DEF EditorPlace
  <1>8. TableTyped'
    <2>1. /\ DOMAIN decisions' \subseteq DOMAIN decisions
          /\ \A i \in DOMAIN decisions' : decisions'[i] = decisions[i]
        BY <1>2
    <2> QED
        BY <1>0, <1>2, <2>1 DEF TableTyped
  <1>9. editor[e].alone => EditorKnows(editor[e])'
    <2> SUFFICES ASSUME editor[e].alone, ~raced, ~behind PROVE KnowsTable(editor[e])'
        BY <1>2, <1>4, <1>6, <1>7 DEF EditorKnows, KnowsTmp
    <2> DEFINE id == editor[e].rec.id
    <2>1. id \in DOMAIN decisions /\ IsTable(FileList(disk), decisions)
        BY <1>2, <1>6 DEF EditorKnows, KnowsTable
    <2>2. IndexOf(FileList(disk), id) # 0
        BY <2>1, IndexOfRow
    <2>3. Merged("delete", FileList(disk), editor[e].rec) = RemoveAt(FileList(disk), IndexOf(FileList(disk), id))
        BY <2>2 DEF Merged
    <2>4. decisions' = [i \in DOMAIN decisions \ {id} |-> decisions[i]]
        BY <1>2
    <2> HIDE DEF id
    <2>5. IsTable(Merged("delete", FileList(disk), editor[e].rec), decisions')
        BY <2>1, <2>3, <2>4, DeleteRemoves
    <2> QED
        BY <1>2, <1>4, <1>6, <1>7, <2>5 DEF KnowsTable
  <1>10. EditorStep(e)
      BY <1>0, <1>2, <1>4, <1>6, <1>7, <1>8, <1>9
      DEF EditorStep, EditorPlace, LogInv, LogTyped, FlagsTyped
  <1> QED
      BY <1>2, <1>4, <1>6, <1>10, EditorWorks

LEMMA ReadMirrorStep ==
    ASSUME LogInv, NEW e \in Editors, ReadMirror(e)
    PROVE  LogInv'
  <1>0. LogTyped /\ TableTyped
      BY DEF LogInv, LogTyped
  <1> DEFINE c == editor[e]
             merged == Merged(c.op, FileList(disk), c.rec)
             i == IndexOf(FileList(disk), c.rec.id)
             quit == \/ c.op # "record" /\ ~FileParses(disk)
                     \/ c.op = "delete" /\ i = 0
             pc == IF quit THEN "uncache" ELSE "open"
             list == IF quit THEN <<>> ELSE merged
             now == [c EXCEPT !.pc = pc, !.list = list]
  <1>1. /\ c.pc = "read"
        /\ UNCHANGED <<decisions, lastId, disk, tick, cache, reader, raced, sameTick, shut>>
      BY DEF ReadMirror
  <1>2. behind' = (behind \/ quit)
      BY DEF ReadMirror
  <1>3. editor' = [editor EXCEPT ![e] = now]
    <2>1. editor' = [editor EXCEPT ![e].pc = pc, ![e].list = list]
        BY DEF ReadMirror, Merged
    <2> HIDE DEF pc, list
    <2> QED
        BY <1>0, <2>1 DEF LogTyped
  <1>4. EditorPlace(c, disk.file) /\ c \in EditorRecs /\ c.rec \in Records
      BY <1>0, EditorFields DEF LogInv, EditPlacesRight
  <1>5. c.op \in {"record", "update", "delete"} /\ c.fd = 0
      BY <1>1, <1>4 DEF EditorPlace
  <1>6. merged \in Seq(Records) /\ FileList(disk) \in Seq(Records)
      BY <1>0, <1>4, <1>5, FileFields, MergedTyped
  <1>7. list \in Seq(Records) /\ pc \in EditPlaces /\ pc \in {"uncache", "open"}
    <2>1. <<>> \in Seq(Records)
        BY EmptySeq
    <2> HIDE DEF merged, quit
    <2> QED
        BY <1>6, <2>1 DEF EditPlaces
  <1>8. /\ quit => behind'
        /\ ~quit => pc = "open" /\ list = merged
        /\ behind' \in BOOLEAN
        /\ behind => behind'
    <2>1. behind \in BOOLEAN
        BY <1>0 DEF LogTyped, FlagsTyped
    <2> HIDE DEF merged
    <2> QED
        BY <1>2, <2>1
  <1> HIDE DEF merged, pc, list, quit, i
  <1>9. /\ now \in EditorRecs /\ now.pc = pc /\ now.op = c.op /\ now.rec = c.rec
        /\ now.fd = 0 /\ now.list = list /\ now.alone = c.alone
      BY <1>4, <1>5, <1>7 DEF EditorRecs
  <1> HIDE DEF now
  <1>10. /\ editor'[e] = now /\ editor' = [editor EXCEPT ![e] = editor'[e]]
         /\ c.alone => EditorKnows(c)
      BY <1>1, <1>3, <1>7, <1>9, GoesOn
  <1>11. c.alone => EditorKnows(editor[e])'
    <2> SUFFICES ASSUME c.alone, ~raced, ~behind' PROVE KnowsTable(editor[e])'
        BY <1>1, <1>5, <1>7, <1>9, <1>10 DEF EditorKnows, KnowsTmp
    <2>1. ~quit /\ ~behind
        BY <1>8
    <2>2. IsTable(merged, decisions)
        BY <1>1, <1>10, <2>1 DEF EditorKnows, KnowsTable, merged
    <2> QED
        BY <1>1, <1>8, <1>9, <1>10, <2>1, <2>2 DEF KnowsTable
  <1>12. TableTyped' /\ FlagsTyped' /\ disk' \in Files(MirrorInodes, Records) /\ Apart(disk')
      BY <1>0, <1>1, <1>8 DEF TableTyped, FlagsTyped, LogTyped
  <1>13. EditorStep(e)
      BY <1>1, <1>5, <1>7, <1>9, <1>10, <1>11, <1>12 DEF EditorStep, EditorPlace
  <1> QED
      BY <1>1, <1>5, <1>7, <1>9, <1>10, <1>13, EditorWorks

LEMMA OpenTmpStep ==
    ASSUME LogInv, NEW e \in Editors, OpenTmp(e)
    PROVE  LogInv'
  <1>0. LogTyped /\ TableTyped
      BY DEF LogInv, LogTyped
  <1> DEFINE now == [editor[e] EXCEPT !.pc = "write", !.fd = disk'.tmp]
  <1>1. /\ editor[e].pc = "open" /\ disk' = TmpOpened(disk, Held, tick)
        /\ UNCHANGED <<decisions, lastId, tick, cache, reader, raced, behind, sameTick, shut>>
        /\ editor' = [editor EXCEPT ![e].pc = "write", ![e].fd = disk'.tmp]
      BY DEF OpenTmp
  <1>2. /\ disk' \in Files(MirrorInodes, Records) /\ Apart(disk')
        /\ disk'.file = disk.file /\ disk'.tmp \in 1..MirrorInodes
        /\ disk'.node[disk'.tmp].state = "empty"
        /\ disk.file # 0 => disk'.node[disk.file] = disk.node[disk.file]
    <2>1. /\ MirrorInodes \in Nat /\ tick \in Nat
          /\ disk \in Files(MirrorInodes, Records) /\ Apart(disk)
        BY <1>0, InodesOfMirror DEF LogTyped
    <2>2. disk.tmp = 0 => FreeInode(disk, Held) \in (1..MirrorInodes) \ (Held \cup {disk.tmp, disk.file})
        BY <1>0, FreeForEdit
    <2> QED
        BY <1>1, <2>1, <2>2, TmpOpenedFile
  <1>3. /\ now \in EditorRecs /\ now.pc = "write" /\ now.op = editor[e].op
        /\ now.fd = disk'.tmp /\ now.fd # 0 /\ now.list = editor[e].list
        /\ now.alone = editor[e].alone
    <2>1. "write" \in EditPlaces /\ disk'.tmp \in 0..MirrorInodes /\ disk'.tmp # 0
        BY <1>2, InodesOfMirror DEF EditPlaces
    <2> QED
        BY <1>0, <2>1, EditorFields DEF EditorRecs
  <1>4. editor' = [editor EXCEPT ![e] = now]
      BY <1>0, <1>1 DEF LogTyped
  <1> HIDE DEF now
  <1>5. /\ editor'[e] = now /\ editor' = [editor EXCEPT ![e] = editor'[e]]
        /\ editor[e].alone => EditorKnows(editor[e])
        /\ EditorPlace(editor[e], disk.file)
      BY <1>1, <1>3, <1>4, GoesOn
  <1>6. editor[e].alone => EditorKnows(editor[e])'
      BY <1>1, <1>2, <1>3, <1>5 DEF EditorKnows, KnowsTmp, KnowsTable
  <1>7. TableTyped' /\ FlagsTyped'
      BY <1>0, <1>1 DEF TableTyped, FlagsTyped, LogTyped
  <1>8. EditorStep(e)
      BY <1>1, <1>2, <1>3, <1>5, <1>6, <1>7 DEF EditorStep, EditorPlace
  <1> QED
      BY <1>1, <1>2, <1>3, <1>5, <1>8, EditorWorks

LEMMA WriteTmpStep ==
    ASSUME LogInv, NEW e \in Editors, WriteTmp(e)
    PROVE  LogInv'
  <1>0. LogTyped /\ TableTyped
      BY DEF LogInv, LogTyped
  <1> DEFINE now == [editor[e] EXCEPT !.pc = "rename", !.fd = 0]
             i == editor[e].fd
             text == editor[e].list
  <1>1. /\ editor[e].pc = "write" /\ disk' = Written(disk, i, text, tick)
        /\ UNCHANGED <<decisions, lastId, tick, cache, reader, raced, behind, sameTick, shut>>
        /\ editor' = [editor EXCEPT ![e].pc = "rename", ![e].fd = 0]
      BY DEF WriteTmp
  <1>2. i \in 1..MirrorInodes /\ text \in Seq(Records)
    <2>1. i \in 0..MirrorInodes /\ text \in Seq(Records)
        BY <1>0, EditorFields
    <2>2. i # 0
        BY <1>1 DEF LogInv, EditPlacesRight, EditorPlace
    <2> QED
        BY <2>1, <2>2, InodesOfMirror
  <1>3. WrittenTo(MirrorInodes, Records, disk, i, text, disk')
    <2> HIDE DEF i, text
    <2>1. /\ MirrorInodes \in Nat /\ tick \in Nat
          /\ disk \in Files(MirrorInodes, Records) /\ Apart(disk)
        BY <1>0, InodesOfMirror DEF LogTyped
    <2> QED
        BY <1>1, <1>2, <2>1, WrittenFile
  <1>4. /\ now \in EditorRecs /\ now.pc = "rename" /\ now.op = editor[e].op
        /\ now.fd = 0 /\ now.list = text /\ now.alone = editor[e].alone
    <2>1. "rename" \in EditPlaces /\ 0 \in 0..MirrorInodes
        BY InodesOfMirror DEF EditPlaces
    <2> QED
        BY <1>0, <2>1, EditorFields DEF EditorRecs
  <1>5. editor' = [editor EXCEPT ![e] = now]
      BY <1>0, <1>1 DEF LogTyped
  <1> HIDE DEF now
  <1>6. /\ editor'[e] = now /\ editor' = [editor EXCEPT ![e] = editor'[e]]
        /\ editor[e].alone => EditorKnows(editor[e])
        /\ EditorPlace(editor[e], disk.file)
      BY <1>1, <1>4, <1>5, GoesOn
  <1>7. editor[e].alone => i = disk.tmp /\ i # disk.file /\ disk.node[i].state = "empty"
      BY <1>0, <1>1, <1>2, <1>6, InodesOfMirror DEF EditorKnows, KnowsTmp, LogTyped, Apart
  <1>8. editor[e].alone => EditorKnows(editor[e])'
    <2> SUFFICES ASSUME editor[e].alone PROVE EditorKnows(editor[e])'
        OBVIOUS
    <2>1. disk'.tmp # 0 /\ Holds(disk'.node[disk'.tmp], text)
        BY <1>2, <1>3, <1>7, InodesOfMirror DEF WrittenTo
    <2> QED
        BY <1>1, <1>4, <1>6, <2>1 DEF EditorKnows, KnowsTmp, KnowsTable
  <1>9. /\ TableTyped' /\ FlagsTyped' /\ disk' \in Files(MirrorInodes, Records) /\ Apart(disk')
        /\ disk'.file = disk.file
      BY <1>0, <1>1, <1>3 DEF TableTyped, FlagsTyped, LogTyped, WrittenTo
  <1>10. EditorStep(e)
      BY <1>1, <1>4, <1>6, <1>8, <1>9 DEF EditorStep, EditorPlace
  <1>11. editor[e].alone /\ disk.file # 0 => disk'.node[disk.file] = disk.node[disk.file]
      BY <1>0, <1>3, <1>7, FileFields, InodesOfMirror DEF WrittenTo
  <1> QED
      BY <1>1, <1>4, <1>6, <1>9, <1>10, <1>11, EditorWorks

\* An edit that comes to its end with the file: what it must know then.
LEMMA FileAppears ==
    ASSUME LogInv, NEW e \in Editors, EditorStep(e), editor'[e].pc = "uncache",
           editor[e].alone => FileParses(disk'),
           editor[e].alone /\ ~sameTick' =>
             \A r \in Readers : reader[r].pc \in {"stat", "store"} => reader[r].at # FileAt(disk')
    PROVE  LogInv'
  <1>1. ~raced => editor[e].alone
      BY DEF LogInv, AloneIsAlone, EditorStep
  <1>2. Anew(editor[e])' => editor[e].alone
      BY DEF Anew, EditorStep
  <1>3. ~raced => FileParses(disk')
      BY <1>1
  <1>4. ASSUME ~raced \/ Anew(editor[e])', ~sameTick', NEW r \in Readers, reader[r].pc = "store"
        PROVE  Good(reader[r].at, reader[r].list)'
    <2>1. reader[r].at # FileAt(disk') /\ reader' = reader
        BY <1>1, <1>2, <1>4 DEF EditorStep
    <2> QED
        BY <2>1 DEF Good
  <1> QED
      BY <1>3, <1>4, EditorMoves

\* An edit whose temp file is gone was not alone: the mirror stays as it is.
LEMMA NoTmpLeft ==
    ASSUME LogInv, NEW e \in Editors, editor[e].pc \in {"rename", "copy"}, disk.tmp = 0,
           editor' = [editor EXCEPT ![e].pc = "uncache"], behind' = TRUE,
           UNCHANGED <<decisions, lastId, disk, tick, cache, reader, raced, sameTick, shut>>
    PROVE  LogInv'
  <1>0. LogTyped /\ TableTyped
      BY DEF LogInv, LogTyped
  <1> DEFINE now == [editor[e] EXCEPT !.pc = "uncache"]
  <1>1. /\ now \in EditorRecs /\ now.pc = "uncache" /\ now.op = editor[e].op
        /\ now.fd = editor[e].fd /\ now.list = editor[e].list /\ now.alone = editor[e].alone
    <2>1. "uncache" \in EditPlaces
        BY DEF EditPlaces
    <2> QED
        BY <1>0, <2>1, EditorFields DEF EditorRecs
  <1>2. editor' = [editor EXCEPT ![e] = now]
      BY <1>0 DEF LogTyped
  <1> HIDE DEF now
  <1>3. /\ editor'[e] = now /\ editor' = [editor EXCEPT ![e] = editor'[e]]
        /\ editor[e].alone => EditorKnows(editor[e])
        /\ EditorPlace(editor[e], disk.file)
      BY <1>1, <1>2, GoesOn
  <1>4. ~editor[e].alone
      BY <1>3 DEF EditorKnows, KnowsTmp
  <1>5. TableTyped' /\ FlagsTyped' /\ disk' \in Files(MirrorInodes, Records) /\ Apart(disk')
      BY <1>0 DEF TableTyped, FlagsTyped, LogTyped
  <1>6. EditorStep(e)
      BY <1>1, <1>3, <1>4, <1>5 DEF EditorStep, EditorPlace
  <1> QED
      BY <1>1, <1>3, <1>4, <1>6, FileAppears

LEMMA RenameTmpStep ==
    ASSUME LogInv, NEW e \in Editors, RenameTmp(e)
    PROVE  LogInv'
  <1>0. LogTyped /\ TableTyped
      BY DEF LogInv, LogTyped
  <1>1. /\ editor[e].pc = "rename" /\ editor' = [editor EXCEPT ![e].pc = "uncache"]
        /\ UNCHANGED <<decisions, lastId, tick, cache, reader, raced, shut>>
      BY DEF RenameTmp
  <1>2. CASE disk.tmp = 0
    <2>1. behind' = TRUE /\ UNCHANGED <<disk, sameTick>>
        BY <1>2 DEF RenameTmp
    <2> QED
        BY <1>1, <1>2, <2>1, NoTmpLeft
  <1>3. CASE disk.tmp # 0
    <2> DEFINE now == [editor[e] EXCEPT !.pc = "uncache"]
    <2>1. disk' = TmpRenamed(disk) /\ sameTick' = (sameTick \/ SeenAt(FileAt(disk'))) /\ behind' = behind
        BY <1>3 DEF RenameTmp
    <2>2. /\ now \in EditorRecs /\ now.pc = "uncache" /\ now.op = editor[e].op
          /\ now.fd = editor[e].fd /\ now.list = editor[e].list /\ now.alone = editor[e].alone
      <3>1. "uncache" \in EditPlaces
          BY DEF EditPlaces
      <3> QED
          BY <1>0, <3>1, EditorFields DEF EditorRecs
    <2>3. editor' = [editor EXCEPT ![e] = now]
        BY <1>0, <1>1 DEF LogTyped
    <2> HIDE DEF now
    <2>4. /\ editor'[e] = now /\ editor' = [editor EXCEPT ![e] = editor'[e]]
          /\ editor[e].alone => EditorKnows(editor[e])
          /\ EditorPlace(editor[e], disk.file)
        BY <1>1, <2>2, <2>3, GoesOn
    <2>5. /\ disk' \in Files(MirrorInodes, Records) /\ Apart(disk')
          /\ disk'.file = disk.tmp /\ disk'.node = disk.node
      <3>1. MirrorInodes \in Nat /\ disk \in Files(MirrorInodes, Records) /\ Apart(disk)
          BY <1>0, InodesOfMirror DEF LogTyped
      <3> QED
          BY <2>1, <3>1, TmpRenamedFile
    <2>6. editor[e].alone => FileParses(disk') /\ FileList(disk') = editor[e].list
        BY <1>1, <1>3, <2>4, <2>5 DEF EditorKnows, KnowsTmp, Holds, FileParses, FileList
    <2>7. editor[e].alone => EditorKnows(editor[e])'
        BY <1>1, <2>1, <2>2, <2>4, <2>6 DEF EditorKnows, KnowsTmp, KnowsTable
    <2>8. TableTyped' /\ FlagsTyped'
        BY <1>0, <1>1, <2>1 DEF TableTyped, FlagsTyped, LogTyped
    <2>9. EditorStep(e)
        BY <1>1, <1>3, <2>1, <2>2, <2>4, <2>5, <2>7, <2>8 DEF EditorStep, EditorPlace
    <2>10. ~sameTick' => \A r \in Readers : reader[r].pc \in {"stat", "store"} => reader[r].at # FileAt(disk')
        BY <2>1 DEF SeenAt
    <2> QED
        BY <2>2, <2>4, <2>6, <2>9, <2>10, FileAppears
  <1> QED
      BY <1>2, <1>3

LEMMA CopyTmpStep ==
    ASSUME LogInv, NEW e \in Editors, CopyTmp(e)
    PROVE  LogInv'
  <1>0. LogTyped /\ TableTyped
      BY DEF LogInv, LogTyped
  <1>1. /\ editor[e].pc = "copy" /\ editor' = [editor EXCEPT ![e].pc = "uncache"]
        /\ UNCHANGED <<decisions, lastId, tick, cache, reader, raced, shut>>
      BY DEF CopyTmp
  <1>2. CASE disk.tmp = 0
    <2>1. behind' = TRUE /\ UNCHANGED <<disk, sameTick>>
        BY <1>2 DEF CopyTmp
    <2> QED
        BY <1>1, <1>2, <2>1, NoTmpLeft
  <1>3. CASE disk.tmp # 0
    <2> DEFINE now == [editor[e] EXCEPT !.pc = "uncache"]
    <2>1. disk' = TmpCopied(disk, tick) /\ sameTick' = (sameTick \/ SeenAt(tick)) /\ behind' = behind
        BY <1>3 DEF CopyTmp
    <2>2. /\ now \in EditorRecs /\ now.pc = "uncache" /\ now.op = editor[e].op
          /\ now.fd = editor[e].fd /\ now.list = editor[e].list /\ now.alone = editor[e].alone
      <3>1. "uncache" \in EditPlaces
          BY DEF EditPlaces
      <3> QED
          BY <1>0, <3>1, EditorFields DEF EditorRecs
    <2>3. editor' = [editor EXCEPT ![e] = now]
        BY <1>0, <1>1 DEF LogTyped
    <2> HIDE DEF now
    <2>4. /\ editor'[e] = now /\ editor' = [editor EXCEPT ![e] = editor'[e]]
          /\ editor[e].alone => EditorKnows(editor[e])
          /\ EditorPlace(editor[e], disk.file) /\ disk.file # 0
        BY <1>1, <2>2, <2>3, GoesOn DEF EditorPlace
    <2>5. /\ disk' \in Files(MirrorInodes, Records) /\ Apart(disk')
          /\ disk'.file = disk.file /\ disk'.node[disk'.file].at = tick
          /\ \A list : Holds(disk.node[disk.tmp], list) => Holds(disk'.node[disk'.file], list)
      <3>1. /\ MirrorInodes \in Nat /\ tick \in Nat
            /\ disk \in Files(MirrorInodes, Records) /\ Apart(disk)
          BY <1>0, InodesOfMirror DEF LogTyped
      <3> QED
          BY <1>3, <2>1, <2>4, <3>1, TmpCopiedFile
    <2>6. editor[e].alone => FileParses(disk') /\ FileList(disk') = editor[e].list
      <3>1. editor[e].alone => Holds(disk'.node[disk'.file], editor[e].list)
          BY <1>1, <2>4, <2>5 DEF EditorKnows, KnowsTmp
      <3> QED
          BY <2>4, <2>5, <3>1 DEF Holds, FileParses, FileList
    <2>7. editor[e].alone => EditorKnows(editor[e])'
        BY <1>1, <2>1, <2>2, <2>4, <2>6 DEF EditorKnows, KnowsTmp, KnowsTable
    <2>8. TableTyped' /\ FlagsTyped'
        BY <1>0, <1>1, <2>1 DEF TableTyped, FlagsTyped, LogTyped
    <2>9. EditorStep(e)
        BY <1>1, <1>3, <2>1, <2>2, <2>4, <2>5, <2>7, <2>8 DEF EditorStep, EditorPlace
    <2>10. ~sameTick' => \A r \in Readers : reader[r].pc \in {"stat", "store"} => reader[r].at # FileAt(disk')
        BY <2>1, <2>5 DEF SeenAt, FileAt
    <2> QED
        BY <2>2, <2>4, <2>6, <2>9, <2>10, FileAppears
  <1> QED
      BY <1>2, <1>3

LEMMA RenameRefusedStep ==
    ASSUME LogInv, NEW e \in Editors, RenameRefused(e)
    PROVE  LogInv'
  <1>0. LogTyped /\ TableTyped
      BY DEF LogInv, LogTyped
  <1> DEFINE now == [editor[e] EXCEPT !.pc = "copy"]
  <1>1. /\ editor[e].pc = "rename" /\ editor' = [editor EXCEPT ![e].pc = "copy"]
        /\ disk.tmp # 0 /\ disk' = FileOpened(disk, Held, tick)
        /\ UNCHANGED <<decisions, lastId, tick, cache, reader, raced, behind, sameTick, shut>>
      BY DEF RenameRefused
  <1>2. /\ now \in EditorRecs /\ now.pc = "copy" /\ now.op = editor[e].op
        /\ now.fd = editor[e].fd /\ now.list = editor[e].list /\ now.alone = editor[e].alone
    <2>1. "copy" \in EditPlaces
        BY DEF EditPlaces
    <2> QED
        BY <1>0, <2>1, EditorFields DEF EditorRecs
  <1>3. editor' = [editor EXCEPT ![e] = now]
      BY <1>0, <1>1 DEF LogTyped
  <1> HIDE DEF now
  <1>4. /\ editor'[e] = now /\ editor' = [editor EXCEPT ![e] = editor'[e]]
        /\ editor[e].alone => EditorKnows(editor[e])
        /\ EditorPlace(editor[e], disk.file)
      BY <1>1, <1>2, <1>3, GoesOn
  <1>5. /\ disk' \in Files(MirrorInodes, Records) /\ Apart(disk')
        /\ disk'.tmp = disk.tmp /\ disk'.file \in 1..MirrorInodes
        /\ disk'.node[disk'.file].state = "empty"
        /\ disk'.node[disk.tmp] = disk.node[disk.tmp]
    <2>1. /\ MirrorInodes \in Nat /\ tick \in Nat
          /\ disk \in Files(MirrorInodes, Records) /\ Apart(disk)
        BY <1>0, InodesOfMirror DEF LogTyped
    <2>2. disk.file = 0 => FreeInode(disk, Held) \in (1..MirrorInodes) \ (Held \cup {disk.tmp, disk.file})
        BY <1>0, FreeForEdit
    <2> QED
        BY <1>1, <2>1, <2>2, FileOpenedFile
  <1>6. disk'.file # 0
      BY <1>5, InodesOfMirror
  <1>7. editor[e].alone => EditorKnows(editor[e])'
      BY <1>1, <1>2, <1>4, <1>5 DEF EditorKnows, KnowsTmp, KnowsTable
  <1>8. TableTyped' /\ FlagsTyped'
      BY <1>0, <1>1 DEF TableTyped, FlagsTyped, LogTyped
  <1>9. EditorStep(e)
      BY <1>1, <1>2, <1>4, <1>5, <1>6, <1>7, <1>8 DEF EditorStep, EditorPlace
  <1>10. ~FileParses(disk')
      BY <1>5, <1>6 DEF FileParses
  <1>11. \A r \in Readers : Good(reader[r].at, reader[r].list)'
      BY <1>10 DEF Good
  <1>12. Good(cache.at, cache.list)'
      BY <1>10 DEF Good
  <1> HIDE DEF Good
  <1> QED
      BY <1>2, <1>4, <1>1, <1>9, <1>11, <1>12, EditorMoves

\* The end of an edit: if it had the mirror to itself, nobody is at it now.
LEMMA UncacheStep ==
    ASSUME LogInv, NEW e \in Editors, Uncache(e)
    PROVE  LogInv'
  <1> DEFINE anew == editor[e].op = "clear" /\ editor[e].alone
  <1>0. LogTyped /\ TableTyped /\ FlagsTyped
      BY DEF LogInv, LogTyped
  <1>1. /\ editor[e].pc = "uncache" /\ cache' = NoCache
        /\ editor'[e] = Resting /\ \A f \in Editors \ {e} : editor'[f] = editor[f]
        /\ editor' \in [Editors -> EditorRecs]
        /\ UNCHANGED <<decisions, lastId, disk, tick, reader, sameTick>>
      BY <1>0, RestingTyped DEF Uncache, LogTyped
  <1>2. raced' = (raced /\ ~anew) /\ behind' = (behind /\ ~anew) /\ shut' = (shut /\ ~anew)
      BY DEF Uncache
  <1>3. Resting.pc = "idle" /\ Resting.op = "" /\ Resting.fd = 0
      BY DEF Resting
  <1>4. e \in Busy(Editors) /\ Busy(Editors)' = Busy(Editors) \ {e}
      BY <1>1, <1>3 DEF Busy
  <1>5. /\ \A f \in Editors \ {e} : editor[f].pc # "idle" => ~editor[f].alone
        /\ \A r \in Readers : ~reader[r].alone
      BY <1>4 DEF LogInv, AloneIsAlone
  <1>6. ~raced' => editor[e].alone
      BY <1>1, <1>2 DEF LogInv, AloneIsAlone
  <1>7. editor[e].alone => Busy(Editors) = {e} /\ EditorKnows(editor[e])
      BY <1>1 DEF LogInv, AloneIsAlone, AloneKnow
  <1>8. ~raced' => \A f \in Editors : f # e => editor[f].pc = "idle"
      BY <1>6, <1>7 DEF Busy
  <1>9. LogTyped'
      BY <1>0, <1>1, <1>2, RestingTyped DEF LogTyped, TableTyped, FlagsTyped
  <1>10. EditPlacesRight'
      BY <1>1, <1>3 DEF LogInv, EditPlacesRight, EditorPlace
  <1>11. AloneIsAlone' /\ AloneKnow'
      BY <1>1, <1>3, <1>5, <1>8 DEF AloneIsAlone, AloneKnow
  <1>12. AtRestAgrees'
    <2>1. ASSUME ~raced', ~behind' PROVE IsTable(FileList(disk), decisions)
        BY <1>1, <1>2, <1>6, <1>7, <2>1 DEF EditorKnows, KnowsTable
    <2> QED
        BY <1>1, <2>1 DEF AtRestAgrees
  <1>13. AtRestParses'
    <2>1. ASSUME ~raced', ~shut' PROVE FileParses(disk)
      <3>1. CASE anew
          BY <1>1, <1>7, <3>1 DEF EditorKnows
      <3>2. CASE ~anew
        <4>1. \A f \in Editors : editor[f].pc # "copy"
            BY <1>1, <1>8, <2>1
        <4> QED
            BY <1>2, <2>1, <3>2, <4>1 DEF LogInv, AtRestParses
      <3> QED
          BY <3>1, <3>2
    <2> QED
        BY <1>1, <2>1 DEF AtRestParses
  <1>14. ReadersGood'
    <2>1. \A f \in Editors : ~Anew(editor[f])'
        BY <1>1, <1>3, <1>5 DEF Anew
    <2>2. ~raced' => ~raced \/ Anew(editor[e])
        BY <1>1, <1>2 DEF Anew
    <2> QED
        BY <1>1, <2>1, <2>2 DEF LogInv, ReadersGood, Good
  <1>15. CacheGood'
    <2>1. disk.file # 0 => FileAt(disk) # -1
        BY <1>0, FileFields
    <2>2. cache'.at = -1
        BY <1>1 DEF NoCache
    <2>3. Good(cache.at, cache.list)'
        BY <1>1, <2>1, <2>2 DEF Good
    <2> HIDE DEF Good
    <2> QED
        BY <2>3 DEF CacheGood
  <1>16. ReadersFresh'
      BY <1>1, <1>5 DEF ReadersFresh
  <1> QED
      BY <1>9, <1>10, <1>11, <1>12, <1>13, <1>14, <1>15, <1>16 DEF LogInv

\* A reader's step changes only what it holds, and perhaps the cache.
LEMMA ReaderMoves ==
    ASSUME LogInv, NEW r \in Readers, reader'[r] \in ReaderRecs,
           reader' = [reader EXCEPT ![r] = reader'[r]],
           UNCHANGED <<decisions, lastId, disk, tick, editor, raced, behind, sameTick, shut>>,
           cache' \in [at : Nat \cup {-1}, list : Seq(Records)],
           reader'[r].alone => Busy(Editors) = {},
           reader'[r].pc = "store" /\ (~raced \/ \E e \in Editors : Anew(editor[e])) /\ ~sameTick =>
             Good(reader'[r].at, reader'[r].list),
           ~raced /\ ~sameTick /\ (\A e \in Editors : editor[e].pc # "uncache") =>
             Good(cache'.at, cache'.list),
           reader'[r].alone /\ ~raced /\ ~sameTick =>
             IF reader'[r].pc = "stat" THEN disk.file # 0 /\ reader'[r].at = FileAt(disk)
             ELSE (FileParses(disk) => reader'[r].list = Reverse(FileList(disk)))
    PROVE  LogInv'
  <1>1. LogTyped /\ reader \in [Readers -> ReaderRecs]
      BY DEF LogInv, LogTyped
  <1>2. /\ \A s \in Readers : s # r => reader'[s] = reader[s]
        /\ reader' \in [Readers -> ReaderRecs]
      BY <1>1
  <1>3. LogTyped'
      BY <1>1, <1>2 DEF LogTyped, TableTyped, FlagsTyped
  <1>4. EditPlacesRight' /\ AloneKnow' /\ AtRestAgrees' /\ AtRestParses'
      BY DEF LogInv, EditPlacesRight, AloneKnow, EditorKnows, KnowsTmp, KnowsTable,
             AtRestAgrees, AtRestParses, Busy
  <1>5. AloneIsAlone'
      BY <1>2 DEF LogInv, AloneIsAlone, Busy
  <1>6. ReadersGood'
      BY <1>2 DEF LogInv, ReadersGood, Good, Anew
  <1>7. CacheGood'
      BY DEF CacheGood, Good
  <1>8. ReadersFresh'
      BY <1>2 DEF LogInv, ReadersFresh
  <1> QED
      BY <1>3, <1>4, <1>5, <1>6, <1>7, <1>8 DEF LogInv

LEMMA StatStep ==
    ASSUME LogInv, NEW r \in Readers, Stat(r)
    PROVE  LogInv'
  <1> DEFINE first == Busy(Editors) = {}
             now == [pc |-> IF disk.file # 0 THEN "stat" ELSE "idle",
                     at |-> IF disk.file # 0 THEN FileAt(disk) ELSE -1,
                     list |-> <<>>, alone |-> first]
  <1>0. LogTyped /\ cache \in [at : Nat \cup {-1}, list : Seq(Records)]
        /\ reader \in [Readers -> ReaderRecs]
      BY DEF LogInv, LogTyped
  <1>1. /\ reader' = [reader EXCEPT ![r] = now]
        /\ UNCHANGED <<decisions, lastId, disk, tick, cache, editor, raced, behind, sameTick, shut>>
      BY DEF Stat, FileExists
  <1>2. /\ now \in ReaderRecs /\ now.list = <<>> /\ now.alone = first
        /\ IF disk.file # 0 THEN now.pc = "stat" /\ now.at = FileAt(disk)
           ELSE now.pc = "idle" /\ now.at = -1
    <2>1. first \in BOOLEAN /\ <<>> \in Seq(Records) /\ (disk.file # 0 => FileAt(disk) \in Nat)
        BY <1>0, FileFields, EmptySeq
    <2> HIDE DEF first
    <2> QED
        BY <2>1 DEF ReaderRecs
  <1> HIDE DEF now
  <1>3. reader'[r] = now /\ reader' = [reader EXCEPT ![r] = reader'[r]]
      BY <1>0, <1>1
  <1>4. disk.file = 0 => Reverse(FileList(disk)) = <<>>
    <2>1. <<>> \in Seq(Records) /\ Len(<<>>) = 0
        BY EmptySeq
    <2>2. Reverse(<<>>) \in Seq(Records) /\ Len(Reverse(<<>>)) = 0
        BY <2>1, ReversedRows
    <2> QED
        BY <2>2, EmptySeq DEF FileList
  <1>5. ~raced /\ ~sameTick /\ (\A e \in Editors : editor[e].pc # "uncache") =>
          Good(cache'.at, cache'.list)
      BY <1>1 DEF LogInv, CacheGood
  <1> HIDE DEF Good
  <1>6. /\ now.pc # "store"
        /\ IF now.pc = "stat" THEN disk.file # 0 /\ now.at = FileAt(disk)
           ELSE now.list = Reverse(FileList(disk))
      BY <1>2, <1>4
  <1>7. cache' \in [at : Nat \cup {-1}, list : Seq(Records)] /\ (now.alone => Busy(Editors) = {})
      BY <1>0, <1>1, <1>2
  <1> QED
      BY <1>1, <1>2, <1>3, <1>5, <1>6, <1>7, ReaderMoves

LEMMA ReadOrHitStep ==
    ASSUME LogInv, NEW r \in Readers, ReadOrHit(r)
    PROVE  LogInv'
  <1> DEFINE old == reader[r]
             hit == [old EXCEPT !.pc = "idle", !.list = cache.list]
             read == [old EXCEPT !.pc = IF FileParses(disk) THEN "store" ELSE "idle",
                                 !.list = IF FileParses(disk) THEN Reverse(FileList(disk)) ELSE <<>>]
             now == IF cache.at = old.at THEN hit ELSE read
  <1>0. LogTyped /\ cache \in [at : Nat \cup {-1}, list : Seq(Records)]
        /\ reader \in [Readers -> ReaderRecs] /\ old \in ReaderRecs
      BY DEF LogInv, LogTyped
  <1>1. /\ old.pc = "stat" /\ reader' = [reader EXCEPT ![r] = now]
        /\ UNCHANGED <<decisions, lastId, disk, tick, cache, editor, raced, behind, sameTick, shut>>
      BY <1>0 DEF ReadOrHit
  <1>2. /\ hit \in ReaderRecs /\ hit.pc = "idle" /\ hit.at = old.at /\ hit.alone = old.alone
        /\ hit.list = cache.list
      BY <1>0 DEF ReaderRecs
  <1>3. /\ read \in ReaderRecs /\ read.at = old.at /\ read.alone = old.alone
        /\ IF FileParses(disk) THEN read.pc = "store" /\ read.list = Reverse(FileList(disk))
           ELSE read.pc = "idle"
    <2>1. Reverse(FileList(disk)) \in Seq(Records) /\ <<>> \in Seq(Records)
        BY <1>0, FileFields, ReversedRows, EmptySeq
    <2> QED
        BY <1>0, <2>1 DEF ReaderRecs
  <1> HIDE DEF hit, read
  <1>4. now \in ReaderRecs /\ now.alone = old.alone
      BY <1>2, <1>3
  <1>5. old.alone => Busy(Editors) = {} /\ \A e \in Editors : editor[e].pc # "uncache"
    <2>1. old.alone => Busy(Editors) = {}
        BY DEF LogInv, AloneIsAlone
    <2> QED
        BY <2>1 DEF Busy
  <1>6. old.alone /\ ~raced /\ ~sameTick => disk.file # 0 /\ old.at = FileAt(disk)
      BY <1>1 DEF LogInv, ReadersFresh
  <1>7. ~raced /\ ~sameTick /\ (\A e \in Editors : editor[e].pc # "uncache") =>
          Good(cache.at, cache.list)
      BY DEF LogInv, CacheGood
  <1>8. ASSUME now.pc = "store" PROVE Good(now.at, now.list)
      BY <1>2, <1>3, <1>8 DEF Good
  <1>9. ASSUME now.alone, ~raced, ~sameTick, FileParses(disk)
        PROVE  now.pc # "stat" /\ now.list = Reverse(FileList(disk))
    <2>1. CASE cache.at = old.at
        BY <1>2, <1>4, <1>5, <1>6, <1>7, <1>9, <2>1 DEF Good
    <2>2. CASE cache.at # old.at
        BY <1>3, <1>9, <2>2
    <2> QED
        BY <2>1, <2>2
  <1>10. now.pc # "stat"
      BY <1>2, <1>3
  <1> HIDE DEF now, Good, old
  <1>11. reader'[r] = now /\ reader' = [reader EXCEPT ![r] = reader'[r]]
      BY <1>0, <1>1
  <1>12. reader'[r] \in ReaderRecs /\ (reader'[r].alone => Busy(Editors) = {})
      BY <1>4, <1>5, <1>11
  <1> QED
      BY <1>0, <1>1, <1>7, <1>8, <1>9, <1>10, <1>11, <1>12, ReaderMoves

LEMMA StoreCacheStep ==
    ASSUME LogInv, NEW r \in Readers, StoreCache(r)
    PROVE  LogInv'
  <1> DEFINE now == [reader[r] EXCEPT !.pc = "idle"]
  <1>0. LogTyped /\ reader \in [Readers -> ReaderRecs] /\ reader[r] \in ReaderRecs
      BY DEF LogInv, LogTyped
  <1>1. /\ reader[r].pc = "store" /\ reader' = [reader EXCEPT ![r] = now]
        /\ cache' = [at |-> reader[r].at, list |-> reader[r].list]
        /\ UNCHANGED <<decisions, lastId, disk, tick, editor, raced, behind, sameTick, shut>>
      BY <1>0 DEF StoreCache
  <1>2. /\ now \in ReaderRecs /\ now.pc = "idle" /\ now.at = reader[r].at
        /\ now.list = reader[r].list /\ now.alone = reader[r].alone
        /\ cache' \in [at : Nat \cup {-1}, list : Seq(Records)]
      BY <1>0, <1>1 DEF ReaderRecs
  <1> HIDE DEF now
  <1>3. reader'[r] = now /\ reader' = [reader EXCEPT ![r] = reader'[r]]
      BY <1>0, <1>1
  <1>4. reader[r].alone => Busy(Editors) = {}
      BY DEF LogInv, AloneIsAlone
  <1>5. ~raced /\ ~sameTick => Good(cache'.at, cache'.list)
      BY <1>1 DEF LogInv, ReadersGood
  <1>6. reader[r].alone /\ ~raced /\ ~sameTick /\ FileParses(disk) =>
          reader[r].list = Reverse(FileList(disk))
      BY <1>1 DEF LogInv, ReadersFresh
  <1> HIDE DEF Good
  <1> QED
      BY <1>1, <1>2, <1>3, <1>4, <1>5, <1>6, ReaderMoves

LEMMA TickStep ==
    ASSUME LogInv, Tick
    PROVE  LogInv'
  <1>1. /\ tick' = tick + 1
        /\ UNCHANGED <<decisions, lastId, disk, cache, editor, reader, raced, behind, sameTick, shut>>
      BY DEF Tick
  <1>2. LogTyped'
      BY <1>1 DEF LogInv, LogTyped, TableTyped, FlagsTyped
  <1>3. /\ EditPlacesRight' /\ AloneIsAlone' /\ AloneKnow' /\ AtRestAgrees' /\ AtRestParses'
        /\ ReadersGood' /\ CacheGood' /\ ReadersFresh'
      BY <1>1 DEF LogInv, EditPlacesRight, AloneIsAlone, AloneKnow, EditorKnows, KnowsTmp,
                  KnowsTable, AtRestAgrees, AtRestParses, ReadersGood, CacheGood, ReadersFresh,
                  Good, Anew, Busy
  <1> QED
      BY <1>2, <1>3 DEF LogInv

\* A crash before the rename leaves the mirror, one after it the table's list;
\* between the two it is said to have left them apart.
LEMMA CrashStep ==
    ASSUME LogInv, Crash
    PROVE  LogInv'
  <1>0. LogTyped /\ FlagsTyped
      BY DEF LogInv, LogTyped
  <1>1. /\ editor' = [e \in Editors |-> Resting] /\ reader' = [r \in Readers |-> NotReading]
        /\ cache' = NoCache
        /\ behind' = (behind \/ \E e \in Editors :
                        editor[e].pc \in {"read", "open", "write", "rename", "copy"})
        /\ shut' = (shut \/ \E e \in Editors : editor[e].pc = "copy")
        /\ ~raced /\ UNCHANGED <<decisions, lastId, disk, tick, raced, sameTick>>
      BY DEF Crash, Miss
  <1>2. /\ \A e \in Editors : editor'[e] = Resting
        /\ \A r \in Readers : reader'[r] = NotReading
      BY <1>1
  <1>3. Resting.pc = "idle" /\ Resting.op = "" /\ Resting.fd = 0 /\ ~NotReading.alone
        /\ NotReading.pc = "idle" /\ NoCache.at = -1
      BY DEF Resting, NotReading, NoCache
  <1>4. LogTyped'
      BY <1>0, <1>1, <1>2, RestingTyped DEF LogTyped, TableTyped, FlagsTyped
  <1>5. EditPlacesRight' /\ AloneIsAlone' /\ AloneKnow' /\ ReadersFresh'
      BY <1>2, <1>3 DEF EditPlacesRight, EditorPlace, AloneIsAlone, AloneKnow, ReadersFresh
  <1>6. AtRestAgrees'
    <2>1. PICK e \in Editors : editor[e].pc # "idle"
        BY DEF Crash, Busy
    <2>2. editor[e].alone /\ EditorKnows(editor[e]) /\ editor[e].pc \in EditPlaces
        BY <1>0, <1>1, <2>1, EditorFields DEF LogInv, AloneIsAlone, AloneKnow
    <2>3. ASSUME ~behind' PROVE IsTable(FileList(disk), decisions)
      <3>1. ~behind /\ editor[e].pc \in {"update", "delete", "uncache"}
          BY <1>0, <1>1, <2>1, <2>2, <2>3 DEF EditPlaces, FlagsTyped
      <3> QED
          BY <1>1, <2>2, <3>1 DEF EditorKnows, KnowsTable
    <2> QED
        BY <1>1, <2>3 DEF AtRestAgrees
  <1>7. AtRestParses'
      BY <1>1 DEF LogInv, AtRestParses
  <1>8. ReadersGood'
      BY <1>2, <1>3 DEF ReadersGood
  <1>9. CacheGood'
    <2>1. disk.file # 0 => FileAt(disk) # -1
        BY <1>0, FileFields
    <2> QED
        BY <1>1, <1>3, <2>1 DEF CacheGood, Good
  <1> QED
      BY <1>4, <1>5, <1>6, <1>7, <1>8, <1>9 DEF LogInv

LEMMA LogStep == LogInv /\ [DecisionNext]_decisionVars => LogInv'
  <1> SUFFICES ASSUME LogInv, [DecisionNext]_decisionVars PROVE LogInv'
      OBVIOUS
  <1>1. CASE UNCHANGED decisionVars
    <2>1. /\ LogTyped'
          /\ EditPlacesRight' /\ AloneIsAlone' /\ AloneKnow' /\ AtRestAgrees' /\ AtRestParses'
        BY <1>1 DEF LogInv, LogTyped, TableTyped, FlagsTyped, EditPlacesRight, AloneIsAlone,
                    AloneKnow, EditorKnows, KnowsTmp, KnowsTable, AtRestAgrees, AtRestParses,
                    Busy, decisionVars
    <2>2. ReadersGood' /\ CacheGood' /\ ReadersFresh'
        BY <1>1 DEF LogInv, ReadersGood, CacheGood, ReadersFresh, Good, Anew, decisionVars
    <2> QED
        BY <2>1, <2>2 DEF LogInv
  <1>2. ASSUME NEW e \in Editors, NEW t \in Targets, Record(e, t) PROVE LogInv'
      BY <1>2, RecordStep
  <1>3. ASSUME NEW e \in Editors, NEW id \in DOMAIN decisions,
               Fetch(e, "update", id) \/ Fetch(e, "delete", id)
        PROVE  LogInv'
      BY <1>3, FetchStep
  <1>4. ASSUME NEW e \in Editors,
               UpdateRow(e) \/ DeleteRow(e) \/ ClearRows(e) \/ ReadMirror(e)
        PROVE  LogInv'
      BY <1>4, UpdateRowStep, DeleteRowStep, ClearRowsStep, ReadMirrorStep
  <1>5. ASSUME NEW e \in Editors,
               \/ OpenTmp(e) \/ WriteTmp(e) \/ RenameTmp(e)
               \/ RenameRefused(e) \/ CopyTmp(e) \/ Uncache(e)
        PROVE  LogInv'
      BY <1>5, OpenTmpStep, WriteTmpStep, RenameTmpStep, RenameRefusedStep, CopyTmpStep, UncacheStep
  <1>6. ASSUME NEW r \in Readers, Stat(r) \/ ReadOrHit(r) \/ StoreCache(r)
        PROVE  LogInv'
      BY <1>6, StatStep, ReadOrHitStep, StoreCacheStep
  <1> QED
      BY <1>1, <1>2, <1>3, <1>4, <1>5, <1>6, TickStep, CrashStep DEF DecisionNext

\* What the invariant is for.
LEMMA LogSound ==
    ASSUME LogInv
    PROVE  DecisionTypeOK /\ MirrorAgrees /\ MirrorParses /\ ReadsFresh
  <1>0. LogTyped /\ TableTyped
      BY DEF LogInv, LogTyped
  <1>1. DecisionTypeOK
    <2>1. /\ disk.tmp \in 0..MirrorInodes /\ disk.file \in 0..MirrorInodes /\ MirrorInodes \in Nat
          /\ DOMAIN disk.node = 1..MirrorInodes
        BY <1>0, InodesOfMirror DEF LogTyped, Files
    <2>2. \A e \in Editors : editor[e].fd \in 0..MirrorInodes
        BY <1>0, EditorFields
    <2>3. disk.tmp = 0 \/ disk.tmp # disk.file
        BY <1>0 DEF LogTyped, Apart
    <2>4. DOMAIN decisions \subseteq 1..lastId /\ lastId \in 0..MaxDecisions
        BY <1>0, DecisionsAssumption DEF TableTyped
    <2>5. \A i \in 0..MirrorInodes : i \in DOMAIN disk.node \cup {0}
        BY <2>1
    <2> QED
        BY <2>1, <2>2, <2>3, <2>4, <2>5 DEF DecisionTypeOK
  <1>2. MirrorAgrees
      BY TableIsShown DEF LogInv, AtRestAgrees, MirrorAgrees
  <1>3. MirrorParses
      BY DEF LogInv, AtRestParses, MirrorParses
  <1>4. ReadsFresh
      BY DEF LogInv, ReadersFresh, ReadsFresh
  <1> QED
      BY <1>1, <1>2, <1>3, <1>4

(* The invariant of manualdecisions.go holds whatever the numbers of        *)
(* goroutines that edit and read, and of decisions, edits, failures and     *)
(* clock ticks.                                                             *)
THEOREM LogInvariant == DecisionSpec => []LogInv
  <1>1. LogInv /\ [DecisionNext]_decisionVars => LogInv'
      BY LogStep
  <1> QED
      BY <1>1, LogInit, PTL DEF DecisionSpec

(* Both mirrors: once no edit is under way, and no two have overlapped nor  *)
(* one failed half way since the last undisturbed clear, the mirror of the  *)
(* manual decisions has the rows of the table, newest first in the Settings *)
(* tab; it is one whole JSON text at every moment, and a prompt is told the *)
(* decisions as they are.  The registry of SyncJSONRegistry is replaced as  *)
(* a whole and, once the syncs are over, follows the documents' rows.       *)
THEOREM MirrorsSoundTheorem == DecisionSpec /\ MirrorSpec => []MirrorsSound
  <1>1. DecisionTypeOK /\ MirrorAgrees /\ MirrorParses /\ ReadsFresh
        /\ RegistryFollowsRows /\ RegistryWhole => MirrorsSound
      BY DEF MirrorsSound
  <1> QED
      BY <1>1, LogSound, LogInvariant, RegistryFollowsRowsTheorem, RegistryWholeTheorem, PTL

-----------------------------------------------------------------------------
(* Sift is a recursive function: that it has a value, and what it keeps of   *)
(* the first n items, goes by induction over n.                              *)

\* What holds of 0, and of n + 1 whenever it holds of n, holds of every n.
LEMMA Counting ==
    ASSUME NEW S, 0 \in S, \A n \in Nat : n \in S => n + 1 \in S
    PROVE  Nat \subseteq S
  <1> DEFINE R == OpToRel(<, Nat)
             T == Nat \ S
  <1>1. IsWellFoundedOn(R, Nat)
      BY NatLessThanWellFounded
  <1>2. SUFFICES ASSUME T # {} PROVE FALSE
      OBVIOUS
  <1>r. \A a, b \in Nat : a < b => <<a, b>> \in R
      BY DEF OpToRel
  <1> HIDE DEF R
  <1>3. PICK x \in T : \A y \in T : ~(<<y, x>> \in R)
      BY <1>1, <1>2, WFMin
  <1>4. x \in Nat /\ x # 0 /\ x - 1 \in Nat /\ x - 1 < x
      BY <1>3
  <1>5. x - 1 \in S
      BY <1>3, <1>4, <1>r
  <1> QED
      BY <1>3, <1>4, <1>5

\* A set of numbers has a least one.
LEMMA LeastOne ==
    ASSUME NEW I, I \subseteq Nat, I # {}
    PROVE  \E i \in I : \A j \in I : i <= j
  <1> DEFINE R == OpToRel(<, Nat)
  <1>1. IsWellFoundedOn(R, Nat)
      BY NatLessThanWellFounded
  <1>r. \A a, b \in Nat : a < b => <<a, b>> \in R
      BY DEF OpToRel
  <1> HIDE DEF R
  <1>3. PICK x \in I : \A y \in I : ~(<<y, x>> \in R)
      BY <1>1, WFMin
  <1>4. \A y \in I : y \in Nat /\ x \in Nat /\ ~(y < x)
      BY <1>3, <1>r
  <1>5. \A y \in I : x <= y
      BY <1>4
  <1> QED
      BY <1>5

\* One turn of the loop over the items.
SiftTurn(seq, S, n, r) == IF seq[n] \in S THEN Append(r, seq[n]) ELSE r
Sifts(seq, S, f, n) == f = [k \in 0..n |-> IF k = 0 THEN <<>> ELSE SiftTurn(seq, S, k, f[k - 1])]

LEMMA SiftLoop ==
    ASSUME NEW seq, NEW S
    PROVE  \A n \in Nat : \E f : Sifts(seq, S, f, n)
  <1> DEFINE T == {n \in Nat : \E f : Sifts(seq, S, f, n)}
  <1>1. Sifts(seq, S, [k \in 0..0 |-> <<>>], 0)
      BY DEF Sifts
  <1>2. ASSUME NEW n \in Nat, NEW f, Sifts(seq, S, f, n) PROVE \E g : Sifts(seq, S, g, n + 1)
    <2> DEFINE g == [k \in 0..(n + 1) |-> IF k <= n THEN f[k] ELSE SiftTurn(seq, S, n + 1, f[n])]
    <2>1. \A k \in 0..n : f[k] = IF k = 0 THEN <<>> ELSE SiftTurn(seq, S, k, f[k - 1])
        BY <1>2 DEF Sifts
    <2>2. \A k \in 0..(n + 1) : g[k] = IF k = 0 THEN <<>> ELSE SiftTurn(seq, S, k, g[k - 1])
      <3>1. ASSUME NEW k \in 0..n PROVE g[k] = f[k]
          OBVIOUS
      <3>2. g[n + 1] = SiftTurn(seq, S, n + 1, f[n])
          OBVIOUS
      <3> HIDE DEF g
      <3>3. ASSUME NEW k \in 1..n PROVE g[k - 1] = f[k - 1]
          BY <3>1
      <3> QED
          BY <2>1, <3>1, <3>2, <3>3
    <2>3. Sifts(seq, S, g, n + 1)
        BY <2>2 DEF Sifts
    <2> QED
        BY <2>3
  <1>3. 0 \in T /\ \A n \in Nat : n \in T => n + 1 \in T
      BY <1>1, <1>2
  <1> HIDE DEF T
  <1>4. Nat \subseteq T
      BY <1>3, Counting
  <1> QED
      BY <1>4 DEF T

(* r is what is left of the first n items of seq that are in S: g says where *)
(* each was, and the order is kept.                                         *)
Leaves(seq, S, n, r, g) ==
  /\ g \in [1..Len(r) -> 1..n]
  /\ \A k \in 1..Len(r) : r[k] = seq[g[k]] /\ seq[g[k]] \in S
  /\ \A k, l \in 1..Len(r) : k < l => g[k] < g[l]
  /\ \A i \in 1..n : seq[i] \in S => \E k \in 1..Len(r) : g[k] = i

LEMMA SiftTurnLeaves ==
    ASSUME NEW X, NEW S, NEW seq \in Seq(X), NEW n \in Nat, n + 1 <= Len(seq),
           NEW r \in Seq(X), NEW g, Leaves(seq, S, n, r, g)
    PROVE  LET s == SiftTurn(seq, S, n + 1, r)
           IN  s \in Seq(X) /\ \E h : Leaves(seq, S, n + 1, s, h)
  <1> DEFINE s == SiftTurn(seq, S, n + 1, r)
  <1>0. n + 1 \in 1..Len(seq) /\ seq[n + 1] \in X /\ Len(r) \in Nat
      OBVIOUS
  <1>1. CASE seq[n + 1] \notin S
    <2>1. s = r
        BY <1>1 DEF SiftTurn
    <2>2. Leaves(seq, S, n + 1, r, g)
      <3>1. g \in [1..Len(r) -> 1..(n + 1)]
          BY <1>0 DEF Leaves
      <3>2. \A i \in 1..(n + 1) : seq[i] \in S => \E k \in 1..Len(r) : g[k] = i
          BY <1>1 DEF Leaves
      <3> QED
          BY <3>1, <3>2 DEF Leaves
    <2> QED
        BY <2>1, <2>2
  <1>2. CASE seq[n + 1] \in S
    <2> DEFINE h == [k \in 1..(Len(r) + 1) |-> IF k <= Len(r) THEN g[k] ELSE n + 1]
    <2>1. s = Append(r, seq[n + 1])
        BY <1>2 DEF SiftTurn
    <2> HIDE DEF s
    <2>2. /\ s \in Seq(X) /\ Len(s) = Len(r) + 1 /\ s[Len(r) + 1] = seq[n + 1]
          /\ \A k \in 1..Len(r) : s[k] = r[k]
        BY <1>0, <2>1, AppendProperties
    <2>a. \A k \in 1..Len(r) : g[k] \in 1..n
        BY DEF Leaves
    <2>b. \A k \in 1..Len(r) : h[k] = g[k]
        BY <1>0
    <2>c. h[Len(r) + 1] = n + 1
        BY <1>0
    <2>3. /\ \A k \in 1..Len(r) : h[k] = g[k] /\ g[k] \in 1..n
          /\ h[Len(r) + 1] = n + 1
        BY <2>a, <2>b, <2>c
    <2>4. h \in [1..Len(s) -> 1..(n + 1)]
        BY <1>0, <2>2 DEF Leaves
    <2> HIDE DEF h
    <2>5. \A k \in 1..Len(s) : k \in 1..Len(r) \/ k = Len(r) + 1
        BY <1>0, <2>2
    <2>6. \A k \in 1..Len(s) : s[k] = seq[h[k]] /\ seq[h[k]] \in S
        BY <1>2, <2>2, <2>3, <2>5 DEF Leaves
    <2>7. \A k, l \in 1..Len(s) : k < l => h[k] < h[l]
      <3> TAKE k, l \in 1..Len(s)
      <3> HAVE k < l
      <3>1. k \in 1..Len(r)
          BY <1>0, <2>2
      <3>2. CASE l \in 1..Len(r)
          BY <2>3, <3>1, <3>2 DEF Leaves
      <3>3. CASE l = Len(r) + 1
          BY <2>3, <3>1, <3>3
      <3> QED
          BY <2>5, <3>2, <3>3
    <2>8. \A i \in 1..(n + 1) : seq[i] \in S => \E k \in 1..Len(s) : h[k] = i
      <3> TAKE i \in 1..(n + 1)
      <3> HAVE seq[i] \in S
      <3>1. CASE i = n + 1
          BY <1>0, <2>2, <2>3, <3>1
      <3>2. CASE i \in 1..n
        <4>1. PICK k \in 1..Len(r) : g[k] = i
            BY <3>2 DEF Leaves
        <4> QED
            BY <1>0, <2>2, <2>3, <4>1
      <3> QED
          BY <3>1, <3>2
    <2>9. Leaves(seq, S, n + 1, s, h)
        BY <2>4, <2>6, <2>7, <2>8 DEF Leaves
    <2> QED
        BY <2>2, <2>9 DEF s
  <1> QED
      BY <1>1, <1>2

(* What Sift returns.                                                       *)
LEMMA SiftLeaves ==
    ASSUME NEW X, NEW S, NEW seq \in Seq(X)
    PROVE  /\ Sift(seq, S) \in Seq(X)
           /\ \E g : Leaves(seq, S, Len(seq), Sift(seq, S), g)
  <1> DEFINE f == CHOOSE f : Sifts(seq, S, f, Len(seq))
             T == {n \in Nat : n <= Len(seq) => f[n] \in Seq(X) /\ \E g : Leaves(seq, S, n, f[n], g)}
  <1>1. Sifts(seq, S, f, Len(seq))
      BY SiftLoop
  <1>2. Sift(seq, S) = f[Len(seq)]
      BY DEF Sift, Sifts, SiftTurn
  <1>3. \A k \in 0..Len(seq) : f[k] = IF k = 0 THEN <<>> ELSE SiftTurn(seq, S, k, f[k - 1])
      BY <1>1 DEF Sifts
  <1> HIDE DEF f
  <1>4. 0 \in T
    <2>0. 0 \in 0..Len(seq)
        OBVIOUS
    <2>1. f[0] = <<>> /\ <<>> \in Seq(X) /\ Len(<<>>) = 0
        BY <1>3, <2>0
    <2>2. Leaves(seq, S, 0, <<>>, [k \in {} |-> 0])
        BY DEF Leaves
    <2> QED
        BY <2>1, <2>2
  <1>5. \A n \in Nat : n \in T => n + 1 \in T
    <2> DEFINE P(n) == f[n] \in Seq(X) /\ \E g : Leaves(seq, S, n, f[n], g)
    <2>1. ASSUME NEW n \in Nat, n \in T, n + 1 <= Len(seq) PROVE P(n + 1)
      <3>1. PICK g : f[n] \in Seq(X) /\ Leaves(seq, S, n, f[n], g)
          BY <2>1
      <3>2. f[n + 1] = SiftTurn(seq, S, n + 1, f[n])
          BY <1>3, <2>1
      <3> HIDE DEF T
      <3> QED
          BY ZenonT(40), <2>1, <3>1, <3>2, SiftTurnLeaves
    <2>2. \A n \in Nat : n \in T <=> (n <= Len(seq) => P(n))
        OBVIOUS
    <2> HIDE DEF P, T
    <2> QED
        BY <2>1, <2>2
  <1> HIDE DEF T
  <1>6. Len(seq) \in T
      BY <1>4, <1>5, Counting
  <1> QED
      BY <1>2, <1>6 DEF T

(* ... as a set, ...                                                        *)
LEMMA SiftSet ==
    ASSUME NEW X, NEW S, NEW seq \in Seq(X)
    PROVE  /\ Sift(seq, S) \in Seq(X)
           /\ ToSet(Sift(seq, S)) = ToSet(seq) \cap S
  <1> DEFINE r == Sift(seq, S)
  <1>1. PICK g : r \in Seq(X) /\ Leaves(seq, S, Len(seq), r, g)
      BY SiftLeaves
  <1>2. DOMAIN r = 1..Len(r) /\ DOMAIN seq = 1..Len(seq)
      BY <1>1
  <1> HIDE DEF r
  <1>3. ASSUME NEW k \in DOMAIN r PROVE r[k] \in ToSet(seq) \cap S
    <2>1. g[k] \in 1..Len(seq) /\ r[k] = seq[g[k]] /\ seq[g[k]] \in S
        BY <1>1, <1>2, <1>3 DEF Leaves
    <2> QED
        BY <1>2, <2>1 DEF ToSet
  <1>4. ASSUME NEW i \in DOMAIN seq, seq[i] \in S PROVE seq[i] \in ToSet(r)
    <2>1. PICK k \in 1..Len(r) : g[k] = i
        BY <1>1, <1>2, <1>4 DEF Leaves
    <2>2. r[k] = seq[i]
        BY <1>1, <2>1 DEF Leaves
    <2> QED
        BY <1>2, <2>2 DEF ToSet
  <1>5. ToSet(r) = ToSet(seq) \cap S
      BY <1>3, <1>4 DEF ToSet
  <1> QED
      BY <1>1, <1>5 DEF r

(* ... of items that no two share an id, ...                                *)
Distinct(items) == \A i, j \in DOMAIN items : items[i].id = items[j].id => i = j

LEMMA SiftDistinct ==
    ASSUME NEW X, NEW S, NEW seq \in Seq(X), Distinct(seq)
    PROVE  Distinct(Sift(seq, S))
  <1> DEFINE r == Sift(seq, S)
  <1>1. PICK g : r \in Seq(X) /\ Leaves(seq, S, Len(seq), r, g)
      BY SiftLeaves
  <1>2. DOMAIN r = 1..Len(r) /\ DOMAIN seq = 1..Len(seq) /\ Len(r) \in Nat /\ Len(seq) \in Nat
      BY <1>1
  <1> HIDE DEF r
  <1> SUFFICES ASSUME NEW k \in DOMAIN r, NEW l \in DOMAIN r, r[k].id = r[l].id PROVE k = l
      BY DEF Distinct, r
  <1>3. /\ r[k] = seq[g[k]] /\ r[l] = seq[g[l]] /\ g[k] \in DOMAIN seq /\ g[l] \in DOMAIN seq
        /\ k < l => g[k] < g[l]
        /\ l < k => g[l] < g[k]
      BY <1>1, <1>2 DEF Leaves
  <1>4. g[k] = g[l]
      BY <1>3 DEF Distinct
  <1>5. ~(g[k] < g[l]) /\ ~(g[l] < g[k])
      BY <1>2, <1>3, <1>4
  <1> QED
      BY <1>2, <1>3, <1>5

(* ... and of the items without some ids.                                   *)
LEMMA WithoutSet ==
    ASSUME NEW X, NEW ids, NEW seq \in Seq(X)
    PROVE  /\ Without(seq, ids) \in Seq(X)
           /\ ToSet(Without(seq, ids)) = {x \in ToSet(seq) : x.id \notin ids}
           /\ Ids(Without(seq, ids)) = Ids(seq) \ ids
           /\ Distinct(seq) => Distinct(Without(seq, ids))
  <1> DEFINE S == {x \in ToSet(seq) : x.id \notin ids}
  <1>1. Without(seq, ids) \in Seq(X) /\ ToSet(Without(seq, ids)) = ToSet(seq) \cap S
      BY SiftSet DEF Without
  <1>2. Distinct(seq) => Distinct(Without(seq, ids))
      BY SiftDistinct DEF Without
  <1>3. Ids(Without(seq, ids)) = Ids(seq) \ ids
      BY <1>1 DEF Ids
  <1> QED
      BY <1>1, <1>2, <1>3

-----------------------------------------------------------------------------
(* Sequences as sets of their items                                         *)

LEMMA ConcatSet ==
    ASSUME NEW X, NEW a \in Seq(X), NEW b \in Seq(X)
    PROVE  /\ a \o b \in Seq(X)
           /\ ToSet(a \o b) = ToSet(a) \cup ToSet(b)
           /\ Ids(a \o b) = Ids(a) \cup Ids(b)
  <1> DEFINE c == a \o b
  <1>1. /\ c \in Seq(X) /\ Len(c) = Len(a) + Len(b) /\ Len(a) \in Nat /\ Len(b) \in Nat
        /\ \A i \in 1..Len(c) : c[i] = IF i <= Len(a) THEN a[i] ELSE b[i - Len(a)]
      BY ConcatProperties
  <1> HIDE DEF c
  <1>2. DOMAIN a = 1..Len(a) /\ DOMAIN b = 1..Len(b) /\ DOMAIN c = 1..Len(c)
      BY <1>1
  <1>3. ASSUME NEW i \in 1..Len(c) PROVE c[i] \in ToSet(a) \cup ToSet(b)
    <2>1. CASE i <= Len(a)
        BY <1>1, <1>2, <2>1 DEF ToSet
    <2>2. CASE ~(i <= Len(a))
      <3>1. i - Len(a) \in 1..Len(b)
          BY <1>1, <2>2
      <3> QED
          BY <1>1, <1>2, <2>2, <3>1 DEF ToSet
    <2> QED
        BY <2>1, <2>2
  <1>4. ASSUME NEW i \in 1..Len(a) PROVE a[i] \in ToSet(c)
    <2>1. i \in 1..Len(c) /\ c[i] = a[i]
        BY <1>1
    <2> QED
        BY <1>2, <2>1 DEF ToSet
  <1>5. ASSUME NEW i \in 1..Len(b) PROVE b[i] \in ToSet(c)
    <2>1. i + Len(a) \in 1..Len(c) /\ ~(i + Len(a) <= Len(a)) /\ i + Len(a) - Len(a) = i
        BY <1>1
    <2>2. c[i + Len(a)] = b[i]
        BY <1>1, <2>1
    <2> QED
        BY <1>2, <2>1, <2>2 DEF ToSet
  <1>6. ToSet(c) = ToSet(a) \cup ToSet(b)
      BY <1>2, <1>3, <1>4, <1>5 DEF ToSet
  <1>7. Ids(c) = Ids(a) \cup Ids(b)
      BY <1>6 DEF Ids
  <1> QED
      BY <1>1, <1>6, <1>7 DEF c

LEMMA AppendSet ==
    ASSUME NEW X, NEW a \in Seq(X), NEW x \in X
    PROVE  /\ Append(a, x) \in Seq(X)
           /\ ToSet(Append(a, x)) = ToSet(a) \cup {x}
           /\ Ids(Append(a, x)) = Ids(a) \cup {x.id}
           /\ Distinct(a) /\ x.id \notin Ids(a) => Distinct(Append(a, x))
  <1> DEFINE c == Append(a, x)
  <1>1. /\ c \in Seq(X) /\ Len(c) = Len(a) + 1 /\ Len(a) \in Nat /\ c[Len(a) + 1] = x
        /\ \A i \in 1..Len(a) : c[i] = a[i]
      BY AppendProperties
  <1> HIDE DEF c
  <1>2. DOMAIN a = 1..Len(a) /\ DOMAIN c = 1..Len(c)
      BY <1>1
  <1>3. \A i \in 1..Len(c) : i \in 1..Len(a) \/ i = Len(a) + 1
      BY <1>1
  <1>4. 1..Len(a) \subseteq 1..Len(c) /\ Len(a) + 1 \in 1..Len(c)
      BY <1>1
  <1>5. ToSet(c) = ToSet(a) \cup {x}
      BY <1>1, <1>2, <1>3, <1>4 DEF ToSet
  <1>6. Ids(c) = Ids(a) \cup {x.id}
      BY <1>5 DEF Ids
  <1>7. ASSUME Distinct(a), x.id \notin Ids(a), NEW i \in DOMAIN c, NEW j \in DOMAIN c, c[i].id = c[j].id
        PROVE  i = j
    <2>1. \A k \in DOMAIN a : a[k].id # x.id
        BY <1>7 DEF Ids, ToSet
    <2> QED
        BY <1>1, <1>2, <1>3, <1>7, <2>1 DEF Distinct
  <1> QED
      BY <1>1, <1>5, <1>6, <1>7 DEF c, Distinct

LEMMA ConcatDistinct ==
    ASSUME NEW X, NEW a \in Seq(X), NEW b \in Seq(X), Distinct(a), Distinct(b),
           Ids(a) \cap Ids(b) = {}
    PROVE  Distinct(a \o b)
  <1> DEFINE c == a \o b
  <1>1. /\ c \in Seq(X) /\ Len(c) = Len(a) + Len(b) /\ Len(a) \in Nat /\ Len(b) \in Nat
        /\ \A i \in 1..Len(c) : c[i] = IF i <= Len(a) THEN a[i] ELSE b[i - Len(a)]
      BY ConcatProperties
  <1>2. DOMAIN a = 1..Len(a) /\ DOMAIN b = 1..Len(b) /\ DOMAIN c = 1..Len(c)
      BY <1>1
  <1> HIDE DEF c
  <1>3. \A i \in DOMAIN a, j \in DOMAIN b : a[i].id # b[j].id
      BY DEF Ids, ToSet
  <1> SUFFICES ASSUME NEW i \in DOMAIN c, NEW j \in DOMAIN c, c[i].id = c[j].id PROVE i = j
      BY DEF Distinct, c
  <1>4. /\ i <= Len(a) => i \in DOMAIN a /\ c[i] = a[i]
        /\ ~(i <= Len(a)) => i - Len(a) \in DOMAIN b /\ c[i] = b[i - Len(a)]
      BY <1>1, <1>2
  <1>5. /\ j <= Len(a) => j \in DOMAIN a /\ c[j] = a[j]
        /\ ~(j <= Len(a)) => j - Len(a) \in DOMAIN b /\ c[j] = b[j - Len(a)]
      BY <1>1, <1>2
  <1>6. CASE i <= Len(a) /\ j <= Len(a)
      BY <1>4, <1>5, <1>6 DEF Distinct
  <1>7. CASE ~(i <= Len(a)) /\ ~(j <= Len(a))
    <2>1. i - Len(a) = j - Len(a)
        BY <1>4, <1>5, <1>7 DEF Distinct
    <2> QED
        BY <1>1, <1>2, <2>1
  <1>8. i <= Len(a) <=> j <= Len(a)
      BY <1>3, <1>4, <1>5
  <1> QED
      BY <1>6, <1>7, <1>8

-----------------------------------------------------------------------------
(* The first item, and the categories of a taxonomy                         *)

FirstIn(seq, S) ==
  {seq[i] : i \in {k \in DOMAIN seq : seq[k] \in S /\ \A j \in 1..(k - 1) : seq[j] \notin S}}

LEMMA FirstIs ==
    ASSUME NEW X, NEW seq \in Seq(X), NEW S
    PROVE  /\ FirstIn(seq, S) \subseteq ToSet(seq) \cap S
           /\ FirstIn(seq, S) = {} <=> ToSet(seq) \cap S = {}
           /\ \A x, y \in FirstIn(seq, S) : x = y
  <1> DEFINE I == {i \in DOMAIN seq : seq[i] \in S}
             F == {k \in DOMAIN seq : seq[k] \in S /\ \A j \in 1..(k - 1) : seq[j] \notin S}
  <1>1. DOMAIN seq = 1..Len(seq) /\ Len(seq) \in Nat
      OBVIOUS
  <1>2. FirstIn(seq, S) \subseteq ToSet(seq) \cap S
      BY DEF FirstIn, ToSet
  <1>3. ASSUME I # {} PROVE FirstIn(seq, S) # {}
    <2>0. I \subseteq Nat
        BY <1>1
    <2>1. PICK i \in I : \A j \in I : i <= j
      <3> HIDE DEF I
      <3> QED
          BY <1>3, <2>0, LeastOne
    <2>2. ASSUME NEW j \in 1..(i - 1) PROVE seq[j] \notin S
      <3>1. j \in DOMAIN seq /\ i \in Nat /\ ~(i <= j)
          BY <1>1
      <3> QED
          BY <2>1, <3>1
    <2> QED
        BY <2>2 DEF FirstIn
  <1>4. I = {} <=> ToSet(seq) \cap S = {}
      BY DEF ToSet
  <1>5. ASSUME NEW k \in F, NEW l \in F PROVE k = l
    <2>1. k \in 1..Len(seq) /\ l \in 1..Len(seq) /\ seq[k] \in S /\ seq[l] \in S
        BY <1>1
    <2>2. ~(l \in 1..(k - 1)) /\ ~(k \in 1..(l - 1))
        BY <2>1
    <2> QED
        BY <1>1, <2>1, <2>2
  <1>6. FirstIn(seq, S) = {seq[i] : i \in F}
      BY DEF FirstIn
  <1>7. \A x, y \in FirstIn(seq, S) : x = y
    <2> HIDE DEF F
    <2> QED
        BY <1>5, <1>6
  <1>8. I = {} => FirstIn(seq, S) = {}
      BY <1>2, <1>4
  <1> QED
      BY <1>2, <1>3, <1>4, <1>7, <1>8

Taxonomy == Seq(CategoryItem)

LEMMA CategoryIs ==
    ASSUME NEW config \in Taxonomy, NEW id
    PROVE  /\ Category(config, id) \subseteq {c \in ToSet(config) : c.id = id}
           /\ id \in Ids(config) <=> Category(config, id) # {}
  <1> DEFINE S == {c \in ToSet(config) : c.id = id}
  <1>1. DOMAIN config = 1..Len(config) /\ Len(config) \in Nat
      BY DEF Taxonomy
  <1>2. Category(config, id) = FirstIn(config, S)
    <2>1. \A k \in DOMAIN config : config[k] \in S <=> config[k].id = id
        BY DEF ToSet
    <2>2. \A k \in DOMAIN config : \A j \in 1..(k - 1) : j \in DOMAIN config
        BY <1>1
    <2> QED
        BY <2>1, <2>2 DEF Category, FirstOf, FirstIn
  <1>3. /\ FirstIn(config, S) \subseteq ToSet(config) \cap S
        /\ FirstIn(config, S) = {} <=> ToSet(config) \cap S = {}
      BY FirstIs DEF Taxonomy
  <1> QED
      BY <1>2, <1>3 DEF Ids

LEMMA SubsOfAre ==
    ASSUME NEW config \in Taxonomy, NEW id \in Ids(config)
    PROVE  /\ \E c \in ToSet(config) : c.id = id /\ SubsOf(config, id) = c.subs
           /\ SubsOf(config, id) \in Seq(SubcategoryItem)
           /\ Distinct(config) =>
                \A c \in ToSet(config) : c.id = id => SubsOf(config, id) = c.subs
  <1> DEFINE d == CHOOSE c \in Category(config, id) : TRUE
  <1>1. d \in ToSet(config) /\ d.id = id
    <2>1. Category(config, id) # {} /\ Category(config, id) \subseteq {c \in ToSet(config) : c.id = id}
        BY CategoryIs
    <2>2. d \in Category(config, id)
        BY <2>1
    <2> QED
        BY <2>1, <2>2
  <1>2. SubsOf(config, id) = d.subs
      BY DEF SubsOf
  <1> HIDE DEF d
  <1>3. d \in CategoryItem
      BY <1>1 DEF Taxonomy, ToSet
  <1>4. ASSUME Distinct(config), NEW c \in ToSet(config), c.id = id PROVE c = d
      BY <1>1, <1>4 DEF Distinct, ToSet
  <1> QED
      BY <1>1, <1>2, <1>3, <1>4 DEF CategoryItem

(* Categories, with "", and the subcategories with a valid name.            *)
Names(c) == {""} \cup (Ids(c.subs) \ Forbidden)
Entries(config) == UNION {{<<c.id, s>> : s \in Names(c)} : c \in ToSet(config)}

LEMMA EntriesAre ==
    ASSUME NEW config, NEW cat, NEW sub
    PROVE  <<cat, sub>> \in Entries(config) <=> \E c \in ToSet(config) : c.id = cat /\ sub \in Names(c)
  <1>1. ASSUME <<cat, sub>> \in Entries(config)
        PROVE  \E c \in ToSet(config) : c.id = cat /\ sub \in Names(c)
    <2>1. PICK c \in ToSet(config) : <<cat, sub>> \in {<<c.id, s>> : s \in Names(c)}
        BY <1>1 DEF Entries
    <2>2. PICK s \in Names(c) : <<cat, sub>> = <<c.id, s>>
        BY <2>1
    <2> QED
        BY <2>2
  <1>2. ASSUME NEW c \in ToSet(config), c.id = cat, sub \in Names(c)
        PROVE  <<cat, sub>> \in Entries(config)
    <2>1. <<cat, sub>> \in {<<c.id, s>> : s \in Names(c)}
        BY <1>2
    <2> QED
        BY <2>1 DEF Entries
  <1> QED
      BY <1>1, <1>2

LEMMA EntriesSubset ==
    ASSUME NEW config, NEW T, \A cat, sub : <<cat, sub>> \in Entries(config) => <<cat, sub>> \in T
    PROVE  Entries(config) \subseteq T
  <1> SUFFICES ASSUME NEW e \in Entries(config) PROVE e \in T
      OBVIOUS
  <1>1. PICK c \in ToSet(config) : e \in {<<c.id, s>> : s \in Names(c)}
      BY DEF Entries
  <1>2. PICK s \in Names(c) : e = <<c.id, s>>
      BY <1>1
  <1>3. <<c.id, s>> \in Entries(config)
      BY <1>2, EntriesAre
  <1> QED
      BY <1>2, <1>3

(* What an item is, and what it still is when its subcategories change.     *)
LEMMA ItemIs ==
    ASSUME NEW c \in CategoryItem, NEW subs \in Seq(SubcategoryItem)
    PROVE  /\ c.id \in Slug /\ c.aliases \subseteq Slug /\ c.subs \in Seq(SubcategoryItem)
           /\ [c EXCEPT !.subs = subs] \in CategoryItem
           /\ [c EXCEPT !.subs = subs].id = c.id
           /\ [c EXCEPT !.subs = subs].aliases = c.aliases
           /\ [c EXCEPT !.subs = subs].subs = subs
  BY DEF CategoryItem

(* A taxonomy that is changed category by category.                         *)
LEMMA MappedIs ==
    ASSUME NEW config \in Taxonomy, NEW new \in [DOMAIN config -> CategoryItem],
           \A i \in DOMAIN config : new[i].id = config[i].id
    PROVE  /\ new \in Taxonomy /\ Len(new) = Len(config)
           /\ Ids(new) = Ids(config)
           /\ Distinct(config) => Distinct(new)
  <1> USE DEF Taxonomy
  <1>1. DOMAIN config = 1..Len(config) /\ Len(config) \in Nat
      OBVIOUS
  <1>2. Ids(new) = Ids(config)
      BY DEF Ids, ToSet
  <1>3. Distinct(config) => Distinct(new)
      BY DEF Distinct
  <1> QED
      BY <1>1, <1>2, <1>3

-----------------------------------------------------------------------------
(* What is read back of what was saved                                      *)

MergedItem(c, over) ==
  IF c.id \in Ids(over) THEN [c EXCEPT !.subs = MergedSubs(@, SubsOf(over, c.id))] ELSE c

LEMMA MergedItemIs ==
    ASSUME NEW c \in CategoryItem, NEW over \in Taxonomy, NEW m, m = MergedItem(c, over)
    PROVE  /\ m \in CategoryItem /\ m.id = c.id
           /\ c.id \in Ids(over) => Names(m) = Names(c) \cup (Ids(SubsOf(over, c.id)) \ Forbidden)
           /\ c.id \notin Ids(over) => m = c
  <1>1. CASE c.id \notin Ids(over)
      BY <1>1 DEF MergedItem
  <1>2. CASE c.id \in Ids(over)
    <2> DEFINE new == SubsOf(over, c.id)
               subs == MergedSubs(c.subs, new)
    <2>1. m = [c EXCEPT !.subs = subs]
        BY <1>2 DEF MergedItem
    <2>2. new \in Seq(SubcategoryItem) /\ c.subs \in Seq(SubcategoryItem)
        BY <1>2, SubsOfAre DEF CategoryItem
    <2> HIDE DEF new
    <2>3. Without(new, Ids(c.subs)) \in Seq(SubcategoryItem) /\ Ids(Without(new, Ids(c.subs))) = Ids(new) \ Ids(c.subs)
        BY <2>2, WithoutSet
    <2>4. subs \in Seq(SubcategoryItem) /\ Ids(subs) = Ids(c.subs) \cup Ids(new)
        BY <2>2, <2>3, ConcatSet DEF MergedSubs
    <2> HIDE DEF subs
    <2>5. m \in CategoryItem /\ m.id = c.id /\ m.subs = subs
        BY <2>1, <2>4, ItemIs
    <2> QED
        BY <1>2, <2>4, <2>5 DEF Names, new
  <1> QED
      BY <1>1, <1>2

LEMMA MergedIs ==
    ASSUME NEW base \in Taxonomy, NEW over \in Taxonomy, Distinct(base), Distinct(over),
           NEW m, m = MergeCategories(base, over)
    PROVE  /\ m \in Taxonomy /\ Distinct(m)
           /\ Ids(m) = Ids(base) \cup Ids(over)
           /\ Entries(m) = Entries(base) \cup Entries(over)
  <1> DEFINE head == [i \in DOMAIN base |-> MergedItem(base[i], over)]
             tail == Without(over, Ids(base))
  <1>0. m = head \o tail
      BY DEF MergeCategories, MergedItem
  <1>a. \A i \in DOMAIN base : base[i] \in CategoryItem /\ base[i] \in ToSet(base)
      BY DEF Taxonomy, ToSet
  <1>b. \A i \in DOMAIN base : head[i] \in CategoryItem /\ head[i].id = base[i].id
      BY <1>a, MergedItemIs
  <1>1. head \in Taxonomy /\ Ids(head) = Ids(base) /\ Distinct(head)
    <2>1. head \in [DOMAIN base -> CategoryItem]
        BY <1>b
    <2> HIDE DEF head
    <2> QED
        BY <1>b, <2>1, MappedIs
  <1>2. /\ tail \in Taxonomy /\ Distinct(tail) /\ Ids(tail) = Ids(over) \ Ids(base)
        /\ ToSet(tail) = {x \in ToSet(over) : x.id \notin Ids(base)}
      BY WithoutSet DEF Taxonomy
  <1>3. /\ m \in Taxonomy /\ Ids(m) = Ids(base) \cup Ids(over)
        /\ ToSet(m) = ToSet(head) \cup ToSet(tail)
    <2> HIDE DEF head, tail
    <2> QED
        BY <1>0, <1>1, <1>2, ConcatSet DEF Taxonomy
  <1>4. Distinct(m)
    <2> HIDE DEF head, tail
    <2> QED
        BY <1>0, <1>1, <1>2, ConcatDistinct DEF Taxonomy
  <1>5. ASSUME NEW cat, NEW sub, <<cat, sub>> \in Entries(m)
        PROVE  <<cat, sub>> \in Entries(base) \cup Entries(over)
    <2>1. PICK c \in ToSet(m) : c.id = cat /\ sub \in Names(c)
        BY <1>5, EntriesAre
    <2>2. CASE c \in ToSet(tail)
        BY <1>2, <2>1, <2>2, EntriesAre
    <2>3. CASE c \in ToSet(head)
      <3>1. PICK i \in DOMAIN base : c = MergedItem(base[i], over)
          BY <2>3 DEF ToSet
      <3>2. CASE base[i].id \notin Ids(over)
          BY <1>a, <2>1, <3>1, <3>2, EntriesAre DEF MergedItem
      <3>3. CASE base[i].id \in Ids(over)
        <4>1. c.id = base[i].id /\ Names(c) = Names(base[i]) \cup (Ids(SubsOf(over, base[i].id)) \ Forbidden)
            BY <1>a, <3>1, <3>3, MergedItemIs
        <4>2. PICK o \in ToSet(over) : o.id = base[i].id /\ SubsOf(over, base[i].id) = o.subs
            BY <3>3, SubsOfAre
        <4>3. sub \in Names(base[i]) \/ sub \in Names(o)
            BY <2>1, <4>1, <4>2 DEF Names
        <4> QED
            BY <1>a, <2>1, <4>1, <4>2, <4>3, EntriesAre
      <3> QED
          BY <3>2, <3>3
    <2> QED
        BY <1>3, <2>1, <2>2, <2>3
  <1>6. ASSUME NEW cat, NEW sub, <<cat, sub>> \in Entries(base)
        PROVE  <<cat, sub>> \in Entries(m)
    <2>1. PICK i \in DOMAIN base : base[i].id = cat /\ sub \in Names(base[i])
      <3>1. PICK c \in ToSet(base) : c.id = cat /\ sub \in Names(c)
          BY <1>6, EntriesAre
      <3> QED
          BY <3>1 DEF ToSet
    <2>2. head[i].id = cat /\ Names(base[i]) \subseteq Names(head[i])
        BY <1>a, <2>1, MergedItemIs
    <2>3. head[i] \in ToSet(m)
        BY <1>3 DEF ToSet
    <2> HIDE DEF head
    <2> QED
        BY <2>1, <2>2, <2>3, EntriesAre
  <1>7. ASSUME NEW cat, NEW sub, <<cat, sub>> \in Entries(over)
        PROVE  <<cat, sub>> \in Entries(m)
    <2>1. PICK o \in ToSet(over) : o.id = cat /\ sub \in Names(o)
        BY <1>7, EntriesAre
    <2>2. CASE cat \notin Ids(base)
        BY <1>2, <1>3, <2>1, <2>2, EntriesAre
    <2>3. CASE cat \in Ids(base)
      <3>1. PICK i \in DOMAIN base : base[i].id = cat
          BY <2>3 DEF Ids, ToSet
      <3>2. cat \in Ids(over)
          BY <2>1 DEF Ids
      <3>3. SubsOf(over, cat) = o.subs
          BY <2>1, <3>2, SubsOfAre
      <3>4. head[i].id = cat /\ Names(head[i]) = Names(base[i]) \cup (Ids(o.subs) \ Forbidden)
          BY <1>a, <3>1, <3>2, <3>3, MergedItemIs
      <3>5. head[i] \in ToSet(m)
          BY <1>3 DEF ToSet
      <3>6. sub \in Names(head[i])
          BY <2>1, <3>4 DEF Names
      <3> HIDE DEF head
      <3> QED
          BY <3>4, <3>5, <3>6, EntriesAre
    <2> QED
        BY <2>2, <2>3
  <1>8. Entries(m) = Entries(base) \cup Entries(over)
    <2>1. Entries(m) \subseteq Entries(base) \cup Entries(over)
        BY <1>5, EntriesSubset
    <2>2. Entries(base) \subseteq Entries(m)
        BY <1>6, EntriesSubset
    <2>3. Entries(over) \subseteq Entries(m)
        BY <1>7, EntriesSubset
    <2> QED
        BY <2>1, <2>2, <2>3
  <1> QED
      BY <1>3, <1>4, <1>8

LEMMA StrippedIs ==
    ASSUME NEW config \in Taxonomy, NEW m, m = Stripped(config)
    PROVE  /\ m \in Taxonomy /\ Ids(m) = Ids(config)
           /\ Distinct(config) => Distinct(m)
           /\ Entries(m) = Entries(config)
           /\ \A c \in ToSet(m) : Ids(c.subs) \cap Forbidden = {}
           /\ DOMAIN m = DOMAIN config
           /\ \A i \in DOMAIN config : m[i].id = config[i].id /\ m[i].subs = Without(config[i].subs, Forbidden)
  <1>a. \A i \in DOMAIN config : config[i] \in CategoryItem /\ config[i] \in ToSet(config)
      BY DEF Taxonomy, ToSet
  <1>1. ASSUME NEW i \in DOMAIN config
        PROVE  /\ m[i] \in CategoryItem /\ m[i].id = config[i].id
               /\ m[i].subs = Without(config[i].subs, Forbidden)
               /\ Names(m[i]) = Names(config[i])
               /\ Ids(m[i].subs) \cap Forbidden = {}
    <2> DEFINE subs == Without(config[i].subs, Forbidden)
    <2>1. m[i] = [config[i] EXCEPT !.subs = subs]
        BY DEF Stripped
    <2>2. subs \in Seq(SubcategoryItem) /\ Ids(subs) = Ids(config[i].subs) \ Forbidden
        BY <1>a, WithoutSet DEF CategoryItem
    <2> HIDE DEF subs
    <2>3. m[i] \in CategoryItem /\ m[i].id = config[i].id /\ m[i].subs = subs
        BY <1>a, <2>1, <2>2, ItemIs
    <2> QED
        BY <2>2, <2>3 DEF Names, subs
  <1>2. DOMAIN m = DOMAIN config /\ m \in [DOMAIN config -> CategoryItem]
      BY <1>1 DEF Stripped
  <1>3. m \in Taxonomy /\ Ids(m) = Ids(config) /\ (Distinct(config) => Distinct(m))
      BY <1>1, <1>2, MappedIs
  <1>4. \A c \in ToSet(m) : Ids(c.subs) \cap Forbidden = {}
      BY <1>1, <1>2 DEF ToSet
  <1>5. ASSUME NEW cat, NEW sub
        PROVE  <<cat, sub>> \in Entries(m) <=> <<cat, sub>> \in Entries(config)
    <2>1. <<cat, sub>> \in Entries(m) <=> \E i \in DOMAIN m : m[i].id = cat /\ sub \in Names(m[i])
        BY EntriesAre DEF ToSet
    <2>2. <<cat, sub>> \in Entries(config) <=> \E i \in DOMAIN config : config[i].id = cat /\ sub \in Names(config[i])
        BY EntriesAre DEF ToSet
    <2> QED
        BY <1>1, <1>2, <2>1, <2>2
  <1>6. Entries(m) = Entries(config)
    <2>1. Entries(m) \subseteq Entries(config)
        BY <1>5, EntriesSubset
    <2>2. Entries(config) \subseteq Entries(m)
        BY <1>5, EntriesSubset
    <2> QED
        BY <2>1, <2>2
  <1> QED
      BY <1>1, <1>2, <1>3, <1>4, <1>6

DiffItem(c) ==
  IF c.id \in Ids(PublicTaxonomy)
  THEN [c EXCEPT !.subs = Without(@, Ids(SubsOf(PublicTaxonomy, c.id)))] ELSE c

(* The save drops what is public and nothing else.                          *)
LEMMA DiffIs ==
    ASSUME NEW config \in Taxonomy, Distinct(config), NEW d, d = PrivateDiff(config)
    PROVE  /\ d \in Taxonomy /\ Distinct(d) /\ Ids(d) \subseteq Ids(config)
           /\ Entries(PublicTaxonomy) \cup Entries(d) = Entries(PublicTaxonomy) \cup Entries(config)
  <1> DEFINE all == [i \in DOMAIN config |-> DiffItem(config[i])]
             S == {c \in ToSet(all) : c.id \notin Ids(PublicTaxonomy) \/ c.subs # <<>>}
  <1>0. d = Sift(all, S)
      BY DEF PrivateDiff, DiffItem
  <1>p. PublicTaxonomy \in Taxonomy /\ Distinct(PublicTaxonomy)
      BY TaxonomyAssumption DEF Taxonomy, Distinct
  <1>a. \A i \in DOMAIN config : config[i] \in CategoryItem /\ config[i] \in ToSet(config)
      BY DEF Taxonomy, ToSet
  <1>1. ASSUME NEW i \in DOMAIN config
        PROVE  /\ all[i] \in CategoryItem /\ all[i].id = config[i].id
               /\ Names(all[i]) \subseteq Names(config[i])
               /\ config[i].id \notin Ids(PublicTaxonomy) => all[i] = config[i]
               /\ config[i].id \in Ids(PublicTaxonomy) =>
                    Ids(all[i].subs) = Ids(config[i].subs) \ Ids(SubsOf(PublicTaxonomy, config[i].id))
    <2>1. CASE config[i].id \notin Ids(PublicTaxonomy)
        BY <1>a, <2>1 DEF DiffItem
    <2>2. CASE config[i].id \in Ids(PublicTaxonomy)
      <3> DEFINE subs == Without(config[i].subs, Ids(SubsOf(PublicTaxonomy, config[i].id)))
      <3>1. all[i] = [config[i] EXCEPT !.subs = subs]
          BY <2>2 DEF DiffItem
      <3>2. /\ subs \in Seq(SubcategoryItem)
            /\ Ids(subs) = Ids(config[i].subs) \ Ids(SubsOf(PublicTaxonomy, config[i].id))
          BY <1>a, WithoutSet DEF CategoryItem
      <3> HIDE DEF subs, all
      <3>3. all[i] \in CategoryItem /\ all[i].id = config[i].id /\ all[i].subs = subs
          BY <1>a, <3>1, <3>2, ItemIs
      <3> QED
          BY <2>2, <3>2, <3>3 DEF Names
    <2> QED
        BY <2>1, <2>2
  <1>2. all \in Taxonomy /\ Ids(all) = Ids(config) /\ Distinct(all)
    <2>1. all \in [DOMAIN config -> CategoryItem]
        BY <1>1
    <2> HIDE DEF all
    <2> QED
        BY <1>1, <2>1, MappedIs
  <1>b. DOMAIN all = DOMAIN config
      OBVIOUS
  <1> HIDE DEF all
  <1>3. d \in Taxonomy /\ ToSet(d) = ToSet(all) \cap S
      BY <1>0, <1>2, SiftSet DEF Taxonomy
  <1>4. Distinct(d)
      BY <1>0, <1>2, SiftDistinct DEF Taxonomy
  <1>5. Ids(d) \subseteq Ids(config)
      BY <1>2, <1>3 DEF Ids
  <1>6. ASSUME NEW cat, NEW sub, <<cat, sub>> \in Entries(d)
        PROVE  <<cat, sub>> \in Entries(config)
    <2>1. PICK c \in ToSet(d) : c.id = cat /\ sub \in Names(c)
        BY <1>6, EntriesAre
    <2>2. PICK i \in DOMAIN config : c = all[i]
        BY <1>3, <1>b, <2>1 DEF ToSet
    <2> QED
        BY <1>a, <1>1, <2>1, <2>2, EntriesAre
  <1>7. ASSUME NEW cat, NEW sub, <<cat, sub>> \in Entries(config), <<cat, sub>> \notin Entries(PublicTaxonomy)
        PROVE  <<cat, sub>> \in Entries(d)
    <2>1. PICK i \in DOMAIN config : config[i].id = cat /\ sub \in Names(config[i])
      <3>1. PICK c \in ToSet(config) : c.id = cat /\ sub \in Names(c)
          BY <1>7, EntriesAre
      <3> QED
          BY <3>1 DEF ToSet
    <2>2. all[i] \in ToSet(all)
        BY <1>b DEF ToSet
    <2>3. CASE cat \notin Ids(PublicTaxonomy)
      <3>1. all[i] = config[i] /\ all[i] \in S
          BY <1>1, <2>1, <2>2, <2>3
      <3> QED
          BY <1>3, <2>1, <2>2, <3>1, EntriesAre
    <2>4. CASE cat \in Ids(PublicTaxonomy)
      <3>1. PICK p \in ToSet(PublicTaxonomy) : p.id = cat /\ SubsOf(PublicTaxonomy, cat) = p.subs
          BY <1>p, <2>4, SubsOfAre
      <3>2. sub \notin Names(p)
          BY <1>7, <3>1, EntriesAre
      <3>3. sub \in Ids(all[i].subs) /\ sub \notin Forbidden
          BY <1>1, <2>1, <2>4, <3>1, <3>2 DEF Names
      <3>4. all[i].subs # <<>>
          BY <3>3 DEF Ids, ToSet
      <3>5. all[i] \in ToSet(d) /\ all[i].id = cat /\ sub \in Names(all[i])
          BY <1>1, <1>3, <2>1, <2>2, <3>3, <3>4 DEF Names
      <3> QED
          BY <3>5, EntriesAre
    <2> QED
        BY <2>3, <2>4
  <1>8. Entries(d) \subseteq Entries(config)
      BY <1>6, EntriesSubset
  <1>9. Entries(config) \subseteq Entries(PublicTaxonomy) \cup Entries(d)
    <2>1. \A cat, sub : <<cat, sub>> \in Entries(config) =>
                         <<cat, sub>> \in Entries(PublicTaxonomy) \cup Entries(d)
        BY <1>7
    <2> QED
        BY <2>1, EntriesSubset
  <1> QED
      BY <1>3, <1>4, <1>5, <1>8, <1>9

(* What is read once a taxonomy has been saved: itself, and what is public. *)
LEMMA ReadBack ==
    ASSUME NEW config \in Taxonomy, Distinct(config), NEW m,
           m = Stripped(MergeCategories(PublicTaxonomy, PrivateDiff(config)))
    PROVE  /\ m \in Taxonomy /\ Distinct(m)
           /\ Entries(m) = Entries(PublicTaxonomy) \cup Entries(config)
  <1> DEFINE d == PrivateDiff(config)
             all == MergeCategories(PublicTaxonomy, d)
  <1>p. PublicTaxonomy \in Taxonomy /\ Distinct(PublicTaxonomy)
      BY TaxonomyAssumption DEF Taxonomy, Distinct
  <1>1. /\ d \in Taxonomy /\ Distinct(d)
        /\ Entries(PublicTaxonomy) \cup Entries(d) = Entries(PublicTaxonomy) \cup Entries(config)
      BY DiffIs
  <1> HIDE DEF d
  <1>2. all \in Taxonomy /\ Distinct(all) /\ Entries(all) = Entries(PublicTaxonomy) \cup Entries(d)
      BY <1>p, <1>1, MergedIs
  <1>3. m = Stripped(all)
      BY DEF d
  <1> HIDE DEF all
  <1> QED
      BY <1>1, <1>2, <1>3, StrippedIs

-----------------------------------------------------------------------------
(* The duplicate guard                                                      *)

LEMMA CandidatesAre ==
    ASSUME NEW config \in Taxonomy
    PROVE  /\ \A c \in Candidates(config) :
                /\ <<c.cat, c.sub>> \in Entries(config) /\ c.sub \notin Forbidden
                /\ c.at[1] \in Nat /\ c.at[2] \in Nat
           /\ \A cat, sub : sub # "" /\ <<cat, sub>> \in Entries(config) =>
                \E c \in Candidates(config) : c.cat = cat /\ c.sub = sub
  <1> DEFINE J(i) == {k \in DOMAIN config[i].subs : config[i].subs[k].id \notin Forbidden}
             Cand(i, j) == [cat |-> config[i].id, sub |-> config[i].subs[j].id,
                            aliases |-> config[i].subs[j].aliases, at |-> <<i, j>>]
  <1>0. \A c : c \in Candidates(config) <=> \E i \in DOMAIN config : \E j \in J(i) : c = Cand(i, j)
      BY DEF Candidates
  <1>1. \A i \in DOMAIN config : i \in Nat /\ config[i] \in ToSet(config) /\ config[i] \in CategoryItem
      BY DEF Taxonomy, ToSet
  <1>2. ASSUME NEW c \in Candidates(config)
        PROVE  /\ <<c.cat, c.sub>> \in Entries(config) /\ c.sub \notin Forbidden
               /\ c.at[1] \in Nat /\ c.at[2] \in Nat
    <2>1. PICK i \in DOMAIN config : \E j \in J(i) : c = Cand(i, j)
        BY <1>0
    <2>2. PICK j \in J(i) : c = Cand(i, j)
        BY <2>1
    <2>3. config[i].subs \in Seq(SubcategoryItem) /\ j \in DOMAIN config[i].subs /\ j \in Nat
        BY <1>1 DEF CategoryItem
    <2>4. c.cat = config[i].id /\ c.sub = config[i].subs[j].id /\ c.sub \notin Forbidden /\ c.at = <<i, j>>
        BY <2>2
    <2>5. c.sub \in Names(config[i])
        BY <2>3, <2>4 DEF Names, Ids, ToSet
    <2> QED
        BY <1>1, <2>3, <2>4, <2>5, EntriesAre
  <1>3. ASSUME NEW cat, NEW sub, sub # "", <<cat, sub>> \in Entries(config)
        PROVE  \E c \in Candidates(config) : c.cat = cat /\ c.sub = sub
    <2>1. PICK i \in DOMAIN config : config[i].id = cat /\ sub \in Names(config[i])
      <3>1. PICK c \in ToSet(config) : c.id = cat /\ sub \in Names(c)
          BY <1>3, EntriesAre
      <3> QED
          BY <3>1 DEF ToSet
    <2>2. PICK j \in DOMAIN config[i].subs : config[i].subs[j].id = sub /\ sub \notin Forbidden
        BY <1>3, <2>1 DEF Names, Ids, ToSet
    <2>3. Cand(i, j) \in Candidates(config)
        BY <1>0, <2>2
    <2> QED
        BY <2>1, <2>2, <2>3
  <1> QED
      BY <1>2, <1>3

LEMMA EarliestIs ==
    ASSUME NEW S, \A c \in S : c.at[1] \in Nat /\ c.at[2] \in Nat
    PROVE  Earliest(S) \subseteq S /\ (S # {} => Earliest(S) # {})
  <1>1. Earliest(S) \subseteq S
      BY DEF Earliest
  <1>2. ASSUME S # {} PROVE Earliest(S) # {}
    <2> DEFINE I == {c.at[1] : c \in S}
    <2>1. I \subseteq Nat /\ I # {}
        BY <1>2
    <2>2. PICK i \in I : \A k \in I : i <= k
      <3> HIDE DEF I
      <3> QED
          BY <2>1, LeastOne
    <2> DEFINE J == {c.at[2] : c \in {d \in S : d.at[1] = i}}
    <2>3. J \subseteq Nat /\ J # {}
        BY <2>1
    <2>4. PICK j \in J : \A k \in J : j <= k
      <3> HIDE DEF J
      <3> QED
          BY <2>3, LeastOne
    <2>5. PICK c \in S : c.at[1] = i /\ c.at[2] = j
        BY <2>4
    <2>6. ASSUME NEW d \in S
          PROVE  c.at[1] < d.at[1] \/ (c.at[1] = d.at[1] /\ c.at[2] <= d.at[2])
      <3>1. i <= d.at[1] /\ i \in Nat /\ d.at[1] \in Nat
          BY <2>1, <2>2
      <3>2. CASE d.at[1] = i
          BY <2>4, <2>5, <3>2
      <3> QED
          BY <2>5, <3>1, <3>2
    <2>7. c \in Earliest(S)
        BY <2>6 DEF Earliest
    <2> QED
        BY <2>7
  <1> QED
      BY <1>1, <1>2

(* A conflict names an entry; without one, nothing in another category is   *)
(* spelt like the slug, or something in its own category is as well.        *)
LEMMA SubcategoryConflicts ==
    ASSUME NEW config \in Taxonomy, NEW current, NEW slug,
           NEW found, found = FindSubcategoryConflict(config, current, slug)
    PROVE  /\ \A k \in found : <<k.cat, k.sub>> \in Entries(config) /\ k.sub \notin Forbidden
           /\ found = {} /\ slug \notin Forbidden =>
                \/ \A c \in Candidates(config) : Spelling[c.sub] # Spelling[slug]
                \/ \E c \in Candidates(config) : c.cat = current /\ Spelling[c.sub] = Spelling[slug]
  <1> DEFINE all == Candidates(config)
             spelt == {c \in all : Spelling[c.sub] = Spelling[slug]}
             exact == Earliest(spelt)
             alias == Earliest({c \in all : \E a \in c.aliases : Spelling[a] = Spelling[slug]})
             near  == BestOf({c \in all : Ratio(slug, c.sub) >= NearDuplicateThreshold},
                             LAMBDA c : Ratio(slug, c.sub))
             AliasRatio(c) == LET rs == {Ratio(slug, a) : a \in c.aliases \cap Comparable}
                              IN  IF rs = {} THEN 0 ELSE CHOOSE r \in rs : \A q \in rs : q <= r
             nearAlias == BestOf({c \in all : AliasRatio(c) >= NearDuplicateThreshold}, AliasRatio)
             other == IF slug \notin Comparable THEN {} ELSE IF near # {} THEN near ELSE nearAlias
             picked == CASE exact # {} -> {c \in exact : c.cat # current}
                         [] exact = {} /\ alias # {} -> alias
                         [] OTHER -> other
  <1>0. found = IF slug \in Forbidden THEN {} ELSE {[cat |-> c.cat, sub |-> c.sub] : c \in picked}
      BY DEF FindSubcategoryConflict
  <1>1. exact \subseteq all /\ alias \subseteq all
      BY DEF Earliest
  <1>2. near \subseteq all /\ nearAlias \subseteq all
      BY DEF Earliest, BestOf
  <1>3. other \subseteq all
      BY <1>2
  <1>e. spelt # {} => exact # {}
    <2>1. \A c \in spelt : c.at[1] \in Nat /\ c.at[2] \in Nat
        BY CandidatesAre
    <2> HIDE DEF spelt
    <2> QED
        BY <2>1, EarliestIs
  <1>x. exact \subseteq spelt
      BY DEF Earliest
  <1>s. spelt = {c \in all : Spelling[c.sub] = Spelling[slug]}
      OBVIOUS
  <1> HIDE DEF exact, alias, other, spelt
  <1>4. /\ exact # {} => picked = {c \in exact : c.cat # current}
        /\ exact = {} => picked = alias \/ picked = other
      OBVIOUS
  <1> HIDE DEF picked
  <1>5. picked \subseteq all
      BY <1>1, <1>3, <1>4
  <1>6. ASSUME NEW k \in found PROVE <<k.cat, k.sub>> \in Entries(config) /\ k.sub \notin Forbidden
    <2>1. PICK c \in picked : k = [cat |-> c.cat, sub |-> c.sub]
        BY <1>0
    <2>2. k.cat = c.cat /\ k.sub = c.sub /\ c \in all
        BY <1>5, <2>1
    <2> QED
        BY <2>2, CandidatesAre
  <1>7. ASSUME found = {}, slug \notin Forbidden, NEW d \in all, Spelling[d.sub] = Spelling[slug]
        PROVE  \E c \in all : c.cat = current /\ Spelling[c.sub] = Spelling[slug]
    <2>1. exact # {}
        BY <1>7, <1>e, <1>s
    <2>2. {c \in exact : c.cat # current} = {}
        BY <1>0, <1>4, <1>7, <2>1
    <2>3. PICK c \in exact : TRUE
        BY <2>1
    <2> QED
        BY <1>s, <1>x, <2>2, <2>3
  <1> QED
      BY <1>6, <1>7

LEMMA CategoryConflicts ==
    ASSUME NEW config \in Taxonomy, NEW slug, NEW found, found = FindCategoryConflict(config, slug)
    PROVE  \A k \in found : <<k.cat, k.sub>> \in Entries(config)
  <1> DEFINE Near(c) == /\ slug \in Comparable
                        /\ c.id \notin Forbidden
                        /\ Spelling[c.id] # Spelling[slug]
                        /\ Ratio(slug, c.id) >= NearDuplicateThreshold
             near == FirstOf(config, LAMBDA c :
                Near(c) /\ \A d \in ToSet(config) : Near(d) => Ratio(slug, d.id) <= Ratio(slug, c.id))
             entity == BestOf({c \in Candidates(config) : Ratio(slug, c.sub) >= NearDuplicateThreshold},
                              LAMBDA c : Ratio(slug, c.sub))
  <1>1. near \subseteq ToSet(config)
      BY DEF FirstOf, ToSet
  <1>2. entity \subseteq Candidates(config)
      BY DEF BestOf, Earliest
  <1>3. found = IF near # {} THEN {[cat |-> c.id, sub |-> ""] : c \in near}
                ELSE {[cat |-> c.cat, sub |-> c.sub] : c \in entity}
      BY DEF FindCategoryConflict
  <1> HIDE DEF near, entity
  <1> SUFFICES ASSUME NEW k \in found PROVE <<k.cat, k.sub>> \in Entries(config)
      OBVIOUS
  <1>4. CASE near # {}
    <2>1. PICK c \in near : k = [cat |-> c.id, sub |-> ""]
        BY <1>3, <1>4
    <2>2. c \in ToSet(config) /\ k.cat = c.id /\ k.sub = "" /\ "" \in Names(c)
        BY <1>1, <2>1 DEF Names
    <2> QED
        BY <2>2, EntriesAre
  <1>5. CASE near = {}
    <2>1. PICK c \in entity : k = [cat |-> c.cat, sub |-> c.sub]
        BY <1>3, <1>5
    <2>2. c \in Candidates(config) /\ k.cat = c.cat /\ k.sub = c.sub
        BY <1>2, <2>1
    <2> QED
        BY <2>2, CandidatesAre
  <1> QED
      BY <1>4, <1>5

-----------------------------------------------------------------------------
(* What the resolvers and the user's edits make of a taxonomy               *)

LEMMA IdsOfEntries ==
    ASSUME NEW config, NEW cat
    PROVE  /\ cat \in Ids(config) <=> <<cat, "">> \in Entries(config)
           /\ \A sub : <<cat, sub>> \in Entries(config) => cat \in Ids(config)
  BY EntriesAre DEF Ids, Names

NewCategory(slug) == [id |-> slug, aliases |-> {slug}, subs |-> <<>>]
NewSubcategory(slug) == [id |-> slug, aliases |-> {slug}]

(* A category that is appended.                                             *)
LEMMA AppendedCategory ==
    ASSUME NEW config \in Taxonomy, NEW slug \in Slug, slug \notin Ids(config), NEW new,
           new = Append(config, NewCategory(slug))
    PROVE  /\ new \in Taxonomy /\ (Distinct(config) => Distinct(new))
           /\ Ids(new) = Ids(config) \cup {slug}
           /\ Entries(new) = Entries(config) \cup {<<slug, "">>}
           /\ ToSet(config) \subseteq ToSet(new)
  <1> DEFINE c == NewCategory(slug)
  <1>1. c \in CategoryItem /\ c.id = slug /\ Names(c) = {""}
      BY DEF NewCategory, CategoryItem, Names, Ids, ToSet
  <1> HIDE DEF c
  <1>2. /\ new \in Taxonomy /\ ToSet(new) = ToSet(config) \cup {c} /\ Ids(new) = Ids(config) \cup {slug}
        /\ Distinct(config) => Distinct(new)
    <2>1. new = Append(config, c)
        BY DEF c
    <2>2. config \in Seq(CategoryItem)
        BY DEF Taxonomy
    <2>3. /\ Append(config, c) \in Seq(CategoryItem)
          /\ ToSet(Append(config, c)) = ToSet(config) \cup {c}
          /\ Ids(Append(config, c)) = Ids(config) \cup {c.id}
          /\ Distinct(config) /\ c.id \notin Ids(config) => Distinct(Append(config, c))
        BY <1>1, <2>2, AppendSet
    <2> QED
        BY <1>1, <2>1, <2>3 DEF Taxonomy
  <1>3. \A cat, sub : <<cat, sub>> \in Entries(new) =>
                        <<cat, sub>> \in Entries(config) \cup {<<slug, "">>}
    <2> SUFFICES ASSUME NEW cat, NEW sub, <<cat, sub>> \in Entries(new)
                 PROVE  <<cat, sub>> \in Entries(config) \/ (cat = slug /\ sub = "")
        OBVIOUS
    <2>1. PICK d \in ToSet(new) : d.id = cat /\ sub \in Names(d)
        BY EntriesAre
    <2> QED
        BY <1>1, <1>2, <2>1, EntriesAre
  <1>4. \A cat, sub : <<cat, sub>> \in Entries(config) => <<cat, sub>> \in Entries(new)
      BY <1>2, EntriesAre
  <1>5. <<slug, "">> \in Entries(new)
      BY <1>1, <1>2, EntriesAre
  <1>6. Entries(new) \subseteq Entries(config) \cup {<<slug, "">>}
      BY <1>3, EntriesSubset
  <1>7. Entries(config) \subseteq Entries(new)
      BY <1>4, EntriesSubset
  <1> QED
      BY <1>2, <1>5, <1>6, <1>7

(* A subcategory that is appended.                                          *)
LEMMA AppendedSubcategory ==
    ASSUME NEW config \in Taxonomy, NEW cat \in Ids(config), NEW slug \in Slug,
           NEW new, new = WithSub(config, cat, slug)
    PROVE  /\ new \in Taxonomy /\ (Distinct(config) => Distinct(new))
           /\ Ids(new) = Ids(config)
           /\ slug \in Forbidden => Entries(new) = Entries(config)
           /\ slug \notin Forbidden => Entries(new) = Entries(config) \cup {<<cat, slug>>}
           /\ DOMAIN new = DOMAIN config
           /\ \A i \in DOMAIN config :
                /\ new[i].id = config[i].id
                /\ config[i].id # cat => new[i].subs = config[i].subs
                /\ config[i].id = cat => new[i].subs = Append(config[i].subs, NewSubcategory(slug))
  <1> DEFINE s == NewSubcategory(slug)
  <1>a. \A i \in DOMAIN config : config[i] \in CategoryItem /\ config[i] \in ToSet(config)
      BY DEF Taxonomy, ToSet
  <1>s. s \in SubcategoryItem /\ s.id = slug
      BY DEF NewSubcategory, SubcategoryItem
  <1>1. ASSUME NEW i \in DOMAIN config
        PROVE  /\ new[i] \in CategoryItem /\ new[i].id = config[i].id
               /\ new[i].subs = IF config[i].id = cat THEN Append(config[i].subs, s) ELSE config[i].subs
               /\ Names(new[i]) = Names(config[i]) \cup
                    (IF config[i].id = cat /\ slug \notin Forbidden THEN {slug} ELSE {})
    <2>1. CASE config[i].id # cat
        BY <1>a, <2>1 DEF WithSub, NewSubcategory
    <2>2. CASE config[i].id = cat
      <3> DEFINE subs == Append(config[i].subs, s)
      <3>1. new[i] = [config[i] EXCEPT !.subs = subs]
          BY <2>2 DEF WithSub, NewSubcategory
      <3> HIDE DEF s
      <3>2. subs \in Seq(SubcategoryItem) /\ Ids(subs) = Ids(config[i].subs) \cup {slug}
        <4>1. config[i].subs \in Seq(SubcategoryItem)
            BY <1>a DEF CategoryItem
        <4> QED
            BY <1>s, <4>1, AppendSet
      <3> HIDE DEF subs
      <3>3. new[i] \in CategoryItem /\ new[i].id = config[i].id /\ new[i].subs = subs
          BY <1>a, <3>1, <3>2, ItemIs
      <3> QED
          BY <2>2, <3>2, <3>3 DEF Names, subs
    <2> QED
        BY <2>1, <2>2
  <1> HIDE DEF s
  <1>2. DOMAIN new = DOMAIN config /\ new \in [DOMAIN config -> CategoryItem]
      BY <1>1 DEF WithSub
  <1>3. new \in Taxonomy /\ Ids(new) = Ids(config) /\ (Distinct(config) => Distinct(new))
      BY <1>1, <1>2, MappedIs
  <1> DEFINE More == IF slug \in Forbidden THEN {} ELSE {<<cat, slug>>}
  <1>4. \A c, n : <<c, n>> \in Entries(new) => <<c, n>> \in Entries(config) \cup More
    <2> SUFFICES ASSUME NEW c, NEW n, <<c, n>> \in Entries(new), <<c, n>> \notin Entries(config)
                 PROVE  c = cat /\ n = slug /\ slug \notin Forbidden
        OBVIOUS
    <2>1. PICK d \in ToSet(new) : d.id = c /\ n \in Names(d)
        BY EntriesAre
    <2>2. PICK i \in DOMAIN config : d = new[i]
        BY <1>2, <2>1 DEF ToSet
    <2>3. n \notin Names(config[i])
        BY <1>a, <1>1, <2>1, <2>2, EntriesAre
    <2> QED
        BY <1>1, <2>1, <2>2, <2>3
  <1>5. \A c, n : <<c, n>> \in Entries(config) => <<c, n>> \in Entries(new)
    <2> SUFFICES ASSUME NEW c, NEW n, <<c, n>> \in Entries(config) PROVE <<c, n>> \in Entries(new)
        OBVIOUS
    <2>1. PICK d \in ToSet(config) : d.id = c /\ n \in Names(d)
        BY EntriesAre
    <2>2. PICK i \in DOMAIN config : d = config[i]
        BY <2>1 DEF ToSet
    <2>3. new[i] \in ToSet(new) /\ new[i].id = c /\ n \in Names(new[i])
        BY <1>1, <1>2, <2>1, <2>2 DEF ToSet
    <2> QED
        BY <2>3, EntriesAre
  <1>6. slug \notin Forbidden => <<cat, slug>> \in Entries(new)
    <2>1. PICK i \in DOMAIN config : config[i].id = cat
        BY DEF Ids, ToSet
    <2>2. new[i] \in ToSet(new) /\ new[i].id = cat /\ (slug \notin Forbidden => slug \in Names(new[i]))
        BY <1>1, <1>2, <2>1 DEF ToSet
    <2> QED
        BY <2>2, EntriesAre
  <1>7. Entries(new) \subseteq Entries(config) \cup More
    <2> HIDE DEF More
    <2> QED
        BY <1>4, EntriesSubset
  <1>8. Entries(config) \subseteq Entries(new)
      BY <1>5, EntriesSubset
  <1> QED
      BY <1>1, <1>2, <1>3, <1>6, <1>7, <1>8 DEF s

LEMMA CategoryResolved ==
    ASSUME NEW config \in Taxonomy, NEW slug \in Slug, NEW r, r = ResolveCategory(config, slug)
    PROVE  /\ r.config \in Taxonomy /\ (Distinct(config) => Distinct(r.config))
           /\ r.id \in Ids(r.config)
           /\ r.isNew \in BOOLEAN /\ (~r.isNew => r.config = config)
           /\ Entries(config) \subseteq Entries(r.config)
           /\ Entries(r.config) \subseteq Entries(config) \cup {<<slug, "">>}
           /\ ToSet(config) \subseteq ToSet(r.config)
           /\ \A k \in r.conflict : <<k.cat, k.sub>> \in Entries(config)
  <1> DEFINE known == FirstOf(config, LAMBDA c : Matches(c, slug))
             conflict == IF known # {} THEN {} ELSE FindCategoryConflict(config, slug)
             fresh == known = {} /\ conflict = {}
             longer == Append(config, NewCategory(slug))
             id == IF known # {} THEN (CHOOSE c \in known : TRUE).id
                   ELSE IF conflict # {} THEN (CHOOSE c \in conflict : TRUE).cat ELSE slug
  <1>1. /\ r.id = id /\ r.isNew = fresh /\ r.conflict = conflict
        /\ r.config = IF fresh THEN longer ELSE config
      BY DEF ResolveCategory, NewCategory
  <1>2. known \subseteq ToSet(config)
      BY DEF FirstOf, ToSet
  <1>3. known = {} => slug \notin Ids(config)
    <2> DEFINE S == {c \in ToSet(config) : Matches(c, slug)}
    <2>1. DOMAIN config = 1..Len(config) /\ Len(config) \in Nat
        BY DEF Taxonomy
    <2>2. known = FirstIn(config, S)
      <3>1. \A k \in DOMAIN config : config[k] \in S <=> Matches(config[k], slug)
          BY DEF ToSet
      <3>2. \A k \in DOMAIN config : \A j \in 1..(k - 1) : j \in DOMAIN config
          BY <2>1
      <3> QED
          BY <3>1, <3>2 DEF FirstOf, FirstIn
    <2>3. FirstIn(config, S) = {} => ToSet(config) \cap S = {}
        BY FirstIs DEF Taxonomy
    <2>4. \A c \in ToSet(config) : c.id = slug => c \in S
        BY DEF Matches
    <2> QED
        BY <2>2, <2>3, <2>4 DEF Ids
  <1>4. \A k \in conflict : <<k.cat, k.sub>> \in Entries(config)
      BY CategoryConflicts
  <1>l. longer = Append(config, NewCategory(slug))
      OBVIOUS
  <1> HIDE DEF known, conflict, longer
  <1>5. CASE fresh
    <2>1. /\ longer \in Taxonomy /\ (Distinct(config) => Distinct(longer))
          /\ Ids(longer) = Ids(config) \cup {slug}
          /\ Entries(longer) = Entries(config) \cup {<<slug, "">>}
          /\ ToSet(config) \subseteq ToSet(longer)
        BY <1>3, <1>5, <1>l, AppendedCategory
    <2>2. r.config = longer /\ r.id = slug /\ r.isNew = TRUE /\ r.conflict = {}
        BY <1>1, <1>5
    <2> QED
        BY <2>1, <2>2
  <1>6. CASE ~fresh
    <2>1. r.config = config /\ r.isNew = FALSE
        BY <1>1, <1>6
    <2>2. CASE known # {}
      <3>1. (CHOOSE c \in known : TRUE) \in ToSet(config)
          BY <1>2, <2>2
      <3>2. r.id \in Ids(config)
          BY <1>1, <2>2, <3>1 DEF Ids
      <3> QED
          BY <1>1, <1>4, <2>1, <3>2
    <2>3. CASE known = {} /\ conflict # {}
      <3>1. (CHOOSE c \in conflict : TRUE) \in conflict
          BY <2>3
      <3>2. r.id \in Ids(config)
          BY <1>1, <1>4, <2>3, <3>1, IdsOfEntries
      <3> QED
          BY <1>1, <1>4, <2>1, <3>2
    <2> QED
        BY <1>6, <2>2, <2>3
  <1> QED
      BY <1>5, <1>6

(* A slug the duplicate guard has passed: nothing elsewhere is spelt like   *)
(* it, or something in its own category is as well.                         *)
Passed(config, cat, slug) ==
  slug \notin Forbidden =>
    \/ \A c \in Candidates(config) : Spelling[c.sub] # Spelling[slug]
    \/ \E c \in Candidates(config) : c.cat = cat /\ Spelling[c.sub] = Spelling[slug]

(* What a resolution may return: an entry of the taxonomy, an invalid name, *)
(* or a subcategory that it adds.                                           *)
Resolved(config, cat, r) ==
  /\ r.isNew \in BOOLEAN
  /\ \A k \in r.conflict : <<k.cat, k.sub>> \in Entries(config)
  /\ r.isNew => /\ r.conflict = {} /\ r.id \in Slug \ Sentinels /\ Passed(config, cat, r.id)
                /\ r.config = WithSub(config, cat, r.id)
  /\ ~r.isNew => r.config = config
  /\ ~r.isNew /\ r.conflict = {} => r.id \in Forbidden \/ <<cat, r.id>> \in Entries(config)
  /\ r.conflict # {} =>
       r.id = (CHOOSE k \in r.conflict : TRUE).sub /\ r.id \notin Forbidden

LEMMA SubcategoryCreated ==
    ASSUME NEW config \in Taxonomy, NEW cat, NEW slug \in Slug, slug \notin Sentinels
    PROVE  Resolved(config, cat, CreateSub(config, cat, slug))
  <1> DEFINE conflict == FindSubcategoryConflict(config, cat, slug)
             r == CreateSub(config, cat, slug)
             k == CHOOSE k \in conflict : TRUE
  <1>1. /\ r.id = IF conflict = {} THEN slug ELSE k.sub
        /\ r.isNew = (conflict = {}) /\ r.conflict = conflict
        /\ r.config = IF conflict = {} THEN WithSub(config, cat, slug) ELSE config
      BY DEF CreateSub
  <1>2. /\ \A c \in conflict : <<c.cat, c.sub>> \in Entries(config) /\ c.sub \notin Forbidden
        /\ conflict = {} => Passed(config, cat, slug)
      BY SubcategoryConflicts DEF Passed
  <1>3. conflict # {} => k \in conflict
      OBVIOUS
  <1> HIDE DEF conflict, r
  <1>4. Resolved(config, cat, r)
      BY <1>1, <1>2, <1>3 DEF Resolved
  <1> QED
      BY <1>4 DEF r

LEMMA SubcategoryUnresolved ==
    ASSUME NEW config, NEW cat, NEW id, id \in Forbidden \/ <<cat, id>> \in Entries(config)
    PROVE  Resolved(config, cat, Unresolved(config, id))
  BY DEF Resolved, Unresolved

LEMMA SubcategoryResolved ==
    ASSUME NEW config \in Taxonomy, NEW cat \in Ids(config), NEW slug \in Slug, NEW grounded,
           NEW rule \in Slug
    PROVE  Resolved(config, cat, ResolveSubcategory(config, cat, slug, grounded, rule))
  <1> DEFINE subs == SubsOf(config, cat)
             known == FirstOf(subs, LAMBDA s : Matches(s, slug))
             conflict == FindSubcategoryConflict(config, cat, slug)
             fallback == FirstOf(subs, LAMBDA s :
                s.id = rule \/ \E a \in s.aliases : {<<a, rule>>, <<rule, a>>} \cap Inside # {})
             r == ResolveSubcategory(config, cat, slug, grounded, rule)
  <1>1. \/ slug \in Sentinels /\ r = Unresolved(config, slug)
        \/ known # {} /\ r = Unresolved(config, (CHOOSE s \in known : TRUE).id)
        \/ slug \notin Sentinels /\ r = CreateSub(config, cat, slug)
        \/ r = Unresolved(config, "general")
        \/ fallback # {} /\ r = Unresolved(config, (CHOOSE s \in fallback : TRUE).id)
        \/ rule \notin Sentinels /\ r = CreateSub(config, cat, rule)
    <2> DEFINE last == IF conflict # {} \/ slug \in grounded THEN CreateSub(config, cat, slug)
                       ELSE IF rule \in Sentinels THEN Unresolved(config, "general")
                       ELSE IF fallback # {} THEN Unresolved(config, (CHOOSE s \in fallback : TRUE).id)
                       ELSE IF rule \in grounded THEN CreateSub(config, cat, rule)
                       ELSE Unresolved(config, "general")
    <2>1. r = CASE slug \in Sentinels -> Unresolved(config, slug)
                [] slug \notin Sentinels /\ known # {} -> Unresolved(config, (CHOOSE s \in known : TRUE).id)
                [] OTHER -> last
        BY DEF ResolveSubcategory
    <2> HIDE DEF known, fallback, conflict, r
    <2>2. \/ slug \in Sentinels /\ r = Unresolved(config, slug)
          \/ known # {} /\ r = Unresolved(config, (CHOOSE s \in known : TRUE).id)
          \/ slug \notin Sentinels /\ r = last
      <3> HIDE DEF last
      <3> QED
          BY <2>1
    <2> QED
        BY <2>2
  <1>2. \A s \in ToSet(subs) : s.id \in Forbidden \/ <<cat, s.id>> \in Entries(config)
    <2>1. PICK c \in ToSet(config) : c.id = cat /\ subs = c.subs
        BY SubsOfAre
    <2>2. ASSUME NEW s \in ToSet(subs), s.id \notin Forbidden PROVE <<cat, s.id>> \in Entries(config)
      <3>1. s.id \in Names(c)
          BY <2>1, <2>2 DEF Names, Ids
      <3> QED
          BY <2>1, <3>1, EntriesAre
    <2> QED
        BY <2>2
  <1>3. known \subseteq ToSet(subs) /\ fallback \subseteq ToSet(subs)
      BY DEF FirstOf, ToSet
  <1>g. Sentinels \subseteq Forbidden /\ "general" \in Forbidden
      BY TaxonomyAssumption DEF Forbidden
  <1> HIDE DEF subs, known, conflict, fallback, r
  <1>4. known # {} => (CHOOSE s \in known : TRUE) \in ToSet(subs)
      BY <1>3
  <1>5. fallback # {} => (CHOOSE s \in fallback : TRUE) \in ToSet(subs)
      BY <1>3
  <1>6. Resolved(config, cat, r)
    <2>1. CASE slug \in Sentinels /\ r = Unresolved(config, slug)
        BY <1>g, <2>1, SubcategoryUnresolved
    <2>2. CASE known # {} /\ r = Unresolved(config, (CHOOSE s \in known : TRUE).id)
        BY <1>2, <1>4, <2>2, SubcategoryUnresolved
    <2>3. CASE slug \notin Sentinels /\ r = CreateSub(config, cat, slug)
        BY <2>3, SubcategoryCreated
    <2>4. CASE r = Unresolved(config, "general")
        BY <1>g, <2>4, SubcategoryUnresolved
    <2>5. CASE fallback # {} /\ r = Unresolved(config, (CHOOSE s \in fallback : TRUE).id)
        BY <1>2, <1>5, <2>5, SubcategoryUnresolved
    <2>6. CASE rule \notin Sentinels /\ r = CreateSub(config, cat, rule)
        BY <2>6, SubcategoryCreated
    <2> QED
        BY <1>1, <2>1, <2>2, <2>3, <2>4, <2>5, <2>6
  <1> QED
      BY <1>6 DEF r

(* The user's explicit choice.                                              *)
LEMMA EnsuredIs ==
    ASSUME NEW config \in Taxonomy, Distinct(config), NEW cat \in Slug, NEW sub \in Slug,
           NEW new, new = Ensured(config, cat, sub)
    PROVE  /\ new \in Taxonomy /\ Distinct(new)
           /\ Entries(config) \subseteq Entries(new)
           /\ sub \in Forbidden \/ <<cat, sub>> \in Entries(new)
  <1> DEFINE longer == Append(config, NewCategory(cat))
             with == IF Category(config, cat) # {} THEN config ELSE longer
  <1>1. new = IF Known(with, cat, sub) THEN with ELSE WithSub(with, cat, sub)
      BY DEF Ensured, NewCategory
  <1>l. longer = Append(config, NewCategory(cat))
      OBVIOUS
  <1> HIDE DEF longer
  <1>2. /\ with \in Taxonomy /\ Distinct(with) /\ cat \in Ids(with)
        /\ Entries(config) \subseteq Entries(with)
    <2>1. CASE cat \in Ids(config)
      <3>1. with = config
          BY <2>1, CategoryIs
      <3> QED
          BY <2>1, <3>1
    <2>2. CASE cat \notin Ids(config)
      <3>1. with = longer
          BY <2>2, CategoryIs
      <3>2. /\ longer \in Taxonomy /\ Distinct(longer) /\ Ids(longer) = Ids(config) \cup {cat}
            /\ Entries(longer) = Entries(config) \cup {<<cat, "">>}
          BY <1>l, <2>2, AppendedCategory
      <3> HIDE DEF with
      <3> QED
          BY <3>1, <3>2
    <2> QED
        BY <2>1, <2>2
  <1> HIDE DEF with
  <1>3. CASE Known(with, cat, sub)
    <2>1. PICK c \in ToSet(with) : c.id = cat /\ sub \in Ids(c.subs)
        BY <1>3 DEF Known, Ids
    <2>2. sub \notin Forbidden => sub \in Names(c)
        BY <2>1 DEF Names
    <2> QED
        BY <1>1, <1>2, <1>3, <2>1, <2>2, EntriesAre
  <1>4. CASE ~Known(with, cat, sub)
    <2>1. new = WithSub(with, cat, sub)
        BY <1>1, <1>4
    <2>a. with \in Taxonomy /\ cat \in Ids(with) /\ Distinct(with)
        BY <1>2
    <2>2. /\ new \in Taxonomy /\ (Distinct(with) => Distinct(new))
          /\ sub \in Forbidden => Entries(new) = Entries(with)
          /\ sub \notin Forbidden => Entries(new) = Entries(with) \cup {<<cat, sub>>}
        BY <2>a, <2>1, AppendedSubcategory
    <2>b. Distinct(new)
        BY <2>a, <2>2
    <2>c. sub \notin Forbidden => <<cat, sub>> \in Entries(new)
        BY <2>2
    <2> QED
        BY <1>2, <2>2, <2>b, <2>c
  <1> QED
      BY <1>3, <1>4

-----------------------------------------------------------------------------
(* A spelling that leads to a subcategory                                   *)

\* The first subcategory that answers to `old' is `new'.
Leads(subs, old, new) ==
  \E i \in DOMAIN subs :
    subs[i].id = new /\ Matches(subs[i], old) /\ \A j \in 1..(i - 1) : ~Matches(subs[j], old)

LEMMA AllLead ==
    ASSUME NEW subs \in Seq(SubcategoryItem), NEW old, NEW new,
           \E s \in ToSet(subs) : Matches(s, old),
           \A s \in ToSet(subs) : Matches(s, old) => s.id = new
    PROVE  Leads(subs, old, new)
  <1> DEFINE I == {i \in DOMAIN subs : Matches(subs[i], old)}
  <1>1. DOMAIN subs = 1..Len(subs) /\ Len(subs) \in Nat
      OBVIOUS
  <1>2. I \subseteq Nat /\ I # {}
      BY <1>1 DEF ToSet
  <1>3. PICK i \in I : \A j \in I : i <= j
    <2> HIDE DEF I
    <2> QED
        BY <1>2, LeastOne
  <1>4. ASSUME NEW j \in 1..(i - 1) PROVE ~Matches(subs[j], old)
    <2>1. j \in DOMAIN subs /\ i \in Nat /\ ~(i <= j)
        BY <1>1
    <2> QED
        BY <1>3, <2>1
  <1>5. subs[i].id = new
      BY DEF ToSet
  <1> QED
      BY <1>4, <1>5 DEF Leads

LEMMA LeadsAppended ==
    ASSUME NEW subs \in Seq(SubcategoryItem), NEW s \in SubcategoryItem, NEW old, NEW new,
           Leads(subs, old, new)
    PROVE  Leads(Append(subs, s), old, new)
  <1> DEFINE c == Append(subs, s)
  <1>1. /\ c \in Seq(SubcategoryItem) /\ Len(c) = Len(subs) + 1 /\ Len(subs) \in Nat
        /\ \A i \in 1..Len(subs) : c[i] = subs[i]
      BY AppendProperties
  <1> HIDE DEF c
  <1>2. DOMAIN subs = 1..Len(subs) /\ DOMAIN c = 1..Len(c)
      BY <1>1
  <1>3. PICK i \in DOMAIN subs : /\ subs[i].id = new /\ Matches(subs[i], old)
                                 /\ \A j \in 1..(i - 1) : ~Matches(subs[j], old)
      BY DEF Leads
  <1>4. i \in DOMAIN c /\ c[i] = subs[i] /\ \A j \in 1..(i - 1) : c[j] = subs[j]
      BY <1>1, <1>2
  <1>5. Leads(c, old, new)
      BY <1>3, <1>4 DEF Leads
  <1> QED
      BY <1>5 DEF c

LEMMA LeadsWithout ==
    ASSUME NEW subs \in Seq(SubcategoryItem), NEW ids, NEW old, NEW new, new \notin ids,
           Leads(subs, old, new)
    PROVE  Leads(Without(subs, ids), old, new)
  <1> DEFINE S == {x \in ToSet(subs) : x.id \notin ids}
             c == Sift(subs, S)
  <1>1. PICK g : c \in Seq(SubcategoryItem) /\ Leaves(subs, S, Len(subs), c, g)
      BY SiftLeaves
  <1>s. \A i \in DOMAIN subs : subs[i].id = new => subs[i] \in S
      BY DEF ToSet
  <1>c. Without(subs, ids) = c
      BY DEF Without
  <1> HIDE DEF c, S
  <1>2. DOMAIN subs = 1..Len(subs) /\ DOMAIN c = 1..Len(c) /\ Len(c) \in Nat /\ Len(subs) \in Nat
      BY <1>1
  <1>3. PICK i \in DOMAIN subs : /\ subs[i].id = new /\ Matches(subs[i], old)
                                 /\ \A j \in 1..(i - 1) : ~Matches(subs[j], old)
      BY DEF Leads
  <1>4. PICK k \in 1..Len(c) : g[k] = i
      BY <1>1, <1>2, <1>3, <1>s DEF Leaves
  <1>5. c[k] = subs[i]
      BY <1>1, <1>4 DEF Leaves
  <1>6. ASSUME NEW l \in 1..(k - 1) PROVE ~Matches(c[l], old)
    <2>1. l \in 1..Len(c) /\ l < k
        BY <1>2
    <2>2. c[l] = subs[g[l]] /\ g[l] \in 1..Len(subs) /\ g[l] < g[k]
        BY <1>1, <2>1 DEF Leaves
    <2>3. g[l] \in 1..(i - 1)
        BY <1>2, <1>4, <2>2
    <2> QED
        BY <1>3, <2>2, <2>3
  <1> QED
      BY <1>2, <1>3, <1>5, <1>6, <1>c DEF Leads

LEMMA LeadsAfter ==
    ASSUME NEW a \in Seq(SubcategoryItem), NEW b \in Seq(SubcategoryItem), NEW old, NEW new,
           \A s \in ToSet(a) : ~Matches(s, old), Leads(b, old, new)
    PROVE  Leads(a \o b, old, new)
  <1> DEFINE c == a \o b
  <1>1. /\ c \in Seq(SubcategoryItem) /\ Len(c) = Len(a) + Len(b) /\ Len(a) \in Nat /\ Len(b) \in Nat
        /\ \A i \in 1..Len(c) : c[i] = IF i <= Len(a) THEN a[i] ELSE b[i - Len(a)]
      BY ConcatProperties
  <1> HIDE DEF c
  <1>2. DOMAIN a = 1..Len(a) /\ DOMAIN b = 1..Len(b) /\ DOMAIN c = 1..Len(c)
      BY <1>1
  <1>3. PICK i \in DOMAIN b : /\ b[i].id = new /\ Matches(b[i], old)
                              /\ \A j \in 1..(i - 1) : ~Matches(b[j], old)
      BY DEF Leads
  <1> DEFINE k == Len(a) + i
  <1>4. k \in DOMAIN c /\ c[k] = b[i]
    <2>1. k \in 1..Len(c) /\ ~(k <= Len(a)) /\ k - Len(a) = i
        BY <1>1, <1>2
    <2> QED
        BY <1>1, <1>2, <2>1
  <1>5. ASSUME NEW l \in 1..(k - 1) PROVE ~Matches(c[l], old)
    <2>1. l \in 1..Len(c)
        BY <1>1, <1>2
    <2>2. CASE l <= Len(a)
      <3>1. l \in DOMAIN a /\ c[l] = a[l]
          BY <1>1, <1>2, <2>1, <2>2
      <3> QED
          BY <3>1 DEF ToSet
    <2>3. CASE ~(l <= Len(a))
      <3>1. l - Len(a) \in 1..(i - 1) /\ c[l] = b[l - Len(a)]
          BY <1>1, <1>2, <2>1, <2>3
      <3> QED
          BY <1>3, <3>1
    <2> QED
        BY <2>2, <2>3
  <1> HIDE DEF k
  <1>6. Leads(c, old, new)
      BY <1>3, <1>4, <1>5 DEF Leads
  <1> QED
      BY <1>6 DEF c

(* Where a spelling leads is what it resolves to.                           *)
LEMMA LeadsResolve ==
    ASSUME NEW config, NEW cat, NEW old, NEW new, NEW grounded, NEW rule, old \notin Sentinels,
           SubsOf(config, cat) \in Seq(SubcategoryItem), Leads(SubsOf(config, cat), old, new)
    PROVE  ResolveSubcategory(config, cat, old, grounded, rule).id = new
  <1> DEFINE subs == SubsOf(config, cat)
             known == FirstOf(subs, LAMBDA s : Matches(s, old))
             r == ResolveSubcategory(config, cat, old, grounded, rule)
  <1>1. \A s \in known : s.id = new
    <2> DEFINE F == {k \in DOMAIN subs : Matches(subs[k], old) /\ \A j \in 1..(k - 1) : ~Matches(subs[j], old)}
    <2>1. known = {subs[i] : i \in F}
        BY DEF FirstOf
    <2>2. PICK i \in F : subs[i].id = new
        BY DEF Leads
    <2>3. ASSUME NEW k \in F PROVE k = i
      <3>1. i \in Nat /\ k \in Nat /\ i >= 1 /\ k >= 1
          OBVIOUS
      <3>2. ~(i \in 1..(k - 1)) /\ ~(k \in 1..(i - 1))
          OBVIOUS
      <3> QED
          BY <3>1, <3>2
    <2> HIDE DEF F
    <2> QED
        BY <2>1, <2>2, <2>3
  <1>2. known # {}
      BY DEF Leads, FirstOf
  <1>3. r = Unresolved(config, (CHOOSE s \in known : TRUE).id)
    <2> DEFINE conflict == FindSubcategoryConflict(config, cat, old)
               fallback == FirstOf(subs, LAMBDA s :
                   s.id = rule \/ \E a \in s.aliases : {<<a, rule>>, <<rule, a>>} \cap Inside # {})
               last == IF conflict # {} \/ old \in grounded THEN CreateSub(config, cat, old)
                       ELSE IF rule \in Sentinels THEN Unresolved(config, "general")
                       ELSE IF fallback # {} THEN Unresolved(config, (CHOOSE s \in fallback : TRUE).id)
                       ELSE IF rule \in grounded THEN CreateSub(config, cat, rule)
                       ELSE Unresolved(config, "general")
    <2>1. r = CASE old \in Sentinels -> Unresolved(config, old)
                [] old \notin Sentinels /\ known # {} -> Unresolved(config, (CHOOSE s \in known : TRUE).id)
                [] OTHER -> last
        BY DEF ResolveSubcategory
    <2> HIDE DEF known, last, r
    <2> QED
        BY <1>2, <2>1
  <1>4. r.id = (CHOOSE s \in known : TRUE).id
    <2> HIDE DEF known, r
    <2> QED
        BY <1>3 DEF Unresolved
  <1>5. (CHOOSE s \in known : TRUE) \in known
      BY <1>2
  <1> HIDE DEF known, r
  <1>6. r.id = new
      BY <1>1, <1>4, <1>5
  <1> QED
      BY <1>6 DEF r

LEMMA CategoriesAre ==
    ASSUME NEW config \in Taxonomy
    PROVE  /\ \A i \in DOMAIN config : config[i] \in CategoryItem /\ config[i].subs \in Seq(SubcategoryItem)
           /\ \A c \in ToSet(config) : c \in CategoryItem /\ c.subs \in Seq(SubcategoryItem)
  <1>1. \A i \in DOMAIN config : config[i] \in CategoryItem
      BY DEF Taxonomy
  <1>2. \A c \in CategoryItem : c.subs \in Seq(SubcategoryItem)
      BY DEF CategoryItem
  <1> QED
      BY <1>1, <1>2 DEF ToSet

LeadsIn(config, r) == \E c \in ToSet(config) : c.id = r.cat /\ Leads(c.subs, r.sub, r.to)

LEMMA LeadsGrown ==
    ASSUME NEW config \in Taxonomy, NEW r, LeadsIn(config, r), NEW cat \in Ids(config), NEW slug \in Slug,
           NEW new, new = WithSub(config, cat, slug)
    PROVE  LeadsIn(new, r)
  <1>1. PICK i \in DOMAIN config : config[i].id = r.cat /\ Leads(config[i].subs, r.sub, r.to)
      BY DEF LeadsIn, ToSet
  <1>2. /\ DOMAIN new = DOMAIN config /\ new[i].id = config[i].id
        /\ config[i].id # cat => new[i].subs = config[i].subs
        /\ config[i].id = cat => new[i].subs = Append(config[i].subs, NewSubcategory(slug))
      BY AppendedSubcategory
  <1>3. NewSubcategory(slug) \in SubcategoryItem
      BY DEF NewSubcategory, SubcategoryItem
  <1>4. config[i].subs \in Seq(SubcategoryItem)
      BY CategoriesAre
  <1>5. Leads(new[i].subs, r.sub, r.to)
      BY <1>1, <1>2, <1>3, <1>4, LeadsAppended
  <1> QED
      BY <1>1, <1>2, <1>5 DEF LeadsIn, ToSet

LEMMA LeadsEnsured ==
    ASSUME NEW config \in Taxonomy, NEW r, LeadsIn(config, r), NEW cat \in Slug, NEW sub \in Slug
    PROVE  LeadsIn(Ensured(config, cat, sub), r)
  <1> DEFINE longer == Append(config, NewCategory(cat))
             with == IF Category(config, cat) # {} THEN config ELSE longer
             new == Ensured(config, cat, sub)
  <1>1. new = IF Known(with, cat, sub) THEN with ELSE WithSub(with, cat, sub)
      BY DEF Ensured, NewCategory
  <1>l. longer = Append(config, NewCategory(cat))
      OBVIOUS
  <1> HIDE DEF longer, new
  <1>2. with \in Taxonomy /\ cat \in Ids(with) /\ LeadsIn(with, r)
    <2>1. CASE cat \in Ids(config)
      <3>1. with = config
          BY <2>1, CategoryIs
      <3> QED
          BY <2>1, <3>1
    <2>2. CASE cat \notin Ids(config)
      <3>1. with = longer
          BY <2>2, CategoryIs
      <3>2. /\ longer \in Taxonomy /\ Ids(longer) = Ids(config) \cup {cat}
            /\ ToSet(config) \subseteq ToSet(longer)
          BY <1>l, <2>2, AppendedCategory
      <3>3. LeadsIn(longer, r)
          BY <3>2 DEF LeadsIn
      <3> HIDE DEF with
      <3> QED
          BY <3>1, <3>2, <3>3
    <2> QED
        BY <2>1, <2>2
  <1> HIDE DEF with
  <1>3. LeadsIn(WithSub(with, cat, sub), r)
      BY <1>2, LeadsGrown
  <1>4. LeadsIn(new, r)
      BY <1>1, <1>2, <1>3
  <1> QED
      BY <1>4 DEF new

(* No public subcategory answers to the old name or has the new one.        *)
PublicFree(r) ==
  /\ {r.sub, r.to} \cap Forbidden = {}
  /\ r.cat \in Ids(PublicTaxonomy) =>
       \A s \in ToSet(SubsOf(PublicTaxonomy, r.cat)) : s.id # r.to /\ ~Matches(s, r.sub)

(* A spelling leads where it did after a save and a load.                   *)
LEMMA LeadsSaved ==
    ASSUME NEW config \in Taxonomy, Distinct(config), NEW r, PublicFree(r), LeadsIn(config, r),
           NEW d, d = PrivateDiff(config)
    PROVE  d \in Taxonomy /\ Distinct(d) /\ LeadsIn(d, r)
  <1> DEFINE all == [i \in DOMAIN config |-> DiffItem(config[i])]
             S == {c \in ToSet(all) : c.id \notin Ids(PublicTaxonomy) \/ c.subs # <<>>}
  <1>0. d = Sift(all, S)
      BY DEF PrivateDiff, DiffItem
  <1>p. PublicTaxonomy \in Taxonomy
      BY TaxonomyAssumption DEF Taxonomy
  <1>1. d \in Taxonomy /\ Distinct(d)
      BY DiffIs
  <1>2. PICK i \in DOMAIN config : config[i].id = r.cat /\ Leads(config[i].subs, r.sub, r.to)
      BY DEF LeadsIn, ToSet
  <1>3. config[i] \in CategoryItem /\ config[i].subs \in Seq(SubcategoryItem)
      BY CategoriesAre
  <1>4. all[i].id = r.cat /\ Leads(all[i].subs, r.sub, r.to) /\ all[i] \in CategoryItem
    <2>1. CASE r.cat \notin Ids(PublicTaxonomy)
        BY <1>2, <1>3, <2>1 DEF DiffItem
    <2>2. CASE r.cat \in Ids(PublicTaxonomy)
      <3> DEFINE ids == Ids(SubsOf(PublicTaxonomy, r.cat))
                 subs == Without(config[i].subs, ids)
      <3>1. all[i] = [config[i] EXCEPT !.subs = subs]
          BY <1>2, <2>2 DEF DiffItem
      <3>2. r.to \notin ids
          BY <2>2 DEF PublicFree, Ids
      <3> HIDE DEF ids, all
      <3>3. subs \in Seq(SubcategoryItem)
          BY <1>3, WithoutSet
      <3>4. Leads(subs, r.sub, r.to)
          BY <1>2, <1>3, <3>2, LeadsWithout
      <3> HIDE DEF subs
      <3>5. all[i] \in CategoryItem /\ all[i].id = config[i].id /\ all[i].subs = subs
          BY <1>3, <3>1, <3>3, ItemIs
      <3> QED
          BY <1>2, <3>4, <3>5
    <2> QED
        BY <2>1, <2>2
  <1>5. all[i] \in ToSet(all)
      BY DEF ToSet
  <1>6. all[i].subs # <<>>
      BY <1>4 DEF Leads
  <1>a. all \in Seq(CategoryItem)
    <2>1. ASSUME NEW k \in DOMAIN config PROVE DiffItem(config[k]) \in CategoryItem
      <3>1. config[k] \in CategoryItem /\ config[k].subs \in Seq(SubcategoryItem)
          BY CategoriesAre
      <3>2. Without(config[k].subs, Ids(SubsOf(PublicTaxonomy, config[k].id))) \in Seq(SubcategoryItem)
          BY <3>1, WithoutSet
      <3> QED
          BY <3>1, <3>2, ItemIs DEF DiffItem
    <2>2. DOMAIN config = 1..Len(config) /\ Len(config) \in Nat
        BY DEF Taxonomy
    <2> QED
        BY <2>1, <2>2
  <1>s. S = {c \in ToSet(all) : c.id \notin Ids(PublicTaxonomy) \/ c.subs # <<>>}
      OBVIOUS
  <1> HIDE DEF all, S
  <1>7. ToSet(d) = ToSet(all) \cap S
      BY <1>0, <1>a, SiftSet
  <1>8. all[i] \in ToSet(d)
      BY <1>5, <1>6, <1>7, <1>s
  <1> QED
      BY <1>1, <1>4, <1>8 DEF LeadsIn

LEMMA LeadsLoaded ==
    ASSUME NEW over \in Taxonomy, Distinct(over), NEW r, PublicFree(r), LeadsIn(over, r),
           NEW m, m = Stripped(MergeCategories(PublicTaxonomy, over))
    PROVE  LeadsIn(m, r)
  <1> DEFINE head == [i \in DOMAIN PublicTaxonomy |-> MergedItem(PublicTaxonomy[i], over)]
             tail == Without(over, Ids(PublicTaxonomy))
             all == MergeCategories(PublicTaxonomy, over)
  <1>p. PublicTaxonomy \in Taxonomy /\ Distinct(PublicTaxonomy)
      BY TaxonomyAssumption DEF Taxonomy, Distinct
  <1>a. all \in Taxonomy
      BY <1>p, MergedIs
  <1>b. all = head \o tail
      BY DEF MergeCategories, MergedItem
  <1>c. \A i \in DOMAIN PublicTaxonomy : PublicTaxonomy[i] \in CategoryItem /\ PublicTaxonomy[i] \in ToSet(PublicTaxonomy)
      BY <1>p DEF Taxonomy, ToSet
  <1>h. head \in Seq(CategoryItem)
    <2>1. \A i \in DOMAIN PublicTaxonomy : MergedItem(PublicTaxonomy[i], over) \in CategoryItem
        BY <1>c, MergedItemIs
    <2>2. DOMAIN PublicTaxonomy = 1..Len(PublicTaxonomy) /\ Len(PublicTaxonomy) \in Nat
        BY <1>p DEF Taxonomy
    <2> QED
        BY <2>1, <2>2
  <1>t. tail \in Seq(CategoryItem) /\ ToSet(tail) = {x \in ToSet(over) : x.id \notin Ids(PublicTaxonomy)}
      BY WithoutSet DEF Taxonomy
  <1>s. ToSet(all) = ToSet(head) \cup ToSet(tail)
    <2> HIDE DEF head, tail, all
    <2> QED
        BY <1>b, <1>h, <1>t, ConcatSet
  <1>1. PICK o \in ToSet(over) : o.id = r.cat /\ Leads(o.subs, r.sub, r.to)
      BY DEF LeadsIn
  <1>o. o \in CategoryItem /\ o.subs \in Seq(SubcategoryItem)
      BY CategoriesAre
  <1>2. LeadsIn(all, r)
    <2>1. CASE r.cat \notin Ids(PublicTaxonomy)
      <3>1. o \in ToSet(all)
          BY <1>1, <1>s, <1>t, <2>1
      <3> QED
          BY <1>1, <3>1 DEF LeadsIn
    <2>2. CASE r.cat \in Ids(PublicTaxonomy)
      <3>1. PICK i \in DOMAIN PublicTaxonomy : PublicTaxonomy[i].id = r.cat
          BY <2>2 DEF Ids, ToSet
      <3> DEFINE p == PublicTaxonomy[i]
                 rest == Without(o.subs, Ids(p.subs))
      <3>2. SubsOf(over, r.cat) = o.subs /\ r.cat \in Ids(over)
        <4>1. r.cat \in Ids(over)
            BY <1>1 DEF Ids
        <4> QED
            BY <1>1, <4>1, SubsOfAre
      <3>3. SubsOf(PublicTaxonomy, r.cat) = p.subs
          BY <1>c, <1>p, <2>2, <3>1, SubsOfAre
      <3>4. p \in CategoryItem /\ p.subs \in Seq(SubcategoryItem)
          BY <1>c DEF CategoryItem
      <3>5. r.to \notin Ids(p.subs) /\ \A s \in ToSet(p.subs) : ~Matches(s, r.sub)
          BY <2>2, <3>3 DEF PublicFree, Ids
      <3>i. head[i] = MergedItem(p, over) /\ head[i] \in ToSet(head) /\ p.id = r.cat
          BY <3>1 DEF ToSet
      <3> HIDE DEF p, head
      <3>6. rest \in Seq(SubcategoryItem) /\ Leads(rest, r.sub, r.to)
        <4>1. rest \in Seq(SubcategoryItem)
            BY <1>o, WithoutSet
        <4>2. Leads(rest, r.sub, r.to)
            BY <1>1, <1>o, <3>5, LeadsWithout
        <4> QED
            BY <4>1, <4>2
      <3>7. head[i] = [p EXCEPT !.subs = p.subs \o rest]
          BY <3>2, <3>i DEF MergedItem, MergedSubs
      <3> HIDE DEF rest
      <3>8. p.subs \o rest \in Seq(SubcategoryItem) /\ Leads(p.subs \o rest, r.sub, r.to)
          BY <3>4, <3>5, <3>6, LeadsAfter
      <3>9. head[i].id = r.cat /\ head[i].subs = p.subs \o rest
          BY <3>4, <3>7, <3>8, <3>i, ItemIs
      <3> QED
          BY <1>s, <3>8, <3>9, <3>i DEF LeadsIn
    <2> QED
        BY <2>1, <2>2
  <1> HIDE DEF all
  <1>3. PICK i \in DOMAIN all : all[i].id = r.cat /\ Leads(all[i].subs, r.sub, r.to)
      BY <1>2 DEF LeadsIn, ToSet
  <1>m. m = Stripped(all)
      BY DEF all
  <1>4. DOMAIN m = DOMAIN all /\ m[i].id = all[i].id /\ m[i].subs = Without(all[i].subs, Forbidden)
      BY <1>a, <1>m, StrippedIs
  <1>5. all[i].subs \in Seq(SubcategoryItem) /\ r.to \notin Forbidden
      BY <1>a, CategoriesAre DEF PublicFree
  <1>6. Leads(m[i].subs, r.sub, r.to)
      BY <1>3, <1>4, <1>5, LeadsWithout
  <1> QED
      BY <1>3, <1>4, <1>6 DEF LeadsIn, ToSet

-----------------------------------------------------------------------------
(* What the user's edits make of a taxonomy                                 *)

FirstCalled(subs, id) == FirstOf(subs, LAMBDA s : s.id = id)

LEMMA FirstCalledIs ==
    ASSUME NEW subs \in Seq(SubcategoryItem), NEW id
    PROVE  /\ FirstCalled(subs, id) \subseteq {s \in ToSet(subs) : s.id = id}
           /\ id \in Ids(subs) <=> FirstCalled(subs, id) # {}
  <1> DEFINE S == {s \in ToSet(subs) : s.id = id}
  <1>1. DOMAIN subs = 1..Len(subs) /\ Len(subs) \in Nat
      OBVIOUS
  <1>2. FirstCalled(subs, id) = FirstIn(subs, S)
    <2>1. \A k \in DOMAIN subs : subs[k] \in S <=> subs[k].id = id
        BY DEF ToSet
    <2>2. \A k \in DOMAIN subs : \A j \in 1..(k - 1) : j \in DOMAIN subs
        BY <1>1
    <2> QED
        BY <2>1, <2>2 DEF FirstCalled, FirstOf, FirstIn
  <1>3. /\ FirstIn(subs, S) \subseteq ToSet(subs) \cap S
        /\ FirstIn(subs, S) = {} <=> ToSet(subs) \cap S = {}
      BY FirstIs
  <1> QED
      BY <1>2, <1>3 DEF Ids

MergedNames(subs, from, to) == {from, to} \cup UNION {s.aliases : s \in FirstCalled(subs, from)}
Absorbing(s, to, names) == IF s.id = to THEN [s EXCEPT !.aliases = @ \cup names] ELSE s
MergedInto(subs, from, to) ==
  IF FirstCalled(subs, to) # {}
  THEN [i \in DOMAIN Without(subs, {from}) |->
          Absorbing(Without(subs, {from})[i], to, MergedNames(subs, from, to))]
  ELSE IF FirstCalled(subs, from) # {}
  THEN [i \in DOMAIN subs |-> IF subs[i].id = from
          THEN [id |-> to, aliases |-> MergedNames(subs, from, to)] ELSE subs[i]]
  ELSE Append(subs, NewSubcategory(to))

LEMMA MergedIntoIs ==
    ASSUME NEW subs \in Seq(SubcategoryItem), NEW from \in Slug, NEW to \in Slug,
           NEW new, new = MergedInto(subs, from, to)
    PROVE  /\ new \in Seq(SubcategoryItem)
           /\ /\ from \in Ids(subs) /\ from # to
              /\ \A s \in ToSet(subs) : Matches(s, from) => s.id \in {from, to}
              => Leads(new, from, to)
  <1> DEFINE names == MergedNames(subs, from, to)
             kept == Without(subs, {from})
             Tells == \A s \in ToSet(subs) : Matches(s, from) => s.id \in {from, to}
  <1>0. \A s \in ToSet(subs) : s \in SubcategoryItem
      BY DEF ToSet
  <1>1. names \subseteq Slug /\ {from, to} \subseteq names
    <2>1. \A s \in SubcategoryItem : s.aliases \subseteq Slug
        BY DEF SubcategoryItem
    <2>2. \A s \in FirstCalled(subs, from) : s.aliases \subseteq Slug
      <3>1. FirstCalled(subs, from) \subseteq {s \in ToSet(subs) : s.id = from}
          BY FirstCalledIs
      <3> QED
          BY <1>0, <2>1, <3>1
    <2> QED
        BY <2>2 DEF MergedNames
  <1>2. /\ kept \in Seq(SubcategoryItem) /\ Ids(kept) = Ids(subs) \ {from}
        /\ ToSet(kept) = {x \in ToSet(subs) : x.id \notin {from}}
      BY WithoutSet
  <1>i. <<from, from>> \in Inside
      BY TaxonomyAssumption
  <1> HIDE DEF names, kept
  <1>3. CASE FirstCalled(subs, to) # {}
    <2>1. new = [i \in DOMAIN kept |-> Absorbing(kept[i], to, names)]
        BY <1>3 DEF MergedInto, names, kept
    <2>2. DOMAIN kept = 1..Len(kept) /\ Len(kept) \in Nat
        BY <1>2
    <2>3. ASSUME NEW i \in DOMAIN kept
          PROVE  /\ new[i] \in SubcategoryItem /\ new[i].id = kept[i].id
                 /\ kept[i].id # to => new[i] = kept[i]
                 /\ kept[i].id = to => from \in new[i].aliases
                 /\ kept[i] \in ToSet(subs) /\ kept[i].id # from
      <3>1. kept[i] \in ToSet(kept)
          BY DEF ToSet
      <3>2. kept[i] \in SubcategoryItem /\ kept[i] \in ToSet(subs) /\ kept[i].id # from
          BY <1>0, <1>2, <3>1
      <3>3. CASE kept[i].id = to
        <4>1. new[i] = [kept[i] EXCEPT !.aliases = @ \cup names]
            BY <2>1, <3>3 DEF Absorbing
        <4>2. \A s \in SubcategoryItem : /\ [s EXCEPT !.aliases = @ \cup names] \in SubcategoryItem
                                         /\ [s EXCEPT !.aliases = @ \cup names].id = s.id
                                         /\ [s EXCEPT !.aliases = @ \cup names].aliases = s.aliases \cup names
            BY <1>1 DEF SubcategoryItem
        <4> QED
            BY <1>1, <3>2, <3>3, <4>1, <4>2
      <3>4. CASE kept[i].id # to
        <4>1. new[i] = kept[i]
            BY <2>1, <3>4 DEF Absorbing
        <4> QED
            BY <3>2, <3>4, <4>1
      <3> QED
          BY <3>3, <3>4
    <2>4. new \in Seq(SubcategoryItem) /\ DOMAIN new = DOMAIN kept
        BY <2>1, <2>2, <2>3
    <2>5. ASSUME from \in Ids(subs), from # to, Tells PROVE Leads(new, from, to)
      <3>1. \A s \in ToSet(new) : Matches(s, from) => s.id = to
        <4> SUFFICES ASSUME NEW i \in DOMAIN kept, Matches(new[i], from), new[i].id # to PROVE FALSE
            BY <2>4 DEF ToSet
        <4>1. new[i] = kept[i] /\ kept[i] \in ToSet(subs) /\ kept[i].id # from
            BY <2>3
        <4> QED
            BY <2>5, <4>1
      <3>2. \E s \in ToSet(new) : Matches(s, from)
        <4>1. to \in Ids(kept)
            BY <1>2, <1>3, <2>5, FirstCalledIs
        <4>2. PICK i \in DOMAIN kept : kept[i].id = to
            BY <4>1 DEF Ids, ToSet
        <4>3. Matches(new[i], from)
            BY <1>i, <2>3, <4>2 DEF Matches
        <4> QED
            BY <2>4, <4>3 DEF ToSet
      <3> QED
          BY <2>4, <3>1, <3>2, AllLead
    <2> QED
        BY <2>4, <2>5
  <1>4. CASE FirstCalled(subs, to) = {} /\ FirstCalled(subs, from) # {}
    <2> DEFINE item == [id |-> to, aliases |-> names]
    <2>1. new = [i \in DOMAIN subs |-> IF subs[i].id = from THEN item ELSE subs[i]]
        BY <1>4 DEF MergedInto, names
    <2>2. item \in SubcategoryItem /\ item.id = to /\ from \in item.aliases
        BY <1>1 DEF SubcategoryItem
    <2> HIDE DEF item
    <2>3. DOMAIN subs = 1..Len(subs) /\ Len(subs) \in Nat
        OBVIOUS
    <2>4. new \in Seq(SubcategoryItem) /\ DOMAIN new = DOMAIN subs
        BY <2>1, <2>2, <2>3
    <2>5. ASSUME from \in Ids(subs), from # to, Tells PROVE Leads(new, from, to)
      <3>1. \A s \in ToSet(new) : Matches(s, from) => s.id = to
        <4> SUFFICES ASSUME NEW i \in DOMAIN subs, Matches(new[i], from), new[i].id # to PROVE FALSE
            BY <2>4 DEF ToSet
        <4>1. new[i] = subs[i] /\ subs[i].id # from /\ subs[i] \in ToSet(subs)
            BY <2>1, <2>2 DEF ToSet
        <4> QED
            BY <2>5, <4>1
      <3>2. \E s \in ToSet(new) : Matches(s, from)
        <4>1. PICK i \in DOMAIN subs : subs[i].id = from
            BY <2>5 DEF Ids, ToSet
        <4>2. new[i] = item /\ Matches(item, from)
            BY <1>i, <2>1, <2>2, <4>1 DEF Matches
        <4> QED
            BY <2>4, <4>2 DEF ToSet
      <3> QED
          BY <2>4, <3>1, <3>2, AllLead
    <2> QED
        BY <2>4, <2>5
  <1>5. CASE FirstCalled(subs, to) = {} /\ FirstCalled(subs, from) = {}
    <2>1. new = Append(subs, NewSubcategory(to))
        BY <1>5 DEF MergedInto
    <2>2. NewSubcategory(to) \in SubcategoryItem
        BY DEF NewSubcategory, SubcategoryItem
    <2>3. from \notin Ids(subs)
        BY <1>5, FirstCalledIs
    <2> QED
        BY <2>1, <2>2, <2>3, AppendSet
  <1> QED
      BY <1>3, <1>4, <1>5

\* Nothing but the two names answers to the old one.
Tells(subs, from, to) == \A s \in ToSet(subs) : Matches(s, from) => s.id \in {from, to}

\* What is called `from', and nothing but `to' beside it, leads to `to' then.
LeadsOn(config, new, cat, from, to) ==
  \A c \in ToSet(config) :
    c.id = cat /\ from \in Ids(c.subs) /\ Tells(c.subs, from, to) =>
      \E d \in ToSet(new) : d.id = cat /\ Leads(d.subs, from, to)

LEMMA RenamedIs ==
    ASSUME NEW config \in Taxonomy, Distinct(config), NEW cat, NEW from \in Slug, NEW to \in Slug,
           NEW new, new = MergeSubcategory(config, cat, from, to)
    PROVE  /\ new \in Taxonomy /\ Distinct(new)
           /\ "" \notin {from, to} => LeadsOn(config, new, cat, from, to)
  <1> DEFINE Item(c) == IF c.id = cat THEN [c EXCEPT !.subs = MergedInto(@, from, to)] ELSE c
  <1>0. new = IF from = to \/ "" \in {from, to} THEN config ELSE [i \in DOMAIN config |-> Item(config[i])]
      BY DEF MergeSubcategory, MergedInto, MergedNames, Absorbing, FirstCalled, NewSubcategory
  <1>a. \A i \in DOMAIN config : config[i] \in CategoryItem /\ config[i].subs \in Seq(SubcategoryItem)
      BY CategoriesAre
  <1>1. CASE from = to \/ "" \in {from, to}
    <2>1. new = config
        BY <1>0, <1>1
    <2>2. ASSUME NEW c \in ToSet(config), from = to, from \in Ids(c.subs),
                 Tells(c.subs, from, to)
          PROVE  Leads(c.subs, from, to)
      <3>1. c.subs \in Seq(SubcategoryItem)
          BY CategoriesAre
      <3>2. \E s \in ToSet(c.subs) : Matches(s, from)
          BY <2>2 DEF Ids, Matches
      <3> QED
          BY <2>2, <3>1, <3>2, AllLead DEF Tells
    <2> QED
        BY <1>1, <2>1, <2>2 DEF LeadsOn
  <1>2. CASE ~(from = to \/ "" \in {from, to})
    <2>1. new = [i \in DOMAIN config |-> Item(config[i])]
        BY <1>0, <1>2
    <2>2. ASSUME NEW i \in DOMAIN config
          PROVE  /\ Item(config[i]) \in CategoryItem /\ Item(config[i]).id = config[i].id
                 /\ config[i].id = cat => Item(config[i]).subs = MergedInto(config[i].subs, from, to)
      <3> DEFINE subs == MergedInto(config[i].subs, from, to)
      <3>1. subs \in Seq(SubcategoryItem)
          BY <1>a, MergedIntoIs
      <3> HIDE DEF subs
      <3>2. /\ [config[i] EXCEPT !.subs = subs] \in CategoryItem
            /\ [config[i] EXCEPT !.subs = subs].id = config[i].id
            /\ [config[i] EXCEPT !.subs = subs].subs = subs
          BY <1>a, <3>1, ItemIs
      <3>3. Item(config[i]) = IF config[i].id = cat THEN [config[i] EXCEPT !.subs = subs] ELSE config[i]
          BY DEF subs
      <3> HIDE DEF Item
      <3>4. CASE config[i].id = cat
          BY <3>2, <3>3, <3>4 DEF subs
      <3>5. CASE config[i].id # cat
          BY <1>a, <3>3, <3>5
      <3> QED
          BY <3>4, <3>5
    <2> HIDE DEF Item
    <2>3. DOMAIN new = DOMAIN config /\ new \in [DOMAIN config -> CategoryItem]
        BY <2>1, <2>2
    <2>4. \A i \in DOMAIN config : new[i].id = config[i].id
        BY <2>1, <2>2
    <2>5. new \in Taxonomy /\ Distinct(new)
        BY <2>3, <2>4, MappedIs
    <2>6. ASSUME NEW c \in ToSet(config), c.id = cat, from \in Ids(c.subs),
                 Tells(c.subs, from, to)
          PROVE  \E d \in ToSet(new) : d.id = cat /\ Leads(d.subs, from, to)
      <3>1. PICK i \in DOMAIN config : config[i] = c
          BY DEF ToSet
      <3>2. new[i].id = cat /\ new[i].subs = MergedInto(c.subs, from, to)
          BY <2>1, <2>2, <2>6, <3>1
      <3>3. c.subs \in Seq(SubcategoryItem)
          BY CategoriesAre
      <3>4. Leads(MergedInto(c.subs, from, to), from, to)
          BY <1>2, <2>6, <3>3, MergedIntoIs DEF Tells
      <3> QED
          BY <2>3, <3>2, <3>4 DEF ToSet
    <2> QED
        BY <2>5, <2>6 DEF LeadsOn
  <1> QED
      BY <1>1, <1>2

LEMMA TakenOutIs ==
    ASSUME NEW config \in Taxonomy, Distinct(config), NEW cat, NEW sub, NEW new,
           new = [i \in DOMAIN config |-> IF config[i].id = cat
                    THEN [config[i] EXCEPT !.subs = Without(@, {sub})] ELSE config[i]]
    PROVE  new \in Taxonomy /\ Distinct(new)
  <1>a. \A i \in DOMAIN config : config[i] \in CategoryItem /\ config[i].subs \in Seq(SubcategoryItem)
      BY CategoriesAre
  <1>1. ASSUME NEW i \in DOMAIN config PROVE new[i] \in CategoryItem /\ new[i].id = config[i].id
    <2>1. CASE config[i].id = cat
      <3> DEFINE subs == Without(config[i].subs, {sub})
      <3>1. new[i] = [config[i] EXCEPT !.subs = subs]
          BY <2>1
      <3>2. subs \in Seq(SubcategoryItem)
          BY <1>a, WithoutSet
      <3> HIDE DEF subs
      <3> QED
          BY <1>a, <3>1, <3>2, ItemIs
    <2>2. CASE config[i].id # cat
        BY <1>a, <2>2
    <2> QED
        BY <2>1, <2>2
  <1>2. new \in [DOMAIN config -> CategoryItem]
      BY <1>1
  <1> QED
      BY <1>1, <1>2, MappedIs

(* What is proposed of a document in the end is still made of slugs.        *)
LEMMA ProposedIs ==
    ASSUME NEW p \in Proposal, NEW q, q = Proposed(p)
    PROVE  q.cat \in Slug /\ q.sub \in Slug /\ q.rule.cat \in Slug /\ q.rule.sub \in Slug
  <1> DEFINE Pair == [cat : Slug, sub : Slug]
  <1>1. \A x \in Proposal :
          /\ x.cat \in Slug /\ x.sub \in Slug /\ x.rule.cat \in Slug /\ x.rule.sub \in Slug
          /\ x.entity.cat \in Slug /\ x.entity.sub \in Slug
      BY DEF Proposal
  <1>2. ASSUME NEW x \in Proposal, NEW cat \in Slug, NEW sub \in Slug
        PROVE  [x EXCEPT !.cat = cat, !.sub = sub] \in Proposal
      BY DEF Proposal
  <1>3. EntityOverride(p) \in Proposal
      BY <1>1, <1>2 DEF EntityOverride
  <1>4. ASSUME NEW x \in Proposal PROVE Refined(x) \in Proposal
    <2> DEFINE vague == \/ x.cat \in {"personal", "other", ""}
                        \/ x.cat = "correspondence" /\ x.rule.cat = "administrative"
               c   == IF vague THEN x.rule.cat ELSE x.cat
               new == x.sub = "general" /\ x.rule.sub # "general"
               cat == IF new /\ c \in {"correspondence", "other"} THEN x.rule.cat ELSE c
               sub == IF new THEN x.rule.sub
                      ELSE IF x.sub = "general" /\ c = "bulletin_salaire" THEN "bulletin_salaire" ELSE x.sub
    <2>1. cat \in Slug /\ sub \in Slug
        BY <1>1, TaxonomyAssumption
    <2>2. Refined(x) = x \/ Refined(x) = [x EXCEPT !.cat = cat, !.sub = sub]
        BY DEF Refined
    <2> HIDE DEF cat, sub
    <2> QED
        BY <1>2, <2>1, <2>2
  <1>5. q \in Proposal
      BY <1>3, <1>4 DEF Proposed
  <1> QED
      BY <1>1, <1>5

(* What is read is a taxonomy, and all that is public and private.          *)
LEMMA LoadedIs ==
    ASSUME NEW cats \in Taxonomy, Distinct(cats), NEW m,
           m = Stripped(MergeCategories(PublicTaxonomy, cats))
    PROVE  /\ m \in Taxonomy /\ Distinct(m)
           /\ Entries(m) = Entries(PublicTaxonomy) \cup Entries(cats)
  <1> DEFINE all == MergeCategories(PublicTaxonomy, cats)
  <1>1. PublicTaxonomy \in Taxonomy /\ Distinct(PublicTaxonomy)
      BY TaxonomyAssumption DEF Taxonomy, Distinct
  <1>2. all \in Taxonomy /\ Distinct(all) /\ Entries(all) = Entries(PublicTaxonomy) \cup Entries(cats)
      BY <1>1, MergedIs
  <1>3. m = Stripped(all)
      OBVIOUS
  <1> HIDE DEF all
  <1> QED
      BY <1>2, <1>3, StrippedIs

LEMMA EntriesTyped ==
    ASSUME NEW config \in Taxonomy, NEW cat, NEW sub, <<cat, sub>> \in Entries(config)
    PROVE  cat \in Slug /\ sub \in Slug \cup Forbidden
  <1>1. PICK c \in ToSet(config) : c.id = cat /\ sub \in Names(c)
      BY EntriesAre
  <1>2. c \in CategoryItem /\ c.subs \in Seq(SubcategoryItem)
      BY CategoriesAre
  <1>3. \A s \in ToSet(c.subs) : s.id \in Slug
    <2>1. \A s \in SubcategoryItem : s.id \in Slug
        BY DEF SubcategoryItem
    <2> QED
        BY <1>2, <2>1 DEF ToSet
  <1>4. c.id \in Slug
      BY <1>2 DEF CategoryItem
  <1> QED
      BY <1>1, <1>3, <1>4 DEF Names, Ids, Forbidden

-----------------------------------------------------------------------------
(* One spelling in one category                                             *)

Spelt(entries, cat, spelling) == \E sub : sub # "" /\ <<cat, sub>> \in entries /\ Spelling[sub] = spelling

\* Where two categories spell one subcategory, the public file does.
Clear(entries) ==
  \A a, b, s : a # b /\ Spelt(entries, a, s) /\ Spelt(entries, b, s) => Spelt(Entries(PublicTaxonomy), a, s)

LEMMA SpeltIs ==
    ASSUME NEW config \in Taxonomy, NEW cat, NEW spelling
    PROVE  Spelt(Entries(config), cat, spelling) <=>
             \E c \in Candidates(config) : c.cat = cat /\ Spelling[c.sub] = spelling
  <1>1. ASSUME NEW c \in Candidates(config), c.cat = cat, Spelling[c.sub] = spelling
        PROVE  Spelt(Entries(config), cat, spelling)
    <2>1. <<c.cat, c.sub>> \in Entries(config) /\ c.sub # ""
        BY CandidatesAre DEF Forbidden
    <2> QED
        BY <1>1, <2>1 DEF Spelt
  <1>2. ASSUME NEW sub, sub # "", <<cat, sub>> \in Entries(config), Spelling[sub] = spelling
        PROVE  \E c \in Candidates(config) : c.cat = cat /\ Spelling[c.sub] = spelling
    <2>1. \A a, b : b # "" /\ <<a, b>> \in Entries(config) =>
                      \E c \in Candidates(config) : c.cat = a /\ c.sub = b
        BY CandidatesAre
    <2>2. PICK c \in Candidates(config) : c.cat = cat /\ c.sub = sub
        BY <1>2, <2>1
    <2> QED
        BY <1>2, <2>2
  <1> QED
      BY <1>1, <1>2 DEF Spelt

\* The entries that count are those with a subcategory.
LEMMA ClearOf ==
    ASSUME NEW more, NEW entries, Clear(entries),
           \A cat, sub : sub # "" /\ <<cat, sub>> \in more => <<cat, sub>> \in entries
    PROVE  Clear(more)
  <1>1. \A cat, s : Spelt(more, cat, s) => Spelt(entries, cat, s)
      BY DEF Spelt
  <1> QED
      BY <1>1 DEF Clear

LEMMA PublicIsClear == Clear(Entries(PublicTaxonomy))
  BY DEF Clear

(* A slug that the duplicate guard passes disturbs nothing.                 *)
LEMMA PassedIsClear ==
    ASSUME NEW config \in Taxonomy, NEW cat, NEW slug, Clear(Entries(config)),
           Entries(PublicTaxonomy) \subseteq Entries(config), slug \notin Forbidden,
           Passed(config, cat, slug)
    PROVE  Clear(Entries(config) \cup {<<cat, slug>>})
  <1> DEFINE old == Entries(config)
             new == old \cup {<<cat, slug>>}
             pub == Entries(PublicTaxonomy)
  <1>1. \A a, s : Spelt(new, a, s) => Spelt(old, a, s) \/ (a = cat /\ s = Spelling[slug])
      BY DEF Spelt
  <1>2. \A a, s : Spelt(pub, a, s) => Spelt(old, a, s)
      BY DEF Spelt
  <1>3. \/ \A a : ~Spelt(old, a, Spelling[slug])
        \/ Spelt(old, cat, Spelling[slug])
      BY SpeltIs DEF Passed
  <1> HIDE DEF old, new, pub
  <1> SUFFICES ASSUME NEW a, NEW b, NEW s, a # b, Spelt(new, a, s), Spelt(new, b, s)
               PROVE  Spelt(pub, a, s)
      BY DEF Clear, new, pub, old
  <1>4. \A x, y, z : x # y /\ Spelt(old, x, z) /\ Spelt(old, y, z) => Spelt(pub, x, z)
      BY DEF Clear, old, pub
  <1>5. CASE Spelt(old, cat, Spelling[slug])
      BY <1>1, <1>4, <1>5
  <1>6. CASE \A x : ~Spelt(old, x, Spelling[slug])
    <2>1. ~Spelt(old, a, s) \/ ~Spelt(old, b, s) => a = cat /\ b = cat
        BY <1>1, <1>6
    <2> QED
        BY <1>4, <2>1
  <1> QED
      BY <1>3, <1>5, <1>6

-----------------------------------------------------------------------------
(* The inductive invariant                                                  *)

CallRecord == [pc : {"idle", "category", "subcategory", "ensure", "rename", "put", "save", "saving", "done"},
         op : {"", "category", "ensure", "rename", "put"},
         arg : {<<>>} \cup Proposal \cup UserEdit, copy : Taxonomy, old : BOOLEAN, blind : BOOLEAN,
         cat : Slug \cup {""}, sub : Slug \cup Forbidden, asIs : BOOLEAN]

Active(k) == k.pc \notin {"idle", "done"}
Fresh(k) == Active(k) /\ ~k.old /\ ~k.blind
Grows(k) == k.op \in {"category", "ensure"}
Writes(k) == k.pc \in {"save", "saving"}
Copied(k) == Entries(k.copy)

\* What a call knows of its own, whatever the others do.
CallKept(k) ==
  /\ Distinct(k.copy)
  /\ k.pc \in {"category", "subcategory"} => k.op = "category" /\ k.sub = ""
  /\ k.pc \in {"ensure", "rename", "put"} => k.op = k.pc
  /\ k.pc # "idle" => k.op # ""
  /\ k.op = "category" => k.arg \in Proposal
  /\ k.op \in {"ensure", "rename", "put"} => k.arg \in UserEdit
  /\ k.pc = "subcategory" \/ (k.op = "category" /\ Writes(k) /\ k.sub = "") => k.cat \in Ids(k.copy)
  /\ Active(k) /\ Grows(k) => Entries(PublicTaxonomy) \subseteq Copied(k)
  /\ Writes(k) /\ Grows(k) /\ ~k.asIs /\ k.sub # "" => k.sub \in Forbidden \/ <<k.cat, k.sub>> \in Copied(k)
  /\ Writes(k) /\ k.op = "rename" /\ k.sub # "" =>
       /\ k.sub = k.arg.sub /\ PublicFree(k.arg) /\ LeadsIn(k.copy, k.arg)

\* A save in progress has told what it is.
SaverKept(k) ==
  k.pc = "saving" =>
    /\ k.op # "category" => edited
    /\ k.op \in {"rename", "put"} => shrunk
    /\ Steady => ~k.old /\ ~k.blind /\ (k.op \in {"rename", "put"} => renamed = {})

\* What a call has read is true, what it saves forgets nothing that is, and
\* what it has returned is true as well: T is what the overlay held last.
CallTrue(k, T) ==
  /\ Fresh(k) /\ Grows(k) => T \subseteq Copied(k)
  /\ k.pc \in {"category", "subcategory", "ensure"} => Copied(k) \subseteq T
  /\ k.pc = "done" /\ Grows(k) /\ ~k.asIs => k.sub \in Forbidden \/ <<k.cat, k.sub>> \in T

Truth(T) ==
  /\ Entries(PublicTaxonomy) \subseteq T
  /\ overlay.ok => Entries(Config) = T
  /\ \A h \in ToSet(hints) : <<h.toCat, h.toSub>> \in T
  /\ \A c \in Callers : CallTrue(caller[c], T)

CallClear(k) == Active(k) /\ k.op = "category" => Clear(Copied(k))

CallLeads(k, r) == Fresh(k) /\ Grows(k) => LeadsIn(k.copy, r)

TaxTyped ==
  /\ overlay \in [ok : BOOLEAN, cats : Taxonomy] /\ Distinct(overlay.cats)
  /\ ~overlay.ok => overlay.cats = <<>>
  /\ caller \in [Callers -> CallRecord]
  /\ stale \in BOOLEAN /\ lost \in BOOLEAN /\ edited \in BOOLEAN /\ shrunk \in BOOLEAN

HintsKept == hints \in Seq(ToSet(hints)) /\ Len(hints) <= MaxHints /\ IsInjective(hints)

OneSaver == ~stale => \A c, d \in Callers : caller[c].pc = "saving" /\ caller[d].pc = "saving" => c = d

TruthKept == Steady /\ ~shrunk => \E T : Truth(T)
ClearKept == ~edited => Clear(Entries(Config)) /\ \A c \in Callers : CallClear(caller[c])
LeadsKept ==
  Steady => \A r \in renamed :
    /\ PublicFree(r) /\ (overlay.ok => LeadsIn(Config, r))
    /\ \A c \in Callers : CallLeads(caller[c], r)

TaxInv ==
  /\ TaxTyped /\ HintsKept /\ OneSaver
  /\ \A c \in Callers : CallKept(caller[c]) /\ SaverKept(caller[c])
  /\ TruthKept /\ ClearKept /\ LeadsKept

LEMMA ConfigIs ==
    ASSUME TaxTyped
    PROVE  /\ Config \in Taxonomy /\ Distinct(Config)
           /\ Entries(Config) = Entries(PublicTaxonomy) \cup Entries(overlay.cats)
           /\ ~overlay.ok => Entries(Config) = Entries(PublicTaxonomy)
  <1>1. overlay.cats \in Taxonomy /\ Distinct(overlay.cats)
      BY DEF TaxTyped
  <1>2. /\ Config \in Taxonomy /\ Distinct(Config)
        /\ Entries(Config) = Entries(PublicTaxonomy) \cup Entries(overlay.cats)
      BY <1>1, LoadedIs DEF Config
  <1>3. ~overlay.ok => overlay.cats = <<>>
      BY DEF TaxTyped
  <1>4. Entries(<<>>) = {}
      BY DEF Entries, ToSet
  <1> QED
      BY <1>2, <1>3, <1>4

NoNewSaver == \A c \in Callers : caller'[c].pc = "saving" => caller[c].pc = "saving"

(* A step that moves one call and leaves the overlay alone.                 *)
LEMMA OneCallMoves ==
    ASSUME TaxInv, NEW c \in Callers, NEW k \in CallRecord, k.pc # "saving",
           caller' = [caller EXCEPT ![c] = k],
           UNCHANGED <<overlay, stale, edited, shrunk, lost, renamed>>,
           CallKept(k), HintsKept',
           ~edited => CallClear(k),
           \A T : Steady /\ ~shrunk /\ Truth(T) =>
             CallTrue(k, T) /\ \A h \in ToSet(hints') : <<h.toCat, h.toSub>> \in T,
           \A r : Steady /\ r \in renamed => CallLeads(k, r)
    PROVE  TaxInv'
  <1>1. caller \in [Callers -> CallRecord]
      BY DEF TaxInv, TaxTyped
  <1>2. caller'[c] = k /\ \A d \in Callers : d # c => caller'[d] = caller[d]
      BY <1>1
  <1>3. Config' = Config
      BY DEF Config
  <1>4. TaxTyped'
    <2>1. caller' \in [Callers -> CallRecord]
        BY <1>1
    <2> QED
        BY <2>1 DEF TaxInv, TaxTyped
  <1>5. OneSaver'
      BY <1>2 DEF TaxInv, OneSaver
  <1>6. ASSUME NEW d \in Callers PROVE (CallKept(caller[d]) /\ SaverKept(caller[d]))'
    <2>1. CASE d = c
        BY <1>2, <2>1 DEF SaverKept
    <2>2. CASE d # c
      <3>1. CallKept(caller[d]) /\ SaverKept(caller[d])
          BY DEF TaxInv
      <3>2. caller'[d] = caller[d]
          BY <1>2, <2>2
      <3>3. CallKept(caller'[d])
          BY <3>1, <3>2
      <3>4. SaverKept(caller[d])'
          BY <3>1, <3>2 DEF SaverKept, Steady
      <3> QED
          BY <3>3, <3>4
    <2> QED
        BY <2>1, <2>2
  <1>7. TruthKept'
    <2> SUFFICES ASSUME Steady', ~shrunk' PROVE (\E T : Truth(T))'
        BY DEF TruthKept
    <2>1. Steady /\ ~shrunk
        BY DEF Steady
    <2>2. PICK T : Truth(T)
        BY <2>1 DEF TaxInv, TruthKept
    <2>3. CallTrue(k, T) /\ \A h \in ToSet(hints') : <<h.toCat, h.toSub>> \in T
        BY <2>1, <2>2
    <2>4. \A d \in Callers : CallTrue(caller'[d], T)
        BY <1>2, <2>2, <2>3 DEF Truth
    <2>5. Truth(T)'
        BY <1>3, <2>2, <2>3, <2>4 DEF Truth
    <2> QED
        BY <2>5
  <1>8. ClearKept'
      BY <1>2, <1>3 DEF TaxInv, ClearKept
  <1>9. LeadsKept'
    <2> SUFFICES ASSUME Steady', NEW r \in renamed'
                 PROVE  /\ PublicFree(r) /\ (overlay'.ok => LeadsIn(Config', r))
                        /\ \A d \in Callers : CallLeads(caller'[d], r)
        BY DEF LeadsKept
    <2>1. Steady /\ r \in renamed
        BY DEF Steady
    <2>2. /\ PublicFree(r) /\ (overlay.ok => LeadsIn(Config, r))
          /\ \A d \in Callers : CallLeads(caller[d], r)
        BY <2>1 DEF TaxInv, LeadsKept
    <2> QED
        BY <1>2, <1>3, <2>1, <2>2
  <1> QED
      BY <1>4, <1>5, <1>6, <1>7, <1>8, <1>9 DEF TaxInv

LEMMA LoadKept ==
    ASSUME TaxInv, NEW c \in Callers, NEW op, NEW arg, Load(c, op, arg),
           \/ op = "category" /\ arg \in Proposal
           \/ op \in {"ensure", "rename", "put"} /\ arg \in UserEdit
    PROVE  TaxInv'
  <1> DEFINE k == [NoCall EXCEPT !.pc = op, !.op = op, !.arg = arg, !.copy = Config, !.blind = ~overlay.ok]
  <1>2. /\ k.pc = op /\ k.op = op /\ k.arg = arg /\ k.copy = Config /\ k.old = FALSE
        /\ k.blind = ~overlay.ok /\ k.cat = "" /\ k.sub = "" /\ k.asIs = FALSE
      BY DEF NoCall
  <1>3. TaxTyped /\ overlay.ok \in BOOLEAN
      BY DEF TaxInv, TaxTyped
  <1>4. /\ Config \in Taxonomy /\ Distinct(Config)
        /\ Entries(Config) = Entries(PublicTaxonomy) \cup Entries(overlay.cats)
        /\ ~overlay.ok => Entries(Config) = Entries(PublicTaxonomy)
      BY <1>3, ConfigIs
  <1>5. k \in CallRecord
    <2>1. NoCall \in CallRecord
        BY DEF NoCall, CallRecord, Forbidden, Taxonomy
    <2>2. \A n \in CallRecord, x \in Taxonomy, b \in BOOLEAN :
            [n EXCEPT !.pc = op, !.op = op, !.arg = arg, !.copy = x, !.blind = b] \in CallRecord
        BY DEF CallRecord
    <2> QED
        BY <1>3, <1>4, <2>1, <2>2
  <1>6. /\ caller' = [caller EXCEPT ![c] = k]
        /\ UNCHANGED <<overlay, hints, stale, edited, shrunk, lost, renamed>>
      BY DEF Load
  <1> HIDE DEF k
  <1>7. CallKept(k)
      BY <1>2, <1>4 DEF CallKept, Copied, Writes
  <1>8. HintsKept'
      BY <1>6 DEF TaxInv, HintsKept
  <1>9. ~edited => CallClear(k)
      BY <1>2 DEF TaxInv, ClearKept, CallClear, Copied
  <1>10. ASSUME NEW T, Steady, ~shrunk, Truth(T)
         PROVE  CallTrue(k, T) /\ \A h \in ToSet(hints') : <<h.toCat, h.toSub>> \in T
    <2>1. Entries(Config) \subseteq T /\ (overlay.ok => T \subseteq Entries(Config))
        BY <1>4, <1>10 DEF Truth
    <2>2. CallTrue(k, T)
        BY <1>2, <2>1 DEF CallTrue, Fresh, Copied
    <2> QED
        BY <1>6, <1>10, <2>2 DEF Truth
  <1>11. ASSUME NEW r, Steady, r \in renamed PROVE CallLeads(k, r)
      BY <1>2, <1>11 DEF TaxInv, LeadsKept, CallLeads, Fresh
  <1> QED
      BY <1>2, <1>5, <1>6, <1>7, <1>8, <1>9, <1>10, <1>11, OneCallMoves

LEMMA HintedIs ==
    ASSUME NEW list, list \in Seq(ToSet(list)), Len(list) <= MaxHints, IsInjective(list),
           NEW p, NEW conflict, NEW more, more = Hinted(list, p, conflict)
    PROVE  /\ more \in Seq(ToSet(more)) /\ Len(more) <= MaxHints /\ IsInjective(more)
           /\ \A h \in ToSet(more) :
                h \in ToSet(list) \/ \E k \in conflict : h.toCat = k.cat /\ h.toSub = k.sub
  <1>m. MaxHints \in Nat
      BY TaxonomyAssumption
  <1>1. CASE conflict = {} \/ \E k \in conflict : HintOf(p, k) \in ToSet(list)
    <2>1. more = list
        BY <1>1 DEF Hinted
    <2> QED
        BY <2>1
  <1>2. CASE ~(conflict = {} \/ \E k \in conflict : HintOf(p, k) \in ToSet(list))
    <2> DEFINE k == CHOOSE k \in conflict : TRUE
               h == HintOf(p, k)
               X == ToSet(list) \cup {h}
               all == <<h>> \o list
               n == IF Len(all) < MaxHints THEN Len(all) ELSE MaxHints
    <2>1. k \in conflict /\ h \notin ToSet(list)
        BY <1>2
    <2>2. more = SubSeq(all, 1, n)
        BY <1>2 DEF Hinted, Newest
    <2>3. h.toCat = k.cat /\ h.toSub = k.sub
        BY DEF HintOf
    <2> HIDE DEF k, h
    <2>4. list \in Seq(X) /\ <<h>> \in Seq(X) /\ Len(<<h>>) = 1 /\ <<h>>[1] = h
      <3>1. \A i \in 1..Len(list) : list[i] \in ToSet(list)
          BY DEF ToSet
      <3> QED
          BY <3>1
    <2>5. /\ all \in Seq(X) /\ Len(all) = 1 + Len(list)
          /\ all[1] = h /\ \A i \in 2..Len(all) : all[i] = list[i - 1]
      <3>1. /\ all \in Seq(X) /\ Len(all) = Len(<<h>>) + Len(list)
            /\ \A i \in 1..(Len(<<h>>) + Len(list)) :
                 all[i] = IF i <= Len(<<h>>) THEN <<h>>[i] ELSE list[i - Len(<<h>>)]
          BY <2>4, ConcatProperties
      <3>2. Len(list) \in Nat
          OBVIOUS
      <3> HIDE DEF all
      <3> QED
          BY <2>4, <3>1, <3>2
    <2> HIDE DEF all
    <2>l. Len(list) \in Nat /\ DOMAIN list = 1..Len(list)
        OBVIOUS
    <2>6. n \in Nat /\ n <= MaxHints /\ n <= Len(all)
        BY <1>m, <2>5, <2>l
    <2> HIDE DEF n
    <2>7. \A i \in 1..n : all[i] \in X
        BY <2>5, <2>6, <2>l
    <2>8. more \in Seq(X) /\ Len(more) = n /\ \A i \in 1..n : more[i] = all[i]
      <3>1. /\ SubSeq(all, 1, n) \in Seq(X)
            /\ Len(SubSeq(all, 1, n)) = IF 1 <= n THEN n - 1 + 1 ELSE 0
            /\ \A i \in 1..(n - 1 + 1) : SubSeq(all, 1, n)[i] = all[1 + i - 1]
          BY <2>6, <2>7, SubSeqProperties
      <3> QED
          BY <2>2, <2>6, <3>1
    <2>9. DOMAIN more = 1..n
        BY <2>8
    <2>10. more \in Seq(ToSet(more))
      <3>1. \A i \in 1..n : more[i] \in ToSet(more)
          BY <2>9 DEF ToSet
      <3> QED
          BY <2>6, <2>8, <2>9, <3>1
    <2>11. IsInjective(more)
      <3> SUFFICES ASSUME NEW i \in 1..n, NEW j \in 1..n, more[i] = more[j] PROVE i = j
          BY <2>9 DEF IsInjective
      <3>1. all[i] = all[j]
          BY <2>8
      <3>2. \A m \in 2..Len(all) : m - 1 \in 1..Len(list) /\ all[m] = list[m - 1] /\ all[m] \in ToSet(list)
          BY <2>5, <2>l DEF ToSet
      <3>3. i \in 1..Len(all) /\ j \in 1..Len(all)
          BY <2>5, <2>6, <2>l
      <3>4. CASE i = 1
          BY <2>1, <2>5, <2>l, <3>1, <3>2, <3>3, <3>4
      <3>5. CASE j = 1
          BY <2>1, <2>5, <2>l, <3>1, <3>2, <3>3, <3>5
      <3>6. CASE i # 1 /\ j # 1
        <4>1. i \in 2..Len(all) /\ j \in 2..Len(all)
            BY <2>5, <2>l, <3>3, <3>6
        <4>2. list[i - 1] = list[j - 1] /\ i - 1 \in DOMAIN list /\ j - 1 \in DOMAIN list
            BY <2>l, <3>1, <3>2, <4>1
        <4>3. i - 1 = j - 1
            BY <4>2 DEF IsInjective
        <4> QED
            BY <4>3
      <3> QED
          BY <3>4, <3>5, <3>6
    <2>12. \A x \in ToSet(more) : x \in X
        BY <2>8, <2>9 DEF ToSet
    <2> QED
        BY <2>1, <2>3, <2>6, <2>8, <2>10, <2>11, <2>12
  <1> QED
      BY <1>1, <1>2

LEMMA CallIs ==
    ASSUME NEW k \in CallRecord
    PROVE  /\ k.copy \in Taxonomy /\ k.old \in BOOLEAN /\ k.blind \in BOOLEAN /\ k.asIs \in BOOLEAN
           /\ k.cat \in Slug \cup {""} /\ k.sub \in Slug \cup Forbidden
           /\ k.pc \in {"idle", "category", "subcategory", "ensure", "rename", "put", "save", "saving", "done"}
           /\ k.op \in {"", "category", "ensure", "rename", "put"}
  BY DEF CallRecord

LEMMA ResolveCategoryKept ==
    ASSUME TaxInv, NEW c \in Callers, ResolveCategoryStep(c)
    PROVE  TaxInv' /\ NoNewSaver
  <1> DEFINE was == caller[c]
             p == Proposed(was.arg)
             n == CategorySlug(p.cat)
             r == ResolveCategory(was.copy, n)
             pc == IF r.isNew THEN "save" ELSE "subcategory"
             k == [was EXCEPT !.pc = pc, !.copy = r.config, !.cat = r.id]
  <1>1. /\ was.pc = "category" /\ hints' = Hinted(hints, p, r.conflict)
        /\ caller' = [caller EXCEPT ![c] = k]
        /\ UNCHANGED <<overlay, stale, edited, shrunk, lost, renamed>>
      BY DEF ResolveCategoryStep
  <1>2. was \in CallRecord /\ CallKept(was)
      BY DEF TaxInv, TaxTyped
  <1> HIDE DEF was
  <1>3. was.copy \in Taxonomy /\ Distinct(was.copy) /\ was.op = "category" /\ was.arg \in Proposal /\ was.sub = ""
      BY <1>1, <1>2, CallIs DEF CallKept
  <1>4. n \in Slug
    <2>1. p.cat \in Slug
        BY <1>3, ProposedIs
    <2> QED
        BY <2>1, TaxonomyAssumption DEF CategorySlug
  <1>r. r = ResolveCategory(was.copy, n)
      OBVIOUS
  <1> HIDE DEF p, n, r
  <1>5. /\ r.config \in Taxonomy /\ Distinct(r.config) /\ r.id \in Ids(r.config) /\ r.isNew \in BOOLEAN
        /\ ~r.isNew => r.config = was.copy
        /\ Entries(was.copy) \subseteq Entries(r.config)
        /\ Entries(r.config) \subseteq Entries(was.copy) \cup {<<n, "">>}
        /\ ToSet(was.copy) \subseteq ToSet(r.config)
        /\ \A x \in r.conflict : <<x.cat, x.sub>> \in Entries(was.copy)
    <2>1. /\ r.config \in Taxonomy /\ (Distinct(was.copy) => Distinct(r.config))
          /\ r.id \in Ids(r.config)
          /\ r.isNew \in BOOLEAN /\ (~r.isNew => r.config = was.copy)
          /\ Entries(was.copy) \subseteq Entries(r.config)
          /\ Entries(r.config) \subseteq Entries(was.copy) \cup {<<n, "">>}
          /\ ToSet(was.copy) \subseteq ToSet(r.config)
          /\ \A x \in r.conflict : <<x.cat, x.sub>> \in Entries(was.copy)
      <3> DEFINE config == was.copy
                 slug == n
      <3>1. config \in Taxonomy /\ slug \in Slug /\ r = ResolveCategory(config, slug)
          BY <1>3, <1>4, <1>r
      <3> HIDE DEF config, slug
      <3>2. /\ r.config \in Taxonomy /\ (Distinct(config) => Distinct(r.config))
            /\ r.id \in Ids(r.config)
            /\ r.isNew \in BOOLEAN /\ (~r.isNew => r.config = config)
            /\ Entries(config) \subseteq Entries(r.config)
            /\ Entries(r.config) \subseteq Entries(config) \cup {<<slug, "">>}
            /\ ToSet(config) \subseteq ToSet(r.config)
            /\ \A x \in r.conflict : <<x.cat, x.sub>> \in Entries(config)
          BY <3>1, CategoryResolved
      <3> QED
          BY <3>2 DEF config, slug
    <2> QED
        BY <1>3, <2>1
  <1>6. r.id \in Slug
      BY <1>5, IdsOfEntries, EntriesTyped
  <1>7. k \in CallRecord
    <2>1. \A q \in {"save", "subcategory"}, x \in Taxonomy, s \in Slug :
            [was EXCEPT !.pc = q, !.copy = x, !.cat = s] \in CallRecord
        BY <1>2 DEF CallRecord
    <2> QED
        BY <1>5, <1>6, <2>1
  <1>8. /\ k.pc = pc /\ k.copy = r.config /\ k.cat = r.id /\ k.op = "category" /\ k.arg = was.arg
        /\ k.sub = "" /\ k.old = was.old /\ k.blind = was.blind /\ k.asIs = was.asIs
      BY <1>2, <1>3 DEF CallRecord
  <1>9. pc \in {"save", "subcategory"} /\ (pc = "subcategory" => r.config = was.copy)
      BY <1>5
  <1> HIDE DEF k, pc
  <1>10. Entries(PublicTaxonomy) \subseteq Entries(was.copy)
      BY <1>1, <1>2, <1>3 DEF CallKept, Active, Grows, Copied
  <1>11. CallKept(k)
      BY <1>3, <1>5, <1>8, <1>9, <1>10 DEF CallKept, Copied, Writes, Grows
  <1>12. HintsKept' /\ \A h \in ToSet(hints') :
           h \in ToSet(hints) \/ \E x \in r.conflict : h.toCat = x.cat /\ h.toSub = x.sub
      BY <1>1, HintedIs DEF TaxInv, HintsKept
  <1>13. ~edited => CallClear(k)
    <2>1. ~edited => Clear(Entries(was.copy))
        BY <1>1, <1>3 DEF TaxInv, ClearKept, CallClear, Copied, Active, was
    <2>2. \A a, b : b # "" /\ <<a, b>> \in Entries(r.config) => <<a, b>> \in Entries(was.copy)
        BY <1>5
    <2> QED
        BY <1>8, <2>1, <2>2, ClearOf DEF CallClear, Copied
  <1>14. ASSUME NEW T, Steady, ~shrunk, Truth(T)
         PROVE  CallTrue(k, T) /\ \A h \in ToSet(hints') : <<h.toCat, h.toSub>> \in T
    <2>1. CallTrue(was, T)
        BY <1>14 DEF Truth, was
    <2>2. Entries(was.copy) \subseteq T /\ (Fresh(k) => T \subseteq Entries(was.copy))
        BY <1>1, <1>3, <1>8, <2>1 DEF CallTrue, Copied, Fresh, Active, Grows
    <2>3. CallTrue(k, T)
        BY <1>5, <1>8, <1>9, <2>2 DEF CallTrue, Copied
    <2>4. \A x \in r.conflict : <<x.cat, x.sub>> \in T
        BY <1>5, <2>2
    <2>5. \A h \in ToSet(hints) : <<h.toCat, h.toSub>> \in T
        BY <1>14 DEF Truth
    <2> QED
        BY <1>12, <2>3, <2>4, <2>5
  <1>15. ASSUME NEW x, Steady, x \in renamed PROVE CallLeads(k, x)
    <2>1. CallLeads(was, x)
        BY <1>15 DEF TaxInv, LeadsKept, was
    <2>2. LeadsIn(was.copy, x) => LeadsIn(r.config, x)
        BY <1>5 DEF LeadsIn
    <2> QED
        BY <1>1, <1>3, <1>8, <1>9, <2>1, <2>2 DEF CallLeads, Fresh, Active, Grows
  <1>16. k.pc # "saving"
      BY <1>8, <1>9
  <1>17. NoNewSaver
      BY <1>1, <1>16 DEF NoNewSaver, TaxInv, TaxTyped
  <1> QED
      BY <1>1, <1>7, <1>11, <1>12, <1>13, <1>14, <1>15, <1>16, <1>17, OneCallMoves

LEMMA ResolveSubcategoryKept ==
    ASSUME TaxInv, NEW c \in Callers, ResolveSubcategoryStep(c)
    PROVE  TaxInv' /\ NoNewSaver
  <1> DEFINE was == caller[c]
             p == Proposed(was.arg)
             r == ResolveSubcategory(was.copy, was.cat, SubcategorySlug(p.sub), p.grounded, p.rule.sub)
             named == CHOOSE x \in r.conflict : TRUE
             place == IF r.conflict = {} THEN was.cat ELSE named.cat
             rejected == r.id = "general" /\ p.sub # "general"
             given    == rejected /\ p.rule.sub # "general"
             payslip  == rejected /\ ~given /\ place = "bulletin_salaire"
             pc == IF r.isNew THEN "save" ELSE "done"
             cat == IF given THEN p.rule.cat ELSE place
             sub == IF given THEN p.rule.sub ELSE IF payslip THEN "bulletin_salaire" ELSE r.id
             asIs == given \/ payslip
             k == [was EXCEPT !.pc = pc, !.copy = r.config, !.cat = cat, !.sub = sub, !.asIs = asIs]
  <1>1. /\ was.pc = "subcategory" /\ hints' = Hinted(hints, p, r.conflict)
        /\ caller' = [caller EXCEPT ![c] = k]
        /\ UNCHANGED <<overlay, stale, edited, shrunk, lost, renamed>>
    <2> DEFINE Moves(q, s) ==
          LET cat_   == IF s.conflict = {} THEN caller[c].cat ELSE (CHOOSE x \in s.conflict : TRUE).cat
              rejected_ == s.id = "general" /\ q.sub # "general"
              given_    == rejected_ /\ q.rule.sub # "general"
              payslip_  == rejected_ /\ ~given_ /\ cat_ = "bulletin_salaire"
          IN  caller' = [caller EXCEPT ![c] = [@ EXCEPT
                !.pc = IF s.isNew THEN "save" ELSE "done",
                !.copy = s.config,
                !.cat = IF given_ THEN q.rule.cat ELSE cat_,
                !.sub = IF given_ THEN q.rule.sub
                        ELSE IF payslip_ THEN "bulletin_salaire" ELSE s.id,
                !.asIs = given_ \/ payslip_]]
    <2>1. \E q \in {Proposed(caller[c].arg)} :
          \E s \in {ResolveSubcategory(caller[c].copy, caller[c].cat, SubcategorySlug(q.sub), q.grounded, q.rule.sub)} :
            hints' = Hinted(hints, q, s.conflict) /\ Moves(q, s)
        BY DEF ResolveSubcategoryStep
    <2>2. hints' = Hinted(hints, p, r.conflict) /\ Moves(p, r)
      <3> HIDE DEF Moves
      <3> QED
          BY <2>1
    <2>3. caller' = [caller EXCEPT ![c] = k]
      <3> HIDE DEF p, r
      <3> QED
          BY <2>2
    <2> QED
        BY <2>2, <2>3 DEF ResolveSubcategoryStep
  <1>2. was \in CallRecord /\ CallKept(was)
      BY DEF TaxInv, TaxTyped
  <1>w. was = caller[c]
      OBVIOUS
  <1> HIDE DEF was
  <1>3. /\ was.copy \in Taxonomy /\ Distinct(was.copy) /\ was.op = "category" /\ was.arg \in Proposal
        /\ was.cat \in Ids(was.copy)
      BY <1>1, <1>2, CallIs DEF CallKept
  <1>4. SubcategorySlug(p.sub) \in Slug /\ p.rule.cat \in Slug /\ p.rule.sub \in Slug
    <2>1. p.sub \in Slug /\ p.rule.cat \in Slug /\ p.rule.sub \in Slug
        BY <1>3, ProposedIs
    <2> QED
        BY <2>1, TaxonomyAssumption DEF SubcategorySlug
  <1> HIDE DEF p
  <1>r. Resolved(was.copy, was.cat, r)
      BY <1>3, <1>4, SubcategoryResolved
  <1> HIDE DEF r
  <1>5. /\ r.isNew \in BOOLEAN
        /\ \A x \in r.conflict : <<x.cat, x.sub>> \in Entries(was.copy)
        /\ r.isNew => /\ r.conflict = {} /\ r.id \in Slug /\ r.id # "general"
                      /\ Passed(was.copy, was.cat, r.id) /\ r.config = WithSub(was.copy, was.cat, r.id)
        /\ ~r.isNew => r.config = was.copy
        /\ ~r.isNew /\ r.conflict = {} => r.id \in Forbidden \/ <<was.cat, r.id>> \in Entries(was.copy)
        /\ r.conflict # {} => r.id = named.sub
      BY <1>r, TaxonomyAssumption DEF Resolved
  <1>n. r.conflict # {} => named \in r.conflict
      OBVIOUS
  <1> HIDE DEF named
  <1>6. /\ r.config \in Taxonomy /\ Distinct(r.config) /\ Ids(r.config) = Ids(was.copy)
        /\ Entries(was.copy) \subseteq Entries(r.config)
        /\ r.isNew /\ r.id \in Forbidden => Entries(r.config) = Entries(was.copy)
        /\ r.isNew /\ r.id \notin Forbidden => Entries(r.config) = Entries(was.copy) \cup {<<was.cat, r.id>>}
    <2>1. CASE ~r.isNew
        BY <1>3, <1>5, <2>1
    <2>2. CASE r.isNew
      <3>1. r.id \in Slug /\ r.config = WithSub(was.copy, was.cat, r.id)
          BY <1>5, <2>2
      <3>2. /\ r.config \in Taxonomy /\ (Distinct(was.copy) => Distinct(r.config))
            /\ Ids(r.config) = Ids(was.copy)
            /\ r.id \in Forbidden => Entries(r.config) = Entries(was.copy)
            /\ r.id \notin Forbidden => Entries(r.config) = Entries(was.copy) \cup {<<was.cat, r.id>>}
          BY <1>3, <3>1, AppendedSubcategory
      <3> QED
          BY <1>3, <3>2
    <2> QED
        BY <1>5, <2>1, <2>2
  <1>7. was.cat \in Slug /\ (r.conflict # {} => named.cat \in Slug)
      BY <1>3, <1>5, <1>n, IdsOfEntries, EntriesTyped
  <1>8. r.id \in Slug \cup Forbidden
    <2>1. CASE r.isNew
        BY <1>5, <2>1
    <2>2. CASE r.conflict # {}
        BY <1>3, <1>5, <1>n, <2>2, EntriesTyped
    <2>3. CASE ~r.isNew /\ r.conflict = {}
        BY <1>3, <1>5, <2>3, EntriesTyped
    <2> QED
        BY <1>5, <2>1, <2>2, <2>3
  <1>9. /\ ~asIs => cat = place /\ sub = r.id
        /\ r.isNew => ~given /\ ~payslip /\ cat = was.cat /\ sub = r.id
        /\ asIs \in BOOLEAN
      BY <1>5
  <1>10. cat \in Slug /\ sub \in Slug \cup Forbidden
    <2>1. place \in Slug
        BY <1>7
    <2>2. "bulletin_salaire" \in Slug
        BY TaxonomyAssumption
    <2> QED
        BY <1>4, <1>8, <2>1, <2>2
  <1>p. place = IF r.conflict = {} THEN was.cat ELSE named.cat
      OBVIOUS
  <1> HIDE DEF cat, sub, asIs, given, payslip, rejected, place
  <1>11. /\ pc \in {"save", "done"} /\ (r.isNew <=> pc = "save")
      BY <1>5
  <1> HIDE DEF pc
  <1>12. k \in CallRecord
    <2>1. \A q \in {"save", "done"}, x \in Taxonomy, s \in Slug, t \in Slug \cup Forbidden, b \in BOOLEAN :
            [was EXCEPT !.pc = q, !.copy = x, !.cat = s, !.sub = t, !.asIs = b] \in CallRecord
        BY <1>2 DEF CallRecord
    <2> QED
        BY <1>6, <1>9, <1>10, <1>11, <2>1
  <1>13. /\ k.pc = pc /\ k.copy = r.config /\ k.cat = cat /\ k.op = "category" /\ k.arg = was.arg
         /\ k.sub = sub /\ k.old = was.old /\ k.blind = was.blind /\ k.asIs = asIs
      BY <1>2, <1>3 DEF CallRecord
  <1> HIDE DEF k
  <1>14. Entries(PublicTaxonomy) \subseteq Entries(was.copy)
      BY <1>1, <1>2, <1>3 DEF CallKept, Active, Grows, Copied
  <1>15. CallKept(k)
    <2>1. k.pc = "save" => k.cat = was.cat /\ k.sub = r.id
        BY <1>9, <1>11, <1>13
    <2>2. k.pc = "save" => k.sub \in Forbidden \/ <<k.cat, k.sub>> \in Entries(k.copy)
        BY <1>6, <1>11, <1>13, <2>1
    <2>3. k.pc = "save" => k.cat \in Ids(k.copy)
        BY <1>3, <1>6, <1>13, <2>1
    <2>4. Entries(PublicTaxonomy) \subseteq Entries(k.copy) /\ Distinct(k.copy)
        BY <1>6, <1>13, <1>14
    <2> QED
        BY <1>3, <1>11, <1>13, <2>2, <2>3, <2>4 DEF CallKept, Copied, Writes, Grows
  <1>16. HintsKept' /\ \A h \in ToSet(hints') :
           h \in ToSet(hints) \/ \E x \in r.conflict : h.toCat = x.cat /\ h.toSub = x.sub
      BY <1>1, HintedIs DEF TaxInv, HintsKept
  <1>17. ~edited => CallClear(k)
    <2> SUFFICES ASSUME ~edited, k.pc = "save" PROVE Clear(Entries(r.config))
        BY <1>11, <1>13 DEF CallClear, Copied, Active
    <2>1. Clear(Entries(was.copy))
        BY <1>1, <1>3, <1>w DEF TaxInv, ClearKept, CallClear, Copied, Active
    <2>2. r.isNew /\ Passed(was.copy, was.cat, r.id)
        BY <1>5, <1>11, <1>13
    <2>3. CASE r.id \in Forbidden
        BY <1>6, <2>1, <2>2, <2>3
    <2>4. CASE r.id \notin Forbidden
      <3>1. Clear(Entries(was.copy) \cup {<<was.cat, r.id>>})
          BY <1>3, <1>14, <2>1, <2>2, <2>4, PassedIsClear
      <3> QED
          BY <1>6, <2>2, <2>4, <3>1
    <2> QED
        BY <2>3, <2>4
  <1>18. ASSUME NEW T, Steady, ~shrunk, Truth(T)
         PROVE  CallTrue(k, T) /\ \A h \in ToSet(hints') : <<h.toCat, h.toSub>> \in T
    <2>1. CallTrue(was, T)
        BY <1>18, <1>w DEF Truth
    <2>2. Entries(was.copy) \subseteq T /\ (Fresh(k) => T \subseteq Entries(was.copy))
        BY <1>1, <1>3, <1>13, <2>1 DEF CallTrue, Copied, Fresh, Active, Grows
    <2>3. k.pc = "done" /\ ~k.asIs => k.sub \in Forbidden \/ <<k.cat, k.sub>> \in T
      <3> SUFFICES ASSUME k.pc = "done", ~asIs PROVE r.id \in Forbidden \/ <<place, r.id>> \in T
          BY <1>9, <1>13
      <3>1. ~r.isNew
          BY <1>11, <1>13
      <3>2. CASE r.conflict = {}
          BY <1>5, <1>p, <2>2, <3>1, <3>2
      <3>3. CASE r.conflict # {}
        <4>1. place = named.cat /\ r.id = named.sub /\ <<named.cat, named.sub>> \in Entries(was.copy)
            BY <1>5, <1>n, <1>p, <3>3
        <4> QED
            BY <2>2, <4>1
      <3> QED
          BY <3>2, <3>3
    <2>4. CallTrue(k, T)
        BY <1>6, <1>11, <1>13, <2>2, <2>3 DEF CallTrue, Copied
    <2>5. \A x \in r.conflict : <<x.cat, x.sub>> \in T
        BY <1>5, <2>2
    <2>6. \A h \in ToSet(hints) : <<h.toCat, h.toSub>> \in T
        BY <1>18 DEF Truth
    <2> QED
        BY <1>16, <2>4, <2>5, <2>6
  <1>19. ASSUME NEW x, Steady, x \in renamed PROVE CallLeads(k, x)
    <2>1. CallLeads(was, x)
        BY <1>19, <1>w DEF TaxInv, LeadsKept
    <2> SUFFICES ASSUME Fresh(k) PROVE LeadsIn(r.config, x)
        BY <1>13 DEF CallLeads
    <2>2. LeadsIn(was.copy, x)
        BY <1>1, <1>3, <1>13, <2>1 DEF CallLeads, Fresh, Active, Grows
    <2>3. r.isNew
        BY <1>11, <1>13 DEF Fresh, Active
    <2>4. r.id \in Slug /\ r.config = WithSub(was.copy, was.cat, r.id)
        BY <1>5, <2>3
    <2> QED
        BY <1>3, <2>2, <2>4, LeadsGrown
  <1>20. k.pc # "saving"
      BY <1>11, <1>13
  <1>21. NoNewSaver
      BY <1>1, <1>20 DEF NoNewSaver, TaxInv, TaxTyped
  <1> QED
      BY <1>1, <1>12, <1>15, <1>16, <1>17, <1>18, <1>19, <1>20, <1>21, OneCallMoves

LEMMA EnsureKept ==
    ASSUME TaxInv, NEW c \in Callers, EnsureStep(c)
    PROVE  TaxInv'
  <1> DEFINE was == caller[c]
             a == was.arg
             copy == was.copy
             new == Ensured(copy, a.cat, a.sub)
             k == [was EXCEPT !.pc = "save", !.copy = new, !.cat = a.cat, !.sub = a.sub]
  <1>1. /\ was.pc = "ensure"
        /\ caller' = [caller EXCEPT ![c] = k]
        /\ UNCHANGED <<overlay, hints, stale, edited, shrunk, lost, renamed>>
      BY DEF EnsureStep, ToSave
  <1>2. was \in CallRecord /\ CallKept(was)
      BY DEF TaxInv, TaxTyped
  <1>w. was = caller[c]
      OBVIOUS
  <1> HIDE DEF was
  <1>3. copy \in Taxonomy /\ Distinct(copy) /\ was.op = "ensure" /\ a \in UserEdit
      BY <1>1, <1>2, CallIs DEF CallKept
  <1>c. was.copy = copy
      OBVIOUS
  <1>4. a.cat \in Slug /\ a.sub \in Slug
      BY <1>3 DEF UserEdit
  <1>n. new = Ensured(copy, a.cat, a.sub)
      OBVIOUS
  <1> DEFINE cat == a.cat
             sub == a.sub
  <1>a. cat = a.cat /\ sub = a.sub /\ cat \in Slug /\ sub \in Slug /\ new = Ensured(copy, cat, sub)
      BY <1>4
  <1>k. k = [was EXCEPT !.pc = "save", !.copy = new, !.cat = cat, !.sub = sub]
      OBVIOUS
  <1> HIDE DEF a, copy, new, cat, sub, k
  <1>5. /\ new \in Taxonomy /\ Distinct(new)
        /\ Entries(copy) \subseteq Entries(new)
        /\ sub \in Forbidden \/ <<cat, sub>> \in Entries(new)
      BY <1>3, <1>a, EnsuredIs
  <1>6. k \in CallRecord
    <2>1. \A x \in Taxonomy, s \in Slug, t \in Slug :
            [was EXCEPT !.pc = "save", !.copy = x, !.cat = s, !.sub = t] \in CallRecord
        BY <1>2 DEF CallRecord
    <2> QED
        BY <1>5, <1>a, <1>k, <2>1
  <1>7. /\ k.pc = "save" /\ k.copy = new /\ k.cat = cat /\ k.op = "ensure" /\ k.arg = was.arg
        /\ k.sub = sub /\ k.old = was.old /\ k.blind = was.blind
      BY <1>2, <1>3, <1>k DEF CallRecord
  <1>8. Entries(PublicTaxonomy) \subseteq Entries(copy)
      BY <1>1, <1>2, <1>3, <1>c DEF CallKept, Active, Grows, Copied
  <1>9. CallKept(k)
    <2>1. k.arg \in UserEdit
        BY <1>2, <1>3, <1>7 DEF CallKept
    <2> QED
        BY <1>5, <1>7, <1>8, <2>1 DEF CallKept, Copied, Writes, Grows
  <1>10. HintsKept'
      BY <1>1 DEF TaxInv, HintsKept
  <1>11. CallClear(k)
      BY <1>7 DEF CallClear
  <1>12. ASSUME NEW T, Steady, ~shrunk, Truth(T)
         PROVE  CallTrue(k, T) /\ \A h \in ToSet(hints') : <<h.toCat, h.toSub>> \in T
    <2>1. CallTrue(was, T)
        BY <1>12, <1>w DEF Truth
    <2>2. Fresh(k) => T \subseteq Entries(copy)
        BY <1>1, <1>3, <1>7, <1>c, <2>1 DEF CallTrue, Copied, Fresh, Active, Grows
    <2>3. CallTrue(k, T)
        BY <1>5, <1>7, <2>2 DEF CallTrue, Copied
    <2> QED
        BY <1>1, <1>12, <2>3 DEF Truth
  <1>13. ASSUME NEW x, Steady, x \in renamed PROVE CallLeads(k, x)
    <2>1. CallLeads(was, x)
        BY <1>13, <1>w DEF TaxInv, LeadsKept
    <2>2. LeadsIn(copy, x) => LeadsIn(new, x)
        BY <1>3, <1>a, LeadsEnsured
    <2> QED
        BY <1>1, <1>3, <1>7, <1>c, <2>1, <2>2 DEF CallLeads, Fresh, Active, Grows
  <1> QED
      BY <1>1, <1>6, <1>7, <1>9, <1>10, <1>11, <1>12, <1>13, OneCallMoves

(* A call that takes something away: what it knows is what it renamed.      *)
LEMMA TakingKept ==
    ASSUME TaxInv, NEW c \in Callers, caller[c].pc \in {"rename", "put"},
           NEW new \in Taxonomy, Distinct(new), NEW sub \in Slug \cup Forbidden,
           caller[c].op = "rename" /\ sub # "" =>
             sub = caller[c].arg.sub /\ PublicFree(caller[c].arg) /\ LeadsIn(new, caller[c].arg),
           caller' = [caller EXCEPT ![c] = [caller[c] EXCEPT !.pc = "save", !.copy = new, !.sub = sub]],
           UNCHANGED <<overlay, hints, stale, edited, shrunk, lost, renamed>>
    PROVE  TaxInv'
  <1> DEFINE was == caller[c]
             k == [was EXCEPT !.pc = "save", !.copy = new, !.sub = sub]
  <1>1. was \in CallRecord /\ CallKept(was)
      BY DEF TaxInv, TaxTyped
  <1>2. was.op = was.pc /\ was.op \in {"rename", "put"} /\ was.arg \in UserEdit
      BY <1>1 DEF CallKept
  <1>3. caller' = [caller EXCEPT ![c] = k]
      OBVIOUS
  <1>t. was.op = "rename" /\ sub # "" => sub = was.arg.sub /\ PublicFree(was.arg) /\ LeadsIn(new, was.arg)
      OBVIOUS
  <1> HIDE DEF was
  <1>4. k \in CallRecord
      BY <1>1 DEF CallRecord
  <1>5. /\ k.pc = "save" /\ k.copy = new /\ k.op = was.op /\ k.arg = was.arg /\ k.sub = sub
      BY <1>1 DEF CallRecord
  <1> HIDE DEF k
  <1>6. CallKept(k)
      BY <1>2, <1>5, <1>t DEF CallKept, Writes, Grows
  <1>7. HintsKept'
      BY DEF TaxInv, HintsKept
  <1>8. CallClear(k)
      BY <1>2, <1>5 DEF CallClear
  <1>9. ASSUME NEW T, Steady, ~shrunk, Truth(T)
        PROVE  CallTrue(k, T) /\ \A h \in ToSet(hints') : <<h.toCat, h.toSub>> \in T
    <2>1. CallTrue(k, T)
        BY <1>2, <1>5 DEF CallTrue, Grows
    <2> QED
        BY <1>9, <2>1 DEF Truth
  <1>10. \A x : CallLeads(k, x)
      BY <1>2, <1>5 DEF CallLeads, Grows
  <1> QED
      BY <1>3, <1>4, <1>5, <1>6, <1>7, <1>8, <1>9, <1>10, OneCallMoves

LEMMA RenameKept ==
    ASSUME TaxInv, NEW c \in Callers, RenameStep(c)
    PROVE  TaxInv'
  <1> DEFINE was == caller[c]
             a == was.arg
             copy == was.copy
             new == MergeSubcategory(copy, a.cat, a.sub, a.to)
             sub == IF Tellable(copy, a) THEN a.sub ELSE ""
  <1>1. /\ was.pc = "rename"
        /\ caller' = [caller EXCEPT ![c] = [was EXCEPT !.pc = "save", !.copy = new, !.sub = sub]]
        /\ UNCHANGED <<overlay, hints, stale, edited, shrunk, lost, renamed>>
      BY DEF RenameStep, ToSave
  <1>2. was \in CallRecord /\ CallKept(was)
      BY DEF TaxInv, TaxTyped
  <1>3. copy \in Taxonomy /\ Distinct(copy) /\ was.op = "rename" /\ a \in UserEdit
      BY <1>1, <1>2, CallIs DEF CallKept
  <1>4. a.cat \in Slug /\ a.sub \in Slug /\ a.to \in Slug
      BY <1>3 DEF UserEdit
  <1>n. new = MergeSubcategory(copy, a.cat, a.sub, a.to)
      OBVIOUS
  <1>w. was = caller[c] /\ a = was.arg
      OBVIOUS
  <1>s. sub = IF Tellable(copy, a) THEN a.sub ELSE ""
      OBVIOUS
  <1> HIDE DEF was, a, copy, new, sub
  <1>5. /\ new \in Taxonomy /\ Distinct(new)
        /\ "" \notin {a.sub, a.to} => LeadsOn(copy, new, a.cat, a.sub, a.to)
    <2> DEFINE cat == a.cat
               from == a.sub
               to == a.to
    <2>1. cat \in Slug /\ from \in Slug /\ to \in Slug /\ new = MergeSubcategory(copy, cat, from, to)
        BY <1>4, <1>n
    <2> HIDE DEF cat, from, to
    <2>2. /\ new \in Taxonomy /\ Distinct(new)
          /\ "" \notin {from, to} => LeadsOn(copy, new, cat, from, to)
        BY <1>3, <2>1, RenamedIs
    <2> QED
        BY <2>2 DEF cat, from, to
  <1>6. ASSUME Tellable(copy, a) PROVE PublicFree(a) /\ LeadsIn(new, a)
    <2>1. PICK d \in ToSet(copy) : d.id = a.cat /\ a.sub \in Ids(d.subs)
        BY <1>6 DEF Tellable, Known, Ids
    <2>2. SubsOf(copy, a.cat) = d.subs
      <3>1. a.cat \in Ids(copy)
          BY <2>1 DEF Ids
      <3> QED
          BY <1>3, <2>1, <3>1, SubsOfAre
    <2>3. Tells(d.subs, a.sub, a.to)
        BY <1>6, <2>2 DEF Tellable, Tells
    <2>4. a.sub # "" /\ a.to # ""
        BY <1>6 DEF Tellable, Forbidden
    <2>5. LeadsIn(new, a)
        BY <1>5, <2>1, <2>3, <2>4 DEF LeadsOn, LeadsIn
    <2> QED
        BY <1>6, <2>5 DEF Tellable, PublicFree
  <1>7. sub \in Slug \cup Forbidden /\ (sub # "" => sub = a.sub /\ PublicFree(a) /\ LeadsIn(new, a))
      BY <1>4, <1>6, <1>s DEF Forbidden
  <1> QED
      BY <1>1, <1>5, <1>7, <1>w, TakingKept

LEMMA PutKept ==
    ASSUME TaxInv, NEW c \in Callers, PutStep(c)
    PROVE  TaxInv'
  <1> DEFINE was == caller[c]
             a == was.arg
             copy == was.copy
             new == [i \in DOMAIN copy |-> IF copy[i].id = a.cat
                       THEN [copy[i] EXCEPT !.subs = Without(@, {a.sub})] ELSE copy[i]]
  <1>1. /\ was.pc = "put"
        /\ caller' = [caller EXCEPT ![c] = [was EXCEPT !.pc = "save", !.copy = new]]
        /\ UNCHANGED <<overlay, hints, stale, edited, shrunk, lost, renamed>>
      BY DEF PutStep, ToSave
  <1>2. was \in CallRecord /\ CallKept(was)
      BY DEF TaxInv, TaxTyped
  <1>3. copy \in Taxonomy /\ Distinct(copy) /\ was.op = "put" /\ was.sub \in Slug \cup Forbidden
      BY <1>1, <1>2, CallIs DEF CallKept
  <1>4. new \in Taxonomy /\ Distinct(new)
    <2> DEFINE cat == a.cat
               sub == a.sub
    <2>1. new = [i \in DOMAIN copy |-> IF copy[i].id = cat
                   THEN [copy[i] EXCEPT !.subs = Without(@, {sub})] ELSE copy[i]]
        OBVIOUS
    <2> HIDE DEF cat, sub, copy, new, a, was
    <2> QED
        BY <1>3, <2>1, TakenOutIs
  <1>w. was = caller[c]
      OBVIOUS
  <1> HIDE DEF was, a, copy, new
  <1>5. [was EXCEPT !.pc = "save", !.copy = new] = [was EXCEPT !.pc = "save", !.copy = new, !.sub = was.sub]
      BY <1>2 DEF CallRecord
  <1> QED
      BY <1>1, <1>3, <1>4, <1>5, <1>w, TakingKept

LEMMA SaveBeginKept ==
    ASSUME TaxInv, NEW c \in Callers, SaveBegin(c)
    PROVE  TaxInv'
  <1> DEFINE was == caller[c]
             k == [was EXCEPT !.pc = "saving"]
  <1>1. /\ was.pc = "save" /\ overlay' = Torn /\ caller' = [caller EXCEPT ![c] = k] /\ hints' = hints
        /\ stale' = (stale \/ was.old \/ \E d \in Callers : caller[d].pc = "saving")
        /\ lost' = (lost \/ was.blind)
        /\ edited' = (edited \/ was.op # "category")
        /\ shrunk' = (shrunk \/ was.op \in {"rename", "put"})
        /\ renamed' = IF was.op \in {"rename", "put"} THEN {} ELSE renamed
      BY DEF SaveBegin
  <1>2. /\ was \in CallRecord /\ CallKept(was) /\ caller \in [Callers -> CallRecord]
        /\ stale \in BOOLEAN /\ lost \in BOOLEAN /\ edited \in BOOLEAN /\ shrunk \in BOOLEAN
      BY DEF TaxInv, TaxTyped
  <1>w. was = caller[c]
      OBVIOUS
  <1> HIDE DEF was
  <1>3. /\ k \in CallRecord /\ k.pc = "saving" /\ k.op = was.op /\ k.arg = was.arg /\ k.copy = was.copy
        /\ k.old = was.old /\ k.blind = was.blind /\ k.cat = was.cat /\ k.sub = was.sub /\ k.asIs = was.asIs
      BY <1>2 DEF CallRecord
  <1> HIDE DEF k
  <1>b. was.old \in BOOLEAN /\ was.blind \in BOOLEAN
      BY <1>2, CallIs
  <1>4. caller'[c] = k /\ \A d \in Callers : d # c => caller'[d] = caller[d]
      BY <1>1, <1>2
  <1>5. overlay'.ok = FALSE /\ overlay'.cats = <<>> /\ overlay' \in [ok : BOOLEAN, cats : Taxonomy]
      BY <1>1 DEF Torn, Taxonomy
  <1>6. TaxTyped'
    <2>1. caller' \in [Callers -> CallRecord]
        BY <1>1, <1>2, <1>3
    <2>2. Distinct(overlay'.cats)
        BY <1>5 DEF Distinct
    <2>3. stale' \in BOOLEAN /\ lost' \in BOOLEAN /\ edited' \in BOOLEAN /\ shrunk' \in BOOLEAN
        BY <1>1, <1>2, <1>b
    <2> QED
        BY <1>5, <2>1, <2>2, <2>3 DEF TaxTyped
  <1>7. Entries(Config') = Entries(PublicTaxonomy)
    <2>1. Config' = Stripped(MergeCategories(PublicTaxonomy, <<>>))
        BY <1>5 DEF Config
    <2>2. <<>> \in Taxonomy /\ Distinct(<<>>) /\ Entries(<<>>) = {}
        BY DEF Taxonomy, Distinct, Entries, ToSet
    <2> QED
        BY <2>1, <2>2, LoadedIs
  <1>8. Steady' => Steady /\ ~was.old /\ ~was.blind /\ \A d \in Callers : caller[d].pc # "saving"
      BY <1>1 DEF Steady
  <1>9. OneSaver'
    <2> SUFFICES ASSUME ~stale', NEW d \in Callers, caller'[d].pc = "saving" PROVE d = c
        BY DEF OneSaver
    <2>1. caller[d].pc # "saving"
        BY <1>1
    <2> QED
        BY <1>4, <2>1
  <1>10. HintsKept'
      BY <1>1 DEF TaxInv, HintsKept
  <1>11. ASSUME NEW d \in Callers PROVE (CallKept(caller[d]) /\ SaverKept(caller[d]))'
    <2>1. CASE d = c
      <3>1. CallKept(k)
          BY <1>1, <1>2, <1>3 DEF CallKept, Active, Writes, Grows, Copied
      <3>2. SaverKept(caller[c])'
          BY <1>1, <1>3, <1>4, <1>8 DEF SaverKept
      <3> QED
          BY <1>4, <2>1, <3>1, <3>2
    <2>2. CASE d # c
      <3>1. CallKept(caller[d]) /\ SaverKept(caller[d])
          BY DEF TaxInv
      <3>2. caller'[d] = caller[d]
          BY <1>4, <2>2
      <3>3. CallKept(caller'[d])
          BY <3>1, <3>2
      <3>4. SaverKept(caller[d])'
          BY <1>1, <1>8, <3>1, <3>2 DEF SaverKept
      <3> QED
          BY <3>3, <3>4
    <2> QED
        BY <2>1, <2>2
  <1>12. TruthKept'
    <2> SUFFICES ASSUME Steady', ~shrunk' PROVE (\E T : Truth(T))'
        BY DEF TruthKept
    <2>1. PICK T : Truth(T)
        BY <1>1, <1>8 DEF TaxInv, TruthKept
    <2>2. ASSUME NEW d \in Callers PROVE CallTrue(caller'[d], T)
      <3>1. CallTrue(caller[d], T)
          BY <2>1 DEF Truth
      <3>2. CASE d = c
          BY <1>1, <1>3, <1>4, <1>w, <3>1, <3>2 DEF CallTrue, Fresh, Active, Grows, Copied
      <3>3. CASE d # c
          BY <1>4, <3>1, <3>3
      <3> QED
          BY <3>2, <3>3
    <2>3. Truth(T)'
        BY <1>1, <1>5, <2>1, <2>2 DEF Truth
    <2> QED
        BY <2>3
  <1>13. ClearKept'
    <2> SUFFICES ASSUME ~edited' PROVE Clear(Entries(Config')) /\ \A d \in Callers : CallClear(caller'[d])
        BY DEF ClearKept
    <2>1. \A d \in Callers : CallClear(caller[d])
        BY <1>1 DEF TaxInv, ClearKept
    <2>2. CallClear(was) => CallClear(k)
        BY <1>1, <1>3 DEF CallClear, Active, Copied
    <2> QED
        BY <1>4, <1>7, <1>w, <2>1, <2>2, PublicIsClear
  <1>14. LeadsKept'
    <2> SUFFICES ASSUME Steady', NEW r \in renamed'
                 PROVE  /\ PublicFree(r) /\ (overlay'.ok => LeadsIn(Config', r))
                        /\ \A d \in Callers : CallLeads(caller'[d], r)
        BY DEF LeadsKept
    <2>1. r \in renamed
        BY <1>1
    <2>2. PublicFree(r) /\ \A d \in Callers : CallLeads(caller[d], r)
        BY <1>8, <2>1 DEF TaxInv, LeadsKept
    <2>3. CallLeads(was, r) => CallLeads(k, r)
        BY <1>1, <1>3 DEF CallLeads, Fresh, Active, Grows
    <2> QED
        BY <1>4, <1>5, <1>w, <2>2, <2>3
  <1> QED
      BY <1>6, <1>9, <1>10, <1>11, <1>12, <1>13, <1>14 DEF TaxInv

LEMMA SaveEndKept ==
    ASSUME TaxInv, NEW c \in Callers, SaveEnd(c)
    PROVE  TaxInv'
  <1> DEFINE was == caller[c]
             copy == was.copy
             pc == IF was.op = "category" /\ was.sub = "" THEN "subcategory" ELSE "done"
             k == [was EXCEPT !.pc = pc]
             Aged(d) == [caller[d] EXCEPT !.old = (caller[d].pc \notin {"idle", "done"})]
             r0 == [cat |-> was.arg.cat, sub |-> was.sub, to |-> was.arg.to]
  <1>1. /\ was.pc = "saving" /\ overlay' = [ok |-> TRUE, cats |-> PrivateDiff(copy)]
        /\ caller' = [d \in Callers |-> IF d = c THEN k ELSE Aged(d)]
        /\ renamed' = IF was.op = "rename" /\ was.sub # "" THEN {r0} ELSE renamed
        /\ UNCHANGED <<hints, stale, edited, shrunk, lost>>
      BY DEF SaveEnd
  <1>2. /\ was \in CallRecord /\ CallKept(was) /\ SaverKept(was) /\ caller \in [Callers -> CallRecord]
        /\ stale \in BOOLEAN /\ lost \in BOOLEAN /\ edited \in BOOLEAN /\ shrunk \in BOOLEAN
      BY DEF TaxInv, TaxTyped
  <1>w. was = caller[c] /\ copy = was.copy
      OBVIOUS
  <1>p. pc \in {"subcategory", "done"} /\ (pc = "subcategory" <=> was.op = "category" /\ was.sub = "")
      OBVIOUS
  <1>z. r0.cat = was.arg.cat /\ r0.sub = was.sub /\ r0.to = was.arg.to
      OBVIOUS
  <1>a. ASSUME NEW d \in Callers
        PROVE  LET a == Aged(d) IN
               /\ a \in CallRecord /\ a.pc = caller[d].pc /\ a.op = caller[d].op /\ a.arg = caller[d].arg
               /\ a.copy = caller[d].copy /\ a.blind = caller[d].blind /\ a.cat = caller[d].cat
               /\ a.sub = caller[d].sub /\ a.asIs = caller[d].asIs
               /\ Active(a) => a.old
    <2>1. caller[d] \in CallRecord
        BY <1>2
    <2> DEFINE x == caller[d]
               o == x.pc \notin {"idle", "done"}
    <2>2. o \in BOOLEAN /\ Aged(d) = [x EXCEPT !.old = o] /\ x \in CallRecord /\ (o <=> x.pc \notin {"idle", "done"})
        BY <2>1
    <2> HIDE DEF o, x, Aged
    <2>3. /\ [x EXCEPT !.old = o] \in CallRecord /\ [x EXCEPT !.old = o].pc = x.pc /\ [x EXCEPT !.old = o].old = o
          /\ [x EXCEPT !.old = o].op = x.op /\ [x EXCEPT !.old = o].arg = x.arg
          /\ [x EXCEPT !.old = o].copy = x.copy /\ [x EXCEPT !.old = o].blind = x.blind
          /\ [x EXCEPT !.old = o].cat = x.cat /\ [x EXCEPT !.old = o].sub = x.sub
          /\ [x EXCEPT !.old = o].asIs = x.asIs
        BY <2>2 DEF CallRecord
    <2> QED
        BY <2>2, <2>3 DEF Active, x
  <1> HIDE DEF was, copy, pc, Aged, r0
  <1>3. /\ k \in CallRecord /\ k.pc = pc /\ k.op = was.op /\ k.arg = was.arg /\ k.copy = copy
        /\ k.old = was.old /\ k.blind = was.blind /\ k.cat = was.cat /\ k.sub = was.sub /\ k.asIs = was.asIs
      BY <1>2, <1>p, <1>w DEF CallRecord
  <1> HIDE DEF k
  <1>4. caller'[c] = k /\ \A d \in Callers : d # c => caller'[d] = Aged(d)
      BY <1>1
  <1>5. copy \in Taxonomy /\ Distinct(copy) /\ was.op \in {"category", "ensure", "rename", "put"}
      BY <1>1, <1>2, <1>w, CallIs DEF CallKept
  <1>d. PrivateDiff(copy) \in Taxonomy /\ Distinct(PrivateDiff(copy))
      BY <1>5, DiffIs
  <1>o. overlay'.ok = TRUE /\ overlay'.cats = PrivateDiff(copy)
      BY <1>1
  <1>6. /\ Config' = Stripped(MergeCategories(PublicTaxonomy, PrivateDiff(copy)))
        /\ Entries(Config') = Entries(PublicTaxonomy) \cup Entries(copy)
    <2>1. Config' = Stripped(MergeCategories(PublicTaxonomy, PrivateDiff(copy)))
        BY <1>o DEF Config
    <2> QED
        BY <1>5, <2>1, ReadBack
  <1>7. TaxTyped'
    <2>1. caller' \in [Callers -> CallRecord]
        BY <1>1, <1>3, <1>a
    <2>2. overlay' \in [ok : BOOLEAN, cats : Taxonomy]
        BY <1>1, <1>d
    <2> QED
        BY <1>1, <1>2, <1>d, <1>o, <2>1, <2>2 DEF TaxTyped
  <1>8. HintsKept'
      BY <1>1 DEF TaxInv, HintsKept
  <1>9. Steady' <=> Steady
      BY <1>1 DEF Steady
  <1>10. Steady => ~was.old /\ ~was.blind /\ \A d \in Callers : d # c => caller[d].pc # "saving"
    <2>1. Steady => ~was.old /\ ~was.blind
        BY <1>1, <1>2 DEF SaverKept
    <2>2. Steady => \A d \in Callers : d # c => caller[d].pc # "saving"
        BY <1>1, <1>w DEF TaxInv, OneSaver, Steady
    <2> QED
        BY <2>1, <2>2
  <1>11. OneSaver'
    <2> SUFFICES ASSUME ~stale, NEW d \in Callers, NEW e \in Callers,
                        caller'[d].pc = "saving", caller'[e].pc = "saving"
                 PROVE  d = e
        BY <1>1 DEF OneSaver
    <2>1. ASSUME NEW f \in Callers, caller'[f].pc = "saving" PROVE f # c /\ caller[f].pc = "saving"
      <3>1. f # c
          BY <1>3, <1>4, <1>p, <2>1
      <3>2. caller'[f] = Aged(f)
          BY <1>4, <3>1
      <3>3. Aged(f).pc = caller[f].pc
          BY <1>a
      <3> QED
          BY <2>1, <3>1, <3>2, <3>3
    <2>2. caller[d].pc = "saving" /\ caller[e].pc = "saving"
        BY <2>1
    <2> QED
        BY <2>2 DEF TaxInv, OneSaver
  <1>12. ASSUME NEW d \in Callers PROVE (CallKept(caller[d]) /\ SaverKept(caller[d]))'
    <2>1. CASE d = c
      <3>1. CallKept(k)
          BY <1>1, <1>2, <1>3, <1>5, <1>p, <1>w DEF CallKept, Active, Writes, Grows, Copied
      <3>2. SaverKept(caller[c])'
          BY <1>3, <1>4, <1>p DEF SaverKept
      <3> QED
          BY <1>4, <2>1, <3>1, <3>2
    <2>2. CASE d # c
      <3>1. CallKept(caller[d]) /\ SaverKept(caller[d])
          BY DEF TaxInv
      <3> DEFINE a == Aged(d)
      <3>2. /\ caller'[d] = a /\ a.pc = caller[d].pc /\ a.op = caller[d].op /\ a.arg = caller[d].arg
            /\ a.copy = caller[d].copy /\ a.cat = caller[d].cat
            /\ a.sub = caller[d].sub /\ a.asIs = caller[d].asIs
          BY <1>4, <1>a, <2>2
      <3> HIDE DEF a
      <3>3. CallKept(a)
          BY <3>1, <3>2 DEF CallKept, Active, Writes, Grows, Copied
      <3>4. SaverKept(caller[d])'
          BY <1>1, <1>9, <1>10, <2>2, <3>1, <3>2 DEF SaverKept
      <3> QED
          BY <3>2, <3>3, <3>4
    <2> QED
        BY <2>1, <2>2
  <1>e. Grows(was) => Entries(PublicTaxonomy) \subseteq Entries(copy)
      BY <1>1, <1>2, <1>w DEF CallKept, Active, Copied
  <1>13. TruthKept'
    <2> SUFFICES ASSUME Steady, ~shrunk PROVE (\E T : Truth(T))'
        BY <1>1, <1>9 DEF TruthKept
    <2> DEFINE New == Entries(PublicTaxonomy) \cup Entries(copy)
    <2>1. PICK T : Truth(T)
        BY DEF TaxInv, TruthKept
    <2>2. Grows(was) /\ Fresh(was)
        BY <1>1, <1>2, <1>5, <1>10 DEF SaverKept, Grows, Fresh, Active
    <2>3. T \subseteq New /\ New = Entries(copy)
        BY <1>e, <1>w, <2>1, <2>2 DEF Truth, CallTrue, Copied
    <2> HIDE DEF New
    <2>4. ASSUME NEW d \in Callers PROVE CallTrue(caller'[d], New)
      <3>1. CallTrue(caller[d], T)
          BY <2>1 DEF Truth
      <3>2. CASE d = c
        <4>1. was.sub # "" /\ ~was.asIs => was.sub \in Forbidden \/ <<was.cat, was.sub>> \in Entries(copy)
            BY <1>1, <1>2, <1>w, <2>2 DEF CallKept, Writes, Copied
        <4>2. "" \in Forbidden
            BY DEF Forbidden
        <4>3. CallTrue(k, New)
            BY <1>3, <1>p, <2>3, <4>1, <4>2 DEF CallTrue, Copied
        <4> QED
            BY <1>4, <3>2, <4>3
      <3>3. CASE d # c
        <4> DEFINE a == Aged(d)
        <4>1. /\ caller'[d] = a /\ a.pc = caller[d].pc /\ a.op = caller[d].op
              /\ a.copy = caller[d].copy /\ a.cat = caller[d].cat
              /\ a.sub = caller[d].sub /\ a.asIs = caller[d].asIs
              /\ Active(a) => a.old
            BY <1>4, <1>a, <3>3
        <4> HIDE DEF a
        <4>2. CallTrue(a, New)
            BY <2>3, <3>1, <4>1 DEF CallTrue, Fresh, Grows, Copied
        <4> QED
            BY <4>1, <4>2
      <3> QED
          BY <3>2, <3>3
    <2>5. Entries(PublicTaxonomy) \subseteq New
        BY DEF New
    <2>6. Entries(Config') = New
        BY <1>6 DEF New
    <2>7. \A h \in ToSet(hints) : <<h.toCat, h.toSub>> \in T
        BY <2>1 DEF Truth
    <2>8. \A h \in ToSet(hints') : <<h.toCat, h.toSub>> \in New
        BY <1>1, <2>3, <2>7
    <2>9. \E U : /\ Entries(PublicTaxonomy) \subseteq U /\ Entries(Config') = U
                 /\ \A h \in ToSet(hints') : <<h.toCat, h.toSub>> \in U
                 /\ \A d \in Callers : CallTrue(caller'[d], U)
        BY <2>4, <2>5, <2>6, <2>8
    <2>10. PICK U : /\ Entries(PublicTaxonomy) \subseteq U /\ Entries(Config') = U
                    /\ \A h \in ToSet(hints') : <<h.toCat, h.toSub>> \in U
                    /\ \A d \in Callers : CallTrue(caller'[d], U)
        BY <2>9
    <2>11. Truth(U)'
        BY <2>10 DEF Truth
    <2> QED
        BY <2>11
  <1>14. ClearKept'
    <2> SUFFICES ASSUME ~edited PROVE Clear(Entries(Config')) /\ \A d \in Callers : CallClear(caller'[d])
        BY <1>1 DEF ClearKept
    <2>1. \A d \in Callers : CallClear(caller[d])
        BY DEF TaxInv, ClearKept
    <2>2. was.op = "category"
        BY <1>1, <1>2 DEF SaverKept
    <2>3. Clear(Entries(copy))
        BY <1>1, <1>w, <2>1, <2>2 DEF CallClear, Active, Copied
    <2>4. Entries(Config') = Entries(copy)
        BY <1>6, <1>e, <2>2 DEF Grows
    <2>5. CallClear(k)
        BY <1>3, <2>3 DEF CallClear, Copied
    <2>6. ASSUME NEW d \in Callers, d # c PROVE CallClear(Aged(d))
        BY <1>a, <2>1 DEF CallClear, Active, Copied
    <2> QED
        BY <1>4, <2>3, <2>4, <2>5, <2>6
  <1>15. LeadsKept'
    <2> SUFFICES ASSUME Steady, NEW r \in renamed'
                 PROVE  /\ PublicFree(r) /\ LeadsIn(Config', r)
                        /\ \A d \in Callers : CallLeads(caller'[d], r)
        BY <1>9 DEF LeadsKept
    <2>1. ASSUME NEW d \in Callers, d # c PROVE CallLeads(caller'[d], r)
      <3>1. CallLeads(Aged(d), r)
          BY <1>a DEF CallLeads, Fresh
      <3> QED
          BY <1>4, <2>1, <3>1
    <2>2. PublicFree(r) /\ LeadsIn(copy, r) /\ CallLeads(k, r)
      <3>1. CASE was.op = "rename" /\ was.sub # ""
        <4>1. r = r0
            BY <1>1, <3>1
        <4>2. was.sub = was.arg.sub /\ PublicFree(was.arg) /\ LeadsIn(copy, was.arg)
            BY <1>1, <1>2, <1>w, <3>1 DEF CallKept, Writes
        <4>3. r.cat = was.arg.cat /\ r.sub = was.arg.sub /\ r.to = was.arg.to
            BY <1>z, <4>1, <4>2
        <4>4. PublicFree(r) /\ LeadsIn(copy, r)
            BY <4>2, <4>3 DEF PublicFree, LeadsIn
        <4>5. CallLeads(k, r)
            BY <1>3, <3>1 DEF CallLeads, Grows
        <4> QED
            BY <4>4, <4>5
      <3>2. CASE ~(was.op = "rename" /\ was.sub # "")
        <4>1. r \in renamed
            BY <1>1, <3>2
        <4>2. PublicFree(r) /\ CallLeads(was, r)
            BY <1>w, <4>1 DEF TaxInv, LeadsKept
        <4>3. was.op \notin {"rename", "put"}
            BY <1>1, <1>2, <4>1 DEF SaverKept
        <4>4. Grows(was) /\ Fresh(was)
            BY <1>1, <1>5, <1>10, <4>3 DEF Grows, Fresh, Active
        <4>5. LeadsIn(copy, r)
            BY <1>w, <4>2, <4>4 DEF CallLeads
        <4>6. CallLeads(k, r)
            BY <1>3, <4>5 DEF CallLeads
        <4> QED
            BY <4>2, <4>5, <4>6
      <3> QED
          BY <3>1, <3>2
    <2>3. LeadsIn(Config', r)
      <3>1. LeadsIn(PrivateDiff(copy), r)
          BY <1>5, <2>2, LeadsSaved
      <3> QED
          BY <1>6, <1>d, <2>2, <3>1, LeadsLoaded
    <2> QED
        BY <1>4, <2>1, <2>2, <2>3
  <1> QED
      BY <1>7, <1>8, <1>11, <1>12, <1>13, <1>14, <1>15 DEF TaxInv

(* A caller whose process died knows nothing and holds nothing.              *)
LEMMA NobodyCalls ==
    NoCall \in CallRecord /\ NoCall.pc = "idle" /\ NoCall.op = "" /\ NoCall.sub = "" /\ Distinct(NoCall.copy)
  <1>1. "" \in Slug \cup Forbidden /\ <<>> \in Taxonomy /\ <<>> \in {<<>>} \cup Proposal \cup UserEdit
      BY DEF Forbidden, Taxonomy
  <1>2. NoCall \in CallRecord
      BY <1>1 DEF NoCall, CallRecord
  <1>3. NoCall.pc = "idle" /\ NoCall.op = "" /\ NoCall.sub = "" /\ NoCall.copy = <<>>
      BY DEF NoCall
  <1>4. Distinct(<<>>)
      BY DEF Distinct
  <1> QED
      BY <1>2, <1>3, <1>4

LEMMA CrashKept ==
    ASSUME TaxInv, NEW h, TaxonomyCrash(h)
    PROVE  TaxInv'
  <1>1. /\ caller' = [c \in Callers |-> IF home[c] = h THEN NoCall ELSE caller[c]]
        /\ UNCHANGED <<overlay, hints, stale, edited, shrunk, lost, renamed>>
      BY DEF TaxonomyCrash
  <1>2. NoCall \in CallRecord /\ NoCall.pc = "idle" /\ NoCall.op = "" /\ NoCall.sub = "" /\ Distinct(NoCall.copy)
      BY NobodyCalls
  <1> DEFINE none == NoCall
  <1>n. none = NoCall
      OBVIOUS
  <1> HIDE DEF none
  <1>3. \A c \in Callers : caller'[c] = caller[c] \/ caller'[c] = none
      BY <1>1, <1>n
  <1>4. none \in CallRecord /\ none.pc = "idle" /\ none.op = "" /\ Distinct(none.copy) /\ none.sub = ""
      BY <1>2, <1>n
  <1>5. Config' = Config /\ (Steady' <=> Steady)
      BY <1>1 DEF Config, Steady
  <1>6. TaxTyped'
    <2>1. caller' \in [Callers -> CallRecord]
        BY <1>1, <1>2 DEF TaxInv, TaxTyped
    <2> QED
        BY <1>1, <2>1 DEF TaxInv, TaxTyped
  <1>7. HintsKept'
      BY <1>1 DEF TaxInv, HintsKept
  <1>8. OneSaver'
      BY <1>1, <1>3, <1>4 DEF TaxInv, OneSaver
  <1>9. ASSUME NEW c \in Callers PROVE (CallKept(caller[c]) /\ SaverKept(caller[c]))'
    <2>1. CallKept(caller[c]) /\ SaverKept(caller[c])
        BY DEF TaxInv
    <2>2. CallKept(none)
        BY <1>4 DEF CallKept, Active, Writes
    <2>3. CallKept(caller'[c])
        BY <1>3, <2>1, <2>2
    <2>4. SaverKept(caller[c])'
        BY <1>1, <1>3, <1>4, <1>5, <2>1 DEF SaverKept
    <2> QED
        BY <2>3, <2>4
  <1>10. TruthKept'
    <2> SUFFICES ASSUME Steady, ~shrunk PROVE (\E T : Truth(T))'
        BY <1>1, <1>5 DEF TruthKept
    <2>1. PICK T : Truth(T)
        BY DEF TaxInv, TruthKept
    <2>2. CallTrue(none, T)
        BY <1>4 DEF CallTrue, Fresh, Active, Grows
    <2>3. \A c \in Callers : CallTrue(caller'[c], T)
        BY <1>3, <2>1, <2>2 DEF Truth
    <2>4. Truth(T)'
        BY <1>1, <1>5, <2>1, <2>3 DEF Truth
    <2> QED
        BY <2>4
  <1>11. ClearKept'
    <2>1. CallClear(none)
        BY <1>4 DEF CallClear, Active
    <2> QED
        BY <1>1, <1>3, <1>5, <2>1 DEF TaxInv, ClearKept
  <1>12. LeadsKept'
    <2>1. \A r : CallLeads(none, r)
        BY <1>4 DEF CallLeads, Fresh, Active
    <2> QED
        BY <1>1, <1>3, <1>5, <2>1 DEF TaxInv, LeadsKept
  <1> QED
      BY <1>6, <1>7, <1>8, <1>9, <1>10, <1>11, <1>12 DEF TaxInv

LEMMA TaxonomyBounds ==
    MaxCalls \in Nat /\ MaxHints \in Nat /\ MaxCrashes \in Nat
  <1>1. {MaxCalls, MaxHints, MaxCrashes} \subseteq Nat
      BY Zenon, TaxonomyAssumption
  <1> QED
      BY <1>1

LEMMA TaxStart ==
    ASSUME TaxonomyInit
    PROVE  TaxInv
  <1>1. /\ overlay = [ok |-> TRUE, cats |-> <<>>] /\ caller = [c \in Callers |-> NoCall]
        /\ hints = <<>> /\ stale = FALSE /\ edited = FALSE /\ shrunk = FALSE /\ lost = FALSE /\ renamed = {}
      BY DEF TaxonomyInit
  <1>2. NoCall \in CallRecord /\ NoCall.pc = "idle" /\ NoCall.op = "" /\ NoCall.sub = "" /\ Distinct(NoCall.copy)
      BY NobodyCalls
  <1>3. \A c \in Callers : caller[c] = NoCall
      BY <1>1
  <1> HIDE DEF NoCall
  <1>4. TaxTyped
    <2>1. caller \in [Callers -> CallRecord]
        BY <1>1, <1>2
    <2>2. <<>> \in Taxonomy /\ Distinct(<<>>)
        BY DEF Taxonomy, Distinct
    <2> QED
        BY <1>1, <2>1, <2>2 DEF TaxTyped
  <1>5. Entries(Config) = Entries(PublicTaxonomy)
    <2>1. ToSet(<<>>) = {}
        BY DEF ToSet
    <2>2. Entries(<<>>) = {}
        BY <2>1 DEF Entries
    <2> QED
        BY <1>1, <1>4, <2>2, ConfigIs
  <1>6. HintsKept
    <2>1. ToSet(hints) = {} /\ Len(hints) = 0
        BY <1>1 DEF ToSet
    <2>2. hints \in Seq(ToSet(hints)) /\ IsInjective(hints)
        BY <1>1 DEF IsInjective
    <2> QED
        BY <2>1, <2>2, TaxonomyBounds DEF HintsKept
  <1>7. OneSaver
      BY <1>2, <1>3 DEF OneSaver
  <1>8. \A c \in Callers : CallKept(caller[c]) /\ SaverKept(caller[c])
    <2>1. CallKept(NoCall) /\ SaverKept(NoCall)
        BY <1>2 DEF CallKept, SaverKept, Active, Writes
    <2> QED
        BY <1>3, <2>1
  <1>9. TruthKept
    <2> DEFINE T == Entries(PublicTaxonomy)
    <2>1. CallTrue(NoCall, T)
        BY <1>2 DEF CallTrue, Fresh, Active, Grows
    <2>2. ToSet(hints) = {}
        BY <1>1 DEF ToSet
    <2>3. Truth(T)
        BY <1>3, <1>5, <2>1, <2>2 DEF Truth
    <2> QED
        BY <2>3 DEF TruthKept
  <1>10. ClearKept
    <2>1. CallClear(NoCall)
        BY <1>2 DEF CallClear, Active
    <2> QED
        BY <1>3, <1>5, <2>1, PublicIsClear DEF ClearKept
  <1>11. LeadsKept
      BY <1>1 DEF LeadsKept
  <1> QED
      BY <1>4, <1>6, <1>7, <1>8, <1>9, <1>10, <1>11 DEF TaxInv

LEMMA TaxIdle ==
    ASSUME TaxInv, UNCHANGED taxonomyVars
    PROVE  TaxInv'
  <1>1. UNCHANGED <<overlay, caller, hints, stale, edited, shrunk, lost, renamed>>
      BY DEF taxonomyVars
  <1>2. Config' = Config /\ (Steady' <=> Steady)
      BY <1>1 DEF Config, Steady
  <1>3. TaxTyped' /\ HintsKept' /\ OneSaver' /\ ClearKept' /\ LeadsKept'
      BY <1>1, <1>2 DEF TaxInv, TaxTyped, HintsKept, OneSaver, ClearKept, LeadsKept
  <1>4. \A c \in Callers : (CallKept(caller[c]) /\ SaverKept(caller[c]))'
      BY <1>1, <1>2 DEF TaxInv, SaverKept
  <1>5. TruthKept'
    <2> SUFFICES ASSUME Steady, ~shrunk PROVE (\E T : Truth(T))'
        BY <1>1, <1>2 DEF TruthKept
    <2>1. PICK T : Truth(T)
        BY DEF TaxInv, TruthKept
    <2>2. Truth(T)'
        BY <1>1, <1>2, <2>1 DEF Truth
    <2> QED
        BY <2>2
  <1> QED
      BY <1>3, <1>4, <1>5 DEF TaxInv

-----------------------------------------------------------------------------
(* What the taxonomy promises                                               *)

LEMMA NoSaverAppears ==
    ASSUME TaxInv, TaxonomyNext, ~\E c \in Callers : SaveBegin(c)
    PROVE  NoNewSaver
  <1>1. caller \in [Callers -> CallRecord] /\ \A c \in Callers : caller[c] \in CallRecord
      BY DEF TaxInv, TaxTyped
  <1> SUFFICES ASSUME NEW d \in Callers, caller'[d].pc = "saving", caller[d].pc # "saving" PROVE FALSE
      BY DEF NoNewSaver
  <1>2. ASSUME NEW c \in Callers, NEW op, NEW arg, Load(c, op, arg), op # "saving" PROVE FALSE
      BY <1>1, <1>2 DEF Load, NoCall, CallRecord
  <1>3. \A p \in Proposals : ~\E c \in Callers : Load(c, "category", p)
      BY <1>2
  <1>4. \A a \in UserEdits : a.op \in {"ensure", "rename", "put"}
      BY TaxonomyAssumption DEF UserEdit
  <1>5. ~\E c \in Callers, a \in UserEdits : Load(c, a.op, a)
      BY <1>2, <1>4
  <1>6. ASSUME NEW c \in Callers, ResolveCategoryStep(c) PROVE FALSE
      BY <1>6, ResolveCategoryKept DEF NoNewSaver
  <1>7. ASSUME NEW c \in Callers, ResolveSubcategoryStep(c) PROVE FALSE
      BY <1>7, ResolveSubcategoryKept DEF NoNewSaver
  <1>8. ASSUME NEW c \in Callers, EnsureStep(c) PROVE FALSE
      BY <1>1, <1>8 DEF EnsureStep, ToSave, CallRecord
  <1>9. ASSUME NEW c \in Callers, RenameStep(c) PROVE FALSE
      BY <1>1, <1>9 DEF RenameStep, ToSave, CallRecord
  <1>10. ASSUME NEW c \in Callers, PutStep(c) PROVE FALSE
      BY <1>1, <1>10 DEF PutStep, ToSave, CallRecord
  <1>11. ASSUME NEW c \in Callers, SaveEnd(c) PROVE FALSE
      BY <1>1, <1>11 DEF SaveEnd, CallRecord
  <1>12. ASSUME NEW h, TaxonomyCrash(h) PROVE FALSE
      BY <1>1, <1>12 DEF TaxonomyCrash, NoCall
  <1> QED
      BY <1>3, <1>5, <1>6, <1>7, <1>8, <1>9, <1>10, <1>11, <1>12 DEF TaxonomyNext

LEMMA TaxTypeKept ==
    ASSUME TaxInv, TaxonomyTypeOK, [TaxonomyNext]_taxonomyVars
    PROVE  TaxonomyTypeOK'
  <1>1. CASE UNCHANGED taxonomyVars
      BY <1>1 DEF TaxonomyTypeOK, taxonomyVars
  <1>2. CASE TaxonomyNext
    <2>1. home' = home
        BY <1>2 DEF TaxonomyNext, Load, ResolveCategoryStep, ResolveSubcategoryStep, EnsureStep, RenameStep,
                    PutStep, SaveBegin, SaveEnd, TaxonomyCrash
    <2>2. calls' = calls \/ (calls < MaxCalls /\ calls' = calls + 1)
        BY <1>2 DEF TaxonomyNext, Load, ResolveCategoryStep, ResolveSubcategoryStep, EnsureStep, RenameStep,
                    PutStep, SaveBegin, SaveEnd, TaxonomyCrash
    <2>3. crashes' = crashes \/ (crashes < MaxCrashes /\ crashes' = crashes + 1)
        BY <1>2 DEF TaxonomyNext, Load, ResolveCategoryStep, ResolveSubcategoryStep, EnsureStep, RenameStep,
                    PutStep, SaveBegin, SaveEnd, TaxonomyCrash
    <2>4. calls' \in 0 .. MaxCalls /\ crashes' \in 0 .. MaxCrashes
        BY <2>2, <2>3, TaxonomyBounds DEF TaxonomyTypeOK
    <2>5. ASSUME NEW c \in Callers, NEW d \in Callers,
                 {caller'[c].pc, caller'[d].pc} = {"saving"}, home[c] = home[d]
          PROVE  c = d
      <3>1. caller'[c].pc = "saving" /\ caller'[d].pc = "saving"
          BY <2>5
      <3>2. CASE \E e \in Callers : SaveBegin(e)
        <4>1. PICK e \in Callers : SaveBegin(e)
            BY <3>2
        <4>2. caller' = [caller EXCEPT ![e].pc = "saving"] /\ ~Saving(home[e])
            BY <4>1 DEF SaveBegin
        <4>3. \A f \in Callers : f # e => caller'[f] = caller[f]
            BY <4>2 DEF TaxInv, TaxTyped
        <4>4. \A f \in Callers : home[f] = home[e] => caller[f].pc # "saving"
            BY <4>2 DEF Saving
        <4>5. CASE c = e \/ d = e
            BY <2>5, <3>1, <4>3, <4>4, <4>5
        <4>6. CASE c # e /\ d # e
            BY <2>5, <3>1, <4>3, <4>6 DEF TaxonomyTypeOK
        <4> QED
            BY <4>5, <4>6
      <3>3. CASE ~\E e \in Callers : SaveBegin(e)
        <4>1. caller[c].pc = "saving" /\ caller[d].pc = "saving"
            BY <1>2, <3>1, <3>3, NoSaverAppears DEF NoNewSaver
        <4>2. {caller[c].pc, caller[d].pc} = {"saving"}
            BY <4>1
        <4> QED
            BY <2>5, <4>2 DEF TaxonomyTypeOK
      <3> QED
          BY <3>2, <3>3
    <2> QED
        BY <2>1, <2>4, <2>5 DEF TaxonomyTypeOK
  <1> QED
      BY <1>1, <1>2

LEMMA TaxTypeStart ==
    ASSUME TaxonomyInit
    PROVE  TaxonomyTypeOK
  <1>1. calls = 0 /\ crashes = 0 /\ \A c \in Callers : home[c] \in Homes[c] /\ caller[c] = NoCall
      BY DEF TaxonomyInit
  <1>2. 0 \in 0 .. MaxCalls /\ 0 \in 0 .. MaxCrashes
      BY TaxonomyBounds
  <1>3. ASSUME NEW c \in Callers, NEW d \in Callers PROVE {caller[c].pc, caller[d].pc} # {"saving"}
      BY <1>1, NobodyCalls
  <1> QED
      BY <1>1, <1>2, <1>3 DEF TaxonomyTypeOK

LEMMA TaxInvKept ==
    ASSUME TaxInv, [TaxonomyNext]_taxonomyVars
    PROVE  TaxInv'
  <1>1. CASE UNCHANGED taxonomyVars
      BY <1>1, TaxIdle
  <1>2. CASE TaxonomyNext
    <2>1. CASE \E c \in Callers : \E p \in Proposals : Load(c, "category", p)
      <3>1. PICK c \in Callers, p \in Proposals : Load(c, "category", p)
          BY <2>1
      <3>2. p \in Proposal
          BY TaxonomyAssumption
      <3> QED
          BY <3>1, <3>2, LoadKept
    <2>2. CASE \E c \in Callers : \E a \in UserEdits : Load(c, a.op, a)
      <3>1. PICK c \in Callers, a \in UserEdits : Load(c, a.op, a)
          BY <2>2
      <3>2. a \in UserEdit /\ a.op \in {"ensure", "rename", "put"}
          BY TaxonomyAssumption DEF UserEdit
      <3> DEFINE op == a.op
      <3>3. op \in {"ensure", "rename", "put"} /\ Load(c, op, a)
          BY <3>1, <3>2
      <3> HIDE DEF op
      <3> QED
          BY <3>2, <3>3, LoadKept
    <2> QED
        BY <1>2, <2>1, <2>2, ResolveCategoryKept, ResolveSubcategoryKept, EnsureKept, RenameKept, PutKept,
           SaveBeginKept, SaveEndKept, CrashKept DEF TaxonomyNext
  <1> QED
      BY <1>1, <1>2

LEMMA InvIsOneInstance ==
    ASSUME TaxInv
    PROVE  OneInstance
  <1> DEFINE Spells(config) == {<<c.cat, Spelling[c.sub]>> : c \in Candidates(config)}
  <1> SUFFICES ASSUME ~edited, NEW x \in Spells(Config), NEW y \in Spells(Config), x[1] # y[1], x[2] = y[2]
               PROVE  x \in Spells(PublicTaxonomy)
      BY DEF OneInstance
  <1>1. Config \in Taxonomy /\ PublicTaxonomy \in Taxonomy
      BY ConfigIs, TaxonomyAssumption DEF TaxInv, Taxonomy
  <1>2. PICK c \in Candidates(Config), d \in Candidates(Config) :
          x = <<c.cat, Spelling[c.sub]>> /\ y = <<d.cat, Spelling[d.sub]>>
      OBVIOUS
  <1>3. Clear(Entries(Config))
      BY DEF TaxInv, ClearKept
  <1>4. c.cat # d.cat /\ Spelling[c.sub] = Spelling[d.sub]
      BY <1>2
  <1> DEFINE s == Spelling[c.sub]
  <1>5. Spelt(Entries(Config), c.cat, s) /\ Spelt(Entries(Config), d.cat, s)
    <2>1. \A a, t : Spelt(Entries(Config), a, t) <=> \E e \in Candidates(Config) : e.cat = a /\ Spelling[e.sub] = t
        BY <1>1, SpeltIs
    <2> QED
        BY <1>4, <2>1
  <1>6. Spelt(Entries(PublicTaxonomy), c.cat, s)
      BY <1>3, <1>4, <1>5 DEF Clear
  <1>7. \E e \in Candidates(PublicTaxonomy) : e.cat = c.cat /\ Spelling[e.sub] = s
    <2>1. \A a, t : Spelt(Entries(PublicTaxonomy), a, t) <=>
                      \E e \in Candidates(PublicTaxonomy) : e.cat = a /\ Spelling[e.sub] = t
        BY <1>1, SpeltIs
    <2> QED
        BY <1>6, <2>1
  <1> QED
      BY <1>2, <1>7

(* What an entry is, in the taxonomy that a reader sees.                    *)
LEMMA EntryKnown ==
    ASSUME TaxInv, NEW cat, NEW sub, <<cat, sub>> \in Entries(Config)
    PROVE  IF sub = "" THEN Category(Config, cat) # {} ELSE Known(Config, cat, sub)
  <1>1. Config \in Taxonomy
      BY ConfigIs DEF TaxInv
  <1>2. PICK c \in ToSet(Config) : c.id = cat /\ sub \in Names(c)
      BY EntriesAre
  <1>3. CASE sub = ""
      BY <1>1, <1>2, <1>3, CategoryIs DEF Ids
  <1>4. CASE sub # ""
      BY <1>2, <1>4 DEF Names, Ids, Known
  <1> QED
      BY <1>3, <1>4

LEMMA InvIsResolved ==
    ASSUME TaxInv
    PROVE  ResolvedIsKnown
  <1> SUFFICES ASSUME NEW c \in Callers, caller[c].op \in {"category", "ensure"}, ~caller[c].asIs,
                      ~shrunk, Steady, overlay.ok, caller[c].pc = "done", caller[c].sub \notin Forbidden
               PROVE  Known(Config, caller[c].cat, caller[c].sub)
      BY DEF ResolvedIsKnown, ResultKnown
  <1>1. PICK T : Truth(T)
      BY DEF TaxInv, TruthKept
  <1>2. <<caller[c].cat, caller[c].sub>> \in T /\ T = Entries(Config)
      BY <1>1 DEF Truth, CallTrue, Grows
  <1>3. caller[c].sub # ""
      BY DEF Forbidden
  <1> QED
      BY <1>2, <1>3, EntryKnown

LEMMA InvIsHints ==
    ASSUME TaxInv
    PROVE  HintsLeadHome
  <1>1. Len(hints) <= MaxHints /\ IsInjective(hints)
      BY DEF TaxInv, HintsKept
  <1>2. ASSUME Steady, ~shrunk, overlay.ok, NEW h \in ToSet(hints)
        PROVE  IF h.toSub = "" THEN Category(Config, h.toCat) # {} ELSE Known(Config, h.toCat, h.toSub)
    <2>1. PICK T : Truth(T)
        BY <1>2 DEF TaxInv, TruthKept
    <2>2. <<h.toCat, h.toSub>> \in Entries(Config)
        BY <1>2, <2>1 DEF Truth
    <2> QED
        BY <2>2, EntryKnown
  <1> QED
      BY <1>1, <1>2 DEF HintsLeadHome

LEMMA InvIsRenameSticks ==
    ASSUME TaxInv
    PROVE  RenameSticks
  <1> SUFFICES ASSUME overlay.ok, Steady, NEW r \in renamed
               PROVE  ResolveSubcategory(Config, r.cat, r.sub, {r.sub}, "general").id = r.to
      BY DEF RenameSticks
  <1>1. PublicFree(r) /\ LeadsIn(Config, r)
      BY DEF TaxInv, LeadsKept
  <1>2. Config \in Taxonomy /\ Distinct(Config)
      BY ConfigIs DEF TaxInv
  <1>3. PICK c \in ToSet(Config) : c.id = r.cat /\ Leads(c.subs, r.sub, r.to)
      BY <1>1 DEF LeadsIn
  <1>4. r.cat \in Ids(Config)
      BY <1>3 DEF Ids
  <1>5. SubsOf(Config, r.cat) = c.subs /\ SubsOf(Config, r.cat) \in Seq(SubcategoryItem)
      BY <1>2, <1>3, <1>4, SubsOfAre
  <1>6. r.sub \notin Sentinels
      BY <1>1 DEF PublicFree, Forbidden
  <1> DEFINE cat == r.cat old == r.sub new == r.to
  <1>7. old \notin Sentinels /\ SubsOf(Config, cat) \in Seq(SubcategoryItem) /\ Leads(SubsOf(Config, cat), old, new)
      BY <1>3, <1>5, <1>6
  <1> HIDE DEF cat, old, new
  <1>8. ResolveSubcategory(Config, cat, old, {old}, "general").id = new
      BY <1>7, LeadsResolve
  <1> QED
      BY <1>8 DEF cat, old, new

(* What is read bears valid names only.                                     *)
LEMMA NothingForbidden ==
    ASSUME TaxInv, NEW a \in ToSet(Config)
    PROVE  Ids(a.subs) \cap Forbidden = {}
  <1> DEFINE over == overlay.cats
             all == MergeCategories(PublicTaxonomy, over)
  <1>1. over \in Taxonomy /\ Distinct(over) /\ PublicTaxonomy \in Taxonomy /\ Distinct(PublicTaxonomy)
      BY TaxonomyAssumption DEF TaxInv, TaxTyped, Taxonomy, Distinct
  <1>2. Config = Stripped(all)
      BY DEF Config
  <1> HIDE DEF over
  <1>3. all \in Taxonomy
      BY <1>1, MergedIs
  <1> HIDE DEF all
  <1> QED
      BY <1>2, <1>3, StrippedIs

(* Of a saved copy everything valid can be read again.                      *)
LEMMA InvIsCreatedStays ==
    ASSUME TaxInv, [TaxonomyNext]_taxonomyVars, NEW c \in Callers,
           caller[c].pc = "save", caller'[c].pc = "saving",
           overlay.ok, ~shrunk', ~stale', ~lost'
    PROVE  Pairs(Config) \subseteq Pairs(MergeCategories(PublicTaxonomy, PrivateDiff(caller[c].copy)))
  <1> DEFINE was == caller[c]
             copy == was.copy
             next == MergeCategories(PublicTaxonomy, PrivateDiff(copy))
  <1>w. was = caller[c] /\ copy = was.copy
      OBVIOUS
  <1>1. caller \in [Callers -> CallRecord] /\ was \in CallRecord /\ CallKept(was)
      BY DEF TaxInv, TaxTyped
  <1>2. SaveBegin(c)
    <2>1. ~UNCHANGED taxonomyVars
        BY DEF taxonomyVars
    <2>2. PICK d \in Callers : SaveBegin(d)
        BY <2>1, NoSaverAppears DEF NoNewSaver
    <2>3. d = c
        BY <1>1, <2>2 DEF SaveBegin
    <2> QED
        BY <2>2, <2>3
  <1>3. Steady /\ ~shrunk /\ ~was.old /\ ~was.blind /\ was.op \notin {"rename", "put"}
      BY <1>1, <1>2 DEF SaveBegin, Steady, TaxInv, TaxTyped
  <1> HIDE DEF was, copy
  <1>4. Grows(was) /\ Fresh(was)
      BY <1>1, <1>3, <1>w, CallIs DEF Grows, Fresh, Active, CallKept
  <1>5. PICK T : Truth(T)
      BY <1>3 DEF TaxInv, TruthKept
  <1>6. Entries(Config) \subseteq Entries(copy)
      BY <1>4, <1>5, <1>w DEF Truth, CallTrue, Copied
  <1>7. copy \in Taxonomy /\ Distinct(copy) /\ PublicTaxonomy \in Taxonomy /\ Distinct(PublicTaxonomy)
      BY <1>1, <1>w, CallIs, TaxonomyAssumption DEF CallKept, Taxonomy, Distinct
  <1>8. /\ PrivateDiff(copy) \in Taxonomy /\ Distinct(PrivateDiff(copy))
        /\ Entries(PublicTaxonomy) \cup Entries(PrivateDiff(copy)) = Entries(PublicTaxonomy) \cup Entries(copy)
      BY <1>7, DiffIs
  <1>9. Entries(next) = Entries(PublicTaxonomy) \cup Entries(copy)
    <2> DEFINE d == PrivateDiff(copy)
    <2>1. d \in Taxonomy /\ Distinct(d)
        BY <1>8
    <2> HIDE DEF d
    <2>2. Entries(MergeCategories(PublicTaxonomy, d)) = Entries(PublicTaxonomy) \cup Entries(d)
        BY <1>7, <2>1, MergedIs
    <2> QED
        BY <1>8, <2>2 DEF d
  <1> HIDE DEF next
  <1>10. ASSUME NEW x \in Pairs(Config) PROVE x \in Pairs(next)
    <2>1. PICK a \in ToSet(Config) : x \in {<<a.id, s.id>> : s \in ToSet(a.subs)}
        BY <1>10 DEF Pairs
    <2>2. PICK s \in ToSet(a.subs) : x = <<a.id, s.id>>
        BY <2>1
    <2>3. s.id \in Ids(a.subs) /\ s.id \notin Forbidden /\ s.id # ""
      <3>1. s.id \in Ids(a.subs)
          BY DEF Ids
      <3>2. Ids(a.subs) \cap Forbidden = {}
          BY NothingForbidden
      <3> QED
          BY <3>1, <3>2 DEF Forbidden
    <2>4. x \in Entries(Config)
        BY <2>2, <2>3, EntriesAre DEF Names
    <2>5. <<a.id, s.id>> \in Entries(next)
        BY <1>6, <1>9, <2>2, <2>4
    <2>6. PICK b \in ToSet(next) : b.id = a.id /\ s.id \in Names(b)
        BY <2>5, EntriesAre
    <2>7. PICK t \in ToSet(b.subs) : t.id = s.id
        BY <2>3, <2>6 DEF Names, Ids
    <2>8. x \in {<<b.id, u.id>> : u \in ToSet(b.subs)}
        BY <2>2, <2>6, <2>7
    <2> QED
        BY <2>8 DEF Pairs
  <1> QED
      BY <1>10, <1>w DEF next

(* TaxInv is an invariant, for any public file, spellings, proposals, edits, *)
(* callers and processes, whatever they save over one another.               *)
THEOREM TaxonomyInvariant == TaxonomySpec => [](TaxInv /\ TaxonomyTypeOK)
  <1>1. TaxonomyInit => TaxInv /\ TaxonomyTypeOK
      BY TaxStart, TaxTypeStart
  <1>2. TaxInv /\ TaxonomyTypeOK /\ [TaxonomyNext]_taxonomyVars => (TaxInv /\ TaxonomyTypeOK)'
      BY TaxInvKept, TaxTypeKept
  <1> QED
      BY <1>1, <1>2, PTL DEF TaxonomySpec

(* What the taxonomy promises: classifications bring no spelling into a second *)
(* category, what they return exists, hints lead to entries that exist, and a  *)
(* renamed subcategory answers to its old name.                                *)
THEOREM TaxonomyKeptTheorem == TaxonomySpec => []TaxonomyKept
  <1>1. TaxInv /\ TaxonomyTypeOK => TaxonomyKept
      BY InvIsOneInstance, InvIsResolved, InvIsHints, InvIsRenameSticks DEF TaxonomyKept
  <1> QED
      BY <1>1, TaxonomyInvariant, PTL

(* No save forgets what is read, as long as nothing is renamed or taken out,   *)
(* unless its copy is older than another save or was made of a torn overlay.   *)
THEOREM CreatedStaysTheorem == TaxonomySpec => CreatedStays
  <1>1. TaxInv /\ [TaxonomyNext]_taxonomyVars =>
          [\A c \in Callers :
             /\ caller[c].pc = "save" /\ caller'[c].pc = "saving"
             /\ overlay.ok /\ ~shrunk' /\ ~stale' /\ ~lost'
             => Pairs(Config) \subseteq
                  Pairs(MergeCategories(PublicTaxonomy, PrivateDiff(caller[c].copy)))]_taxonomyVars
      BY InvIsCreatedStays
  <1> QED
      BY <1>1, TaxonomyInvariant, PTL DEF TaxonomySpec, CreatedStays

=============================================================================

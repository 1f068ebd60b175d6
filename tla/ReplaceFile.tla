---------------------------- MODULE ReplaceFile ----------------------------
(***************************************************************************)
(* A JSON file that is replaced as a whole: os.WriteFile of "<file>.tmp"    *)
(* and os.Rename over the file, with a copy in place when the rename is     *)
(* refused (writeMirrorAtomic of store/manualdecisions, SyncJSONRegistry of *)
(* infra/jsonregistry, writeFileAtomic of infra/settings).  The operators   *)
(* act on a file system                                                     *)
(*   fs == [node |-> inode -> content, tmp |-> inode, file |-> inode]       *)
(* where 0 is "no such name": a name is not the file it names, and a writer *)
(* that holds an open descriptor writes to the inode wherever it is linked. *)
(***************************************************************************)
EXTENDS Integers, Sequences

\* What a file holds: nothing yet, the JSON text of a list, or the bytes of
\* two writers, which parse as nothing.  `at' is the modification time.
Blank(now)      == [state |-> "empty",   list |-> <<>>, at |-> now]
Json(list, now) == [state |-> "json",    list |-> list, at |-> now]
Garbled(now)    == [state |-> "garbled", list |-> <<>>, at |-> now]

NoFiles(inodes) == [node |-> [i \in inodes |-> Blank(0)], tmp |-> 0, file |-> 0]

\* Mutant: an inode another name still holds.
AnyInode(fs, held) == CHOOSE i \in DOMAIN fs.node : TRUE

FreeInode(fs, held) ==
  CHOOSE i \in DOMAIN fs.node : i \notin held \cup {fs.tmp, fs.file}

\* os.WriteFile opens with O_CREATE and O_TRUNC: an existing temp file is
\* emptied under whoever else writes it.
TmpOpened(fs, held, now) ==
  LET i == IF fs.tmp # 0 THEN fs.tmp ELSE FreeInode(fs, held)
  IN  [fs EXCEPT !.tmp = i, !.node[i] = Blank(now)]

\* The bytes go to offset 0: a shorter text leaves the tail of a longer one.
Written(fs, i, list, now) ==
  LET old == fs.node[i]
  IN  [fs EXCEPT !.node[i] =
         IF \/ old.state = "garbled"
            \/ old.state = "json" /\ Len(old.list) > Len(list)
         THEN Garbled(now) ELSE Json(list, now)]

TmpRenamed(fs) == [fs EXCEPT !.file = fs.tmp, !.tmp = 0]

\* copyFileContents, copyFile: os.Create empties the file in place, then the bytes of
\* the temp file are copied and the temp file removed.
FileOpened(fs, held, now) ==
  LET i == IF fs.file # 0 THEN fs.file ELSE FreeInode(fs, held)
  IN  [fs EXCEPT !.file = i, !.node[i] = Blank(now)]

TmpCopied(fs, now) ==
  [fs EXCEPT !.node[fs.file] = [fs.node[fs.tmp] EXCEPT !.at = now], !.tmp = 0]

FileExists(fs) == fs.file # 0
FileAt(fs)     == fs.node[fs.file].at
\* json.Unmarshal succeeds: the file is one writer's whole text.
FileParses(fs) == fs.file = 0 \/ fs.node[fs.file].state = "json"
FileList(fs)   == IF fs.file = 0 THEN <<>> ELSE fs.node[fs.file].list
=============================================================================

--------------------------- MODULE RegistryMirror ---------------------------
(***************************************************************************)
(* The JSON mirror of the documents table (infra/jsonregistry): whoever has *)
(* changed rows reads all of them, writes "<registry>.tmp" and renames it   *)
(* over the registry, or copies it when the rename is refused.  No lock.    *)
(***************************************************************************)
EXTENDS Integers, Sequences, FiniteSets, ReplaceFile

CONSTANTS Syncers, MaxRowChanges, MaxSyncFaults

ASSUME SyncersAssumption == IsFiniteSet(Syncers)

VARIABLES
  docRows,    \* the rows, as the sequence of the changes that made them
  registry,   \* registry.json and its temp file
  syncer,     \* per goroutine: where it is, the rows it read, its descriptor,
              \* and (history) whether no other one was at it meanwhile
  behindRows, \* history: a sync failed or died since the last one that ended
  crossing,   \* history: the last sync that ended had overlapped another
  torn,       \* history: a copy in place has begun and no sync has ended since
  syncFaults

mirrorVars == <<docRows, registry, syncer, behindRows, crossing, torn, syncFaults>>

NotSyncing == [pc |-> "idle", rows |-> <<>>, fd |-> 0, alone |-> TRUE]

MirrorInit ==
  /\ docRows = <<>> /\ registry = NoFiles(1..Cardinality(Syncers) + 2)
  /\ syncer = [s \in Syncers |-> NotSyncing]
  /\ behindRows = FALSE /\ crossing = FALSE /\ torn = FALSE /\ syncFaults = 0

Syncing == {s \in Syncers : syncer[s].pc # "idle"}
Descriptors == {syncer[s].fd : s \in Syncers}

\* A row is inserted, or the last one deleted, and then mirrored.
ChangeRows(s) ==
  /\ syncer[s].pc = "idle" /\ Len(docRows) < MaxRowChanges
  /\ \/ docRows' = Append(docRows, "doc")
     \/ docRows # <<>> /\ docRows' = SubSeq(docRows, 1, Len(docRows) - 1)
  /\ syncer' = [x \in Syncers |->
                 [syncer[x] EXCEPT !.alone = Syncing = {}, !.pc = IF x = s THEN "read" ELSE @]]
  /\ UNCHANGED <<registry, behindRows, crossing, torn, syncFaults>>

\* Mutant: an empty table is not mirrored.
ReadRowsUnlessNone(s) ==
  /\ syncer[s].pc = "read"
  /\ syncer' = [syncer EXCEPT ![s] = IF docRows = <<>> THEN NotSyncing
                                     ELSE [@ EXCEPT !.pc = "open", !.rows = docRows]]
  /\ UNCHANGED <<docRows, registry, behindRows, crossing, torn, syncFaults>>

ReadRows(s) ==
  /\ syncer[s].pc = "read"
  /\ syncer' = [syncer EXCEPT ![s] = [@ EXCEPT !.pc = "open", !.rows = docRows]]
  /\ UNCHANGED <<docRows, registry, behindRows, crossing, torn, syncFaults>>

\* Mutant: the registry itself is written.
OpenRegistry(s) ==
  /\ syncer[s].pc = "open"
  /\ registry' = FileOpened(registry, Descriptors, 0)
  /\ syncer' = [syncer EXCEPT ![s].pc = "write", ![s].fd = registry'.file]
  /\ UNCHANGED <<docRows, behindRows, crossing, torn, syncFaults>>

OpenRegistryTmp(s) ==
  /\ syncer[s].pc = "open"
  /\ registry' = TmpOpened(registry, Descriptors, 0)
  /\ syncer' = [syncer EXCEPT ![s].pc = "write", ![s].fd = registry'.tmp]
  /\ UNCHANGED <<docRows, behindRows, crossing, torn, syncFaults>>

WriteRegistryTmp(s) ==
  /\ syncer[s].pc = "write"
  /\ registry' = Written(registry, syncer[s].fd, syncer[s].rows, 0)
  /\ syncer' = [syncer EXCEPT ![s].pc = "rename", ![s].fd = 0]
  /\ UNCHANGED <<docRows, behindRows, crossing, torn, syncFaults>>

\* The rename, or the copy in place; an error when another sync has renamed the
\* shared temp file away.
RenameRegistry(s) ==
  /\ syncer[s].pc = "rename"
  /\ IF registry.tmp = 0 THEN behindRows' = TRUE /\ UNCHANGED <<registry, torn>>
     ELSE registry' = TmpRenamed(registry) /\ behindRows' = FALSE /\ torn' = FALSE
  /\ syncer' = [syncer EXCEPT ![s] = NotSyncing] /\ crossing' = ~syncer[s].alone
  /\ UNCHANGED <<docRows, syncFaults>>

RenameRefusedOpen(s) ==
  /\ syncer[s].pc = "rename" /\ registry.tmp # 0 /\ syncFaults < MaxSyncFaults
  /\ syncFaults' = syncFaults + 1
  /\ registry' = FileOpened(registry, Descriptors, 0)
  /\ syncer' = [syncer EXCEPT ![s].pc = "copy"] /\ torn' = TRUE
  /\ UNCHANGED <<docRows, behindRows, crossing>>

CopyRegistry(s) ==
  /\ syncer[s].pc = "copy"
  /\ IF registry.tmp = 0 THEN behindRows' = TRUE /\ UNCHANGED <<registry, torn>>
     ELSE registry' = TmpCopied(registry, 0) /\ behindRows' = FALSE /\ torn' = FALSE
  /\ syncer' = [syncer EXCEPT ![s] = NotSyncing] /\ crossing' = ~syncer[s].alone
  /\ UNCHANGED <<docRows, syncFaults>>

\* The process dies; the next one begins with what is on the disk.
MirrorCrash ==
  /\ Syncing # {} /\ syncFaults < MaxSyncFaults
  /\ syncFaults' = syncFaults + 1
  /\ syncer' = [s \in Syncers |-> NotSyncing]
  /\ behindRows' = TRUE
  /\ UNCHANGED <<docRows, registry, crossing, torn>>

MirrorNext ==
  \/ \E s \in Syncers :
       ChangeRows(s) \/ ReadRows(s) \/ OpenRegistryTmp(s) \/ WriteRegistryTmp(s)
         \/ RenameRegistry(s) \/ RenameRefusedOpen(s) \/ CopyRegistry(s)
  \/ MirrorCrash

MirrorSpec == MirrorInit /\ [][MirrorNext]_mirrorVars

-----------------------------------------------------------------------------
\* When nobody is at it, registry.json lists the rows of the table, all of them
\* and no other, if the last sync did not fail and overlapped no other:
\* of two that do, the one that read first may rename last.
RegistryFollowsRows ==
  Syncing = {} /\ ~behindRows /\ ~crossing => FileList(registry) = docRows

\* At every moment, crashes included, registry.json is absent or whole, but for
\* the copy that replaces a refused rename, and for two syncs in one temp file.
RegistryWhole ==
  crossing \/ torn \/ FileParses(registry)
=============================================================================

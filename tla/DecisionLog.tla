---------------------------- MODULE DecisionLog ----------------------------
(***************************************************************************)
(* The log of the user's decisions (store/manualdecisions): every operation *)
(* changes the manual_decisions table first and then rewrites a JSON mirror *)
(* of it, which the prompt builder reads through a cache keyed by the       *)
(* file's modification time.  Nothing but that cache is under a mutex.      *)
(***************************************************************************)
EXTENDS Integers, Sequences, FiniteSets, SequencesExt, ReplaceFile

CONSTANTS
  Editors,       \* the goroutines of record, update, delete and clear
  Readers,       \* the goroutines that build a prompt
  Targets,       \* the categories a decision can name
  MaxDecisions,  \* bound: decisions ever inserted
  MaxEdits,      \* bound: calls of the four operations
  MaxReads,      \* bound: prompts built
  MaxTick,       \* bound: ticks of the modification-time clock
  MaxMisses      \* bound: failing inserts, refused renames and crashes

ASSUME EditorsAssumption == IsFiniteSet(Editors)
ASSUME DecisionsAssumption == MaxDecisions \in Nat

VARIABLES
  decisions,  \* manual_decisions: id -> [target, on]
  lastId,     \* its AUTOINCREMENT counter
  disk,       \* the mirror, its temp file and their inodes
  tick,       \* the clock modification times are taken from
  cache,      \* syncCache
  editor,     \* per editor: where its call is and what it holds (`alone' is history)
  reader,     \* per reader
  edits, reads, misses,
  raced,      \* two edits have been under way at once, since the last clear
  behind,     \* an edit reached only one of table and mirror, since then
  sameTick,   \* a mirror appeared with the time a reader under way had seen
  shut        \* a crash emptied the mirror during a copy in place

decisionVars == <<decisions, lastId, disk, tick, cache, editor, reader,
                  edits, reads, misses, raced, behind, sameTick, shut>>

NoDecision == [id |-> 0, target |-> "", on |-> TRUE]
NoCache    == [at |-> -1, list |-> <<>>]
Resting    == [pc |-> "idle", op |-> "", rec |-> NoDecision, list |-> <<>>, fd |-> 0,
               alone |-> TRUE]
NotReading == [pc |-> "idle", at |-> -1, list |-> <<>>, alone |-> FALSE]

DecisionInit ==
  /\ decisions = <<>> /\ lastId = 0
  /\ disk = NoFiles(1..Cardinality(Editors) + 2)
  /\ tick = 0 /\ cache = NoCache
  /\ editor = [e \in Editors |-> Resting]
  /\ reader = [r \in Readers |-> NotReading]
  /\ edits = 0 /\ reads = 0 /\ misses = 0
  /\ raced = FALSE /\ behind = FALSE /\ sameTick = FALSE /\ shut = FALSE

Held == {editor[e].fd : e \in Editors}
Busy(es) == {e \in es : editor[e].pc # "idle"}

Call(e, op, pc, rec) ==
  /\ editor[e].pc = "idle" /\ edits < MaxEdits
  /\ edits' = edits + 1
  /\ LET first == Busy(Editors) = {}
     IN  editor' = [f \in Editors |->
           IF f = e THEN [Resting EXCEPT !.pc = pc, !.op = op, !.rec = rec, !.alone = first]
           ELSE IF editor[f].pc = "idle" THEN editor[f]
           ELSE [editor[f] EXCEPT !.alone = FALSE]]
  /\ raced' = (raced \/ Busy(Editors) # {})
  /\ reader' = [r \in Readers |-> [reader[r] EXCEPT !.alone = FALSE]]

\* Bound: a failure, a prompt or a tick comes while no two edits have overlapped;
\* no property says anything of the states after both.
Miss == misses < MaxMisses /\ ~raced /\ misses' = misses + 1

\* RecordManualDecision: an insert that fails is logged and mirrored, as a
\* decision without an id.
Record(e, target) ==
  \/ /\ lastId < MaxDecisions
     /\ Call(e, "record", "read", [id |-> lastId + 1, target |-> target, on |-> TRUE])
     /\ lastId' = lastId + 1
     /\ decisions' = [i \in DOMAIN decisions \cup {lastId + 1} |->
                        IF i = lastId + 1 THEN [target |-> target, on |-> TRUE] ELSE decisions[i]]
     /\ UNCHANGED <<disk, tick, cache, reads, misses, behind, sameTick, shut>>
  \/ /\ Miss
     /\ Call(e, "record", "read", [id |-> 0, target |-> target, on |-> TRUE])
     /\ behind' = TRUE
     /\ UNCHANGED <<decisions, lastId, disk, tick, cache, reads, sameTick, shut>>

\* UpdateManualDecision and DeleteManualDecision begin with a SELECT of the
\* row; what they write later is built from what it returned.
Fetch(e, op, id) ==
  /\ Call(e, op, op, [id |-> id, target |-> decisions[id].target, on |-> decisions[id].on])
  /\ UNCHANGED <<decisions, lastId, disk, tick, cache, reads, misses, behind, sameTick, shut>>

\* A Patch: the fields it leaves out are written back as they were read.
Patched(rec) ==
  {[rec EXCEPT !.target = t] : t \in Targets} \cup {[rec EXCEPT !.on = ~rec.on]}

\* Mutant: the row is written and the mirror gets what was read.
UpdateRowOnly(e) ==
  /\ editor[e].pc = "update"
  /\ \E rec \in Patched(editor[e].rec) :
       decisions' = [i \in DOMAIN decisions |->
         IF i = rec.id THEN [target |-> rec.target, on |-> rec.on] ELSE decisions[i]]
  /\ editor' = [editor EXCEPT ![e].pc = "read"]
  /\ UNCHANGED <<lastId, disk, tick, cache, reader, edits, reads, misses, raced, behind, sameTick, shut>>

UpdateRow(e) ==
  /\ editor[e].pc = "update"
  /\ \E rec \in Patched(editor[e].rec) :
       /\ editor' = [editor EXCEPT ![e].pc = "read", ![e].rec = rec]
       /\ decisions' = [i \in DOMAIN decisions |->
            IF i = rec.id THEN [target |-> rec.target, on |-> rec.on] ELSE decisions[i]]
  /\ UNCHANGED <<lastId, disk, tick, cache, reader, edits, reads, misses, raced, behind, sameTick, shut>>

DeleteRow(e) ==
  /\ editor[e].pc = "delete"
  /\ editor' = [editor EXCEPT ![e].pc = "read"]
  /\ decisions' = [i \in DOMAIN decisions \ {editor[e].rec.id} |-> decisions[i]]
  /\ UNCHANGED <<lastId, disk, tick, cache, reader, edits, reads, misses, raced, behind, sameTick, shut>>

ClearRows(e) ==
  /\ Call(e, "clear", "open", NoDecision)
  /\ decisions' = <<>>
  /\ UNCHANGED <<lastId, disk, tick, cache, reads, misses, behind, sameTick, shut>>

\* findJSONIndex, by id; a position outside of the list when there is none.
IndexOf(list, id) ==
  SelectInSeq(list, LAMBDA rec : rec.id = id)

\* Record reads the mirror leniently (an unreadable one counts as empty),
\* update and delete strictly (it ends their part of the mirror).
ReadMirror(e) ==
  /\ editor[e].pc = "read"
  /\ LET c    == editor[e]
         list == FileList(disk)
         i    == IndexOf(list, c.rec.id)
         next == CASE c.op = "record" -> Append(list, c.rec)
                   [] c.op = "update" -> IF i = 0 THEN list ELSE [list EXCEPT ![i] = c.rec]
                   [] c.op = "delete" -> IF i = 0 THEN list ELSE RemoveAt(list, i)
         quit == \/ c.op # "record" /\ ~FileParses(disk)
                 \/ c.op = "delete" /\ i = 0
     IN  /\ editor' = [editor EXCEPT ![e].pc = IF quit THEN "uncache" ELSE "open",
                                     ![e].list = IF quit THEN <<>> ELSE next]
         /\ behind' = (behind \/ quit)
  /\ UNCHANGED <<decisions, lastId, disk, tick, cache, reader, edits, reads, misses, raced, sameTick, shut>>

\* Mutant: the mirror is opened and emptied itself.
OpenMirror(e) ==
  /\ editor[e].pc = "open"
  /\ disk' = FileOpened(disk, Held, tick)
  /\ editor' = [editor EXCEPT ![e].pc = "write", ![e].fd = disk'.file]
  /\ UNCHANGED <<decisions, lastId, tick, cache, reader, edits, reads, misses, raced, behind, sameTick, shut>>

\* writeMirrorAtomic, one system call a step.
OpenTmp(e) ==
  /\ editor[e].pc = "open"
  /\ disk' = TmpOpened(disk, Held, tick)
  /\ editor' = [editor EXCEPT ![e].pc = "write", ![e].fd = disk'.tmp]
  /\ UNCHANGED <<decisions, lastId, tick, cache, reader, edits, reads, misses, raced, behind, sameTick, shut>>

WriteTmp(e) ==
  /\ editor[e].pc = "write"
  /\ disk' = Written(disk, editor[e].fd, editor[e].list, tick)
  /\ editor' = [editor EXCEPT ![e].pc = "rename", ![e].fd = 0]
  /\ UNCHANGED <<decisions, lastId, tick, cache, reader, edits, reads, misses, raced, behind, sameTick, shut>>

\* A reader between its stat and its store has seen the time the file has now.
SeenAt(at) == \E r \in Readers : reader[r].pc \in {"stat", "store"} /\ reader[r].at = at

RenameTmp(e) ==
  /\ editor[e].pc = "rename"
  /\ IF disk.tmp = 0
     THEN /\ behind' = TRUE
          /\ UNCHANGED <<disk, sameTick>>
     ELSE /\ disk' = TmpRenamed(disk)
          /\ sameTick' = (sameTick \/ SeenAt(FileAt(disk')))
          /\ UNCHANGED behind
  /\ editor' = [editor EXCEPT ![e].pc = "uncache"]
  /\ UNCHANGED <<decisions, lastId, tick, cache, reader, edits, reads, misses, raced, shut>>

\* The rename is refused (EPERM, EBUSY): the file is copied over in place.
RenameRefused(e) ==
  /\ editor[e].pc = "rename" /\ disk.tmp # 0
  /\ Miss
  /\ disk' = FileOpened(disk, Held, tick)
  /\ editor' = [editor EXCEPT ![e].pc = "copy"]
  /\ UNCHANGED <<decisions, lastId, tick, cache, reader, edits, reads, raced, behind, sameTick, shut>>

CopyTmp(e) ==
  /\ editor[e].pc = "copy"
  /\ IF disk.tmp = 0
     THEN /\ behind' = TRUE
          /\ UNCHANGED <<disk, sameTick>>
     ELSE /\ disk' = TmpCopied(disk, tick)
          /\ sameTick' = (sameTick \/ SeenAt(tick))
          /\ UNCHANGED behind
  /\ editor' = [editor EXCEPT ![e].pc = "uncache"]
  /\ UNCHANGED <<decisions, lastId, tick, cache, reader, edits, reads, misses, raced, shut>>

\* Mutant: the cache is trusted to notice by itself.
UncacheNothing(e) ==
  /\ editor[e].pc = "uncache"
  /\ editor' = [editor EXCEPT ![e] = Resting]
  /\ LET anew == editor[e].op = "clear" /\ editor[e].alone
     IN  /\ raced'  = (raced /\ ~anew)
         /\ behind' = (behind /\ ~anew)
         /\ shut'   = (shut /\ ~anew)
  /\ UNCHANGED <<decisions, lastId, disk, tick, cache, reader, edits, reads, misses, sameTick>>

Uncache(e) ==
  /\ editor[e].pc = "uncache"
  /\ cache' = NoCache
  /\ editor' = [editor EXCEPT ![e] = Resting]
  /\ LET anew == editor[e].op = "clear" /\ editor[e].alone
     IN  /\ raced'  = (raced /\ ~anew)
         /\ behind' = (behind /\ ~anew)
         /\ shut'   = (shut /\ ~anew)
  /\ UNCHANGED <<decisions, lastId, disk, tick, reader, edits, reads, misses, sameTick>>

\* ReadManualDecisionsSync: stat, look at the cache, read, store.  `alone' is
\* history: no edit has been under way since the read began.
Stat(r) ==
  /\ reader[r].pc = "idle" /\ reads < MaxReads /\ ~raced
  /\ reads' = reads + 1
  /\ reader' = [reader EXCEPT ![r] =
       [pc    |-> IF FileExists(disk) THEN "stat" ELSE "idle",
        at    |-> IF FileExists(disk) THEN FileAt(disk) ELSE -1,
        list  |-> <<>>,
        alone |-> Busy(Editors) = {}]]
  /\ UNCHANGED <<decisions, lastId, disk, tick, cache, editor, edits, misses, raced, behind, sameTick, shut>>

ReadOrHit(r) ==
  /\ reader[r].pc = "stat"
  /\ reader' = [reader EXCEPT ![r] =
       IF cache.at = @.at
       THEN [@ EXCEPT !.pc = "idle", !.list = cache.list]
       ELSE [@ EXCEPT !.pc = IF FileParses(disk) THEN "store" ELSE "idle",
                      !.list = IF FileParses(disk) THEN Reverse(FileList(disk)) ELSE <<>>]]
  /\ UNCHANGED <<decisions, lastId, disk, tick, cache, editor, edits, reads, misses, raced, behind, sameTick, shut>>

StoreCache(r) ==
  /\ reader[r].pc = "store"
  /\ cache' = [at |-> reader[r].at, list |-> reader[r].list]
  /\ reader' = [reader EXCEPT ![r].pc = "idle"]
  /\ UNCHANGED <<decisions, lastId, disk, tick, editor, edits, reads, misses, raced, behind, sameTick, shut>>

Tick ==
  /\ tick < MaxTick /\ ~raced /\ tick' = tick + 1
  /\ UNCHANGED <<decisions, lastId, disk, cache, editor, reader, edits, reads, misses, raced, behind, sameTick, shut>>

\* The process dies and starts again: the table and the files stay.
Crash ==
  /\ Miss
  /\ Busy(Editors) # {}
  /\ editor' = [e \in Editors |-> Resting]
  /\ reader' = [r \in Readers |-> NotReading]
  /\ cache' = NoCache
  /\ behind' = (behind \/ \E e \in Editors :
                  editor[e].pc \in {"read", "open", "write", "rename", "copy"})
  /\ shut' = (shut \/ \E e \in Editors : editor[e].pc = "copy")
  /\ UNCHANGED <<decisions, lastId, disk, tick, edits, reads, raced, sameTick>>

DecisionNext ==
  \/ \E e \in Editors :
       \/ \E t \in Targets : Record(e, t)
       \/ \E id \in DOMAIN decisions : Fetch(e, "update", id)
       \/ \E id \in DOMAIN decisions : Fetch(e, "delete", id)
       \/ UpdateRow(e) \/ DeleteRow(e) \/ ClearRows(e)
       \/ ReadMirror(e) \/ OpenTmp(e) \/ WriteTmp(e) \/ RenameTmp(e)
       \/ RenameRefused(e) \/ CopyTmp(e) \/ Uncache(e)
  \/ \E r \in Readers : Stat(r) \/ ReadOrHit(r) \/ StoreCache(r)
  \/ Tick \/ Crash

DecisionSpec == DecisionInit /\ [][DecisionNext]_decisionVars

-----------------------------------------------------------------------------
\* GetManualDecisions: the table, newest first.
Shown == [n \in 1..Cardinality(DOMAIN decisions) |->
            LET id == CHOOSE i \in DOMAIN decisions :
                        Cardinality({j \in DOMAIN decisions : j > i}) = n - 1
            IN  [id |-> id, target |-> decisions[id].target, on |-> decisions[id].on]]

\* What the Settings tab shows is what the mirror holds, unless since the last
\* undisturbed clear two edits overlapped or one failed half way: no sequence
\* of record, update and delete lets the table and the mirror of
\* manualdecisions.go drift apart, and a clear heals every drift.
MirrorAgrees ==
  Busy(Editors) = {} /\ ~raced /\ ~behind => Reverse(FileList(disk)) = Shown

\* At every moment, crashes included, the mirror is absent or one whole JSON
\* text, unless two edits overlapped or a refused rename makes the copy in
\* place: then RecordManualDecision's lenient read forgets the whole log.
MirrorParses ==
  \/ FileParses(disk)
  \/ raced \/ shut
  \/ \E e \in Editors : editor[e].pc = "copy"

\* A prompt built while no edit is under way is told the mirror's decisions,
\* newest first: the cache of ReadManualDecisionsSync never serves a decision
\* that was changed or deleted before the read, unless the change took place
\* within the clock tick of the file an earlier read was looking at.
ReadsFresh ==
  \A r \in Readers :
    reader[r].pc = "idle" /\ reader[r].alone /\ ~sameTick /\ ~raced /\ FileParses(disk)
      => reader[r].list = Reverse(FileList(disk))

DecisionTypeOK ==
  /\ DOMAIN decisions \subseteq 1..lastId
  /\ lastId \in 0..MaxDecisions
  /\ {disk.tmp, disk.file} \subseteq DOMAIN disk.node \cup {0}
  /\ disk.tmp = 0 \/ disk.tmp # disk.file
  /\ \A e \in Editors : editor[e].fd \in DOMAIN disk.node \cup {0}
=============================================================================

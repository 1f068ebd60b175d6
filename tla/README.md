# TLA+ models of pdf-triage-pdf2w

pdf-triage-pdf2w watches a folder (`__raws`), classifies the files dropped
there with a local model, and files them under `__archive`, with a row per
document in an SQLite database.  A web server with an auto-watcher, a CLI and
an MCP server work on the same folders and the same database.  This directory
holds TLA+ models of the parts where that can go wrong: who may run when, how
files change their names, what a scan and the operations on documents do to
files and rows, and what the store does to rows and their full-text entries.  Source paths
below are relative to `src/`.

## 1. Inventory

| component | state | operations | interacts with | hard because |
|---|---|---|---|---|
| scan lock (`app/scanlock`, `infra/pidlock`) | `.scan.lock` with a PID; per process a mutex and `heldInProcess` | `Acquire`, release function | every scan, repair and clear of every process | file operations of processes interleave; crashes leave the file; PIDs are reused |
| scan control (`httpapi/documents_write_scan.go`, `triage.go`, `watcher.go`) | `isAutoScanning`, `scanAbortRequested`, `manualStopCooldownUntil` | scan, repair, clear, unlock handlers; watcher tick | scan lock, task state, triage scan | four kinds of runs and an unlock request that clears the gate under them |
| task state (`app/taskstate`) | one `ActiveTaskState` | start, progress, finish, fail, reset | SSE hub, all runs | events are sent outside of the mutex; runs share one state |
| triage scan (`app/triagescan`) | the list of files, the file in hand; rows and folders | `RunTriageScan`, `processFile` | database, relocalizer, guards, converter, extractor, classifier | a chain of calls per file any of which fails; the same content twice; scans that ignore the lock |
| file moves (`app/relocalize/atomic.go`, `triagescan/helpers.go`) | names and folders in the file system | `renameAtomicNoOverwrite`, `moveToCollisionDir`, `CleanEmptyDirectories`, `removeEmptyDirAndParent` | scan, repair, clear, document requests | check-then-act on names and on folders; several system calls per move |
| document operations (`app/relocalize`, `httpapi/documents_write*.go`) | rows and files of one document | relocate, reclassify, back to `__raws`, trash, edit | file moves, database, categories | no lock at all |
| registry repair (`app/repair`) and clear (`app/clear`) | rows and files of all documents | `RepairRegistry`, `ClearRegistry...` | scan lock, file moves, database | partial failure in long loops |
| document store (`store/database`) | `documents`, `documents_fts`, `blocked_files` | insert, update, delete, prune, search | everybody | read-modify-write in separate statements |
| SSE hub, live reload (`httpapi/sse.go`, `livereload.go`) | subscribers with bounded buffers; a polling watcher per stream | subscribe, broadcast; poll, signal | task state, scans | slow clients lose frames; a change before the first look is missed |
| server start (`httpapi/start.go`, `cmd/pdf-triage`) | `.server.lock`, the port | start, take over the port, shut down | `infra/pidlock`, watcher | check-then-act, kill and retry; the watcher runs before and after the lock |
| taxonomy (`taxonomy`, `taxonomyconflicts`, `classificationresolution`, `store/categories`, `taxonomyhints`) | `categories.json`, the private overlay, the hints | resolve, create, rename, replace | classification, handlers, MCP server | copies that are changed for minutes and saved as a whole; near-duplicates |
| manual decisions (`store/manualdecisions`, `promptpersonalization`, `decisionrule`) | a table, its JSON mirror, a cache | record, update, delete, clear, read | handlers, classification | two stores for one list; a cache keyed by modification time |
| JSON mirror, settings, logger (`infra/jsonregistry`, `settings`, `logger`) | JSON files; ring buffer and log generations | sync; change, save, reload; log, rotate, stream | everybody | replacement by rename, one temp name for all; snapshots saved after the mutex is given back |
| Ollama client (`infra/ollama`) | one cached health answer | check, start, pull | scan, handlers | all clients share the entry; outages |
| classification pipeline (`app/classify`, `classification`, `extractionqualitygate`, `markdowntables`) | none | text to Markdown, to category, to gate | Ollama client, taxonomy | a chain of requests any of which fails; order of rules |
| image conversion (`app/convertimage`) | photographs, PDFs, the trash | convert one, bundle a folder | triage scan, the user | exclusive names; files exchanged meanwhile |
| chat (`app/aichat`, `chatplanner`, `chatquery`) | none | plan, search, answer, prune | document store, Ollama client | a ladder of searches, copies, limits |
| canonical paths (`canonicalpath`) | none | name and folder of a row | triage, repair, edit, rename | a function applied to its own results |
| intake (`httpapi/documents_write_files.go`) | `__raws` | import, merge, split | scan | names that are taken while others write |
| text and image algorithms, read handlers | none | formatting, pixels, queries | | little state |

What makes each correct, in one line: the lock admits one run; the gate, lock and
task state are given back on every path and a stop is obeyed; no file loses its
last name and none is overwritten; a content is archived once, a MOVED row has
its file, a file leaves `__raws`, and a duplicate is only parked when its twin
is archived; the rows, the full-text index and the files agree after every
operation that succeeds; a document is put in one place and stays there; what is
stored as a file can be read back whole; what was created, decided or set is not
forgotten; no part of a document's text is skipped; pages show what is.  `PROJECT.json` lists the hazards, each at its line.

## 2. Modules and their correspondence to the code

### Scan lock: `RunMutex`, `ScanLock`, `ScanLockRaces`
`RunMutex` is the promise: one owner per process, from "nobody" to a run and
back.  `ScanLock` is `Guard.Acquire` and its release function over the PID file:
`mu` is `g.mu`, `held` is `g.heldInProcess`, `file` the content of `.scan.lock`,
`pc` where each caller is.  `Enter` is the mutex and the `heldInProcess` test,
`ReadHolder` and `Probe` the two halves of `ReadActiveLockHolder`,
`OpenTruncate` and `WritePid` the two halves of `os.WriteFile` in
`AcquireProcessLock`, `ClearHeld`, `RereadFile` and `RemoveFile` the release.
`Crash`, `Restart`, `PidReused` and `ForeignExit` are the processes;
`WriteFails` is the error return; `ReadFails` a read of the file that fails, which
`Acquire` takes for a free lock and the release for a lock that is not its own.
`ScanLockRaces` adds a history variable that is set when one of the two race
windows of the implementation is entered, or a failed read misses a holder that is
alive, and states what the lock does outside of these.

### Scan control: `ScanControl`
The server's `isAutoScanning` (`gate`), `scanAbortRequested` (`abort`), the
cooldown and the task state, over the scan lock as a `RunMutex` (what `ScanLock`
is shown to implement).  Each slot of `Ops` is a run of one kind: a manual scan,
a watcher tick, a repair or a clear.  The order of setting up (`Claim`,
`Acquire`, `ClearAbort`, `StartTask`; repair starts its task before it has the
lock) and of leaving (`Exits`) is the handlers' own, defers included.  `Unlock`
and `ResetTaskState` are the two halves of the unlock handler.  `stop` and
`after` are history: when the last unlock arrived at a run, and how many files
the run started since.

### File moves: `FileMove`
A mover is a call of `renameAtomicNoOverwrite` (`BeginMove`, `Link`,
`NextCandidate`, `Unlink`) or of `moveToCollisionDir` (`BeginPark`, `Rename`,
`Copy`, `Unlink`).  `dir` maps names to files.  `Stop` cuts a mover off after
any system call: a failing call or a crash.  `SerialSpec` is the discipline the
scan lock enforces among scans, repairs and clears: no two movers with the same
source, one parking mover.

### Triage scan: `TriageScan`
`RunTriageScan` and `processFile`, one call at a time: the walk, the prune of
blocked rows, then per file the stat with the blocked row (`Stat`), extraction,
the checksum pre-check, classification with the two gates (a choice), the insert
with the UNIQUE collision, the move (`Link`, `Unlink`), the MOVED update, and
the parking of duplicates and blocked files.  `loc` says which folders hold a
file, `row` the status of the documents row of a content, `blkRaws` and
`blkHidden` the blocked_files rows under the two paths a file can have.
`LockFree` scanners do not take the lock, as the MCP server's.

### Document store: `DocStore`
`documents` and `documents_fts`, one SQL statement at a time; a call of the store
opens no transaction.  `docs` is the table, `fts` the entries with a `doc_id`,
`lastId` the AUTOINCREMENT counter.  `Insert` and `Index` are
`InsertDocumentRecord`; `ReadRow`, `Write`, `Unindex`, `Index`
`UpdateDocumentRecord`, which reads the row, merges what it is given into it and
writes all columns back; `DeleteRow`, `DropEntries` are `DeleteDocument`,
`PurgeRows`, `DropAllEntries` `PurgeAll`; `Open`, `Rebuild`, `CountIndex`,
`CountRows`, `Backfill` are `ensureFTS`.  `Fails` is a failing statement (an
error for `documents`, swallowed for the index) or the death of the process.
`alone` and `dirty` are history: which calls did not overlap, and which ids were
left by one that did or failed.

### Document operations: `DocOps`
What the operations promise together: edit (`Edit`, `EditRow`, `StatOld`, `Move`,
`Update`; the MCP server's update is the same), reclassify and delete
(`ReadOne`), rename of a subcategory (`Rename`), repair and clear (`ReadAll`,
`ListEnds`, the walk over the archive in `Walk`, `NextFile`, `Recat`,
`FilesEnd`) and, as far as it makes rows, the scan (`Scan`).  `FindFile` and
`FindNone` are `FindActualFileOnDisk` with what each operation does next.
A step is one call of the store, one move, or one look for a file; `DocStore`,
`FileMove` and `TriageScan` have the steps inside.  A file is identified by the
document in it; `disk` maps names (a folder and a base name) to files, `row` the
documents rows, `call` the call each caller is in.  `alone` and `dirty` are
history as in `DocStore`; a move of a file for another document's row makes that
document dirty too.

### Filing, intake and folders: `FilingPath`, `RawsIntake`, `FolderTidy`
`FilingPath` is `ComputeCanonicalPath` as a function of a row and the name the
file has now, and the callers that apply it to its own results: the triage
(`FileNew`, which blocks what has no real subcategory), the repair, the edit of a row
(`PutDocument`), the renaming of a subcategory, which works on rows read at its
start (`RenameSubcategory`, `RenameNext`, `RenameStops`), and the day that
changes (`DayPasses`).  A name is a stem and the stamp of a collision; which
stems are generic, and when, is given by the constants (`CodeNames`, `EndNames`,
`BareNames`).  A repair begins with its passes over the rows (`RepairBegins`: every
subcategory that is a year becomes `general`, and rows whose file is not found are
purged) and lists the places of the archive in `walking`; what is at a listed place
when the walk comes to it (`WalkReaches`) has a row (`RepairExisting`), has none
(`RepairUnindexed`) or cannot be read (`RepairUnreadable`).  Requests, the day and the
scan go on between these steps, a move may fail, and a repair may die and another begin.
The repair of one document, from its text to its move, is one step here; `DocOps` has
the steps, and with `TriageScan` what becomes of a second copy of one content.  `RawsIntake` is what the browser puts into `__raws`: an
import that creates its name exclusively and fills it afterwards, a merge and a
split that write over whatever has the name, and the scan that takes files.
`FolderTidy` is what happens to folders: a move makes its target folder, links
and leaves (`MakeTarget`, `MoveFile`, `LeaveFolder`, which is
`removeEmptyDirAndParent`); a scan ends with `CleanEmptyDirectories`
(`EnterSubfolder`, `LookAtFolder`, `RemoveFolder`, and `RemovalFails`, which is ignored); a clear moves back what has a
row and then what it finds in the archive (`ClearRow`, `ClearEntry`,
`ClearLeavesFolder`) and makes the folders again (`EnsureDirectories`).
`os.Remove` refuses a folder that is not empty, so a look and that removal are one
step; `RemoveAll` does not, and the look before it is a step of its own.

### Taxonomy: `TaxonomyRules`, `TaxonomyStore`
`TaxonomyRules` holds the pure part: `FindSubcategoryConflict`,
`FindCategoryConflict`, `ResolveCategory`, `ResolveSubcategory` and
`MergeSubcategory` over a taxonomy that is a sequence of categories with their
subcategories and aliases, and what the resolutions begin with: an empty category
becomes `administrative`, a date is cut off a subcategory and a year is none
(`CategorySlug`, `SubcategorySlug`).  How slugs are spelt, what a date leaves of them
and how alike two of them are (Levenshtein) is given by the constants.  `TaxonomyStore` is the overlay file and
the calls that load a copy, change it and save the difference: a classification,
the user's explicit choice (`EnsureCategoryAndSubcategoryExist`), the rename with
its hint, and `PUT /api/categories`; in the server and in the MCP server, whose
mutexes do not know one another.  `stale`, `lost`, `shrunk` and `renamed` are history:
a save from an older copy, a save made from an unreadable overlay, an entry taken
out, and the rename saved last, if the old name can only mean the new one and no
edit followed that may undo it.  `asIs` marks a pair that a classification returns
without asking the taxonomy.

### Stores in files: `ReplaceFile`, `DecisionLog`, `RegistryMirror`, `Mirrors`, `Settings`
`ReplaceFile` is `os.WriteFile` of `<file>.tmp`, `os.Rename` over the file and
the copy in place when the rename is refused, on names and inodes: two writers
with one temp name can hold the same inode or rename each other's.  `DecisionLog`
is the `manual_decisions` table, its mirror and the cache by modification time;
`RegistryMirror` the registry of documents (`Mirrors` puts the two mirrors side by
side and states what both promise); `Settings` the configuration in
memory, its snapshot saved after the mutex is given back, by rename or by the same
copy in place, the reload of a scan,
and the legacy folders that are emptied into their successors.

### Classification: `ClassifyFlow`, `TableRepair`, `LearnedRules`
`ClassifyFlow` is `ClassifyPDFText` request by request: the health check, Step A,
Step C chunk by chunk with one more try for a broken chunk, Step D; the model
server may stop, be gone or answer badly at any of them.  `TableRepair` is the
five passes over the assembled Markdown, in their order, each one step that looks
at all lines as the pass before left them, and the gate
(`AssessExtractionQuality`).  A line has a kind and cells, and remembers which
written lines its text is from.  `LearnedRules` is the order in which the
rule-based classifier decides: rules of the overlay, rules made of the user's
decisions, anchors, and the list of signals; `MCLearnedRules` gives it names,
titles and papers.

### Services: `TaskEvents`, `LogFile`, `LiveReload`, `OllamaHealth`, `ServerStart`
`TaskEvents`: a change of the task state and its snapshot are one step under the
mutex, its broadcast comes later and offers the frame to one client after the
other; a full buffer misses the frame.  `LogFile`: ring buffer, listeners, file
and rotation, and the stream of a page that is sent the last entries first.
`LiveReload`: a watcher per page, its first fingerprint and its one pending
signal.  `OllamaHealth`: the cache of one entry all clients share, the start of
the server after an outage and the pull of a missing model.  `ServerStart`: the
watcher, the lock that is read and then written, the port and its take-over (the kill
may have failed unnoticed), the requests that scan, repair or clear on goroutines of
their own, and the shutdown, which waits for them 5 s at most (`Drained`,
`ShutdownTimesOut`), for several instances on one data directory.

### Photographs and chat: `PhotoConvert`, `ChatFlow`
`PhotoConvert` claims a PDF name exclusively, writes the PDF, has its text
extracted and only then moves the photographs to the trash, while the user drops
and exchanges files and anything may fail.  `ChatFlow` is one request: the plan of
the model or of the rules, the ladder of searches from strict to loose, the token
scorer, the copies of a month that are collapsed after a bounded fetch, and the
citations that prune the rest, while documents come and go.

### Compositions
`ScanControl` runs over the `RunMutex` that `ScanLock` is shown to implement, and
`DocOps` puts the operations of `DocStore`, `FileMove` and `TriageScan` together
at the grain of one call each.  `Promises` states what several services promise
together to one user.  `MCStores`, `MCServices` and `MCFileMove` put
components side by side that share no state and never wait for one another:
`part` is the one that moves, the others stay at their start.  This
saves runs, not states, and claims nothing about interactions between the parts:
what one of them needs of another (the pair a classification returns, the health
answer, the rows a registry lists) is a choice in its own module.

## 3. Runs

| run | instance | question |
|---|---|---|
| `scanlock` | 2 processes x 2 callers, 3 faults | the lock, its refinement of `RunMutex`, and that nothing blocks it for good |
| `control` | a scan, a watcher tick, a repair, a clear, one unlock | one pipeline, no leaks, stop obeyed |
| `filemove` | 5 names (2 for parking), 2 files, 2 movers, 2 attempts; 2 documents over 3 days; 2 imports of one name, 2 merges, a split; 2 documents and a `Thumbs.db` in folders two deep, one request, one refused call | no file lost, none overwritten, for serialised movers; a repair has nothing to do twice; what was accepted stays until the scan takes it; no clean-up deletes a document it could have seen |
| `triage` | 3 files (2 of the same content), 2 scanners under the lock, 2 faults | files leave `__raws`; duplicates and rows are right until the first fault |
| `triage_lockfree` | 2 files of the same content, one scanner ignores the lock, 2 faults | dedup and MOVED rows hold whatever interleaves or fails |
| `docstore` | 2 callers, 2 ids, 2 checksums, 2 columns, 1 fault | rows and index entries agree after calls of their own, and an entry is never another document's |
| `docops` | 2 callers, 2 documents, 2 folders, 2 base names, 1 fault or overlap | rows name their own files, filed documents have rows, repair and clear restore both |
| `stores` | 2 writers and a reader of each store, one or two faults and crashes | mirrors, settings and taxonomy keep what they were given |
| `services` | see below | pages, log, start, health, photographs, texts, tables, rules and chat |
| `control_lost` (violation) | a watcher tick, one unlock | a stop before `setAbort(false)` is lost |
| `tables_pad` (violation) | up to 4 lines | the line above a table that begins with its separator is padded, or the pass panics |
| `overlay_outranks` (violation) | one lesson, three overlay rules | a rule for bank outranks the anchor of a tax notice |

Some properties are conjunctions; their parts are definitions of their own:

| property | parts |
|---|---|
| `DocumentsKept` | `SettledStays`: what a repair has put in its place the next one, its first passes included, leaves there; `SpeakingNamesStay`: a name that says something survives every move; `ImportsAreKept`, `PagesAreKept`; `NothingDeleted`, `FoldersStand`, `CleanLeavesNone`, `ClearLeavesRoot` of the folders |
| `MirrorsSound` | `MirrorAgrees`, `MirrorParses`, `ReadsFresh` of the decisions; `RegistryFollowsRows`, `RegistryWhole` |
| `SettingsKept` | `ConfirmedSettingsStay`, `SettingsParse`, both until a copy in place is begun and no save has completed since; `LegacyFilesKept` |
| `TaxonomyKept` | `OneInstance`: classifications bring no spelling into a second category; `ResolvedIsKnown`, `HintsLeadHome`; `RenameSticks`: a private subcategory that was renamed answers to its old name |
| `PagesShowWhatIs` | `PageShowsTask`, `ProgressNeverBack`, `NoPageStopsAScan`; `PageIsFresh` of the live reload; `FailureStaysVisible` of the log |
| `LogKept` | `LogBounded`, `NewestLinesKept`, `NoEntryTwice`, `PageHasLog` |
| `StartsAlone` | `OneServer`, `LockNamesHolder`, `NoScanAfterReturn`: none but a request that outlasted the 5 s of `Shutdown`; `OneTakeOver` |
| `AnswersSound` | `AnswerRecent`, `StartedMeansProbed` of the health cache; `NeverEmptyHanded`, `EveryPeriodHasItsPlace`, `LadderKeepsOrder` of the chat |
| `PapersWhole` | `NoPhotoLost`, `UserPdfKept`, `ParkedHasPdf`, `OneDocumentUnlessFault`; `NothingSkipped`, `ContinuesPrevious`, `UnreachableNeverRules` |
| `TablesRepaired` | `NothingLost`, `DamageUndone`; next to it the action property `AlignedStay` |
| `RulesInOrder` | `LessonLearned`, `NoHijack`, `CurationWins`, `StatementIsBank`, `OnlyBankOutranks` |

**Bounds.**  `MaxFaults` and its like (`MaxMisses`, `MaxSyncFaults`, `MaxCrashes`,
`MaxLogFaults`, `MaxOutages`, `MaxPhotoFaults`, `MaxModelFaults`, `MaxReuses`)
bound crashes, failing calls, outages and reused PIDs; `MaxStops` the unlock
requests; `Many` a list of files that may stay long; and
`MaxAttempts` is the program's `maxRenameAttempts`.  `MaxId` bounds the ids ever
given.  In `DocStore` a rebuild of the index counts as a fault; it is one step,
since it runs when a process opens the database.  In `DocOps` a call that begins
while another one is about the same document counts as a fault, and the user
drops each document's file once.  Two processes, callers,
movers or scanners are enough for every race listed: each needs two actors and
one resource.  A second fault makes a crash in the clean-up of a crash possible.
The proofs below hold for every value of these constants.

The limits of the program are scaled down so that they are reached: a client's
frame buffer (64) is 2, the ring buffer and a log generation hold 2 and 1 lines
of 5 (the run starts the log with all its older generations), the health cache
lives one of two hours, a chart has 4 columns (14), a headless gap 3 lines (8),
and the gate's limits are 3 and 4 lines (4 and 6).
`TableRepair` takes every text of up to 4 forms; two blocks and what separates
them fit into that.  `MaxLines` is 5 since a third generation has to be rotated
away.  The taxonomy has two public categories and slugs that are equal, alike,
contained in one another, dated, years and forbidden; three calls let a second writer save
between the load and the save of a first, and a third call see the result.
`FilingPath` has a name that is always generic and one that a stamp makes
generic, a subcategory two categories own, one that one owns and one the category
`personal` owns, a rename to a year, and a calendar with a new day and a new
year.  Two instances start, stop and scan on one data directory.  `FolderTidy` has a
folder in a folder on either side, the trash, and a clean-up or clear with one request
and one refusal beside it.

**Deadlock** is checked in `scanlock`, `control`, `triage`, `triage_lockfree`,
`docstore` and `docops`.  In the others behaviours really end: the serial movers
find nothing left to move, requests and lessons have all been made, a text has
been assessed, a server has returned.

**Fairness.**  A Go function that has been called runs on until it returns
(`WF` of a call's steps); the auto-watcher ticks every ten seconds and so a
caller or scanner keeps coming (`WF` of `Enter`, `Start`); a foreign program
under a reused PID ends.  Nothing is assumed about crashes, failures, clients
and users.  The three liveness properties are `LockNeverStuck`, `StopEndsRun`
and `LeavesRaws`; all else is safety and needs no fairness.

## 4. Proofs

Every theorem holds for all values of the constants that satisfy the named
assumptions of its module; these say that the markers for "nobody" and "nothing"
are not members of the sets they mark, that bounds are natural numbers, that the
`LockFree` scanners are scanners, and, for the files on inodes, that finitely many
goroutines write.  The others are about data: the empty text is not an output
folder and a list of names is a sequence of texts (`Settings`); an import tries at
least one name, and none a merge or a split writes (`IntakeAssumption`); the health
cache has a time to live (`TTLAssumption`); at least one rule made of decisions is kept
(`RulesAssumption`); a run has files (`EventAssumption`); the log rotates and keeps a
generation (`LogAssumption`: `New` replaces a count below one, and a limit of 0, without
rotation, has nothing to prove); the PDF of a folder has a
name of its own (`PhotoAssumption`); an id belongs to one document, texts are
strings and dates numbers (`ChatAssumption`); rows are rows and the calendar has a day
(`FilingAssumption`); folders are two trees, below `__raws` and the archive, the trash
is a spared folder directly in `__raws`, and neither root is spared (`TidyAssumption`,
which the code's configuration and the file system give); the public file names a
category once, what is proposed and asked for is made of slugs, a slug contains
itself, dates are cut from slugs to slugs, `administrative`,
`bulletin_salaire` and `general` are slugs and `general` is a forbidden subcategory (`TaxonomyAssumption`: the merge takes
the first category of an id, and the built-in list names none twice; the list of
forbidden names is in the code).

`ScanLockProofs` proves the type invariant, that the Guard admits one run per
process and `heldInProcess` describes it, that `ScanLock` implements
`RunMutex`, and the three properties outside of the race windows and of a missed holder.  The
invariant adds to the checked properties that the mutex's owner is exactly the
run inside `Acquire` and that at most one run per process is past the
`heldInProcess` test; for the races it adds that, without a race, a run in the
window has the file to itself and the file names its process from `WritePid` on.

`ScanControlProofs` proves all five properties of `control`, `TypeOK` included,
for any number of runs of each kind, lists of any length and any number of unlock
requests.  What a run holds is not a variable: it is read off its place and off
what it still owes on its way out (`WaysOut`, `HasLock`, `HasGate`, `HasTask`), as
it is by the handlers' defers.  The lock has the owner these say (`LockOwned`),
whatever unlock requests do; a gate or a task that is up has a run behind it
(`GateClaimed`, `TaskRuns`, from which `NothingLeaks`); and until the first unlock
the gate keeps runs apart (`GateExcludes`, from which `TaskDescribesRun`).
`StopHolds` is what `StopsAtFileBoundary` needs: a stop that came after the run
had set up the flag is still up at every poll, since who clears it has the lock.

`FileMoveProofs` proves for `SerialSpec` the type invariant, `SafeName`,
`NeverLost` and `NeverOverwritten`.  The inductive part is that a name about to
be removed and the name just linked hold the same file and differ; this is what
fails when two movers share a source.

Its other parts are the three modules whose properties `DocumentsKept` joins; it
is proved of their specifications together (`DocumentsKeptTheorem`).  They share no variable.
For `RawsIntake`, imports and pages are kept while nothing has written over them
(`IntakeKept`).  For `FilingPath`, `FilingInv` says of a document a repair has put
right that its row is the one the next repair would write, that this one would not
send it back, and that its file has the name and the folder of that row (`AtHome`),
or is a bare name with a stamp, which is exempt.  The next repair is taken from its
first pass on, so all this is said of the row with its year written as `general`
(`Normalized`); that pass and the day leave a document right that was (`StillRight`).  That this survives the moves of other
documents needs that names have a history: a stem is the one the file came with, or has a
date and so is never again a bare or a scanner's name (`NameKnown`); a stamp on such
a name does not make it generic, and a second computation of the path gives what
the first has given (`RepairedTwice`).
For `FolderTidy`, `TidyInv` describes the walk itself: the stack is a chain of
folders, each in the one before (`CleanFrames`, `ClearFrames`); what a clean-up that
nobody disturbs has not yet seen is on the stack or below an entry left there
(`CleanCovers`), so an empty folder it has passed is gone; every entry of a folder a
clear is in is still to come or is the next folder of the stack (`ClearCovers`), so
when the folder is left there is nothing in it; and between the last look and
`RemoveAll` only a drop puts a document there (`RemovesNone`), since the moves of
requests lead to the archive, to the trash, which is spared, or to `__raws` itself
(`TargetsApart`), and none of these is in the folder looked at.
`Path` is the least set of folders that is closed upwards, not a recursion, so that
all this follows from its closure and leastness.

`TriageScanProofs` proves the type invariant, `ArchivedOnce`, `MovedRowHasFile`
and `ParkedIsKnown` for any number of scanners, lock or no lock, and any number
of faults.  The invariant ties each scanner's place to the row of the content
it has in hand: from the insert on, the row is there and names that file.  A
second invariant, `LockedInv`, is about scanners that all take the lock: one works
at a time, the file in hand stays in `__raws` until it is moved, and, until
something fails, a file has two names only between the halves of its move and a
row is PENDING only while its file is being filed.  It gives
`ParkedHasTwinUnlessFault` and `NoStrandedRowUnlessFault`.

Its last part is about the tables of the Markdown that Step C makes of a file
(`TableRepair`), for replies of any length.  A pass makes its page by joining pieces,
one for each line of the page before it, so the lemmas about joined pieces come first:
they lie in their order, they cover the page and none overlaps another
(`JoinedPlaces`, by induction over their number).  For `AlignedStay`: a table whose lines are
the first of their pieces, with a line above that stays, stands on the new page
(`StandsWhereJoined`), perhaps longer at its end, and then has the same header
(`StandingAligned`).  It is so for the merge, which drops blank lines that lie between
tables, for the reattachment, which takes out headings with their rows, none of them in a table
with a header (`EscapedOutside`), and for the padding, which leaves a table as wide as its rows.
`NothingLost` has the invariant `PageKeepsText`: each line of the draft that holds text
is at one place of one line, which is not blank.  A pass carries the texts of at most two lines
into one (`Carries`), each line into one only; for the reattachment this needs that two
headings have two rows (`HeadingOfRow`) and that the last line of the table above a heading
stays (`GoneOutside`).
`DamageUndone` is about what all the passes together make of a reply.  Its invariant,
`PassesMade`, says whose work the page is; the rest is about the passes as functions.  A
repairable reply is rows (a blank line among them, perhaps), then notes, then headings with
the values of their rows (`RepairableIs`, by counting), and its draft has these lines one by
one (`DraftedIs`).  The pipes put back, nothing is a chart and there is one table
(`PipedIs`), or two with the blank line between them, which the merge joins (`MergeSplit`)
and else leaves alone (`MergeShape`).  Every heading with the values below it is then a
row that has escaped from the table at the top, since no gap is too wide (`EscapedAre`),
and the reattachment lays them behind the table in their order (`ReattachShape`), each at
the place that the number of headings above gives it (`HeadingsAboveIs`).  What is left is
one table and notes below it (`Whole`); the last pass widens a header that is a cell short
(`RestoreWhole`), and in such a page the gate finds nothing (`RepairedPasses`).

`DocStoreProofs` proves the type invariant, `EntryBelongs`, `SettledAgrees` and
`OtherColumnsKeptAlone` for any callers, ids, columns and faults.  `SettledAgrees`
speaks of rows nobody works on and is not inductive; the invariant adds what a
call finds at each of its statements about an id it is alone on (`Ready`: the row
it read is still the row, up to one column; the entry it is to write is not
there), that being alone excludes all others (`AloneInv`), that calls that have
only read leave the agreement as it is (`SettledInv`), and, for `EntryBelongs`,
that an id above the counter has neither row nor entry (`UsedIds`).

`DocOpsProofs` proves the type invariant, `RowHasFile` and `FileHasRow`.  The
argument is about one call and one document it has had to itself since it began:
nobody else moves that file or writes that row (`Exclusive`), so what the call has
read is still so when it acts on it (`InHand`, place by place), and a document it
has not come to yet is as it should be (`Settled`).  Repair and clear also heal
documents that were wrong before; of those nothing is known but that the walk
over the archive has every name not yet visited (`Owned`), and that is enough:
when the walk is over, no file of such a document is left without a row.  A
step is described by its effect on one document (`Effect`), and one lemma carries
the invariant over every step that has that effect.  Each document has one name
(`OneName`), which is what the links and renames of `FileMove` promise.

`ServicesProofs` is about the services, one part each:

- `StartsAlone`, for any number of instances and reused PIDs.  The lock file decides
  nothing by itself: it is read, emptied and written in three calls.  Without a race
  one instance at a time is between its look and its removal (`ClaimsAlone`), and the
  file names it from its write on (`OwnerNamed`); with one, the last to write is
  still named unless another is about to remove (`WriterNamed`).
- `AnswersHonest`: what a caller is about to answer or to store is no older than the
  probe it made, and a caller that has started the server probes anew (`Honest`).
- `PageIsFresh`: a page shows at least what its watcher has seen, unless a reload is
  pending (`ReloadInv`).
- `RulesInOrder`: the first rule is made of the newest decision that teaches.  The
  loop over the decisions is a recursive function here; what it has made of the first `n`
  goes by induction over `n` (`Made`, `Counting`), which is proved through the least
  counterexample, since the library's theorem takes an operator.
- `PageShowsTask` and `ProgressNeverBack`: unless two changes were sent at the
  same time, the last frame on its way to a page is the task, and a page nothing is
  on its way to has the task as its last frame (`EventInv`).
- `TextWhole`: what is converted is the chunks before the next one, each as itself or as
  what its first or second try made of it.
- `PhotosKept`: from the claim on the PDF is the job's own, what is still to be moved
  is on its pages, and a photograph no job is about is in no document
  (`PhotoInv`).  `PapersWhole` is this and `TextWhole`.
- `ChatServes`: a plan on the ladder has given up the keywords first, and the
  exclusions only where the plan without keywords finds nothing even now
  (`OnLadder`); documents that come are younger than the request and do not count.  With no more than three copies of a
  month, three times the limit has as many months as were asked for: documents go into
  pairs of their month and a number up to three, one to one (`ThreeOfEach`,
  `PlacesOfPeriods`).  What the citations leave is at least half of that, or all that was
  asked for.  `AnswersSound` is this and `AnswersHonest`.
- `LogKept`, from two invariants.  `PagesInv`: an entry still to be told to a page is
  nowhere on that page (`Owed`), no two goroutines owe the same one (`TellersDiffer`), and
  each entry since a page listens is on it, refused by it or owed to it (`AllComes`).
  `FilesInv`: while no two lines were written together, `currentBytes` plus one limit per
  failed rotation bounds the youngest generation, or one line more while that line is
  not counted yet (`SizeKnown`); and while no rotation has failed, the generations are the
  last files made, in that order, all but the youngest full (`Generations`), with the lines
  in the order they were logged (`Sorted`).  A line that is gone was thus in a file
  older than `Retain` full ones, whose lines are counted one to one.
- `FailureStaysVisible`: the sessions are a loop over the buffered entries, a recursive
  function in the model; after n of them, a name one of which is a failure has failed, by
  induction over n (`FailedStays`).

`StoreProofs` is about the stores.  Its first part is the files that are replaced by
rename, `ReplaceFile`, once for all contents: the temp file is never the file itself, there is always an inode nobody holds for a
new one (`FreeInodeExists`), opening it leaves the file alone (`TmpOpenedFile`), a write
through a descriptor changes only what has that inode (`WrittenFile`), the rename
and the copy leave the file with what the temp file had.  Then `RegistryMirror`:
a sync nobody has overlapped knows the temp file for its own and the rows it read
for the rows, so the file has them when it is done (`RegistryFollowsRows`), and at
no moment is the file torn but by the copy in place (`RegistryWhole`).  And
`Settings`: a PUT or reload nobody has overlapped knows what memory and file hold
(`SavingInv`), the text of a `Config` reads back as that `Config`
(`TextReadsBack`, for lists of any length), and the names the migration has left to do are still in
the legacy folder (`MovingInv`); together `SettingsKept`.

Its last part is `DecisionLog`, which with the registry gives `MirrorsSound`.  The
mirror is a list of the table's rows by ascending ids (`IsTable`): recording appends,
an update replaces and a delete removes the entry of the one row it is about
(`RecordAppends`, `UpdateReplaces`, `DeleteRemoves`), and the reverse of such a list
is the view of the Settings tab (`TableIsShown`).  An edit that has had the mirror
to itself since its call knows its own temp file and a list for which this holds,
place by place (`AloneKnow`); a clear knows it whatever was before, which is why it
heals.  The list a reader or the cache holds is the file's if the file still has the
modification time it was read at (`ReadersGood`, `CacheGood`), the reader being
excused by `sameTick` and the cache, while an edit is about to drop it, by that.

Then `TaxonomyStore`.  `Entries` is a taxonomy as a set of pairs: the categories, and the
subcategories with a valid name.  What is read after a save is the entries of the
copy and the public ones (`MergedIs`, `DiffIs`, `StrippedIs`, `ReadBack`), which are
sequences and, but for the aliases, sets.  A resolution adds at most the entry it
returns, and only if no other category spells it so (`CategoryResolved`,
`SubcategoryResolved`, `Passed`).  The invariant (`TaxInv`) then speaks of what the overlay held
last, `T` in `Truth`, even while it is torn: a call that no save has overtaken holds
all of it (`Fresh`), one that has not resolved yet holds no more, what was returned and
every hint is in it.  Without the first a save would forget, and
without the second a hint could name what was never saved.  `Clear` is
`OneInstance` of the overlay and of every copy that a classification holds: a stale copy can
forget, but not bring a spelling twice.  `Leads` is the first subcategory that
answers to a name; after a rename it is the new one, and stays so when others are
appended, saved and read (`LeadsIn`, `LeadsSaved`, `LeadsLoaded`).  `Sift`, the filter loop, is a
recursive function, and what it keeps goes by induction over the items as in `Made`
(`SiftLeaves`).

Ten things came out of proving: that a PUT with an empty folder keeps the folder
(as `UpdateConfig` does), that a successful save ends the time in which memory and
file differ, that `LockNamesHolder` needs no exemption for an instance that is
about to write, that a photograph whose names in the trash are all taken becomes
a second document without any fault (`TrashFull`, beyond the bounds of the run), and
that a repair may move a document to the category `personal`, which the next repair
takes for no classification at all (`SettledWith`; the run's taxonomy had no such
branch), that what an earlier process leaves of the log are full generations
(`LogInit` had one line in each, which `NewestLinesKept` holds for only if a file holds
one), that a payslip whose subcategory is rejected becomes
`bulletin_salaire/bulletin_salaire`, in the taxonomy or not (`asIs`), that stale saves do not
break `OneInstance` but a public file that spells a subcategory twice does,
that a third subcategory may answer to a name that was given up, or a later edit
undo the rename (`Tellable`, `renamed`), and that the sessions of the log were made of
the entries in no particular order, where the code goes from the oldest to the newest
(`Sessions`).  The models and the properties say so now.

The type invariants of the modules proved about are proved rather than run, but
for `ScanControl`, whose run also checks it.

Only model-checked:

- liveness (`LockNeverStuck`, `StopEndsRun`, `LeavesRaws`): the prover has neither
  fairness nor ENABLED.  `NoPageStopsAScan`, a conjunct of `PagesShowWhatIs`, is
  about ENABLED, too; what it rests on, that who sends owes its event to somebody,
  is proved (`SendersOwe`).  The other conjuncts are theorems of their own.

No model declares a RECURSIVE operator.

## 5. What the code does not promise to hold

Three places where a comment says more than the code does have a run of their
own (`findings` in `PROJECT.json`).  Also found while modelling, without a run
of their own; where a property has an exemption, it is for one of these.

Scan lock, server start:

- Two processes can both hold the scan lock: it is read, found free and written
  in three steps (`scanlock.go:179`), although `:45-46` says "across processes".
  `ExclusiveUnlessRaced` exempts that window.
- The release function clears `heldInProcess` before it removes the file
  (`scanlock.go:193-196`); a run of the same process that acquires in between
  loses its lock file.  This is the other window of `ScanLockRaces`.
- The release reads the PID, compares and removes by name (`pidlock.go:72-77`);
  another process can write its PID in between.
- `start.go:82` says the single-instance lock keeps two instances from running
  their auto-watchers concurrently.  The watcher ticks before the lock is taken,
  and `Start` gives the lock back before the watcher is stopped (`app.go:389`).
- A lock file that cannot be read counts as a free lock (`pidlock.go:52-55`), and
  whoever holds it is missed.
- `Shutdown` waits 5 s and its error is dropped (`start.go:133-137`).  A manual scan,
  repair or clear that takes longer, or one of a server whose open event streams use
  the 5 s up, goes on after the lock is given back and the database closed
  (`commands.go:44`).  It still has the scan lock; `NoScanAfterReturn` exempts it.
- A kill that failed counts as one that was made (`pidlock.go:121-122`); only the
  retry of the port tells.
- `triagescan.go:43` says the MCP server takes the scan lock; it does not
  (`mcpserver/handler.go:402`).
- Relocalizer, classifier, converter, clear and Ollama client are built once with
  the configuration of the start; only the scan reloads it
  (`triagescan.go:289-291`).

Files:

- `renameAtomicNoOverwrite` removes its source by name (`atomic.go:34`).  Of two
  movers with one source the second can remove a file that has taken the name
  since; the scan lock keeps movers apart, requests on documents do not take it.
- `moveToCollisionDir` looks for a free name and renames over it
  (`helpers.go:46-56`); a second parking mover overwrites the first one's file.
- A failure between the insert and the MOVED update leaves a PENDING row
  (`triagescan.go:634`, `:836`); the next scan takes the file for a duplicate of
  itself and parks the only copy.
- A photograph is moved to the trash under its own name or one of 20 others; when
  all are taken it stays in `__raws`, and the next scan makes a second document of
  it (`convertimage.go:538`, the exemption `TrashFull`).
- The blocked list is about files the walk skips (`.blocked_files`), so the prune
  forgets them at the next scan (`database.go:1162`).
- A merge or a split writes over a waiting PDF of the same name
  (`documents_write_files.go:209-211`, `:259-261`); two splits of PDFs with one
  stem mix their pages.  An import is visible to the scan before its bytes are,
  and one that fails leaves a torn file.
- When the text of a freshly converted PDF cannot be had, the PDF stays in
  `__raws` and the photograph is triaged as well: two documents.  A photograph
  exchanged while it is being converted goes to the trash unconverted.  A torn
  PDF keeps its name for ever.
- The legacy folders are emptied with `os.Rename`, over a file of the same name in
  the new folder (`settings.go:663`).
- `CleanEmptyDirectories` looks at a folder and removes it with all that is in it
  by then (`triagescan/helpers.go:118`): a document dropped in between is gone,
  the one exemption of `NothingDeleted`.  Folders are made and removed without a
  lock: a move fails when its folder was tidied away between `MkdirAll` and the
  link.  When the last document lay directly in `__archive`, the move out of it
  removes `__archive` itself; the next move or start makes it again.
- Clear swallows failures of moving orphans and takes symlinked directories for
  files.

Rows:

- `UpdateDocumentRecord` writes all columns back (`database.go:841-904`).  Two
  overlapping updates of one row, such as an edit and the new path of a move, lose
  one of the two: without its exemption `OtherColumnsKeptAlone` is violated.
- Edit writes the row, moves the file and then writes the new path
  (`documents_write_docs.go:248-287`).  A reclassify that looks for the file in
  between finds nothing and purges the row as "missing on disk"
  (`relocalize.go:420-434`), although the document is filed.  A repair indexes the
  file again, without the columns the user had edited.
- When a file is not where its row says, `FindActualFileOnDisk` takes any file
  with the same base name (`files.go:46-54`).  That file may be another
  document's: it is moved, and two rows name it.

Filing:

- A bare name (`facture.pdf`) that a collision has stamped becomes generic, and
  the next repair gives it another one.
- Undated documents, and documents dated before 2000, which are read as undated,
  are filed in the current year and move with each new one.  An undated document
  whose title ends in "copy" is renamed every day.
- An edit that clears the date leaves the file in the folder of the old year
  until the next repair (`documents_write_docs.go:278`).
- A rename accepts a new subcategory an edit refuses (`general`, a year).  The next
  repair writes a year as `general` (`repair.go:387-393`) and so classifies the
  document by the rules or sends it back to `__raws`.  The loop of a rename works
  on rows it has read before, with their categories and dates of then.
- What the rules name in a repair may be a branch another category owns; only the
  next repair puts that right.
- A document whose subcategory only the category `personal` owns is moved there by a
  repair; the next one takes `personal` for too little (`repair.go:524`) and classifies
  the document by the rules, or sends it back to `__raws`.

Taxonomy, decisions, settings:

- A save from a copy older than another save forgets the entry of the other
  (`classify.go:195`), and a save made while the overlay is unreadable forgets
  all of it (`categories.go:268`).
- The pair the rules give for a rejected subcategory, or `bulletin_salaire` twice for a
  payslip, is returned without being created (`classify.go:427-432`), although the rule quoted at `guards/categories.go:26`
  wants it in the taxonomy before any file is moved.
- A second spelling of a subcategory of the same category that differs in
  separators only is created: the exact pass leaves it to the caller
  (`taxonomyconflicts.go:271`), whose lookup compares ids as they are; the
  comment at `:250` names this very case as the one the guard is there for.
- When the rename of `settings.json.tmp` is refused, the save empties `settings.json`
  and copies into it (`settings.go:818-847`, on Unix as well); cut off there, the
  settings are torn until the next save.
- Of two PUTs of settings the older snapshot may be saved last; the next scan
  then reloads it (`settings.go:315`).
- Two overlapping edits of decisions share one temp file: one is lost or the
  mirror is garbled, and the lenient read forgets the log.
- Emptying a decision's keywords does not switch it off: they are derived again.

Classification:

- `payslipSignalRe` knows "net à payer" and "salaire brut", `payslipBranchRe` does
  not.  A tax notice with words of contracts or invoices is filed by the first
  signal that matches.  Of the rules only the first that matches is considered.
- A connection to the model server that ends early is not recognised as an outage
  (`ollama.go:597`): the rules classify, although `classify.go:343-344` says
  otherwise.  A stale health answer lets the pipeline start.
- The second try for a broken chunk is made without the context of the table it
  continues, and its result may leave the next chunk without a header.
- `NeutralizeChartLikeTables` turns a chart into lines `> | … |`, which
  `CountMalformedPipeLines` counts: a chart of four rows fails the gate
  (`extractionqualitygate.go:164-183`).
- The merge pass joins the first of two headerless blocks only, so a table over
  three chunks stays broken.  The gap of an escaped row counts the lines of the
  rows that escaped before it.

Chat, log, live reload:

- `extractRequestedCount` promises "last 2" and "top 5" (`aichat.go:227`); "last 3"
  gives 1 and "top 5" none.
- With more than three copies of a month a month can be pushed out of the fetched
  rows, or its newest copy can.
- The token scorer, the last rung, drops every filter.
- A goroutine of the live reload outlives its stream; a change between the load
  of a page and the first fingerprint is never signalled.
- Lines that are logged together overrun the limit of a file or land in a
  generation that was rotated away (`logger.go:484`).

## 6. Not modelled

Pixels, PDF rendering, prompts, the parsing of replies, the extraction of dates
and contacts, and the layout of PDF text: arithmetic and string formatting
without state.  External programs and the models themselves: their outcomes are
choices.  Stateless read handlers, the schema of documents and the loading of the
entity dictionary.  The refresh of texts and contacts in a repair, which moves no
file.  The Windows variants.  On Unix `os.Rename`
across devices fails like `os.Link` did, which makes the EXDEV fallback of
`atomic.go:45-50` a `Stop`.  The weights of the chat's scorer and the order of
bm25 are any.

## 7. Plan

Modelled: everything of section 2.  Proved: section 4.  To come:

1. An abstract log of decisions that `DecisionLog` implements between edits.

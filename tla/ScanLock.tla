------------------------------ MODULE ScanLock ------------------------------
(***************************************************************************)
(* The scan lock: app/scanlock.Guard over infra/pidlock's PID file         *)
(* DATA_DIR/.scan.lock.  Every process p holds one Guard; a run is a       *)
(* goroutine <<p, t>> that calls Acquire, works, and calls the release     *)
(* function.  The Guard's mutex makes Acquire atomic inside a process, but *)
(* the file operations of different processes interleave one system call   *)
(* at a time, a process may crash between any two of them, and the release *)
(* function touches the file after it has given the mutex back.            *)
(*                                                                         *)
(* A PID is the process that has it.  Decimal PIDs are taken to have the   *)
(* same length, so a write leaves exactly the writer's PID in the file; the*)
(* file system is a Unix one, where an open file can be removed.           *)
(***************************************************************************)
EXTENDS Naturals

CONSTANTS
    Procs,      \* PIDs the processes of this program run under
    Threads,    \* names of the concurrent callers inside one process
    NoRun,      \* "no run"
    NoFile,     \* the lock file does not exist
    Blank,      \* the lock file exists and holds no PID (truncated)
    MaxFaults   \* bound on crashes, failed reads and writes and reused PIDs

Runs == Procs \X Threads
ProcOf(r) == r[1]

ASSUME RunAssumption  == NoRun \notin Runs
ASSUME FileAssumption == NoFile \notin Procs /\ Blank \notin Procs /\ NoFile # Blank
ASSUME FaultAssumption == MaxFaults \in Nat

VARIABLES
    file,       \* content of .scan.lock
    status,     \* "up": our program runs, "down": PID unused, "other": foreign program
    mu,         \* who is inside g.mu of a process
    held,       \* g.heldInProcess of a process
    pc,         \* where a run is
    seen,       \* the PID a run read from the file
    faults      \* faults injected so far

vars == <<file, status, mu, held, pc, seen, faults>>

(* A run between reading the file and having written it. *)
Window    == {"probe", "open", "write", "lost"}
(* A run inside Acquire, past the heldInProcess test. *)
Acquiring == {"read"} \cup Window
(* A run inside the release function, past the mutex. *)
Releasing == {"reread", "remove"}
Places    == {"idle", "running"} \cup Acquiring \cup Releasing

TypeOK ==
    /\ file \in Procs \cup {NoFile, Blank}
    /\ status \in [Procs -> {"up", "down", "other"}]
    /\ mu \in [Procs -> Runs \cup {NoRun}]
    /\ held \in [Procs -> BOOLEAN]
    /\ pc \in [Runs -> Places]
    /\ seen \in [Runs -> Procs \cup {NoFile}]
    /\ faults \in 0 .. MaxFaults

Init ==
    /\ file = NoFile
    /\ status = [p \in Procs |-> "up"]
    /\ mu = [p \in Procs |-> NoRun]
    /\ held = [p \in Procs |-> FALSE]
    /\ pc = [r \in Runs |-> "idle"]
    /\ seen = [r \in Runs |-> NoFile]
    /\ faults = 0

Goto(r, place) == pc' = [pc EXCEPT ![r] = place]
Unlock(r)      == mu' = [mu EXCEPT ![ProcOf(r)] = NoRun]

-----------------------------------------------------------------------------
(* Guard.Acquire *)

(* Mutant: heldInProcess is not tested. *)
EnterWithoutTest(r) ==
    /\ pc[r] = "idle"
    /\ status[ProcOf(r)] = "up"
    /\ mu[ProcOf(r)] = NoRun
    /\ mu' = [mu EXCEPT ![ProcOf(r)] = r]
    /\ Goto(r, "read")
    /\ UNCHANGED <<file, status, held, seen, faults>>

(* Lock g.mu and find heldInProcess clear.  A caller that finds it set gets *)
(* ScanInProgressError and changes nothing.                                 *)
Enter(r) ==
    /\ pc[r] = "idle"
    /\ status[ProcOf(r)] = "up"
    /\ mu[ProcOf(r)] = NoRun
    /\ ~held[ProcOf(r)]
    /\ mu' = [mu EXCEPT ![ProcOf(r)] = r]
    /\ Goto(r, "read")
    /\ UNCHANGED <<file, status, held, seen, faults>>

(* ReadActiveLockHolder, part 1: os.ReadFile.  Missing, unparseable and own *)
(* PID all count as free.                                                   *)
ReadHolder(r) ==
    /\ pc[r] = "read"
    /\ \/ /\ file \in Procs \ {ProcOf(r)}
          /\ seen' = [seen EXCEPT ![r] = file]
          /\ Goto(r, "probe")
       \/ /\ file \notin Procs \ {ProcOf(r)}
          /\ Goto(r, "open")
          /\ UNCHANGED seen
    /\ UNCHANGED <<file, status, mu, held, faults>>

(* os.ReadFile fails: to ReadActiveLockHolder the lock is free, and the     *)
(* release function leaves the file as it is.                               *)
ReadFails(r) ==
    /\ faults < MaxFaults
    /\ \/ pc[r] = "read" /\ Goto(r, "open")
       \/ pc[r] = "reread" /\ Goto(r, "idle")
    /\ faults' = faults + 1
    /\ UNCHANGED <<file, status, mu, held, seen>>

(* Mutant: every lock file counts as stale. *)
ProbeNobody(r) ==
    /\ pc[r] = "probe"
    /\ Goto(r, "open")
    /\ seen' = [seen EXCEPT ![r] = NoFile]
    /\ UNCHANGED <<file, status, mu, held, faults>>

(* ReadActiveLockHolder, part 2: IsProcessRunning(pid).  A live PID denies  *)
(* the lock, a dead one makes the file stale.                               *)
Probe(r) ==
    /\ pc[r] = "probe"
    /\ \/ /\ status[seen[r]] # "down"
          /\ Goto(r, "idle")
          /\ Unlock(r)
       \/ /\ status[seen[r]] = "down"
          /\ Goto(r, "open")
          /\ UNCHANGED mu
    /\ seen' = [seen EXCEPT ![r] = NoFile]
    /\ UNCHANGED <<file, status, held, faults>>

(* AcquireProcessLock: os.WriteFile opens with O_TRUNC ... *)
OpenTruncate(r) ==
    /\ pc[r] = "open"
    /\ file' = Blank
    /\ Goto(r, "write")
    /\ UNCHANGED <<status, mu, held, seen, faults>>

(* ... then writes the PID; Acquire sets heldInProcess and unlocks g.mu. *)
(* If the file was removed since, the PID goes to the unlinked inode.    *)
WritePid(r) ==
    /\ \/ /\ pc[r] = "write"
          /\ file' = ProcOf(r)
       \/ /\ pc[r] = "lost"
          /\ UNCHANGED file
    /\ held' = [held EXCEPT ![ProcOf(r)] = TRUE]
    /\ Unlock(r)
    /\ Goto(r, "running")
    /\ UNCHANGED <<status, seen, faults>>

(* Mutant: the error return keeps g.mu. *)
WriteFailsLocked(r) ==
    /\ faults < MaxFaults
    /\ pc[r] \in {"open", "write", "lost"}
    /\ Goto(r, "idle")
    /\ faults' = faults + 1
    /\ UNCHANGED <<file, status, mu, held, seen>>

(* os.WriteFile fails while opening or while writing: Acquire returns the  *)
(* error with the file as it is.                                           *)
WriteFails(r) ==
    /\ faults < MaxFaults
    /\ pc[r] \in {"open", "write", "lost"}
    /\ Unlock(r)
    /\ Goto(r, "idle")
    /\ faults' = faults + 1
    /\ UNCHANGED <<file, status, held, seen>>

-----------------------------------------------------------------------------
(* The release function (its sync.Once makes further calls no-ops) *)

(* Mutant: heldInProcess stays set. *)
ClearHeldForgotten(r) ==
    /\ pc[r] = "running"
    /\ mu[ProcOf(r)] = NoRun
    /\ Goto(r, "reread")
    /\ UNCHANGED <<file, status, mu, held, seen, faults>>

(* g.heldInProcess = false under g.mu. *)
ClearHeld(r) ==
    /\ pc[r] = "running"
    /\ mu[ProcOf(r)] = NoRun
    /\ held' = [held EXCEPT ![ProcOf(r)] = FALSE]
    /\ Goto(r, "reread")
    /\ UNCHANGED <<file, status, mu, seen, faults>>

(* releaseFile: read the file again; go on only if it holds the own PID. *)
RereadFile(r) ==
    /\ pc[r] = "reread"
    /\ Goto(r, IF file = ProcOf(r) THEN "remove" ELSE "idle")
    /\ UNCHANGED <<file, status, mu, held, seen, faults>>

(* releaseFile: os.Remove whatever is there by now. *)
RemoveFile(r) ==
    /\ pc[r] = "remove"
    /\ file' = NoFile
    /\ pc' = [q \in Runs |-> IF q = r THEN "idle"
                             ELSE IF pc[q] = "write" THEN "lost" ELSE pc[q]]
    /\ UNCHANGED <<status, mu, held, seen, faults>>

-----------------------------------------------------------------------------
(* The processes *)

(* The process dies: its memory is gone, its lock file stays. *)
Crash(p) ==
    /\ faults < MaxFaults
    /\ status[p] = "up"
    /\ status' = [status EXCEPT ![p] = "down"]
    /\ mu' = [mu EXCEPT ![p] = NoRun]
    /\ held' = [held EXCEPT ![p] = FALSE]
    /\ pc' = [r \in Runs |-> IF ProcOf(r) = p THEN "idle" ELSE pc[r]]
    /\ seen' = [r \in Runs |-> IF ProcOf(r) = p THEN NoFile ELSE seen[r]]
    /\ faults' = faults + 1
    /\ UNCHANGED file

(* The program is started again under the PID it had. *)
Restart(p) ==
    /\ status[p] = "down"
    /\ status' = [status EXCEPT ![p] = "up"]
    /\ UNCHANGED <<file, mu, held, pc, seen, faults>>

(* An unrelated program gets the PID, and ends. *)
PidReused(p) ==
    /\ faults < MaxFaults
    /\ status[p] = "down"
    /\ status' = [status EXCEPT ![p] = "other"]
    /\ faults' = faults + 1
    /\ UNCHANGED <<file, mu, held, pc, seen>>

ForeignExit(p) ==
    /\ status[p] = "other"
    /\ status' = [status EXCEPT ![p] = "down"]
    /\ UNCHANGED <<file, mu, held, pc, seen, faults>>

-----------------------------------------------------------------------------

CallSteps(r) ==
    \/ ReadHolder(r) \/ Probe(r) \/ OpenTruncate(r) \/ WritePid(r)
    \/ ClearHeld(r) \/ RereadFile(r) \/ RemoveFile(r)

Next ==
    \/ \E r \in Runs : Enter(r) \/ CallSteps(r) \/ ReadFails(r) \/ WriteFails(r)
    \/ \E p \in Procs : Crash(p) \/ Restart(p) \/ PidReused(p) \/ ForeignExit(p)

Spec == Init /\ [][Next]_vars

(* A called function runs to its end, a run ends and releases the lock,    *)
(* and callers keep coming back: the auto-watcher ticks every 10 seconds.  *)
(* Nothing is assumed of crashes, restarts, failing reads and writes but   *)
(* their bound, and of a foreign program that it ends.                           *)
Fairness ==
    /\ \A r \in Runs : WF_vars(CallSteps(r)) /\ WF_vars(Enter(r))
    /\ \A p \in Procs : WF_vars(ForeignExit(p))

FairSpec == Spec /\ Fairness

-----------------------------------------------------------------------------
(* Properties *)

Running == {r \in Runs : pc[r] = "running"}

(* Inside one process the Guard admits one run at a time: documented as    *)
(* "stops two scan/repair/clear pipelines running against the same         *)
(* __raws/__archive pair" (scanlock.go:2-3), for callers of one process.   *)
OneRunPerProcess ==
    \A r1, r2 \in Running : ProcOf(r1) = ProcOf(r2) => r1 = r2

(* No caller of one process overwrites the lock file under a run that      *)
(* process already has: while a run is running, no sibling is past the     *)
(* heldInProcess test, and heldInProcess never outlives the run.           *)
HeldMeansRunning ==
    \A p \in Procs :
        /\ held[p] <=> \E r \in Running : ProcOf(r) = p
        /\ held[p] => \A r \in Runs : ProcOf(r) = p => pc[r] \notin Acquiring

(* Across processes: "so two scans can never both insert a new checksum",  *)
(* the lock denies a second acquisition "both in one process and across    *)
(* processes" (scanlock.go:42-46).                                         *)
OneRunOverall == \A r1, r2 \in Running : r1 = r2

(* Acquire always returns: the mutex is never left locked by a denied or   *)
(* failed call, and a lock file left by a crash (truncated, or naming a    *)
(* dead PID) never blocks the runs of a live process for good.             *)
LockNeverStuck ==
    \A p \in Procs :
        <>[](status[p] = "up") => []<>(\E r \in Runs : pc[r] = "running")

(* Refinement: a process's Guard is a RunMutex. *)
ownerBar ==
    [p \in Procs |->
        IF \E r \in Running : ProcOf(r) = p
        THEN CHOOSE r \in Running : ProcOf(r) = p
        ELSE NoRun]

Mutex == INSTANCE RunMutex WITH owner <- ownerBar
ImplementsMutex == Mutex!Spec
=============================================================================

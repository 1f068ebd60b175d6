------------------------------ MODULE RunMutex ------------------------------
(***************************************************************************)
(* What one scanlock.Guard promises inside its process: of the scan, repair*)
(* and clear runs of a process at most one is the owner, and ownership     *)
(* passes from one run to the next only through "nobody".  ScanLock        *)
(* implements this; ScanControl is built on top of it.                     *)
(***************************************************************************)
CONSTANTS Procs, Threads, NoRun

Runs == Procs \X Threads
ProcOf(r) == r[1]

VARIABLE owner

TypeOK == owner \in [Procs -> Runs \cup {NoRun}]

Init == owner = [p \in Procs |-> NoRun]

(* Acquire succeeds. *)
Grant(r) ==
    /\ owner[ProcOf(r)] = NoRun
    /\ owner' = [owner EXCEPT ![ProcOf(r)] = r]

(* The release function runs, or the process dies under the run. *)
Leave(r) ==
    /\ owner[ProcOf(r)] = r
    /\ owner' = [owner EXCEPT ![ProcOf(r)] = NoRun]

Next == \E r \in Runs : Grant(r) \/ Leave(r)

Spec == Init /\ [][Next]_owner
=============================================================================

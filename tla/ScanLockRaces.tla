--------------------------- MODULE ScanLockRaces ---------------------------
(***************************************************************************)
(* ScanLock with a history variable that records whether one of its two    *)
(* race windows has ever been entered, or a holder has been missed:        *)
(*   - two processes are between reading the lock file and having written  *)
(*     it (pidlock.go:51-80 is read-then-write),                           *)
(*   - a run is past the heldInProcess test, or running, while a sibling   *)
(*     of its process is still releasing the file (scanlock.go:191-198), or*)
(*   - reading a file that names another process has failed, which counts  *)
(*     as a free lock (pidlock.go:52-55).                                  *)
(* In every behaviour that stays clear of the three the lock does what its *)
(* documentation promises across processes too, whatever crashes, restarts *)
(* and reused PIDs do: they are the only defects.                          *)
(***************************************************************************)
EXTENDS ScanLock

VARIABLE raced

rvars == <<vars, raced>>

InWindow(r) == pc[r] \in Window

TwoWriters ==
    \E r1, r2 \in Runs :
        ProcOf(r1) # ProcOf(r2) /\ InWindow(r1) /\ InWindow(r2)

LateRelease ==
    \E r1, r2 \in Runs :
        /\ ProcOf(r1) = ProcOf(r2)
        /\ pc[r1] \in Releasing
        /\ InWindow(r2) \/ pc[r2] = "running"

(* A step that takes the lock for free because the read failed. *)
MissedHolder ==
    \E r \in Runs : pc[r] = "read" /\ pc'[r] = "open" /\ file \in Procs \ {ProcOf(r)}

RInit == Init /\ raced = FALSE

RNext == Next /\ raced' = (raced \/ TwoWriters' \/ LateRelease' \/ MissedHolder)

RSpec == RInit /\ [][RNext]_rvars

RFairSpec == RSpec /\ Fairness

-----------------------------------------------------------------------------

(* "The guard denies a second acquisition before that window can open, both*)
(* in one process and across processes" (scanlock.go:45-46).               *)
ExclusiveUnlessRaced == ~raced => OneRunOverall

(* While a run is running the lock file names its process, so that every   *)
(* other process is denied (ReadActiveLockHolder, pidlock.go:51-61).       *)
FileNamesRunnerUnlessRaced == ~raced => \A r \in Running : file = ProcOf(r)

(* The file a release function removes is its own process's                *)
(* (pidlock.go:64-80).                                                     *)
RemovesOwnFileUnlessRaced ==
    ~raced => \A r \in Runs : pc[r] = "remove" => file = ProcOf(r)
=============================================================================

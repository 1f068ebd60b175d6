----------------------------- MODULE MCScanLock -----------------------------
(* Instances of the scan lock for TLC: two processes with one or two callers. *)
EXTENDS ScanLockRaces, TLC
=============================================================================

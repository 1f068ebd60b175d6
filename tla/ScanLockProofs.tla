--------------------------- MODULE ScanLockProofs ---------------------------
(***************************************************************************)
(* Proofs about ScanLock for any number of processes, callers and faults:  *)
(* type correctness, the exclusion a Guard gives inside its process, that  *)
(* a Guard implements RunMutex, and that a behaviour which never enters    *)
(* one of the two race windows has exclusion across processes.             *)
(***************************************************************************)
EXTENDS ScanLockRaces, TLAPS

(* The strengthening: a caller past the heldInProcess test is inside g.mu  *)
(* and the flag is clear, so nobody of its process is running; the flag is *)
(* set exactly while a run of the process is running.                      *)
CallerInsideMu ==
    \A r \in Runs : pc[r] \in Acquiring => mu[ProcOf(r)] = r /\ ~held[ProcOf(r)]

RunnerHolds == \A r \in Runs : pc[r] = "running" => held[ProcOf(r)]

HeldHasRunner ==
    \A p \in Procs : held[p] => \E r \in Runs : ProcOf(r) = p /\ pc[r] = "running"

GuardInv == TypeOK /\ CallerInsideMu /\ RunnerHolds /\ HeldHasRunner /\ OneRunPerProcess

(* A run belongs to a process, and is not "no run". *)
LEMMA RunFacts == \A r \in Runs : ProcOf(r) \in Procs /\ r # NoRun
  BY RunAssumption DEF Runs, ProcOf

-----------------------------------------------------------------------------

(* Every step of the code keeps every variable in its range. *)
LEMMA TypeStep == TypeOK /\ [Next]_vars => TypeOK'
<1> SUFFICES ASSUME TypeOK, [Next]_vars PROVE TypeOK'
  OBVIOUS
<1> USE RunFacts, RunAssumption, FileAssumption, FaultAssumption
<1> USE DEF TypeOK, Places, Acquiring, Releasing, Window, Goto, Unlock
<1>1. ASSUME NEW r \in Runs, Enter(r) PROVE TypeOK'
  BY <1>1 DEF Enter
<1>2. ASSUME NEW r \in Runs, ReadHolder(r) PROVE TypeOK'
  BY <1>2 DEF ReadHolder
<1>3. ASSUME NEW r \in Runs, Probe(r) PROVE TypeOK'
  BY <1>3 DEF Probe
<1>4. ASSUME NEW r \in Runs, OpenTruncate(r) PROVE TypeOK'
  BY <1>4 DEF OpenTruncate
<1>5. ASSUME NEW r \in Runs, WritePid(r) PROVE TypeOK'
  BY <1>5 DEF WritePid
<1>6. ASSUME NEW r \in Runs, WriteFails(r) PROVE TypeOK'
  BY <1>6 DEF WriteFails
<1>7. ASSUME NEW r \in Runs, ClearHeld(r) PROVE TypeOK'
  BY <1>7 DEF ClearHeld
<1>8. ASSUME NEW r \in Runs, RereadFile(r) PROVE TypeOK'
  BY <1>8 DEF RereadFile
<1>9. ASSUME NEW r \in Runs, RemoveFile(r) PROVE TypeOK'
  BY <1>9 DEF RemoveFile
<1>10. ASSUME NEW p \in Procs, Crash(p) PROVE TypeOK'
  BY <1>10 DEF Crash
<1>11. ASSUME NEW p \in Procs, Restart(p) \/ PidReused(p) \/ ForeignExit(p) PROVE TypeOK'
  BY <1>11 DEF Restart, PidReused, ForeignExit
<1>12. ASSUME NEW r \in Runs, ReadFails(r) PROVE TypeOK'
  BY <1>12 DEF ReadFails
<1>13. CASE UNCHANGED vars
  BY <1>13 DEF vars
<1> QED
  BY <1>1, <1>2, <1>3, <1>4, <1>5, <1>6, <1>7, <1>8, <1>9, <1>10, <1>11, <1>12, <1>13
  DEF Next, CallSteps

(* The initial state is in range. *)
LEMMA InitType == Init => TypeOK
  BY FaultAssumption DEF Init, TypeOK, Places

(* Type correctness of the scan lock for any processes, callers and bound. *)
THEOREM TypeCorrect == Spec => []TypeOK
  BY InitType, TypeStep, PTL DEF Spec

-----------------------------------------------------------------------------

(* The Guard invariant holds before the first call. *)
LEMMA InitGuard == Init => GuardInv
  BY InitType
  DEF Init, GuardInv, CallerInsideMu, RunnerHolds, HeldHasRunner, OneRunPerProcess,
      Running, Acquiring, Window

(* The guard invariant is inductive. *)
LEMMA GuardStep == GuardInv /\ [Next]_vars => GuardInv'
<1> SUFFICES ASSUME GuardInv, [Next]_vars PROVE GuardInv'
  OBVIOUS
<1>0. TypeOK'
  BY TypeStep DEF GuardInv
<1> USE RunFacts
<1> USE DEF GuardInv, TypeOK, CallerInsideMu, RunnerHolds, HeldHasRunner,
            OneRunPerProcess, Running, Acquiring, Releasing, Window, Goto, Unlock
<1>1. ASSUME NEW r \in Runs, Enter(r) PROVE GuardInv'
  BY <1>0, <1>1 DEF Enter
<1>2. ASSUME NEW r \in Runs, ReadHolder(r) PROVE GuardInv'
  BY <1>0, <1>2 DEF ReadHolder
<1>3. ASSUME NEW r \in Runs, Probe(r) PROVE GuardInv'
  BY <1>0, <1>3 DEF Probe
<1>4. ASSUME NEW r \in Runs, OpenTruncate(r) PROVE GuardInv'
  BY <1>0, <1>4 DEF OpenTruncate
<1>5. ASSUME NEW r \in Runs, WritePid(r) PROVE GuardInv'
  <2> USE <1>0, <1>5 DEF WritePid
  <2>1. /\ mu[ProcOf(r)] = r /\ ~held[ProcOf(r)]
        /\ \A q \in Runs : ProcOf(q) = ProcOf(r) => pc[q] # "running"
        /\ \A q \in Runs : ProcOf(q) = ProcOf(r) /\ q # r => pc[q] \notin Acquiring
    OBVIOUS
  <2>2. CallerInsideMu'
    BY <2>1
  <2>3. RunnerHolds' /\ HeldHasRunner' /\ OneRunPerProcess'
    BY <2>1
  <2> QED
    BY <2>2, <2>3
<1>6. ASSUME NEW r \in Runs, WriteFails(r) PROVE GuardInv'
  BY <1>0, <1>6 DEF WriteFails
<1>7. ASSUME NEW r \in Runs, ClearHeld(r) PROVE GuardInv'
  BY <1>0, <1>7 DEF ClearHeld
<1>8. ASSUME NEW r \in Runs, RereadFile(r) PROVE GuardInv'
  BY <1>0, <1>8 DEF RereadFile
<1>9. ASSUME NEW r \in Runs, RemoveFile(r) PROVE GuardInv'
  BY <1>0, <1>9 DEF RemoveFile
<1>10. ASSUME NEW p \in Procs, Crash(p) PROVE GuardInv'
  BY <1>0, <1>10 DEF Crash
<1>11. ASSUME NEW p \in Procs, Restart(p) \/ PidReused(p) \/ ForeignExit(p) PROVE GuardInv'
  BY <1>0, <1>11 DEF Restart, PidReused, ForeignExit
<1>12. ASSUME NEW r \in Runs, ReadFails(r) PROVE GuardInv'
  BY <1>0, <1>12 DEF ReadFails
<1>13. CASE UNCHANGED vars
  BY <1>0, <1>13 DEF vars
<1> QED
  BY <1>1, <1>2, <1>3, <1>4, <1>5, <1>6, <1>7, <1>8, <1>9, <1>10, <1>11, <1>12, <1>13
  DEF Next, CallSteps

(* The inductive invariant of the Guard: its flag and its mutex agree with  *)
(* where the runs are (scanlock.go:168-199).                               *)
THEOREM GuardInvariant == Spec => []GuardInv
  BY InitGuard, GuardStep, PTL DEF Spec

(* One Guard admits one run at a time (scanlock.go:168-199). *)
THEOREM OneRunTheorem == Spec => []OneRunPerProcess
<1>1. GuardInv => OneRunPerProcess
  BY DEF GuardInv
<1> QED
  BY <1>1, GuardInvariant, PTL

(* heldInProcess is set exactly while a run is running, and no sibling is  *)
(* then past the test of it (scanlock.go:175-187, 193-195).                *)
THEOREM HeldTheorem == Spec => []HeldMeansRunning
<1>1. GuardInv => HeldMeansRunning
  BY RunFacts DEF GuardInv, HeldMeansRunning, CallerInsideMu, RunnerHolds, HeldHasRunner, Running
<1> QED
  BY <1>1, GuardInvariant, PTL

-----------------------------------------------------------------------------
(* Refinement *)

(* The abstract owner of a process is its running run, if there is one. *)
LEMMA OwnerBarValue ==
    ASSUME GuardInv
    PROVE  /\ \A r \in Running : ownerBar[ProcOf(r)] = r
           /\ \A p \in Procs : (\A r \in Running : ProcOf(r) # p) => ownerBar[p] = NoRun
<1>1. ASSUME NEW r \in Running PROVE ownerBar[ProcOf(r)] = r
  <2>1. r \in Runs /\ ProcOf(r) \in Procs
    BY RunFacts DEF Running
  <2>2. \A q \in Running : ProcOf(q) = ProcOf(r) => q = r
    BY DEF GuardInv, OneRunPerProcess
  <2>3. (CHOOSE q \in Running : ProcOf(q) = ProcOf(r)) = r
    BY <2>2
  <2> QED
    BY <2>1, <2>3 DEF ownerBar
<1>2. ASSUME NEW p \in Procs, \A r \in Running : ProcOf(r) # p PROVE ownerBar[p] = NoRun
  BY <1>2 DEF ownerBar
<1> QED
  BY <1>1, <1>2

(* The same in the next state. *)
LEMMA OwnerBarPrimed ==
    ASSUME GuardInv'
    PROVE  /\ \A r \in Running' : ownerBar'[ProcOf(r)] = r
           /\ \A p \in Procs : (\A r \in Running' : ProcOf(r) # p) => ownerBar'[p] = NoRun
<1>1. ASSUME NEW r \in Running' PROVE ownerBar'[ProcOf(r)] = r
  <2>1. r \in Runs /\ ProcOf(r) \in Procs
    BY RunFacts DEF Running
  <2>2. \A q \in Running' : ProcOf(q) = ProcOf(r) => q = r
    BY DEF GuardInv, OneRunPerProcess
  <2>3. (CHOOSE q \in Running' : ProcOf(q) = ProcOf(r)) = r
    BY <2>2
  <2> QED
    BY <2>1, <2>3 DEF ownerBar
<1>2. ASSUME NEW p \in Procs, \A r \in Running' : ProcOf(r) # p PROVE ownerBar'[p] = NoRun
  BY <1>2 DEF ownerBar
<1> QED
  BY <1>1, <1>2

(* The mapped owner is a function on the processes. *)
LEMMA OwnerBarShape ==
    ownerBar = [p \in Procs |-> ownerBar[p]] /\ ownerBar' = [p \in Procs |-> ownerBar'[p]]
  BY DEF ownerBar

(* The mapped owner depends on nothing but the running runs. *)
LEMMA SameRunning == Running' = Running => ownerBar' = ownerBar
  BY DEF ownerBar

(* The initial state maps to a free mutex. *)
LEMMA MutexInit == Init => Mutex!Init
<1> SUFFICES ASSUME Init PROVE ownerBar = [p \in Procs |-> NoRun]
  BY DEF Mutex!Init
<1>1. Running = {}
  BY DEF Init, Running
<1> QED
  BY <1>1 DEF ownerBar

(* Every step of the code is a grant, a release, or invisible. *)
LEMMA MutexStep == GuardInv /\ [Next]_vars => [Mutex!Next]_ownerBar
<1> SUFFICES ASSUME GuardInv, [Next]_vars PROVE [Mutex!Next]_ownerBar
  OBVIOUS
<1>0. GuardInv' /\ pc \in [Runs -> Places]
  BY GuardStep DEF GuardInv, TypeOK
<1> USE RunFacts
<1> DEFINE Hidden == Running' = Running
<1>1. ASSUME NEW r \in Runs, WritePid(r) PROVE Mutex!Grant(r)
  <2>1. /\ pc' = [pc EXCEPT ![r] = "running"]
        /\ \A q \in Running : ProcOf(q) # ProcOf(r)
    BY <1>1 DEF WritePid, Goto, GuardInv, CallerInsideMu, RunnerHolds, Running, Acquiring, Window
  <2>2. Running' = Running \cup {r}
    BY <2>1, <1>0 DEF Running
  <2>3. ownerBar[ProcOf(r)] = NoRun /\ ownerBar'[ProcOf(r)] = r
    BY <2>1, <2>2, <1>0, OwnerBarValue, OwnerBarPrimed
  <2>4. ASSUME NEW p \in Procs, p # ProcOf(r) PROVE ownerBar'[p] = ownerBar[p]
    BY <2>2, <2>4, <1>0, OwnerBarValue, OwnerBarPrimed
  <2>5. ownerBar' = [ownerBar EXCEPT ![ProcOf(r)] = r]
    BY <2>3, <2>4, OwnerBarShape
  <2> QED
    BY <2>3, <2>5 DEF Mutex!Grant, Mutex!ProcOf, ProcOf
<1>2. ASSUME NEW r \in Runs, pc[r] = "running", pc'[r] # "running",
             Running' = Running \ {r}
      PROVE  Mutex!Leave(r)
  <2>1. r \in Running /\ \A q \in Running' : ProcOf(q) # ProcOf(r)
    BY <1>2 DEF Running, GuardInv, OneRunPerProcess
  <2>2. ownerBar[ProcOf(r)] = r /\ ownerBar'[ProcOf(r)] = NoRun
    BY <2>1, <1>0, OwnerBarValue, OwnerBarPrimed
  <2>3. ASSUME NEW p \in Procs, p # ProcOf(r) PROVE ownerBar'[p] = ownerBar[p]
    BY <1>2, <2>3, <1>0, OwnerBarValue, OwnerBarPrimed
  <2>4. ownerBar' = [ownerBar EXCEPT ![ProcOf(r)] = NoRun]
    BY <2>2, <2>3, OwnerBarShape
  <2> QED
    BY <2>2, <2>4 DEF Mutex!Leave, Mutex!ProcOf, ProcOf
<1>3. ASSUME NEW r \in Runs, ClearHeld(r) PROVE Mutex!Leave(r)
  <2>1. pc[r] = "running" /\ pc'[r] # "running" /\ Running' = Running \ {r}
    BY <1>3, <1>0 DEF ClearHeld, Goto, Running
  <2> QED
    BY <2>1, <1>2
<1>4. ASSUME NEW p \in Procs, Crash(p) PROVE Hidden \/ \E r \in Runs : Mutex!Leave(r)
  <2>1. CASE \E r \in Running : ProcOf(r) = p
    <3> PICK r \in Running : ProcOf(r) = p
      BY <2>1
    <3>1. r \in Runs /\ pc[r] = "running" /\ pc'[r] # "running"
      BY <1>4 DEF Crash, Running
    <3>2. \A q \in Running : ProcOf(q) = p => q = r
      BY DEF GuardInv, OneRunPerProcess
    <3>3. Running' = Running \ {r}
      BY <1>4, <1>0, <3>2 DEF Crash, Running
    <3> QED
      BY <1>2, <3>1, <3>3
  <2>2. CASE ~\E r \in Running : ProcOf(r) = p
    BY <1>4, <1>0, <2>2 DEF Crash, Running
  <2> QED
    BY <2>1, <2>2
<1>5. ASSUME NEW r \in Runs,
             Enter(r) \/ ReadHolder(r) \/ Probe(r) \/ OpenTruncate(r)
               \/ RereadFile(r) \/ RemoveFile(r) \/ WriteFails(r) \/ ReadFails(r)
      PROVE  Hidden
  BY <1>5, <1>0 DEF Enter, ReadHolder, Probe, OpenTruncate, RereadFile, RemoveFile,
                    WriteFails, ReadFails, Goto, Running
<1>6. ASSUME NEW p \in Procs, Restart(p) \/ PidReused(p) \/ ForeignExit(p) PROVE Hidden
  BY <1>6 DEF Restart, PidReused, ForeignExit, Running
<1>7. CASE UNCHANGED vars
  BY <1>7, SameRunning DEF vars, Running
<1>8. Hidden \/ UNCHANGED vars \/ \E r \in Runs : Mutex!Grant(r) \/ Mutex!Leave(r)
  BY <1>1, <1>3, <1>4, <1>5, <1>6 DEF Next, CallSteps
<1> QED
  BY <1>7, <1>8, SameRunning DEF Mutex!Next, Mutex!Runs, Runs

(* A process's Guard behaves like a mutual-exclusion lock over its runs.   *)
THEOREM Refinement == Spec => ImplementsMutex
  BY MutexInit, MutexStep, GuardInvariant, PTL
  DEF Spec, ImplementsMutex, Mutex!Spec

-----------------------------------------------------------------------------
(* Exclusion across processes, outside the race windows *)

(* A run that works under the lock or is giving it back. *)
Active == {r \in Runs : pc[r] \in {"running"} \cup Releasing}

OnlyLiveRun == \A r \in Runs : pc[r] # "idle" => status[ProcOf(r)] = "up"
ProbesAPid  == \A r \in Runs : pc[r] = "probe" => seen[r] \in Procs

(* While nothing has raced: one run is active at most and the file names   *)
(* its process; a run about to write has nobody to write over; a run about *)
(* to probe will probe the process of the active run.                      *)
Orderly ==
    /\ ~TwoWriters /\ ~LateRelease
    /\ \A r1, r2 \in Active : r1 = r2
    /\ \A r \in Active : file = ProcOf(r)
    /\ \A r \in Runs : pc[r] \in {"open", "write"} => Active = {}
    /\ \A r \in Runs : pc[r] # "lost"
    /\ \A r \in Runs, q \in Active : pc[r] = "probe" => seen[r] = ProcOf(q)

RaceInv ==
    /\ GuardInv /\ OnlyLiveRun /\ ProbesAPid
    /\ raced \in BOOLEAN
    /\ ~raced => Orderly

(* Nothing has raced at the start. *)
LEMMA RaceInit == RInit => RaceInv
  BY InitGuard
  DEF RInit, Init, RaceInv, OnlyLiveRun, ProbesAPid, Orderly, Active, TwoWriters,
      LateRelease, InWindow, Window, Releasing

(* A run is never under way in a dead process, and probes a real PID. *)
LEMMA LiveStep == GuardInv /\ OnlyLiveRun /\ ProbesAPid /\ [Next]_vars
                    => OnlyLiveRun' /\ ProbesAPid'
<1> SUFFICES ASSUME GuardInv, OnlyLiveRun, ProbesAPid, [Next]_vars
             PROVE  OnlyLiveRun' /\ ProbesAPid'
  OBVIOUS
<1> USE RunFacts
<1> USE DEF GuardInv, TypeOK, OnlyLiveRun, ProbesAPid, Goto
<1>1. ASSUME NEW r \in Runs, Enter(r) \/ ReadHolder(r) \/ Probe(r) \/ OpenTruncate(r)
                                \/ WritePid(r) \/ WriteFails(r) \/ ReadFails(r)
      PROVE  OnlyLiveRun' /\ ProbesAPid'
  BY <1>1 DEF Enter, ReadHolder, Probe, OpenTruncate, WritePid, WriteFails, ReadFails
<1>2. ASSUME NEW r \in Runs, ClearHeld(r) \/ RereadFile(r) \/ RemoveFile(r)
      PROVE  OnlyLiveRun' /\ ProbesAPid'
  BY <1>2 DEF ClearHeld, RereadFile, RemoveFile
<1>3. ASSUME NEW p \in Procs, Crash(p) \/ Restart(p) \/ PidReused(p) \/ ForeignExit(p)
      PROVE  OnlyLiveRun' /\ ProbesAPid'
  BY <1>3 DEF Crash, Restart, PidReused, ForeignExit
<1>4. CASE UNCHANGED vars
  BY <1>4 DEF vars
<1> QED
  BY <1>1, <1>2, <1>3, <1>4 DEF Next, CallSteps

(* A step that enters no race window leaves the lock orderly. *)
LEMMA OrderlyStep ==
    GuardInv /\ OnlyLiveRun /\ ProbesAPid /\ Orderly /\ [Next]_vars
      /\ ~TwoWriters' /\ ~LateRelease' /\ ~MissedHolder => Orderly'
<1> SUFFICES ASSUME GuardInv, OnlyLiveRun, ProbesAPid, Orderly, [Next]_vars,
                    ~TwoWriters', ~LateRelease', ~MissedHolder
             PROVE  Orderly'
  OBVIOUS
<1>0. GuardInv' /\ pc \in [Runs -> Places] /\ seen \in [Runs -> Procs \cup {NoFile}]
  BY GuardStep DEF GuardInv, TypeOK
<1> USE RunFacts, <1>0
<1>1. ASSUME NEW r \in Runs, Enter(r) PROVE Orderly'
  BY <1>1 DEF Enter, Goto, Orderly, Active, Releasing
<1>2. ASSUME NEW r \in Runs, ReadHolder(r) \/ (ReadFails(r) /\ pc[r] = "read") PROVE Orderly'
  <2>1. /\ Active' = Active /\ file' = file
        /\ \A q \in Runs : q # r => pc'[q] = pc[q] /\ seen'[q] = seen[q]
    BY <1>2 DEF ReadHolder, ReadFails, Goto, Active, Releasing
  <2>2. ASSUME pc'[r] = "open", NEW q \in Active PROVE FALSE
    <3>1. file = ProcOf(q) /\ file \notin Procs \ {ProcOf(r)}
      BY <1>2, <2>2 DEF ReadHolder, ReadFails, Goto, Orderly, MissedHolder
    <3>2. ProcOf(q) = ProcOf(r)
      BY <3>1 DEF Active
    <3>3. pc[q] # "running"
      BY <1>2, <3>2 DEF ReadHolder, ReadFails, GuardInv, CallerInsideMu, RunnerHolds, Acquiring, Active
    <3>4. q # r /\ pc'[q] \in Releasing
      BY <1>2, <2>1, <3>3 DEF ReadHolder, ReadFails, Active, Releasing
    <3> QED
      BY <2>2, <3>2, <3>4 DEF LateRelease, InWindow, Window, Active
  <2>3. (pc'[r] = "probe" /\ seen'[r] = file) \/ pc'[r] = "open"
    BY <1>2 DEF ReadHolder, ReadFails, Goto
  <2> QED
    BY <2>1, <2>2, <2>3 DEF Orderly
<1>3. ASSUME NEW r \in Runs, Probe(r) PROVE Orderly'
  <2>1. /\ Active' = Active /\ file' = file /\ pc'[r] \in {"idle", "open"}
        /\ \A q \in Runs : q # r => pc'[q] = pc[q] /\ seen'[q] = seen[q]
    BY <1>3 DEF Probe, Goto, Active, Releasing
  <2>2. ASSUME pc'[r] = "open", NEW q \in Active PROVE FALSE
    <3>1. status[seen[r]] = "down" /\ pc[r] = "probe"
      BY <1>3, <2>2 DEF Probe, Goto
    <3>2. seen[r] = ProcOf(q) /\ status[ProcOf(q)] = "up"
      BY <3>1 DEF Orderly, OnlyLiveRun, Active, Releasing
    <3> QED
      BY <3>1, <3>2
  <2> QED
    BY <2>1, <2>2 DEF Orderly
<1>4. ASSUME NEW r \in Runs, OpenTruncate(r) PROVE Orderly'
  <2>1. Active = {} /\ Active' = {}
    BY <1>4 DEF OpenTruncate, Goto, Orderly, Active, Releasing
  <2> QED
    BY <1>4, <2>1 DEF OpenTruncate, Goto, Orderly
<1>5. ASSUME NEW r \in Runs, WritePid(r) PROVE Orderly'
  <2>1. pc[r] = "write" /\ file' = ProcOf(r) /\ pc' = [pc EXCEPT ![r] = "running"]
    BY <1>5 DEF WritePid, Goto, Orderly
  <2>2. Active' = {r}
    BY <2>1 DEF Orderly, Active, Releasing
  <2>3. ASSUME NEW q \in Runs, q # r PROVE ~InWindow(q)
    <3>1. CASE ProcOf(q) = ProcOf(r)
      BY <2>1, <2>3, <3>1 DEF GuardInv, CallerInsideMu, Acquiring, Window, InWindow
    <3>2. CASE ProcOf(q) # ProcOf(r)
      BY <2>1, <3>2 DEF Orderly, TwoWriters, InWindow, Window
    <3> QED
      BY <3>1, <3>2
  <2> QED
    BY <2>1, <2>2, <2>3 DEF Orderly, InWindow, Window
<1>6. ASSUME NEW r \in Runs, WriteFails(r) PROVE Orderly'
  BY <1>6 DEF WriteFails, Goto, Orderly, Active, Releasing
<1>7. ASSUME NEW r \in Runs, ClearHeld(r) PROVE Orderly'
  BY <1>7 DEF ClearHeld, Goto, Orderly, Active, Releasing
<1>8. ASSUME NEW r \in Runs, RereadFile(r) PROVE Orderly'
  <2>1. Active' \subseteq Active
    BY <1>8 DEF RereadFile, Goto, Active, Releasing
  <2> QED
    BY <1>8, <2>1 DEF RereadFile, Goto, Orderly
<1>9. ASSUME NEW r \in Runs, RemoveFile(r) PROVE Orderly'
  <2>1. r \in Active /\ \A q \in Runs : pc[q] \notin {"open", "write"}
    BY <1>9 DEF RemoveFile, Orderly, Active, Releasing
  <2>2. /\ \A q \in Runs : q # r => pc'[q] = pc[q]
        /\ pc'[r] = "idle" /\ UNCHANGED seen
    BY <1>9, <2>1 DEF RemoveFile
  <2>3. Active' = {}
    BY <2>1, <2>2 DEF Orderly, Active, Releasing
  <2> QED
    BY <2>1, <2>2, <2>3 DEF Orderly
<1>10. ASSUME NEW p \in Procs, Crash(p) PROVE Orderly'
  <2>1. Active' \subseteq Active
    BY <1>10 DEF Crash, Active, Releasing
  <2> QED
    BY <1>10, <2>1 DEF Crash, Orderly
<1>11. ASSUME NEW p \in Procs, Restart(p) \/ PidReused(p) \/ ForeignExit(p) PROVE Orderly'
  BY <1>11 DEF Restart, PidReused, ForeignExit, Orderly, Active
<1>12. ASSUME NEW r \in Runs, ReadFails(r), pc[r] = "reread" PROVE Orderly'
  <2>1. Active' \subseteq Active
    BY <1>12 DEF ReadFails, Goto, Active, Releasing
  <2> QED
    BY <1>12, <2>1 DEF ReadFails, Goto, Orderly
<1>13. CASE UNCHANGED vars
  BY <1>13 DEF vars, Orderly, Active
<1>14. \A r \in Runs : ReadFails(r) => pc[r] \in {"read", "reread"}
  BY DEF ReadFails
<1> QED
  BY <1>1, <1>2, <1>3, <1>4, <1>5, <1>6, <1>7, <1>8, <1>9, <1>10, <1>11, <1>12, <1>13, <1>14
  DEF Next, CallSteps

(* Every step that does not race keeps the processes in order. *)
LEMMA RaceStep == RaceInv /\ [RNext]_rvars => RaceInv'
<1> SUFFICES ASSUME RaceInv, [RNext]_rvars PROVE RaceInv'
  OBVIOUS
<1>1. [Next]_vars
  BY DEF RNext, rvars
<1>2. GuardInv' /\ OnlyLiveRun' /\ ProbesAPid'
  BY <1>1, GuardStep, LiveStep DEF RaceInv
<1>3. raced' \in BOOLEAN
  BY DEF RaceInv, RNext, rvars
<1>4. CASE RNext
  BY <1>1, <1>2, <1>3, <1>4, OrderlyStep DEF RaceInv, RNext
<1>5. CASE UNCHANGED rvars
  <2>1. Orderly => Orderly'
    BY <1>5 DEF rvars, vars, Orderly, Active, TwoWriters, LateRelease, InWindow
  <2> QED
    BY <1>2, <1>3, <1>5, <2>1 DEF RaceInv, rvars
<1> QED
  BY <1>4, <1>5

(* The inductive invariant across processes: order, until something races  *)
(* (scanlock.go:168-199 with pidlock.go:51-80).                            *)
THEOREM RaceInvariant == RSpec => []RaceInv
  BY RaceInit, RaceStep, PTL DEF RSpec

(* Unless something raced at most one run works, over all processes       *)
(* (what scanlock.go:42-46 claims without the exception).                  *)
THEOREM ExclusionTheorem == RSpec => []ExclusiveUnlessRaced
<1>1. RaceInv => ExclusiveUnlessRaced
  BY DEF RaceInv, Orderly, ExclusiveUnlessRaced, OneRunOverall, Active, Running
<1> QED
  BY <1>1, RaceInvariant, PTL

(* Unless something raced the lock file names the process that works      *)
(* (pidlock.go:51-80).                                                     *)
THEOREM FileNamesRunnerTheorem == RSpec => []FileNamesRunnerUnlessRaced
<1>1. RaceInv => FileNamesRunnerUnlessRaced
  BY DEF RaceInv, Orderly, FileNamesRunnerUnlessRaced, Active, Running
<1> QED
  BY <1>1, RaceInvariant, PTL

(* Unless something raced a release removes its own process's file        *)
(* (pidlock.go:64-80).                                                     *)
THEOREM RemovesOwnTheorem == RSpec => []RemovesOwnFileUnlessRaced
<1>1. RaceInv => RemovesOwnFileUnlessRaced
  BY DEF RaceInv, Orderly, RemovesOwnFileUnlessRaced, Active, Releasing
<1> QED
  BY <1>1, RaceInvariant, PTL
=============================================================================

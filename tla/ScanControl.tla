---------------------------- MODULE ScanControl ----------------------------
(***************************************************************************)
(* The control of scan, repair and clear runs inside one server process:   *)
(* the in-memory gate isAutoScanning, the abort flag, the manual-stop      *)
(* cooldown and the task state of package httpapi, on top of the scan lock.*)
(* A run is a request handler (scan, repair, clear) or a tick of the       *)
(* auto-watcher; POST /api/triage/unlock interleaves with all of them.     *)
(*                                                                         *)
(* The scan lock is RunMutex, which ScanLock implements, for this process; *)
(* foreign says that another process has the lock.                         *)
(***************************************************************************)
EXTENDS Naturals, Sequences

CONSTANTS
    Server,      \* this process
    NoRun,
    Ops,         \* slots for runs of the server
    Kind,        \* the kind of run each slot has
    Many,        \* a number of files taken as "more than one waits for"
    MaxStops     \* bound on unlock requests

Kinds == {"SCAN", "WATCH", "REPAIR", "CLEAR"}

ASSUME NoRunAssumption == NoRun \notin {Server} \X Ops
ASSUME KindAssumption == Kind \in [Ops -> Kinds]
ASSUME BoundAssumption == Many \in Nat \ {0} /\ MaxStops \in Nat

VARIABLES
    gate,       \* server.isAutoScanning
    abort,      \* server.scanAbortRequested
    cooldown,   \* time.Now() < server.manualStopCooldownUntil
    owner,      \* owner of the scan lock, see RunMutex
    foreign,    \* another process holds the scan lock
    task,       \* taskstate.Manager.state
    resets,     \* unlock requests that still have to reset the task state
    pc, left,   \* per run: where it is, and how many files it still has
    todo,       \* per run: what it still does on its way out
    gone,       \* per run: its request was cancelled by the client
    stop,       \* per run, history: when the last unlock arrived
    after,      \* per run, history: files started since that unlock
    stops       \* unlock requests so far

lockVars == <<owner, foreign>>
runVars  == <<pc, left, todo, gone>>
history  == <<stop, after>>
vars == <<gate, abort, cooldown, lockVars, task, resets, runVars, history, stops>>

Lock == INSTANCE RunMutex WITH Procs <- {Server}, Threads <- Ops

Abortable(o) == Kind[o] \in {"SCAN", "WATCH"}
TaskType(o)  == IF Kind[o] = "WATCH" THEN "SCAN" ELSE Kind[o]

(* The run is in its pipeline. *)
Working == {"open", "poll", "file"}
(* The run has claimed the gate and is yet to reach setAbort(false). *)
Starting == {"claimed", "locked"}
Places == {"idle", "ready", "exit"} \cup Starting \cup Working

(* What a run does on its way out: FinishTask or FailTask, endScan, and the *)
(* release of the lock, in the order its return statements and defers give. *)
(* Repair's lock is released inside RepairRegistry.                         *)
Exits(o, report) ==
    CASE Kind[o] = "WATCH"  -> <<report, "release", "endScan">>
      [] Kind[o] = "REPAIR" -> <<"release", report, "endScan">>
      [] OTHER              -> <<report, "endScan", "release">>

TypeOK ==
    /\ gate \in BOOLEAN /\ abort \in BOOLEAN /\ cooldown \in BOOLEAN
    /\ foreign \in BOOLEAN /\ Lock!TypeOK
    /\ task \in [running : BOOLEAN, type : {"IDLE", "SCAN", "REPAIR", "CLEAR"},
                 stage : {"", "STARTING", "WORKING", "COMPLETED", "FAILED", "IDLE"}]
    /\ pc \in [Ops -> Places]
    /\ left \in [Ops -> 0 .. Many]
    /\ todo \in [Ops -> Seq({"finish", "fail", "endScan", "release"})]
    /\ gone \in [Ops -> BOOLEAN]
    /\ stop \in [Ops -> {"none", "early", "late"}]
    /\ after \in [Ops -> 0 .. 2]
    /\ stops \in 0 .. MaxStops /\ resets \in 0 .. stops

Init ==
    /\ gate = FALSE /\ abort = FALSE /\ cooldown = FALSE
    /\ Lock!Init /\ foreign = FALSE
    /\ task = [running |-> FALSE, type |-> "IDLE", stage |-> ""]
    /\ resets = 0 /\ stops = 0
    /\ pc = [o \in Ops |-> "idle"]
    /\ left = [o \in Ops |-> 0]
    /\ todo = [o \in Ops |-> <<>>]
    /\ gone = [o \in Ops |-> FALSE]
    /\ stop = [o \in Ops |-> "none"]
    /\ after = [o \in Ops |-> 0]

Goto(o, place) == pc' = [pc EXCEPT ![o] = place]

Leave(o, exits) ==
    /\ Goto(o, "exit")
    /\ todo' = [todo EXCEPT ![o] = exits]

-----------------------------------------------------------------------------
(* Starting a run *)

(* Mutants: the gate is tested and not set; the abort flag is cleared here. *)
ClaimTestOnly(o) ==
    /\ pc[o] = "idle"
    /\ ~gate
    /\ Kind[o] = "WATCH" => ~cooldown
    /\ Goto(o, IF Kind[o] = "REPAIR" THEN "ready" ELSE "claimed")
    /\ UNCHANGED <<gate, abort, cooldown, lockVars, task, resets, left, todo, gone, history, stops>>
ClaimClearingAbort(o) ==
    /\ pc[o] = "idle"
    /\ ~gate
    /\ Kind[o] = "WATCH" => ~cooldown
    /\ gate' = TRUE /\ abort' = FALSE
    /\ Goto(o, IF Kind[o] = "REPAIR" THEN "ready" ELSE "claimed")
    /\ UNCHANGED <<cooldown, lockVars, task, resets, left, todo, gone, history, stops>>

(* tryBeginScan; the watcher's form also respects the cooldown.  A run that *)
(* finds the gate claimed answers 409 and changes nothing.                  *)
Claim(o) ==
    /\ pc[o] = "idle"
    /\ ~gate
    /\ Kind[o] = "WATCH" => ~cooldown
    /\ gate' = TRUE
    /\ Goto(o, IF Kind[o] = "REPAIR" THEN "ready" ELSE "claimed")
    /\ UNCHANGED <<abort, cooldown, lockVars, task, resets, left, todo, gone, history, stops>>

(* Mutant: the scan lock is taken whoever has it. *)
AcquireAnyway(o) ==
    /\ pc[o] = "claimed"
    /\ owner' = [owner EXCEPT ![Server] = <<Server, o>>]
    /\ Goto(o, CASE Abortable(o) -> "locked"
                 [] Kind[o] = "CLEAR" -> "ready"
                 [] OTHER -> "open")
    /\ UNCHANGED <<gate, abort, cooldown, foreign, task, resets, left, todo, gone, history, stops>>

(* ScanLock.Acquire succeeds.  Repair takes the lock inside RepairRegistry, *)
(* after it has started its task.                                           *)
Acquire(o) ==
    /\ pc[o] = "claimed"
    /\ ~foreign
    /\ Lock!Grant(<<Server, o>>)
    /\ Goto(o, CASE Abortable(o) -> "locked"
                 [] Kind[o] = "CLEAR" -> "ready"
                 [] OTHER -> "open")
    /\ UNCHANGED <<gate, abort, cooldown, foreign, task, resets, left, todo, gone, history, stops>>

(* Mutant: a denied run keeps the gate. *)
DeniedKeepingGate(o) ==
    /\ pc[o] = "claimed"
    /\ Goto(o, "idle")
    /\ UNCHANGED <<gate, abort, cooldown, lockVars, task, resets, left, todo, gone, history, stops>>

(* ScanLock.Acquire returns ScanInProgressError, or the error of a failed   *)
(* write with the lock free: the gate is given back.  Repair reports the    *)
(* error as a failed task.                                                  *)
Denied(o) ==
    /\ pc[o] = "claimed"
    /\ Leave(o, IF Kind[o] = "REPAIR" THEN <<"fail", "endScan">> ELSE <<"endScan">>)
    /\ UNCHANGED <<gate, abort, cooldown, lockVars, task, resets, left, gone, history, stops>>

(* The watcher finds no unblocked PDF and returns. *)
NothingToScan(o) ==
    /\ Kind[o] = "WATCH" /\ pc[o] = "locked"
    /\ Leave(o, <<"release", "endScan">>)
    /\ UNCHANGED <<gate, abort, cooldown, lockVars, task, resets, left, gone, history, stops>>

(* setAbort(false): a new scan forgets the stop of the previous one. *)
ClearAbort(o) ==
    /\ Abortable(o) /\ pc[o] = "locked"
    /\ abort' = FALSE
    /\ Goto(o, "ready")
    /\ UNCHANGED <<gate, cooldown, lockVars, task, resets, left, todo, gone, history, stops>>

StartTask(o) ==
    /\ pc[o] = "ready"
    /\ task' = [running |-> TRUE, type |-> TaskType(o), stage |-> "STARTING"]
    /\ Goto(o, IF Kind[o] = "REPAIR" THEN "claimed" ELSE "open")
    /\ UNCHANGED <<gate, abort, cooldown, lockVars, resets, left, todo, gone, history, stops>>

-----------------------------------------------------------------------------
(* Working *)

(* The pipeline lists its files and reports the start; it may fail before  *)
(* (Ollama down, a directory, the database).                               *)
OpenRun(o) ==
    /\ pc[o] = "open"
    /\ \/ /\ \E n \in 0 .. Many : left' = [left EXCEPT ![o] = n]
          /\ task' = [task EXCEPT !.stage = "WORKING"]
          /\ Goto(o, "poll")
          /\ UNCHANGED todo
       \/ /\ Leave(o, Exits(o, "fail"))
          /\ UNCHANGED <<left, task>>
    /\ UNCHANGED <<gate, abort, cooldown, lockVars, resets, gone, history, stops>>

Aborting(o) == Abortable(o) /\ (abort \/ gone[o])

(* Mutants: the end of the list, or the stop, is not noticed. *)
PollPastEnd(o) ==
    /\ pc[o] = "poll"
    /\ \/ /\ Aborting(o)
          /\ \E report \in {"finish", "fail"} : Leave(o, Exits(o, report))
       \/ /\ ~Aborting(o)
          /\ Goto(o, "file")
          /\ UNCHANGED todo
    /\ UNCHANGED <<gate, abort, cooldown, lockVars, task, resets, left, gone, history, stops>>
PollIgnoringStop(o) ==
    /\ pc[o] = "poll"
    /\ \/ /\ left[o] = 0
          /\ \E report \in {"finish", "fail"} : Leave(o, Exits(o, report))
       \/ /\ left[o] # 0
          /\ Goto(o, "file")
          /\ UNCHANGED todo
    /\ UNCHANGED <<gate, abort, cooldown, lockVars, task, resets, left, gone, history, stops>>

(* The loop head of RunTriageScan polls the abort flag and the context once *)
(* per file; repair and clear poll nothing.  The clean-up after the loop    *)
(* (directories, database, JSON mirror) may fail.                           *)
Poll(o) ==
    /\ pc[o] = "poll"
    /\ \/ /\ left[o] = 0 \/ Aborting(o)
          /\ \E report \in {"finish", "fail"} : Leave(o, Exits(o, report))
       \/ /\ left[o] # 0 /\ ~Aborting(o)
          /\ Goto(o, "file")
          /\ UNCHANGED todo
    /\ UNCHANGED <<gate, abort, cooldown, lockVars, task, resets, left, gone, history, stops>>

(* One file, with its progress events.  A list of Many files may stay long.*)
ProcessFile(o) ==
    /\ pc[o] = "file"
    /\ \E n \in {left[o] - 1} \cup ({left[o]} \cap {Many}) :
          left' = [left EXCEPT ![o] = n]
    /\ task' = [task EXCEPT !.stage = "WORKING"]
    /\ after' = [after EXCEPT ![o] = IF stop[o] # "none" /\ @ < 2 THEN @ + 1 ELSE @]
    /\ Goto(o, "poll")
    /\ UNCHANGED <<gate, abort, cooldown, lockVars, resets, todo, gone, stop, stops>>

-----------------------------------------------------------------------------
(* Ending a run *)

(* The next thing to do on the way out; with the last one the handler has   *)
(* returned and its slot is free.                                           *)
Exit(o, what) ==
    /\ pc[o] = "exit" /\ Head(todo[o]) = what
    /\ todo' = [todo EXCEPT ![o] = Tail(@)]
    /\ LET last == Len(todo[o]) = 1
       IN  /\ pc'   = [pc EXCEPT ![o] = IF last THEN "idle" ELSE @]
           /\ left' = [left EXCEPT ![o] = IF last THEN 0 ELSE @]
           /\ gone' = [gone EXCEPT ![o] = @ /\ ~last]
           /\ stop' = [stop EXCEPT ![o] = IF last THEN "none" ELSE @]
           /\ after' = [after EXCEPT ![o] = IF last THEN 0 ELSE @]
    /\ UNCHANGED <<abort, cooldown, foreign, resets, stops>>

FinishTask(o) ==
    /\ Exit(o, "finish")
    /\ task' = [task EXCEPT !.running = FALSE, !.stage = "COMPLETED"]
    /\ UNCHANGED <<gate, owner>>

FailTask(o) ==
    /\ Exit(o, "fail")
    /\ task' = [task EXCEPT !.running = FALSE, !.stage = "FAILED"]
    /\ UNCHANGED <<gate, owner>>

EndScan(o) ==
    /\ Exit(o, "endScan")
    /\ gate' = FALSE
    /\ UNCHANGED <<task, owner>>

Release(o) ==
    /\ Exit(o, "release")
    /\ Lock!Leave(<<Server, o>>)
    /\ UNCHANGED <<gate, task>>

-----------------------------------------------------------------------------
(* The environment of a run *)

(* POST /api/triage/unlock, under server.mu ... *)
Unlock ==
    /\ stops < MaxStops
    /\ abort' = TRUE /\ gate' = FALSE /\ cooldown' = TRUE
    /\ resets' = resets + 1 /\ stops' = stops + 1
    /\ stop' = [o \in Ops |-> IF pc[o] = "idle" THEN "none"
                             ELSE IF pc[o] \in Starting THEN "early" ELSE "late"]
    /\ after' = [o \in Ops |-> 0]
    /\ UNCHANGED <<lockVars, task, runVars>>

(* ... then ResetTaskState. *)
ResetTaskState ==
    /\ resets > 0
    /\ resets' = resets - 1
    /\ task' = [running |-> FALSE, type |-> "IDLE", stage |-> "IDLE"]
    /\ UNCHANGED <<gate, abort, cooldown, lockVars, runVars, history, stops>>

CooldownEnds ==
    /\ cooldown
    /\ cooldown' = FALSE
    /\ UNCHANGED <<gate, abort, lockVars, task, resets, runVars, history, stops>>

(* The client of a request goes away, or the watcher's context ends. *)
ContextDone(o) ==
    /\ Abortable(o) /\ pc[o] # "idle" /\ ~gone[o]
    /\ gone' = [gone EXCEPT ![o] = TRUE]
    /\ UNCHANGED <<gate, abort, cooldown, lockVars, task, resets, pc, left, todo, history, stops>>

(* Another process takes the scan lock, and releases it. *)
ForeignRun ==
    /\ owner[Server] = NoRun
    /\ foreign' = ~foreign
    /\ UNCHANGED <<gate, abort, cooldown, owner, task, resets, runVars, history, stops>>

-----------------------------------------------------------------------------

RunSteps(o) ==
    \/ Acquire(o) \/ Denied(o) \/ NothingToScan(o) \/ ClearAbort(o) \/ StartTask(o)
    \/ OpenRun(o) \/ Poll(o) \/ ProcessFile(o)
    \/ FinishTask(o) \/ FailTask(o) \/ EndScan(o) \/ Release(o)

Next ==
    \/ \E o \in Ops : Claim(o) \/ RunSteps(o) \/ ContextDone(o)
    \/ Unlock \/ ResetTaskState \/ CooldownEnds \/ ForeignRun

Spec == Init /\ [][Next]_vars

(* A handler or tick that has begun is scheduled until it returns, and the  *)
(* unlock handler gets to its second half.  How often files arrive, clients *)
(* call and other processes scan is not assumed.                            *)
FairSpec == Spec /\ WF_vars(ResetTaskState) /\ \A o \in Ops : WF_vars(RunSteps(o))

-----------------------------------------------------------------------------
(* Properties *)

Holder(o) == owner[Server] = <<Server, o>>

(* No two pipelines run in the server at the same time, whatever unlock does*)
(* to the gate: "two runTriageScan() loops then walked the same __raws      *)
(* listing" (scanlock.go:27-36) stays impossible.                           *)
OnePipeline ==
    \A o1, o2 \in Ops : pc[o1] \in Working /\ pc[o2] \in Working => o1 = o2

(* No path out of a handler or tick leaves the gate claimed, the lock held  *)
(* or a task marked running (documents_write_scan.go:164-165, :311-313,     *)
(* watcher.go:15: "releases ... on every path").                            *)
NothingLeaks ==
    (\A o \in Ops : pc[o] = "idle") =>
        ~gate /\ owner[Server] = NoRun /\ ~task.running

(* Without an unlock, the gate stays claimed and the task state describes   *)
(* the run from the start of its pipeline to its end.                       *)
TaskDescribesRun ==
    \A o \in Ops : stops = 0 /\ pc[o] \in Working =>
        gate /\ task.running /\ task.type = TaskType(o) /\ Holder(o)

(* "Ask the running loop to stop at its next file boundary" (triage.go:42): *)
(* a scan that has set up its abort flag starts at most one more file after *)
(* an unlock, although later runs try to start, and clear the same flag.    *)
StopsAtFileBoundary == \A o \in Ops : Abortable(o) /\ stop[o] = "late" => after[o] <= 1

(* The same for every scan that was under way when the unlock arrived: the  *)
(* gate is claimed so that "an unlock that lands between the two checks     *)
(* cannot be missed" (documents_write_scan.go:49-51).                       *)
StopNeverLost == \A o \in Ops : Abortable(o) /\ stop[o] # "none" => after[o] <= 1

(* A stopped scan ends, however many files were left.                       *)
StopEndsRun == \A o \in Ops : Abortable(o) /\ stop[o] = "late" ~> pc[o] = "idle"
=============================================================================

---------------------------- MODULE ServerStart ----------------------------
(***************************************************************************)
(* Start and stop of the server (cmd/pdf-triage/app.go serve, httpapi       *)
(* start.go and watcher.go, infra/pidlock): the watcher is started, the     *)
(* lock of the data directory is read and then written, the port is taken,  *)
(* once over the body of whoever holds it; at the end the requests are      *)
(* waited for, 5 s at most, the lock is given back and then the watcher is  *)
(* stopped.                                                                 *)
(***************************************************************************)
EXTENDS Integers, FiniteSets

CONSTANTS
  Instances,  \* processes of the server on one data directory; each has its own PID, all
              \* of one length: a write replaces what another one wrote
  MaxReuses   \* bound: PIDs of dead instances given to other programs

ASSUME InstanceAssumption == {"none", "empty", "free", "foreign"} \cap Instances = {}

VARIABLES
  inst,       \* per instance: where it is, and whether its context is cancelled
  watch,      \* per instance: "off", "idle" or "tick", the state of its watcher
  pidFile,    \* .server.lock: "none", "empty" (truncated) or a PID
  port,       \* "free", "foreign" (another program), or an instance
  handler,    \* per instance: "scan" while a request of it scans, repairs or clears, or "off"
  overran,    \* instances whose Shutdown has given up waiting for its requests
  scanHolder, \* the instance that holds the scan lock, or "none"
  reused,     \* PIDs of dead instances that are programs of another kind now
  kills,      \* per instance: processes it killed for the port
  lastWriter, \* history: the instance that opened or wrote the lock last
  raced,      \* history: the lock was read while another was about to write it
  slipped,    \* history: the lock was written while another was about to remove it
  reuses

requestVars == <<handler, overran>>
startVars == <<inst, watch, requestVars, pidFile, port, scanHolder, reused, kills, lastWriter, raced, slipped, reuses>>

StartInit ==
  /\ inst = [p \in Instances |-> [pc |-> "new", done |-> FALSE]]
  /\ watch = [p \in Instances |-> "off"]
  /\ handler = [p \in Instances |-> "off"] /\ overran = {}
  /\ pidFile = "none" /\ port \in {"free", "foreign"} /\ scanHolder = "none"
  /\ reused = {} /\ kills = [p \in Instances |-> 0]
  /\ lastWriter = "none" /\ raced = FALSE /\ slipped = FALSE /\ reuses = 0

Alive == {p \in Instances : inst[p].pc \notin {"new", "dead"}}
At(steps) == {p \in Instances : inst[p].pc \in steps}
IsProcessRunning(pid) == pid \in Alive \cup reused

Reach(p, pc) == inst' = [inst EXCEPT ![p].pc = pc]

\* What is left of processes that are gone: their files, and nothing else.
Ended(ps) ==
  /\ watch' = [q \in Instances |-> IF q \in ps THEN "off" ELSE watch[q]]
  /\ handler' = [q \in Instances |-> IF q \in ps THEN "off" ELSE handler[q]]
  /\ overran' = overran \ ps
  /\ scanHolder' = IF scanHolder \in ps THEN "none" ELSE scanHolder
Gone(p) == Reach(p, "dead") /\ Ended({p})

\* serve: the watcher first.
WatcherStart(p) ==
  /\ inst[p].pc = "new"
  /\ Reach(p, "read")
  /\ watch' = [watch EXCEPT ![p] = "idle"]
  /\ UNCHANGED <<requestVars, pidFile, port, scanHolder, reused, kills, lastWriter, raced, slipped, reuses>>

\* Mutant: the lock is not looked at.
ReadLockNot(p) ==
  /\ inst[p].pc = "read" /\ Reach(p, "truncate")
  /\ raced' = (raced \/ At({"truncate", "write"}) # {})
  /\ UNCHANGED <<requestVars, watch, pidFile, port, scanHolder, reused, kills, lastWriter, slipped, reuses>>

\* ReadActiveLockHolder: a running process of that PID, the server or not, is
\* the holder; then the process exits.
ReadLock(p) ==
  /\ inst[p].pc = "read"
  /\ IF IsProcessRunning(pidFile) /\ pidFile # p
     THEN Gone(p) /\ UNCHANGED raced
     ELSE /\ Reach(p, "truncate")
          /\ raced' = (raced \/ At({"truncate", "write"}) # {})
          /\ UNCHANGED <<watch, requestVars, scanHolder>>
  /\ UNCHANGED <<pidFile, port, reused, kills, lastWriter, slipped, reuses>>

\* AcquireProcessLock: os.WriteFile empties the file and writes the PID.
TruncateLock(p) ==
  /\ inst[p].pc = "truncate"
  /\ pidFile' = "empty" /\ lastWriter' = p /\ slipped' = (slipped \/ At({"remove"}) # {})
  /\ Reach(p, "write")
  /\ UNCHANGED <<requestVars, watch, port, scanHolder, reused, kills, raced, reuses>>

WriteLock(p) ==
  /\ inst[p].pc = "write"
  /\ pidFile' = p /\ lastWriter' = p /\ slipped' = (slipped \/ At({"remove"}) # {})
  /\ Reach(p, "listen")
  /\ UNCHANGED <<requestVars, watch, port, scanHolder, reused, kills, raced, reuses>>

\* listenLoop.
Listen(p) ==
  /\ inst[p].pc \in {"listen", "retry"} /\ port = "free"
  /\ port' = p /\ Reach(p, "serve")
  /\ UNCHANGED <<requestVars, watch, pidFile, scanHolder, reused, kills, lastWriter, raced, slipped, reuses>>

\* Mutant: the retry may take over again.
TakeOverAgain(p) ==
  /\ inst[p].pc \in {"listen", "retry"} /\ port # "free" /\ kills[p] < 2
  /\ kills' = [kills EXCEPT ![p] = @ + 1]
  /\ \/ /\ port' = "free"
        /\ inst' = [q \in Instances |-> IF q = port THEN [inst[q] EXCEPT !.pc = "dead"]
                                       ELSE IF q = p THEN [inst[q] EXCEPT !.pc = "retry"] ELSE inst[q]]
        /\ Ended({port})
     \/ Reach(p, "retry") /\ UNCHANGED <<port, watch, requestVars, scanHolder>>
  /\ UNCHANGED <<pidFile, reused, lastWriter, raced, slipped, reuses>>

\* The process that holds the port is found and killed; that the kill failed is
\* not noticed before the retry.
TakeOver(p) ==
  /\ inst[p].pc = "listen" /\ port # "free"
  /\ kills' = [kills EXCEPT ![p] = @ + 1]
  /\ \/ /\ port' = "free"
        /\ inst' = [q \in Instances |-> IF q = port THEN [inst[q] EXCEPT !.pc = "dead"]
                                       ELSE IF q = p THEN [inst[q] EXCEPT !.pc = "retry"] ELSE inst[q]]
        /\ Ended({port})
     \/ Reach(p, "retry") /\ UNCHANGED <<port, watch, requestVars, scanHolder>>
  /\ UNCHANGED <<pidFile, reused, lastWriter, raced, slipped, reuses>>

\* No such process is found, or the port is taken again after it: Exit(1), and
\* the lock stays.
ListenFails(p) ==
  /\ inst[p].pc \in {"listen", "retry"} /\ port # "free"
  /\ Gone(p)
  /\ UNCHANGED <<pidFile, port, reused, kills, lastWriter, raced, slipped, reuses>>

ForeignTakesPort ==
  /\ port = "free" /\ At({"retry"}) # {}
  /\ port' = "foreign"
  /\ UNCHANGED <<requestVars, inst, watch, pidFile, scanHolder, reused, kills, lastWriter, raced, slipped, reuses>>

\* The context is cancelled: Shutdown closes the port, ...
Shutdown(p) ==
  /\ inst[p].pc = "serve"
  /\ inst' = [inst EXCEPT ![p] = [pc |-> "drain", done |-> TRUE]]
  /\ port' = "free"
  /\ UNCHANGED <<requestVars, watch, pidFile, scanHolder, reused, kills, lastWriter, raced, slipped, reuses>>

\* Mutant: the 5 s that ran out are not told from requests that ended.
DrainedAnyway(p) ==
  /\ inst[p].pc = "drain" /\ Reach(p, "check")
  /\ UNCHANGED <<requestVars, watch, pidFile, port, scanHolder, reused, kills, lastWriter, raced, slipped, reuses>>

\* ... waits for the requests, streams of events among them, ...
Drained(p) ==
  /\ inst[p].pc = "drain" /\ handler[p] = "off" /\ Reach(p, "check")
  /\ UNCHANGED <<requestVars, watch, pidFile, port, scanHolder, reused, kills, lastWriter, raced, slipped, reuses>>

\* ... and no longer than 5 s: its error is dropped and Start returns, ...
ShutdownTimesOut(p) ==
  /\ inst[p].pc = "drain" /\ Reach(p, "check")
  /\ overran' = overran \cup {p}
  /\ UNCHANGED <<handler, watch, pidFile, port, scanHolder, reused, kills, lastWriter, raced, slipped, reuses>>

\* Mutant: the lock is removed without looking whose it is.
ReleaseBlind(p) ==
  /\ inst[p].pc = "check" /\ Reach(p, "remove")
  /\ UNCHANGED <<requestVars, watch, pidFile, port, scanHolder, reused, kills, lastWriter, raced, slipped, reuses>>

\* ... the release reads the lock and removes it, if it is this process's, ...
ReleaseCheck(p) ==
  /\ inst[p].pc = "check" /\ Reach(p, IF pidFile = p THEN "remove" ELSE "stop")
  /\ UNCHANGED <<requestVars, watch, pidFile, port, scanHolder, reused, kills, lastWriter, raced, slipped, reuses>>

ReleaseRemove(p) ==
  /\ inst[p].pc = "remove" /\ Reach(p, "stop") /\ pidFile' = "none"
  /\ UNCHANGED <<requestVars, watch, port, scanHolder, reused, kills, lastWriter, raced, slipped, reuses>>

\* Mutant: Stop does not wait for the loop to return.
WatcherStopAtOnce(p) ==
  /\ inst[p].pc = "stop" /\ Reach(p, "returned")
  /\ UNCHANGED <<requestVars, watch, pidFile, port, scanHolder, reused, kills, lastWriter, raced, slipped, reuses>>

\* ... and Stop waits until the tick is over; then the process ends.
WatcherStop(p) ==
  /\ inst[p].pc = "stop" /\ watch[p] = "off" /\ Reach(p, "returned")
  /\ UNCHANGED <<requestVars, watch, pidFile, port, scanHolder, reused, kills, lastWriter, raced, slipped, reuses>>

\* loop: a tick, also when the context is cancelled and the ticker is ready;
\* the scan lock lets one process scan and the others skip.
Tick(p) ==
  /\ watch[p] = "idle" /\ scanHolder = "none"
  /\ watch' = [watch EXCEPT ![p] = "tick"] /\ scanHolder' = p
  /\ UNCHANGED <<requestVars, inst, pidFile, port, reused, kills, lastWriter, raced, slipped, reuses>>

TickEnd(p) ==
  /\ watch[p] = "tick"
  /\ watch' = [watch EXCEPT ![p] = "idle"] /\ scanHolder' = "none"
  /\ UNCHANGED <<requestVars, inst, pidFile, port, reused, kills, lastWriter, raced, slipped, reuses>>

LoopEnds(p) ==
  /\ watch[p] = "idle" /\ inst[p].done
  /\ watch' = [watch EXCEPT ![p] = "off"]
  /\ UNCHANGED <<requestVars, inst, pidFile, port, scanHolder, reused, kills, lastWriter, raced, slipped, reuses>>

\* A scan, a repair or a clear on the goroutine of its request, under the same
\* lock.  A request that came before the shutdown may begin late, and nothing
\* ends it when it has outlasted the 5 s.
RequestScans(p) ==
  /\ inst[p].pc \in {"serve", "drain"} \/ p \in overran
  /\ scanHolder = "none"
  /\ handler' = [handler EXCEPT ![p] = "scan"] /\ scanHolder' = p
  /\ UNCHANGED <<inst, overran, watch, pidFile, port, reused, kills, lastWriter, raced, slipped, reuses>>

RequestEnds(p) ==
  /\ handler[p] = "scan"
  /\ handler' = [handler EXCEPT ![p] = "off"] /\ scanHolder' = "none"
  /\ UNCHANGED <<inst, overran, watch, pidFile, port, reused, kills, lastWriter, raced, slipped, reuses>>

Exits(p) ==
  /\ \/ inst[p].pc = "returned"
     \/ p \in Alive           \* a crash, at any moment
  /\ Gone(p)
  /\ port' = IF port = p THEN "free" ELSE port
  /\ UNCHANGED <<pidFile, reused, kills, lastWriter, raced, slipped, reuses>>

ReusePid(p) ==
  /\ inst[p].pc = "dead" /\ reuses < MaxReuses
  /\ reused' = reused \cup {p} /\ reuses' = reuses + 1
  /\ UNCHANGED <<requestVars, inst, watch, pidFile, port, scanHolder, kills, lastWriter, raced, slipped>>

StartNext ==
  \/ \E p \in Instances :
       \/ WatcherStart(p) \/ ReadLock(p) \/ TruncateLock(p) \/ WriteLock(p)
       \/ Listen(p) \/ TakeOver(p) \/ ListenFails(p)
       \/ Shutdown(p) \/ Drained(p) \/ ShutdownTimesOut(p) \/ RequestScans(p) \/ RequestEnds(p)
       \/ ReleaseCheck(p) \/ ReleaseRemove(p) \/ WatcherStop(p)
       \/ Tick(p) \/ TickEnd(p) \/ LoopEnds(p) \/ Exits(p) \/ ReusePid(p)
  \/ ForeignTakesPort

StartSpec == StartInit /\ [][StartNext]_startVars

-----------------------------------------------------------------------------
Holding == At({"listen", "retry", "serve", "drain", "check"})

\* At most one instance is past the lock and has not given it back, unless one
\* read the lock while another was about to write it: nothing excludes that.
OneServer == raced \/ Cardinality(Holding) <= 1

\* The lock names the last instance that took it for as long as it holds it,
\* also when it was taken by two at once, unless it was written between the look
\* and the removal of a release.
LockNamesHolder == lastWriter \in Holding /\ ~slipped => pidFile = lastWriter

\* When serve has returned, the watcher has ended, and no scan of this process
\* is under way, unless Shutdown gave up waiting for the requests: the database
\* is closed next.
NoScanAfterReturn ==
  \A p \in At({"returned"}) : watch[p] = "off" /\ (scanHolder = p => p \in overran)

\* One start kills at most one process for the port.
OneTakeOver == \A p \in Instances : kills[p] <= 1

(* What the start of the server promises, taken together: one instance      *)
(* serves, the lock file names its holder, no scan runs after the server    *)
(* has returned but one that outlasted Shutdown's 5 s, and a port is taken  *)
(* over once at most.                                                       *)
StartsAlone == OneServer /\ LockNamesHolder /\ NoScanAfterReturn /\ OneTakeOver
=============================================================================

--------------------------- MODULE ServicesProofs ---------------------------
(***************************************************************************)
(* The services around the pipeline, for any number of those who use them: *)
(* the start of the server, the health of the model server, the live       *)
(* reload of the page, and the rules that earlier decisions teach; the     *)
(* events of a run, the way of a text, the photographs, the chat and the   *)
(* log.                                                                    *)
(***************************************************************************)
EXTENDS Promises, ServerStart, LearnedRules,
        FiniteSetTheorems, FunctionTheorems, NaturalsInduction, WellFoundedInduction, TLAPS

-----------------------------------------------------------------------------
(* The start of the server.  The lock file decides nothing by itself: it is *)
(* read, emptied and written in three calls.  What makes it work is that    *)
(* whoever is past its own write is named in the file, which one that reads *)
(* it then takes for the holder, unless it read before that write.          *)

Steps == {"new", "read", "truncate", "write", "listen", "retry", "serve", "drain", "check",
          "remove", "stop", "returned", "dead"}

StartTyped ==
  /\ inst \in [Instances -> [pc : Steps, done : BOOLEAN]]
  /\ watch \in [Instances -> {"off", "idle", "tick"}]
  /\ handler \in [Instances -> {"off", "scan"}] /\ overran \subseteq Instances
  /\ kills \in [Instances -> Nat]
  /\ raced \in BOOLEAN /\ slipped \in BOOLEAN

(* Past the write of the lock, up to its removal; and with the write. *)
Owning   == {"listen", "retry", "serve", "drain", "check", "remove"}
Claiming == {"truncate", "write"} \cup Owning

(* Without a race one instance at a time is between its look at the lock    *)
(* and its removal, and the file names it once it has been written.         *)
ClaimsAlone ==
  ~raced => \A p, q \in At(Claiming) : p = q
OwnerNamed ==
  ~raced => \A p \in At(Owning) : pidFile = p

(* With or without one, the last writer is about to write or named, and no  *)
(* other instance is about to remove what it wrote.                         *)
WriterNamed ==
  ~slipped /\ lastWriter \in At({"write"} \cup Owning) =>
    /\ pidFile = IF inst[lastWriter].pc = "write" THEN "empty" ELSE lastWriter
    /\ \A q \in At({"remove"}) : q = lastWriter

(* The scan lock is held for a tick of the watcher or for a request, never  *)
(* both; the watcher ends before serve returns, and requests do so too      *)
(* unless they were given up.                                               *)
ScansWatched ==
  \A p \in Instances :
    /\ scanHolder = p <=> watch[p] = "tick" \/ handler[p] = "scan"
    /\ watch[p] = "tick" => handler[p] = "off"
WatchedAlive == \A p \in At({"new", "returned", "dead"}) : watch[p] = "off"
RequestsAlive ==
  \A p \in Instances :
    /\ handler[p] = "scan" => inst[p].pc \in {"serve", "drain"} \/ p \in overran
    /\ p \in overran => inst[p].pc \in {"check", "remove", "stop", "returned"}

KilledOnce ==
  \A p \in Instances :
    /\ kills[p] <= 1
    /\ inst[p].pc \in {"new", "read", "truncate", "write", "listen"} => kills[p] = 0

StartInv == /\ StartTyped /\ ClaimsAlone /\ OwnerNamed /\ WriterNamed
        /\ ScansWatched /\ WatchedAlive /\ RequestsAlive /\ KilledOnce

-----------------------------------------------------------------------------
Acts(p) ==
  \/ WatcherStart(p) \/ ReadLock(p) \/ TruncateLock(p) \/ WriteLock(p)
  \/ Listen(p) \/ TakeOver(p) \/ ListenFails(p)
  \/ Shutdown(p) \/ Drained(p) \/ ShutdownTimesOut(p) \/ RequestScans(p) \/ RequestEnds(p)
  \/ ReleaseCheck(p) \/ ReleaseRemove(p) \/ WatcherStop(p)
  \/ Tick(p) \/ TickEnd(p) \/ LoopEnds(p) \/ Exits(p) \/ ReusePid(p)

(* A take-over leads to the retry, and ends whom it killed, if any.         *)
LEMMA TakeOverEnds ==
    ASSUME StartInv, NEW p \in Instances, TakeOver(p)
    PROVE  /\ inst[p].pc = "listen" /\ kills' = [kills EXCEPT ![p] = @ + 1]
           /\ inst' \in [Instances -> [pc : Steps, done : BOOLEAN]]
           /\ UNCHANGED <<pidFile, lastWriter, raced, slipped>>
           /\ \E ps :
                /\ \A q \in Instances :
                     inst'[q].pc = IF q \in ps THEN "dead"
                                   ELSE IF q = p THEN "retry" ELSE inst[q].pc
                /\ Ended(ps)
  <1> USE DEF StartInv, StartTyped, Steps
  <1>1. /\ inst[p].pc = "listen" /\ kills' = [kills EXCEPT ![p] = @ + 1]
        /\ UNCHANGED <<pidFile, lastWriter, raced, slipped>>
      BY DEF TakeOver
  <1>2. CASE /\ inst' = [q \in Instances |-> IF q = port THEN [inst[q] EXCEPT !.pc = "dead"]
                            ELSE IF q = p THEN [inst[q] EXCEPT !.pc = "retry"] ELSE inst[q]]
             /\ Ended({port})
    <2>1. inst' \in [Instances -> [pc : Steps, done : BOOLEAN]]
        BY <1>2
    <2>2. \A q \in Instances : inst'[q].pc = IF q \in {port} THEN "dead"
                                   ELSE IF q = p THEN "retry" ELSE inst[q].pc
        BY <1>2
    <2> QED
        BY <1>1, <1>2, <2>1, <2>2
  <1>3. CASE Reach(p, "retry") /\ UNCHANGED <<port, watch, requestVars, scanHolder>>
    <2>1. inst' \in [Instances -> [pc : Steps, done : BOOLEAN]]
        BY <1>3 DEF Reach
    <2>2. \A q \in Instances : inst'[q].pc = IF q = p THEN "retry" ELSE inst[q].pc
        BY <1>3 DEF Reach
    <2>3. Ended({})
        BY <1>3 DEF Ended, requestVars
    <2> QED
        BY <1>1, <2>1, <2>2, <2>3
  <1> QED
      BY <1>2, <1>3 DEF TakeOver

LEMMA TypeStep ==
    ASSUME StartInv, NEW p \in Instances, Acts(p)
    PROVE  StartTyped'
  <1> USE InstanceAssumption DEF StartInv, StartTyped, Steps, Reach, Gone, Ended, At
  <1>1. CASE WatcherStart(p)
      BY <1>1 DEF WatcherStart, requestVars
  <1>2. CASE ReadLock(p)
    <2>1. CASE Gone(p) /\ UNCHANGED <<raced, slipped, kills>>
        BY <2>1
    <2>2. CASE /\ Reach(p, "truncate") /\ raced' = (raced \/ At({"truncate", "write"}) # {})
               /\ UNCHANGED <<watch, handler, overran, slipped, kills>>
        BY <2>2
    <2> QED
        BY <1>2, <2>1, <2>2 DEF ReadLock, requestVars
  <1>3. CASE TruncateLock(p)
      BY <1>3 DEF TruncateLock, requestVars
  <1>4. CASE WriteLock(p)
      BY <1>4 DEF WriteLock, requestVars
  <1>5. CASE Listen(p)
      BY <1>5 DEF Listen, requestVars
  <1>6. CASE TakeOver(p)
    <2>1. PICK ps : /\ \A q \in Instances : inst'[q].pc = IF q \in ps THEN "dead"
                                             ELSE IF q = p THEN "retry" ELSE inst[q].pc
                    /\ Ended(ps)
        BY <1>6, TakeOverEnds
    <2>2. /\ inst[p].pc = "listen" /\ kills' = [kills EXCEPT ![p] = @ + 1]
          /\ inst' \in [Instances -> [pc : Steps, done : BOOLEAN]]
          /\ UNCHANGED <<pidFile, lastWriter, raced, slipped>>
        BY <1>6, TakeOverEnds
    <2> QED
        BY <2>1, <2>2
  <1>7. CASE ListenFails(p)
      BY <1>7 DEF ListenFails
  <1>8. CASE Shutdown(p)
      BY <1>8 DEF Shutdown, requestVars
  <1>9. CASE ReleaseCheck(p)
      BY <1>9 DEF ReleaseCheck, requestVars
  <1>10. CASE ReleaseRemove(p)
      BY <1>10 DEF ReleaseRemove, requestVars
  <1>11. CASE WatcherStop(p)
      BY <1>11 DEF WatcherStop, requestVars
  <1>12. CASE Tick(p)
      BY <1>12 DEF Tick, requestVars
  <1>13. CASE TickEnd(p)
      BY <1>13 DEF TickEnd, requestVars
  <1>14. CASE LoopEnds(p)
      BY <1>14 DEF LoopEnds, requestVars
  <1>15. CASE Exits(p)
      BY <1>15 DEF Exits, Alive, IsProcessRunning
  <1>16. CASE ReusePid(p)
      BY <1>16 DEF ReusePid, requestVars
  <1>17. CASE Drained(p)
      BY <1>17 DEF Drained, requestVars
  <1>18. CASE ShutdownTimesOut(p)
      BY <1>18 DEF ShutdownTimesOut, requestVars
  <1>19. CASE RequestScans(p)
      BY <1>19 DEF RequestScans, requestVars
  <1>20. CASE RequestEnds(p)
      BY <1>20 DEF RequestEnds, requestVars
  <1> QED
      BY <1>1, <1>2, <1>3, <1>4, <1>5, <1>6, <1>7, <1>8, <1>9, <1>10, <1>11,
         <1>12, <1>13, <1>14, <1>15, <1>16, <1>17, <1>18, <1>19, <1>20
      DEF Acts

(* An instance that passes the look at the lock without a race is the only  *)
(* claimant: an owner would be named in the file, and alive.                *)
LEMMA ClaimStep ==
    ASSUME StartInv, NEW p \in Instances, Acts(p)
    PROVE  ClaimsAlone' /\ OwnerNamed'
  <1> USE InstanceAssumption
      DEF StartInv, StartTyped, Steps, Reach, Gone, Ended, At, ClaimsAlone, OwnerNamed, Owning, Claiming
  <1>1. CASE WatcherStart(p)
      BY <1>1 DEF WatcherStart, requestVars
  <1>2. CASE ReadLock(p)
    <2>1. CASE Gone(p) /\ UNCHANGED <<pidFile, raced>>
        BY <1>2, <2>1 DEF ReadLock
    <2>2. CASE /\ ~(IsProcessRunning(pidFile) /\ pidFile # p)
               /\ Reach(p, "truncate") /\ raced' = (raced \/ At({"truncate", "write"}) # {})
               /\ pidFile' = pidFile
      <3>1. inst[p].pc = "read"
          BY <1>2 DEF ReadLock
      <3>2. ASSUME ~raced' PROVE \A q \in Instances : inst[q].pc \notin Claiming
        <4>1. SUFFICES ASSUME NEW q \in Instances, inst[q].pc \in Claiming PROVE FALSE
            OBVIOUS
        <4>2. ~raced /\ inst[q].pc \in Owning
            BY <2>2, <3>2, <4>1
        <4>3. pidFile = q /\ q \in Alive /\ q # p
            BY <3>1, <4>2 DEF Alive
        <4> QED
            BY <2>2, <4>3 DEF IsProcessRunning
      <3> QED
          BY <2>2, <3>1, <3>2
    <2> QED
        BY <1>2, <2>1, <2>2 DEF ReadLock
  <1>3. CASE TruncateLock(p)
      BY <1>3 DEF TruncateLock, requestVars
  <1>4. CASE WriteLock(p)
      BY <1>4 DEF WriteLock, requestVars
  <1>5. CASE Listen(p)
      BY <1>5 DEF Listen, requestVars
  <1>6. CASE TakeOver(p)
    <2>1. PICK ps : /\ \A q \in Instances : inst'[q].pc = IF q \in ps THEN "dead"
                                             ELSE IF q = p THEN "retry" ELSE inst[q].pc
                    /\ Ended(ps)
        BY <1>6, TakeOverEnds
    <2>2. /\ inst[p].pc = "listen" /\ kills' = [kills EXCEPT ![p] = @ + 1]
          /\ inst' \in [Instances -> [pc : Steps, done : BOOLEAN]]
          /\ UNCHANGED <<pidFile, lastWriter, raced, slipped>>
        BY <1>6, TakeOverEnds
    <2>3. \A q \in Instances : inst'[q].pc \in {"dead", "retry", inst[q].pc} /\ (inst'[q].pc = "retry" => inst[q].pc \in Owning)
        BY <2>1, <2>2
    <2>4. ASSUME NEW q \in Instances PROVE /\ inst'[q].pc \in Claiming => inst[q].pc \in Claiming
                                           /\ inst'[q].pc \in Owning => inst[q].pc \in Owning
        BY <2>3
    <2> QED
        BY ONLY <2>2, <2>4, StartInv DEF StartInv, ClaimsAlone, OwnerNamed, At
  <1>7. CASE ListenFails(p)
      BY <1>7 DEF ListenFails
  <1>8. CASE Shutdown(p)
      BY <1>8 DEF Shutdown, requestVars
  <1>9. CASE ReleaseCheck(p)
      BY <1>9 DEF ReleaseCheck, requestVars
  <1>10. CASE ReleaseRemove(p)
      BY <1>10 DEF ReleaseRemove, requestVars
  <1>11. CASE WatcherStop(p)
      BY <1>11 DEF WatcherStop, requestVars
  <1>12. CASE Tick(p)
      BY <1>12 DEF Tick, requestVars
  <1>13. CASE TickEnd(p)
      BY <1>13 DEF TickEnd, requestVars
  <1>14. CASE LoopEnds(p)
      BY <1>14 DEF LoopEnds, requestVars
  <1>15. CASE Exits(p)
      BY <1>15 DEF Exits, Alive, IsProcessRunning
  <1>16. CASE ReusePid(p)
      BY <1>16 DEF ReusePid, requestVars
  <1>17. CASE Drained(p)
      BY <1>17 DEF Drained, requestVars
  <1>18. CASE ShutdownTimesOut(p)
      BY <1>18 DEF ShutdownTimesOut, requestVars
  <1>19. CASE RequestScans(p)
      BY <1>19 DEF RequestScans, requestVars
  <1>20. CASE RequestEnds(p)
      BY <1>20 DEF RequestEnds, requestVars
  <1> QED
      BY <1>1, <1>2, <1>3, <1>4, <1>5, <1>6, <1>7, <1>8, <1>9, <1>10, <1>11,
         <1>12, <1>13, <1>14, <1>15, <1>16, <1>17, <1>18, <1>19, <1>20
      DEF Acts

(* A release that looks after the last write finds the other one's PID.     *)
LEMMA WriterStep ==
    ASSUME StartInv, NEW p \in Instances, Acts(p)
    PROVE  WriterNamed'
  <1> USE InstanceAssumption DEF StartInv, StartTyped, Steps, Reach, Gone, Ended, At, WriterNamed, Owning
  <1>1. CASE WatcherStart(p)
      BY <1>1 DEF WatcherStart, requestVars
  <1>2. CASE ReadLock(p)
    <2>1. /\ inst[p].pc = "read" /\ inst' \in {[inst EXCEPT ![p].pc = "dead"], [inst EXCEPT ![p].pc = "truncate"]}
          /\ UNCHANGED <<pidFile, lastWriter, slipped>>
        BY <1>2 DEF ReadLock
    <2>2. /\ \A q \in Instances \ {p} : inst'[q].pc = inst[q].pc
          /\ inst'[p].pc \in {"dead", "truncate"}
        BY <2>1
    <2>3. At({"write"} \cup Owning)' = At({"write"} \cup Owning) /\ At({"remove"})' = At({"remove"})
        BY <2>1, <2>2
    <2>4. lastWriter \in At({"write"} \cup Owning) => inst'[lastWriter].pc = inst[lastWriter].pc
        BY <2>1, <2>2
    <2> QED
        BY ONLY <2>1, <2>3, <2>4, StartInv DEF StartInv, WriterNamed
  <1>3. CASE TruncateLock(p)
      BY <1>3 DEF TruncateLock, requestVars
  <1>4. CASE WriteLock(p)
      BY <1>4 DEF WriteLock, requestVars
  <1>5. CASE Listen(p)
      BY <1>5 DEF Listen, requestVars
  <1>6. CASE TakeOver(p)
    <2>1. PICK ps : /\ \A q \in Instances : inst'[q].pc = IF q \in ps THEN "dead"
                                             ELSE IF q = p THEN "retry" ELSE inst[q].pc
                    /\ Ended(ps)
        BY <1>6, TakeOverEnds
    <2>2. /\ inst[p].pc = "listen" /\ kills' = [kills EXCEPT ![p] = @ + 1]
          /\ inst' \in [Instances -> [pc : Steps, done : BOOLEAN]]
          /\ UNCHANGED <<pidFile, lastWriter, raced, slipped>>
        BY <1>6, TakeOverEnds
    <2> QED
        BY <2>1, <2>2
  <1>7. CASE ListenFails(p)
      BY <1>7 DEF ListenFails
  <1>8. CASE Shutdown(p)
      BY <1>8 DEF Shutdown, requestVars
  <1>9. CASE ReleaseCheck(p)
      BY <1>9 DEF ReleaseCheck, requestVars
  <1>10. CASE ReleaseRemove(p)
      BY <1>10 DEF ReleaseRemove, requestVars
  <1>11. CASE WatcherStop(p)
      BY <1>11 DEF WatcherStop, requestVars
  <1>12. CASE Tick(p)
      BY <1>12 DEF Tick, requestVars
  <1>13. CASE TickEnd(p)
      BY <1>13 DEF TickEnd, requestVars
  <1>14. CASE LoopEnds(p)
      BY <1>14 DEF LoopEnds, requestVars
  <1>15. CASE Exits(p)
      BY <1>15 DEF Exits, Alive, IsProcessRunning
  <1>16. CASE ReusePid(p)
      BY <1>16 DEF ReusePid, requestVars
  <1>17. CASE Drained(p)
      BY <1>17 DEF Drained, requestVars
  <1>18. CASE ShutdownTimesOut(p)
      BY <1>18 DEF ShutdownTimesOut, requestVars
  <1>19. CASE RequestScans(p)
      BY <1>19 DEF RequestScans, requestVars
  <1>20. CASE RequestEnds(p)
      BY <1>20 DEF RequestEnds, requestVars
  <1> QED
      BY <1>1, <1>2, <1>3, <1>4, <1>5, <1>6, <1>7, <1>8, <1>9, <1>10, <1>11,
         <1>12, <1>13, <1>14, <1>15, <1>16, <1>17, <1>18, <1>19, <1>20
      DEF Acts

(* A watcher works for a living process that has not returned from Stop;    *)
(* the scan lock follows its tick.                                          *)
LEMMA WatchStep ==
    ASSUME StartInv, NEW p \in Instances, Acts(p)
    PROVE  ScansWatched' /\ WatchedAlive' /\ RequestsAlive'
  <1> USE InstanceAssumption DEF StartInv, StartTyped, Steps, Reach, Gone, Ended, At, ScansWatched, WatchedAlive,
      RequestsAlive
  <1>1. CASE WatcherStart(p)
    <2>1. /\ inst[p].pc = "new" /\ inst' = [inst EXCEPT ![p].pc = "read"]
          /\ watch' = [watch EXCEPT ![p] = "idle"]
          /\ handler' = handler /\ overran' = overran /\ scanHolder' = scanHolder
        BY <1>1 DEF WatcherStart, requestVars
    <2> QED
        BY <2>1
  <1>2. CASE ReadLock(p)
    <2>1. CASE Gone(p)
        BY <2>1
    <2>2. CASE /\ inst[p].pc = "read" /\ Reach(p, "truncate")
               /\ UNCHANGED <<watch, handler, overran, scanHolder>>
        BY <2>2
    <2> QED
        BY <1>2, <2>1, <2>2 DEF ReadLock, requestVars
  <1>3. CASE TruncateLock(p)
      BY <1>3 DEF TruncateLock, requestVars
  <1>4. CASE WriteLock(p)
      BY <1>4 DEF WriteLock, requestVars
  <1>5. CASE Listen(p)
      BY <1>5 DEF Listen, requestVars
  <1>6. CASE TakeOver(p)
    <2>1. PICK ps : /\ \A q \in Instances : inst'[q].pc = IF q \in ps THEN "dead"
                                             ELSE IF q = p THEN "retry" ELSE inst[q].pc
                    /\ Ended(ps)
        BY <1>6, TakeOverEnds
    <2>2. /\ inst[p].pc = "listen" /\ kills' = [kills EXCEPT ![p] = @ + 1]
          /\ inst' \in [Instances -> [pc : Steps, done : BOOLEAN]]
          /\ UNCHANGED <<pidFile, lastWriter, raced, slipped>>
        BY <1>6, TakeOverEnds
    <2> QED
        BY <2>1, <2>2
  <1>7. CASE ListenFails(p)
      BY <1>7 DEF ListenFails
  <1>8. CASE Shutdown(p)
      BY <1>8 DEF Shutdown, requestVars
  <1>9. CASE ReleaseCheck(p)
      BY <1>9 DEF ReleaseCheck, requestVars
  <1>10. CASE ReleaseRemove(p)
      BY <1>10 DEF ReleaseRemove, requestVars
  <1>11. CASE WatcherStop(p)
      BY <1>11 DEF WatcherStop, requestVars
  <1>12. CASE Tick(p)
      BY <1>12 DEF Tick, requestVars
  <1>13. CASE TickEnd(p)
      BY <1>13 DEF TickEnd, requestVars
  <1>14. CASE LoopEnds(p)
      BY <1>14 DEF LoopEnds, requestVars
  <1>15. CASE Exits(p)
      BY <1>15 DEF Exits, Alive, IsProcessRunning
  <1>16. CASE ReusePid(p)
      BY <1>16 DEF ReusePid, requestVars
  <1>17. CASE Drained(p)
      BY <1>17 DEF Drained, requestVars
  <1>18. CASE ShutdownTimesOut(p)
      BY <1>18 DEF ShutdownTimesOut, requestVars
  <1>19. CASE RequestScans(p)
      BY <1>19 DEF RequestScans, requestVars
  <1>20. CASE RequestEnds(p)
      BY <1>20 DEF RequestEnds, requestVars
  <1> QED
      BY <1>1, <1>2, <1>3, <1>4, <1>5, <1>6, <1>7, <1>8, <1>9, <1>10, <1>11,
         <1>12, <1>13, <1>14, <1>15, <1>16, <1>17, <1>18, <1>19, <1>20
      DEF Acts

(* The retry after a kill has no way back to the first attempt.             *)
LEMMA KillStep ==
    ASSUME StartInv, NEW p \in Instances, Acts(p)
    PROVE  KilledOnce'
  <1> USE InstanceAssumption DEF StartInv, StartTyped, Steps, Reach, Gone, Ended, At, KilledOnce
  <1>1. CASE WatcherStart(p)
    <2>1. inst[p].pc = "new" /\ kills' = kills /\ inst' = [inst EXCEPT ![p].pc = "read"]
        BY <1>1 DEF WatcherStart, requestVars
    <2> QED
        BY <2>1
  <1>2. CASE ReadLock(p)
      BY <1>2 DEF ReadLock, Alive, IsProcessRunning
  <1>3. CASE TruncateLock(p)
      BY <1>3 DEF TruncateLock, requestVars
  <1>4. CASE WriteLock(p)
      BY <1>4 DEF WriteLock, requestVars
  <1>5. CASE Listen(p)
      BY <1>5 DEF Listen, requestVars
  <1>6. CASE TakeOver(p)
    <2>1. PICK ps : /\ \A q \in Instances : inst'[q].pc = IF q \in ps THEN "dead"
                                             ELSE IF q = p THEN "retry" ELSE inst[q].pc
                    /\ Ended(ps)
        BY <1>6, TakeOverEnds
    <2>2. /\ inst[p].pc = "listen" /\ kills' = [kills EXCEPT ![p] = @ + 1]
          /\ inst' \in [Instances -> [pc : Steps, done : BOOLEAN]]
          /\ UNCHANGED <<pidFile, lastWriter, raced, slipped>>
        BY <1>6, TakeOverEnds
    <2> QED
        BY <2>1, <2>2
  <1>7. CASE ListenFails(p)
      BY <1>7 DEF ListenFails
  <1>8. CASE Shutdown(p)
      BY <1>8 DEF Shutdown, requestVars
  <1>9. CASE ReleaseCheck(p)
      BY <1>9 DEF ReleaseCheck, requestVars
  <1>10. CASE ReleaseRemove(p)
      BY <1>10 DEF ReleaseRemove, requestVars
  <1>11. CASE WatcherStop(p)
      BY <1>11 DEF WatcherStop, requestVars
  <1>12. CASE Tick(p)
      BY <1>12 DEF Tick, requestVars
  <1>13. CASE TickEnd(p)
      BY <1>13 DEF TickEnd, requestVars
  <1>14. CASE LoopEnds(p)
      BY <1>14 DEF LoopEnds, requestVars
  <1>15. CASE Exits(p)
      BY <1>15 DEF Exits, Alive, IsProcessRunning
  <1>16. CASE ReusePid(p)
      BY <1>16 DEF ReusePid, requestVars
  <1>17. CASE Drained(p)
      BY <1>17 DEF Drained, requestVars
  <1>18. CASE ShutdownTimesOut(p)
      BY <1>18 DEF ShutdownTimesOut, requestVars
  <1>19. CASE RequestScans(p)
      BY <1>19 DEF RequestScans, requestVars
  <1>20. CASE RequestEnds(p)
      BY <1>20 DEF RequestEnds, requestVars
  <1> QED
      BY <1>1, <1>2, <1>3, <1>4, <1>5, <1>6, <1>7, <1>8, <1>9, <1>10, <1>11,
         <1>12, <1>13, <1>14, <1>15, <1>16, <1>17, <1>18, <1>19, <1>20
      DEF Acts

-----------------------------------------------------------------------------
(* The invariant, and what it means                                         *)

LEMMA InitHolds == StartInit => StartInv
  <1> SUFFICES ASSUME StartInit PROVE StartInv
      OBVIOUS
  <1>1. StartTyped
      BY DEF StartInit, StartTyped, Steps
  <1>2. \A p \in Instances : inst[p].pc = "new" /\ watch[p] = "off" /\ kills[p] = 0
      BY DEF StartInit
  <1>3. ClaimsAlone /\ OwnerNamed /\ WriterNamed
      BY <1>2 DEF ClaimsAlone, OwnerNamed, WriterNamed, Claiming, Owning, At
  <1>4. ScansWatched /\ WatchedAlive /\ RequestsAlive /\ KilledOnce
      BY <1>2, InstanceAssumption
         DEF StartInit, ScansWatched, WatchedAlive, RequestsAlive, KilledOnce, At
  <1> QED
      BY <1>1, <1>3, <1>4 DEF StartInv

LEMMA StepHolds == StartInv /\ [StartNext]_startVars => StartInv'
  <1> SUFFICES ASSUME StartInv, [StartNext]_startVars PROVE StartInv'
      OBVIOUS
  <1>1. CASE \E p \in Instances : Acts(p)
      BY <1>1, TypeStep, ClaimStep, WriterStep, WatchStep, KillStep DEF StartInv
  <1>2. CASE ForeignTakesPort \/ UNCHANGED startVars
    <2>1. UNCHANGED <<inst, watch, handler, overran, pidFile, scanHolder, kills, lastWriter, raced,
                      slipped>>
        BY <1>2 DEF ForeignTakesPort, startVars, requestVars
    <2> QED
        BY <2>1
        DEF StartInv, StartTyped, ClaimsAlone, OwnerNamed, WriterNamed, ScansWatched,
            WatchedAlive, RequestsAlive, KilledOnce, At
  <1> QED
      BY <1>1, <1>2 DEF StartNext, Acts

(* The typing and the five parts of the argument hold in every reachable    *)
(* state of the start (httpapi/start.go, infra/pidlock).                    *)
THEOREM StartInvariant == StartSpec => []StartInv
  BY InitHolds, StepHolds, PTL DEF StartSpec

LEMMA HoldingAlone == StartInv => OneServer
  <1> SUFFICES ASSUME StartInv, ~raced PROVE Cardinality(Holding) <= 1
      BY DEF OneServer
  <1>1. \A p, q \in Holding : p = q
      BY DEF StartInv, ClaimsAlone, Claiming, Owning, Holding, At
  <1>2. CASE Holding = {}
      BY <1>2, FS_EmptySet
  <1>3. CASE Holding # {}
    <2>1. PICK p \in Holding : Holding = {p}
        BY <1>1, <1>3
    <2>2. Cardinality(Holding) = 1
        BY <2>1, FS_Singleton
    <2> QED
        BY <2>2
  <1> QED
      BY <1>2, <1>3

(* "Prevent two instances from running" (start.go:82) keeps a second      *)
(* server out unless two start at once; the lock names who holds it; no     *)
(* scan of the watcher is under way when serve has returned and closes the  *)
(* database, and none of a request that Shutdown waited for to the end; and *)
(* one start kills at most one process for the port (start.go:118).         *)
THEOREM StartsAloneTheorem == StartSpec => []StartsAlone
  <1>1. StartInv => LockNamesHolder
      BY InstanceAssumption DEF StartInv, WriterNamed, LockNamesHolder, Holding, At, Owning
  <1>2. StartInv => NoScanAfterReturn
      BY DEF StartInv, ScansWatched, WatchedAlive, RequestsAlive, NoScanAfterReturn, At
  <1>3. StartInv => OneTakeOver
      BY DEF StartInv, KilledOnce, OneTakeOver
  <1>4. StartInv => StartsAlone
      BY <1>1, <1>2, <1>3, HoldingAlone DEF StartsAlone
  <1> QED
      BY <1>4, StartInvariant, PTL

-----------------------------------------------------------------------------
(* The health of the model server.  The cache says of its own model what    *)
(* was seen after the time it is stored under; whoever has started the      *)
(* server never looks into it.                                              *)

AskPlaces == {"idle", "list", "look", "pull", "probe", "store", "spawn", "relist"}

AskerType ==
  [pc : AskPlaces, model : Models \cup {""}, force : BOOLEAN,
   at : Nat, ok : BOOLEAN, seen : Nat, spawned : Nat \cup {-1}]
AskersTyped == asker \in [Askers -> AskerType]

CacheHonest ==
  /\ healthCache.at \in Nat /\ healthCache.seen \in Nat
  /\ healthCache.of = healthCache.model /\ healthCache.at <= healthCache.seen

Honest(rec, now) ==
  /\ rec.spawned <= now
  /\ rec.pc = "probe" => rec.at <= now
  /\ rec.pc = "store" => rec.at <= rec.seen /\ rec.spawned <= rec.seen
  /\ rec.pc = "look" /\ rec.spawned # -1 => rec.force = TRUE
  /\ rec.pc \in {"idle", "list", "pull", "spawn"} => rec.spawned = -1

HealthInv ==
  /\ hour \in Nat /\ AskersTyped /\ CacheHonest
  /\ \A a \in Askers : Honest(asker[a], hour)
  /\ AnswersHonest

LEMMA UnspawnedIsHonest ==
    ASSUME NEW rec, NEW now \in Nat, rec.pc \in {"idle", "list", "look"}, rec.spawned = -1
    PROVE  Honest(rec, now)
  BY DEF Honest

LEMMA SpawnedIsHonest ==
    ASSUME NEW rec, NEW now \in Nat, rec.spawned <= now,
           rec.pc = "relist" \/ (rec.pc = "look" /\ rec.force = TRUE)
    PROVE  Honest(rec, now)
  BY DEF Honest

LEMMA HonestLater ==
    ASSUME NEW rec, NEW now \in Nat, Honest(rec, now),
           rec.at \in Nat, rec.spawned \in Nat \/ rec.spawned = -1
    PROVE  Honest(rec, now + 1)
  BY DEF Honest

\* A step of one asker: its record becomes rec, and the others keep theirs.
LEMMA OneAsks ==
    ASSUME HealthInv, NEW a \in Askers, NEW rec, Move(a, rec), hour' = hour,
           rec \in AskerType,
           Honest(rec, hour)
    PROVE  AskersTyped' /\ \A b \in Askers : Honest(asker'[b], hour)
  <1>1. asker' = [asker EXCEPT ![a] = rec] /\ AskersTyped
      BY DEF Move, HealthInv
  <1>2. AskersTyped' /\ asker'[a] = rec /\ \A b \in Askers \ {a} : asker'[b] = asker[b]
      BY <1>1 DEF AskersTyped
  <1>3. \A b \in Askers \ {a} : Honest(asker'[b], hour)
      BY <1>2 DEF HealthInv, Honest
  <1> QED
      BY <1>2, <1>3

LEMMA NotAskingIs ==
    /\ NotAsking.pc = "idle" /\ NotAsking.spawned = -1
    /\ NotAsking \in AskerType
  BY DEF NotAsking, AskPlaces, AskerType

LEMMA HealthStarts == OllamaInit => HealthInv
  <1> SUFFICES ASSUME OllamaInit PROVE HealthInv
      OBVIOUS
  <1>1. hour = 0 /\ asker = [a \in Askers |-> NotAsking]
      BY DEF OllamaInit
  <1>2. AskersTyped
      BY <1>1, NotAskingIs DEF AskersTyped
  <1>3. \A a \in Askers : asker[a].pc = "idle" /\ asker[a].spawned = -1
      BY <1>1, NotAskingIs
  <1>4. \A a \in Askers : Honest(asker[a], hour)
      BY <1>1, <1>3 DEF Honest
  <1>5. CacheHonest
    <2>1. healthCache = NoCheck
        BY DEF OllamaInit
    <2>2. NoCheck.at = 0 /\ NoCheck.seen = 0 /\ NoCheck.of = "" /\ NoCheck.model = ""
        BY DEF NoCheck
    <2>3. /\ healthCache.at = 0 /\ healthCache.seen = 0
          /\ healthCache.of = healthCache.model
        BY <2>1, <2>2
    <2> QED
        BY <2>3 DEF CacheHonest
  <1>6. answer.of = "" /\ answer.spawned = -1
      BY DEF OllamaInit, NoAnswer
  <1> QED
      BY <1>1, <1>2, <1>4, <1>5, <1>6 DEF HealthInv, AnswersHonest, AnswerRecent, StartedMeansProbed

LEMMA AskStep ==
    ASSUME HealthInv, NEW a \in Askers, NEW m \in Models, AskEnsure(a, m) \/ AskStatus(a, m)
    PROVE  HealthInv'
  <1>1. PICK pc \in {"list", "look"} : Move(a, [NotAsking EXCEPT !.pc = pc, !.model = m])
      BY DEF AskEnsure, AskStatus
  <1>2. UNCHANGED <<hour, healthCache, answer>>
      BY DEF AskEnsure, AskStatus
  <1> DEFINE rec == [NotAsking EXCEPT !.pc = pc, !.model = m]
  <1>3. /\ rec.pc \in {"list", "look"} /\ rec.spawned = -1
        /\ rec \in AskerType
      BY DEF NotAsking, AskPlaces, AskerType
  <1> HIDE DEF rec
  <1>h. hour \in Nat /\ hour' = hour
      BY <1>2 DEF HealthInv
  <1>p. rec.pc \in {"list", "look"} /\ rec.spawned = -1
      BY <1>3
  <1>4. Honest(rec, hour)
      BY <1>h, <1>p, UnspawnedIsHonest
  <1>5. AskersTyped' /\ \A b \in Askers : Honest(asker'[b], hour)
      BY <1>1, <1>2, <1>3, <1>4, OneAsks DEF rec
  <1> QED
      BY <1>2, <1>5 DEF HealthInv, CacheHonest, AnswersHonest, AnswerRecent, StartedMeansProbed

\* The asker goes on, and nobody is answered.
LEMMA TurnStep ==
    ASSUME HealthInv, NEW a \in Askers, NEW pc \in AskPlaces, Turns(a, pc),
           UNCHANGED <<hour, healthCache, answer>>,
           asker[a].pc \in {"list", "pull"}, pc \in {"spawn", "look", "pull"}
    PROVE  HealthInv'
  <1> DEFINE rec == [asker[a] EXCEPT !.pc = pc]
  <1>1. asker[a] \in AskerType
        /\ asker[a].spawned = -1
      BY DEF HealthInv, AskersTyped, Honest
  <1>2. /\ rec.pc = pc /\ rec.spawned = -1
        /\ rec \in AskerType
      BY <1>1 DEF AskerType
  <1>3. Move(a, rec)
      BY DEF Turns
  <1> HIDE DEF rec
  <1>4. Honest(rec, hour)
      BY <1>2 DEF Honest, HealthInv
  <1>5. AskersTyped' /\ \A b \in Askers : Honest(asker'[b], hour)
      BY <1>2, <1>3, <1>4, OneAsks
  <1> QED
      BY <1>5 DEF HealthInv, CacheHonest, AnswersHonest, AnswerRecent, StartedMeansProbed

\* The asker is answered, and what it is told is honest.
LEMMA AnswerStep ==
    ASSUME HealthInv, NEW a \in Askers, NEW ok, NEW probed, NEW seen, NEW of,
           Answers(a, ok, probed, seen, of), hour' = hour, CacheHonest',
           of # "" /\ ~probed => of = asker[a].model /\ hour - seen < CacheTTL,
           asker[a].spawned # -1 /\ ok => probed /\ seen >= asker[a].spawned
    PROVE  HealthInv'
  <1>1. hour \in Nat
      BY DEF HealthInv
  <1>p. NotAsking.pc = "idle" /\ NotAsking.spawned = -1
      BY NotAskingIs
  <1>2. Honest(NotAsking, hour)
      BY <1>1, <1>p, UnspawnedIsHonest
  <1>3. AskersTyped' /\ \A b \in Askers : Honest(asker'[b], hour)
      BY <1>2, NotAskingIs, OneAsks DEF Answers
  <1>4. AnswersHonest'
      BY DEF Answers, AnswersHonest, AnswerRecent, StartedMeansProbed
  <1> QED
      BY <1>3, <1>4 DEF HealthInv

LEMMA LookUpStep ==
    ASSUME HealthInv, NEW a \in Askers, LookUp(a)
    PROVE  HealthInv'
  <1>0. asker[a].pc = "look" /\ UNCHANGED <<hour, healthCache>> /\ CacheHonest'
      BY DEF LookUp, HealthInv, CacheHonest
  <1>1. CASE ~asker[a].force /\ Fresh(asker[a].model, hour)
    <2>1. Answers(a, healthCache.ok, FALSE, healthCache.seen, healthCache.of)
        BY <1>1 DEF LookUp
    <2>2. healthCache.of = asker[a].model /\ hour - healthCache.seen < CacheTTL
        BY <1>1, TTLAssumption DEF Fresh, HealthInv, CacheHonest
    <2>3. asker[a].spawned = -1
        BY <1>0, <1>1 DEF HealthInv, Honest
    <2> QED
        BY <1>0, <2>1, <2>2, <2>3, AnswerStep
  <1>2. CASE asker[a].force \/ ~Fresh(asker[a].model, hour)
    <2> DEFINE rec == [asker[a] EXCEPT !.pc = "probe", !.at = hour]
    <2>1. Move(a, rec) /\ UNCHANGED answer
        BY <1>2 DEF LookUp
    <2>2. /\ rec.pc = "probe" /\ rec.at = hour /\ rec.spawned = asker[a].spawned
          /\ rec \in AskerType
        BY DEF HealthInv, AskersTyped, AskPlaces, AskerType
    <2> HIDE DEF rec
    <2>h. hour \in Nat /\ asker[a].spawned <= hour /\ (asker[a].spawned # -1 => asker[a].spawned \in Nat)
        BY DEF HealthInv, AskersTyped, AskerType, Honest
    <2>p. rec.pc = "probe" /\ rec.at = hour /\ rec.spawned = asker[a].spawned
        BY <2>2
    <2>3. Honest(rec, hour)
        BY <2>p, <2>h DEF Honest
    <2>4. AskersTyped' /\ \A b \in Askers : Honest(asker'[b], hour)
        BY <1>0, <2>1, <2>2, <2>3, OneAsks
    <2> QED
        BY <1>0, <2>1, <2>4 DEF HealthInv, AnswersHonest, AnswerRecent, StartedMeansProbed
  <1> QED
      BY <1>1, <1>2

LEMMA ProbeStep ==
    ASSUME HealthInv, NEW a \in Askers, Probe(a)
    PROVE  HealthInv'
  <1> DEFINE rec == [asker[a] EXCEPT !.pc = "store", !.seen = hour,
                                     !.ok = server = "up" /\ asker[a].model \in able]
  <1>0. asker[a].pc = "probe" /\ UNCHANGED <<hour, healthCache, answer>> /\ Move(a, rec)
      BY DEF Probe
  <1>1. asker[a] \in AskerType
        /\ Honest(asker[a], hour) /\ hour \in Nat
      BY DEF HealthInv, AskersTyped
  <1>2. /\ rec.pc = "store" /\ rec.seen = hour /\ rec.at = asker[a].at
        /\ rec.spawned = asker[a].spawned
        /\ rec \in AskerType
      BY <1>1 DEF AskPlaces, AskerType
  <1> HIDE DEF rec
  <1>3. Honest(rec, hour)
      BY <1>0, <1>1, <1>2 DEF Honest
  <1>4. AskersTyped' /\ \A b \in Askers : Honest(asker'[b], hour)
      BY <1>0, <1>2, <1>3, OneAsks
  <1> QED
      BY <1>0, <1>4 DEF HealthInv, CacheHonest, AnswersHonest, AnswerRecent, StartedMeansProbed

LEMMA StoreStep ==
    ASSUME HealthInv, NEW a \in Askers, StoreHealth(a)
    PROVE  HealthInv'
  <1>1. /\ asker[a].at \in Nat /\ asker[a].seen \in Nat /\ asker[a].at <= asker[a].seen
        /\ asker[a].spawned <= asker[a].seen /\ asker[a].spawned \in Nat \cup {-1}
      BY DEF StoreHealth, HealthInv, AskersTyped, AskerType, Honest
  <1>2. CacheHonest'
      BY <1>1 DEF StoreHealth, EntryOf, CacheHonest
  <1>3. Answers(a, asker[a].ok, TRUE, asker[a].seen, asker[a].model) /\ hour' = hour
      BY DEF StoreHealth
  <1>4. asker[a].seen >= asker[a].spawned
      BY <1>1
  <1> QED
      BY <1>2, <1>3, <1>4, AnswerStep

LEMMA SpawnStep ==
    ASSUME HealthInv, NEW a \in Askers, Spawn(a) \/ Relist(a)
    PROVE  HealthInv'
  <1> DEFINE started == [asker[a] EXCEPT !.pc = "relist", !.spawned = hour]
             listed == [asker[a] EXCEPT !.pc = "look", !.force = TRUE]
  <1>0. UNCHANGED <<hour, healthCache>> /\ CacheHonest'
      BY DEF Spawn, Relist, HealthInv, CacheHonest
  <1>1. CASE Answers(a, FALSE, FALSE, hour, "")
      BY <1>0, <1>1, AnswerStep
  <1>2. CASE \E rec \in {started, listed} : Move(a, rec) /\ answer' = answer
    <2>1. PICK rec \in {started, listed} : Move(a, rec) /\ answer' = answer
        BY <1>2
    <2>2. asker[a] \in AskerType
          /\ Honest(asker[a], hour) /\ hour \in Nat
        BY DEF HealthInv, AskersTyped
    <2>h. hour \in Nat
        BY <2>2
    <2>s. asker[a].spawned <= hour
        BY <2>2 DEF Honest
    <2>t. started.spawned = hour /\ started.pc = "relist"
        BY <2>2
    <2>k. started \in AskerType
        BY <2>2 DEF AskPlaces, AskerType
    <2>l. /\ listed \in AskerType
          /\ listed.spawned = asker[a].spawned /\ listed.pc = "look" /\ listed.force = TRUE
        BY <2>2 DEF AskPlaces, AskerType
    <2> HIDE DEF started, listed
    <2>3. rec \in AskerType
        BY <2>1, <2>k, <2>l
    <2>p. rec.spawned <= hour /\ (rec.pc = "relist" \/ (rec.pc = "look" /\ rec.force = TRUE))
      <3>1. CASE rec = started
        <4>1. started.spawned <= hour /\ started.pc = "relist"
            BY <2>h, <2>t
        <4> QED
            BY <3>1, <4>1
      <3>2. CASE rec = listed
          BY <2>s, <2>l, <3>2
      <3> QED
          BY <2>1, <3>1, <3>2
    <2>4. Honest(rec, hour)
        BY <2>h, <2>p, SpawnedIsHonest
    <2>5. AskersTyped' /\ \A b \in Askers : Honest(asker'[b], hour)
        BY <1>0, <2>1, <2>3, <2>4, OneAsks
    <2> QED
        BY <1>0, <2>1, <2>5 DEF HealthInv, AnswersHonest, AnswerRecent, StartedMeansProbed
  <1> QED
      BY <1>1, <1>2 DEF Spawn, Relist

LEMMA HealthStep == HealthInv /\ [OllamaNext]_ollamaVars => HealthInv'
  <1> SUFFICES ASSUME HealthInv, [OllamaNext]_ollamaVars PROVE HealthInv'
      OBVIOUS
  <1>1. CASE UNCHANGED ollamaVars \/ Outage
      BY <1>1 DEF ollamaVars, Outage, HealthInv, AskersTyped, CacheHonest, AnswersHonest,
                  AnswerRecent, StartedMeansProbed
  <1>2. CASE HourPasses
    <2>1. hour' = hour + 1 /\ UNCHANGED <<healthCache, asker, answer>>
        BY <1>2 DEF HourPasses
    <2>2. \A a \in Askers : asker[a].at \in Nat /\ (asker[a].spawned \in Nat \/ asker[a].spawned = -1)
        BY DEF HealthInv, AskersTyped, AskerType
    <2>3. \A a \in Askers : Honest(asker[a], hour + 1)
        BY <2>2, HonestLater DEF HealthInv
    <2>4. \A a \in Askers : Honest(asker[a], hour)'
        BY <2>1, <2>3
    <2>5. hour' \in Nat /\ AskersTyped'
        BY <2>1 DEF HealthInv, AskersTyped
    <2>c. CacheHonest'
        BY <2>1 DEF HealthInv, CacheHonest
    <2>6. AnswersHonest'
        BY <2>1 DEF HealthInv, AnswersHonest, AnswerRecent, StartedMeansProbed
    <2> QED
        BY <2>4, <2>5, <2>6, <2>c DEF HealthInv
  <1>3. ASSUME NEW a \in Askers, ListModels(a) \/ Pull(a) PROVE HealthInv'
    <2>1. /\ asker[a].pc \in {"list", "pull"} /\ UNCHANGED <<hour, healthCache, answer>>
          /\ \E pc \in {"spawn", "look", "pull"} : Turns(a, pc)
        BY <1>3 DEF ListModels, Pull
    <2> QED
        BY <2>1, TurnStep DEF AskPlaces, AskerType
  <1> QED
      BY <1>1, <1>2, <1>3, AskStep, LookUpStep, ProbeStep, StoreStep, SpawnStep DEF OllamaNext

(* A health answer is about the model asked for and younger than its time   *)
(* to live, and after a start of the server it stems from a new probe: for  *)
(* any askers, models, outages and lifetime of the cache.                   *)
THEOREM AnswersHonestTheorem == OllamaSpec => []AnswersHonest
  <1>1. HealthInv => AnswersHonest
      BY DEF HealthInv
  <1> QED
      BY <1>1, HealthStarts, HealthStep, PTL DEF OllamaSpec

-----------------------------------------------------------------------------
(* The live reload.  What a page shows is at least what its watcher has     *)
(* seen, unless a reload is pending.                                        *)

ReloadInv ==
  /\ folder \in Nat
  /\ page \in [Browsers -> [pc : {"closed", "open", "busy"}, shows : Nat]]
  /\ poller \in [Browsers -> Nat \cup {-1}] /\ signal \in [Browsers -> BOOLEAN]
  /\ \A b \in Open : page[b].shows <= folder /\ poller[b] <= folder
  /\ \A b \in Open \ unseen :
       IF poller[b] = -1 THEN page[b].shows = folder
       ELSE ~signal[b] => page[b].shows >= poller[b]

LEMMA ReloadStep == ReloadInv /\ [LiveNext]_liveVars => ReloadInv'
  <1> SUFFICES ASSUME ReloadInv, [LiveNext]_liveVars PROVE ReloadInv'
      OBVIOUS
  <1> USE DEF ReloadInv, Open
  <1>1. CASE UNCHANGED liveVars
      BY <1>1 DEF liveVars
  <1>2. CASE SaveFile
      BY <1>2 DEF SaveFile
  <1>3. ASSUME NEW b \in Browsers, LoadPage(b) PROVE ReloadInv'
      BY <1>3 DEF LoadPage
  <1>4. ASSUME NEW b \in Browsers, FirstFingerprint(b) PROVE ReloadInv'
      BY <1>4 DEF FirstFingerprint
  <1>5. ASSUME NEW b \in Browsers, Poll(b) PROVE ReloadInv'
      BY <1>5 DEF Poll
  <1>6. ASSUME NEW b \in Browsers, WriteReload(b) PROVE ReloadInv'
      BY <1>6 DEF WriteReload
  <1>7. ASSUME NEW b \in Browsers, FlushReload(b) PROVE ReloadInv'
      BY <1>7 DEF FlushReload
  <1> QED
      BY <1>1, <1>2, <1>3, <1>4, <1>5, <1>6, <1>7 DEF LiveNext

(* For any browsers and changes: a page whose watcher has seen the folder   *)
(* as it is and that has no reload pending shows it, unless a change fell   *)
(* between its load and the first fingerprint.                              *)
THEOREM PageIsFreshTheorem == LiveSpec => []PageIsFresh
  <1>1. LiveInit => ReloadInv
      BY DEF LiveInit, ReloadInv, Open
  <1>2. ReloadInv => PageIsFresh
      BY DEF ReloadInv, PageIsFresh, Open
  <1> QED
      BY <1>1, <1>2, ReloadStep, PTL DEF LiveSpec

-----------------------------------------------------------------------------
(* The rules that decisions teach.  DecisionsToPriorityRules is a loop, a   *)
(* recursive function here: that it has a value, and what it has made of    *)
(* the first n decisions, goes by induction over n.                         *)

\* What holds of 0, and of n + 1 whenever it holds of n, holds of every n.
LEMMA Counting ==
    ASSUME NEW S, 0 \in S, \A n \in Nat : n \in S => n + 1 \in S
    PROVE  Nat \subseteq S
  <1> DEFINE R == OpToRel(<, Nat)
             T == Nat \ S
  <1>1. IsWellFoundedOn(R, Nat)
      BY NatLessThanWellFounded
  <1>2. SUFFICES ASSUME T # {} PROVE FALSE
      OBVIOUS
  <1>r. \A a, b \in Nat : a < b => <<a, b>> \in R
      BY DEF OpToRel
  <1> HIDE DEF R
  <1>3. PICK x \in T : \A y \in T : ~(<<y, x>> \in R)
      BY <1>1, <1>2, WFMin
  <1>4. x \in Nat /\ x # 0 /\ x - 1 \in Nat /\ x - 1 < x
      BY <1>3
  <1>5. x - 1 \in S
      BY <1>3, <1>4, <1>r
  <1> QED
      BY <1>3, <1>4, <1>5

\* One turn of the loop over the decisions.
Turn(ds, n, rules) ==
  IF Len(rules) < MaxDecisionRules /\ Teaches(ds[n]) THEN Append(rules, RuleOf(ds[n])) ELSE rules
Loops(ds, f, n) == f = [k \in 0..n |-> IF k = 0 THEN <<>> ELSE Turn(ds, k, f[k - 1])]

\* The loop ends with a value, over any number of decisions.
LEMMA LoopExists ==
    ASSUME NEW ds
    PROVE  \A n \in Nat : \E f : Loops(ds, f, n)
  <1> DEFINE S == {n \in Nat : \E f : Loops(ds, f, n)}
  <1>1. Loops(ds, [k \in 0..0 |-> <<>>], 0)
      BY DEF Loops
  <1>2. ASSUME NEW n \in Nat, NEW f, Loops(ds, f, n) PROVE \E g : Loops(ds, g, n + 1)
    <2> DEFINE g == [k \in 0..(n + 1) |-> IF k <= n THEN f[k] ELSE Turn(ds, n + 1, f[n])]
    <2>1. \A k \in 0..n : f[k] = IF k = 0 THEN <<>> ELSE Turn(ds, k, f[k - 1])
        BY <1>2 DEF Loops
    <2>2. \A k \in 0..(n + 1) : g[k] = IF k = 0 THEN <<>> ELSE Turn(ds, k, g[k - 1])
      <3>1. ASSUME NEW k \in 0..n PROVE g[k] = f[k]
          OBVIOUS
      <3>2. g[n + 1] = Turn(ds, n + 1, f[n])
          OBVIOUS
      <3> HIDE DEF g
      <3>3. ASSUME NEW k \in 1..n PROVE g[k - 1] = f[k - 1]
          BY <3>1
      <3> QED
          BY <2>1, <3>1, <3>2, <3>3
    <2>3. Loops(ds, g, n + 1)
        BY <2>2 DEF Loops
    <2> QED
        BY <2>3
  <1>3. 0 \in S /\ \A n \in Nat : n \in S => n + 1 \in S
      BY <1>1, <1>2
  <1> HIDE DEF S
  <1>4. Nat \subseteq S
      BY <1>3, Counting
  <1> QED
      BY <1>4 DEF S

\* The rules are what the loop has made of all decisions.
LEMMA RulesAre ==
    ASSUME NEW ds, Len(ds) \in Nat
    PROVE  \E f : Loops(ds, f, Len(ds)) /\ DecisionsToPriorityRules(ds) = f[Len(ds)]
  <1> DEFINE f == CHOOSE f : Loops(ds, f, Len(ds))
  <1>1. Loops(ds, f, Len(ds))
      BY LoopExists
  <1>2. DecisionsToPriorityRules(ds) = f[Len(ds)]
      BY DEF DecisionsToPriorityRules, Loops, Turn
  <1> QED
      BY <1>1, <1>2

\* The first decision that teaches.
First(ds, i) == i \in 1..Len(ds) /\ Teaches(ds[i]) /\ \A j \in 1..(i - 1) : ~Teaches(ds[j])

\* What the loop has made of the first n decisions.
Made(ds, r, n) ==
  /\ r \in Seq({RuleOf(ds[j]) : j \in 1..Len(ds)})
  /\ \A i \in 1..Len(r) : \E j \in 1..Len(ds) : Teaches(ds[j]) /\ r[i] = RuleOf(ds[j])
  /\ Len(r) = 0 => \A j \in 1..n : ~Teaches(ds[j])
  /\ \A i : First(ds, i) /\ Len(r) >= 1 => r[1] = RuleOf(ds[i])

(* Each rule stems from a decision that teaches, and the first one from the *)
(* first decision that does.                                                *)
LEMMA LearnedRulesAre ==
    ASSUME NEW ds, Len(ds) \in Nat, NEW rules, rules = DecisionsToPriorityRules(ds)
    PROVE  /\ rules \in Seq({RuleOf(ds[j]) : j \in 1..Len(ds)})
           /\ \A i \in 1..Len(rules) :
                \E j \in 1..Len(ds) : Teaches(ds[j]) /\ rules[i] = RuleOf(ds[j])
           /\ \A i : First(ds, i) => Len(rules) >= 1 /\ rules[1] = RuleOf(ds[i])
  <1> DEFINE All == {RuleOf(ds[j]) : j \in 1..Len(ds)}
  <1>1. PICK f : Loops(ds, f, Len(ds)) /\ rules = f[Len(ds)]
      BY RulesAre
  <1>2. \A k \in 0..Len(ds) : f[k] = IF k = 0 THEN <<>> ELSE Turn(ds, k, f[k - 1])
      BY <1>1 DEF Loops
  <1> DEFINE S == {n \in Nat : n <= Len(ds) => Made(ds, f[n], n)}
  <1>3. 0 \in S
    <2>1. f[0] = <<>>
        BY <1>2
    <2>2. Made(ds, <<>>, 0)
        BY DEF Made
    <2> QED
        BY <2>1, <2>2
  <1>4. ASSUME NEW n \in Nat, n \in S, n + 1 <= Len(ds) PROVE Made(ds, f[n + 1], n + 1)
    <2>1. Made(ds, f[n], n)
        BY <1>4
    <2>2. f[n + 1] = Turn(ds, n + 1, f[n])
        BY <1>2, <1>4
    <2>3. CASE ~(Len(f[n]) < MaxDecisionRules /\ Teaches(ds[n + 1]))
      <3>1. f[n + 1] = f[n]
          BY <2>2, <2>3 DEF Turn
      <3>2. Len(f[n]) = 0 => ~Teaches(ds[n + 1])
          BY <2>1, <2>3, RulesAssumption DEF Made
      <3> QED
          BY <2>1, <3>1, <3>2 DEF Made
    <2>4. CASE Len(f[n]) < MaxDecisionRules /\ Teaches(ds[n + 1])
      <3> DEFINE r == f[n]
                 s == f[n + 1]
      <3>1. s = Append(r, RuleOf(ds[n + 1]))
          BY <2>2, <2>4 DEF Turn
      <3>2. n + 1 \in 1..Len(ds) /\ RuleOf(ds[n + 1]) \in All
          BY <1>4
      <3>a. r \in Seq(All)
          BY <2>1 DEF Made
      <3> HIDE DEF r, s, All
      <3>3. /\ s \in Seq(All) /\ Len(s) = Len(r) + 1 /\ s[Len(r) + 1] = RuleOf(ds[n + 1])
            /\ Len(r) \in Nat /\ \A i \in 1..Len(r) : s[i] = r[i]
          BY <3>1, <3>2, <3>a
      <3>4. \A i \in 1..Len(s) : \E j \in 1..Len(ds) : Teaches(ds[j]) /\ s[i] = RuleOf(ds[j])
        <4> TAKE i \in 1..Len(s)
        <4>1. CASE i \in 1..Len(r)
            BY <2>1, <3>3, <4>1 DEF r, Made
        <4>2. CASE i = Len(r) + 1
            BY <2>4, <3>2, <3>3, <4>2
        <4> QED
            BY <3>3, <4>1, <4>2
      <3>5. ASSUME NEW i, First(ds, i) PROVE s[1] = RuleOf(ds[i])
        <4>1. CASE Len(r) = 0
          <5>1. \A j \in 1..n : ~Teaches(ds[j])
              BY <2>1, <4>1 DEF r, Made
          <5>2. i = n + 1
              BY <2>4, <3>2, <3>5, <5>1 DEF First
          <5> QED
              BY <3>3, <4>1, <5>2
        <4>2. CASE Len(r) >= 1
            BY <2>1, <3>3, <3>5, <4>2 DEF r, Made
        <4> QED
            BY <3>3, <4>1, <4>2
      <3> QED
          BY <3>3, <3>4, <3>5 DEF s, All, Made
    <2> QED
        BY <2>3, <2>4
  <1>5. \A n \in Nat : n \in S => n + 1 \in S
      BY <1>4
  <1>6. Made(ds, rules, Len(ds))
    <2> HIDE DEF S
    <2>1. Len(ds) \in S
        BY <1>3, <1>5, Counting
    <2> QED
        BY <1>1, <2>1 DEF S
  <1>7. ASSUME NEW i, First(ds, i) PROVE Len(rules) >= 1 /\ rules[1] = RuleOf(ds[i])
    <2>1. Len(rules) \in Nat /\ Len(rules) # 0
        BY <1>6, <1>7 DEF First, Made
    <2> QED
        BY <1>6, <1>7, <2>1 DEF Made
  <1> QED
      BY <1>6, <1>7 DEF Made

Fits(pdf, rule) == rule.sub # "" /\ KeywordMatches(pdf, rule)
\* The first rule of a list that fits, or none.
FirstFit(pdf, rules, m) ==
  \/ m = NoMatch /\ \A i \in 1..Len(rules) : ~Fits(pdf, rules[i])
  \/ \E i \in 1..Len(rules) :
       m = rules[i] /\ Fits(pdf, rules[i]) /\ \A j \in 1..(i - 1) : ~Fits(pdf, rules[j])

\* A set of numbers that is not empty has a least one.
LEMMA LeastIndex ==
    ASSUME NEW I, I \subseteq Nat, I # {}
    PROVE  Min(I) \in I /\ \A i \in I : Min(I) <= i
  <1> DEFINE R == OpToRel(<, Nat)
  <1>1. IsWellFoundedOn(R, Nat)
      BY NatLessThanWellFounded
  <1>r. \A a, b \in Nat : a < b => <<a, b>> \in R
      BY DEF OpToRel
  <1> HIDE DEF R
  <1>2. PICK x \in I : \A y \in I : ~(<<y, x>> \in R)
      BY <1>1, WFMin
  <1>3. ASSUME NEW y \in I PROVE x <= y
    <2>1. x \in Nat /\ y \in Nat
        BY <1>2
    <2>2. ~(y < x)
        BY <1>2, <1>r, <2>1
    <2> QED
        BY <2>1, <2>2
  <1> QED
      BY <1>2, <1>3 DEF Min

\* The match is the first rule that fits, and there is only one such.
LEMMA MatchIsFirstFit ==
    ASSUME NEW pdf, NEW rules, Len(rules) \in Nat
    PROVE  FirstFit(pdf, rules, MatchPriorityRules(pdf, rules))
  <1> DEFINE I == {i \in 1..Len(rules) : Fits(pdf, rules[i])}
             first == IF I # {} THEN Min(I) ELSE 0
  <1>1. MatchPriorityRules(pdf, rules) = IF first = 0 THEN NoMatch ELSE rules[first]
      BY DEF MatchPriorityRules, SelectInSeq, Fits
  <1>2. CASE I = {}
      BY <1>1, <1>2 DEF FirstFit
  <1>3. CASE I # {}
    <2>0. I \subseteq Nat
        OBVIOUS
    <2>1. first = Min(I) /\ first \in I /\ \A i \in I : first <= i
      <3> HIDE DEF I
      <3> QED
          BY <1>3, <2>0, LeastIndex
    <2>2. first \in 1..Len(rules) /\ Fits(pdf, rules[first]) /\ \A j \in 1..(first - 1) : ~Fits(pdf, rules[j])
      <3> HIDE DEF first
      <3>1. first \in 1..Len(rules) /\ Fits(pdf, rules[first])
          BY <2>1
      <3>2. ASSUME NEW j \in 1..(first - 1) PROVE ~Fits(pdf, rules[j])
        <4>1. j \in 1..Len(rules) /\ ~(first <= j)
            BY <3>1
        <4> QED
            BY <2>1, <4>1
      <3> QED
          BY <3>1, <3>2
    <2> HIDE DEF first
    <2> QED
        BY <1>1, <2>2 DEF FirstFit
  <1> QED
      BY <1>2, <1>3

LEMMA FitIsNoNoMatch ==
    ASSUME NEW pdf, NEW rule, Fits(pdf, rule)
    PROVE  rule # NoMatch
  <1>1. NoMatch.sub = ""
      BY DEF NoMatch
  <1> QED
      BY <1>1 DEF Fits

LEMMA FirstFitIsOne ==
    ASSUME NEW pdf, NEW rules, Len(rules) \in Nat, NEW m, NEW l,
           FirstFit(pdf, rules, m), FirstFit(pdf, rules, l)
    PROVE  m = l
  BY DEF FirstFit

\* The rules of the overlay come first.
\* A list in front of another is looked through first.
LEMMA OverlayFirst ==
    ASSUME NEW pdf, NEW S, NEW o \in Seq(S), NEW learned \in Seq(S)
    PROVE  MatchPriorityRules(pdf, o \o learned) =
             IF MatchPriorityRules(pdf, o) # NoMatch THEN MatchPriorityRules(pdf, o)
             ELSE MatchPriorityRules(pdf, learned)
  <1> DEFINE all == o \o learned
             m == MatchPriorityRules(pdf, o)
             l == MatchPriorityRules(pdf, learned)
  <1>1. /\ Len(all) = Len(o) + Len(learned) /\ Len(o) \in Nat /\ Len(learned) \in Nat
        /\ \A i \in 1..Len(o) : all[i] = o[i]
        /\ \A i \in 1..Len(learned) : all[Len(o) + i] = learned[i]
        /\ \A i \in 1..Len(all) : i \in 1..Len(o) \/ (i - Len(o) \in 1..Len(learned) /\ i = Len(o) + (i - Len(o)))
      OBVIOUS
  <1>2. FirstFit(pdf, o, m) /\ FirstFit(pdf, learned, l)
      BY <1>1, MatchIsFirstFit
  <1>3. FirstFit(pdf, all, MatchPriorityRules(pdf, all))
      BY <1>1, MatchIsFirstFit
  <1> HIDE DEF all, m, l
  <1>4. FirstFit(pdf, all, IF m # NoMatch THEN m ELSE l)
    <2>1. CASE m # NoMatch
      <3>1. PICK i \in 1..Len(o) : m = o[i] /\ Fits(pdf, o[i]) /\ \A j \in 1..(i - 1) : ~Fits(pdf, o[j])
          BY <1>2, <2>1 DEF FirstFit
      <3>2. /\ i \in 1..Len(all) /\ m = all[i] /\ Fits(pdf, all[i])
            /\ \A j \in 1..(i - 1) : ~Fits(pdf, all[j])
          BY <1>1, <3>1
      <3> QED
          BY <2>1, <3>2 DEF FirstFit
    <2>2. CASE m = NoMatch
      <3>1. \A i \in 1..Len(o) : ~Fits(pdf, all[i])
          BY <1>1, <1>2, <2>2, FitIsNoNoMatch DEF FirstFit
      <3>2. CASE l = NoMatch
        <4>1. \A i \in 1..Len(learned) : ~Fits(pdf, learned[i])
            BY <1>2, <3>2, FitIsNoNoMatch DEF FirstFit
        <4>2. \A i \in 1..Len(all) : ~Fits(pdf, all[i])
            BY <1>1, <3>1, <4>1
        <4> QED
            BY <2>2, <3>2, <4>2 DEF FirstFit
      <3>3. CASE l # NoMatch
        <4>1. PICK i \in 1..Len(learned) :
                l = learned[i] /\ Fits(pdf, learned[i]) /\ \A j \in 1..(i - 1) : ~Fits(pdf, learned[j])
            BY <1>2, <3>3 DEF FirstFit
        <4> DEFINE k == Len(o) + i
        <4>2. k \in 1..Len(all) /\ l = all[k] /\ Fits(pdf, all[k])
            BY <1>1, <4>1
        <4>3. ASSUME NEW j \in 1..(k - 1) PROVE ~Fits(pdf, all[j])
          <5>1. CASE j \in 1..Len(o)
              BY <3>1, <5>1
          <5>2. CASE j \notin 1..Len(o)
            <6>1. j - Len(o) \in 1..(i - 1) /\ j - Len(o) \in 1..Len(learned)
                  /\ Len(o) + (j - Len(o)) = j
                BY <1>1, <4>1, <5>2
            <6> QED
                BY <1>1, <4>1, <6>1
          <5> QED
              BY <5>1, <5>2
        <4> HIDE DEF k
        <4> QED
            BY <2>2, <4>2, <4>3 DEF FirstFit
      <3> QED
          BY <3>2, <3>3
    <2> QED
        BY <2>1, <2>2
  <1>5. MatchPriorityRules(pdf, all) = IF m # NoMatch THEN m ELSE l
      BY <1>1, <1>3, <1>4, FirstFitIsOne
  <1> QED
      BY <1>5 DEF all, m, l

\* What is learned applies to file names only.
LEMMA LearnedFits ==
    ASSUME NEW pdf, NEW d, Fits(pdf, RuleOf(d)), Teaches(d)
    PROVE  /\ ToSet(KeywordsOf(d)) \cap ToSet(pdf.name) # {}
           /\ RuleOf(d).cat = d.cat /\ RuleOf(d).sub = d.sub /\ d.sub \notin {"", "general"}
  <1>1. /\ RuleOf(d).cat = d.cat /\ RuleOf(d).sub = d.sub
        /\ RuleOf(d).keywords = ToSet(KeywordsOf(d)) /\ RuleOf(d).scope = "filename"
      BY DEF RuleOf, RuleFor
  <1>2. d.sub # "" /\ KeywordMatches(pdf, RuleOf(d))
      BY <1>1 DEF Fits
  <1>3. d.sub # "general"
      BY <1>2 DEF Teaches, IsForbiddenSubcategory
  <1> QED
      BY <1>1, <1>2, <1>3 DEF KeywordMatches

\* A sequence over a set is one over any larger set.
LEMMA SeqOfMore ==
    ASSUME NEW S, NEW T, NEW s \in Seq(S)
    PROVE  s \in Seq(S \cup T) /\ s \in Seq(T \cup S)
  OBVIOUS

Learned == DecisionsToPriorityRules(lessons)
Match == MatchPriorityRules(outcome, PriorityRules(overlay, lessons))
OverlayMatch == MatchPriorityRules(outcome, overlay)

LessonsListed == (\E S : overlay \in Seq(S)) /\ (\E S : lessons \in Seq(S))

\* What matches is a rule of the overlay or else of a decision, the newest first.
LEMMA MatchIs ==
    ASSUME LessonsListed
    PROVE  /\ OverlayMatch # NoMatch => Match = OverlayMatch
           /\ OverlayMatch = NoMatch /\ Match # NoMatch =>
                \E j \in 1..Len(lessons) :
                  Teaches(lessons[j]) /\ Match = RuleOf(lessons[j]) /\ Fits(outcome, Match)
           /\ \A i : OverlayMatch = NoMatch /\ First(lessons, i) /\ Fits(outcome, RuleOf(lessons[i]))
                    => Match = RuleOf(lessons[i])
  <1>1. PICK S, T : overlay \in Seq(S) /\ lessons \in Seq(T)
      BY DEF LessonsListed
  <1> DEFINE rules == Learned
             All == {RuleOf(lessons[j]) : j \in 1..Len(lessons)}
             l == MatchPriorityRules(outcome, rules)
  <1>2. Len(lessons) \in Nat
      BY <1>1
  <1>3. /\ rules \in Seq(All)
        /\ \A i \in 1..Len(rules) :
             \E j \in 1..Len(lessons) : Teaches(lessons[j]) /\ rules[i] = RuleOf(lessons[j])
        /\ \A i : First(lessons, i) => Len(rules) >= 1 /\ rules[1] = RuleOf(lessons[i])
      BY <1>2, LearnedRulesAre DEF Learned
  <1> HIDE DEF rules, All
  <1>4. overlay \in Seq(S \cup All) /\ rules \in Seq(S \cup All)
      BY <1>1, <1>3, SeqOfMore
  <1>5. Match = IF OverlayMatch # NoMatch THEN OverlayMatch ELSE l
      BY <1>4, OverlayFirst DEF Match, OverlayMatch, PriorityRules, Learned, rules
  <1>6. Len(rules) \in Nat /\ FirstFit(outcome, rules, l)
      BY <1>3, MatchIsFirstFit
  <1> HIDE DEF l
  <1>7. l # NoMatch =>
          \E j \in 1..Len(lessons) :
            Teaches(lessons[j]) /\ l = RuleOf(lessons[j]) /\ Fits(outcome, l)
      BY <1>3, <1>6 DEF FirstFit
  <1>8. ASSUME NEW i, First(lessons, i), Fits(outcome, RuleOf(lessons[i]))
        PROVE  l = RuleOf(lessons[i])
    <2>1. 1 \in 1..Len(rules) /\ Fits(outcome, rules[1]) /\ rules[1] = RuleOf(lessons[i])
        BY <1>3, <1>6, <1>8
    <2> QED
        BY <1>6, <2>1 DEF FirstFit
  <1> QED
      BY <1>5, <1>7, <1>8

-----------------------------------------------------------------------------
(* The classifier, as far as the rules decide.                              *)

\* Without rules nothing matches.
LEMMA Unruled ==
    ASSUME NEW pdf
    PROVE  MatchPriorityRules(pdf, <<>>) = NoMatch
  <1>1. Len(<<>>) = 0
      OBVIOUS
  <1>2. FirstFit(pdf, <<>>, MatchPriorityRules(pdf, <<>>))
      BY <1>1, MatchIsFirstFit
  <1> QED
      BY <1>1, <1>2 DEF FirstFit

LEMMA NoMatchIs == NoMatch.cat = "" /\ NoMatch.sub = ""
  BY DEF NoMatch

\* A rule that names a subcategory is obeyed where nothing anchors the document.
LEMMA Obeyed ==
    ASSUME NEW pdf, NEW rules, NEW m, m = MatchPriorityRules(pdf, rules),
           m # NoMatch, m.sub # "general", pdf.signs \cap Anchors = {}
    PROVE  RuleBasedClassify(pdf, rules).cat = m.cat /\ RuleBasedClassify(pdf, rules).sub = m.sub
  <1>1. ~Anchored(pdf, m)
      BY DEF Anchored, LooksLikeBankStatement, Anchors
  <1>2. Decided(pdf, m) = [cat |-> m.cat, sub |-> m.sub]
      BY <1>1 DEF Decided
  <1> QED
      BY <1>2 DEF RuleBasedClassify

\* A statement is filed under bank, whatever a rule with a subcategory says.
LEMMA StatementDecided ==
    ASSUME NEW pdf, NEW rules, NEW m, m = MatchPriorityRules(pdf, rules),
           m.sub # "general", "statement" \in pdf.signs
    PROVE  RuleBasedClassify(pdf, rules).cat = "bank"
  <1>1. LooksLikeBankStatement(pdf, m)
      BY DEF LooksLikeBankStatement
  <1>2. CASE m # NoMatch /\ ~Anchored(pdf, m)
    <2>1. m.cat = "bank"
        BY <1>1, <1>2 DEF Anchored
    <2>2. Decided(pdf, m) = [cat |-> m.cat, sub |-> m.sub]
        BY <1>2 DEF Decided
    <2> QED
        BY <2>1, <2>2 DEF RuleBasedClassify
  <1>3. CASE ~(m # NoMatch /\ ~Anchored(pdf, m))
    <2>1. Decided(pdf, m) = [cat |-> "bank", sub |-> "named"]
        BY <1>1, <1>3 DEF Decided
    <2> QED
        BY <2>1 DEF RuleBasedClassify
  <1> QED
      BY <1>2, <1>3

\* A rule for anything but bank does not move an anchored document.
LEMMA AnchoredDecided ==
    ASSUME NEW pdf, NEW rules, NEW m, m = MatchPriorityRules(pdf, rules),
           Anchored(pdf, m), m.cat # "bank"
    PROVE  RuleBasedClassify(pdf, rules) = RuleBasedClassify(pdf, <<>>)
  <1>1. LooksLikeBankStatement(pdf, m) <=> "statement" \in pdf.signs
      BY DEF LooksLikeBankStatement
  <1>2. LooksLikeBankStatement(pdf, NoMatch) <=> "statement" \in pdf.signs
      BY NoMatchIs DEF LooksLikeBankStatement
  <1>3. Decided(pdf, m) = Decided(pdf, NoMatch)
      BY <1>1, <1>2 DEF Decided
  <1> QED
      BY <1>3, Unruled DEF RuleBasedClassify

\* Two lists of rules with the same match decide alike.
LEMMA SameMatch ==
    ASSUME NEW pdf, NEW rules, NEW others, MatchPriorityRules(pdf, rules) = MatchPriorityRules(pdf, others)
    PROVE  RuleBasedClassify(pdf, rules) = RuleBasedClassify(pdf, others)
  BY DEF RuleBasedClassify

IsPair(r) == r = [cat |-> r.cat, sub |-> r.sub]

\* The classifier answers a category and a subcategory.
LEMMA ResultIsPair ==
    ASSUME NEW pdf, NEW rules
    PROVE  IsPair(RuleBasedClassify(pdf, rules))
  <1> DEFINE m == MatchPriorityRules(pdf, rules)
             r == Decided(pdf, m)
  <1>1. IsPair(ByBranch(pdf))
      BY DEF ByBranch, IsPair
  <1>2. IsPair(r)
      BY <1>1 DEF Decided, IsPair
  <1> HIDE DEF r
  <1>3. IsPair(ByFallback(pdf, r))
      BY <1>2 DEF ByFallback, IsPair
  <1> QED
      BY <1>2, <1>3 DEF RuleBasedClassify, r

\* Only the name, the text and the signs of a document decide.
LEMMA SameDocument ==
    ASSUME NEW pdf, NEW e, NEW rules, Len(rules) \in Nat,
           pdf.name = e.name, pdf.text = e.text, pdf.signs = e.signs
    PROVE  RuleBasedClassify(pdf, rules) = RuleBasedClassify(e, rules)
  <1>1. \A rule : Fits(pdf, rule) <=> Fits(e, rule)
      BY DEF Fits, KeywordMatches
  <1>2. MatchPriorityRules(pdf, rules) = MatchPriorityRules(e, rules)
    <2>1. FirstFit(pdf, rules, MatchPriorityRules(pdf, rules))
          /\ FirstFit(e, rules, MatchPriorityRules(e, rules))
        BY MatchIsFirstFit
    <2>2. FirstFit(pdf, rules, MatchPriorityRules(e, rules))
        BY <1>1, <2>1 DEF FirstFit
    <2> QED
        BY <2>1, <2>2, FirstFitIsOne
  <1>3. \A list : FirstOf(list, pdf) = FirstOf(list, e)
      BY DEF FirstOf, SelectInSeq
  <1>4. ByBranch(pdf) = ByBranch(e)
      BY <1>3 DEF ByBranch
  <1>5. \A m : Decided(pdf, m) = Decided(e, m)
      BY <1>4 DEF Decided, Anchored, LooksLikeBankStatement
  <1>6. \A r : ByFallback(pdf, r) = ByFallback(e, r)
      BY <1>3 DEF ByFallback
  <1> QED
      BY <1>2, <1>5, <1>6 DEF RuleBasedClassify

-----------------------------------------------------------------------------
(* What was judged was judged by the rules there are: nobody teaches while  *)
(* a document is being looked at.                                           *)

Result == [cat |-> outcome.cat, sub |-> outcome.sub]
Rules == PriorityRules(overlay, lessons)

LearnInv == LessonsListed /\ (Judged => Result = RuleBasedClassify(outcome, Rules))

LEMMA LearnStarts == LearnInit => LearnInv
  <1> SUFFICES ASSUME LearnInit PROVE LearnInv
      OBVIOUS
  <1>1. overlay \in Seq({}) /\ lessons \in Seq({}) /\ ~Judged
      BY DEF LearnInit, Judged
  <1> QED
      BY <1>1 DEF LearnInv, LessonsListed

\* Every step leaves lists.
LEMMA ListStep == LearnInv /\ LearnNext => LessonsListed'
  <1> SUFFICES ASSUME LearnInv, LearnNext PROVE LessonsListed'
      OBVIOUS
  <1>0. PICK S, T : overlay \in Seq(S) /\ lessons \in Seq(T)
      BY DEF LearnInv, LessonsListed
  <1>1. CASE UNCHANGED <<overlay, lessons>>
      BY <1>0, <1>1 DEF LessonsListed
  <1>2. ASSUME NEW x, lessons' = <<x>> \o lessons, UNCHANGED overlay PROVE LessonsListed'
    <2>1. lessons' \in Seq(T \cup {x})
        BY <1>0, <1>2, SeqOfMore
    <2> QED
        BY <1>0, <1>2, <2>1 DEF LessonsListed
  <1>3. ASSUME NEW i \in DOMAIN lessons, NEW enabled, NEW keywords, Edit(i, enabled, keywords)
        PROVE  LessonsListed'
    <2> DEFINE x == [lessons[i] EXCEPT !.enabled = enabled, !.keywords = keywords]
    <2>1. lessons' = [lessons EXCEPT ![i] = x] /\ UNCHANGED overlay
        BY <1>3 DEF Edit
    <2> HIDE DEF x
    <2>2. lessons' \in Seq(T \cup {x})
        BY <1>0, <2>1, SeqOfMore
    <2> QED
        BY <1>0, <2>1, <2>2 DEF LessonsListed
  <1>4. ASSUME NEW i \in DOMAIN lessons, Forget(i) PROVE LessonsListed'
    <2>1. lessons' \in Seq(T) /\ UNCHANGED overlay
        BY <1>0, <1>4 DEF Forget, RemoveAt
    <2> QED
        BY <1>0, <2>1 DEF LessonsListed
  <1>5. ASSUME NEW rules \in {<<>>} \cup {<<r>> : r \in OverlayRules}, Curate(rules)
        PROVE  LessonsListed'
    <2>1. overlay' = rules /\ UNCHANGED lessons
        BY <1>5 DEF Curate
    <2>2. CASE rules = <<>>
        BY <1>0, <2>1, <2>2 DEF LessonsListed
    <2>3. ASSUME NEW r, rules = <<r>> PROVE LessonsListed'
      <3>1. overlay' \in Seq({r})
          BY <2>1, <2>3
      <3> QED
          BY <1>0, <2>1, <3>1 DEF LessonsListed
    <2> QED
        BY <1>5, <2>2, <2>3
  <1>6. ASSUME NEW n, NEW title, NEW t, Decide(n, title, t) PROVE LessonsListed'
      BY <1>2, <1>6 DEF Decide
  <1>7. ASSUME NEW pdf, Classify(pdf) PROVE LessonsListed'
      BY <1>1, <1>7 DEF Classify
  <1>8. CASE NextDocument
      BY <1>1, <1>8 DEF NextDocument
  <1> QED
      BY <1>3, <1>4, <1>5, <1>6, <1>7, <1>8 DEF LearnNext

\* The rules of overlay and decisions are a list.
LEMMA RulesListed ==
    ASSUME LessonsListed
    PROVE  Len(Rules) \in Nat /\ \E S : overlay \in Seq(S) /\ Rules \in Seq(S)
  <1>1. PICK S, T : overlay \in Seq(S) /\ lessons \in Seq(T)
      BY DEF LessonsListed
  <1>2. PICK All : Learned \in Seq(All)
    <2>1. Len(lessons) \in Nat
        BY <1>1
    <2>2. Learned \in Seq({RuleOf(lessons[j]) : j \in 1..Len(lessons)})
        BY <2>1, LearnedRulesAre DEF Learned
    <2> QED
        BY <2>2
  <1>3. overlay \in Seq(S \cup All) /\ Learned \in Seq(S \cup All)
      BY <1>1, <1>2, SeqOfMore
  <1>4. Rules \in Seq(S \cup All)
      BY <1>3 DEF Rules, PriorityRules, Learned
  <1> QED
      BY <1>3, <1>4

\* A step teaches and forgets the last answer, or answers by the rules there are.
LEMMA LearnStep == LearnInv /\ [LearnNext]_learnVars => LearnInv'
  <1> SUFFICES ASSUME LearnInv, [LearnNext]_learnVars PROVE LearnInv'
      OBVIOUS
  <1>1. CASE UNCHANGED learnVars
      BY <1>1 DEF learnVars, LearnInv, LessonsListed, Judged, Result, Rules
  <1>2. CASE LearnNext /\ outcome' = NothingFiled
      BY <1>2, ListStep DEF LearnInv, Judged
  <1>3. ASSUME NEW pdf, Classify(pdf), LearnNext PROVE LearnInv'
    <2> DEFINE r == RuleBasedClassify(pdf, Rules)
    <2>1. /\ outcome' = [name |-> pdf.name, text |-> pdf.text, signs |-> pdf.signs, cat |-> r.cat, sub |-> r.sub]
          /\ UNCHANGED <<overlay, lessons>>
        BY <1>3 DEF Classify, Rules
    <2> HIDE DEF r
    <2>2. Result' = [cat |-> r.cat, sub |-> r.sub]
        BY <2>1 DEF Result
    <2>3. Result' = r
        BY <2>2, ResultIsPair DEF IsPair, r
    <2>4. pdf.name = outcome'.name /\ pdf.text = outcome'.text /\ pdf.signs = outcome'.signs
        BY <2>1
    <2>5. Len(Rules) \in Nat
        BY RulesListed DEF LearnInv
    <2>6. r = RuleBasedClassify(outcome', Rules)
        BY <2>4, <2>5, SameDocument DEF r
    <2>7. RuleBasedClassify(outcome, Rules)' = RuleBasedClassify(outcome', Rules)
        BY <2>1 DEF Rules
    <2> QED
        BY <1>3, <2>3, <2>6, <2>7, ListStep DEF LearnInv
  <1> QED
      BY <1>1, <1>2, <1>3 DEF LearnNext, NextDocument, Decide, Edit, Forget, Curate

\* The indices of a list.
LEMMA ListDomain ==
    ASSUME NEW S, NEW s \in Seq(S)
    PROVE  DOMAIN s = 1..Len(s) /\ Len(s) \in Nat
  OBVIOUS

(* What the rules promise, for any overlay, lessons and documents, and      *)
(* lists of any length: the newest decision that teaches is obeyed, no      *)
(* decision moves a file whose name shares no word with it, the overlay     *)
(* stands before the decisions, a statement is filed under bank, and only   *)
(* bank stands before the other anchors.                                    *)
THEOREM RulesInOrderTheorem == LearnSpec => []RulesInOrder
  <1>1. ASSUME LearnInv, Judged PROVE RulesInOrder
    <2>0. LessonsListed /\ Result = RuleBasedClassify(outcome, Rules)
        BY <1>1 DEF LearnInv
    <2>1. outcome.cat = Result.cat /\ outcome.sub = Result.sub
        BY DEF Result
    <2>m. Match = MatchPriorityRules(outcome, Rules)
        BY DEF Match, Rules
    <2>2. LessonLearned
      <3> SUFFICES ASSUME NEW i \in DOMAIN lessons, overlay = <<>>, IsNewest(i),
                          lessons[i].sub # "", NamedIn(ToSet(KeywordsOf(lessons[i]))),
                          outcome.signs \cap Anchors = {}
                   PROVE  outcome.cat = lessons[i].cat /\ outcome.sub = lessons[i].sub
          BY DEF LessonLearned
      <3>1. First(lessons, i)
        <4>1. PICK S : lessons \in Seq(S)
            BY <2>0 DEF LessonsListed
        <4>2. DOMAIN lessons = 1..Len(lessons) /\ Len(lessons) \in Nat
            BY <4>1, ListDomain
        <4> QED
            BY <4>2 DEF First, IsNewest
      <3>2. OverlayMatch = NoMatch
          BY Unruled DEF OverlayMatch
      <3>3. /\ RuleOf(lessons[i]).cat = lessons[i].cat /\ RuleOf(lessons[i]).sub = lessons[i].sub
            /\ RuleOf(lessons[i]).keywords = ToSet(KeywordsOf(lessons[i]))
          BY DEF RuleOf, RuleFor
      <3>4. Fits(outcome, RuleOf(lessons[i]))
          BY <3>3 DEF Fits, KeywordMatches, NamedIn
      <3>5. Match = RuleOf(lessons[i]) /\ Match # NoMatch
          BY <2>0, <3>1, <3>2, <3>4, MatchIs, FitIsNoNoMatch
      <3>6. lessons[i].sub # "general"
          BY <3>1 DEF First, Teaches, IsForbiddenSubcategory
      <3> QED
          BY <2>0, <2>1, <2>m, <3>3, <3>5, <3>6, Obeyed
    <2>3. NoHijack
      <3> SUFFICES ASSUME \A i \in DOMAIN lessons : ~NamedIn(ToSet(KeywordsOf(lessons[i])))
                   PROVE  RuleBasedClassify(outcome, PriorityRules(overlay, <<>>)) = Result
          BY DEF NoHijack, Result
      <3>1. Match = OverlayMatch
        <4>1. CASE OverlayMatch = NoMatch
          <5>1. ASSUME Match # NoMatch PROVE FALSE
            <6>1. PICK j \in 1..Len(lessons) :
                    Teaches(lessons[j]) /\ Match = RuleOf(lessons[j]) /\ Fits(outcome, Match)
                BY <2>0, <4>1, <5>1, MatchIs
            <6>2. NamedIn(ToSet(KeywordsOf(lessons[j])))
                BY <6>1, LearnedFits DEF NamedIn
            <6> QED
                BY <2>0, <6>2 DEF LessonsListed
          <5> QED
              BY <4>1, <5>1
        <4>2. CASE OverlayMatch # NoMatch
            BY <2>0, <4>2, MatchIs
        <4> QED
            BY <4>1, <4>2
      <3>2. MatchPriorityRules(outcome, PriorityRules(overlay, <<>>)) = OverlayMatch
        <4>1. PICK S : overlay \in Seq(S)
            BY <2>0 DEF LessonsListed
        <4>2. DecisionsToPriorityRules(<<>>) = <<>>
          <5>1. PICK f : Loops(<<>>, f, 0) /\ DecisionsToPriorityRules(<<>>) = f[0]
              BY RulesAre
          <5> QED
              BY <5>1 DEF Loops
        <4>3. overlay \o <<>> = overlay
            BY <4>1
        <4> QED
            BY <4>2, <4>3 DEF PriorityRules, OverlayMatch
      <3> QED
          BY <2>0, <2>m, <3>1, <3>2, SameMatch
    <2>4. CurationWins
      <3> SUFFICES ASSUME OverlayMatch # NoMatch, OverlayMatch.sub # "general",
                          outcome.signs \cap Anchors = {}
                   PROVE  outcome.cat = OverlayMatch.cat /\ outcome.sub = OverlayMatch.sub
          BY DEF CurationWins, OverlayMatch
      <3>1. Match = OverlayMatch
          BY <2>0, MatchIs
      <3> QED
          BY <2>0, <2>1, <2>m, <3>1, Obeyed
    <2>5. StatementIsBank
      <3> SUFFICES ASSUME "statement" \in outcome.signs, OverlayMatch.sub # "general"
                   PROVE  outcome.cat = "bank"
          BY DEF StatementIsBank, OverlayMatch
      <3>1. Match.sub # "general"
        <4>1. CASE OverlayMatch # NoMatch
            BY <2>0, <4>1, MatchIs
        <4>2. CASE OverlayMatch = NoMatch /\ Match # NoMatch
          <5>1. PICK j \in 1..Len(lessons) :
                  Teaches(lessons[j]) /\ Match = RuleOf(lessons[j]) /\ Fits(outcome, Match)
              BY <2>0, <4>2, MatchIs
          <5> QED
              BY <5>1, LearnedFits
        <4>3. CASE Match = NoMatch
            BY <4>3, NoMatchIs
        <4> QED
            BY <4>1, <4>2, <4>3
      <3> QED
          BY <2>0, <2>1, <2>m, <3>1, StatementDecided
    <2>6. OnlyBankOutranks
      <3>1. ASSUME Match.cat # "bank", Anchored(outcome, Match) PROVE AsIfUntaught
          BY <2>0, <2>m, <3>1, AnchoredDecided DEF AsIfUntaught, Result
      <3>2. \A sign, cat : DisagreesWith(sign, cat) => sign \in outcome.signs /\ Match.cat # cat
          BY DEF DisagreesWith, Match
      <3>3. DisagreesWith("tax notice", "administrative") => Anchored(outcome, Match)
          BY <3>2 DEF Anchored
      <3>4. DisagreesWith("pay signs", "bulletin_salaire") => Anchored(outcome, Match)
          BY <3>2 DEF Anchored
      <3> QED
          BY <3>1, <3>3, <3>4 DEF OnlyBankOutranks, Match
    <2> QED
        BY <2>2, <2>3, <2>4, <2>5, <2>6 DEF RulesInOrder
  <1>2. ~Judged => RulesInOrder
      BY DEF RulesInOrder, LessonLearned, NoHijack, CurationWins, StatementIsBank, OnlyBankOutranks,
             DisagreesWith
  <1> QED
      BY <1>1, <1>2, LearnStarts, LearnStep, PTL DEF LearnSpec

-----------------------------------------------------------------------------
(* The events of a run.  While no two changes are sent at the same time,    *)
(* the frame on its way is the task; a page that nothing is on its way to   *)
(* has the task as its last frame, or has joined after it.                  *)

Stages == {"IDLE", "STARTING", "FILE", "COMPLETED", "FAILED"}
Frames == [live : BOOLEAN, done : Nat, percent : 0..100, stage : Stages, ver : Nat]
Places == {"quiet", "marshal", "send"}

EventTyped ==
  /\ task \in Frames /\ task.ver <= MaxChanges
  /\ \A c \in Clients : buffer[c] \in Seq(Frames) /\ Len(buffer[c]) <= FrameBuffer
  /\ got \in [Clients -> Frames] /\ since \in [Clients -> Nat]
  /\ DOMAIN buffer = Clients
  /\ hub \subseteq Clients
  /\ emitter \in [Emitters -> [pc : Places, frame : Frames, owed : SUBSET Clients]]

InOrder(x, y) == x.live = TRUE /\ y.live = TRUE /\ y.stage = "FILE" => y.done >= x.done

OneSends == ~crossed => \A e, f \in Sending : e = f
SendsTask == ~crossed => \A e \in Sending : emitter[e].frame = task
SendersOwe == \A e \in Emitters : emitter[e].pc = "send" => emitter[e].owed # {}

LastFrame(c) == IF buffer[c] = <<>> THEN got[c] ELSE buffer[c][Len(buffer[c])]
Coming(c) == \E e \in Sending : emitter[e].pc = "marshal" \/ c \in emitter[e].owed
Ordered(c) ==
  /\ buffer[c] # <<>> => InOrder(got[c], buffer[c][1])
  /\ \A i \in 1..(Len(buffer[c]) - 1) : InOrder(buffer[c][i], buffer[c][i + 1])
Followed(c) ==
  /\ Ordered(c) /\ InOrder(LastFrame(c), task) /\ since[c] <= task.ver
  /\ Coming(c) \/ LastFrame(c) = task \/ (since[c] = task.ver /\ LastFrame(c).live = FALSE)
PagesFollow == ~crossed => \A c \in hub \ missed : Followed(c)

EventInv == EventTyped /\ OneSends /\ SendsTask /\ SendersOwe /\ PagesFollow

LEMMA PercentBounded ==
    ASSUME NEW done \in Nat
    PROVE  Percent(done) \in 0..100
  <1> DEFINE a == 200 * done + TotalFiles
             b == 2 * TotalFiles
  <1>1. a \in Nat /\ b \in Nat /\ b > 0
      BY EventAssumption
  <1> HIDE DEF a, b
  <1>2. a \div b \in Nat
      BY <1>1
  <1> QED
      BY <1>2 DEF Percent, a, b

LEMMA Versioned ==
    ASSUME NEW state \in Frames, NEW n \in Nat, NEW s, s = [state EXCEPT !.ver = n]
    PROVE  /\ s \in Frames /\ s.ver = n
           /\ s.live = state.live /\ s.done = state.done /\ s.stage = state.stage
  BY DEF Frames

EmitterType == [pc : Places, frame : Frames, owed : SUBSET Clients]

\* Nothing is being sent, and what pages have is in order with the next task.
LEMMA Settled ==
    ASSUME EventInv, ~crossed, Sending = {}, NEW c \in hub \ missed, NEW t, InOrder(task, t)
    PROVE  /\ Ordered(c) /\ InOrder(LastFrame(c), t) /\ since[c] <= task.ver
  <1>1. Followed(c) /\ ~Coming(c)
      BY DEF EventInv, PagesFollow, Coming
  <1>2. CASE LastFrame(c) = task
      BY <1>1, <1>2 DEF Followed
  <1>3. CASE LastFrame(c).live = FALSE
      BY <1>1, <1>3 DEF Followed, InOrder
  <1> QED
      BY <1>1, <1>2, <1>3 DEF Followed

LEMMA ChangeStep ==
    ASSUME EventInv, NEW e \in Emitters, NEW state \in Frames, InOrder(task, state),
           Change(e, state)
    PROVE  EventInv'
  <1> DEFINE rec == [pc |-> "marshal", frame |-> task', owed |-> {}]
  <1>1. /\ emitter[e].pc = "quiet" /\ task.ver < MaxChanges
        /\ task' = [state EXCEPT !.ver = task.ver + 1]
        /\ emitter' = [emitter EXCEPT ![e] = rec]
        /\ crossed' = (crossed \/ Sending # {})
        /\ UNCHANGED <<hub, buffer, got, since, missed>>
      BY DEF Change
  <1>2. task.ver \in Nat /\ MaxChanges \in Nat /\ DOMAIN emitter = Emitters
      BY EventAssumption DEF EventInv, EventTyped, Frames
  <1>3. /\ task' \in Frames /\ task'.ver = task.ver + 1
        /\ task'.live = state.live /\ task'.done = state.done /\ task'.stage = state.stage
      BY <1>1, <1>2, Versioned
  <1>4. rec \in [pc : Places, frame : Frames, owed : SUBSET Clients]
      BY <1>3 DEF Places
  <1>5. rec.pc = "marshal" /\ rec.frame = task' /\ rec.owed = {}
      OBVIOUS
  <1> HIDE DEF rec
  <1>6. EventTyped'
    <2>1. emitter' \in [Emitters -> [pc : Places, frame : Frames, owed : SUBSET Clients]]
        BY <1>1, <1>4 DEF EventInv, EventTyped
    <2>2. task'.ver <= MaxChanges
        BY <1>1, <1>2, <1>3
    <2> QED
        BY <1>1, <1>3, <2>1, <2>2 DEF EventInv, EventTyped
  <1>7. emitter'[e] = rec /\ \A f \in Emitters : f # e => emitter'[f] = emitter[f]
      BY <1>1, <1>2
  <1>8. ~crossed' => ~crossed /\ Sending = {} /\ Sending' = {e}
    <2>1. ~crossed' => ~crossed /\ Sending = {}
        BY <1>1
    <2>2. ASSUME Sending = {} PROVE Sending' = {e}
        BY <1>5, <1>7, <2>2 DEF Sending
    <2> QED
        BY <2>1, <2>2
  <1>9. OneSends' /\ SendsTask'
      BY <1>5, <1>7, <1>8 DEF OneSends, SendsTask
  <1>10. SendersOwe'
      BY <1>5, <1>7 DEF EventInv, SendersOwe
  <1>11. ASSUME ~crossed', NEW c \in hub \ missed PROVE Followed(c)'
    <2>1. InOrder(task, task')
        BY <1>3 DEF InOrder
    <2>2. Ordered(c) /\ InOrder(LastFrame(c), task') /\ since[c] <= task.ver
        BY <1>8, <1>11, <2>1, Settled
    <2>3. Ordered(c)' /\ LastFrame(c)' = LastFrame(c)
        BY <1>1, <2>2 DEF Ordered, LastFrame
    <2>4. Coming(c)'
        BY <1>5, <1>7, <1>8, <1>11 DEF Coming
    <2>5. since'[c] <= task'.ver
      <3>1. since[c] \in Nat
          BY <1>11 DEF EventInv, EventTyped
      <3> QED
          BY <1>1, <1>2, <1>3, <2>2, <3>1
    <2>6. InOrder(LastFrame(c), task)'
        BY <2>2, <2>3 DEF InOrder
    <2> QED
        BY <2>3, <2>4, <2>5, <2>6, <2>2 DEF Followed
  <1>12. PagesFollow'
      BY <1>1, <1>11 DEF PagesFollow
  <1> QED
      BY <1>6, <1>9, <1>10, <1>12 DEF EventInv

\* The states the operations of the Manager set.
LEMMA NextTasks ==
    ASSUME EventInv
    PROVE  /\ NoFrame \in Frames /\ InOrder(task, NoFrame)
           /\ \A done \in Nat : done >= task.done =>
                LET s == [task EXCEPT !.done = done, !.percent = Percent(done), !.stage = "FILE"]
                IN  s \in Frames /\ InOrder(task, s)
           /\ LET s == [task EXCEPT !.live = FALSE, !.percent = 100, !.stage = "COMPLETED"]
              IN  s \in Frames /\ InOrder(task, s)
           /\ LET s == [task EXCEPT !.live = FALSE, !.stage = "FAILED"]
              IN  s \in Frames /\ InOrder(task, s)
           /\ LET s == [live |-> TRUE, done |-> 0, percent |-> 0, stage |-> "STARTING", ver |-> 0]
              IN  s \in Frames /\ InOrder(task, s)
  <1>0. task \in Frames
      BY DEF EventInv, EventTyped
  <1>1. NoFrame \in Frames /\ InOrder(task, NoFrame)
      BY DEF NoFrame, Frames, Stages, InOrder
  <1>2. ASSUME NEW done \in Nat, done >= task.done, NEW p \in 0..100,
               NEW s, s = [task EXCEPT !.done = done, !.percent = p, !.stage = "FILE"]
        PROVE  s \in Frames /\ InOrder(task, s)
    <2>1. s \in Frames
        BY <1>0, <1>2 DEF Frames, Stages
    <2>2. s.done = done
        BY <1>0, <1>2 DEF Frames
    <2> QED
        BY <1>2, <2>1, <2>2 DEF InOrder
  <1>3. ASSUME NEW p \in 0..100, NEW s,
               s = [task EXCEPT !.live = FALSE, !.percent = p, !.stage = "COMPLETED"]
        PROVE  s \in Frames /\ InOrder(task, s)
    <2>1. s.live = FALSE
        BY <1>0, <1>3 DEF Frames
    <2>2. s \in Frames
        BY <1>0, <1>3 DEF Frames, Stages
    <2> QED
        BY <2>1, <2>2 DEF InOrder
  <1>4. ASSUME NEW s, s = [task EXCEPT !.live = FALSE, !.stage = "FAILED"]
        PROVE  s \in Frames /\ InOrder(task, s)
      BY <1>0, <1>4 DEF Frames, Stages, InOrder
  <1>5. ASSUME NEW s, s = [live |-> TRUE, done |-> 0, percent |-> 0, stage |-> "STARTING", ver |-> 0]
        PROVE  s \in Frames /\ InOrder(task, s)
      BY <1>5 DEF Frames, Stages, InOrder
  <1> QED
    <2>1. 100 \in 0..100
        OBVIOUS
    <2> QED
        BY <1>1, <1>2, <1>3, <1>4, <1>5, <2>1, PercentBounded

\* A goroutine has told the clients of its frame, or owes less than before.
LEMMA CopyStep ==
    ASSUME EventInv, NEW e \in Emitters, CopyClients(e)
    PROVE  EventInv'
  <1>1. /\ emitter[e].pc = "marshal"
        /\ UNCHANGED <<task, hub, buffer, got, since, missed, crossed>>
      BY DEF CopyClients
  <1>2. DOMAIN emitter = Emitters /\ emitter[e] \in EmitterType
      BY DEF EventInv, EventTyped, EmitterType
  <1>3. \A f \in Emitters : f # e => emitter'[f] = emitter[f]
      BY <1>2 DEF CopyClients
  <1>4. /\ emitter'[e] \in EmitterType
        /\ \/ hub = {} /\ emitter'[e].pc = "quiet"
           \/ /\ hub # {} /\ emitter'[e].pc = "send" /\ emitter'[e].owed = hub
              /\ emitter'[e].frame = emitter[e].frame
    <2>1. CASE hub = {}
      <3>1. emitter'[e] = Quiet
          BY <1>2, <2>1 DEF CopyClients
      <3>2. Quiet \in EmitterType /\ Quiet.pc = "quiet"
          BY DEF Quiet, EmitterType, Places, NoFrame, Frames, Stages
      <3> QED
          BY <2>1, <3>1, <3>2
    <2>2. CASE hub # {}
      <3>1. emitter'[e] = [emitter[e] EXCEPT !.pc = "send", !.owed = hub]
          BY <1>2, <2>2 DEF CopyClients
      <3>2. hub \subseteq Clients
          BY DEF EventInv, EventTyped
      <3> QED
          BY <1>2, <2>2, <3>1, <3>2 DEF EmitterType, Places
    <2> QED
        BY <2>1, <2>2
  <1>5. emitter' \in [Emitters -> EmitterType]
    <2>1. emitter \in [Emitters -> EmitterType]
        BY DEF EventInv, EventTyped, EmitterType
    <2> QED
        BY <1>3, <1>4, <2>1 DEF CopyClients
  <1>6. EventTyped'
      BY <1>1, <1>5 DEF EventInv, EventTyped, EmitterType
  <1>7. Sending' \subseteq Sending
      BY <1>1, <1>3 DEF Sending
  <1>8. OneSends' /\ SendsTask'
    <2>1. \A f \in Sending' : emitter'[f].frame = emitter[f].frame
        BY <1>3, <1>4 DEF Sending
    <2> QED
        BY <1>1, <1>7, <2>1 DEF EventInv, OneSends, SendsTask
  <1>9. SendersOwe'
      BY <1>3, <1>4 DEF EventInv, SendersOwe
  <1>10. ASSUME ~crossed, NEW c \in hub \ missed PROVE Followed(c)'
    <2>1. Followed(c)
        BY <1>10 DEF EventInv, PagesFollow
    <2>2. Coming(c)'
        BY <1>4, <1>10 DEF Coming, Sending
    <2> QED
        BY <1>1, <2>1, <2>2 DEF Followed, Ordered, LastFrame, InOrder
  <1>11. PagesFollow'
      BY <1>1, <1>10 DEF PagesFollow
  <1> QED
      BY <1>6, <1>8, <1>9, <1>11 DEF EventInv

LEMMA AppendIs ==
    ASSUME NEW s \in Seq(Frames), NEW x \in Frames, NEW t, t = Append(s, x)
    PROVE  /\ t \in Seq(Frames) /\ Len(s) \in Nat /\ Len(t) = Len(s) + 1 /\ t # <<>>
           /\ t[Len(s) + 1] = x /\ \A i \in 1..Len(s) : t[i] = s[i]
  OBVIOUS

\* A frame is offered: it is the last one then, or the page is known to miss it.
LEMMA OfferStep ==
    ASSUME EventInv, NEW e \in Emitters, NEW c \in Clients, Offer(e, c)
    PROVE  EventInv'
  <1>1. /\ emitter[e].pc = "send" /\ c \in emitter[e].owed
        /\ UNCHANGED <<task, hub, got, since, crossed>>
      BY DEF Offer
  <1>2. DOMAIN emitter = Emitters /\ emitter[e] \in EmitterType /\ DOMAIN buffer = Clients
      BY DEF EventInv, EventTyped, EmitterType
  <1>3. \A f \in Emitters : f # e => emitter'[f] = emitter[f]
      BY <1>2 DEF Offer
  <1>4. /\ emitter'[e] \in EmitterType
        /\ \/ emitter[e].owed = {c} /\ emitter'[e].pc = "quiet"
           \/ /\ emitter[e].owed # {c} /\ emitter'[e].pc = "send"
              /\ emitter'[e].owed = emitter[e].owed \ {c}
              /\ emitter'[e].frame = emitter[e].frame
    <2>1. CASE emitter[e].owed = {c}
      <3>1. emitter'[e] = Quiet
          BY <1>2, <2>1 DEF Offer
      <3>2. Quiet \in EmitterType /\ Quiet.pc = "quiet"
          BY DEF Quiet, EmitterType, Places, NoFrame, Frames, Stages
      <3> QED
          BY <2>1, <3>1, <3>2
    <2>2. CASE emitter[e].owed # {c}
      <3>1. emitter'[e] = [emitter[e] EXCEPT !.owed = emitter[e].owed \ {c}]
          BY <1>2, <2>2 DEF Offer
      <3> QED
          BY <1>1, <1>2, <2>2, <3>1 DEF EmitterType
    <2> QED
        BY <2>1, <2>2
  <1>5. emitter' \in [Emitters -> EmitterType]
    <2>1. emitter \in [Emitters -> EmitterType]
        BY DEF EventInv, EventTyped, EmitterType
    <2> QED
        BY <1>3, <1>4, <2>1 DEF Offer
  <1> DEFINE x == emitter[e].frame
  <1>6. x \in Frames /\ buffer[c] \in Seq(Frames)
      BY <1>2 DEF EmitterType, EventInv, EventTyped
  <1>7. \/ /\ Len(buffer[c]) < FrameBuffer /\ buffer' = [buffer EXCEPT ![c] = Append(@, x)]
           /\ UNCHANGED missed
        \/ missed' = missed \cup {c} /\ UNCHANGED buffer
      BY DEF Offer
  <1>8. EventTyped'
    <2>1. /\ DOMAIN buffer' = Clients
          /\ \A d \in Clients : buffer'[d] \in Seq(Frames) /\ Len(buffer'[d]) <= FrameBuffer
      <3>1. CASE UNCHANGED buffer
          BY <3>1 DEF EventInv, EventTyped
      <3>2. CASE Len(buffer[c]) < FrameBuffer /\ buffer' = [buffer EXCEPT ![c] = Append(@, x)]
        <4>1. /\ \A d \in Clients : d # c => buffer'[d] = buffer[d]
              /\ buffer'[c] = Append(buffer[c], x)
            BY <1>2, <3>2
        <4>2. buffer'[c] \in Seq(Frames) /\ Len(buffer'[c]) <= FrameBuffer
            BY <1>6, <3>2, <4>1, AppendIs, EventAssumption
        <4> QED
            BY <1>2, <3>2, <4>1, <4>2 DEF EventInv, EventTyped
      <3> QED
          BY <1>7, <3>1, <3>2
    <2> QED
        BY <1>1, <1>5, <2>1 DEF EventInv, EventTyped, EmitterType
  <1>9. Sending' \subseteq Sending
      BY <1>1, <1>3 DEF Sending
  <1>10. OneSends' /\ SendsTask'
    <2>1. \A f \in Sending' : emitter'[f].frame = emitter[f].frame
        BY <1>3, <1>4 DEF Sending
    <2> QED
        BY <1>1, <1>9, <2>1 DEF EventInv, OneSends, SendsTask
  <1>11. SendersOwe'
      BY <1>1, <1>3, <1>4 DEF EventInv, SendersOwe
  <1>12. ASSUME ~crossed, NEW d \in hub \ missed' PROVE Followed(d)'
    <2>1. Followed(d) /\ d \in Clients
        BY <1>7, <1>12 DEF EventInv, PagesFollow, EventTyped
    <2>2. CASE d # c
      <3>1. buffer'[d] = buffer[d]
          BY <1>2, <1>7, <2>1, <2>2
      <3>2. Coming(d) => Coming(d)'
          BY <1>1, <1>3, <1>4, <2>2 DEF Coming, Sending
      <3> QED
          BY <1>1, <2>1, <3>1, <3>2 DEF Followed, Ordered, LastFrame, InOrder
    <2>3. CASE d = c
      <3>1. buffer'[c] = Append(buffer[c], x)
          BY <1>2, <1>7, <1>12, <2>3
      <3>2. x = task
          BY <1>1, <1>12 DEF EventInv, SendsTask, Sending
      <3> DEFINE s == buffer[c]
                 t == buffer'[c]
      <3>3. /\ Len(s) \in Nat /\ Len(t) = Len(s) + 1 /\ t # <<>>
            /\ t[Len(s) + 1] = task /\ \A i \in 1..Len(s) : t[i] = s[i]
          BY <1>6, <3>1, <3>2, AppendIs
      <3>4. s = <<>> <=> Len(s) = 0
          BY <1>6
      <3>5. Followed(c)
          BY <2>1, <2>3
      <3> HIDE DEF s, t
      <3>6. LastFrame(c)' = task
          BY <3>3 DEF LastFrame, t
      <3>7. Ordered(c)'
        <4>1. InOrder(got[c], t[1])
            BY <3>3, <3>4, <3>5 DEF Followed, Ordered, LastFrame, s
        <4>2. ASSUME NEW i \in 1..(Len(t) - 1) PROVE InOrder(t[i], t[i + 1])
          <5>1. CASE i < Len(s)
            <6>1. i \in 1..(Len(s) - 1) /\ i + 1 \in 1..Len(s) /\ i \in 1..Len(s)
                BY <3>3, <5>1
            <6>2. InOrder(s[i], s[i + 1])
                BY <3>5, <6>1 DEF Followed, Ordered, s
            <6> QED
                BY <3>3, <6>1, <6>2
          <5>2. CASE i = Len(s)
            <6>1. t[i] = s[Len(s)] /\ t[i + 1] = task
                BY <3>3, <5>2
            <6> QED
                BY <3>3, <3>4, <3>5, <5>2, <6>1 DEF Followed, LastFrame, s
          <5> QED
              BY <3>3, <5>1, <5>2
        <4> QED
            BY <1>1, <4>1, <4>2 DEF Ordered, InOrder, t
      <3>8. InOrder(task, task)
          BY DEF EventInv, EventTyped, Frames, InOrder
      <3> QED
          BY <1>1, <2>3, <3>5, <3>6, <3>7, <3>8 DEF Followed, InOrder
    <2> QED
        BY <2>2, <2>3
  <1>13. PagesFollow'
      BY <1>1, <1>12 DEF PagesFollow
  <1> QED
      BY <1>8, <1>10, <1>11, <1>13 DEF EventInv

\* A page joins, reads or is closed.
LEMMA JoinStep ==
    ASSUME EventInv, NEW c \in Clients, Join(c)
    PROVE  EventInv'
  <1>1. /\ c \notin hub /\ hub' = hub \cup {c} /\ UNCHANGED <<task, crossed>>
        /\ missed' = missed \ {c}
        /\ buffer' = [buffer EXCEPT ![c] = <<>>] /\ got' = [got EXCEPT ![c] = NoFrame]
        /\ since' = [since EXCEPT ![c] = task.ver]
      BY DEF Join
  <1>2. /\ DOMAIN buffer = Clients /\ DOMAIN got = Clients /\ DOMAIN since = Clients
        /\ task.ver \in Nat
      BY DEF EventInv, EventTyped, Frames
  <1>3. /\ buffer'[c] = <<>> /\ got'[c] = NoFrame /\ since'[c] = task.ver
        /\ \A d \in Clients : d # c =>
             buffer'[d] = buffer[d] /\ got'[d] = got[d] /\ since'[d] = since[d]
      BY <1>1, <1>2
  <1>4. NoFrame \in Frames /\ NoFrame.live = FALSE
      BY DEF NoFrame, Frames, Stages
  <1>5. Quiet \in EmitterType /\ Quiet.pc = "quiet"
      BY <1>4 DEF Quiet, EmitterType, Places
  <1>6. ASSUME NEW f \in Emitters
        PROVE  /\ emitter'[f] \in EmitterType
               /\ \/ emitter[f].pc = "send" /\ emitter[f].owed = {c} /\ emitter'[f].pc = "quiet"
                  \/ /\ ~(emitter[f].pc = "send" /\ emitter[f].owed = {c})
                     /\ emitter'[f].pc = emitter[f].pc /\ emitter'[f].frame = emitter[f].frame
                     /\ emitter'[f].owed = emitter[f].owed \ {c}
    <2>1. emitter[f] \in EmitterType
        BY DEF EventInv, EventTyped, EmitterType
    <2>2. CASE emitter[f].pc = "send" /\ emitter[f].owed = {c}
      <3>1. emitter'[f] = Quiet
          BY <2>2 DEF Join
      <3> QED
          BY <1>5, <2>2, <3>1
    <2>3. CASE ~(emitter[f].pc = "send" /\ emitter[f].owed = {c})
      <3>1. emitter'[f] = [emitter[f] EXCEPT !.owed = emitter[f].owed \ {c}]
          BY <2>3 DEF Join
      <3> QED
          BY <2>1, <2>3, <3>1 DEF EmitterType
    <2> QED
        BY <2>2, <2>3
  <1>7. emitter' \in [Emitters -> EmitterType]
    <2>1. DOMAIN emitter' = Emitters /\ emitter' = [f \in Emitters |-> emitter'[f]]
        BY DEF Join
    <2> QED
        BY <1>6, <2>1
  <1>8. EventTyped'
    <2>1. /\ hub' \subseteq Clients /\ DOMAIN buffer' = Clients
          /\ task' \in Frames /\ task'.ver <= MaxChanges
        BY <1>1, <1>2 DEF EventInv, EventTyped
    <2>2. \A d \in Clients : buffer'[d] \in Seq(Frames) /\ Len(buffer'[d]) <= FrameBuffer
      <3>1. buffer'[c] \in Seq(Frames) /\ Len(buffer'[c]) = 0 /\ FrameBuffer \in Nat
          BY <1>3, EventAssumption
      <3>2. ASSUME NEW d \in Clients, d # c
            PROVE  buffer'[d] \in Seq(Frames) /\ Len(buffer'[d]) <= FrameBuffer
          BY <1>3, <3>2 DEF EventInv, EventTyped
      <3>3. Len(buffer'[c]) <= FrameBuffer
          BY <3>1
      <3> QED
          BY <3>1, <3>2, <3>3
    <2>3. got' \in [Clients -> Frames]
        BY <1>1, <1>4 DEF EventInv, EventTyped
    <2>4. since' \in [Clients -> Nat]
        BY <1>1, <1>2 DEF EventInv, EventTyped
    <2> QED
        BY <1>7, <2>1, <2>2, <2>3, <2>4 DEF EventTyped, EmitterType
  <1>9. Sending' \subseteq Sending
      BY <1>6 DEF Sending
  <1>10. OneSends' /\ SendsTask'
    <2>1. \A f \in Sending' : emitter'[f].frame = emitter[f].frame
        BY <1>6 DEF Sending
    <2> QED
        BY <1>1, <1>9, <2>1 DEF EventInv, OneSends, SendsTask
  <1>11. SendersOwe'
    <2> SUFFICES ASSUME NEW f \in Emitters, emitter'[f].pc = "send" PROVE emitter'[f].owed # {}
        BY DEF SendersOwe
    <2>1. emitter[f].pc = "send" /\ emitter[f].owed # {c} /\ emitter'[f].owed = emitter[f].owed \ {c}
        BY <1>6
    <2>2. emitter[f].owed # {}
        BY <2>1 DEF EventInv, SendersOwe
    <2> QED
        BY <2>1, <2>2
  <1>12. ASSUME ~crossed, NEW d \in hub' \ missed' PROVE Followed(d)'
    <2>0. d \in Clients
        BY <1>8 DEF EventTyped
    <2>1. CASE d = c
      <3>1. LastFrame(c)' = NoFrame
          BY <1>3 DEF LastFrame
      <3>2. Ordered(c)'
        <4>1. Len(buffer'[c]) = 0
            BY <1>3
        <4> QED
            BY <1>3, <4>1 DEF Ordered
      <3>3. InOrder(NoFrame, task)
          BY <1>4 DEF InOrder
      <3> QED
          BY <1>1, <1>2, <1>3, <1>4, <2>1, <3>1, <3>2, <3>3 DEF Followed, InOrder
    <2>2. CASE d # c
      <3>1. Followed(d)
          BY <1>1, <1>12, <2>2 DEF EventInv, PagesFollow
      <3>2. Coming(d) => Coming(d)'
        <4> SUFFICES ASSUME NEW f \in Sending, emitter[f].pc = "marshal" \/ d \in emitter[f].owed
                     PROVE  f \in Sending' /\ (emitter'[f].pc = "marshal" \/ d \in emitter'[f].owed)
            BY DEF Coming
        <4> QED
            BY <1>6, <2>2 DEF Sending
      <3>3. LastFrame(d)' = LastFrame(d) /\ (Ordered(d)' <=> Ordered(d))
          BY <1>3, <2>0, <2>2 DEF LastFrame, Ordered, InOrder
      <3> QED
          BY <1>1, <1>3, <2>0, <2>2, <3>1, <3>2, <3>3 DEF Followed, InOrder
    <2> QED
        BY <2>1, <2>2
  <1>13. PagesFollow'
      BY <1>1, <1>12 DEF PagesFollow
  <1> QED
      BY <1>8, <1>10, <1>11, <1>13 DEF EventInv

LEMMA TailIs ==
    ASSUME NEW s \in Seq(Frames), s # <<>>, NEW t, t = Tail(s)
    PROVE  /\ t \in Seq(Frames) /\ Len(s) \in Nat /\ Len(t) = Len(s) - 1
           /\ s[1] \in Frames /\ Head(s) = s[1] /\ Len(s) >= 1
           /\ \A i \in 1..Len(t) : t[i] = s[i + 1]
           /\ t = <<>> <=> Len(s) = 1
  <1>1. Len(s) \in Nat /\ Len(s) >= 1 /\ s[1] \in Frames /\ Head(s) = s[1]
      OBVIOUS
  <1>2. t \in Seq(Frames) /\ Len(t) = Len(s) - 1
      BY <1>1
  <1>3. \A i \in 1..Len(t) : t[i] = s[i + 1]
      BY <1>1, <1>2
  <1>4. t = <<>> <=> Len(t) = 0
      BY <1>2
  <1> QED
      BY <1>1, <1>2, <1>3, <1>4

LEMMA ReceiveStep ==
    ASSUME EventInv, NEW c \in Clients, Receive(c)
    PROVE  EventInv'
  <1>1. /\ buffer[c] # <<>> /\ got' = [got EXCEPT ![c] = Head(buffer[c])]
        /\ buffer' = [buffer EXCEPT ![c] = Tail(@)]
        /\ UNCHANGED <<task, emitter, hub, since, missed, crossed>>
      BY DEF Receive
  <1>2. DOMAIN buffer = Clients /\ DOMAIN got = Clients /\ buffer[c] \in Seq(Frames)
      BY DEF EventInv, EventTyped
  <1> DEFINE s == buffer[c]
             t == buffer'[c]
  <1>3. /\ t = Tail(s) /\ got'[c] = Head(s)
        /\ \A d \in Clients : d # c => buffer'[d] = buffer[d] /\ got'[d] = got[d]
      BY <1>1, <1>2
  <1>4. /\ t \in Seq(Frames) /\ Len(s) \in Nat /\ Len(t) = Len(s) - 1
        /\ s[1] \in Frames /\ got'[c] = s[1] /\ Len(s) >= 1
        /\ \A i \in 1..Len(t) : t[i] = s[i + 1]
        /\ t = <<>> <=> Len(s) = 1
    <2>1. s \in Seq(Frames) /\ s # <<>> /\ t = Tail(s) /\ got'[c] = Head(s)
        BY <1>1, <1>2, <1>3
    <2> HIDE DEF s, t
    <2> QED
        BY <2>1, TailIs
  <1> HIDE DEF t
  <1>5. EventTyped'
    <2>1. \A d \in Clients : buffer'[d] \in Seq(Frames) /\ Len(buffer'[d]) <= FrameBuffer
      <3>1. Len(s) <= FrameBuffer /\ FrameBuffer \in Nat
          BY EventAssumption DEF EventInv, EventTyped
      <3>2. Len(t) <= FrameBuffer
          BY <1>4, <3>1
      <3> QED
          BY <1>3, <1>4, <3>2 DEF EventInv, EventTyped, t
    <2>2. got' \in [Clients -> Frames]
      <3>1. Head(s) \in Frames
          BY <1>3, <1>4
      <3> QED
          BY <1>1, <3>1 DEF EventInv, EventTyped
    <2> QED
        BY <1>1, <1>2, <2>1, <2>2 DEF EventInv, EventTyped
  <1>6. OneSends' /\ SendsTask' /\ SendersOwe'
      BY <1>1 DEF EventInv, OneSends, SendsTask, SendersOwe, Sending
  <1>7. ASSUME ~crossed, NEW d \in hub \ missed PROVE Followed(d)'
    <2>1. Followed(d) /\ d \in Clients
        BY <1>7 DEF EventInv, PagesFollow, EventTyped
    <2>2. Coming(d)' <=> Coming(d)
        BY <1>1 DEF Coming, Sending
    <2>3. LastFrame(d)' = LastFrame(d) /\ Ordered(d)'
      <3>1. CASE d # c
          BY <1>3, <2>1, <3>1 DEF LastFrame, Followed, Ordered, InOrder
      <3>2. CASE d = c
        <4>1. LastFrame(c)' = LastFrame(c)
          <5>1. CASE Len(s) = 1
              BY <1>1, <1>4, <5>1 DEF LastFrame, t
          <5>2. CASE Len(s) # 1
            <6>1. t # <<>> /\ Len(t) \in 1..Len(t) /\ Len(t) + 1 = Len(s)
                BY <1>4, <5>2
            <6> QED
                BY <1>1, <1>4, <6>1 DEF LastFrame, t
          <5> QED
              BY <5>1, <5>2
        <4>2. \A i \in 1..(Len(s) - 1) : InOrder(s[i], s[i + 1])
            BY <2>1, <3>2 DEF Followed, Ordered
        <4>3. t # <<>> => InOrder(got'[c], t[1])
          <5>1. ASSUME t # <<>> PROVE 1 \in 1..(Len(s) - 1) /\ t[1] = s[2]
            <6>1. Len(s) > 1
                BY <1>4, <5>1
            <6> QED
                BY <1>4, <6>1
          <5> QED
              BY <1>4, <4>2, <5>1
        <4>4. ASSUME NEW i \in 1..(Len(t) - 1) PROVE InOrder(t[i], t[i + 1])
          <5>1. i + 1 \in 1..(Len(s) - 1) /\ i \in 1..Len(t) /\ i + 1 \in 1..Len(t)
              BY <1>4
          <5> QED
              BY <1>4, <4>2, <5>1
        <4> QED
            BY <3>2, <4>1, <4>3, <4>4 DEF Ordered, InOrder, t
      <3> QED
          BY <3>1, <3>2
    <2> QED
        BY <1>1, <2>1, <2>2, <2>3 DEF Followed, InOrder
  <1>8. PagesFollow'
      BY <1>1, <1>7 DEF PagesFollow
  <1> QED
      BY <1>5, <1>6, <1>8 DEF EventInv

LEMMA EventStarts == EventInit => EventInv
  <1> SUFFICES ASSUME EventInit PROVE EventInv
      OBVIOUS
  <1>1. NoFrame \in Frames /\ NoFrame.ver = 0
      BY DEF NoFrame, Frames, Stages
  <1>2. Quiet \in EmitterType /\ Quiet.pc = "quiet"
      BY <1>1 DEF Quiet, EmitterType, Places
  <1>3. \A e \in Emitters : emitter[e].pc = "quiet"
      BY <1>2 DEF EventInit
  <1>4. EventTyped
    <2>1. \A c \in Clients : buffer[c] \in Seq(Frames) /\ Len(buffer[c]) = 0
        BY DEF EventInit
    <2>2. emitter \in [Emitters -> EmitterType]
        BY <1>2 DEF EventInit
    <2>3. FrameBuffer \in Nat /\ MaxChanges \in Nat
        BY EventAssumption
    <2>4. got \in [Clients -> Frames] /\ since \in [Clients -> Nat]
        BY <1>1 DEF EventInit
    <2> QED
        BY <1>1, <2>1, <2>2, <2>3, <2>4 DEF EventInit, EventTyped, EmitterType
  <1>5. OneSends /\ SendsTask /\ SendersOwe
      BY <1>3 DEF OneSends, SendsTask, SendersOwe, Sending
  <1>6. PagesFollow
      BY DEF EventInit, PagesFollow
  <1> QED
      BY <1>4, <1>5, <1>6 DEF EventInv

LEMMA EventStep == EventInv /\ [EventNext]_eventVars => EventInv'
  <1> SUFFICES ASSUME EventInv, [EventNext]_eventVars PROVE EventInv'
      OBVIOUS
  <1>1. CASE UNCHANGED eventVars
      BY <1>1 DEF eventVars, EventInv, EventTyped, OneSends, SendsTask, SendersOwe, PagesFollow,
         Sending, Followed, Coming, Ordered, LastFrame, InOrder
  <1>2. ASSUME NEW e \in Emitters, EmitterStep(e) PROVE EventInv'
      BY <1>2, CopyStep, OfferStep DEF EmitterStep
  <1>3. ASSUME NEW e \in Emitters, StartTask(e) PROVE EventInv'
      BY <1>3, NextTasks, ChangeStep DEF StartTask
  <1>4. ASSUME NEW e \in Emitters, FinishTask(e) PROVE EventInv'
      BY <1>4, NextTasks, ChangeStep DEF FinishTask
  <1>5. ASSUME NEW e \in Emitters, FailTask(e) PROVE EventInv'
      BY <1>5, NextTasks, ChangeStep DEF FailTask
  <1>6. ASSUME NEW e \in Emitters, NEW done \in 0..TotalFiles + 1, UpdateTaskProgress(e, done)
        PROVE  EventInv'
    <2> DEFINE most == IF done > task.done THEN done ELSE task.done
    <2>1. Change(e, [task EXCEPT !.done = most, !.percent = Percent(most), !.stage = "FILE"])
        BY <1>6 DEF UpdateTaskProgress
    <2>2. done \in Nat /\ task.done \in Nat
        BY EventAssumption DEF EventInv, EventTyped, Frames
    <2>3. most \in Nat /\ most >= task.done
        BY <2>2
    <2> HIDE DEF most
    <2> QED
        BY <2>1, <2>3, NextTasks, ChangeStep
  <1>7. ASSUME NEW e \in Emitters, ResetTaskState(e) PROVE EventInv'
      BY <1>7, NextTasks, ChangeStep DEF ResetTaskState
  <1>8. ASSUME NEW c \in Clients, ClosePage(c) PROVE EventInv'
      BY <1>8 DEF ClosePage, EventInv, EventTyped, OneSends, SendsTask, SendersOwe, PagesFollow,
         Sending, Followed, Coming, Ordered, LastFrame, InOrder
  <1> QED
      BY <1>1, <1>2, <1>3, <1>4, <1>5, <1>6, <1>7, <1>8, JoinStep, ReceiveStep
      DEF EventNext, Emitters

(* For any runners, unlock requests, pages, buffers and changes: a page     *)
(* that was there before the last change, missed nothing and has read all   *)
(* shows the task as it is, and no bar runs backwards, unless two changes   *)
(* were sent at the same time (taskstate.go, sse.go).                       *)
THEOREM PageShowsTaskTheorem ==
    EventSpec => [](EventTypeOK /\ PageShowsTask /\ ProgressNeverBack)
  <1>1. EventInv => EventTypeOK
      BY EventAssumption DEF EventInv, EventTyped, Frames, EventTypeOK
  <1>2. ASSUME EventInv, NEW c \in hub, Sending = {}, buffer[c] = <<>>, since[c] < task.ver,
               c \notin missed, ~crossed
        PROVE  got[c] = task
    <2>1. Followed(c) /\ ~Coming(c)
        BY <1>2 DEF EventInv, PagesFollow, Coming
    <2>2. task.ver \in Nat
        BY <1>2 DEF EventInv, EventTyped, Frames
    <2> QED
        BY <1>2, <2>1, <2>2 DEF Followed, LastFrame
  <1>3. ASSUME EventInv PROVE ProgressNeverBack
    <2> SUFFICES ASSUME NEW c \in hub, ~crossed, c \notin missed, buffer[c] # <<>>, got[c].live,
                        Head(buffer[c]).live, Head(buffer[c]).stage = "FILE"
                 PROVE  Head(buffer[c]).done >= got[c].done
        BY DEF ProgressNeverBack
    <2>1. Ordered(c)
        BY <1>3 DEF EventInv, PagesFollow, Followed
    <2>2. buffer[c] \in Seq(Frames) /\ got[c] \in Frames
        BY <1>3 DEF EventInv, EventTyped
    <2>3. Head(buffer[c]) = buffer[c][1] /\ buffer[c][1] \in Frames
        BY <2>2, TailIs
    <2>4. got[c].live = TRUE /\ buffer[c][1].live = TRUE
        BY <2>2, <2>3 DEF Frames
    <2> QED
        BY <2>1, <2>3, <2>4 DEF Ordered, InOrder
  <1>4. EventInv => PageShowsTask
      BY <1>2 DEF PageShowsTask
  <1> QED
      BY <1>1, <1>3, <1>4, EventStarts, EventStep, PTL DEF EventSpec

-----------------------------------------------------------------------------
(* The way of a text.  What has been converted is the chunks before the     *)
(* next one, each as itself and whole.                                      *)

DocPlaces == {"none", "health", "entity", "convert", "repair", "classify"}
DocType == [pc : DocPlaces, chunks : Nat, i : Nat, cont : Nat, broken : SUBSET Nat, hint : BOOLEAN]
PieceType == [of : Nat, by : {"model", "raw", "extractor"},
              cut : BOOLEAN, broken : BOOLEAN, tail : BOOLEAN]

FlowTyped == doc \in DocType /\ pieces \in Seq(PieceType)

Whole(made) == \A k \in 1..Len(made) : made[k].of = k /\ made[k].cut = FALSE

\* How much of the text is there at each place.
Progress ==
  /\ doc.pc \in {"health", "entity"} => pieces = <<>> /\ doc.i = 1 /\ doc.cont = 0
  /\ doc.pc = "convert" => Len(pieces) = doc.i - 1 /\ doc.i <= doc.chunks + 1
  /\ doc.pc \in {"repair", "classify"} => Len(pieces) = doc.chunks

FlowInv == FlowTyped /\ Whole(pieces) /\ Progress /\ TextWhole

LEMMA AddedPiece ==
    ASSUME NEW s \in Seq(PieceType), Whole(s), NEW x \in PieceType, x.of = Len(s) + 1,
           x.cut = FALSE, NEW t, t = Append(s, x)
    PROVE  t \in Seq(PieceType) /\ Whole(t) /\ Len(t) = Len(s) + 1 /\ t[Len(t)] = x
  <1>1. /\ t \in Seq(PieceType) /\ Len(s) \in Nat /\ Len(t) = Len(s) + 1 /\ t[Len(s) + 1] = x
        /\ \A k \in 1..Len(s) : t[k] = s[k]
      OBVIOUS
  <1> QED
      BY <1>1 DEF Whole

LEMMA ListOf ==
    ASSUME NEW T, NEW n \in Nat, NEW t \in [1..n -> T]
    PROVE  t \in Seq(T) /\ Len(t) = n
  OBVIOUS

Mended(s, n, tail) == [s EXCEPT ![n].broken = FALSE, ![n].tail = tail]

LEMMA RepairedPiece ==
    ASSUME NEW s \in Seq(PieceType), Whole(s), NEW n, NEW tail \in BOOLEAN,
           NEW t, t = Mended(s, n, tail)
    PROVE  t \in Seq(PieceType) /\ Whole(t) /\ Len(t) = Len(s)
  <1>1. DOMAIN s = 1..Len(s) /\ Len(s) \in Nat /\ DOMAIN t = DOMAIN s
      BY DEF Mended
  <1>2. ASSUME NEW k \in 1..Len(s)
        PROVE  t[k] \in PieceType /\ t[k].of = s[k].of /\ t[k].cut = s[k].cut
    <2>1. s[k] \in PieceType
        BY <1>1
    <2>2. CASE k = n
      <3>1. PICK broken \in BOOLEAN : t[k] = [s[k] EXCEPT !.broken = broken, !.tail = tail]
          BY <1>1, <2>2 DEF Mended
      <3> QED
        <4> DEFINE piece == s[k]
                   p == t[k]
        <4>1. piece \in PieceType /\ p = [piece EXCEPT !.broken = broken, !.tail = tail]
            BY <2>1, <3>1
        <4> HIDE DEF piece, p
        <4>2. p \in PieceType /\ p.of = piece.of /\ p.cut = piece.cut
            BY <4>1 DEF PieceType
        <4> QED
            BY <4>2 DEF piece, p
    <2>3. CASE k # n
        BY <1>1, <2>1, <2>3 DEF Mended
    <2> QED
        BY <2>2, <2>3
  <1>3. t = [k \in 1..Len(s) |-> t[k]]
      BY <1>1 DEF Mended
  <1>4. t \in Seq(PieceType) /\ Len(t) = Len(s)
    <2>1. t \in [1..Len(s) -> PieceType]
        BY <1>2, <1>3
    <2> QED
        BY <1>1, <2>1, ListOf
  <1> QED
      BY <1>2, <1>4 DEF Whole

\* The place alone changes.
LEMMA DocAt ==
    ASSUME FlowInv, NEW pc \in DocPlaces, NEW d, d = [doc EXCEPT !.pc = pc]
    PROVE  d \in DocType /\ d.pc = pc /\ d.chunks = doc.chunks /\ d.i = doc.i /\ d.cont = doc.cont
  BY DEF FlowInv, FlowTyped, DocType

LEMMA NoDocIs == NoDoc \in DocType /\ NoDoc.pc = "none"
  BY DEF NoDoc, DocType, DocPlaces

\* Nothing of a text is under way, and the verdict is the rules' or nobody's.
LEMMA FailedStep ==
    ASSUME FlowInv, NEW kind \in ErrorKinds \cup {"unhealthy", "unparsed"}, PipelineFailed(kind)
    PROVE  FlowInv'
  <1>1. FlowTyped'
    <2>1. <<>> \in Seq(PieceType)
        OBVIOUS
    <2> QED
        BY <2>1, NoDocIs DEF PipelineFailed, FlowTyped
  <1>2. Whole(pieces)'
    <2>1. Len(<<>>) = 0
        OBVIOUS
    <2> QED
        BY <2>1 DEF PipelineFailed, Whole
  <1>3. Progress'
      BY NoDocIs DEF PipelineFailed, Progress
  <1>4. ContinuesPrevious'
      BY NoDocIs DEF PipelineFailed, ContinuesPrevious
  <1>5. NothingSkipped'
      BY DEF PipelineFailed, NothingSkipped
  <1>6. UnreachableNeverRules'
      BY DEF PipelineFailed, UnreachableNeverRules, IsOllamaDown, ErrorKinds
  <1> QED
      BY <1>1, <1>2, <1>3, <1>4, <1>5, <1>6 DEF FlowInv, TextWhole

\* What is filed stays as it is.
LEMMA VerdictStays ==
    ASSUME FlowInv, UNCHANGED verdict
    PROVE  NothingSkipped' /\ UnreachableNeverRules'
  BY DEF FlowInv, TextWhole, NothingSkipped, UnreachableNeverRules

LEMMA PlaceStep ==
    ASSUME FlowInv, UNCHANGED <<pieces, verdict>>, NEW pc \in DocPlaces, NEW d, doc' = d,
           d \in DocType, d.pc = pc, d.chunks = doc.chunks, d.i = doc.i, d.cont = doc.cont,
           \/ doc.pc = "health" /\ pc = "entity"
           \/ doc.pc = "entity" /\ pc = "convert"
           \/ doc.pc = "convert" /\ pc = "repair" /\ doc.i > doc.chunks
           \/ doc.pc = "repair" /\ pc \in {"repair", "classify"}
    PROVE  FlowInv'
  <1>1. FlowTyped' /\ Whole(pieces)' /\ NothingSkipped' /\ UnreachableNeverRules'
      BY VerdictStays DEF FlowInv, FlowTyped, Whole
  <1>2. Len(<<>>) = 0 /\ doc.i \in Nat /\ doc.chunks \in Nat
      BY DEF FlowInv, FlowTyped, DocType
  <1>3. Progress'
      BY <1>2 DEF FlowInv, Progress
  <1>4. ContinuesPrevious'
      BY DEF FlowInv, TextWhole, Progress, ContinuesPrevious
  <1> QED
      BY <1>1, <1>3, <1>4 DEF FlowInv, TextWhole

LEMMA PieceStep ==
    ASSUME FlowInv, Converts, NEW by \in {"model", "raw"}, NEW broken \in BOOLEAN,
           NEW tail \in BOOLEAN, NEW cont \in {0, doc.i}, cont # 0 => tail,
           Piece(by, FALSE, broken, tail), NextChunk(cont), UNCHANGED verdict
    PROVE  FlowInv'
  <1> DEFINE x == [of |-> doc.i, by |-> by, cut |-> FALSE, broken |-> broken, tail |-> tail]
  <1>1. /\ doc.pc = "convert" /\ doc.i <= doc.chunks /\ doc \in DocType
        /\ doc.i \in Nat /\ doc.chunks \in Nat
        /\ pieces \in Seq(PieceType) /\ Whole(pieces) /\ Len(pieces) = doc.i - 1
      BY DEF Converts, FlowInv, FlowTyped, DocType, Progress
  <1>2. x \in PieceType /\ x.of = Len(pieces) + 1 /\ x.cut = FALSE /\ x.tail = tail /\ x.of = doc.i
      BY <1>1 DEF PieceType
  <1>3. pieces' = Append(pieces, x)
      BY DEF Piece
  <1> HIDE DEF x
  <1>4. /\ pieces' \in Seq(PieceType) /\ Whole(pieces') /\ Len(pieces') = Len(pieces) + 1
        /\ pieces'[Len(pieces')] = x
      BY <1>1, <1>2, <1>3, AddedPiece
  <1>5. /\ doc' \in DocType /\ doc'.pc = "convert" /\ doc'.i = doc.i + 1
        /\ doc'.cont = cont /\ doc'.chunks = doc.chunks
    <2>1. cont \in Nat /\ doc.i + 1 \in Nat /\ doc' = [doc EXCEPT !.i = doc.i + 1, !.cont = cont]
        BY <1>1 DEF NextChunk
    <2> QED
        BY <1>1, <2>1 DEF DocType
  <1>6. Progress'
      BY <1>1, <1>4, <1>5 DEF Progress
  <1>7. ContinuesPrevious'
    <2>1. ASSUME cont # 0
          PROVE  doc'.cont = doc'.i - 1 /\ \E k \in DOMAIN pieces' : pieces'[k].of = doc'.cont /\ pieces'[k].tail
      <3>1. Len(pieces') \in DOMAIN pieces'
          BY <1>1, <1>4
      <3>2. cont = doc.i /\ tail
          BY <2>1
      <3>3. doc'.cont = doc'.i - 1 /\ x.of = doc'.cont /\ x.tail
          BY <1>1, <1>2, <1>5, <3>2
      <3> QED
          BY <1>4, <3>1, <3>3
    <2> QED
        BY <1>5, <2>1 DEF ContinuesPrevious
  <1>8. FlowTyped' /\ Whole(pieces)'
      BY <1>4, <1>5 DEF FlowTyped, Whole
  <1> QED
      BY <1>6, <1>7, <1>8, VerdictStays DEF FlowInv, TextWhole

LEMMA StartStep ==
    ASSUME NEW n \in ChunkCounts, FlowInv, Start(n)
    PROVE  FlowInv'
  <1>1. n \in Nat
      BY DEF ChunkCounts
  <1>2. doc' = [NoDoc EXCEPT !.pc = "health", !.chunks = n, !.i = 1] /\ pieces' = <<>> /\ verdict' = NoVerdict
      BY DEF Start
  <1>3. doc' \in DocType /\ doc'.pc = "health" /\ doc'.i = 1 /\ doc'.cont = 0
      BY <1>1, <1>2 DEF NoDoc, DocType, DocPlaces
  <1>4. <<>> \in Seq(PieceType) /\ Len(<<>>) = 0
      OBVIOUS
  <1> QED
      BY <1>2, <1>3, <1>4 DEF FlowInv, FlowTyped, Whole, Progress, TextWhole, NothingSkipped,
         ContinuesPrevious, UnreachableNeverRules, NoVerdict

LEMMA PremadeStep ==
    ASSUME FlowInv, Premade
    PROVE  FlowInv'
  <1> DEFINE Ready(k) == [of |-> k, by |-> "extractor", cut |-> FALSE, broken |-> FALSE, tail |-> FALSE]
  <1>1. doc' = [doc EXCEPT !.pc = "classify"] /\ UNCHANGED verdict /\ doc.chunks \in Nat
      BY DEF Premade, Stage, FlowInv, FlowTyped, DocType
  <1>2. pieces' = [k \in 1..doc.chunks |-> Ready(k)]
      BY DEF Premade
  <1>3. \A k \in 1..doc.chunks : Ready(k) \in PieceType /\ Ready(k).of = k /\ Ready(k).cut = FALSE
      BY <1>1 DEF PieceType
  <1> HIDE DEF Ready
  <1>4. /\ pieces' \in Seq(PieceType) /\ Len(pieces') = doc.chunks
        /\ \A k \in 1..doc.chunks : pieces'[k] = Ready(k)
      BY <1>1, <1>2, <1>3
  <1>5. doc' \in DocType /\ doc'.pc = "classify" /\ doc'.chunks = doc.chunks
      BY <1>1, DocAt DEF DocPlaces
  <1>6. FlowTyped' /\ Whole(pieces)' /\ Progress' /\ ContinuesPrevious'
      BY <1>3, <1>4, <1>5 DEF FlowTyped, Whole, Progress, ContinuesPrevious
  <1> QED
      BY <1>1, <1>6, VerdictStays DEF FlowInv, TextWhole

LEMMA FiledStep ==
    ASSUME FlowInv, doc.pc = "classify", doc' = NoDoc, pieces' = <<>>,
           verdict' = [by |-> "model", failed |-> "none", chunks |-> doc.chunks,
                       markdown |-> [k \in DOMAIN pieces |-> [of |-> pieces[k].of, cut |-> pieces[k].cut]]]
    PROVE  FlowInv'
  <1> DEFINE md == [k \in DOMAIN pieces |-> [of |-> pieces[k].of, cut |-> pieces[k].cut]]
  <1>1. /\ pieces \in Seq(PieceType) /\ Whole(pieces) /\ Len(pieces) = doc.chunks
      BY DEF FlowInv, FlowTyped, Progress
  <1>2. DOMAIN pieces = 1..doc.chunks /\ doc.chunks \in Nat
      BY <1>1
  <1>3. Len(md) = doc.chunks /\ DOMAIN md = 1..doc.chunks
      BY <1>2
  <1>4. \A k \in 1..doc.chunks : md[k].of = k /\ md[k].cut = FALSE
      BY <1>1, <1>2 DEF Whole
  <1>5. /\ verdict'.by = "model" /\ verdict'.chunks = doc.chunks /\ verdict'.markdown = md
      OBVIOUS
  <1> HIDE DEF md
  <1>6. NothingSkipped' /\ UnreachableNeverRules'
      BY <1>3, <1>4, <1>5 DEF NothingSkipped, UnreachableNeverRules
  <1>7. <<>> \in Seq(PieceType) /\ Len(<<>>) = 0
      OBVIOUS
  <1>8. FlowTyped' /\ Whole(pieces)' /\ Progress' /\ ContinuesPrevious'
      BY <1>7, NoDocIs DEF FlowTyped, Whole, Progress, ContinuesPrevious
  <1> QED
      BY <1>6, <1>8 DEF FlowInv, TextWhole

LEMMA FlowStarts == FlowInit => FlowInv
  <1>1. <<>> \in Seq(PieceType) /\ Len(<<>>) = 0
      OBVIOUS
  <1> QED
      BY <1>1, NoDocIs DEF FlowInit, FlowInv, FlowTyped, Whole, Progress, TextWhole, NothingSkipped,
         ContinuesPrevious, UnreachableNeverRules, NoVerdict

LEMMA FlowStep == FlowInv /\ [FlowNext]_flowVars => FlowInv'
  <1> SUFFICES ASSUME FlowInv, [FlowNext]_flowVars PROVE FlowInv'
      OBVIOUS
  <1>0. doc \in DocType /\ doc.i \in Nat /\ doc.chunks \in Nat
      BY DEF FlowInv, FlowTyped, DocType
  <1>1. CASE UNCHANGED <<doc, pieces, verdict>>
      BY <1>1 DEF FlowInv, FlowTyped, Whole, Progress, TextWhole, NothingSkipped,
         ContinuesPrevious, UnreachableNeverRules
  <1>2. CASE Health
    <2>1. CASE Stage("entity") /\ UNCHANGED <<pieces, verdict>>
        BY <1>2, <2>1, DocAt, PlaceStep DEF Health, Stage, DocPlaces
    <2> QED
        BY <1>2, <2>1, FailedStep DEF Health
  <1>3. CASE StepA
    <2>1. doc.pc = "entity" /\ UNCHANGED <<pieces, verdict>>
        BY <1>3 DEF StepA
    <2>2. CASE Stage("convert")
        BY <2>1, <2>2, DocAt, PlaceStep DEF Stage, DocPlaces
    <2>3. ASSUME NEW hint \in BOOLEAN, doc' = [doc EXCEPT !.pc = "convert", !.hint = hint]
          PROVE  FlowInv'
      <3>1. /\ doc' \in DocType /\ doc'.pc = "convert" /\ doc'.chunks = doc.chunks
            /\ doc'.i = doc.i /\ doc'.cont = doc.cont
          BY <1>0, <2>3 DEF DocType, DocPlaces
      <3> QED
          BY <2>1, <3>1, PlaceStep DEF DocPlaces
    <2> QED
        BY <1>3, <2>2, <2>3 DEF StepA
  <1>4. CASE ConvertChunk
    <2>1. PICK broken \in BOOLEAN, tail \in BOOLEAN :
            /\ Piece("model", FALSE, broken, tail)
            /\ NextChunk(IF tail /\ doc.i < doc.chunks THEN doc.i ELSE 0)
        BY <1>4 DEF ConvertChunk
    <2>2. Converts /\ UNCHANGED verdict
        BY <1>4 DEF ConvertChunk
    <2>3. CASE tail /\ doc.i < doc.chunks
        BY <2>1, <2>2, <2>3, PieceStep
    <2>4. CASE ~(tail /\ doc.i < doc.chunks)
        BY <2>1, <2>2, <2>4, PieceStep
    <2> QED
        BY <2>3, <2>4
  <1>5. CASE KeepChunk
      BY <1>5, PieceStep DEF KeepChunk
  <1>6. CASE ChunksDone
    <2>1. doc.pc = "convert" /\ doc.i > doc.chunks /\ UNCHANGED <<pieces, verdict>>
        BY <1>6 DEF ChunksDone
    <2>2. PICK B : doc' = [doc EXCEPT !.pc = "repair", !.broken = B] /\ B \subseteq Nat
      <3>1. DOMAIN pieces \subseteq Nat
          BY DEF FlowInv, FlowTyped
      <3> QED
          BY <1>6, <3>1 DEF ChunksDone
    <2>3. /\ doc' \in DocType /\ doc'.pc = "repair" /\ doc'.chunks = doc.chunks
          /\ doc'.i = doc.i /\ doc'.cont = doc.cont
        BY <1>0, <2>2 DEF DocType, DocPlaces
    <2> QED
        BY <2>1, <2>3, PlaceStep DEF DocPlaces
  <1>7. CASE RepairChunk
    <2>1. doc.pc = "repair" /\ doc' = [doc EXCEPT !.broken = doc.broken \ {NextBroken}] /\ UNCHANGED verdict
        BY <1>7 DEF RepairChunk, Tried
    <2>2. /\ doc' \in DocType /\ doc'.pc = "repair" /\ doc'.chunks = doc.chunks
          /\ doc'.i = doc.i /\ doc'.cont = doc.cont
        BY <1>0, <2>1 DEF DocType
    <2>3. CASE UNCHANGED pieces
        BY <2>1, <2>2, <2>3, PlaceStep DEF DocPlaces
    <2>4. ASSUME NEW tail \in BOOLEAN,
                 pieces' = [pieces EXCEPT ![NextBroken].broken = FALSE, ![NextBroken].tail = tail]
          PROVE  FlowInv'
      <3>1. pieces \in Seq(PieceType) /\ Whole(pieces)
          BY DEF FlowInv, FlowTyped
      <3>2. pieces' \in Seq(PieceType) /\ Whole(pieces') /\ Len(pieces') = Len(pieces)
          BY <2>4, <3>1, RepairedPiece DEF Mended
      <3>3. FlowTyped' /\ Whole(pieces)' /\ Progress' /\ ContinuesPrevious'
          BY <2>1, <2>2, <3>2 DEF FlowInv, FlowTyped, Whole, Progress, ContinuesPrevious
      <3> QED
          BY <2>1, <3>3, VerdictStays DEF FlowInv, TextWhole
    <2> QED
        BY <1>7, <2>3, <2>4 DEF RepairChunk
  <1>8. CASE Repaired
      BY <1>8, DocAt, PlaceStep DEF Repaired, Stage, DocPlaces
  <1>9. CASE StepD
      BY <1>9, FiledStep, FailedStep DEF StepD
  <1>10. CASE ServerTurns
      BY <1>1, <1>10 DEF ServerTurns
  <1> QED
      BY <1>1, <1>2, <1>3, <1>4, <1>5, <1>6, <1>7, <1>8, <1>9, <1>10, StartStep, PremadeStep
      DEF FlowNext, flowVars

(* For texts of any length and any failures of the model server: the        *)
(* Markdown a document is filed with has every chunk of its text, whole and *)
(* in order, a table is continued from the chunk before only, and no rule   *)
(* stands in for a server that is down (app/classify).                      *)
THEOREM TextWholeTheorem == FlowSpec => []TextWhole
  <1>1. FlowInv => TextWhole
      BY DEF FlowInv
  <1> QED
      BY <1>1, FlowStarts, FlowStep, PTL DEF FlowSpec

-----------------------------------------------------------------------------
(* Photographs.  From the claim on the PDF of a job is its own; what is     *)
(* still to be moved to the trash is on its pages; and a photograph in      *)
(* __raws that no job is about is in no document yet.                       *)

PhotoPlaces == {"idle", "walk", "file", "render", "claim", "write", "extract", "probe", "move",
                "folder", "triage", "asis"}
Keys == Bases \X PdfSuffixes
Ids == 1..dropped
Kinds == {"none", "user", "torn", "pages", "photo"}
DocumentType == [kind : Kinds, of : SUBSET Nat]
JobType == [pc : PhotoPlaces, base : Bases, srcs : SUBSET Sources, read : SUBSET Nat,
            n : PdfSuffixes, dest : TrashSpots \cup {NoJob.dest}]

PhotoTyped ==
  /\ dropped \in Nat /\ photoFaults \in Nat /\ userPdfs \in Nat
  /\ photoAt \in [Sources -> Nat] /\ parked \in [TrashSpots -> Int]
  /\ pdfAt \in [Keys -> DocumentType] /\ job \in JobType

\* Nobody knows a photograph that has not been dropped.
Known ==
  /\ \A s \in Sources : photoAt[s] # 0 => photoAt[s] \in Ids
  /\ \A k \in Keys : pdfAt[k].of \subseteq Ids
  /\ \A d \in filed : d.of \subseteq Ids
  /\ job.read \subseteq Ids

Key == <<job.base, job.n>>
JobHeld ==
  /\ job.pc = "write" => pdfAt[Key].kind = "torn"
  /\ job.pc \in {"extract", "probe", "move", "folder", "triage"} => pdfAt[Key].kind = "pages"
  /\ job.pc \in {"write", "extract", "probe", "move", "folder", "triage"} => pdfAt[Key].of = job.read
  /\ job.pc \in {"claim", "write", "extract", "probe", "move"} =>
       \A s \in job.srcs : photoAt[s] # 0 /\ photoAt[s] \in job.read \cup swapped
  /\ job.pc = "move" =>
       job.dest \in TrashSpots /\ job.dest[1] \in job.srcs /\ parked[job.dest] = 0
  /\ job.pc = "asis" => job.base \in Sources

\* In no document.
Unfiled(id) == (\A k \in Keys : id \notin pdfAt[k].of) /\ (\A d \in filed : id \notin d.of)
Engaged == IF job.pc \in {"write", "extract", "probe", "move"} THEN job.srcs ELSE {}

DocumentsDiffer ==
  /\ \A k, l \in Keys : k # l => pdfAt[k].of \cap pdfAt[l].of = {}
  /\ \A k \in Keys : \A d \in filed : pdfAt[k].of \cap d.of = {}
  /\ \A d, e \in filed : d # e => d.of \cap e.of = {}
  /\ \A s, t \in Sources : photoAt[s] = photoAt[t] /\ photoAt[s] # 0 => s = t
WaitingFresh == \A s \in Sources : photoAt[s] # 0 /\ s \notin Engaged => Unfiled(photoAt[s])
ReadFresh ==
  job.pc = "claim" =>
    (\A id \in job.read : Unfiled(id)) /\ (\A s \in Sources \ job.srcs : photoAt[s] \notin job.read)
Undisturbed == photoFaults = 0 /\ ~TrashFull

PhotoInv ==
  /\ PhotoTyped /\ Known /\ JobHeld
  /\ NoPhotoLost /\ UserPdfKept /\ ParkedHasPdf
  /\ Undisturbed => DocumentsDiffer /\ WaitingFresh /\ ReadFresh

\* No document of the user or of a conversion goes.
DocumentsStay == \A d \in Pdfs \cup filed : d.kind \in {"user", "pages"} => d \in Pdfs' \cup filed'

LEMMA StayKept ==
    ASSUME PhotoInv, DocumentsStay, UNCHANGED <<parked, swapped, userPdfs>>
    PROVE  UserPdfKept' /\ ParkedHasPdf'
  <1>1. UserPdfKept'
      BY DEF PhotoInv, UserPdfKept, DocumentsStay
  <1>2. ParkedHasPdf'
      BY DEF PhotoInv, ParkedHasPdf, DocumentsStay, Trash
  <1> QED
      BY <1>1, <1>2

LEMMA JobStep ==
    ASSUME PhotoInv, UNCHANGED <<photoAt, pdfAt, parked, filed, swapped, dropped, userPdfs>>,
           photoFaults' \in Nat, photoFaults' = 0 => photoFaults = 0,
           job' \in JobType, job'.read \subseteq Ids, JobHeld',
           Undisturbed' => WaitingFresh' /\ ReadFresh'
    PROVE  PhotoInv'
  <1>1. PhotoTyped' /\ Known'
      BY DEF PhotoInv, PhotoTyped, Known, Ids
  <1>2. NoPhotoLost' /\ UserPdfKept' /\ ParkedHasPdf'
      BY DEF PhotoInv, NoPhotoLost, UserPdfKept, ParkedHasPdf, Trash, Pdfs
  <1>3. Undisturbed' => DocumentsDiffer'
      BY DEF PhotoInv, Undisturbed, TrashFull, DocumentsDiffer
  <1> QED
      BY <1>1, <1>2, <1>3 DEF PhotoInv

LEMMA JobFields ==
    ASSUME PhotoInv
    PROVE  /\ job.base \in Bases /\ job.srcs \subseteq Sources /\ job.read \subseteq Ids
           /\ job.n \in PdfSuffixes /\ Key \in Keys /\ job \in JobType
  BY DEF PhotoInv, PhotoTyped, Known, JobType, Key, Keys

LEMMA JobAt ==
    ASSUME PhotoInv, NEW pc \in PhotoPlaces, NEW j, j = [job EXCEPT !.pc = pc]
    PROVE  /\ j \in JobType /\ j.pc = pc /\ j.base = job.base /\ j.srcs = job.srcs
           /\ j.read = job.read /\ j.n = job.n /\ j.dest = job.dest
  BY JobFields DEF JobType

\* A job goes on, or gives up, without a file being touched.
LEMMA PhotoPlaceStep ==
    ASSUME PhotoInv, UNCHANGED <<photoAt, pdfAt, parked, filed, swapped, dropped, userPdfs>>,
           NEW pc \in PhotoPlaces, job' = [job EXCEPT !.pc = pc],
           photoFaults' \in Nat, photoFaults' = 0 => photoFaults = 0,
           \/ pc \in {"walk", "file"}
           \/ pc = "asis" /\ job.base \in Sources
           \/ pc = "probe" /\ job.pc = "extract"
           \/ pc \in {"folder", "triage"} /\ job.pc = "probe",
           \/ photoFaults' # 0 \/ job.srcs = {} \/ pc = "probe"
           \/ job.pc \notin {"write", "extract", "probe", "move"}
    PROVE  PhotoInv'
  <1>1. /\ job' \in JobType /\ job'.pc = pc /\ job'.base = job.base /\ job'.srcs = job.srcs
        /\ job'.read = job.read /\ job'.n = job.n
      BY JobAt
  <1>2. JobHeld'
      BY <1>1 DEF PhotoInv, JobHeld, Key
  <1>3. photoFaults' = 0 => Engaged' = Engaged
      BY <1>1 DEF Engaged
  <1>4. ASSUME Undisturbed' PROVE WaitingFresh' /\ ReadFresh'
    <2>1. WaitingFresh
        BY <1>4 DEF PhotoInv, Undisturbed, TrashFull
    <2>2. Engaged' = Engaged
        BY <1>3, <1>4 DEF Undisturbed
    <2>3. job'.pc # "claim"
        BY <1>1
    <2> QED
        BY <2>1, <2>2, <2>3 DEF WaitingFresh, ReadFresh, Unfiled
  <1> QED
      BY <1>1, <1>2, <1>4, JobFields, JobStep

\* A job begins, or none is left.
LEMMA BeginStep ==
    ASSUME PhotoInv, UNCHANGED <<photoAt, pdfAt, parked, filed, swapped, dropped, userPdfs, photoFaults>>,
           job.pc \in {"idle", "file", "walk"},
           job' \in JobType, job'.pc \in {"idle", "walk", "render"}, job'.read = {}
    PROVE  PhotoInv'
  <1>1. JobHeld' /\ Engaged' = {} /\ Engaged = {} /\ job'.pc # "claim"
      BY DEF JobHeld, Engaged
  <1>2. ASSUME Undisturbed' PROVE WaitingFresh' /\ ReadFresh'
    <2>1. WaitingFresh
        BY <1>2 DEF PhotoInv, Undisturbed, TrashFull
    <2> QED
        BY <1>1, <2>1 DEF WaitingFresh, ReadFresh, Unfiled
  <1>3. photoFaults \in Nat /\ job'.read \subseteq Ids
      BY DEF PhotoInv, PhotoTyped
  <1> QED
      BY <1>1, <1>2, <1>3, JobStep

LEMMA NewJob ==
    ASSUME PhotoAssumption
    PROVE  /\ \A pc \in PhotoPlaces :
                [NoJob EXCEPT !.pc = pc] \in JobType /\ [NoJob EXCEPT !.pc = pc].pc = pc
                /\ [NoJob EXCEPT !.pc = pc].read = {}
           /\ \A pc \in PhotoPlaces : \A srcs \in SUBSET Sources :
                LET j == [NoJob EXCEPT !.pc = pc, !.srcs = srcs]
                IN  j \in JobType /\ j.pc = pc /\ j.read = {}
           /\ \A pc \in PhotoPlaces : \A base \in Bases : \A srcs \in SUBSET Sources :
                LET j == [NoJob EXCEPT !.pc = pc, !.base = base, !.srcs = srcs]
                IN  j \in JobType /\ j.pc = pc /\ j.read = {}
           /\ NoJob \in JobType /\ NoJob.pc = "idle" /\ NoJob.read = {}
  <1>1. 0 \in PdfSuffixes /\ Folder \in Bases
      BY PhotoAssumption DEF PdfSuffixes, Bases
  <1>2. NoJob \in JobType /\ NoJob.pc = "idle" /\ NoJob.read = {}
    <2> DEFINE d == Spot(CHOOSE s \in Sources : TRUE, Folder, 0)
    <2>1. NoJob = [pc |-> "idle", base |-> Folder, srcs |-> {}, read |-> {}, n |-> 0, dest |-> d]
        BY DEF NoJob
    <2> HIDE DEF d
    <2>2. NoJob.dest = d
        BY <2>1
    <2>3. d \in TrashSpots \cup {NoJob.dest}
        BY <2>2
    <2>4. "idle" \in PhotoPlaces
        BY DEF PhotoPlaces
    <2> QED
        BY <1>1, <2>1, <2>3, <2>4 DEF JobType
  <1> HIDE DEF NoJob
  <1> QED
      BY <1>2 DEF JobType

LEMMA RenderedStep ==
    ASSUME PhotoInv, job.pc = "render", \A s \in job.srcs : photoAt[s] # 0,
           job' = [job EXCEPT !.pc = "claim", !.read = {photoAt[s] : s \in job.srcs}],
           UNCHANGED <<photoAt, pdfAt, parked, filed, swapped, dropped, userPdfs, photoFaults>>
    PROVE  PhotoInv'
  <1> DEFINE read == {photoAt[s] : s \in job.srcs}
  <1>0. /\ job \in JobType /\ job.srcs \subseteq Sources
        /\ \A s \in Sources : photoAt[s] # 0 => photoAt[s] \in Ids
        /\ photoFaults \in Nat /\ dropped \in Nat
      BY JobFields DEF PhotoInv, PhotoTyped, Known
  <1>1. read \subseteq Ids /\ read \subseteq Nat
      BY <1>0 DEF Ids
  <1>2. "claim" \in PhotoPlaces
      BY DEF PhotoPlaces
  <1>3. job' = [job EXCEPT !.pc = "claim", !.read = read]
      OBVIOUS
  <1>4. \A s \in job.srcs : photoAt[s] \in read
      OBVIOUS
  <1>5. \A id \in read : \E s \in job.srcs : id = photoAt[s]
      OBVIOUS
  <1> HIDE DEF read
  <1>6. job' \in JobType /\ job'.pc = "claim" /\ job'.read = read /\ job'.srcs = job.srcs
      BY <1>0, <1>1, <1>2, <1>3 DEF JobType
  <1>7. JobHeld'
      BY <1>4, <1>6 DEF JobHeld
  <1>8. ASSUME Undisturbed' PROVE WaitingFresh' /\ ReadFresh'
    <2>1. WaitingFresh /\ DocumentsDiffer
        BY <1>8 DEF PhotoInv, Undisturbed, TrashFull
    <2>2. Engaged = {} /\ Engaged' = {}
        BY <1>6 DEF Engaged
    <2>3. WaitingFresh'
        BY <2>1, <2>2 DEF WaitingFresh, Unfiled
    <2>4. \A id \in read : Unfiled(id)
        BY <1>0, <1>5, <2>1, <2>2 DEF WaitingFresh
    <2>5. \A s \in Sources \ job.srcs : photoAt[s] \notin read
        BY <1>0, <1>5, <2>1 DEF DocumentsDiffer
    <2> QED
        BY <1>6, <2>3, <2>4, <2>5 DEF ReadFresh, Unfiled
  <1> QED
      BY <1>0, <1>1, <1>6, <1>7, <1>8, JobStep

\* Faults only grow, and a spot of the trash is not emptied.
LEMMA StillUndisturbed ==
    ASSUME PhotoInv, photoFaults' \in Nat, photoFaults' = 0 => photoFaults = 0,
           \A k \in TrashSpots : parked[k] # 0 => parked'[k] # 0, Undisturbed'
    PROVE  Undisturbed /\ DocumentsDiffer /\ WaitingFresh /\ ReadFresh
  <1>1. \A s \in Sources, b \in Bases : \A n \in PdfSuffixes : Spot(s, b, n) \in TrashSpots
      BY DEF Spot, TrashSpots
  <1>2. ~TrashFull
      BY <1>1 DEF Undisturbed, TrashFull
  <1> QED
      BY <1>2 DEF Undisturbed, PhotoInv

\* A PDF in __raws is filed, or an error leaves it.
LEMMA FilePdfStep ==
    ASSUME PhotoInv, NEW k \in Keys, FilePdf(k),
           UNCHANGED <<photoAt, parked, swapped, dropped, userPdfs>>,
           job.pc \in {"file", "triage"}, job' \in JobType, job'.pc = "file", job'.read = job.read
    PROVE  PhotoInv'
  <1>1. JobHeld' /\ Engaged' = {} /\ job'.pc # "claim" /\ photoFaults \in Nat /\ job'.read \subseteq Ids
      BY DEF JobHeld, Engaged, PhotoInv, PhotoTyped, Known
  <1>2. Engaged = {}
      BY DEF Engaged
  <1>3. ASSUME UNCHANGED <<filed, pdfAt>>, photoFaults' \in Nat, photoFaults' = 0 => photoFaults = 0
        PROVE  PhotoInv'
    <2>1. ASSUME Undisturbed' PROVE WaitingFresh' /\ ReadFresh'
      <3>1. WaitingFresh
          BY <1>3, <2>1 DEF PhotoInv, Undisturbed, TrashFull
      <3> QED
          BY <1>1, <1>2, <1>3, <3>1 DEF WaitingFresh, ReadFresh, Unfiled
    <2> QED
        BY <1>1, <1>3, <2>1, JobStep
  <1>4. ASSUME pdfAt[k].kind \in {"user", "pages"}, filed' = filed \cup {pdfAt[k]},
               pdfAt' = [pdfAt EXCEPT ![k] = NoPdf], UNCHANGED photoFaults
        PROVE  PhotoInv'
    <2> DEFINE made == pdfAt[k]
    <2>1. NoPdf \in DocumentType /\ NoPdf.of = {} /\ NoPdf.kind = "none"
        BY DEF NoPdf, DocumentType, Kinds
    <2>2. pdfAt \in [Keys -> DocumentType]
        BY DEF PhotoInv, PhotoTyped
    <2> HIDE DEF NoPdf
    <2>3. /\ pdfAt' \in [Keys -> DocumentType] /\ pdfAt'[k].of = {} /\ filed' = filed \cup {made}
          /\ \A l \in Keys : l # k => pdfAt'[l] = pdfAt[l]
        BY <1>4, <2>1, <2>2
    <2> HIDE DEF made
    <2>4. PhotoTyped' /\ Known'
        BY <1>1, <1>4, <2>3 DEF PhotoInv, PhotoTyped, Known, Ids, made
    <2>5. DocumentsStay
        BY <2>3 DEF DocumentsStay, Pdfs, Keys, made
    <2>6. UserPdfKept' /\ ParkedHasPdf'
        BY <2>5, StayKept
    <2>7. NoPhotoLost'
        BY <2>3 DEF PhotoInv, NoPhotoLost, Trash
    <2>8. ASSUME Undisturbed' PROVE DocumentsDiffer' /\ WaitingFresh' /\ ReadFresh'
      <3>1. DocumentsDiffer /\ WaitingFresh
          BY <1>4, <2>8 DEF PhotoInv, Undisturbed, TrashFull
      <3>2. \A id : Unfiled(id) => Unfiled(id)'
          BY <2>3 DEF Unfiled, made
      <3>3. DocumentsDiffer'
          BY <2>3, <3>1 DEF DocumentsDiffer, made
      <3>4. WaitingFresh'
          BY <1>1, <1>2, <3>1, <3>2 DEF WaitingFresh
      <3> QED
          BY <1>1, <3>3, <3>4 DEF ReadFresh
    <2> QED
        BY <1>1, <2>4, <2>6, <2>7, <2>8 DEF PhotoInv
  <1>5. PhotoFault => photoFaults' \in Nat /\ photoFaults' # 0
      BY <1>1 DEF PhotoFault
  <1> QED
      BY <1>1, <1>3, <1>4, <1>5 DEF FilePdf

LEMMA PdfSteps == ASSUME PhotoInv, TriagePdf \/ (\E k \in Keys : TurnOfPdf(k)) PROVE PhotoInv'
  <1>1. CASE TriagePdf
    <2>1. job' \in JobType /\ job'.pc = "file" /\ job'.read = job.read
        BY <1>1, JobAt DEF TriagePdf, Step, PhotoPlaces
    <2> QED
        BY <1>1, <2>1, JobFields, FilePdfStep DEF TriagePdf, Key
  <1>2. ASSUME NEW k \in Keys, TurnOfPdf(k) PROVE PhotoInv'
      BY <1>2, JobFields, FilePdfStep DEF TurnOfPdf
  <1> QED
      BY <1>1, <1>2

LEMMA PdfClaimStep == ASSUME PhotoInv, PhotoAssumption, Claim PROVE PhotoInv'
  <1>0. /\ job \in JobType /\ job.base \in Bases /\ job.n \in PdfSuffixes /\ Key \in Keys
        /\ job.read \subseteq Ids /\ job.read \subseteq Nat /\ job.srcs \subseteq Sources
        /\ dropped \in Nat /\ photoFaults \in Nat /\ pdfAt \in [Keys -> DocumentType]
      BY JobFields DEF PhotoInv, PhotoTyped, Ids
  <1>1. ASSUME pdfAt[Key] = NoPdf, pdfAt' = [pdfAt EXCEPT ![Key] = [kind |-> "torn", of |-> job.read]],
               Step("write")
        PROVE  PhotoInv'
    <2> DEFINE made == [kind |-> "torn", of |-> job.read]
    <2>1. made \in DocumentType /\ made.of = job.read /\ made.kind = "torn" /\ NoPdf.of = {} /\ NoPdf.kind = "none"
        BY <1>0 DEF DocumentType, Kinds, NoPdf
    <2>2. pdfAt' = [pdfAt EXCEPT ![Key] = made]
        BY <1>1
    <2> HIDE DEF made
    <2>3. /\ pdfAt' \in [Keys -> DocumentType] /\ pdfAt'[Key] = made
          /\ \A l \in Keys : l # Key => pdfAt'[l] = pdfAt[l]
        BY <1>0, <2>1, <2>2
    <2>4. /\ job' \in JobType /\ job'.pc = "write" /\ job'.srcs = job.srcs /\ job'.read = job.read
          /\ job'.base = job.base /\ job'.n = job.n
        BY <1>1, JobAt DEF Step, PhotoPlaces
    <2>5. Key' = Key
        BY <2>4 DEF Key
    <2>6. UNCHANGED <<photoAt, parked, filed, swapped, dropped, userPdfs, photoFaults>>
        BY DEF Claim
    <2>7. PhotoTyped'
        BY <2>3, <2>4, <2>6 DEF PhotoInv, PhotoTyped
    <2>8. Known'
        BY <1>0, <2>1, <2>3, <2>4, <2>6 DEF PhotoInv, Known, Ids
    <2>9. JobHeld'
        BY <2>1, <2>3, <2>4, <2>5, <2>6 DEF Claim, PhotoInv, JobHeld
    <2>10. DocumentsStay
        BY <1>0, <1>1, <2>1, <2>3, <2>6 DEF DocumentsStay, Pdfs, Keys
    <2>11. UserPdfKept' /\ ParkedHasPdf' /\ NoPhotoLost'
      <3>1. UserPdfKept' /\ ParkedHasPdf'
          BY <2>6, <2>10, StayKept
      <3>2. NoPhotoLost'
          BY <2>6 DEF PhotoInv, NoPhotoLost, Trash
      <3> QED
          BY <3>1, <3>2
    <2>12. ASSUME Undisturbed' PROVE DocumentsDiffer' /\ WaitingFresh' /\ ReadFresh'
      <3>1. DocumentsDiffer /\ WaitingFresh /\ ReadFresh
          BY <2>6, <2>12 DEF PhotoInv, Undisturbed, TrashFull
      <3>2. /\ \A id \in job.read : Unfiled(id)
            /\ \A s \in Sources \ job.srcs : photoAt[s] \notin job.read
          BY <3>1 DEF ReadFresh, Claim
      <3>3. DocumentsDiffer'
          BY <2>1, <2>3, <2>6, <3>1, <3>2 DEF DocumentsDiffer, Unfiled
      <3>4. Engaged = {} /\ Engaged' = job.srcs
          BY <2>4 DEF Claim, Engaged
      <3>5. \A id : Unfiled(id) /\ id \notin job.read => Unfiled(id)'
          BY <2>1, <2>3, <2>6 DEF Unfiled
      <3>6. WaitingFresh'
          BY <2>6, <3>1, <3>2, <3>4, <3>5 DEF WaitingFresh
      <3> QED
          BY <2>4, <3>3, <3>6 DEF ReadFresh
    <2> QED
        BY <2>7, <2>8, <2>9, <2>11, <2>12 DEF PhotoInv
  <1>2. ASSUME Fails, UNCHANGED pdfAt PROVE PhotoInv'
    <2>1. UNCHANGED <<photoAt, pdfAt, parked, filed, swapped, dropped, userPdfs, photoFaults>>
        BY <1>2 DEF Claim
    <2>2. CASE job.base = Folder
        BY <1>0, <1>2, <2>1, <2>2, PhotoPlaceStep DEF Claim, Fails, Step, PhotoPlaces
    <2>3. CASE job.base # Folder
        BY <1>0, <1>2, <2>1, <2>3, PhotoPlaceStep DEF Claim, Fails, Step, PhotoPlaces, Bases
    <2> QED
        BY <2>2, <2>3
  <1>3. ASSUME job.n < MaxSuffix, job' = [job EXCEPT !.n = @ + 1], UNCHANGED pdfAt PROVE PhotoInv'
    <2>1. UNCHANGED <<photoAt, pdfAt, parked, filed, swapped, dropped, userPdfs, photoFaults>> /\ job.pc = "claim"
        BY <1>3 DEF Claim
    <2>2. job.n + 1 \in PdfSuffixes
        BY <1>0, <1>3, PhotoAssumption DEF PdfSuffixes
    <2>3. /\ job' \in JobType /\ job'.pc = "claim" /\ job'.srcs = job.srcs /\ job'.read = job.read
        BY <1>0, <1>3, <2>1, <2>2 DEF JobType
    <2>4. JobHeld'
        BY <2>1, <2>3 DEF PhotoInv, JobHeld
    <2>5. ASSUME Undisturbed' PROVE WaitingFresh' /\ ReadFresh'
      <3>1. WaitingFresh /\ ReadFresh
          BY <2>1, <2>5 DEF PhotoInv, Undisturbed, TrashFull
      <3>2. Engaged' = {} /\ Engaged = {}
          BY <2>1, <2>3 DEF Engaged
      <3> QED
          BY <2>1, <2>3, <3>1, <3>2 DEF WaitingFresh, ReadFresh, Unfiled
    <2> QED
        BY <1>0, <2>1, <2>3, <2>4, <2>5, JobStep
  <1>4. job.n \in Int /\ MaxSuffix \in Int
      BY <1>0, PhotoAssumption DEF PdfSuffixes
  <1>5. pdfAt[<<job.base, job.n>>] = pdfAt[Key]
      BY DEF Key
  <1> QED
      BY <1>1, <1>2, <1>3, <1>4 DEF Claim, Key

LEMMA FaultStep ==
    ASSUME PhotoInv, PhotoFault PROVE photoFaults' \in Nat /\ photoFaults' # 0
  BY DEF PhotoInv, PhotoTyped, PhotoFault

\* A step that gives up touches no file.
LEMMA FailsStep ==
    ASSUME PhotoInv, PhotoFault, Fails, UNCHANGED <<photoAt, pdfAt, parked, filed, swapped, dropped, userPdfs>>
    PROVE  PhotoInv'
  <1>0. photoFaults' \in Nat /\ photoFaults' # 0 /\ job.base \in Bases
      BY FaultStep, JobFields
  <1>1. CASE job.base = Folder
      BY <1>0, <1>1, PhotoPlaceStep DEF Fails, Step, PhotoPlaces
  <1>2. CASE job.base # Folder
      BY <1>0, <1>2, PhotoPlaceStep DEF Fails, Step, PhotoPlaces, Bases
  <1> QED
      BY <1>1, <1>2

LEMMA RenderStep == ASSUME PhotoInv, Render PROVE PhotoInv'
  BY RenderedStep, FailsStep DEF Render

LEMMA WriteStep == ASSUME PhotoInv, Write PROVE PhotoInv'
  <1>0. /\ job \in JobType /\ Key \in Keys /\ job.srcs \subseteq Sources
        /\ dropped \in Nat /\ photoFaults \in Nat /\ pdfAt \in [Keys -> DocumentType]
      BY JobFields DEF PhotoInv, PhotoTyped
  <1>1. ASSUME pdfAt' = [pdfAt EXCEPT ![Key].kind = "pages"], Step("extract"), UNCHANGED photoFaults
        PROVE  PhotoInv'
    <2> DEFINE made == [pdfAt[Key] EXCEPT !.kind = "pages"]
    <2>1. made \in DocumentType /\ made.of = pdfAt[Key].of /\ made.kind = "pages"
        BY <1>0 DEF DocumentType, Kinds
    <2>2. pdfAt' = [pdfAt EXCEPT ![Key] = made]
        BY <1>1
    <2> HIDE DEF made
    <2>3. /\ pdfAt' \in [Keys -> DocumentType] /\ pdfAt'[Key] = made
          /\ \A l \in Keys : l # Key => pdfAt'[l] = pdfAt[l]
        BY <1>0, <2>1, <2>2
    <2>4. /\ job' \in JobType /\ job'.pc = "extract" /\ job'.srcs = job.srcs /\ job'.read = job.read
          /\ job'.base = job.base /\ job'.n = job.n
        BY <1>1, JobAt DEF Step, PhotoPlaces
    <2>5. Key' = Key
        BY <2>4 DEF Key
    <2>6. UNCHANGED <<photoAt, parked, filed, swapped, dropped, userPdfs, photoFaults>> /\ job.pc = "write"
        BY <1>1 DEF Write
    <2>7. pdfAt[Key].kind = "torn" /\ pdfAt[Key].of = job.read
          /\ (\A s \in job.srcs : photoAt[s] # 0 /\ photoAt[s] \in job.read \cup swapped)
        BY <2>6 DEF PhotoInv, JobHeld
    <2>8. PhotoTyped'
        BY <2>3, <2>4, <2>6 DEF PhotoInv, PhotoTyped
    <2>9. \A l \in Keys : pdfAt'[l].of = pdfAt[l].of
        BY <2>1, <2>3
    <2>10. Known'
        BY <2>4, <2>6, <2>9 DEF PhotoInv, Known, Ids
    <2>11. JobHeld'
        BY <2>1, <2>3, <2>4, <2>5, <2>6, <2>7 DEF JobHeld
    <2>12. DocumentsStay
        BY <1>0, <2>3, <2>6, <2>7 DEF DocumentsStay, Pdfs, Keys
    <2>13. UserPdfKept' /\ ParkedHasPdf'
        BY <2>6, <2>12, StayKept
    <2>14. NoPhotoLost'
        BY <2>6 DEF PhotoInv, NoPhotoLost, Trash
    <2>15. ASSUME Undisturbed' PROVE DocumentsDiffer' /\ WaitingFresh' /\ ReadFresh'
      <3>1. DocumentsDiffer /\ WaitingFresh
          BY <2>6, <2>15 DEF PhotoInv, Undisturbed, TrashFull
      <3>2. DocumentsDiffer'
          BY <2>6, <2>9, <3>1 DEF DocumentsDiffer
      <3>3. Engaged = job.srcs /\ Engaged' = job.srcs
          BY <2>4, <2>6 DEF Engaged
      <3>4. \A id : Unfiled(id) => Unfiled(id)'
          BY <2>6, <2>9 DEF Unfiled
      <3>5. WaitingFresh'
          BY <2>6, <3>1, <3>3, <3>4 DEF WaitingFresh
      <3> QED
          BY <2>4, <3>2, <3>5 DEF ReadFresh
    <2> QED
        BY <2>8, <2>10, <2>11, <2>13, <2>14, <2>15 DEF PhotoInv
  <1>2. CASE PhotoFault /\ Fails /\ UNCHANGED pdfAt
      BY <1>2, FailsStep DEF Write
  <1> QED
      BY <1>1, <1>2 DEF Write, Key

LEMMA ExtractStep == ASSUME PhotoInv, Extract PROVE PhotoInv'
  <1>1. ASSUME Step("probe"), UNCHANGED photoFaults PROVE PhotoInv'
    <2>1. job.pc = "extract" /\ photoFaults' \in Nat /\ "probe" \in PhotoPlaces
        BY <1>1 DEF Extract, PhotoInv, PhotoTyped, PhotoPlaces
    <2> QED
        BY <1>1, <2>1, PhotoPlaceStep DEF Extract, Step
  <1> QED
      BY <1>1, FailsStep DEF Extract

LEMMA SourcesMovedStep == ASSUME PhotoInv, SourcesMoved PROVE PhotoInv'
  <1>1. job.pc = "probe" /\ job.srcs = {} /\ photoFaults' \in Nat /\ {"folder", "triage"} \subseteq PhotoPlaces
        /\ UNCHANGED photoFaults
      BY DEF SourcesMoved, PhotoInv, PhotoTyped, PhotoPlaces
  <1>2. \E pc \in {"folder", "triage"} : job' = [job EXCEPT !.pc = pc]
      BY DEF SourcesMoved, Converted, Step
  <1>3. PICK pc \in {"folder", "triage"} : job' = [job EXCEPT !.pc = pc]
      BY <1>2
  <1> QED
      BY <1>1, <1>3, PhotoPlaceStep DEF SourcesMoved

LEMMA RemoveFolderStep == ASSUME PhotoInv, RemoveFolder PROVE PhotoInv'
  <1>1. job.pc = "folder" /\ photoFaults' \in Nat /\ "walk" \in PhotoPlaces
      BY DEF RemoveFolder, PhotoInv, PhotoTyped, PhotoPlaces
  <1> QED
      BY <1>1, PhotoPlaceStep DEF RemoveFolder, Step

LEMMA WalkStep == ASSUME PhotoInv, Walk PROVE PhotoInv'
  <1>1. job.pc = "walk" /\ photoFaults' \in Nat /\ "file" \in PhotoPlaces
      BY DEF Walk, PhotoInv, PhotoTyped, PhotoPlaces
  <1> QED
      BY <1>1, PhotoPlaceStep DEF Walk, Step

LEMMA PhotoTurnStep == ASSUME PhotoInv, PhotoAssumption, NEW s \in Sources, TurnOfPhoto(s) PROVE PhotoInv'
  <1>1. CASE photoAt[s] = 0
    <2>1. job' = job /\ photoFaults \in Nat
        BY <1>1 DEF TurnOfPhoto, PhotoInv, PhotoTyped
    <2>2. JobHeld' /\ Engaged' = {} /\ Engaged = {} /\ job.pc = "file"
        BY <2>1 DEF TurnOfPhoto, JobHeld, Engaged
    <2>3. ASSUME Undisturbed' PROVE WaitingFresh' /\ ReadFresh'
      <3>1. WaitingFresh
          BY <2>3 DEF PhotoInv, Undisturbed, TrashFull, TurnOfPhoto
      <3> QED
          BY <2>1, <2>2, <3>1 DEF WaitingFresh, ReadFresh, Unfiled, TurnOfPhoto
    <2> QED
        BY <2>1, <2>2, <2>3, JobFields, JobStep DEF TurnOfPhoto
  <1>2. CASE photoAt[s] # 0
    <2>1. /\ job' = [NoJob EXCEPT !.pc = "render", !.base = s, !.srcs = {s}]
          /\ "render" \in PhotoPlaces /\ s \in Bases /\ {s} \in SUBSET Sources
        BY <1>2 DEF TurnOfPhoto, PhotoPlaces, Bases
    <2>2. job' \in JobType /\ job'.pc = "render" /\ job'.read = {}
        BY <2>1, NewJob
    <2> QED
        BY <2>2, BeginStep DEF TurnOfPhoto
  <1> QED
      BY <1>1, <1>2

LEMMA BeginScanStep == ASSUME PhotoInv, PhotoAssumption, BeginScan \/ EndScan PROVE PhotoInv'
  <1>1. job' \in JobType /\ job'.pc \in {"idle", "walk", "render"} /\ job'.read = {}
    <2>1. InFolder \in SUBSET Sources /\ {"walk", "render"} \subseteq PhotoPlaces
        BY DEF InFolder, Sources, PhotoPlaces
    <2>2. \/ job' = [NoJob EXCEPT !.pc = "render", !.srcs = InFolder]
          \/ job' = [NoJob EXCEPT !.pc = "walk"] \/ job' = NoJob
        BY DEF BeginScan, EndScan
    <2>3. CASE job' = [NoJob EXCEPT !.pc = "render", !.srcs = InFolder]
      <3>1. /\ [NoJob EXCEPT !.pc = "render", !.srcs = InFolder] \in JobType
            /\ [NoJob EXCEPT !.pc = "render", !.srcs = InFolder].pc = "render"
            /\ [NoJob EXCEPT !.pc = "render", !.srcs = InFolder].read = {}
          BY <2>1, NewJob
      <3> QED
          BY <2>3, <3>1
    <2>4. CASE job' = [NoJob EXCEPT !.pc = "walk"]
      <3>1. /\ [NoJob EXCEPT !.pc = "walk"] \in JobType /\ [NoJob EXCEPT !.pc = "walk"].pc = "walk"
            /\ [NoJob EXCEPT !.pc = "walk"].read = {}
          BY <2>1, NewJob
      <3> QED
          BY <2>4, <3>1
    <2>5. CASE job' = NoJob
      <3>1. NoJob \in JobType /\ NoJob.pc = "idle" /\ NoJob.read = {}
          BY NewJob
      <3> QED
          BY <2>5, <3>1
    <2> QED
        BY <2>2, <2>3, <2>4, <2>5
  <1> QED
      BY <1>1, BeginStep DEF BeginScan, EndScan

LEMMA LeaveFields ==
    ASSUME PhotoInv, NEW s \in Sources, Leave(s)
    PROVE  /\ job' \in JobType /\ job'.pc = "probe" /\ job'.srcs = job.srcs \ {s}
           /\ job'.read = job.read /\ job'.base = job.base /\ job'.n = job.n
  <1>1. job \in JobType /\ "probe" \in PhotoPlaces /\ job.srcs \ {s} \subseteq Sources
      BY JobFields DEF PhotoPlaces
  <1> QED
      BY <1>1 DEF Leave, JobType

LEMMA TrashProbeStep == ASSUME PhotoInv, NEW s \in Sources, ProbeTrash(s) PROVE PhotoInv'
  <1>0. /\ job \in JobType /\ Key \in Keys /\ job.base \in Bases /\ photoFaults \in Nat
        /\ job.pc = "probe" /\ s \in job.srcs /\ job.read \subseteq Ids
        /\ UNCHANGED <<photoAt, pdfAt, parked, filed, swapped, dropped, userPdfs>>
      BY JobFields DEF ProbeTrash, PhotoInv, PhotoTyped
  <1>1. ASSUME FreeInTrash(s) # {}, UNCHANGED photoFaults,
               job' = [job EXCEPT !.pc = "move", !.dest = Spot(s, job.base, Min(FreeInTrash(s)))]
        PROVE  PhotoInv'
    <2> DEFINE n == Min(FreeInTrash(s))  spot == Spot(s, job.base, n)
    <2>1. n \in FreeInTrash(s)
        BY <1>1, LeastIndex DEF FreeInTrash, PdfSuffixes
    <2> HIDE DEF n
    <2>2. n \in PdfSuffixes /\ parked[spot] = 0
        BY <2>1 DEF FreeInTrash
    <2>3. spot \in TrashSpots /\ spot[1] = s
        BY <2>2 DEF Spot, TrashSpots
    <2>4. job' = [job EXCEPT !.pc = "move", !.dest = spot]
        BY <1>1 DEF n
    <2> HIDE DEF spot
    <2>5. "move" \in PhotoPlaces
        BY DEF PhotoPlaces
    <2>6. /\ job' \in JobType /\ job'.pc = "move" /\ job'.dest = spot /\ job'.srcs = job.srcs
          /\ job'.read = job.read /\ job'.base = job.base /\ job'.n = job.n
        BY <1>0, <2>3, <2>4, <2>5 DEF JobType
    <2>7. JobHeld'
        BY <1>0, <2>2, <2>3, <2>6 DEF PhotoInv, JobHeld, Key
    <2>8. ASSUME Undisturbed' PROVE WaitingFresh' /\ ReadFresh'
      <3>1. WaitingFresh
          BY <1>0, <1>1, <2>8 DEF PhotoInv, Undisturbed, TrashFull
      <3>2. Engaged' = Engaged
          BY <1>0, <2>6 DEF Engaged
      <3> QED
          BY <1>0, <2>6, <3>1, <3>2 DEF WaitingFresh, ReadFresh, Unfiled
    <2> QED
        BY <1>0, <1>1, <2>6, <2>7, <2>8, JobStep
  <1>2. ASSUME Leave(s), photoFaults' \in Nat, photoFaults' = 0 => photoFaults = 0 /\ FreeInTrash(s) = {}
        PROVE  PhotoInv'
    <2>1. /\ job' \in JobType /\ job'.pc = "probe" /\ job'.srcs = job.srcs \ {s}
          /\ job'.read = job.read /\ job'.base = job.base /\ job'.n = job.n
        BY <1>2, LeaveFields
    <2>2. JobHeld'
        BY <1>0, <2>1 DEF PhotoInv, JobHeld, Key
    <2>3. ~Undisturbed'
      <3>1. FreeInTrash(s) = {} => TrashFull
          BY <1>0 DEF FreeInTrash, TrashFull
      <3> QED
          BY <1>0, <1>2, <3>1 DEF Undisturbed, TrashFull
    <2> QED
        BY <1>0, <1>2, <2>1, <2>2, <2>3, JobStep
  <1>3. CASE FreeInTrash(s) = {} /\ Leave(s) /\ UNCHANGED photoFaults
      BY <1>0, <1>2, <1>3
  <1>4. CASE PhotoFault /\ Leave(s)
      BY <1>2, <1>4, FaultStep
  <1> QED
      BY <1>1, <1>3, <1>4, Zenon DEF ProbeTrash

LEMMA MoveStep == ASSUME PhotoInv, NEW s \in Sources, MoveSource(s) PROVE PhotoInv'
  <1> DEFINE spot == job.dest
  <1>0. /\ job \in JobType /\ Key \in Keys /\ photoFaults \in Nat /\ dropped \in Nat
        /\ job.pc = "move" /\ s = spot[1] /\ Leave(s) /\ job.read \subseteq Ids
        /\ UNCHANGED <<pdfAt, filed, swapped, dropped, userPdfs>>
        /\ photoAt \in [Sources -> Nat] /\ parked \in [TrashSpots -> Int]
      BY JobFields DEF MoveSource, PhotoInv, PhotoTyped
  <1>1. /\ spot \in TrashSpots /\ s \in job.srcs /\ parked[spot] = 0
        /\ pdfAt[Key].kind = "pages" /\ pdfAt[Key].of = job.read
        /\ \A t \in job.srcs : photoAt[t] # 0 /\ photoAt[t] \in job.read \cup swapped
      BY <1>0 DEF PhotoInv, JobHeld
  <1>2. /\ job' \in JobType /\ job'.pc = "probe" /\ job'.srcs = job.srcs \ {s}
        /\ job'.read = job.read /\ job'.base = job.base /\ job'.n = job.n
      BY <1>0, LeaveFields
  <1>3. PICK copy \in Int :
          /\ parked' = [parked EXCEPT ![spot] = copy] /\ copy \in {0, CutShort, photoAt[s]}
          /\ \/ photoAt' = [photoAt EXCEPT ![s] = 0] /\ copy = photoAt[s] /\ UNCHANGED photoFaults
             \/ UNCHANGED photoAt /\ PhotoFault
    <2>1. photoAt[s] \in Int /\ 0 \in Int /\ CutShort \in Int
        BY <1>0 DEF CutShort
    <2> QED
        BY <2>1 DEF MoveSource
  <1> HIDE DEF spot
  <1>4. photoFaults' \in Nat /\ (photoFaults' = 0 => photoFaults = 0)
        /\ (photoFaults' = 0 => photoAt' = [photoAt EXCEPT ![s] = 0])
      BY <1>0, <1>3, FaultStep
  <1>5. /\ photoAt' \in [Sources -> Nat] /\ photoAt'[s] \in {0, photoAt[s]}
        /\ \A t \in Sources : t # s => photoAt'[t] = photoAt[t]
      BY <1>0, <1>3
  <1>6. /\ parked' \in [TrashSpots -> Int] /\ parked'[spot] = copy
        /\ \A k \in TrashSpots : k # spot => parked'[k] = parked[k]
      BY <1>0, <1>1, <1>3
  <1>7. PhotoTyped' /\ Known'
    <2>1. PhotoTyped'
        BY <1>0, <1>2, <1>4, <1>5, <1>6 DEF PhotoInv, PhotoTyped
    <2>2. Known'
        BY <1>0, <1>2, <1>5 DEF PhotoInv, Known, Ids
    <2> QED
        BY <2>1, <2>2
  <1>8. JobHeld'
    <2>1. Key' = Key /\ pdfAt' = pdfAt
        BY <1>0, <1>2 DEF Key
    <2>2. \A t \in job'.srcs : photoAt'[t] # 0 /\ photoAt'[t] \in job.read \cup swapped
      <3>1. job.srcs \subseteq Sources
          BY JobFields
      <3> QED
          BY <1>1, <1>2, <1>5, <3>1
    <2> QED
        BY <1>0, <1>1, <1>2, <2>1, <2>2 DEF JobHeld
  <1>9. UserPdfKept'
      BY <1>0 DEF PhotoInv, UserPdfKept, Pdfs
  <1>10. NoPhotoLost'
    <2>1. ASSUME NEW id \in (1..dropped) \ swapped, id \in {photoAt[t] : t \in Sources} \cup Trash
          PROVE  id \in {photoAt'[t] : t \in Sources} \cup Trash'
      <3>1. CASE \E t \in Sources : id = photoAt[t]
          BY <1>0, <1>1, <1>3, <1>5, <1>6, <3>1 DEF Trash
      <3>2. CASE \E k \in TrashSpots : id = parked[k]
        <4>1. PICK k \in TrashSpots : id = parked[k]
            BY <3>2
        <4>2. k # spot
            BY <1>1, <4>1
        <4> QED
            BY <1>6, <4>1, <4>2 DEF Trash
      <3> QED
          BY <2>1, <3>1, <3>2 DEF Trash
    <2> QED
        BY <1>0, <2>1 DEF PhotoInv, NoPhotoLost
  <1>11. ParkedHasPdf'
    <2>1. \A id \in Trash' : id \in Trash \/ id = copy
        BY <1>6 DEF Trash
    <2>2. Pdfs' = Pdfs /\ filed' = filed /\ swapped' = swapped
        BY <1>0 DEF Pdfs
    <2>3. copy \notin {0, CutShort} \cup swapped => copy \in pdfAt[Key].of
        BY <1>1, <1>3
    <2>4. pdfAt[Key] \in Pdfs
        BY <1>0 DEF Pdfs, Keys
    <2> QED
        BY <1>1, <2>1, <2>2, <2>3, <2>4 DEF PhotoInv, ParkedHasPdf, CutShort
  <1>12. ASSUME Undisturbed' PROVE DocumentsDiffer' /\ WaitingFresh' /\ ReadFresh'
    <2>1. \A k \in TrashSpots : parked[k] # 0 => parked'[k] # 0
        BY <1>1, <1>6
    <2>2. DocumentsDiffer /\ WaitingFresh
        BY <1>4, <1>12, <2>1, StillUndisturbed
    <2>3. photoAt' = [photoAt EXCEPT ![s] = 0]
        BY <1>4, <1>12 DEF Undisturbed
    <2>4. photoAt'[s] = 0
        BY <1>0, <2>3
    <2>5. DocumentsDiffer'
        BY <1>0, <1>5, <2>2, <2>4 DEF DocumentsDiffer
    <2>6. Engaged = job.srcs /\ Engaged' = job.srcs \ {s}
        BY <1>0, <1>2 DEF Engaged
    <2>7. \A id : Unfiled(id) => Unfiled(id)'
        BY <1>0 DEF Unfiled
    <2>8. WaitingFresh'
        BY <1>5, <2>2, <2>4, <2>6, <2>7 DEF WaitingFresh
    <2> QED
        BY <1>2, <2>5, <2>8 DEF ReadFresh
  <1> QED
      BY <1>7, <1>8, <1>9, <1>10, <1>11, <1>12 DEF PhotoInv

\* The photograph itself is filed.
LEMMA AsIsStep == ASSUME PhotoInv, TriageAsIs PROVE PhotoInv'
  <1>0. /\ job.pc = "asis" /\ job.base \in Sources /\ photoFaults \in Nat /\ dropped \in Nat
        /\ photoAt \in [Sources -> Nat] /\ Engaged = {}
        /\ UNCHANGED <<pdfAt, parked, swapped, dropped, userPdfs>>
      BY DEF TriageAsIs, PhotoInv, PhotoTyped, JobHeld, Engaged
  <1>1. /\ job' \in JobType /\ job'.pc = "file" /\ job'.read = job.read /\ job'.srcs = job.srcs
      BY JobAt DEF TriageAsIs, Step, PhotoPlaces
  <1>2. JobHeld' /\ Engaged' = {} /\ job'.read \subseteq Ids
      BY <1>1, JobFields DEF JobHeld, Engaged
  <1>3. ASSUME PhotoFault, UNCHANGED <<filed, photoAt>> PROVE PhotoInv'
    <2>1. photoFaults' \in Nat /\ photoFaults' # 0
        BY <1>3, FaultStep
    <2> QED
        BY <1>0, <1>1, <1>2, <1>3, <2>1, JobStep DEF Undisturbed
  <1>4. ASSUME photoAt[job.base] # 0, filed' = filed \cup {[kind |-> "photo", of |-> {photoAt[job.base]}]},
               photoAt' = [photoAt EXCEPT ![job.base] = 0], UNCHANGED photoFaults
        PROVE  PhotoInv'
    <2> DEFINE made == [kind |-> "photo", of |-> {photoAt[job.base]}]
               b == job.base
    <2>1. made.of = {photoAt[b]} /\ filed' = filed \cup {made} /\ b \in Sources
        BY <1>0, <1>4
    <2>2. /\ photoAt' \in [Sources -> Nat] /\ photoAt'[b] = 0
          /\ \A t \in Sources : t # b => photoAt'[t] = photoAt[t]
        BY <1>0, <1>4
    <2>3. photoAt[b] \in Ids
        BY <1>4, <2>1 DEF PhotoInv, Known
    <2>4. \A id : id = photoAt[b] => [kind |-> "photo", of |-> {id}] = made
        OBVIOUS
    <2> HIDE DEF made, b
    <2>5. PhotoTyped'
        BY <1>0, <1>1, <1>4, <2>2 DEF PhotoInv, PhotoTyped
    <2>6. Known'
        BY <1>0, <1>2, <2>1, <2>2, <2>3 DEF PhotoInv, Known, Ids
    <2>7. DocumentsStay
        BY <1>0, <2>1 DEF DocumentsStay, Pdfs
    <2>8. UserPdfKept' /\ ParkedHasPdf'
        BY <1>0, <2>7, StayKept
    <2>9. NoPhotoLost'
      <3>1. ASSUME NEW id \in (1..dropped) \ swapped
            PROVE  id \in {photoAt'[t] : t \in Sources} \cup Trash' \/ [kind |-> "photo", of |-> {id}] \in filed'
        <4>1. Trash' = Trash
            BY <1>0 DEF Trash
        <4>2. CASE \E t \in Sources : id = photoAt[t]
            BY <2>1, <2>2, <2>4, <4>2
        <4>3. CASE id \in Trash \/ [kind |-> "photo", of |-> {id}] \in filed
            BY <2>1, <4>1, <4>3
        <4> QED
            BY <3>1, <4>2, <4>3 DEF PhotoInv, NoPhotoLost
      <3> QED
          BY <1>0, <3>1 DEF NoPhotoLost
    <2>10. ASSUME Undisturbed' PROVE DocumentsDiffer' /\ WaitingFresh' /\ ReadFresh'
      <3>1. DocumentsDiffer /\ WaitingFresh
          BY <1>0, <1>4, <2>10 DEF PhotoInv, Undisturbed, TrashFull
      <3>2. Unfiled(photoAt[b])
          BY <1>0, <1>4, <2>1, <3>1 DEF WaitingFresh, b
      <3>3. DocumentsDiffer'
        <4>1. /\ \A k, l \in Keys : k # l => pdfAt'[k].of \cap pdfAt'[l].of = {}
              /\ \A k \in Keys : \A d \in filed' : pdfAt'[k].of \cap d.of = {}
            BY <1>0, <2>1, <3>1, <3>2 DEF DocumentsDiffer, Unfiled
        <4>2. \A d, e \in filed' : d # e => d.of \cap e.of = {}
            BY <2>1, <3>1, <3>2 DEF DocumentsDiffer, Unfiled
        <4>3. \A s, t \in Sources : photoAt'[s] = photoAt'[t] /\ photoAt'[s] # 0 => s = t
            BY <2>2, <3>1 DEF DocumentsDiffer
        <4> QED
            BY <4>1, <4>2, <4>3 DEF DocumentsDiffer
      <3>4. \A id : Unfiled(id) /\ id # photoAt[b] => Unfiled(id)'
          BY <1>0, <2>1 DEF Unfiled
      <3>5. \A t \in Sources : photoAt'[t] # 0 => photoAt'[t] = photoAt[t] /\ photoAt[t] # photoAt[b]
          BY <2>1, <2>2, <3>1 DEF DocumentsDiffer
      <3>6. WaitingFresh'
          BY <1>0, <1>2, <3>1, <3>4, <3>5 DEF WaitingFresh
      <3> QED
          BY <1>1, <3>3, <3>6 DEF ReadFresh
    <2> QED
        BY <1>2, <2>5, <2>6, <2>8, <2>9, <2>10 DEF PhotoInv
  <1> QED
      BY <1>3, <1>4 DEF TriageAsIs

\* A photograph nobody has seen arrives, perhaps in the place of another one.
LEMMA DropPhotoStep == ASSUME PhotoInv, NEW s \in Sources, DropPhoto(s) PROVE PhotoInv'
  <1>0. /\ dropped \in Nat /\ dropped' = dropped + 1 /\ photoFaults \in Nat
        /\ photoAt \in [Sources -> Nat] /\ photoAt' = [photoAt EXCEPT ![s] = dropped']
        /\ UNCHANGED <<pdfAt, parked, filed, job, userPdfs, photoFaults>>
        /\ swapped \subseteq swapped' /\ swapped' \subseteq swapped \cup {photoAt[s], dropped'}
        /\ (photoAt[s] # 0 => {photoAt[s], dropped'} \subseteq swapped')
      BY DEF DropPhoto, PhotoInv, PhotoTyped
  <1>1. /\ dropped' \in Nat /\ dropped' # 0 /\ dropped' \notin Ids /\ Ids' = Ids \cup {dropped'}
      BY <1>0 DEF Ids
  <1>2. /\ photoAt' \in [Sources -> Nat] /\ photoAt'[s] = dropped'
        /\ \A t \in Sources : t # s => photoAt'[t] = photoAt[t]
      BY <1>0, <1>1
  <1>3. PhotoTyped' /\ Known'
    <2>1. PhotoTyped'
        BY <1>0, <1>1, <1>2 DEF PhotoInv, PhotoTyped
    <2>2. Known'
        BY <1>0, <1>1, <1>2 DEF PhotoInv, Known
    <2> QED
        BY <2>1, <2>2
  <1>4. JobHeld'
    <2>1. Key' = Key /\ job' = job /\ pdfAt' = pdfAt /\ parked' = parked
        BY <1>0 DEF Key
    <2>2. ASSUME \A t \in job.srcs : photoAt[t] # 0 /\ photoAt[t] \in job.read \cup swapped
          PROVE  \A t \in job.srcs : photoAt'[t] # 0 /\ photoAt'[t] \in job.read \cup swapped'
      <3>1. job.srcs \subseteq Sources
          BY JobFields
      <3> QED
          BY <1>0, <1>1, <1>2, <2>2, <3>1
    <2> QED
        BY <2>1, <2>2 DEF PhotoInv, JobHeld
  <1>5. NoPhotoLost'
    <2>1. ASSUME NEW id \in (1..dropped') \ swapped'
          PROVE  id \in {photoAt'[t] : t \in Sources} \cup Trash \/ [kind |-> "photo", of |-> {id}] \in filed
      <3>1. CASE id = dropped'
          BY <1>2, <3>1
      <3>2. CASE id # dropped'
        <4>1. id \in (1..dropped) \ swapped
            BY <1>0, <2>1, <3>2
        <4>2. CASE \E t \in Sources : id = photoAt[t]
          <5>1. PICK t \in Sources : id = photoAt[t]
              BY <4>2
          <5>2. t # s
              BY <1>0, <2>1, <4>1, <5>1
          <5> QED
              BY <1>2, <5>1, <5>2
        <4>3. CASE id \in Trash \/ [kind |-> "photo", of |-> {id}] \in filed
            BY <4>3
        <4> QED
            BY <4>1, <4>2, <4>3 DEF PhotoInv, NoPhotoLost
      <3> QED
          BY <3>1, <3>2
    <2>2. Trash' = Trash /\ filed' = filed
        BY <1>0 DEF Trash
    <2> QED
        BY <2>1, <2>2 DEF NoPhotoLost
  <1>6. UserPdfKept' /\ ParkedHasPdf'
      BY <1>0 DEF PhotoInv, UserPdfKept, ParkedHasPdf, Pdfs, Trash
  <1>7. ASSUME Undisturbed' PROVE DocumentsDiffer' /\ WaitingFresh' /\ ReadFresh'
    <2>1. DocumentsDiffer /\ WaitingFresh /\ ReadFresh
        BY <1>0, <1>7 DEF PhotoInv, Undisturbed, TrashFull
    <2>2. \A t \in Sources : photoAt[t] # dropped'
        BY <1>0, <1>1 DEF PhotoInv, Known
    <2>3. DocumentsDiffer'
        BY <1>0, <1>2, <2>1, <2>2 DEF DocumentsDiffer
    <2>4. Unfiled(dropped') /\ \A id : Unfiled(id) => Unfiled(id)'
        BY <1>0, <1>1 DEF Unfiled, PhotoInv, Known
    <2>5. Engaged' = Engaged
        BY <1>0 DEF Engaged
    <2>6. WaitingFresh'
        BY <1>2, <2>1, <2>4, <2>5 DEF WaitingFresh
    <2>7. dropped' \notin job.read
        BY <1>1, JobFields
    <2>8. ReadFresh'
        BY <1>0, <1>2, <2>1, <2>4, <2>7 DEF ReadFresh
    <2> QED
        BY <2>3, <2>6, <2>8
  <1> QED
      BY <1>3, <1>4, <1>5, <1>6, <1>7 DEF PhotoInv

\* The user's PDF takes a name nothing has.
LEMMA DropPdfStep ==
    ASSUME PhotoInv, PhotoAssumption, NEW b \in Singles \cup {Folder}, DropPdf(b) PROVE PhotoInv'
  <1> DEFINE k == <<b, 0>>
             made == [kind |-> "user", of |-> {}]
  <1>0. /\ k \in Keys /\ pdfAt[k] = NoPdf /\ pdfAt' = [pdfAt EXCEPT ![k] = made]
        /\ made \in DocumentType /\ made.of = {} /\ made.kind = "user" /\ NoPdf.kind = "none" /\ NoPdf.of = {}
        /\ pdfAt \in [Keys -> DocumentType] /\ userPdfs' \in Nat /\ photoFaults \in Nat
        /\ UNCHANGED <<photoAt, parked, filed, job, swapped, dropped, photoFaults>>
    <2>1. b \in Bases /\ 0 \in PdfSuffixes
        BY PhotoAssumption DEF Bases, Sources, PdfSuffixes
    <2>2. made \in DocumentType /\ made.of = {} /\ made.kind = "user" /\ NoPdf.kind = "none" /\ NoPdf.of = {}
        BY DEF DocumentType, Kinds, NoPdf
    <2> QED
        BY <2>1, <2>2 DEF DropPdf, PhotoInv, PhotoTyped, Keys
  <1> HIDE DEF k
  <1>d. made = [kind |-> "user", of |-> {}]
      OBVIOUS
  <1> HIDE DEF made
  <1>1. /\ pdfAt' \in [Keys -> DocumentType] /\ pdfAt'[k] = made
        /\ \A l \in Keys : l # k => pdfAt'[l] = pdfAt[l]
      BY <1>0
  <1>2. \A l \in Keys : pdfAt'[l].of = pdfAt[l].of
      BY <1>0, <1>1
  <1>3. PhotoTyped' /\ Known'
    <2>1. PhotoTyped'
        BY <1>0, <1>1 DEF PhotoInv, PhotoTyped
    <2>2. Known'
        BY <1>0, <1>2 DEF PhotoInv, Known, Ids
    <2> QED
        BY <2>1, <2>2
  <1>4. JobHeld'
    <2>1. Key' = Key /\ job' = job /\ parked' = parked /\ photoAt' = photoAt /\ swapped' = swapped
        BY <1>0 DEF Key
    <2>2. job.pc \in {"write", "extract", "probe", "move", "folder", "triage"} => pdfAt[Key].kind # "none"
        BY DEF PhotoInv, JobHeld
    <2>3. Key \in Keys
        BY JobFields
    <2>4. job.pc \in {"write", "extract", "probe", "move", "folder", "triage"} => pdfAt'[Key] = pdfAt[Key]
        BY <1>0, <1>1, <2>2, <2>3
    <2> QED
        BY <2>1, <2>4 DEF PhotoInv, JobHeld
  <1>5. NoPhotoLost'
      BY <1>0 DEF PhotoInv, NoPhotoLost, Trash
  <1>6. UserPdfKept'
    <2>1. made \in Pdfs'
        BY <1>0, <1>1 DEF Pdfs, Keys
    <2> QED
        BY <2>1, <1>d DEF UserPdfKept
  <1>7. ParkedHasPdf'
    <2>1. \A d \in Pdfs \cup filed : d.kind = "pages" => d \in Pdfs' \cup filed'
        BY <1>0, <1>1 DEF Pdfs, Keys
    <2>2. Trash' = Trash /\ swapped' = swapped
        BY <1>0 DEF Trash
    <2> QED
        BY <2>1, <2>2 DEF PhotoInv, ParkedHasPdf
  <1>8. ASSUME Undisturbed' PROVE DocumentsDiffer' /\ WaitingFresh' /\ ReadFresh'
    <2>1. DocumentsDiffer /\ WaitingFresh /\ ReadFresh
        BY <1>0, <1>8 DEF PhotoInv, Undisturbed, TrashFull
    <2>2. DocumentsDiffer'
        BY <1>0, <1>2, <2>1 DEF DocumentsDiffer
    <2>3. \A id : Unfiled(id) => Unfiled(id)'
        BY <1>0, <1>2 DEF Unfiled
    <2>4. Engaged' = Engaged
        BY <1>0 DEF Engaged
    <2>5. WaitingFresh' /\ ReadFresh'
        BY <1>0, <2>1, <2>3, <2>4 DEF WaitingFresh, ReadFresh
    <2> QED
        BY <2>2, <2>5
  <1> QED
      BY <1>3, <1>4, <1>5, <1>6, <1>7, <1>8 DEF PhotoInv

LEMMA PhotoStart == ASSUME PhotoInit, PhotoAssumption PROVE PhotoInv
  <1>1. /\ NoPdf \in DocumentType /\ NoPdf.of = {}
        /\ \A k \in Keys : pdfAt[k] = NoPdf
        /\ pdfAt \in [Keys -> DocumentType]
      BY DEF PhotoInit, Keys, NoPdf, DocumentType, Kinds
  <1>2. job \in JobType /\ job.pc = "idle" /\ job.read = {}
      BY NewJob DEF PhotoInit
  <1>3. PhotoTyped /\ Known /\ JobHeld
    <2>1. PhotoTyped
        BY <1>1, <1>2 DEF PhotoInit, PhotoTyped
    <2>2. Known
        BY <1>1, <1>2 DEF PhotoInit, Known
    <2> QED
        BY <1>2, <2>1, <2>2 DEF JobHeld
  <1>4. NoPhotoLost /\ UserPdfKept /\ ParkedHasPdf
    <2>1. NoPhotoLost /\ UserPdfKept
        BY DEF PhotoInit, NoPhotoLost, UserPdfKept
    <2>2. \A id \in Trash : id = 0
        BY DEF PhotoInit, Trash
    <2> QED
        BY <2>1, <2>2 DEF ParkedHasPdf
  <1>5. DocumentsDiffer /\ WaitingFresh /\ ReadFresh
      BY <1>1, <1>2 DEF PhotoInit, DocumentsDiffer, WaitingFresh, ReadFresh
  <1> QED
      BY <1>3, <1>4, <1>5 DEF PhotoInv

LEMMA PhotoStutter == ASSUME PhotoInv, UNCHANGED photoVars PROVE PhotoInv'
  <1>1. UNCHANGED <<photoAt, pdfAt, parked, filed, swapped, dropped, userPdfs, photoFaults, job>>
      BY DEF photoVars
  <1>2. PhotoTyped' /\ Known' /\ JobHeld'
      BY <1>1 DEF PhotoInv, PhotoTyped, Known, JobHeld, Key, Ids
  <1>3. NoPhotoLost' /\ UserPdfKept' /\ ParkedHasPdf'
      BY <1>1 DEF PhotoInv, NoPhotoLost, UserPdfKept, ParkedHasPdf, Trash, Pdfs
  <1>4. Undisturbed' => DocumentsDiffer' /\ WaitingFresh' /\ ReadFresh'
      BY <1>1 DEF PhotoInv, Undisturbed, TrashFull, DocumentsDiffer, WaitingFresh, ReadFresh, Unfiled, Engaged
  <1> QED
      BY <1>2, <1>3, <1>4 DEF PhotoInv

LEMMA PhotoSteps == ASSUME PhotoInv, PhotoAssumption, [PhotoNext]_photoVars PROVE PhotoInv'
  <1>1. CASE BeginScan \/ EndScan
      BY <1>1, BeginScanStep
  <1>2. CASE Walk \/ RemoveFolder \/ SourcesMoved
      BY <1>2, WalkStep, RemoveFolderStep, SourcesMovedStep
  <1>3. CASE Render \/ Claim \/ Write \/ Extract
      BY <1>3, RenderStep, PdfClaimStep, WriteStep, ExtractStep
  <1>4. CASE TriagePdf \/ \E k \in Bases \X PdfSuffixes : TurnOfPdf(k)
      BY <1>4, PdfSteps DEF Keys
  <1>5. CASE TriageAsIs
      BY <1>5, AsIsStep
  <1>6. CASE \E s \in Sources : TurnOfPhoto(s) \/ ProbeTrash(s) \/ MoveSource(s) \/ DropPhoto(s)
      BY <1>6, PhotoTurnStep, TrashProbeStep, MoveStep, DropPhotoStep
  <1>7. CASE \E b \in Singles \cup {Folder} : DropPdf(b)
      BY <1>7, DropPdfStep
  <1>8. CASE UNCHANGED photoVars
      BY <1>8, PhotoStutter
  <1> QED
      BY <1>1, <1>2, <1>3, <1>4, <1>5, <1>6, <1>7, <1>8 DEF PhotoNext

\* Documents that share no photograph: a photograph is in one of them at most.
DocumentsOf(id) == {d \in Pdfs \cup filed : id \in d.of}

LEMMA OneDocumentOf ==
    ASSUME DocumentsDiffer, NEW id PROVE Cardinality(DocumentsOf(id)) <= 1
  <1>1. \A d, e \in DocumentsOf(id) : d = e
      BY DEF DocumentsDiffer, Pdfs, Keys, DocumentsOf
  <1>2. CASE DocumentsOf(id) = {}
      BY <1>2, FS_EmptySet
  <1>3. CASE DocumentsOf(id) # {}
    <2>1. PICK d : d \in DocumentsOf(id)
        BY <1>3
    <2>2. DocumentsOf(id) = {d}
        BY <1>1, <2>1
    <2>3. Cardinality({d}) = 1
        BY FS_Singleton
    <2> QED
        BY <2>2, <2>3
  <1> QED
      BY <1>2, <1>3

LEMMA OneDocument == ASSUME PhotoInv PROVE OneDocumentUnlessFault
  <1>1. photoFaults = 0 /\ ~TrashFull => DocumentsDiffer
      BY DEF PhotoInv, Undisturbed
  <1>2. DocumentsDiffer => \A id : Cardinality(DocumentsOf(id)) <= 1
      BY OneDocumentOf
  <1> QED
      BY <1>1, <1>2, Zenon DEF OneDocumentUnlessFault, DocumentsOf

\* PhotosKept: no photograph is lost, no PDF of the user is written over, a
\* photograph in the trash is on a page of a whole PDF, and without a fault a
\* photograph becomes one document, for any names, numbers of photographs and
\* number of suffixes the code may try (convertimage.go, MaxPdfNameAttempts).
THEOREM PhotosKeptTheorem == PhotoSpec => []PhotosKept
  <1>1. PhotoInit => PhotoInv
      BY PhotoStart, PhotoAssumption
  <1>2. PhotoInv /\ [PhotoNext]_photoVars => PhotoInv'
      BY PhotoSteps, PhotoAssumption
  <1>3. PhotoInv => PhotosKept
      BY OneDocument DEF PhotoInv, PhotosKept
  <1> QED
      BY <1>1, <1>2, <1>3, PTL DEF PhotoSpec

\* PapersWhole: what becomes of a paper, from a photograph to its PDF and from
\* a text to all of its Markdown.
THEOREM PapersWholeTheorem == PhotoSpec /\ FlowSpec => []PapersWhole
  <1>1. PhotosKept /\ TextWhole => PapersWhole
      BY DEF PapersWhole
  <1> QED
      BY <1>1, PhotosKeptTheorem, TextWholeTheorem, PTL

-----------------------------------------------------------------------------
(* The chat.  Copies of a month are one in three of what is fetched at      *)
(* worst, so three times the limit has as many months as were asked for.    *)

\* As many as three of a set share an image: it has three times as many.
LEMMA ThreeOfEach ==
    ASSUME NEW S, IsFiniteSet(S), NEW T, IsFiniteSet(T), NEW f \in [S -> T],
           \A t \in T : Cardinality({s \in S : f[s] = t}) <= 3
    PROVE  Cardinality(S) <= 3 * Cardinality(T)
  <1> DEFINE Fibre(t) == {s \in S : f[s] = t}
             Number(t) == CHOOSE g : g \in Injection(Fibre(t), 1..3)
             h == [s \in S |-> <<f[s], Number(f[s])[s]>>]
  <1>1. ASSUME NEW t \in T PROVE Number(t) \in Injection(Fibre(t), 1..3)
    <2> DEFINE F == Fibre(t)
               n == Cardinality(F)
    <2>1. IsFiniteSet(F) /\ n <= 3
        BY FS_Subset
    <2> HIDE DEF F
    <2>2. n \in Nat /\ ExistsBijection(1..n, F)
        BY <2>1, FS_CardinalityType
    <2>3. ExistsBijection(F, 1..n)
        BY <2>2, Fun_ExistsBijSymmetric
    <2>4. PICK g : g \in Bijection(F, 1..n)
        BY <2>3 DEF ExistsBijection
    <2>5. g \in [F -> 1..n] /\ \A a, b \in F : g[a] = g[b] => a = b
        BY <2>4 DEF Bijection, Injection, IsInjective
    <2>6. g \in [F -> 1..3]
        BY <2>1, <2>2, <2>5
    <2>7. g \in Injection(F, 1..3)
        BY <2>5, <2>6, Fun_IsInj
    <2> QED
        BY <2>7 DEF F
  <1> HIDE DEF Number
  <1>2. ASSUME NEW s \in S PROVE s \in Fibre(f[s]) /\ f[s] \in T /\ Number(f[s])[s] \in 1..3
    <2>1. s \in Fibre(f[s]) /\ f[s] \in T
        OBVIOUS
    <2>2. Number(f[s]) \in [Fibre(f[s]) -> 1..3]
        BY <1>1, <2>1 DEF Injection
    <2> QED
        BY <2>1, <2>2
  <1>3. h \in [S -> T \X (1..3)]
      BY <1>2
  <1>4. ASSUME NEW a \in S, NEW b \in S, h[a] = h[b] PROVE a = b
    <2>1. f[a] = f[b] /\ Number(f[a])[a] = Number(f[b])[b]
        BY <1>4
    <2>2. a \in Fibre(f[a]) /\ b \in Fibre(f[a]) /\ f[a] \in T
        BY <1>2, <2>1
    <2>3. \A x, y \in Fibre(f[a]) : Number(f[a])[x] = Number(f[a])[y] => x = y
        BY <1>1, <2>2 DEF Injection, IsInjective
    <2> QED
        BY <2>1, <2>2, <2>3
  <1> HIDE DEF h
  <1>5. h \in Injection(S, T \X (1..3))
      BY <1>3, <1>4, Fun_IsInj
  <1>6. IsFiniteSet(1..3) /\ Cardinality(1..3) = 3
    <2>1. 1 \in Int /\ 3 \in Int /\ ~(1 > 3) /\ 3 - 1 + 1 = 3
        OBVIOUS
    <2>2. IsFiniteSet(1..3) /\ Cardinality(1..3) = IF 1 > 3 THEN 0 ELSE 3 - 1 + 1
        BY <2>1, FS_Interval, Zenon
    <2> QED
        BY <2>1, <2>2
  <1>7. IsFiniteSet(T \X (1..3)) /\ Cardinality(T \X (1..3)) = Cardinality(T) * Cardinality(1..3)
      BY <1>6, FS_Product
  <1>8. Cardinality(S) <= Cardinality(T \X (1..3))
      BY <1>5, <1>7, FS_Injection
  <1>9. Cardinality(T) \in Nat
      BY FS_CardinalityType
  <1> QED
      BY <1>6, <1>7, <1>8, <1>9

\* Of finitely many documents one has the highest id.
LEMMA HighestId ==
    ASSUME NEW S, IsFiniteSet(S), S # {}, \A d \in S : d.id \in Nat
    PROVE  \E d \in S : \A e \in S : e.id <= d.id
  <1> DEFINE Above(d) == {e \in S : e.id > d.id}
             I == {Cardinality(Above(d)) : d \in S}
  <1>1. \A d \in S : IsFiniteSet(Above(d)) /\ Cardinality(Above(d)) \in Nat
      BY FS_Subset, FS_CardinalityType
  <1>2. I \subseteq Nat /\ I # {}
      BY <1>1
  <1>3. PICK d \in S : Cardinality(Above(d)) = Min(I)
    <2> HIDE DEF I
    <2>1. Min(I) \in I
        BY <1>2, LeastIndex
    <2> QED
        BY <2>1 DEF I
  <1>4. \A e \in S : Cardinality(Above(d)) <= Cardinality(Above(e))
    <2>1. \A e \in S : Cardinality(Above(e)) \in I
        OBVIOUS
    <2> HIDE DEF I
    <2> QED
        BY <1>2, <1>3, <2>1, LeastIndex
  <1>5. ASSUME NEW e \in S, ~(e.id <= d.id) PROVE FALSE
    <2>1. Above(e) \subseteq Above(d) /\ e \in Above(d) /\ e \notin Above(e)
        BY <1>5
    <2>2. Cardinality(Above(e)) <= Cardinality(Above(d)) /\ Cardinality(Above(d)) # Cardinality(Above(e))
      <3> HIDE DEF Above
      <3> QED
          BY <1>1, <2>1, FS_Subset
    <2>3. Cardinality(Above(d)) <= Cardinality(Above(e))
        BY <1>4
    <2>4. Cardinality(Above(d)) \in Nat /\ Cardinality(Above(e)) \in Nat
        BY <1>1
    <2> HIDE DEF Above
    <2> QED
        BY <2>2, <2>3, <2>4
  <1> QED
      BY <1>5

ShelfDocuments == [id : Nat, words : SUBSET STRING, category : STRING, subcategory : STRING, date : Nat]

LEMMA ShelfFacts ==
    ASSUME ChatAssumption
    PROVE  /\ IsFiniteSet(Shelf) /\ Shelf \subseteq ShelfDocuments
           /\ \A d, e \in Shelf : d.id = e.id => d = e
           /\ \A d \in Shelf : d.id \in Nat /\ d.date \in Nat
           /\ \A S : S \subseteq Shelf => IsFiniteSet(S)
  <1>1. Shelf \subseteq ShelfDocuments
      BY ChatAssumption DEF ShelfDocuments
  <1>2. \A d \in Shelf : d.id \in Nat /\ d.date \in Nat
      BY <1>1 DEF ShelfDocuments
  <1>3. ASSUME NEW S, S \subseteq Shelf PROVE IsFiniteSet(S)
      BY <1>3, ChatAssumption, FS_Subset
  <1> QED
      BY <1>1, <1>2, <1>3, ChatAssumption

LEMMA PeriodsAlike ==
    /\ \A d : SamePeriod(d, d)
    /\ \A d, e : SamePeriod(d, e) => SamePeriod(e, d)
    /\ \A d, e, g : SamePeriod(d, e) /\ SamePeriod(e, g) => SamePeriod(d, g)
  BY DEF SamePeriod

LEMMA OneOfEachPeriod ==
    ASSUME ChatAssumption, NEW S, S \subseteq Shelf
    PROVE  /\ DedupeByPeriod(S) \subseteq S
           /\ \A d, e \in DedupeByPeriod(S) : SamePeriod(d, e) => d = e
           /\ \A d \in S : \E e \in DedupeByPeriod(S) : SamePeriod(d, e)
  <1> USE ShelfFacts
  <1>1. DedupeByPeriod(S) \subseteq S
      BY DEF DedupeByPeriod
  <1>2. ASSUME NEW d \in DedupeByPeriod(S), NEW e \in DedupeByPeriod(S), SamePeriod(d, e) PROVE d = e
    <2>1. d.id <= e.id /\ e.id <= d.id
        BY <1>2, PeriodsAlike DEF DedupeByPeriod
    <2>2. d \in Shelf /\ e \in Shelf
        BY <1>1
    <2> QED
        BY <2>1, <2>2
  <1>3. ASSUME NEW d \in S PROVE \E e \in DedupeByPeriod(S) : SamePeriod(d, e)
    <2> DEFINE P == {e \in S : SamePeriod(d, e)}
    <2>1. d \in P /\ P \subseteq Shelf
        BY PeriodsAlike
    <2>2. IsFiniteSet(P) /\ \A e \in P : e.id \in Nat
        BY <2>1
    <2>3. PICK e \in P : \A g \in P : g.id <= e.id
      <3> HIDE DEF P
      <3> QED
          BY <2>1, <2>2, HighestId
    <2>4. \A g \in S : SamePeriod(e, g) => g \in P
        BY PeriodsAlike
    <2>5. e \in DedupeByPeriod(S)
        BY <2>3, <2>4 DEF DedupeByPeriod
    <2> QED
        BY <2>3, <2>5
  <1> QED
      BY <1>1, <1>2, <1>3

\* A set with no two documents of a month stays as it is.
LEMMA DedupeTwice ==
    ASSUME ChatAssumption, NEW S, S \subseteq Shelf, \A d, e \in S : SamePeriod(d, e) => d = e
    PROVE  DedupeByPeriod(S) = S
  BY ShelfFacts DEF DedupeByPeriod

LEMMA SliceFacts ==
    ASSUME NEW docs, IsFiniteSet(docs), NEW n \in Nat, NEW s \in Slices(n, docs)
    PROVE  /\ s \subseteq docs /\ IsFiniteSet(s) /\ Cardinality(docs) \in Nat
           /\ Cardinality(s) = IF n < Cardinality(docs) THEN n ELSE Cardinality(docs)
           /\ Cardinality(docs) <= n => s = docs
           /\ n # 0 /\ docs # {} => s # {}
  <1>1. Cardinality(docs) \in Nat
      BY FS_CardinalityType
  <1>2. /\ s \subseteq docs
        /\ Cardinality(s) = IF n < Cardinality(docs) THEN n ELSE Cardinality(docs)
      BY DEF Slices, kSubset
  <1>3. IsFiniteSet(s)
      BY <1>2, FS_Subset
  <1>4. Cardinality(docs) <= n => s = docs
    <2>1. Cardinality(docs) <= n => Cardinality(s) = Cardinality(docs)
        BY <1>1, <1>2
    <2> QED
        BY <1>2, <2>1, FS_Subset
  <1>5. n # 0 /\ docs # {} => s # {}
    <2>1. docs # {} => Cardinality(docs) # 0
        BY FS_EmptySet
    <2>2. s = {} => Cardinality(s) = 0
        BY FS_EmptySet
    <2> QED
        BY <1>1, <1>2, <2>1, <2>2
  <1> QED
      BY <1>1, <1>2, <1>3, <1>4, <1>5

\* What is kept of the hits: no month twice, and as many as were asked for and
\* found, while none has more copies than the headroom.
LEMMA PlacesOfPeriods ==
    ASSUME ChatAssumption, NEW hits, hits \subseteq Shelf, NEW limit \in Nat \ {0},
           NEW kept \in Kept(hits, limit)
    PROVE  /\ kept \subseteq hits /\ DedupeByPeriod(kept) = kept
           /\ \A d, e \in kept : SamePeriod(d, e) => d = e
           /\ hits # {} => kept # {}
           /\ (\A p \in PeriodsIn(hits) : Cardinality(p) <= fetchHeadroom) =>
                Cardinality(kept) = IF limit < Cardinality(PeriodsIn(hits)) THEN limit
                                    ELSE Cardinality(PeriodsIn(hits))
  <1> DEFINE P == PeriodsIn(hits)
             Class(d) == {e \in hits : SamePeriod(d, e)}
             most == limit * fetchHeadroom
  <1>1. PICK s \in Slices(most, hits) : kept \in Slices(limit, DedupeByPeriod(s))
      BY DEF Kept
  <1> DEFINE T == DedupeByPeriod(s)
  <1>2. most \in Nat /\ most # 0 /\ most = 3 * limit
      BY DEF fetchHeadroom
  <1>3. IsFiniteSet(hits) /\ IsFiniteSet(P)
    <2>1. IsFiniteSet(hits)
        BY ShelfFacts
    <2>2. P \in SUBSET (SUBSET hits)
        BY DEF PeriodsIn
    <2>3. IsFiniteSet(SUBSET hits)
        BY <2>1, FS_SUBSET
    <2> HIDE DEF P
    <2> QED
        BY <2>1, <2>2, <2>3, FS_Subset
  <1> HIDE DEF most
  <1>4. /\ s \subseteq hits /\ IsFiniteSet(s) /\ Cardinality(hits) \in Nat
        /\ Cardinality(s) = IF most < Cardinality(hits) THEN most ELSE Cardinality(hits)
        /\ Cardinality(hits) <= most => s = hits
        /\ hits # {} => s # {}
      BY <1>1, <1>2, <1>3, SliceFacts
  <1>5. /\ T \subseteq s /\ \A d \in s : \E e \in T : SamePeriod(d, e)
        /\ \A d, e \in T : SamePeriod(d, e) => d = e
      BY <1>4, OneOfEachPeriod
  <1>6. IsFiniteSet(T)
      BY <1>4, <1>5, FS_Subset
  <1> HIDE DEF T
  <1>7. /\ kept \subseteq T /\ Cardinality(T) \in Nat
        /\ Cardinality(kept) = IF limit < Cardinality(T) THEN limit ELSE Cardinality(T)
        /\ T # {} => kept # {}
    <2>1. kept \in Slices(limit, T)
        BY <1>1 DEF T
    <2> QED
        BY <1>6, <2>1, SliceFacts
  <1>8. kept \subseteq hits /\ \A d, e \in kept : SamePeriod(d, e) => d = e
      BY <1>4, <1>5, <1>7
  <1>9. DedupeByPeriod(kept) = kept
      BY <1>8, DedupeTwice
  <1>10. hits # {} => kept # {}
      BY <1>4, <1>5, <1>7
  <1>11. ASSUME \A p \in P : Cardinality(p) <= fetchHeadroom
         PROVE  Cardinality(kept) = IF limit < Cardinality(P) THEN limit ELSE Cardinality(P)
    <2> DEFINE c == [d \in T |-> Class(d)]
    <2>1. \A d \in hits : Class(d) \in P
        BY DEF PeriodsIn
    <2>2. \A p \in P : \E d \in hits : p = Class(d)
        BY DEF PeriodsIn
    <2>3. T \subseteq hits
        BY <1>4, <1>5
    <2>4. c \in [T -> P]
        BY <2>1, <2>3
    <2>5. \A d, e \in T : c[d] = c[e] => d = e
      <3>1. \A d \in T : d \in Class(d) /\ c[d] = Class(d)
          BY <2>3, PeriodsAlike
      <3>2. \A d, e \in T : c[d] = c[e] => SamePeriod(d, e)
          BY <3>1, PeriodsAlike
      <3> QED
          BY <1>5, <3>2
    <2>c. \A d \in T : c[d] = Class(d)
        OBVIOUS
    <2> HIDE DEF c, P
    <2>6. c \in Injection(T, P)
        BY <2>4, <2>5, Fun_IsInj
    <2>7. /\ Cardinality(T) <= Cardinality(P) /\ Cardinality(P) \in Nat
          /\ c \in Surjection(T, P) => Cardinality(T) = Cardinality(P)
        BY <1>3, <2>6, FS_Injection, FS_CardinalityType
    <2>8. CASE Cardinality(hits) <= most
      <3>1. s = hits
          BY <1>4, <2>8
      <3>2. ASSUME NEW p \in P PROVE \E d \in T : c[d] = p
        <4>1. PICK d \in hits : p = Class(d)
            BY <2>2
        <4>2. PICK e \in T : SamePeriod(d, e)
            BY <1>5, <3>1
        <4>3. Class(d) = Class(e)
            BY <4>2, PeriodsAlike
        <4> QED
            BY <2>c, <4>1, <4>2, <4>3
      <3>3. c \in Surjection(T, P)
          BY <2>4, <3>2, Fun_IsSurj
      <3> QED
          BY <1>7, <2>7, <3>3
    <2>9. CASE ~(Cardinality(hits) <= most)
      <3>1. Cardinality(s) = 3 * limit
          BY <1>2, <1>4, <2>9
      <3> DEFINE f == [d \in s |-> CHOOSE e \in T : SamePeriod(d, e)]
      <3>2. \A d \in s : f[d] \in T /\ SamePeriod(d, f[d])
          BY <1>5
      <3>3. f \in [s -> T]
          BY <3>2
      <3> HIDE DEF f
      <3>4. ASSUME NEW e \in T PROVE Cardinality({d \in s : f[d] = e}) <= 3
        <4> DEFINE F == {d \in s : f[d] = e}
        <4>1. F \subseteq Class(e)
            BY <1>4, <3>2, PeriodsAlike
        <4>2. Class(e) \subseteq hits /\ Class(e) \in P
            BY <2>1, <2>3
        <4>3. IsFiniteSet(Class(e)) /\ Cardinality(Class(e)) <= 3
          <5> HIDE DEF Class
          <5> QED
              BY <1>3, <1>11, <4>2, FS_Subset DEF fetchHeadroom
        <4>4. Cardinality(F) <= Cardinality(Class(e)) /\ Cardinality(F) \in Nat /\ Cardinality(Class(e)) \in Nat
          <5> HIDE DEF F, Class
          <5> QED
              BY <4>1, <4>3, FS_Subset, FS_CardinalityType
        <4>5. Cardinality(F) <= 3
          <5> HIDE DEF F, Class
          <5> QED
              BY <4>3, <4>4
        <4> QED
            BY <4>5
      <3>5. Cardinality(s) <= 3 * Cardinality(T)
          BY <1>4, <1>6, <3>3, <3>4, ThreeOfEach
      <3> QED
          BY <1>7, <2>7, <3>1, <3>5
    <2> QED
        BY <2>8, <2>9
  <1> HIDE DEF P
  <1> QED
      BY <1>8, <1>9, <1>10, <1>11 DEF P

\* The plans, with the prover told that no category is a text, too.
Texts == STRING \cup {""}
Plans == [docTypes : SUBSET STRING, entities : SUBSET STRING, keywords : SUBSET STRING,
          notTerms : SUBSET STRING, category : Texts, subcategory : Texts,
          dateFrom : Nat, dateTo : Nat, limit : Int]

\* A limit and a number of documents are natural numbers.
LEMMA LimitFacts ==
    ASSUME NEW msg \in Messages, NEW plan \in Plans
    PROVE  /\ RequestedCount(msg) \in Nat /\ LimitOf(msg, plan) \in Int
           /\ plan.limit \in 0..50 => LimitOf(msg, plan) \in Nat \ {0}
           /\ RequestedCount(msg) # 0 => LimitOf(msg, plan) = RequestedCount(msg)
  <1>1. msg.number \in Nat /\ msg.numeral \in Nat /\ plan.limit \in Int
      BY DEF Messages, Plans
  <1>2. RequestedCount(msg) \in Nat
      BY <1>1 DEF RequestedCount
  <1> QED
      BY <1>1, <1>2 DEF LimitOf

ChatPlaces == {"idle", "plan", "search", "score", "prompt", "done"}
ChatType == [pc : ChatPlaces, msg : Messages, plan : Plans, asked : Plans, searches : Nat,
             via : {"", "search", "scorer"}, found : SUBSET Shelf, matched : SUBSET Shelf,
             shown : SUBSET Shelf, tableFailed : BOOLEAN, failed : BOOLEAN]

Loose(q) == [q EXCEPT !.keywords = {}]
Exhausted(q) == Searchable(Loose(q)) => SearchDocumentsFts(Loose(q), steady) = {}
Rungs(q) == (IF q.keywords # {} THEN 1 ELSE 0) + (IF q.notTerms # {} THEN 1 ELSE 0)
            + (IF q.entities # {} THEN 1 ELSE 0)

\* The plan on a rung of the ladder, and what has been given up so far.
OnLadder(q, asked) ==
  /\ q.docTypes = asked.docTypes /\ q.category = asked.category /\ q.subcategory = asked.subcategory
  /\ q.dateFrom = asked.dateFrom /\ q.dateTo = asked.dateTo
  /\ q.keywords \in {asked.keywords, {}}
  /\ q.entities = asked.entities \/ q.notTerms = {}
  /\ q.notTerms = asked.notTerms \/ (q.notTerms = {} /\ Exhausted(asked))

\* A document found on one of the rungs.
Keeps(d, q) ==
  /\ NormaliseFacet(q.docTypes) # {} => NormaliseFacet(q.docTypes) \cap TextOf(d) # {}
  /\ q.category \in {"", d.category}
  /\ q.dateTo # 0 => d.date \in 1..q.dateTo
  /\ NormaliseFacet(q.notTerms) \cap TextOf(d) # {} => Exhausted(q)

InPlace(found, matched, limit) ==
  (\A p \in PeriodsIn(found) : Cardinality(p) <= fetchHeadroom) =>
    Cardinality(matched) = IF limit < Cardinality(PeriodsIn(found)) THEN limit
                           ELSE Cardinality(PeriodsIn(found))

Searches == chat.searches + (IF chat.pc = "search" THEN Rungs(chat.plan) + 1 ELSE 0) <= 4
Matched ==
  chat.via # "" =>
    /\ chat.pc \in {"prompt", "done"} /\ chat.failed = FALSE
    /\ steady # {} => chat.matched # {}
    /\ \A d, e \in chat.matched : SamePeriod(d, e) => d = e
    /\ chat.via = "search" =>
         /\ \A d \in chat.matched : Keeps(d, chat.asked)
         /\ InPlace(chat.found, chat.matched, LimitOf(chat.msg, chat.asked))
Shown ==
  IF chat.pc = "done" /\ chat.via # ""
  THEN chat.shown \subseteq chat.matched
       /\ (chat.shown = chat.matched \/ Cardinality(chat.shown) >= MinExpected(chat.msg, chat.matched))
  ELSE chat.shown = {}

ChatInv ==
  /\ archive \subseteq Shelf /\ steady \subseteq archive /\ chat \in ChatType
  /\ chat.asked.limit \in 0..50
  /\ chat.pc = "search" => OnLadder(chat.plan, chat.asked)
  /\ chat.pc \in {"idle", "plan"} => chat.searches = 0
  /\ chat.pc \in {"prompt", "done"} /\ chat.failed = FALSE => chat.via # ""
  /\ chat.failed = TRUE => chat.pc = "done" /\ chat.tableFailed = TRUE
  /\ Searches /\ Matched /\ Shown

LEMMA ChatFields ==
    ASSUME NEW c \in ChatType
    PROVE  /\ c.pc \in ChatPlaces /\ c.msg \in Messages /\ c.plan \in Plans /\ c.asked \in Plans
           /\ c.searches \in Nat /\ c.via \in {"", "search", "scorer"} /\ c.found \subseteq Shelf
           /\ c.matched \subseteq Shelf /\ c.shown \subseteq Shelf
           /\ c.tableFailed \in BOOLEAN /\ c.failed \in BOOLEAN
  BY DEF ChatType

\* A document that goes is found no more, nor is one that comes meanwhile.
LEMMA ShelfStep == ASSUME ChatInv, ShelfChanged PROVE ChatInv'
  <1>1. /\ archive' \subseteq Shelf /\ steady' \subseteq archive' /\ steady' \subseteq steady /\ chat' = chat
      BY DEF ChatInv, ShelfChanged
  <1>2. \A q : Exhausted(q) => Exhausted(q)'
      BY <1>1 DEF Exhausted, SearchDocumentsFts
  <1>3. \A q, asked : OnLadder(q, asked) => OnLadder(q, asked)'
      BY <1>2 DEF OnLadder
  <1>4. \A d, q : Keeps(d, q) => Keeps(d, q)'
      BY <1>2 DEF Keeps
  <1>5. Matched'
      BY <1>1, <1>4 DEF ChatInv, Matched, InPlace
  <1>6. Searches' /\ Shown'
      BY <1>1 DEF ChatInv, Searches, Shown
  <1> QED
      BY <1>1, <1>3, <1>5, <1>6 DEF ChatInv

LEMMA NoPlan == NoQuery \in Plans /\ NoQuery.limit = 0
  <1> DEFINE none == ""
  <1>1. none \in Texts
      BY DEF Texts
  <1>2. NoQuery = [docTypes |-> {}, entities |-> {}, keywords |-> {}, notTerms |-> {},
                   category |-> none, subcategory |-> none, dateFrom |-> 0, dateTo |-> 0, limit |-> 0]
      BY DEF NoQuery
  <1> HIDE DEF none
  <1> QED
      BY <1>1, <1>2 DEF Plans

LEMMA PlansTyped ==
    ASSUME ChatAssumption, NEW msg \in Messages, NEW reply \in Replies
    PROVE  PlanFor(msg, reply) \in Plans /\ PlanFor(msg, reply).limit \in 0..50
  <1>1. ParsedPlan(reply) \in Plans /\ ParsedPlan(reply).limit \in 0..50
    <2> DEFINE p == reply.plan
               types == p.docTypes \ {NotText}
               names == p.entities \ {NotText}
               words == p.keywords \ {NotText}
               nots == p.notTerms \ {NotText}
               most == IF p.limit \in 1..50 THEN p.limit ELSE 0
    <2>1. p \in Plans
      <3>1. p \in QueryPlans
          BY ChatAssumption
      <3> QED
          BY <3>1 DEF QueryPlans, Plans, Texts
    <2>2. /\ {types, names, words, nots} \subseteq SUBSET STRING /\ most \in Int /\ most \in 0..50
        BY <2>1 DEF Plans
    <2>3. ParsedPlan(reply) = [p EXCEPT !.docTypes = types, !.entities = names, !.keywords = words,
                                        !.notTerms = nots, !.limit = most]
        BY DEF ParsedPlan
    <2> HIDE DEF p, types, names, words, nots, most
    <2> QED
        BY <2>1, <2>2, <2>3 DEF Plans
  <1>2. NoQuery \in Plans /\ NoQuery.limit = 0
      BY NoPlan
  <1>3. PlanQueryHeuristic(msg) \in Plans /\ PlanQueryHeuristic(msg).limit = 0
    <2>1. msg.words \ Fillers \in SUBSET STRING /\ msg.year \in Nat
        BY DEF Messages
    <2>2. /\ (IF msg.year = 0 THEN 0 ELSE 100 * msg.year + 1) \in Nat
          /\ (IF msg.year = 0 THEN 0 ELSE 100 * msg.year + 12) \in Nat
        BY <2>1
    <2> DEFINE words == msg.words \ Fillers
               from == IF msg.year = 0 THEN 0 ELSE 100 * msg.year + 1
               to == IF msg.year = 0 THEN 0 ELSE 100 * msg.year + 12
    <2>3. PlanQueryHeuristic(msg) = [NoQuery EXCEPT !.keywords = words, !.dateFrom = from, !.dateTo = to]
        BY DEF PlanQueryHeuristic
    <2>4. words \in SUBSET STRING /\ from \in Nat /\ to \in Nat
        BY <2>1, <2>2
    <2> HIDE DEF words, from, to, NoQuery
    <2> QED
        BY <1>2, <2>3, <2>4 DEF Plans
  <1> QED
      BY <1>1, <1>3 DEF PlanFor

LEMMA AskedStep ==
    ASSUME ChatInv, ChatAssumption, NEW msg \in Requests, ChatHandler(msg) PROVE ChatInv'
  <1>1. /\ chat \in ChatType /\ chat.pc = "idle" /\ chat.searches = 0 /\ chat.via = "" /\ chat.shown = {}
      BY DEF ChatInv, ChatHandler, Matched, Shown
  <1>2. msg \in Messages /\ "plan" \in ChatPlaces
      BY ChatAssumption DEF ChatPlaces
  <1>3. /\ chat' \in ChatType /\ chat'.pc = "plan" /\ chat'.searches = chat.searches
        /\ chat'.via = chat.via /\ chat'.shown = chat.shown /\ chat'.asked = chat.asked
        /\ chat'.failed = chat.failed /\ chat'.tableFailed = chat.tableFailed
      BY <1>1, <1>2 DEF ChatHandler, ChatType
  <1>4. archive' = archive /\ steady' = archive
      BY DEF ChatHandler
  <1> QED
      BY <1>1, <1>3, <1>4 DEF ChatInv, Searches, Matched, Shown

LEMMA PlannedStep == ASSUME ChatInv, ChatAssumption, PlanQuery PROVE ChatInv'
  <1>1. /\ chat \in ChatType /\ chat.pc = "plan" /\ chat.searches = 0 /\ chat.via = "" /\ chat.shown = {}
      BY DEF ChatInv, PlanQuery, Matched, Shown
  <1>2. PICK reply \in Replies : chat' = [chat EXCEPT !.pc = "search", !.plan = PlanFor(chat.msg, reply),
                                                      !.asked = PlanFor(chat.msg, reply)]
      BY DEF PlanQuery
  <1> DEFINE plan == PlanFor(chat.msg, reply)
  <1>3. plan \in Plans /\ plan.limit \in 0..50 /\ "search" \in ChatPlaces
      BY <1>1, PlansTyped, ChatFields DEF ChatPlaces
  <1>4. chat' = [chat EXCEPT !.pc = "search", !.plan = plan, !.asked = plan]
      BY <1>2
  <1> HIDE DEF plan
  <1>5. /\ chat' \in ChatType /\ chat'.pc = "search" /\ chat'.searches = chat.searches
        /\ chat'.via = chat.via /\ chat'.shown = chat.shown /\ chat'.asked = plan /\ chat'.plan = plan
        /\ chat'.failed = chat.failed /\ chat'.tableFailed = chat.tableFailed
      BY <1>1, <1>3, <1>4 DEF ChatType
  <1>6. archive' = archive /\ steady' = steady
      BY DEF PlanQuery
  <1>7. OnLadder(chat.plan, chat.asked)'
      BY <1>5 DEF OnLadder
  <1>8. Rungs(plan) <= 3 /\ Rungs(plan) \in Nat
      BY DEF Rungs
  <1>9. Searches'
    <2>1. Searches' <=> 0 + (Rungs(plan) + 1) <= 4
        BY <1>1, <1>5 DEF Searches
    <2> QED
        BY <1>8, <2>1
  <1>10. Matched' /\ Shown'
      BY <1>1, <1>5 DEF Matched, Shown
  <1>11. archive' \subseteq Shelf /\ steady' \subseteq archive' /\ chat'.asked.limit \in 0..50
        /\ (chat'.failed = TRUE => chat'.pc = "done" /\ chat'.tableFailed = TRUE)
      BY <1>1, <1>3, <1>5, <1>6 DEF ChatInv
  <1> QED
      BY <1>5, <1>7, <1>9, <1>10, <1>11 DEF ChatInv

\* A rung that finds nothing gives up the next thing.
LEMMA Relaxed ==
    ASSUME NEW q \in Plans, NEW r \in RelaxQuery(q)
    PROVE  /\ r \in Plans /\ Rungs(r) + 1 = Rungs(q) /\ Rungs(r) \in Nat /\ Rungs(q) \in Nat
           /\ r.docTypes = q.docTypes /\ r.category = q.category /\ r.subcategory = q.subcategory
           /\ r.dateFrom = q.dateFrom /\ r.dateTo = q.dateTo
           /\ \/ q.keywords # {} /\ r.keywords = {} /\ r.notTerms = q.notTerms /\ r.entities = q.entities
              \/ /\ q.keywords = {} /\ r.keywords = {} /\ q.notTerms # {} /\ r.notTerms = {}
                 /\ r.entities = q.entities
              \/ /\ q.keywords = {} /\ r.keywords = {} /\ q.notTerms = {} /\ r.notTerms = {}
                 /\ q.entities # {} /\ r.entities = {}
  <1>1. CASE q.keywords # {}
    <2>1. r = [q EXCEPT !.keywords = {}]
        BY <1>1 DEF RelaxQuery
    <2> QED
        BY <1>1, <2>1 DEF Plans, Rungs
  <1>2. CASE q.keywords = {} /\ q.notTerms # {}
    <2>1. r = [q EXCEPT !.notTerms = {}]
        BY <1>2 DEF RelaxQuery
    <2> QED
        BY <1>2, <2>1 DEF Plans, Rungs
  <1>3. CASE q.keywords = {} /\ q.notTerms = {}
    <2>1. r = [q EXCEPT !.entities = {}] /\ q.entities # {}
        BY <1>3 DEF RelaxQuery
    <2> QED
        BY <1>3, <2>1 DEF Plans, Rungs
  <1> QED
      BY <1>1, <1>2, <1>3

\* Without its keywords a plan that has given up nothing else is the loose one.
LEMMA IsLoose ==
    ASSUME NEW q \in Plans, NEW asked \in Plans, OnLadder(q, asked),
           q.keywords = {}, q.notTerms = asked.notTerms, q.entities = asked.entities
    PROVE  /\ Facets(q) = Facets(Loose(asked))
           /\ SearchDocumentsFts(q, steady) = SearchDocumentsFts(Loose(asked), steady)
  <1>1. /\ Loose(asked).docTypes = q.docTypes /\ Loose(asked).entities = q.entities
        /\ Loose(asked).keywords = q.keywords /\ Loose(asked).notTerms = q.notTerms
        /\ Loose(asked).category = q.category /\ Loose(asked).subcategory = q.subcategory
        /\ Loose(asked).dateFrom = q.dateFrom /\ Loose(asked).dateTo = q.dateTo
      BY DEF Plans, Loose, OnLadder
  <1>2. Facets(q) = Facets(Loose(asked))
      BY <1>1 DEF Facets
  <1>3. \A d : InFilters(q, d) <=> InFilters(Loose(asked), d)
      BY <1>1 DEF InFilters
  <1> HIDE DEF Loose
  <1>4. SearchDocumentsFts(q, steady) = SearchDocumentsFts(Loose(asked), steady)
      BY <1>1, <1>2, <1>3 DEF SearchDocumentsFts
  <1> QED
      BY <1>2, <1>4

LEMMA AtMostFour == \A m \in Nat : m <= 4 => m + 0 <= 4
  OBVIOUS

\* A rung is given up, and something is found.
Relaxes(q, n) == chat' = [chat EXCEPT !.plan = q, !.searches = n]
Finds(via, n, found, matched) ==
  chat' = [chat EXCEPT !.pc = "prompt", !.via = via, !.searches = n, !.found = found, !.matched = matched]

LEMMA NextRung ==
    ASSUME chat \in ChatType, NEW q \in Plans, NEW n \in Nat, Relaxes(q, n)
    PROVE  /\ chat' \in ChatType /\ chat'.pc = chat.pc /\ chat'.plan = q /\ chat'.asked = chat.asked
           /\ chat'.searches = n /\ chat'.via = chat.via /\ chat'.shown = chat.shown
           /\ chat'.tableFailed = chat.tableFailed /\ chat'.failed = chat.failed
  BY DEF ChatType, Relaxes

LEMMA NextFound ==
    ASSUME chat \in ChatType, NEW n \in Nat, NEW f \in SUBSET Shelf, NEW m \in SUBSET Shelf,
           NEW via \in {"search", "scorer"}, Finds(via, n, f, m)
    PROVE  /\ chat' \in ChatType /\ chat'.pc = "prompt" /\ chat'.plan = chat.plan
           /\ chat'.asked = chat.asked /\ chat'.searches = n /\ chat'.msg = chat.msg
           /\ chat'.via = via /\ chat'.found = f /\ chat'.matched = m /\ chat'.shown = chat.shown
           /\ chat'.tableFailed = chat.tableFailed /\ chat'.failed = chat.failed
  <1> DEFINE prompt == "prompt"
  <1>1. prompt \in ChatPlaces /\ via \in {"", "search", "scorer"} /\ prompt = "prompt"
      BY DEF ChatPlaces
  <1>2. chat' = [chat EXCEPT !.pc = prompt, !.via = via, !.searches = n, !.found = f, !.matched = m]
      BY DEF Finds
  <1> HIDE DEF prompt
  <1>3. /\ chat' \in ChatType /\ chat'.pc = prompt /\ chat'.plan = chat.plan
        /\ chat'.asked = chat.asked /\ chat'.searches = n /\ chat'.msg = chat.msg
        /\ chat'.via = via /\ chat'.found = f /\ chat'.matched = m /\ chat'.shown = chat.shown
        /\ chat'.tableFailed = chat.tableFailed /\ chat'.failed = chat.failed
      BY <1>1, <1>2 DEF ChatType
  <1> QED
      BY <1>1, <1>3

LEMMA RungStep ==
    ASSUME ChatInv, chat.pc = "search", Searchable(chat.plan),
           SearchDocumentsFts(chat.plan, archive) = {},
           NEW q \in RelaxQuery(chat.plan), Relaxes(q, chat.searches + 1),
           UNCHANGED <<archive, steady>>
    PROVE  ChatInv'
  <1> DEFINE p == chat.plan
             asked == chat.asked
  <1>1. /\ chat \in ChatType /\ p \in Plans /\ asked \in Plans /\ chat.searches \in Nat
        /\ chat.via = "" /\ chat.shown = {} /\ OnLadder(p, asked) /\ chat.searches + (Rungs(p) + 1) <= 4
      BY ChatFields DEF ChatInv, Matched, Shown, Searches
  <1>2. /\ q \in Plans /\ Rungs(q) + 1 = Rungs(p) /\ Rungs(q) \in Nat /\ Rungs(p) \in Nat
        /\ q.docTypes = p.docTypes /\ q.category = p.category /\ q.subcategory = p.subcategory
        /\ q.dateFrom = p.dateFrom /\ q.dateTo = p.dateTo
    <2>1. p \in Plans /\ q \in RelaxQuery(p)
        BY <1>1
    <2> HIDE DEF p
    <2> QED
        BY <2>1, Relaxed
  <1>3. /\ chat' \in ChatType /\ chat'.pc = "search" /\ chat'.searches = chat.searches + 1
        /\ chat'.via = chat.via /\ chat'.shown = chat.shown /\ chat'.asked = asked /\ chat'.plan = q
        /\ chat'.failed = chat.failed /\ chat'.tableFailed = chat.tableFailed
    <2> DEFINE n == chat.searches + 1
    <2>0. chat.searches \in Nat
        BY <1>1
    <2>m. n \in Nat
        BY <2>0
    <2>1. Relaxes(q, n)
        OBVIOUS
    <2> HIDE DEF n
    <2>2. /\ chat' \in ChatType /\ chat'.pc = chat.pc /\ chat'.plan = q /\ chat'.asked = chat.asked
          /\ chat'.searches = n /\ chat'.via = chat.via /\ chat'.shown = chat.shown
          /\ chat'.tableFailed = chat.tableFailed /\ chat'.failed = chat.failed
        BY <1>1, <1>2, <2>1, <2>m, NextRung
    <2> QED
        BY <2>2 DEF n
  <1>4. SearchDocumentsFts(p, steady) = {}
      BY DEF SearchDocumentsFts, ChatInv
  <1>5. OnLadder(q, asked)
    <2>1. CASE p.keywords # {} /\ q.keywords = {} /\ q.notTerms = p.notTerms /\ q.entities = p.entities
        BY <1>1, <1>2, <2>1 DEF OnLadder
    <2>2. CASE /\ p.keywords = {} /\ q.keywords = {} /\ p.notTerms # {} /\ q.notTerms = {}
               /\ q.entities = p.entities
      <3>1. p.notTerms = asked.notTerms /\ p.entities = asked.entities
          BY <1>1, <2>2 DEF OnLadder
      <3>2. Exhausted(asked)
          BY <1>1, <1>4, <2>2, <3>1, IsLoose DEF Exhausted
      <3> QED
          BY <1>1, <1>2, <2>2, <3>2 DEF OnLadder
    <2>3. CASE /\ p.keywords = {} /\ q.keywords = {} /\ p.notTerms = {} /\ q.notTerms = {}
               /\ p.entities # {} /\ q.entities = {}
        BY <1>1, <1>2, <2>3 DEF OnLadder
    <2>4. p \in Plans /\ q \in RelaxQuery(p)
        BY <1>1
    <2> HIDE DEF p, asked
    <2>5. \/ p.keywords # {} /\ q.keywords = {} /\ q.notTerms = p.notTerms /\ q.entities = p.entities
          \/ /\ p.keywords = {} /\ q.keywords = {} /\ p.notTerms # {} /\ q.notTerms = {}
             /\ q.entities = p.entities
          \/ /\ p.keywords = {} /\ q.keywords = {} /\ p.notTerms = {} /\ q.notTerms = {}
             /\ p.entities # {} /\ q.entities = {}
        BY <2>4, Relaxed
    <2> QED
        BY <2>1, <2>2, <2>3, <2>5
  <1>6. OnLadder(chat.plan, chat.asked)'
      BY <1>3, <1>5 DEF OnLadder, Exhausted
  <1>7. Searches'
    <2>1. Searches' <=> (chat.searches + 1) + (Rungs(q) + 1) <= 4
        BY <1>3 DEF Searches
    <2>2. chat.searches + (Rungs(p) + 1) <= 4 /\ Rungs(q) + 1 = Rungs(p) /\ chat.searches \in Nat
          /\ Rungs(q) \in Nat /\ Rungs(p) \in Nat
        BY <1>1, <1>2
    <2>3. (chat.searches + 1) + (Rungs(q) + 1) <= 4
      <3> HIDE DEF p
      <3> QED
          BY <2>2
    <2> QED
        BY <2>1, <2>3
  <1>8. Matched' /\ Shown'
      BY <1>1, <1>3 DEF Matched, Shown
  <1>9. archive' \subseteq Shelf /\ steady' \subseteq archive' /\ chat'.asked.limit \in 0..50
        /\ (chat'.failed = TRUE => chat'.pc = "done" /\ chat'.tableFailed = TRUE)
      BY <1>3 DEF ChatInv
  <1> QED
      BY <1>3, <1>6, <1>7, <1>8, <1>9 DEF ChatInv

\* The ladder ends without a document.
LEMMA LadderEnds ==
    ASSUME ChatInv, chat.pc = "search", UNCHANGED <<archive, steady>>,
           NEW n \in Nat, n <= chat.searches + 1, chat' = [chat EXCEPT !.pc = "score", !.searches = n]
    PROVE  ChatInv'
  <1>1. /\ chat \in ChatType /\ chat.searches \in Nat
        /\ chat.via = "" /\ chat.shown = {} /\ chat.searches + (Rungs(chat.plan) + 1) <= 4
      BY ChatFields DEF ChatInv, Matched, Shown, Searches
  <1>2. /\ chat' \in ChatType /\ chat'.pc = "score" /\ chat'.searches = n
        /\ chat'.via = chat.via /\ chat'.shown = chat.shown /\ chat'.asked = chat.asked
        /\ chat'.failed = chat.failed /\ chat'.tableFailed = chat.tableFailed
    <2>1. "score" \in ChatPlaces
        BY DEF ChatPlaces
    <2> QED
        BY <1>1, <2>1 DEF ChatType
  <1>3. Rungs(chat.plan) \in Nat
      BY DEF Rungs
  <1>4. Searches'
    <2>1. Searches' <=> n + 0 <= 4
        BY <1>2 DEF Searches
    <2>2. n + 0 <= 4
      <3> DEFINE m == chat.searches
                 k == Rungs(chat.plan)
      <3>1. m \in Nat /\ k \in Nat /\ m + (k + 1) <= 4 /\ n <= m + 1
          BY <1>1, <1>3
      <3> HIDE DEF m, k
      <3> QED
          BY <3>1
    <2> QED
        BY <2>1, <2>2
  <1>5. Matched' /\ Shown'
      BY <1>1, <1>2 DEF Matched, Shown
  <1> QED
      BY <1>2, <1>4, <1>5 DEF ChatInv

\* What a rung finds keeps to the plan.
LEMMA HitKeeps ==
    ASSUME ChatAssumption, NEW q \in Plans, NEW asked \in Plans, OnLadder(q, asked),
           NEW docs, docs \subseteq Shelf, NEW d \in SearchDocumentsFts(q, docs)
    PROVE  Keeps(d, asked)
  <1>1. /\ d \in Shelf /\ InFilters(q, d) /\ \A facet \in Facets(q) : facet \cap TextOf(d) # {}
        /\ NormaliseFacet(q.notTerms) \cap TextOf(d) = {}
      BY DEF SearchDocumentsFts
  <1>2. d.date \in Nat /\ q.dateTo \in Nat
      BY <1>1, ShelfFacts DEF Plans
  <1>3. NormaliseFacet(asked.docTypes) # {} => NormaliseFacet(asked.docTypes) \cap TextOf(d) # {}
      BY <1>1 DEF OnLadder, Facets
  <1>4. asked.category \in {"", d.category}
      BY <1>1 DEF OnLadder, InFilters
  <1>5. asked.dateTo # 0 => d.date \in 1..asked.dateTo
    <2>1. q.dateTo # 0 => d.date # 0 /\ d.date <= q.dateTo
        BY <1>1 DEF InFilters
    <2>2. asked.dateTo = q.dateTo
        BY DEF OnLadder
    <2> QED
        BY <1>2, <2>1, <2>2
  <1>6. NormaliseFacet(asked.notTerms) \cap TextOf(d) # {} => Exhausted(asked)
      BY <1>1 DEF OnLadder
  <1> QED
      BY <1>3, <1>4, <1>5, <1>6 DEF Keeps

\* What is found last, by the index or by the scorer, and may be shown.
Found(via, n, found, matched) ==
  /\ Finds(via, n, found, matched)
  /\ chat.pc \in {"search", "score"} /\ UNCHANGED <<archive, steady>>
  /\ via \in {"search", "scorer"} /\ n \in Nat /\ n <= 4
  /\ found \in SUBSET Shelf /\ matched \in SUBSET Shelf
  /\ steady # {} => matched # {}
  /\ \A d, e \in matched : SamePeriod(d, e) => d = e
  /\ via = "search" => /\ \A d \in matched : Keeps(d, chat.asked)
                       /\ InPlace(found, matched, LimitOf(chat.msg, chat.asked))

LEMMA MatchedStep ==
    ASSUME ChatInv, NEW via, NEW n, NEW found, NEW matched, Found(via, n, found, matched)
    PROVE  ChatInv'
  <1>1. /\ chat \in ChatType /\ chat.via = "" /\ chat.shown = {} /\ chat.failed = FALSE
        /\ chat.asked.limit \in 0..50
    <2>1. chat \in ChatType /\ chat.failed \in BOOLEAN
        BY ChatFields DEF ChatInv
    <2>2. chat.via = "" /\ chat.shown = {} /\ ~(chat.failed = TRUE)
        BY DEF ChatInv, Found, Matched, Shown
    <2> QED
        BY <2>1, <2>2 DEF ChatInv
  <1>2. /\ via \in {"search", "scorer"} /\ n \in Nat /\ n <= 4 /\ via # ""
        /\ found \in SUBSET Shelf /\ matched \in SUBSET Shelf
        /\ steady # {} => matched # {}
        /\ \A d, e \in matched : SamePeriod(d, e) => d = e
        /\ via = "search" => /\ \A d \in matched : Keeps(d, chat.asked)
                             /\ InPlace(found, matched, LimitOf(chat.msg, chat.asked))
        /\ archive' = archive /\ steady' = steady
      BY DEF Found
  <1>4. /\ chat' \in ChatType /\ chat'.pc = "prompt" /\ chat'.asked = chat.asked /\ chat'.searches = n
        /\ chat'.msg = chat.msg /\ chat'.via = via /\ chat'.found = found /\ chat'.matched = matched
        /\ chat'.shown = {} /\ chat'.failed = FALSE
    <2>1. Finds(via, n, found, matched)
        BY DEF Found
    <2>2. /\ chat' \in ChatType /\ chat'.pc = "prompt" /\ chat'.plan = chat.plan
          /\ chat'.asked = chat.asked /\ chat'.searches = n /\ chat'.msg = chat.msg
          /\ chat'.via = via /\ chat'.found = found /\ chat'.matched = matched /\ chat'.shown = chat.shown
          /\ chat'.tableFailed = chat.tableFailed /\ chat'.failed = chat.failed
        BY <1>1, <1>2, <2>1, NextFound
    <2> QED
        BY <1>1, <2>2
  <1>5. Searches'
    <2>1. Searches' <=> n + 0 <= 4
        BY <1>4 DEF Searches
    <2>2. n + 0 <= 4
        BY <1>2, AtMostFour
    <2> QED
        BY <2>1, <2>2
  <1>6. \A d : Keeps(d, chat.asked) => Keeps(d, chat.asked)'
      BY <1>2, <1>4 DEF Keeps, Exhausted
  <1>7. Matched'
      BY <1>2, <1>4, <1>6 DEF Matched
  <1>8. Shown'
      BY <1>4 DEF Shown
  <1>9. archive' \subseteq Shelf /\ steady' \subseteq archive' /\ chat'.asked.limit \in 0..50
      BY <1>1, <1>2, <1>4 DEF ChatInv
  <1> QED
      BY <1>2, <1>4, <1>5, <1>7, <1>8, <1>9 DEF ChatInv

LEMMA FoundStep ==
    ASSUME ChatInv, ChatAssumption, chat.pc = "search", UNCHANGED <<archive, steady>>,
           NEW hits, hits = SearchDocumentsFts(chat.plan, archive), hits # {},
           NEW kept \in Kept(hits, LimitOf(chat.msg, chat.asked)),
           Finds("search", chat.searches + 1, hits, DedupeByPeriod(kept))
    PROVE  ChatInv'
  <1>1. /\ chat \in ChatType /\ chat.searches \in Nat /\ chat.plan \in Plans /\ chat.asked \in Plans
        /\ chat.msg \in Messages
        /\ chat.searches + (Rungs(chat.plan) + 1) <= 4 /\ OnLadder(chat.plan, chat.asked)
      BY ChatFields DEF ChatInv, Searches
  <1>2. LimitOf(chat.msg, chat.asked) \in Nat \ {0}
      BY <1>1, LimitFacts DEF ChatInv
  <1>3. hits \subseteq Shelf /\ archive \subseteq Shelf
      BY DEF SearchDocumentsFts, ChatInv
  <1>4. ASSUME NEW limit \in Nat \ {0}, limit = LimitOf(chat.msg, chat.asked)
        PROVE  /\ kept \subseteq hits /\ DedupeByPeriod(kept) = kept
               /\ \A d, e \in kept : SamePeriod(d, e) => d = e
               /\ kept # {} /\ InPlace(hits, kept, limit)
    <2>1. kept \in Kept(hits, limit)
        BY <1>4
    <2> QED
        BY <1>3, <2>1, PlacesOfPeriods DEF InPlace
  <1>5. /\ kept \subseteq hits /\ DedupeByPeriod(kept) = kept
        /\ \A d, e \in kept : SamePeriod(d, e) => d = e
        /\ kept # {} /\ InPlace(hits, kept, LimitOf(chat.msg, chat.asked))
      BY <1>2, <1>4
  <1>6. ASSUME NEW d \in kept PROVE Keeps(d, chat.asked)
    <2>1. d \in SearchDocumentsFts(chat.plan, archive)
        BY <1>5
    <2> QED
        BY <1>1, <1>3, <2>1, HitKeeps
  <1>7. chat.searches + 1 \in Nat /\ chat.searches + 1 <= 4
    <2> DEFINE m == chat.searches
               k == Rungs(chat.plan)
    <2>1. m \in Nat /\ k \in Nat /\ m + (k + 1) <= 4
        BY <1>1 DEF Rungs
    <2> HIDE DEF m, k
    <2>2. m + 1 \in Nat /\ m + 1 <= 4
        BY <2>1
    <2> QED
        BY <2>2 DEF m
  <1>8. hits \in SUBSET Shelf /\ kept \in SUBSET Shelf /\ (steady # {} => kept # {})
      BY <1>3, <1>5
  <1>9. Found("search", chat.searches + 1, hits, kept)
      BY <1>5, <1>6, <1>7, <1>8 DEF Found
  <1> QED
      BY <1>9, MatchedStep

LEMMA SearchStep == ASSUME ChatInv, ChatAssumption, SearchRung PROVE ChatInv'
  <1> DEFINE hits == SearchDocumentsFts(chat.plan, archive)
  <1>1. chat.pc = "search" /\ UNCHANGED <<archive, steady>> /\ chat.searches \in Nat
      BY ChatFields DEF SearchRung, ChatInv
  <1>2. \/ chat' = [chat EXCEPT !.pc = "score"]
        \/ /\ Searchable(chat.plan) /\ hits = {}
           /\ \E q \in RelaxQuery(chat.plan) : chat' = [chat EXCEPT !.plan = q, !.searches = @ + 1]
        \/ chat' = [chat EXCEPT !.pc = "score", !.searches = @ + 1]
        \/ /\ hits # {}
           /\ \E kept \in Kept(hits, LimitOf(chat.msg, chat.asked)) :
                chat' = [chat EXCEPT !.pc = "prompt", !.via = "search", !.searches = @ + 1,
                                     !.found = hits, !.matched = DedupeByPeriod(kept)]
      BY DEF SearchRung
  <1>m. chat \in ChatType
      BY DEF ChatInv
  <1>3. CASE chat' = [chat EXCEPT !.pc = "score"]
    <2>1. chat.searches \in Nat /\ chat.searches <= chat.searches + 1
        BY <1>1
    <2>2. chat' = [chat EXCEPT !.pc = "score", !.searches = chat.searches]
        BY <1>3 DEF ChatInv, ChatType
    <2> QED
        BY <1>1, <2>1, <2>2, LadderEnds
  <1>4. CASE chat' = [chat EXCEPT !.pc = "score", !.searches = @ + 1]
    <2>1. chat.searches + 1 \in Nat /\ chat.searches + 1 <= chat.searches + 1
        BY <1>1
    <2>2. chat' = [chat EXCEPT !.pc = "score", !.searches = chat.searches + 1]
        BY <1>4
    <2> QED
        BY <1>1, <2>1, <2>2, LadderEnds
  <1>5. CASE /\ Searchable(chat.plan) /\ hits = {}
             /\ \E q \in RelaxQuery(chat.plan) : chat' = [chat EXCEPT !.plan = q, !.searches = @ + 1]
    <2>1. PICK q \in RelaxQuery(chat.plan) : Relaxes(q, chat.searches + 1)
        BY <1>5, <1>m DEF Relaxes, ChatType
    <2> QED
        BY <1>1, <1>5, <2>1, RungStep
  <1>6. CASE /\ hits # {}
             /\ \E kept \in Kept(hits, LimitOf(chat.msg, chat.asked)) :
                  chat' = [chat EXCEPT !.pc = "prompt", !.via = "search", !.searches = @ + 1,
                                       !.found = hits, !.matched = DedupeByPeriod(kept)]
    <2>1. PICK kept \in Kept(hits, LimitOf(chat.msg, chat.asked)) :
             Finds("search", chat.searches + 1, hits, DedupeByPeriod(kept))
        BY <1>6, <1>m DEF Finds, ChatType
    <2> QED
        BY <1>1, <1>6, <2>1, FoundStep
  <1> QED
      BY <1>2, <1>3, <1>4, <1>5, <1>6

\* What the token scorer chooses is a slice of what there is.
LEMMA ScorerFacts ==
    ASSUME ChatAssumption, NEW msg \in Messages, NEW docs \in SUBSET Shelf,
           NEW kept \in SearchRelevantDocuments(msg, docs)
    PROVE  kept \subseteq docs /\ (docs # {} => kept # {})
  <1> DEFINE scored == {d \in docs : (msg.words \cap TextOf(d)) # {}}
             count == RequestedCount(msg)
             most == IF count # 0 THEN count ELSE 10
             few == IF count # 0 THEN count ELSE 5
  <1>1. most \in Nat /\ most # 0 /\ few \in Nat /\ few # 0
    <2>1. count \in Nat
      <3>1. msg.number \in Nat /\ msg.numeral \in Nat
          BY DEF Messages
      <3> QED
          BY <3>1 DEF RequestedCount
    <2> QED
        BY <2>1
  <1>2. IsFiniteSet(docs) /\ IsFiniteSet(scored) /\ scored \subseteq docs
      BY ShelfFacts
  <1>3. IF scored # {} THEN kept \in Slices(most, scored) ELSE kept \in Slices(few, docs)
      BY DEF SearchRelevantDocuments
  <1> HIDE DEF scored, most, few
  <1>4. CASE scored # {}
      BY <1>1, <1>2, <1>3, <1>4, SliceFacts
  <1>5. CASE scored = {}
      BY <1>1, <1>2, <1>3, <1>5, SliceFacts
  <1> QED
      BY <1>4, <1>5

LEMMA ScoreStep == ASSUME ChatInv, ChatAssumption, ScoreTokens PROVE ChatInv'
  <1>1. /\ chat \in ChatType /\ chat.pc = "score" /\ UNCHANGED <<archive, steady>>
        /\ chat.searches \in Nat /\ chat.searches <= 4 /\ chat.via = "" /\ chat.shown = {}
        /\ archive \in SUBSET Shelf /\ steady \subseteq archive /\ chat.msg \in Messages /\ chat.found \in SUBSET Shelf
    <2>1. chat.searches + 0 <= 4 /\ chat \in ChatType /\ chat.pc = "score"
        BY DEF ChatInv, ScoreTokens, Searches
    <2>2. chat.searches \in Nat /\ chat.msg \in Messages /\ chat.found \in SUBSET Shelf
        BY <2>1, ChatFields
    <2>3. chat.searches <= 4
        BY <2>1, <2>2
    <2>4. /\ chat.via = "" /\ chat.shown = {} /\ UNCHANGED <<archive, steady>>
          /\ archive \in SUBSET Shelf /\ steady \subseteq archive
        BY <2>1 DEF ChatInv, ScoreTokens, Matched, Shown
    <2> QED
        BY <2>1, <2>2, <2>3, <2>4
  <1>2. CASE chat' = [chat EXCEPT !.pc = "done", !.tableFailed = TRUE, !.failed = TRUE]
    <2> DEFINE done == "done"
               yes == TRUE
    <2>1. chat' = [chat EXCEPT !.pc = done, !.tableFailed = yes, !.failed = yes] /\ done \in ChatPlaces /\ yes \in BOOLEAN
        BY <1>2 DEF ChatPlaces
    <2>p. done = "done" /\ yes = TRUE
        OBVIOUS
    <2> HIDE DEF done, yes
    <2>2. /\ chat' \in ChatType /\ chat'.pc = done /\ chat'.tableFailed = yes /\ chat'.failed = yes
          /\ chat'.searches = chat.searches /\ chat'.via = chat.via /\ chat'.shown = chat.shown
          /\ chat'.asked = chat.asked
        BY <1>1, <2>1 DEF ChatType
    <2>3. Searches'
      <3>1. Searches' <=> chat.searches + 0 <= 4
          BY <2>2, <2>p DEF Searches
      <3>2. chat.searches + 0 <= 4
          BY <1>1, AtMostFour
      <3> QED
          BY <3>1, <3>2
    <2>4. Matched' /\ Shown'
        BY <1>1, <2>2, <2>p DEF Matched, Shown
    <2>5. archive' \subseteq Shelf /\ steady' \subseteq archive' /\ chat'.asked.limit \in 0..50
        BY <1>1, <2>2 DEF ChatInv
    <2> QED
        BY <2>2, <2>3, <2>4, <2>5, <2>p DEF ChatInv
  <1>3. ASSUME NEW kept \in SearchRelevantDocuments(chat.msg, archive),
               chat' = [chat EXCEPT !.pc = "prompt", !.via = "scorer", !.matched = DedupeByPeriod(kept)]
        PROVE  ChatInv'
    <2>1. kept \subseteq archive /\ (archive # {} => kept # {})
        BY <1>1, ScorerFacts
    <2>2. /\ DedupeByPeriod(kept) \subseteq kept
          /\ \A d, e \in DedupeByPeriod(kept) : SamePeriod(d, e) => d = e
          /\ kept # {} => DedupeByPeriod(kept) # {}
        BY <1>1, <2>1, OneOfEachPeriod
    <2>3. DedupeByPeriod(kept) \in SUBSET Shelf /\ (steady # {} => DedupeByPeriod(kept) # {})
        BY <1>1, <2>1, <2>2
    <2>4. Finds("scorer", chat.searches, chat.found, DedupeByPeriod(kept))
        BY <1>1, <1>3 DEF ChatType, Finds
    <2>5. Found("scorer", chat.searches, chat.found, DedupeByPeriod(kept))
        BY <1>1, <2>2, <2>3, <2>4 DEF Found
    <2> QED
        BY <2>5, MatchedStep
  <1> QED
      BY <1>2, <1>3 DEF ScoreTokens

LEMMA AnsweredStep == ASSUME ChatInv, ChatAssumption, ProcessChatQuery PROVE ChatInv'
  <1>1. /\ chat \in ChatType /\ chat.pc = "prompt" /\ UNCHANGED <<archive, steady>> /\ chat.via # ""
        /\ chat.matched \in SUBSET Shelf /\ chat.searches \in Nat /\ chat.searches <= 4 /\ chat.failed = FALSE
    <2>1. chat.searches + 0 <= 4 /\ chat \in ChatType /\ chat.pc = "prompt" /\ ~(chat.failed = TRUE)
        BY DEF ChatInv, ProcessChatQuery, Searches
    <2>2. chat.failed = FALSE /\ chat.searches \in Nat /\ chat.matched \in SUBSET Shelf
        BY <2>1, ChatFields
    <2>3. chat.searches <= 4
        BY <2>1, <2>2
    <2>4. UNCHANGED <<archive, steady>> /\ chat.via # ""
        BY <2>1, <2>2 DEF ChatInv, ProcessChatQuery
    <2> QED
        BY <2>1, <2>2, <2>3, <2>4
  <1>2. PICK s \in SUBSET chat.matched :
          /\ chat' = [chat EXCEPT !.pc = "done", !.shown = s]
          /\ s = chat.matched \/ Cardinality(s) >= MinExpected(chat.msg, chat.matched)
      BY DEF ProcessChatQuery
  <1> DEFINE done == "done"
  <1>3. chat' = [chat EXCEPT !.pc = done, !.shown = s] /\ done \in ChatPlaces /\ s \in SUBSET Shelf
      BY <1>1, <1>2 DEF ChatPlaces
  <1>p. done = "done"
      OBVIOUS
  <1> HIDE DEF done
  <1>4. /\ chat' \in ChatType /\ chat'.pc = done /\ chat'.shown = s /\ chat'.searches = chat.searches
        /\ chat'.via = chat.via /\ chat'.asked = chat.asked /\ chat'.matched = chat.matched
        /\ chat'.found = chat.found /\ chat'.msg = chat.msg /\ chat'.failed = FALSE
      BY <1>1, <1>3 DEF ChatType
  <1>5. Searches'
    <2>1. Searches' <=> chat.searches + 0 <= 4
        BY <1>4, <1>p DEF Searches
    <2>2. chat.searches + 0 <= 4
        BY <1>1, AtMostFour
    <2> QED
        BY <2>1, <2>2
  <1>6. Matched'
    <2>1. \A d : Keeps(d, chat.asked) => Keeps(d, chat.asked)'
        BY <1>1, <1>4 DEF Keeps, Exhausted
    <2> QED
        BY <1>1, <1>4, <1>p, <2>1 DEF ChatInv, Matched
  <1>7. Shown'
      BY <1>1, <1>2, <1>4, <1>p DEF Shown
  <1>8. archive' \subseteq Shelf /\ steady' \subseteq archive' /\ chat'.asked.limit \in 0..50
      BY <1>1, <1>4 DEF ChatInv
  <1> QED
      BY <1>1, <1>4, <1>5, <1>6, <1>7, <1>8, <1>p DEF ChatInv
LEMMA ChatStarts == ASSUME ChatAssumption, ChatInit PROVE ChatInv
  <1>1. archive \subseteq Shelf /\ steady = {} /\ chat = NoChat
      BY DEF ChatInit
  <1> DEFINE idle == "idle"
             none == ""
             no == FALSE
             message == [words |-> {}, year |-> 0, number |-> 0, numberFirst |-> no, numeral |-> 0, last |-> no]
  <1>2. idle \in ChatPlaces /\ none \in {"", "search", "scorer"} /\ no \in BOOLEAN
      BY DEF ChatPlaces
  <1>3. NoQuery \in Plans /\ NoQuery.limit = 0
      BY NoPlan
  <1>p. idle = "idle" /\ none = "" /\ no = FALSE
      OBVIOUS
  <1>4. chat = [pc |-> idle, msg |-> message, plan |-> NoQuery, asked |-> NoQuery, searches |-> 0,
                via |-> none, found |-> {}, matched |-> {}, shown |-> {}, tableFailed |-> no, failed |-> no]
      BY <1>1 DEF NoChat
  <1> HIDE DEF idle, none, no
  <1>5. message \in Messages
      BY <1>2 DEF Messages
  <1> HIDE DEF message
  <1>6. /\ chat \in ChatType /\ chat.pc = idle /\ chat.asked = NoQuery /\ chat.searches = 0
        /\ chat.via = none /\ chat.shown = {} /\ chat.failed = no
      BY <1>2, <1>3, <1>4, <1>5 DEF ChatType
  <1>7. Searches
    <2>1. Searches <=> 0 + 0 <= 4
        BY <1>6, <1>p DEF Searches
    <2> QED
        BY <2>1
  <1>8. Matched /\ Shown
      BY <1>6, <1>p DEF Matched, Shown
  <1>9. 0 \in 0..50 /\ chat.asked.limit = 0
      BY <1>3, <1>6
  <1>10. chat.pc = "idle" /\ chat.failed = FALSE /\ steady \subseteq archive
      BY <1>1, <1>6, <1>p
  <1> HIDE DEF NoQuery
  <1> QED
      BY <1>1, <1>6, <1>7, <1>8, <1>9, <1>10 DEF ChatInv

LEMMA ChatStays == ASSUME ChatInv, UNCHANGED chatVars PROVE ChatInv'
  <1>1. archive' = archive /\ chat' = chat /\ steady' = steady
      BY DEF chatVars
  <1>2. \A q : Exhausted(q) => Exhausted(q)'
      BY <1>1 DEF Exhausted
  <1>3. \A q, asked : OnLadder(q, asked) => OnLadder(q, asked)'
      BY <1>2 DEF OnLadder
  <1>4. \A d, q : Keeps(d, q) => Keeps(d, q)'
      BY <1>2 DEF Keeps
  <1>5. Matched'
      BY <1>1, <1>4 DEF ChatInv, Matched
  <1>6. Searches' /\ Shown'
      BY <1>1 DEF ChatInv, Searches, Shown
  <1> QED
      BY <1>1, <1>3, <1>5, <1>6 DEF ChatInv

\* As many are shown as the counting of the citations lets be left.
LEMMA ShownFacts ==
    ASSUME ChatAssumption, ChatInv, chat.pc = "done", chat.failed = FALSE,
           NEW n, n = Cardinality(chat.matched), NEW s, s = Cardinality(chat.shown)
    PROVE  /\ chat.via \in {"search", "scorer"} /\ chat.shown \subseteq chat.matched
           /\ steady # {} => chat.matched # {}
           /\ n \in Nat /\ s \in Nat /\ s <= n /\ RequestedCount(chat.msg) \in Nat
           /\ s = n \/ s >= MinExpected(chat.msg, chat.matched)
           /\ chat.matched # {} => n # 0 /\ (chat.shown = {} => s = 0)
  <1>1. /\ chat \in ChatType /\ chat.via # "" /\ chat.shown \subseteq chat.matched
        /\ steady # {} => chat.matched # {}
        /\ chat.shown = chat.matched \/ s >= MinExpected(chat.msg, chat.matched)
      BY DEF ChatInv, Matched, Shown
  <1>2. chat.via \in {"search", "scorer"} /\ chat.matched \subseteq Shelf /\ chat.msg \in Messages
      BY <1>1, ChatFields
  <1>3. IsFiniteSet(chat.matched) /\ IsFiniteSet(chat.shown)
      BY <1>1, <1>2, ShelfFacts
  <1>4. n \in Nat /\ s \in Nat /\ s <= n
      BY <1>1, <1>3, FS_CardinalityType, FS_Subset
  <1>5. RequestedCount(chat.msg) \in Nat
    <2>1. chat.msg.number \in Nat /\ chat.msg.numeral \in Nat
        BY <1>2 DEF Messages
    <2> QED
        BY <2>1 DEF RequestedCount
  <1>6. chat.matched # {} => n # 0 /\ (chat.shown = {} => s = 0)
      BY <1>3, FS_EmptySet
  <1> QED
      BY <1>1, <1>2, <1>4, <1>5, <1>6

LEMMA NotEmpty == ASSUME ChatAssumption, ChatInv PROVE NeverEmptyHanded
  <1>1. ASSUME chat.pc = "done", chat.failed = FALSE, steady # {} PROVE chat.shown # {}
    <2> DEFINE n == Cardinality(chat.matched)
               s == Cardinality(chat.shown)
               count == RequestedCount(chat.msg)
    <2>1. /\ chat.matched # {} /\ n \in Nat /\ n # 0 /\ count \in Nat
          /\ s = n \/ s >= MinExpected(chat.msg, chat.matched)
          /\ chat.shown = {} => s = 0
        BY <1>1, ShownFacts
    <2>2. MinExpected(chat.msg, chat.matched) =
            IF count = 0 THEN (n + 1) \div 2 ELSE IF count < n THEN count ELSE n
        BY DEF MinExpected
    <2> HIDE DEF n, s, count
    <2>3. s # 0
        BY <2>1, <2>2
    <2> QED
        BY <2>1, <2>3
  <1>2. chat.failed \in BOOLEAN /\ (chat.failed = TRUE => chat.tableFailed = TRUE)
      BY ChatFields DEF ChatInv
  <1> QED
      BY <1>1, <1>2 DEF NeverEmptyHanded

LEMMA PlaceForEach == ASSUME ChatAssumption, ChatInv PROVE EveryPeriodHasItsPlace
  <1> SUFFICES ASSUME chat.pc = "done", chat.failed = FALSE PROVE EveryPeriodHasItsPlace
    <2>1. chat.failed \in BOOLEAN
        BY ChatFields DEF ChatInv
    <2> QED
        BY <2>1 DEF EveryPeriodHasItsPlace
  <1>1. /\ chat.via # "" /\ chat.shown \subseteq chat.matched
        /\ \A d, e \in chat.matched : SamePeriod(d, e) => d = e
      BY ShownFacts DEF ChatInv, Matched
  <1>2. ASSUME chat.via = "search", \A p \in PeriodsIn(chat.found) : Cardinality(p) <= fetchHeadroom
        PROVE  LET there == Cardinality(PeriodsIn(chat.found))
                   limit == LimitOf(chat.msg, chat.asked)
                   most  == IF limit < there THEN limit ELSE there
               IN IF RequestedCount(chat.msg) # 0 THEN Cardinality(chat.shown) = most
                  ELSE 2 * Cardinality(chat.shown) >= most
    <2> DEFINE n == Cardinality(chat.matched)
               s == Cardinality(chat.shown)
               count == RequestedCount(chat.msg)
               there == Cardinality(PeriodsIn(chat.found))
               limit == LimitOf(chat.msg, chat.asked)
    <2>1. n = IF limit < there THEN limit ELSE there
        BY <1>2 DEF ChatInv, Matched, InPlace
    <2>2. n \in Nat /\ s \in Nat /\ s <= n /\ count \in Nat /\ (s = n \/ s >= MinExpected(chat.msg, chat.matched))
        BY ShownFacts
    <2>3. MinExpected(chat.msg, chat.matched) =
            IF count = 0 THEN (n + 1) \div 2 ELSE IF count < n THEN count ELSE n
        BY DEF MinExpected
    <2>4. there \in Nat /\ limit \in Nat /\ (count # 0 => limit = count)
      <3>1. chat.msg \in Messages /\ chat.asked \in Plans /\ chat.found \subseteq Shelf
          BY ChatFields DEF ChatInv
      <3>2. limit \in Nat /\ (count # 0 => limit = count)
          BY <3>1, LimitFacts DEF ChatInv
      <3>3. PeriodsIn(chat.found) \in SUBSET (SUBSET chat.found) /\ IsFiniteSet(SUBSET chat.found)
          BY <3>1, ShelfFacts, FS_SUBSET DEF PeriodsIn
      <3>4. there \in Nat
          BY <3>3, FS_Subset, FS_CardinalityType
      <3> QED
          BY <3>2, <3>4
    <2> HIDE DEF n, s, count, there, limit
    <2>5. IF count # 0 THEN s = n ELSE 2 * s >= n
        BY <2>1, <2>2, <2>3, <2>4
    <2> QED
        BY <2>1, <2>5 DEF n, s, count, there, limit
  <1> QED
      BY <1>1, <1>2 DEF EveryPeriodHasItsPlace

LEMMA OrderKept == ASSUME ChatAssumption, ChatInv PROVE LadderKeepsOrder
  <1>1. chat.searches <= 4
    <2> DEFINE m == chat.searches
               k == IF chat.pc = "search" THEN Rungs(chat.plan) + 1 ELSE 0
    <2>1. m \in Nat /\ k \in Nat
      <3>1. chat.searches \in Nat
          BY ChatFields DEF ChatInv
      <3>2. Rungs(chat.plan) \in Nat
          BY DEF Rungs
      <3> QED
          BY <3>1, <3>2
    <2>2. m + k <= 4
        BY DEF ChatInv, Searches
    <2> HIDE DEF m, k
    <2>3. m <= 4
        BY <2>1, <2>2
    <2> QED
        BY <2>3 DEF m
  <1>2. ASSUME chat.via = "search", NEW d \in chat.shown PROVE Keeps(d, chat.asked)
    <2>1. chat.shown \subseteq chat.matched
        BY DEF ChatInv, Shown
    <2> QED
        BY <1>2, <2>1 DEF ChatInv, Matched
  <1> QED
      BY <1>1, <1>2 DEF LadderKeepsOrder, Keeps, Exhausted, Loose

\* POST /api/chat: with documents in the archive an answer shows some, each
\* month once and as many months as were asked for and found, and it is no more
\* relaxed than it has to be.
THEOREM ChatServesTheorem == ChatSpec => []ChatServes
  <1> USE ChatAssumption
  <1>1. ChatInit => ChatInv
      BY ChatStarts
  <1>2. ChatInv /\ [ChatNext]_chatVars => ChatInv'
      BY AskedStep, PlannedStep, SearchStep, ScoreStep, AnsweredStep, ShelfStep, ChatStays DEF ChatNext
  <1>3. ChatInv => ChatServes
      BY NotEmpty, PlaceForEach, OrderKept DEF ChatServes
  <1> QED
      BY <1>1, <1>2, <1>3, PTL DEF ChatSpec

\* AnswersSound: what a user is told of the model server, and what the chat
\* finds for him.
THEOREM AnswersSoundTheorem == OllamaSpec /\ ChatSpec => []AnswersSound
  <1>1. AnswersHonest /\ ChatServes => AnswersSound
      BY DEF AnswersSound
  <1> QED
      BY <1>1, AnswersHonestTheorem, ChatServesTheorem, PTL

-----------------------------------------------------------------------------
(* The log.  Two invariants: what the pages of the log have of the entries  *)
(* and what they are still owed (PagesInv), and what the generations hold   *)
(* and what the logger takes for the size of the youngest (FilesInv).       *)

LogSteps == {"rest", "tell", "rotate", "open", "append", "count"}
LogEntries == [id : Nat, line : Nat, name : LogNames \cup {""}, kind : {"", "done", "fail"}]
LoggerStates == [pc : LogSteps, entry : LogEntries, due : SUBSET Streams, fd : Nat]
StreamStates == [pc : {"off", "init", "on"}, channel : Seq(LogEntries), sent : Seq(LogEntries),
                 from : Nat, dropped : SUBSET Nat]

EntriesTyped ==
  /\ entries \in Seq(LogEntries) /\ \A i \in 1..Len(entries) : entries[i].id = i
  /\ ring \in Nat /\ ring <= MaxBuffer /\ ring <= Len(entries)
  /\ logger \in [Loggers -> LoggerStates]
  /\ stream \in [Streams -> StreamStates]
FilesTyped ==
  /\ text \in Seq(Seq(Nat)) /\ gen \in [0..Retain -> 0..Len(text)]
  /\ bytes \in Nat \cup {-1} /\ lines \in Nat /\ failedRotations \in Nat /\ logFaults \in Nat
  /\ overlapped \in BOOLEAN
  /\ \A g \in Loggers : logger[g].pc = "append" => logger[g].fd \in 1..Len(text)

\* What a page of the log has of the entries, and what it has been refused.
Got(s) ==
  {stream[s].sent[i].id : i \in 1..Len(stream[s].sent)}
    \cup {stream[s].channel[i].id : i \in 1..Len(stream[s].channel)} \cup stream[s].dropped
Telling(g) == logger[g].pc = "tell"
TellersDiffer ==
  /\ \A g \in Loggers : Telling(g) => logger[g].entry.id \in 1..Len(entries)
  /\ \A g, h \in Loggers : Telling(g) /\ Telling(h) /\ g # h => logger[g].entry.id # logger[h].entry.id
Owed ==
  \A g \in Loggers : Telling(g) => \A s \in logger[g].due :
    stream[s].pc = "on" /\ logger[g].entry.id \notin Got(s)
OnceEach ==
  \A s \in Streams :
    /\ Got(s) \subseteq 1..Len(entries)
    /\ \A i, j \in 1..Len(stream[s].sent) : i # j => stream[s].sent[i].id # stream[s].sent[j].id
    /\ \A i, j \in 1..Len(stream[s].channel) : i # j => stream[s].channel[i].id # stream[s].channel[j].id
    /\ \A i \in 1..Len(stream[s].sent), j \in 1..Len(stream[s].channel) :
         stream[s].sent[i].id # stream[s].channel[j].id
    /\ stream[s].pc # "on" => stream[s].channel = <<>>
AllComes ==
  \A s \in Streams : stream[s].pc = "on" =>
    \A id \in stream[s].from + 1..Len(entries) :
      id \in Got(s) \/ \E g \in Loggers : Telling(g) /\ s \in logger[g].due /\ logger[g].entry.id = id

PagesInv == EntriesTyped /\ TellersDiffer /\ Owed /\ OnceEach /\ AllComes

\* The size of the youngest generation; the goroutines that have decided about it and
\* have not counted their line, and those that have written it.
Size == IF gen[0] = 0 THEN 0 ELSE Len(text[gen[0]])
Writing(g) == logger[g].pc \in {"open", "append", "count"}
CountsLine(g) == logger[g].pc = "count"
OneAtATime == \A g, h \in Logging : g = h
Room == MaxBytes * failedRotations
SizeKnown ==
  /\ bytes = -1 => Size <= MaxBytes + Room /\ \A g \in Loggers : ~Writing(g)
  /\ bytes # -1 =>
       /\ bytes <= MaxBytes
       /\ \A g \in Loggers : Writing(g) => bytes + 1 <= MaxBytes
       /\ Size <= bytes + Room \/ (Size <= bytes + 1 + Room /\ \E g \in Loggers : CountsLine(g))
  /\ \A g \in Loggers : logger[g].pc \in {"append", "count"} => gen[0] # 0
  /\ \A g \in Loggers : logger[g].pc = "append" => logger[g].fd = gen[0]

\* While no rotation has failed.
Base == IF gen[0] = 0 THEN Len(text) + 1 ELSE Len(text)
Generations ==
  /\ gen[0] \in {0, Len(text)}
  /\ \A n \in 1..Retain : gen[n] = IF n < Base THEN Base - n ELSE 0
  /\ bytes # -1 => bytes <= Size /\ \A g \in Loggers : CountsLine(g) => bytes + 1 <= Size
  /\ \A f \in 1..Len(text) : f # gen[0] => Len(text[f]) >= MaxBytes
Sorted ==
  /\ \A e, f \in 1..Len(text) : \A i \in 1..Len(text[e]), j \in 1..Len(text[f]) :
       e < f \/ (e = f /\ i < j) => text[e][i] < text[f][j]
  /\ \A f \in 1..Len(text) : \A i \in 1..Len(text[f]) :
       /\ text[f][i] <= lines
       /\ \A g \in Loggers : logger[g].pc \in {"tell", "rotate", "open", "append"} =>
            text[f][i] < logger[g].entry.line
  /\ \A g \in Loggers : logger[g].entry.line <= lines

FilesInv ==
  /\ FilesTyped
  /\ ~overlapped => OneAtATime /\ SizeKnown
  /\ ~overlapped /\ failedRotations = 0 => Generations /\ Sorted

-----------------------------------------------------------------------------
(* Pages.                                                                   *)

LEMMA LoggerSet ==
    ASSUME logger \in [Loggers -> LoggerStates], NEW g \in Loggers, NEW r \in LoggerStates,
           logger' = [logger EXCEPT ![g] = r]
    PROVE  /\ logger' \in [Loggers -> LoggerStates] /\ logger'[g] = r
           /\ \A h \in Loggers : h # g => logger'[h] = logger[h]
  OBVIOUS

LEMMA LoggerGoes ==
    ASSUME logger \in [Loggers -> LoggerStates], NEW g \in Loggers, NEW pc \in LogSteps,
           logger' = [logger EXCEPT ![g].pc = pc]
    PROVE  /\ logger' \in [Loggers -> LoggerStates]
           /\ logger'[g].pc = pc /\ logger'[g].entry = logger[g].entry
           /\ logger'[g].due = logger[g].due /\ logger'[g].fd = logger[g].fd
           /\ \A h \in Loggers : h # g => logger'[h] = logger[h]
  <1>1. PICK r \in LoggerStates : r = [logger[g] EXCEPT !.pc = pc]
      BY DEF LoggerStates
  <1>2. logger' = [logger EXCEPT ![g] = r]
      BY <1>1
  <1> QED
      BY <1>1, <1>2, LoggerSet DEF LoggerStates

LEMMA BoundsAre ==
    /\ MaxBytes \in Nat /\ MaxBytes > 0 /\ Retain \in Nat /\ Retain > 0 /\ 0 \in 0..Retain
    /\ MaxBuffer \in Nat /\ InitialLogs \in Int
  <1>1. {MaxBytes, Retain} \subseteq Nat \ {0} /\ MaxBuffer \in Nat /\ InitialLogs \in Int
      BY LogAssumption DEF LogAssumption
  <1>2. MaxBytes \in Nat \ {0} /\ Retain \in Nat \ {0}
      BY <1>1
  <1> QED
      BY <1>1, <1>2

LEMMA RestTyped ==
    /\ Resting \in LoggerStates /\ NoEntry \in LogEntries
    /\ Resting.pc = "rest" /\ Resting.entry = NoEntry /\ NoEntry.line = 0
  <1>1. NoEntry \in LogEntries /\ NoEntry.line = 0
      BY DEF NoEntry, LogEntries
  <1> QED
      BY <1>1 DEF Resting, LoggerStates, LogSteps

LEMMA OffTyped ==
    /\ NoStream \in StreamStates
    /\ NoStream.pc = "off" /\ NoStream.channel = <<>> /\ NoStream.sent = <<>> /\ NoStream.dropped = {}
  BY DEF NoStream, StreamStates

\* A step of a goroutine that does not tell and will not.
LEMMA PagesStay ==
    ASSUME PagesInv, UNCHANGED <<entries, ring, stream>>, NEW g \in Loggers,
           logger' \in [Loggers -> LoggerStates], ~Telling(g), ~Telling(g)',
           \A h \in Loggers : h # g => logger'[h] = logger[h]
    PROVE  PagesInv'
  <1>1. \A h \in Loggers : (Telling(h)' <=> Telling(h)) /\ (Telling(h) => logger'[h] = logger[h])
      BY DEF Telling
  <1>2. \A s \in Streams : Got(s)' = Got(s)
      BY DEF Got
  <1>3. EntriesTyped'
      BY DEF PagesInv, EntriesTyped
  <1>4. TellersDiffer'
      BY <1>1 DEF PagesInv, TellersDiffer
  <1>7. Owed'
    <2> SUFFICES ASSUME NEW h \in Loggers, Telling(h)', NEW s \in logger'[h].due
                 PROVE  stream[s].pc = "on" /\ logger'[h].entry.id \notin Got(s)'
        BY DEF Owed
    <2>1. Telling(h) /\ logger'[h] = logger[h] /\ s \in Streams
        BY <1>1 DEF PagesInv, EntriesTyped, LoggerStates
    <2> QED
        BY <1>2, <2>1 DEF PagesInv, Owed
  <1>5. OnceEach'
      BY <1>2 DEF PagesInv, OnceEach
  <1>6. AllComes'
      BY <1>1, <1>2 DEF PagesInv, AllComes
  <1> QED
      BY <1>3, <1>4, <1>5, <1>6, <1>7 DEF PagesInv

\* What is logged is the newest entry, and owed to all that listen.
LEMMA LogIs ==
    ASSUME EntriesTyped, lines \in Nat, NEW g \in Loggers, NEW name \in LogNames, NEW kind \in {"done", "fail"},
           Log(g, name, kind)
    PROVE  \E e \in LogEntries :
             /\ e.id = Len(entries) + 1 /\ e.line = lines + 1 /\ entries' = Append(entries, e)
             /\ logger' \in [Loggers -> LoggerStates] /\ logger'[g].entry = e
             /\ logger'[g].pc \in {"tell", "rotate"} /\ (logger'[g].pc = "rotate" => Listening = {})
             /\ logger'[g].due = Listening
             /\ \A h \in Loggers : h # g => logger'[h] = logger[h]
  <1>0. Len(entries) + 1 \in Nat /\ lines' = lines + 1 /\ lines + 1 \in Nat
      BY DEF EntriesTyped, Log
  <1>1. PICK e \in LogEntries : e = [id |-> Len(entries) + 1, line |-> lines', name |-> name, kind |-> kind]
    <2>1. name \in LogNames \cup {""} /\ kind \in {"", "done", "fail"}
        OBVIOUS
    <2> QED
        BY <1>0, <2>1 DEF LogEntries
  <1>2. PICK r \in LoggerStates : r = [pc |-> IF Listening = {} THEN "rotate" ELSE "tell",
                                       entry |-> e, due |-> Listening, fd |-> 0]
    <2>1. Listening \in SUBSET Streams
        BY DEF Listening
    <2> DEFINE next == IF Listening = {} THEN "rotate" ELSE "tell"
    <2>2. next \in LogSteps
        BY DEF LogSteps
    <2> HIDE DEF next
    <2>3. [pc |-> next, entry |-> e, due |-> Listening, fd |-> 0] \in LoggerStates
        BY <2>1, <2>2 DEF LoggerStates
    <2> QED
        BY <2>3 DEF next
  <1>3. entries' = Append(entries, e) /\ logger' = [logger EXCEPT ![g] = r] /\ lines' = lines + 1
      BY <1>1, <1>2 DEF Log
  <1>4. /\ logger' \in [Loggers -> LoggerStates] /\ logger'[g] = r
        /\ \A h \in Loggers : h # g => logger'[h] = logger[h]
      BY <1>3, LoggerSet DEF EntriesTyped
  <1>5. r.pc \in {"tell", "rotate"} /\ (r.pc = "rotate" => Listening = {}) /\ r.due = Listening /\ r.entry = e
      BY <1>2
  <1>6. e.id = Len(entries) + 1 /\ e.line = lines + 1
      BY <1>1, <1>3
  <1> QED
      BY <1>3, <1>4, <1>5, <1>6

LEMMA RingStep ==
    ASSUME EntriesTyped, NEW e, entries' = Append(entries, e), ring' = RingGrown
    PROVE  ring' \in Nat /\ ring' <= MaxBuffer /\ ring' <= Len(entries')
  BY BoundsAre DEF EntriesTyped, RingGrown

LEMMA LogStep ==
    ASSUME PagesInv, lines \in Nat,
           NEW g \in Loggers, NEW name \in LogNames, NEW kind \in {"done", "fail"}, Log(g, name, kind)
    PROVE  PagesInv'
  <1>0. EntriesTyped /\ TellersDiffer /\ Owed /\ OnceEach /\ AllComes
      BY DEF PagesInv
  <1>1. PICK e \in LogEntries :
             /\ e.id = Len(entries) + 1 /\ e.line = lines + 1 /\ entries' = Append(entries, e)
             /\ logger' \in [Loggers -> LoggerStates] /\ logger'[g].entry = e
             /\ logger'[g].pc \in {"tell", "rotate"} /\ (logger'[g].pc = "rotate" => Listening = {})
             /\ logger'[g].due = Listening
             /\ \A h \in Loggers : h # g => logger'[h] = logger[h]
      BY <1>0, LogIs
  <1>2. ~Telling(g) /\ ring' = RingGrown /\ UNCHANGED stream
      BY DEF Log, Telling
  <1>3. \A s \in Streams : Got(s)' = Got(s)
      BY <1>2 DEF Got
  <1>4. entries \in Seq(LogEntries) /\ Len(entries') = Len(entries) + 1 /\ entries'[Len(entries) + 1] = e
        /\ \A i \in 1..Len(entries) : entries'[i] = entries[i]
      BY <1>0, <1>1 DEF EntriesTyped
  <1>5. EntriesTyped'
    <2>1. ring' \in Nat /\ ring' <= MaxBuffer /\ ring' <= Len(entries')
        BY <1>0, <1>1, <1>2, RingStep
    <2>2. entries' \in Seq(LogEntries)
        BY <1>1, <1>4
    <2>3. \A i \in 1..Len(entries') : entries'[i].id = i
        BY <1>0, <1>1, <1>4 DEF EntriesTyped
    <2> QED
        BY <1>0, <1>1, <1>2, <2>1, <2>2, <2>3 DEF EntriesTyped
  <1>6. \A h \in Loggers : Telling(h)' => h = g \/ (Telling(h) /\ logger'[h] = logger[h])
      BY <1>1 DEF Telling
  <1>7. TellersDiffer'
    <2>1. Len(entries) \in Nat
        BY <1>4
    <2> QED
        BY <1>0, <1>1, <1>4, <1>6, <2>1 DEF TellersDiffer
  <1>8. Owed'
    <2>1. ASSUME NEW s \in Listening PROVE stream[s].pc = "on" /\ e.id \notin Got(s)
        BY <1>0, <1>1, <1>4, <2>1 DEF Listening, OnceEach
    <2> SUFFICES ASSUME NEW h \in Loggers, Telling(h)', NEW s \in logger'[h].due
                 PROVE  stream'[s].pc = "on" /\ logger'[h].entry.id \notin Got(s)'
        BY DEF Owed
    <2>2. CASE h = g
      <3>1. s \in Listening /\ s \in Streams /\ logger'[h].entry = e
          BY <1>1, <2>2 DEF Listening
      <3> QED
          BY <1>2, <1>3, <2>1, <3>1
    <2>3. CASE h # g
      <3>1. Telling(h) /\ logger'[h] = logger[h] /\ s \in Streams
          BY <1>0, <1>6, <2>3 DEF EntriesTyped, LoggerStates
      <3> QED
          BY <1>0, <1>2, <1>3, <3>1 DEF Owed
    <2> QED
        BY <2>2, <2>3
  <1>9. OnceEach'
      BY <1>0, <1>2, <1>3, <1>4 DEF OnceEach
  <1>10. AllComes'
    <2> SUFFICES ASSUME NEW s \in Streams, stream[s].pc = "on", NEW id \in stream[s].from + 1..Len(entries) + 1,
                        id \notin Got(s)
                 PROVE  \E h \in Loggers : Telling(h)' /\ s \in logger'[h].due /\ logger'[h].entry.id = id
        BY <1>2, <1>3, <1>4 DEF AllComes
    <2>0. stream[s].from \in Nat /\ Len(entries) \in Nat
        BY <1>0, <1>4 DEF EntriesTyped, StreamStates
    <2>1. CASE id = Len(entries) + 1
      <3>1. s \in Listening
          BY DEF Listening
      <3> QED
          BY <1>1, <2>1, <3>1 DEF Telling
    <2>2. CASE id # Len(entries) + 1
      <3>1. id \in stream[s].from + 1..Len(entries)
          BY <2>0, <2>2
      <3>2. PICK h \in Loggers : Telling(h) /\ s \in logger[h].due /\ logger[h].entry.id = id
          BY <1>0, <3>1 DEF AllComes
      <3>3. h # g
          BY <1>2, <3>2
      <3> QED
          BY <1>1, <3>2, <3>3 DEF Telling
    <2> QED
        BY <2>1, <2>2
  <1> QED
      BY <1>5, <1>7, <1>8, <1>9, <1>10 DEF PagesInv

LEMMA StreamSet ==
    ASSUME stream \in [Streams -> StreamStates], NEW s \in Streams, NEW r \in StreamStates,
           stream' = [stream EXCEPT ![s] = r]
    PROVE  /\ stream' \in [Streams -> StreamStates] /\ stream'[s] = r
           /\ \A t \in Streams : t # s => stream'[t] = stream[t] /\ Got(t)' = Got(t)
  <1>1. /\ stream' \in [Streams -> StreamStates] /\ stream'[s] = r
        /\ \A t \in Streams : t # s => stream'[t] = stream[t]
      OBVIOUS
  <1> QED
      BY <1>1 DEF Got

\* An entry a page is told goes into its channel, or is refused by it.
LEMMA TellIs ==
    ASSUME EntriesTyped, Owed, NEW g \in Loggers, NEW s \in Streams, Tell(g, s)
    PROVE  \E r \in StreamStates :
             /\ stream' = [stream EXCEPT ![s] = r]
             /\ r.pc = "on" /\ r.sent = stream[s].sent /\ r.from = stream[s].from
             /\ \/ r.channel = Append(stream[s].channel, logger[g].entry) /\ r.dropped = stream[s].dropped
                \/ r.channel = stream[s].channel /\ r.dropped = stream[s].dropped \cup {logger[g].entry.id}
  <1> DEFINE e == logger[g].entry
             old == stream[s]
  <1>1. e \in LogEntries /\ e.id \in Nat /\ old \in StreamStates /\ old.pc = "on"
      BY DEF Tell, Owed, Telling, EntriesTyped, LoggerStates, LogEntries
  <1>2. \/ stream' = [stream EXCEPT ![s] = [old EXCEPT !.channel = Append(old.channel, e)]]
        \/ stream' = [stream EXCEPT ![s] = [old EXCEPT !.dropped = old.dropped \cup {e.id}]]
    <2>1. stream' = [stream EXCEPT ![s] =
            IF old.pc # "on" THEN old
            ELSE IF Len(old.channel) < StreamBuffer THEN [old EXCEPT !.channel = Append(old.channel, e)]
            ELSE [old EXCEPT !.dropped = old.dropped \cup {e.id}]]
        BY DEF Tell
    <2>2. PICK v : v = IF Len(old.channel) < StreamBuffer THEN [old EXCEPT !.channel = Append(old.channel, e)]
                       ELSE [old EXCEPT !.dropped = old.dropped \cup {e.id}]
        OBVIOUS
    <2>3. stream' = [stream EXCEPT ![s] = v]
      <3> HIDE DEF e
      <3> QED
          BY <1>1, <2>1, <2>2
    <2> QED
        BY <2>2, <2>3
  <1>3. PICK seq : seq = Append(old.channel, e)
      OBVIOUS
  <1>4. PICK ids : ids = old.dropped \cup {e.id}
      OBVIOUS
  <1>5. seq \in Seq(LogEntries) /\ ids \in SUBSET Nat
      BY <1>1, <1>3, <1>4 DEF StreamStates
  <1>6. \/ stream' = [stream EXCEPT ![s] = [old EXCEPT !.channel = seq]]
        \/ stream' = [stream EXCEPT ![s] = [old EXCEPT !.dropped = ids]]
      BY <1>2, <1>3, <1>4
  <1> HIDE DEF old
  <1>7. CASE stream' = [stream EXCEPT ![s] = [old EXCEPT !.channel = seq]]
    <2>1. PICK r \in StreamStates : r = [old EXCEPT !.channel = seq]
        BY <1>1, <1>5 DEF StreamStates
    <2> QED
        BY <1>1, <1>3, <1>7, <2>1 DEF old, StreamStates
  <1>8. CASE stream' = [stream EXCEPT ![s] = [old EXCEPT !.dropped = ids]]
    <2>1. PICK r \in StreamStates : r = [old EXCEPT !.dropped = ids]
        BY <1>1, <1>5 DEF StreamStates
    <2> QED
        BY <1>1, <1>4, <1>8, <2>1 DEF old, StreamStates
  <1> QED
      BY <1>6, <1>7, <1>8

LEMMA TellLogger ==
    ASSUME EntriesTyped, NEW g \in Loggers, NEW s \in Streams, Tell(g, s)
    PROVE  /\ logger' \in [Loggers -> LoggerStates]
           /\ logger'[g].entry = logger[g].entry /\ logger'[g].due = logger[g].due \ {s}
           /\ logger'[g].pc = IF logger[g].due = {s} THEN "rotate" ELSE "tell"
           /\ logger'[g].fd = logger[g].fd
           /\ \A h \in Loggers : h # g => logger'[h] = logger[h]
  <1> DEFINE old == logger[g]
             next == IF old.due = {s} THEN "rotate" ELSE "tell"
             rest == old.due \ {s}
  <1>1. next \in LogSteps /\ old \in LoggerStates /\ rest \in SUBSET Streams
      BY DEF LogSteps, EntriesTyped, LoggerStates
  <1>2. logger' = [logger EXCEPT ![g].due = rest, ![g].pc = next]
      BY DEF Tell
  <1> HIDE DEF next, rest
  <1>3. PICK r : r = [old EXCEPT !.due = rest, !.pc = next]
      OBVIOUS
  <1>4. r \in LoggerStates /\ r.due = rest /\ r.pc = next /\ r.entry = old.entry /\ r.fd = old.fd
      BY <1>1, <1>3 DEF LoggerStates
  <1>5. logger' = [logger EXCEPT ![g] = r]
      BY <1>1, <1>2, <1>3 DEF EntriesTyped, LoggerStates
  <1> QED
      BY <1>4, <1>5, LoggerSet DEF EntriesTyped, next, rest

LEMMA TellStep ==
    ASSUME PagesInv, NEW g \in Loggers, NEW s \in Streams, Tell(g, s)
    PROVE  PagesInv'
  <1> DEFINE e == logger[g].entry
  <1>0. EntriesTyped /\ TellersDiffer /\ Owed /\ OnceEach /\ AllComes
      BY DEF PagesInv
  <1>1. PICK r \in StreamStates :
             /\ stream' = [stream EXCEPT ![s] = r]
             /\ r.pc = "on" /\ r.sent = stream[s].sent /\ r.from = stream[s].from
             /\ \/ r.channel = Append(stream[s].channel, e) /\ r.dropped = stream[s].dropped
                \/ r.channel = stream[s].channel /\ r.dropped = stream[s].dropped \cup {e.id}
      BY <1>0, TellIs
  <1>2. /\ logger' \in [Loggers -> LoggerStates]
        /\ logger'[g].entry = e /\ logger'[g].due = logger[g].due \ {s}
        /\ logger'[g].pc = IF logger[g].due = {s} THEN "rotate" ELSE "tell"
        /\ \A h \in Loggers : h # g => logger'[h] = logger[h]
      BY <1>0, TellLogger
  <1>3. Telling(g) /\ s \in logger[g].due /\ UNCHANGED <<entries, ring>>
      BY DEF Tell, Telling
  <1>4. stream[s].pc = "on" /\ e.id \notin Got(s) /\ e.id \in 1..Len(entries)
      BY <1>0, <1>3 DEF Owed, TellersDiffer
  <1>5. /\ stream' \in [Streams -> StreamStates] /\ stream'[s] = r
        /\ \A t \in Streams : t # s => stream'[t] = stream[t] /\ Got(t)' = Got(t)
      BY <1>0, <1>1, StreamSet DEF EntriesTyped
  <1>6. stream[s].channel \in Seq(LogEntries) /\ stream[s].sent \in Seq(LogEntries) /\ e \in LogEntries
      BY <1>0 DEF EntriesTyped, StreamStates, LoggerStates
  <1>7. Got(s)' = Got(s) \cup {e.id}
    <2>0. Got(s)' = {r.sent[i].id : i \in 1..Len(r.sent)} \cup {r.channel[i].id : i \in 1..Len(r.channel)} \cup r.dropped
        BY <1>5 DEF Got
    <2>1. CASE r.channel = Append(stream[s].channel, e) /\ r.dropped = stream[s].dropped
      <3>1. {r.channel[i].id : i \in 1..Len(r.channel)} =
              {stream[s].channel[i].id : i \in 1..Len(stream[s].channel)} \cup {e.id}
          BY <1>6, <2>1
      <3> QED
          BY <1>1, <2>0, <2>1, <3>1 DEF Got
    <2>2. CASE r.channel = stream[s].channel /\ r.dropped = stream[s].dropped \cup {e.id}
        BY <1>1, <2>0, <2>2 DEF Got
    <2> QED
        BY <1>1, <2>1, <2>2
  <1>8. EntriesTyped'
      BY <1>0, <1>2, <1>3, <1>5 DEF EntriesTyped
  <1>9. \A h \in Loggers : Telling(h)' => Telling(h) /\ logger'[h].entry = logger[h].entry /\ logger'[h].due \subseteq logger[h].due
      BY <1>2, <1>3 DEF Telling
  <1>10. TellersDiffer'
      BY <1>0, <1>3, <1>9 DEF TellersDiffer
  <1>11. Owed'
    <2> SUFFICES ASSUME NEW h \in Loggers, Telling(h)', NEW t \in logger'[h].due
                 PROVE  stream'[t].pc = "on" /\ logger'[h].entry.id \notin Got(t)'
        BY DEF Owed
    <2>1. Telling(h) /\ logger'[h].entry = logger[h].entry /\ t \in logger[h].due /\ t \in Streams
        BY <1>0, <1>9 DEF EntriesTyped, LoggerStates
    <2>2. stream[t].pc = "on" /\ logger[h].entry.id \notin Got(t)
        BY <1>0, <2>1 DEF Owed
    <2>3. CASE t # s
        BY <1>5, <2>1, <2>2, <2>3
    <2>4. CASE t = s
      <3>1. h # g
          BY <1>2, <2>4
      <3>2. logger[h].entry.id # e.id
          BY <1>0, <1>3, <2>1, <3>1 DEF TellersDiffer
      <3> QED
          BY <1>1, <1>5, <1>7, <2>1, <2>2, <2>4, <3>2
    <2> QED
        BY <2>3, <2>4
  <1>12. OnceEach'
    <2>1. ASSUME NEW t \in Streams, t # s
          PROVE  /\ Got(t)' \subseteq 1..Len(entries)
                 /\ \A i, j \in 1..Len(stream'[t].sent) : i # j => stream'[t].sent[i].id # stream'[t].sent[j].id
                 /\ \A i, j \in 1..Len(stream'[t].channel) : i # j => stream'[t].channel[i].id # stream'[t].channel[j].id
                 /\ \A i \in 1..Len(stream'[t].sent), j \in 1..Len(stream'[t].channel) :
                      stream'[t].sent[i].id # stream'[t].channel[j].id
                 /\ stream'[t].pc # "on" => stream'[t].channel = <<>>
      <3>1. Got(t) \subseteq 1..Len(entries) /\ Got(t)' = Got(t) /\ stream'[t] = stream[t]
          BY <1>0, <1>5, <2>1 DEF OnceEach
      <3> QED
          BY <1>0, <3>1 DEF OnceEach
    <2>2. Got(s)' \subseteq 1..Len(entries)
        BY <1>0, <1>4, <1>7 DEF OnceEach
    <2>3. \A i, j \in 1..Len(r.sent) : i # j => r.sent[i].id # r.sent[j].id
        BY <1>0, <1>1 DEF OnceEach
    <2>4. /\ \A i, j \in 1..Len(r.channel) : i # j => r.channel[i].id # r.channel[j].id
          /\ \A i \in 1..Len(r.sent), j \in 1..Len(r.channel) : r.sent[i].id # r.channel[j].id
      <3>1. CASE r.channel = stream[s].channel
          BY <1>0, <1>1, <3>1 DEF OnceEach
      <3>2. CASE r.channel = Append(stream[s].channel, e)
        <4>1. /\ Len(r.channel) = Len(stream[s].channel) + 1 /\ r.channel[Len(stream[s].channel) + 1] = e
              /\ \A i \in 1..Len(stream[s].channel) : r.channel[i] = stream[s].channel[i]
            BY <1>6, <3>2
        <4>2. /\ \A i \in 1..Len(stream[s].channel) : stream[s].channel[i].id # e.id
              /\ \A i \in 1..Len(stream[s].sent) : stream[s].sent[i].id # e.id
            BY <1>4 DEF Got
        <4>3. \A i \in 1..Len(r.channel) : i \in 1..Len(stream[s].channel) \/ (r.channel[i] = e /\ i = Len(r.channel))
          <5>1. PICK n \in Nat : n = Len(stream[s].channel)
              BY <1>6
          <5>2. Len(r.channel) = n + 1 /\ r.channel[n + 1] = e
              BY <4>1, <5>1
          <5> SUFFICES ASSUME NEW i \in 1..Len(r.channel), i \notin 1..n
                       PROVE  r.channel[i] = e /\ i = Len(r.channel)
              BY <5>1
          <5>3. i = n + 1
              BY <5>1, <5>2
          <5> QED
              BY <5>2, <5>3
        <4>4. PICK old : old = stream[s].channel
            OBVIOUS
        <4>5. /\ \A i, j \in 1..Len(old) : i # j => old[i].id # old[j].id
              /\ \A i \in 1..Len(r.sent), j \in 1..Len(old) : r.sent[i].id # old[j].id
            BY <1>0, <1>1, <4>4 DEF OnceEach
        <4>6. /\ \A i \in 1..Len(old) : r.channel[i] = old[i] /\ old[i].id # e.id
              /\ \A i \in 1..Len(r.sent) : r.sent[i].id # e.id
              /\ \A i \in 1..Len(r.channel) : i \in 1..Len(old) \/ (r.channel[i] = e /\ i = Len(r.channel))
            BY <1>1, <4>1, <4>2, <4>3, <4>4
        <4> HIDE DEF e
        <4> QED
            BY <4>5, <4>6
      <3> QED
          BY <1>1, <3>1, <3>2
    <2> QED
        BY <1>1, <1>3, <1>5, <2>1, <2>2, <2>3, <2>4 DEF OnceEach
  <1>13. AllComes'
    <2> SUFFICES ASSUME NEW t \in Streams, stream'[t].pc = "on", NEW id \in stream'[t].from + 1..Len(entries),
                        id \notin Got(t)'
                 PROVE  \E h \in Loggers : Telling(h)' /\ t \in logger'[h].due /\ logger'[h].entry.id = id
        BY <1>3 DEF AllComes
    <2>1. stream[t].pc = "on" /\ stream'[t].from = stream[t].from /\ id \notin Got(t)
        BY <1>1, <1>4, <1>5, <1>7
    <2>2. PICK h \in Loggers : Telling(h) /\ t \in logger[h].due /\ logger[h].entry.id = id
        BY <1>0, <2>1 DEF AllComes
    <2>3. CASE h # g
        BY <1>2, <2>2, <2>3 DEF Telling
    <2>4. CASE h = g
      <3>1. t # s
          BY <1>7, <2>2, <2>4
      <3> QED
          BY <1>2, <2>2, <2>4, <3>1 DEF Telling
    <2> QED
        BY <2>3, <2>4
  <1> QED
      BY <1>8, <1>10, <1>11, <1>12, <1>13 DEF PagesInv

\* What the ring buffer gives are entries, each once.
LEMMA RecentIs ==
    ASSUME EntriesTyped
    PROVE  /\ RecentLogs(InitialLogs) \in Seq(LogEntries)
           /\ \E from \in Nat : \A i \in 1..Len(RecentLogs(InitialLogs)) :
                from + i \in 1..Len(entries) /\ RecentLogs(InitialLogs)[i].id = from + i
  <1>1. /\ entries \in Seq(LogEntries) /\ Len(entries) \in Nat /\ ring \in Nat /\ ring <= Len(entries)
        /\ \A i \in 1..Len(entries) : entries[i].id = i
      BY DEF EntriesTyped
  <1>2. PICK first \in Nat : first = Len(entries) - ring
      BY <1>1
  <1>3. /\ Buffered \in Seq(LogEntries) /\ Len(Buffered) = ring
        /\ \A i \in 1..ring : first + i \in 1..Len(entries) /\ Buffered[i] = entries[first + i]
      BY <1>1, <1>2 DEF Buffered
  <1>4. \A i \in 1..ring : first + i \in 1..Len(entries) /\ Buffered[i].id = first + i
      BY <1>1, <1>3
  <1>5. CASE InitialLogs <= 0 \/ InitialLogs > ring
    <2>1. RecentLogs(InitialLogs) = Buffered
        BY <1>5 DEF RecentLogs
    <2> QED
        BY <1>2, <1>3, <1>4, <2>1
  <1>6. CASE ~(InitialLogs <= 0 \/ InitialLogs > ring)
    <2>1. InitialLogs \in 1..ring /\ RecentLogs(InitialLogs) = SubSeq(Buffered, ring - InitialLogs + 1, ring)
      <3>1. InitialLogs \in Int
          BY BoundsAre
      <3>2. InitialLogs \in 1..ring
          BY <1>1, <1>6, <3>1
      <3> QED
          BY <1>6, <3>2 DEF RecentLogs
    <2>2. PICK skip \in Nat : skip = ring - InitialLogs
        BY <1>1, <2>1
    <2>3. skip + 1 \in 1..ring /\ ring \in 1..ring /\ RecentLogs(InitialLogs) = SubSeq(Buffered, skip + 1, ring)
        BY <1>1, <2>1, <2>2
    <2>4. /\ RecentLogs(InitialLogs) \in Seq(LogEntries) /\ Len(RecentLogs(InitialLogs)) = InitialLogs
          /\ \A i \in 1..InitialLogs : RecentLogs(InitialLogs)[i] = Buffered[skip + i] /\ skip + i \in 1..ring
        BY <1>1, <1>3, <2>1, <2>2, <2>3
    <2>5. \A i \in 1..InitialLogs : (first + skip) + i = first + (skip + i)
        BY <1>2, <2>1, <2>2
    <2>6. \A i \in 1..InitialLogs : (first + skip) + i \in 1..Len(entries)
                                    /\ RecentLogs(InitialLogs)[i].id = (first + skip) + i
        BY <1>4, <2>4, <2>5
    <2>7. PICK from \in Nat : from = first + skip
        OBVIOUS
    <2> QED
        BY <2>4, <2>6, <2>7
  <1> QED
      BY <1>5, <1>6

\* A page that is not told anything yet may change what it has.
LEMMA PageSteps ==
    ASSUME PagesInv, UNCHANGED <<entries, ring, logger>>, NEW s \in Streams, NEW r \in StreamStates,
           stream' = [stream EXCEPT ![s] = r],
           stream[s].pc # "on" \/ (r.pc = "on" /\ r.from = stream[s].from /\ Got(s)' = Got(s)),
           r.pc = "on" => r.from >= Len(entries) \/ stream[s].pc = "on",
           Got(s)' \subseteq 1..Len(entries),
           \A i, j \in 1..Len(r.sent) : i # j => r.sent[i].id # r.sent[j].id,
           \A i, j \in 1..Len(r.channel) : i # j => r.channel[i].id # r.channel[j].id,
           \A i \in 1..Len(r.sent), j \in 1..Len(r.channel) : r.sent[i].id # r.channel[j].id,
           r.pc # "on" => r.channel = <<>>
    PROVE  PagesInv'
  <1>0. EntriesTyped /\ TellersDiffer /\ Owed /\ OnceEach /\ AllComes
      BY DEF PagesInv
  <1>1. /\ stream' \in [Streams -> StreamStates] /\ stream'[s] = r
        /\ \A t \in Streams : t # s => stream'[t] = stream[t] /\ Got(t)' = Got(t)
      BY <1>0, StreamSet DEF EntriesTyped
  <1>2. EntriesTyped' /\ TellersDiffer'
      BY <1>0, <1>1 DEF EntriesTyped, TellersDiffer, Telling
  <1>3. \A g \in Loggers : Telling(g)' <=> Telling(g)
      BY DEF Telling
  <1>4. Owed'
    <2> SUFFICES ASSUME NEW g \in Loggers, Telling(g), NEW t \in logger[g].due
                 PROVE  stream'[t].pc = "on" /\ logger[g].entry.id \notin Got(t)'
        BY <1>3 DEF Owed
    <2>1. t \in Streams /\ stream[t].pc = "on" /\ logger[g].entry.id \notin Got(t)
        BY <1>0 DEF Owed, EntriesTyped, LoggerStates
    <2> QED
        BY <1>1, <2>1
  <1>5. OnceEach'
    <2>1. ASSUME NEW t \in Streams, t # s
          PROVE  /\ Got(t)' \subseteq 1..Len(entries)
                 /\ \A i, j \in 1..Len(stream'[t].sent) : i # j => stream'[t].sent[i].id # stream'[t].sent[j].id
                 /\ \A i, j \in 1..Len(stream'[t].channel) : i # j => stream'[t].channel[i].id # stream'[t].channel[j].id
                 /\ \A i \in 1..Len(stream'[t].sent), j \in 1..Len(stream'[t].channel) :
                      stream'[t].sent[i].id # stream'[t].channel[j].id
                 /\ stream'[t].pc # "on" => stream'[t].channel = <<>>
      <3>1. Got(t) \subseteq 1..Len(entries) /\ Got(t)' = Got(t) /\ stream'[t] = stream[t]
          BY <1>0, <1>1, <2>1 DEF OnceEach
      <3> QED
          BY <1>0, <3>1 DEF OnceEach
    <2> QED
        BY <1>1, <2>1 DEF OnceEach
  <1>6. AllComes'
    <2> SUFFICES ASSUME NEW t \in Streams, stream'[t].pc = "on", NEW id \in stream'[t].from + 1..Len(entries),
                        id \notin Got(t)'
                 PROVE  \E h \in Loggers : Telling(h) /\ t \in logger[h].due /\ logger[h].entry.id = id
        BY <1>3 DEF AllComes
    <2>1. stream'[t].from \in Nat /\ Len(entries) \in Nat
        BY <1>0, <1>1 DEF EntriesTyped, StreamStates
    <2>2. stream[t].pc = "on" /\ stream'[t].from = stream[t].from /\ id \notin Got(t)
        BY <1>1, <2>1
    <2> QED
        BY <1>0, <2>2 DEF AllComes
  <1> QED
      BY <1>2, <1>4, <1>5, <1>6 DEF PagesInv

LEMMA GotOf ==
    ASSUME EntriesTyped, NEW s \in Streams, NEW r \in StreamStates, stream' = [stream EXCEPT ![s] = r]
    PROVE  Got(s)' = {r.sent[i].id : i \in 1..Len(r.sent)}
                       \cup {r.channel[i].id : i \in 1..Len(r.channel)} \cup r.dropped
  <1>1. stream'[s] = r
      BY StreamSet DEF EntriesTyped
  <1> QED
      BY <1>1 DEF Got

LEMMA StreamInitStep ==
    ASSUME PagesInv, NEW s \in Streams, StreamInit(s)
    PROVE  PagesInv'
  <1>0. EntriesTyped /\ stream[s].pc # "on"
      BY DEF PagesInv, StreamInit
  <1>1. PICK recent \in Seq(LogEntries) : recent = RecentLogs(InitialLogs)
      BY <1>0, RecentIs
  <1>2. PICK from \in Nat : \A i \in 1..Len(recent) : from + i \in 1..Len(entries) /\ recent[i].id = from + i
      BY <1>0, <1>1, RecentIs
  <1>3. PICK r : r = [NoStream EXCEPT !.pc = "init", !.sent = recent]
      OBVIOUS
  <1>4. r \in StreamStates /\ r.pc = "init" /\ r.sent = recent /\ r.channel = <<>> /\ r.dropped = {}
    <2>1. PICK p : p = "init"
        OBVIOUS
    <2>2. r = [NoStream EXCEPT !.pc = p, !.sent = recent] /\ p \in {"off", "init", "on"}
        BY <1>3, <2>1
    <2>3. r \in StreamStates /\ r.pc = p /\ r.sent = recent /\ r.channel = NoStream.channel /\ r.dropped = NoStream.dropped
        BY <2>2, OffTyped DEF StreamStates
    <2> QED
        BY <2>1, <2>3, OffTyped
  <1>5. stream' = [stream EXCEPT ![s] = r] /\ UNCHANGED <<entries, ring, logger>>
      BY <1>1, <1>3 DEF StreamInit
  <1>6. Got(s)' = {recent[i].id : i \in 1..Len(recent)}
    <2>1. Got(s)' = {r.sent[i].id : i \in 1..Len(r.sent)} \cup {r.channel[i].id : i \in 1..Len(r.channel)} \cup r.dropped
        BY <1>0, <1>4, <1>5, GotOf
    <2>2. 1..Len(r.channel) = {}
        BY <1>4
    <2> QED
        BY <1>4, <2>1, <2>2
  <1>7. Got(s)' \subseteq 1..Len(entries)
      BY <1>2, <1>6
  <1>8. \A i, j \in 1..Len(recent) : i # j => recent[i].id # recent[j].id
      BY <1>2
  <1>9. /\ \A i, j \in 1..Len(r.sent) : i # j => r.sent[i].id # r.sent[j].id
        /\ \A i, j \in 1..Len(r.channel) : i # j => r.channel[i].id # r.channel[j].id
        /\ \A i \in 1..Len(r.sent), j \in 1..Len(r.channel) : r.sent[i].id # r.channel[j].id
      BY <1>4, <1>8
  <1>10. r.pc # "on" /\ r.channel = <<>>
      BY <1>4
  <1> QED
      BY <1>0, <1>4, <1>5, <1>7, <1>9, <1>10, PageSteps

LEMMA StreamListenStep ==
    ASSUME PagesInv, NEW s \in Streams, StreamListen(s)
    PROVE  PagesInv'
  <1>0. EntriesTyped /\ OnceEach /\ stream[s].pc = "init" /\ stream[s] \in StreamStates /\ Len(entries) \in Nat
      BY DEF PagesInv, StreamListen, EntriesTyped
  <1> DEFINE n == Len(entries)
             old == stream[s]
  <1>1. PICK r : r = [old EXCEPT !.pc = "on", !.from = n]
      OBVIOUS
  <1>2. r \in StreamStates /\ r.pc = "on" /\ r.from = n /\ r.sent = old.sent /\ r.channel = old.channel
        /\ r.dropped = old.dropped
      BY <1>0, <1>1 DEF StreamStates
  <1>3. stream' = [stream EXCEPT ![s] = r] /\ UNCHANGED <<entries, ring, logger>>
      BY <1>0, <1>1 DEF StreamListen, EntriesTyped, StreamStates
  <1>4. Got(s)' = Got(s)
      BY <1>0, <1>2, <1>3, GotOf DEF Got
  <1>5. /\ Got(s) \subseteq 1..n
        /\ \A i, j \in 1..Len(old.sent) : i # j => old.sent[i].id # old.sent[j].id
        /\ \A i, j \in 1..Len(old.channel) : i # j => old.channel[i].id # old.channel[j].id
        /\ \A i \in 1..Len(old.sent), j \in 1..Len(old.channel) : old.sent[i].id # old.channel[j].id
      BY <1>0 DEF OnceEach
  <1>6. /\ \A i, j \in 1..Len(r.sent) : i # j => r.sent[i].id # r.sent[j].id
        /\ \A i, j \in 1..Len(r.channel) : i # j => r.channel[i].id # r.channel[j].id
        /\ \A i \in 1..Len(r.sent), j \in 1..Len(r.channel) : r.sent[i].id # r.channel[j].id
        /\ Got(s)' \subseteq 1..Len(entries)
      BY <1>2, <1>4, <1>5
  <1>7. stream[s].pc # "on" /\ r.pc = "on" /\ r.from >= Len(entries)
      BY <1>0, <1>2
  <1> QED
      BY <1>2, <1>3, <1>6, <1>7, PageSteps

LEMMA StreamSendStep ==
    ASSUME PagesInv, NEW s \in Streams, StreamSend(s)
    PROVE  PagesInv'
  <1> DEFINE old == stream[s]
             e == Head(old.channel)
  <1>0. EntriesTyped /\ OnceEach /\ old.pc = "on" /\ old \in StreamStates /\ old.channel # <<>>
      BY DEF PagesInv, StreamSend, EntriesTyped
  <1>1. PICK sent : sent = Append(old.sent, e)
      OBVIOUS
  <1>2. PICK channel : channel = Tail(old.channel)
      OBVIOUS
  <1>3. old.sent \in Seq(LogEntries) /\ old.channel \in Seq(LogEntries)
      BY <1>0 DEF StreamStates
  <1>4. PICK n \in Nat : n = Len(old.sent)
      BY <1>3
  <1>5. PICK m \in Nat : m + 1 = Len(old.channel)
    <2>1. Len(old.channel) \in Nat /\ Len(old.channel) # 0
        BY <1>0, <1>3
    <2>2. Len(old.channel) - 1 \in Nat /\ (Len(old.channel) - 1) + 1 = Len(old.channel)
        BY <2>1
    <2> QED
        BY <2>2
  <1>6. /\ sent \in Seq(LogEntries) /\ Len(sent) = n + 1 /\ sent[n + 1] = old.channel[1]
        /\ \A i \in 1..n : sent[i] = old.sent[i]
      BY <1>0, <1>1, <1>3, <1>4
  <1>7. channel \in Seq(LogEntries) /\ Len(channel) = m /\ \A i \in 1..m : channel[i] = old.channel[i + 1]
      BY <1>0, <1>2, <1>3, <1>5
  <1>8. PICK r : r = [old EXCEPT !.sent = sent, !.channel = channel]
      OBVIOUS
  <1>9. r \in StreamStates /\ r.pc = "on" /\ r.from = old.from /\ r.sent = sent /\ r.channel = channel
        /\ r.dropped = old.dropped
      BY <1>0, <1>6, <1>7, <1>8 DEF StreamStates
  <1>10. stream' = [stream EXCEPT ![s] = r] /\ UNCHANGED <<entries, ring, logger>>
      BY <1>0, <1>1, <1>2, <1>8 DEF StreamSend, EntriesTyped, StreamStates
  <1>11. Got(s)' = {sent[i].id : i \in 1..n + 1} \cup {channel[i].id : i \in 1..m} \cup old.dropped
    <2>1. Got(s)' = {r.sent[i].id : i \in 1..Len(r.sent)} \cup {r.channel[i].id : i \in 1..Len(r.channel)} \cup r.dropped
        BY <1>0, <1>9, <1>10, GotOf
    <2> QED
        BY <1>6, <1>7, <1>9, <2>1
  <1>12. Got(s) = {old.sent[i].id : i \in 1..n} \cup {old.channel[i].id : i \in 1..m + 1} \cup old.dropped
      BY <1>4, <1>5 DEF Got
  <1>13. {sent[i].id : i \in 1..n + 1} = {old.sent[i].id : i \in 1..n} \cup {old.channel[1].id}
      BY <1>6
  <1>14. {old.channel[i].id : i \in 1..m + 1} = {channel[i].id : i \in 1..m} \cup {old.channel[1].id}
    <2>1. \A i \in 1..m + 1 : i = 1 \/ (i - 1 \in 1..m /\ old.channel[i] = channel[i - 1])
        BY <1>7
    <2>2. \A i \in 1..m : i + 1 \in 1..m + 1 /\ channel[i] = old.channel[i + 1]
        BY <1>7
    <2> QED
        BY <2>1, <2>2
  <1>15. Got(s)' = Got(s)
      BY <1>11, <1>12, <1>13, <1>14
  <1>16. /\ Got(s) \subseteq 1..Len(entries)
         /\ \A i, j \in 1..n : i # j => old.sent[i].id # old.sent[j].id
         /\ \A i, j \in 1..m + 1 : i # j => old.channel[i].id # old.channel[j].id
         /\ \A i \in 1..n, j \in 1..m + 1 : old.sent[i].id # old.channel[j].id
      BY <1>0, <1>4, <1>5 DEF OnceEach
  <1>17. \A i, j \in 1..n + 1 : i # j => sent[i].id # sent[j].id
      BY <1>6, <1>16
  <1>18. ASSUME NEW i \in 1..m, NEW j \in 1..m, i # j PROVE channel[i].id # channel[j].id
    <2>1. i + 1 \in 1..m + 1 /\ j + 1 \in 1..m + 1 /\ i + 1 # j + 1
        BY <1>18
    <2>2. channel[i] = old.channel[i + 1] /\ channel[j] = old.channel[j + 1]
        BY <1>7
    <2>3. old.channel[i + 1].id # old.channel[j + 1].id
        BY <1>16, <2>1
    <2> QED
        BY <2>2, <2>3
  <1>19. ASSUME NEW i \in 1..n + 1, NEW j \in 1..m PROVE sent[i].id # channel[j].id
    <2>1. j + 1 \in 1..m + 1 /\ 1 \in 1..m + 1 /\ j + 1 # 1 /\ (i \in 1..n \/ i = n + 1)
        OBVIOUS
    <2>2. channel[j] = old.channel[j + 1]
        BY <1>7
    <2>3. CASE i \in 1..n
      <3>1. sent[i] = old.sent[i] /\ old.sent[i].id # old.channel[j + 1].id
          BY <1>6, <1>16, <2>1, <2>3
      <3> QED
          BY <2>2, <3>1
    <2>4. CASE i = n + 1
      <3>1. sent[i] = old.channel[1] /\ old.channel[1].id # old.channel[j + 1].id
          BY <1>6, <1>16, <2>1, <2>4
      <3> QED
          BY <2>2, <3>1
    <2> QED
        BY <2>1, <2>3, <2>4
  <1>20. /\ \A i, j \in 1..Len(r.sent) : i # j => r.sent[i].id # r.sent[j].id
         /\ \A i, j \in 1..Len(r.channel) : i # j => r.channel[i].id # r.channel[j].id
         /\ \A i \in 1..Len(r.sent), j \in 1..Len(r.channel) : r.sent[i].id # r.channel[j].id
      BY <1>6, <1>7, <1>9, <1>17, <1>18, <1>19
  <1>21. stream[s].pc = "on" /\ r.pc = "on" /\ r.from = stream[s].from /\ Got(s)' \subseteq 1..Len(entries)
      BY <1>0, <1>9, <1>15, <1>16
  <1> QED
      BY <1>9, <1>10, <1>15, <1>20, <1>21, PageSteps

\* Nobody logs and no page listens.
LEMMA FreshPages ==
    entries = <<>> /\ ring = 0 /\ logger = [g \in Loggers |-> Resting] /\ stream = [s \in Streams |-> NoStream]
      => PagesInv
  <1> SUFFICES ASSUME entries = <<>>, ring = 0,
                      logger = [g \in Loggers |-> Resting], stream = [s \in Streams |-> NoStream]
               PROVE  PagesInv
      OBVIOUS
  <1>1. logger \in [Loggers -> LoggerStates] /\ \A g \in Loggers : logger[g].pc = "rest"
      BY RestTyped
  <1>2. stream \in [Streams -> StreamStates]
        /\ \A s \in Streams : stream[s].pc = "off" /\ stream[s].channel = <<>> /\ stream[s].sent = <<>>
                              /\ stream[s].dropped = {}
      BY OffTyped
  <1>3. EntriesTyped
      BY <1>1, <1>2, BoundsAre DEF EntriesTyped
  <1>4. TellersDiffer /\ Owed /\ AllComes
      BY <1>1, <1>2 DEF TellersDiffer, Owed, AllComes, Telling
  <1>5. OnceEach
      BY <1>2 DEF OnceEach, Got
  <1> QED
      BY <1>3, <1>4, <1>5 DEF PagesInv

\* A goroutine that has opened the youngest generation, which is there then.
LEMMA OpenIs ==
    ASSUME EntriesTyped, FilesTyped, NEW g \in Loggers, OpenLog(g)
    PROVE  /\ logger' \in [Loggers -> LoggerStates]
           /\ logger'[g].pc = "append" /\ logger'[g].fd = gen'[0] /\ logger'[g].entry = logger[g].entry
           /\ \A h \in Loggers : h # g => logger'[h] = logger[h]
           /\ \/ gen[0] # 0 /\ UNCHANGED <<text, gen>>
              \/ /\ gen[0] = 0 /\ text' = Append(text, <<>>) /\ gen'[0] = Len(text) + 1
                 /\ \A n \in 1..Retain : gen'[n] = gen[n]
                 /\ gen' \in [0..Retain -> 0..Len(text) + 1]
  <1>1. gen \in [0..Retain -> 0..Len(text)] /\ 0 \in 0..Retain /\ Len(text) \in Nat
      BY BoundsAre DEF FilesTyped
  <1>2. \/ gen[0] # 0 /\ UNCHANGED <<text, gen>>
        \/ /\ gen[0] = 0 /\ text' = Append(text, <<>>) /\ gen'[0] = Len(text) + 1
           /\ \A n \in 1..Retain : gen'[n] = gen[n]
           /\ gen' \in [0..Retain -> 0..Len(text) + 1]
    <2>1. CASE gen[0] # 0
        BY <2>1 DEF OpenLog
    <2>2. CASE gen[0] = 0
      <3>1. text' = Append(text, <<>>) /\ gen' = [gen EXCEPT ![0] = Len(text) + 1]
          BY <2>2 DEF OpenLog
      <3>2. \A n \in 1..Retain : n \in 0..Retain /\ n # 0
          BY BoundsAre
      <3> QED
          BY <1>1, <2>2, <3>1, <3>2
    <2> QED
        BY <2>1, <2>2
  <1>3. gen'[0] \in Nat
    <2>1. CASE gen' = gen
        BY <1>1, <2>1
    <2>2. CASE gen'[0] = Len(text) + 1
        BY <1>1, <2>2
    <2> QED
        BY <1>2, <2>1, <2>2
  <1>4. PICK next : next = "append"
      OBVIOUS
  <1>5. logger' = [logger EXCEPT ![g].pc = next, ![g].fd = gen'[0]] /\ next \in LogSteps
      BY <1>4 DEF OpenLog, LogSteps
  <1>6. PICK r : r = [logger[g] EXCEPT !.pc = next, !.fd = gen'[0]]
      OBVIOUS
  <1>7. r \in LoggerStates /\ r.pc = next /\ r.fd = gen'[0] /\ r.entry = logger[g].entry
      BY <1>3, <1>5, <1>6 DEF EntriesTyped, LoggerStates
  <1>8. logger' = [logger EXCEPT ![g] = r]
      BY <1>5, <1>6 DEF EntriesTyped, LoggerStates
  <1> QED
      BY <1>2, <1>4, <1>7, <1>8, LoggerSet DEF EntriesTyped

\* A goroutine that is past its listeners.
LEMMA WriterIs ==
    ASSUME EntriesTyped, FilesTyped, NEW g \in Loggers,
           RotateIfNeeded(g) \/ OpenLog(g) \/ AppendLine(g) \/ CountBytes(g) \/ LineFails(g)
    PROVE  /\ UNCHANGED <<entries, ring, stream, lines, overlapped>> /\ logger[g].pc \in {"rotate", "open", "append", "count"}
           /\ logger' \in [Loggers -> LoggerStates]
           /\ logger'[g].pc \in {"rest", "open", "append", "count"}
           /\ logger'[g].entry = logger[g].entry \/ logger'[g] = Resting
           /\ \A h \in Loggers : h # g => logger'[h] = logger[h]
  <1>1. /\ UNCHANGED <<entries, ring, stream, lines, overlapped>>
        /\ logger[g].pc \in {"rotate", "open", "append", "count"}
      BY DEF RotateIfNeeded, OpenLog, AppendLine, CountBytes, LineFails
  <1>2. CASE RotateIfNeeded(g) \/ AppendLine(g)
    <2>1. PICK next \in {"open", "count"} : logger' = [logger EXCEPT ![g].pc = next]
        BY <1>2 DEF RotateIfNeeded, AppendLine
    <2>2. next \in LogSteps
        BY DEF LogSteps
    <2> QED
        BY <1>1, <2>1, <2>2, LoggerGoes DEF EntriesTyped
  <1>3. CASE OpenLog(g)
      BY <1>1, <1>3, OpenIs
  <1>4. CASE CountBytes(g) \/ LineFails(g)
    <2>1. logger' = [logger EXCEPT ![g] = Resting]
        BY <1>4 DEF CountBytes, LineFails
    <2> QED
        BY <1>1, <2>1, LoggerSet, RestTyped DEF EntriesTyped
  <1> QED
      BY <1>2, <1>3, <1>4

LEMMA PagesHold ==
    ASSUME PagesInv, FilesTyped, [LogNext]_logVars
    PROVE  PagesInv'
  <1>0. EntriesTyped /\ lines \in Nat
      BY DEF PagesInv, FilesTyped
  <1>1. ASSUME NEW g \in Loggers, NEW name \in LogNames, NEW kind \in {"done", "fail"}, Log(g, name, kind)
        PROVE  PagesInv'
      BY <1>0, <1>1, LogStep
  <1>2. ASSUME NEW g \in Loggers, RotateIfNeeded(g) \/ OpenLog(g) \/ AppendLine(g) \/ CountBytes(g) \/ LineFails(g)
        PROVE  PagesInv'
    <2>1. /\ UNCHANGED <<entries, ring, stream>> /\ ~Telling(g) /\ ~Telling(g)'
          /\ logger' \in [Loggers -> LoggerStates] /\ \A h \in Loggers : h # g => logger'[h] = logger[h]
        BY <1>0, <1>2, WriterIs DEF Telling
    <2> QED
        BY <2>1, PagesStay
  <1>3. ASSUME NEW g \in Loggers, NEW s \in Streams, Tell(g, s) PROVE PagesInv'
      BY <1>3, TellStep
  <1>4. ASSUME NEW s \in Streams, StreamInit(s) \/ StreamListen(s) \/ StreamSend(s) PROVE PagesInv'
      BY <1>4, StreamInitStep, StreamListenStep, StreamSendStep
  <1>5. CASE LogRestart
    <2>1. (entries = <<>> /\ ring = 0 /\ logger = [g \in Loggers |-> Resting] /\ stream = [s \in Streams |-> NoStream])'
        BY <1>5 DEF LogRestart
    <2> QED
        BY <2>1, FreshPages, PTL
  <1>6. CASE UNCHANGED logVars
    <2>1. UNCHANGED <<entries, ring, logger, stream>>
        BY <1>6 DEF logVars
    <2>2. EntriesTyped' /\ TellersDiffer'
        BY <2>1 DEF PagesInv, EntriesTyped, TellersDiffer, Telling
    <2>3. \A s \in Streams : Got(s)' = Got(s)
        BY <2>1 DEF Got
    <2>4. \A h \in Loggers : Telling(h)' <=> Telling(h)
        BY <2>1 DEF Telling
    <2>5. Owed'
        BY <1>0, <2>1, <2>3, <2>4 DEF PagesInv, Owed, EntriesTyped, LoggerStates
    <2>6. OnceEach'
        BY <2>1, <2>3 DEF PagesInv, OnceEach
    <2>7. AllComes'
        BY <2>1, <2>3, <2>4 DEF PagesInv, AllComes
    <2> QED
        BY <2>2, <2>5, <2>6, <2>7 DEF PagesInv
  <1> QED
      BY <1>1, <1>2, <1>3, <1>4, <1>5, <1>6 DEF LogNext

-----------------------------------------------------------------------------
(* Files.                                                                   *)

LEMMA RoomIs ==
    ASSUME FilesTyped
    PROVE  /\ Room \in Nat /\ (failedRotations = 0 => Room = 0)
           /\ MaxBytes * (1 + failedRotations) = MaxBytes + Room
           /\ failedRotations' = failedRotations + 1 => Room' = Room + MaxBytes
           /\ failedRotations' = failedRotations => Room' = Room
  <1>1. MaxBytes \in Nat /\ failedRotations \in Nat
      BY BoundsAre DEF FilesTyped
  <1>2. MaxBytes * (1 + failedRotations) = MaxBytes + MaxBytes * failedRotations
        /\ MaxBytes * (failedRotations + 1) = MaxBytes + MaxBytes * failedRotations
      BY <1>1
  <1> QED
      BY <1>1, <1>2 DEF Room

LEMMA SizeIs ==
    ASSUME FilesTyped
    PROVE  /\ Size \in Nat /\ gen[0] \in 0..Len(text) /\ Len(text) \in Nat
           /\ gen[0] # 0 => gen[0] \in 1..Len(text) /\ Size = Len(text[gen[0]])
           /\ gen[0] = 0 => Size = 0
  <1>1. gen[0] \in 0..Len(text) /\ Len(text) \in Nat
      BY BoundsAre DEF FilesTyped
  <1>2. \A f \in 1..Len(text) : text[f] \in Seq(Nat)
      BY DEF FilesTyped
  <1> QED
      BY <1>1, <1>2 DEF Size

\* A step that tells or is none of the loggers'.
LEMMA FilesStay ==
    ASSUME FilesInv, UNCHANGED <<gen, text, bytes, lines, failedRotations, logFaults, overlapped>>,
           \A h \in Loggers :
             /\ logger'[h].entry = logger[h].entry
             /\ \/ logger'[h].pc = logger[h].pc /\ logger'[h].fd = logger[h].fd
                \/ logger[h].pc = "tell" /\ logger'[h].pc = "rotate"
    PROVE  FilesInv'
  <1>1. FilesTyped'
      BY DEF FilesInv, FilesTyped
  <1>2. Logging' = Logging
      BY DEF Logging
  <1>3. \A h \in Loggers : (Writing(h)' <=> Writing(h)) /\ (CountsLine(h)' <=> CountsLine(h))
      BY DEF Writing, CountsLine
  <1>4. Size' = Size /\ Room' = Room /\ Base' = Base
      BY DEF Size, Room, Base
  <1>5. ~overlapped => OneAtATime' /\ SizeKnown'
      BY <1>2, <1>3, <1>4 DEF FilesInv, OneAtATime, SizeKnown
  <1>6. ASSUME ~overlapped, failedRotations = 0 PROVE Generations' /\ Sorted'
    <2>1. Generations'
        BY <1>3, <1>4, <1>6 DEF FilesInv, Generations
    <2>2. \A h \in Loggers : logger'[h].pc \in {"tell", "rotate", "open", "append"} =>
                               logger[h].pc \in {"tell", "rotate", "open", "append"}
        OBVIOUS
    <2>3. Sorted'
        BY <1>6, <2>2 DEF FilesInv, Sorted
    <2> QED
        BY <2>1, <2>3
  <1> QED
      BY <1>1, <1>5, <1>6 DEF FilesInv

LEMMA LogFiles ==
    ASSUME EntriesTyped, FilesInv, NEW g \in Loggers, NEW name \in LogNames, NEW kind \in {"done", "fail"},
           Log(g, name, kind)
    PROVE  FilesInv'
  <1>1. FilesTyped /\ lines \in Nat
      BY DEF FilesInv, FilesTyped
  <1>2. /\ UNCHANGED <<gen, text, bytes, failedRotations, logFaults>> /\ lines' = lines + 1
        /\ overlapped' = (overlapped \/ Logging # {})
      BY DEF Log
  <1>3. PICK e \in LogEntries :
             /\ e.id = Len(entries) + 1 /\ e.line = lines + 1 /\ entries' = Append(entries, e)
             /\ logger' \in [Loggers -> LoggerStates] /\ logger'[g].entry = e
             /\ logger'[g].pc \in {"tell", "rotate"} /\ (logger'[g].pc = "rotate" => Listening = {})
             /\ logger'[g].due = Listening
             /\ \A h \in Loggers : h # g => logger'[h] = logger[h]
      BY <1>1, LogIs
  <1>4. FilesTyped'
      BY <1>1, <1>2, <1>3 DEF FilesTyped
  <1>5. ~overlapped' => ~overlapped /\ \A h \in Loggers : logger[h].pc = "rest"
      BY <1>2 DEF Logging
  <1>6. Size' = Size /\ Room' = Room /\ Base' = Base
      BY <1>2 DEF Size, Room, Base
  <1>7. ASSUME ~overlapped' PROVE OneAtATime' /\ SizeKnown'
    <2>1. ~overlapped /\ \A h \in Loggers : logger[h].pc = "rest"
        BY <1>5, <1>7
    <2>2. \A h \in Loggers : logger'[h].pc \in {"rest", "tell", "rotate"} /\ (h # g => logger'[h].pc = "rest")
        BY <1>3, <2>1
    <2>3. OneAtATime'
        BY <2>2 DEF OneAtATime, Logging
    <2>4. \A h \in Loggers : ~Writing(h)' /\ ~CountsLine(h)' /\ ~Writing(h) /\ ~CountsLine(h)
        BY <2>1, <2>2 DEF Writing, CountsLine
    <2>5. SizeKnown
        BY <2>1 DEF FilesInv
    <2>6. SizeKnown'
        BY <1>2, <1>6, <2>2, <2>4, <2>5 DEF SizeKnown
    <2> QED
        BY <2>3, <2>6
  <1>8. ASSUME ~overlapped', failedRotations' = 0 PROVE Generations' /\ Sorted'
    <2>1. Generations /\ Sorted /\ \A h \in Loggers : logger[h].pc = "rest"
        BY <1>2, <1>5, <1>8 DEF FilesInv
    <2>2. \A h \in Loggers : ~CountsLine(h)' /\ (h # g => logger'[h].pc = "rest" /\ logger'[h].entry = logger[h].entry)
        BY <1>3, <2>1 DEF CountsLine
    <2>3. Generations'
        BY <1>2, <1>6, <2>1, <2>2 DEF Generations
    <2>4. \A f \in 1..Len(text) : text[f] \in Seq(Nat)
        BY <1>1 DEF FilesTyped
    <2>5. \A f \in 1..Len(text) : \A i \in 1..Len(text[f]) : text[f][i] \in Nat /\ text[f][i] <= lines
        BY <2>1, <2>4 DEF Sorted
    <2>6. \A h \in Loggers : logger[h].entry.line \in Nat /\ logger[h].entry.line <= lines
        BY <2>1 DEF Sorted, EntriesTyped, LoggerStates, LogEntries
    <2>7. \A h \in Loggers : logger'[h].entry.line <= lines + 1
        BY <1>1, <1>3, <2>6
    <2>8. Sorted'
      <3>1. \A e2, f \in 1..Len(text) : \A i \in 1..Len(text[e2]), j \in 1..Len(text[f]) :
              e2 < f \/ (e2 = f /\ i < j) => text[e2][i] < text[f][j]
          BY <2>1 DEF Sorted
      <3>2. ASSUME NEW f \in 1..Len(text), NEW i \in 1..Len(text[f])
            PROVE  /\ text[f][i] <= lines + 1
                   /\ \A h \in Loggers : logger'[h].pc \in {"tell", "rotate", "open", "append"} =>
                        text[f][i] < logger'[h].entry.line
        <4>1. text[f][i] \in Nat /\ text[f][i] <= lines
            BY <2>5
        <4>2. text[f][i] < lines + 1
            BY <1>1, <4>1
        <4>3. ASSUME NEW h \in Loggers, logger'[h].pc \in {"tell", "rotate", "open", "append"}
              PROVE  logger'[h].entry.line = lines + 1
            BY <1>3, <2>2, <4>3
        <4> QED
            BY <1>1, <4>1, <4>2, <4>3
      <3> QED
          BY <1>2, <2>7, <3>1, <3>2 DEF Sorted
    <2> QED
        BY <2>3, <2>8
  <1> QED
      BY <1>4, <1>7, <1>8 DEF FilesInv

\* A goroutine that has counted its line, or failed, rests.
LEMMA RestFiles ==
    ASSUME EntriesTyped, FilesInv, NEW g \in Loggers, LineFails(g) \/ CountBytes(g)
    PROVE  FilesInv'
  <1>1. FilesTyped
      BY DEF FilesInv
  <1>2. /\ UNCHANGED <<gen, text, failedRotations, lines, overlapped>>
        /\ logger' = [logger EXCEPT ![g] = Resting] /\ logFaults' \in Nat
        /\ \/ bytes' = bytes /\ ~CountsLine(g)
           \/ bytes' = bytes + 1 /\ CountsLine(g)
      BY <1>1 DEF LineFails, CountBytes, FilesTyped, CountsLine
  <1>3. logger'[g] = Resting /\ logger'[g].pc = "rest" /\ \A h \in Loggers : h # g => logger'[h] = logger[h]
      BY <1>2, RestTyped, LoggerSet DEF EntriesTyped
  <1>4. ~overlapped /\ CountsLine(g) => bytes # -1
      BY DEF FilesInv, SizeKnown, Writing, CountsLine
  <1>6. Size' = Size /\ Room' = Room /\ Base' = Base
      BY <1>2 DEF Size, Room, Base
  <1>7. FilesTyped'
    <2>1. bytes' \in Nat \cup {-1}
        BY <1>1, <1>2 DEF FilesTyped
    <2> QED
        BY <1>1, <1>2, <1>3, <2>1 DEF FilesTyped
  <1>8. \A h \in Loggers : (Writing(h)' => Writing(h) /\ h # g) /\ (CountsLine(h)' <=> CountsLine(h) /\ h # g)
      BY <1>3 DEF Writing, CountsLine
  <1>9. ASSUME ~overlapped PROVE OneAtATime' /\ SizeKnown'
    <2>1. OneAtATime /\ SizeKnown
        BY <1>9 DEF FilesInv
    <2>2. OneAtATime'
        BY <1>3, <2>1 DEF OneAtATime, Logging
    <2>3. \A h \in Loggers : h # g => logger[h].pc = "rest"
      <3>1. g \in Logging
          BY DEF LineFails, CountBytes, Logging
      <3> QED
          BY <2>1, <3>1 DEF OneAtATime, Logging
    <2>4. \A h \in Loggers : ~Writing(h)' /\ ~CountsLine(h)' /\ logger'[h].pc = "rest"
        BY <1>3, <2>3 DEF Writing, CountsLine
    <2>5. Size \in Nat /\ Room \in Nat /\ MaxBytes \in Nat /\ bytes \in Nat \cup {-1}
        BY <1>1, SizeIs, RoomIs, BoundsAre DEF FilesTyped
    <2>6. CASE bytes' = bytes /\ ~CountsLine(g)
      <3>1. \A h \in Loggers : ~CountsLine(h)
          BY <2>3, <2>6 DEF CountsLine
      <3> QED
          BY <1>2, <1>6, <2>1, <2>2, <2>4, <2>6, <3>1 DEF SizeKnown
    <2>7. CASE bytes' = bytes + 1 /\ CountsLine(g)
      <3>1. bytes # -1 /\ bytes \in Nat /\ bytes + 1 <= MaxBytes /\ Size <= bytes + 1 + Room
          BY <2>1, <2>5, <2>7 DEF SizeKnown, Writing, CountsLine
      <3> QED
          BY <1>2, <1>6, <2>1, <2>2, <2>4, <2>5, <2>7, <3>1 DEF SizeKnown
    <2> QED
        BY <1>2, <2>6, <2>7
  <1>10. ASSUME ~overlapped, failedRotations = 0 PROVE Generations' /\ Sorted'
    <2>1. Generations /\ Sorted /\ OneAtATime
        BY <1>10 DEF FilesInv
    <2>2. Generations'
      <3>1. bytes' # -1 => bytes' <= Size
          BY <1>1, <1>2, <1>4, <1>10, <2>1 DEF Generations
      <3>2. \A h \in Loggers : ~CountsLine(h)'
        <4>1. g \in Logging
            BY DEF LineFails, CountBytes, Logging
        <4> QED
            BY <1>8, <2>1, <4>1 DEF OneAtATime, Logging, CountsLine
      <3> QED
          BY <1>2, <1>6, <2>1, <3>1, <3>2 DEF Generations
    <2>3. \A h \in Loggers : logger'[h].pc # "rest" => h # g /\ logger'[h] = logger[h]
        BY <1>3
    <2>4. \A h \in Loggers : logger'[h].entry.line <= lines
      <3>1. Resting.entry.line = 0 /\ lines \in Nat
          BY <1>1 DEF Resting, NoEntry, FilesTyped
      <3> QED
          BY <1>3, <2>1, <3>1 DEF Sorted
    <2>5. Sorted'
        BY <1>2, <2>1, <2>3, <2>4 DEF Sorted
    <2> QED
        BY <2>2, <2>5
  <1> QED
      BY <1>2, <1>7, <1>9, <1>10 DEF FilesInv

LEMMA AppendFiles ==
    ASSUME EntriesTyped, FilesInv, NEW g \in Loggers, AppendLine(g)
    PROVE  FilesInv'
  <1> DEFINE f == logger[g].fd
             line == logger[g].entry.line
  <1>1. FilesTyped /\ f \in 1..Len(text) /\ text \in Seq(Seq(Nat)) /\ text[f] \in Seq(Nat) /\ line \in Nat
    <2>1. FilesTyped /\ f \in 1..Len(text) /\ text \in Seq(Seq(Nat))
        BY DEF FilesInv, FilesTyped, AppendLine
    <2>2. line \in Nat
        BY DEF EntriesTyped, LoggerStates, LogEntries
    <2> HIDE DEF f
    <2> QED
        BY <2>1, <2>2
  <1>2. /\ UNCHANGED <<gen, bytes, lines, failedRotations, logFaults, overlapped>>
        /\ text' = [text EXCEPT ![f] = Append(text[f], line)]
        /\ logger[g].pc = "append" /\ logger' = [logger EXCEPT ![g].pc = "count"]
      BY DEF AppendLine
  <1>3. /\ logger'[g].pc = "count" /\ logger'[g].entry = logger[g].entry
        /\ \A h \in Loggers : h # g => logger'[h] = logger[h]
    <2>1. "count" \in LogSteps
        BY DEF LogSteps
    <2> QED
        BY <1>2, <2>1, LoggerGoes DEF EntriesTyped
  <1>4. PICK n \in Nat : n = Len(text[f])
      BY <1>1
  <1>5. /\ text' \in Seq(Seq(Nat)) /\ Len(text') = Len(text)
        /\ \A e \in 1..Len(text) : e # f => text'[e] = text[e]
        /\ text'[f] \in Seq(Nat) /\ Len(text'[f]) = n + 1 /\ text'[f][n + 1] = line
        /\ \A i \in 1..n : text'[f][i] = text[f][i]
    <2>0. Append(text[f], line) \in Seq(Nat)
        BY <1>1
    <2>1. PICK t \in Seq(Nat) : t = Append(text[f], line)
        BY <2>0
    <2>2. Len(t) = n + 1 /\ t[n + 1] = line /\ \A i \in 1..n : t[i] = text[f][i]
        BY <1>1, <1>4, <2>1
    <2>3. text' = [text EXCEPT ![f] = t]
        BY <1>2, <2>1
    <2>4. text' \in Seq(Seq(Nat)) /\ Len(text') = Len(text) /\ text'[f] = t
          /\ \A e \in 1..Len(text) : e # f => text'[e] = text[e]
        BY <1>1, <2>3
    <2> QED
        BY <2>2, <2>4
  <1>6. FilesTyped'
      BY <1>1, <1>2, <1>3, <1>5 DEF FilesTyped
  <1>7. ASSUME ~overlapped PROVE OneAtATime' /\ SizeKnown'
    <2>1. OneAtATime /\ SizeKnown
        BY <1>7 DEF FilesInv
    <2>2. \A h \in Loggers : h # g => logger[h].pc = "rest" /\ logger'[h].pc = "rest"
      <3>1. g \in Logging
          BY <1>2 DEF Logging
      <3> QED
          BY <1>3, <2>1, <3>1 DEF OneAtATime, Logging
    <2>3. OneAtATime'
        BY <2>2 DEF OneAtATime, Logging
    <2>4. Size \in Nat /\ Room \in Nat /\ Room' = Room /\ MaxBytes \in Nat /\ bytes \in Nat \cup {-1}
        BY <1>1, <1>2, SizeIs, RoomIs, BoundsAre DEF FilesTyped
    <2>5. gen[0] = f /\ gen[0] # 0 /\ Size = n /\ Size' = n + 1
        BY <1>1, <1>2, <1>4, <1>5, <2>1 DEF SizeKnown, Size
    <2>6. bytes \in Nat /\ bytes + 1 <= MaxBytes
        BY <1>2, <2>1, <2>4 DEF SizeKnown, Writing
    <2>7. ~\E h \in Loggers : CountsLine(h)
        BY <1>2, <2>2 DEF CountsLine
    <2>8. Size <= bytes + Room
        BY <2>1, <2>6, <2>7 DEF SizeKnown
    <2>9. Size' <= bytes + 1 + Room /\ CountsLine(g)'
        BY <1>3, <1>4, <2>4, <2>5, <2>6, <2>8 DEF CountsLine
    <2>10. \A h \in Loggers : logger'[h].pc # "append"
        BY <1>3, <2>2
    <2> QED
        BY <1>2, <2>3, <2>4, <2>5, <2>6, <2>9, <2>10 DEF SizeKnown
  <1>8. ASSUME ~overlapped, failedRotations = 0 PROVE Generations' /\ Sorted'
    <2>1. Generations /\ Sorted /\ OneAtATime /\ SizeKnown
        BY <1>8 DEF FilesInv
    <2>2. \A h \in Loggers : h # g => logger[h].pc = "rest" /\ logger'[h].pc = "rest"
      <3>1. g \in Logging
          BY <1>2 DEF Logging
      <3> QED
          BY <1>3, <2>1, <3>1 DEF OneAtATime, Logging
    <2>3. gen[0] = f /\ f = Len(text) /\ Size = n /\ Size' = n + 1 /\ Base' = Base
        BY <1>1, <1>2, <1>4, <1>5, <2>1 DEF SizeKnown, Size, Generations, Base
    <2>4. bytes \in Nat /\ bytes <= n
      <3>1. bytes # -1
          BY <1>2, <2>1 DEF SizeKnown, Writing
      <3> QED
          BY <1>1, <2>1, <2>3, <3>1 DEF FilesTyped, Generations
    <2>5. Generations'
      <3>1. \A e \in 1..Len(text) : e # f => Len(text'[e]) >= MaxBytes
          BY <1>5, <2>1, <2>3 DEF Generations
      <3>2. bytes <= n + 1 /\ bytes + 1 <= n + 1
          BY <1>4, <2>4
      <3> QED
          BY <1>2, <1>5, <2>1, <2>3, <3>1, <3>2 DEF Generations
    <2>6. /\ \A e \in 1..Len(text) : \A i \in 1..Len(text'[e]) :
               \/ i \in 1..Len(text[e]) /\ text'[e][i] = text[e][i]
               \/ e = f /\ i = n + 1 /\ text'[e][i] = line
          /\ \A e \in 1..Len(text) : \A i \in 1..Len(text[e]) : text[e][i] \in Nat /\ text[e][i] < line
      <3>1. \A e \in 1..Len(text) : text[e] \in Seq(Nat)
          BY <1>1
      <3>2. \A e \in 1..Len(text) : \A i \in 1..Len(text[e]) : text[e][i] \in Nat /\ text[e][i] < line
          BY <1>2, <2>1, <3>1 DEF Sorted
      <3>3. ASSUME NEW e \in 1..Len(text), NEW i \in 1..Len(text'[e])
            PROVE  \/ i \in 1..Len(text[e]) /\ text'[e][i] = text[e][i]
                   \/ e = f /\ i = n + 1 /\ text'[e][i] = line
        <4>1. CASE e # f
            BY <1>5, <4>1
        <4>2. CASE e = f
          <5>1. i \in 1..n + 1
              BY <1>5, <4>2
          <5>2. i \in 1..n \/ i = n + 1
              BY <1>4, <5>1
          <5> QED
              BY <1>4, <1>5, <4>2, <5>2
        <4> QED
            BY <4>1, <4>2
      <3> QED
          BY <3>2, <3>3
    <2>7. Sorted'
      <3>1. ASSUME NEW d \in 1..Len(text), NEW e \in 1..Len(text),
                   NEW i \in 1..Len(text'[d]), NEW j \in 1..Len(text'[e]), d < e \/ (d = e /\ i < j)
            PROVE  text'[d][i] < text'[e][j]
        <4>1. CASE i \in 1..Len(text[d]) /\ text'[d][i] = text[d][i]
          <5>1. CASE j \in 1..Len(text[e]) /\ text'[e][j] = text[e][j]
              BY <2>1, <3>1, <4>1, <5>1 DEF Sorted
          <5>2. CASE e = f /\ j = n + 1 /\ text'[e][j] = line
              BY <2>6, <4>1, <5>2
          <5> QED
              BY <2>6, <5>1, <5>2
        <4>2. CASE d = f /\ i = n + 1 /\ text'[d][i] = line
          <5>1. d = Len(text) /\ e <= Len(text) /\ Len(text) \in Nat /\ e \in Nat
              BY <1>1, <2>3, <4>2
          <5>2. d = e /\ i < j
              BY <3>1, <5>1
          <5>3. j \in 1..n + 1
              BY <1>5, <4>2, <5>2
          <5> QED
              BY <1>4, <4>2, <5>2, <5>3
        <4> QED
            BY <2>6, <4>1, <4>2
      <3>2. line <= lines
          BY <2>1 DEF Sorted
      <3>3. ASSUME NEW e \in 1..Len(text), NEW i \in 1..Len(text'[e])
            PROVE  text'[e][i] <= lines
          BY <2>1, <2>6, <3>2 DEF Sorted
      <3>4. \A h \in Loggers : logger'[h].pc \notin {"tell", "rotate", "open", "append"}
                               /\ logger'[h].entry.line <= lines
          BY <1>3, <2>1, <2>2 DEF Sorted
      <3>5. Len(text') = Len(text) /\ UNCHANGED lines
          BY <1>2, <1>5
      <3> HIDE DEF f, line
      <3> QED
          BY <3>1, <3>3, <3>4, <3>5 DEF Sorted
    <2> QED
        BY <2>5, <2>7
  <1> QED
      BY <1>2, <1>6, <1>7, <1>8 DEF FilesInv

LEMMA OpenFiles ==
    ASSUME EntriesTyped, FilesInv, NEW g \in Loggers, OpenLog(g)
    PROVE  FilesInv'
  <1>1. FilesTyped /\ text \in Seq(Seq(Nat)) /\ Len(text) \in Nat
      BY DEF FilesInv, FilesTyped
  <1>2. UNCHANGED <<bytes, lines, failedRotations, logFaults, overlapped>> /\ logger[g].pc = "open"
      BY DEF OpenLog
  <1>3. /\ logger'[g].pc = "append" /\ logger'[g].fd = gen'[0] /\ logger'[g].entry = logger[g].entry
        /\ \A h \in Loggers : h # g => logger'[h] = logger[h]
        /\ \/ gen[0] # 0 /\ UNCHANGED <<text, gen>>
           \/ /\ gen[0] = 0 /\ text' = Append(text, <<>>) /\ gen'[0] = Len(text) + 1
              /\ \A n \in 1..Retain : gen'[n] = gen[n]
              /\ gen' \in [0..Retain -> 0..Len(text) + 1]
      BY <1>1, OpenIs
  <1>4. PICK n \in Nat : n = Len(text)
      BY <1>1
  <1>5. gen[0] = 0 =>
          /\ text' \in Seq(Seq(Nat)) /\ Len(text') = n + 1 /\ text'[n + 1] = <<>>
          /\ \A f \in 1..n : text'[f] = text[f]
    <2>1. PICK none : none = <<>>
        OBVIOUS
    <2>2. none \in Seq(Nat) /\ (gen[0] = 0 => text' = Append(text, none))
        BY <1>3, <2>1
    <2>3. ASSUME NEW file \in Seq(Nat), text' = Append(text, file)
          PROVE  /\ text' \in Seq(Seq(Nat)) /\ Len(text') = n + 1 /\ text'[n + 1] = file
                 /\ \A f \in 1..n : text'[f] = text[f]
        BY <1>1, <1>4, <2>3
    <2> QED
        BY <2>1, <2>2, <2>3
  <1>6. gen'[0] \in 1..Len(text') /\ gen'[0] # 0 /\ n <= Len(text')
      BY <1>1, <1>3, <1>4, <1>5, SizeIs
  <1>7. FilesTyped'
    <2>1. \A h \in Loggers : logger'[h].pc = "append" => logger'[h].fd \in 1..Len(text')
        BY <1>1, <1>3, <1>4, <1>6 DEF FilesTyped
    <2>2. text' \in Seq(Seq(Nat)) /\ gen' \in [0..Retain -> 0..Len(text')]
        BY <1>1, <1>3, <1>4, <1>5 DEF FilesTyped
    <2> QED
        BY <1>1, <1>2, <2>1, <2>2 DEF FilesTyped
  <1>8. Size' = Size /\ Room' = Room
      BY <1>1, <1>2, <1>3, <1>4, <1>5, <1>6, SizeIs DEF Size, Room
  <1>9. ~overlapped =>
          /\ OneAtATime /\ SizeKnown
          /\ \A h \in Loggers : h # g => logger[h].pc = "rest" /\ logger'[h].pc = "rest"
    <2>1. g \in Logging
        BY <1>2 DEF Logging
    <2> QED
        BY <1>3, <2>1 DEF FilesInv, OneAtATime, Logging
  <1>10. ASSUME ~overlapped PROVE OneAtATime' /\ SizeKnown'
    <2>1. OneAtATime'
        BY <1>9, <1>10 DEF OneAtATime, Logging
    <2>2. \A h \in Loggers : ~CountsLine(h) /\ ~CountsLine(h)'
        BY <1>2, <1>3, <1>9, <1>10 DEF CountsLine
    <2>3. bytes # -1 /\ bytes + 1 <= MaxBytes /\ bytes <= MaxBytes /\ Size <= bytes + Room
        BY <1>2, <1>9, <1>10, <2>2 DEF SizeKnown, Writing
    <2>4. \A h \in Loggers : logger'[h].pc \in {"append", "count"} => h = g
        BY <1>9, <1>10
    <2> QED
        BY <1>2, <1>3, <1>6, <1>8, <2>1, <2>2, <2>3, <2>4 DEF SizeKnown
  <1>11. ASSUME ~overlapped, failedRotations = 0 PROVE Generations' /\ Sorted'
    <2>1. Generations /\ Sorted
        BY <1>11 DEF FilesInv
    <2>2. \A h \in Loggers : ~CountsLine(h)'
        BY <1>2, <1>3, <1>9, <1>11 DEF CountsLine
    <2>3. Base' = Base
        BY <1>3, <1>4, <1>5, <1>6 DEF Base
    <2>4. gen'[0] = Len(text') /\ \A k \in 1..Retain : gen'[k] = gen[k]
        BY <1>3, <1>4, <1>5, <2>1 DEF Generations
    <2>5. \A f \in 1..Len(text') : f # gen'[0] => Len(text'[f]) >= MaxBytes
      <3>1. CASE gen[0] # 0
          BY <1>3, <2>1, <3>1 DEF Generations
      <3>2. CASE gen[0] = 0
        <4>1. \A f \in 1..Len(text') : f # gen'[0] => f \in 1..n /\ f # gen[0]
            BY <1>3, <1>4, <1>5, <3>2
        <4> QED
            BY <1>4, <1>5, <2>1, <3>2, <4>1 DEF Generations
      <3> QED
          BY <3>1, <3>2
    <2>6. Generations'
        BY <1>2, <1>8, <2>1, <2>2, <2>3, <2>4, <2>5 DEF Generations
    <2>7. \A f \in 1..Len(text') : \A i \in 1..Len(text'[f]) :
            f \in 1..n /\ i \in 1..Len(text[f]) /\ text'[f][i] = text[f][i]
      <3>1. CASE gen[0] # 0
          BY <1>3, <1>4, <3>1
      <3>2. CASE gen[0] = 0
        <4> SUFFICES ASSUME NEW f \in 1..Len(text'), NEW i \in 1..Len(text'[f])
                     PROVE  f \in 1..n /\ i \in 1..Len(text[f]) /\ text'[f][i] = text[f][i]
            OBVIOUS
        <4>1. f \in 1..n \/ f = n + 1
            BY <1>4, <1>5, <3>2
        <4>2. f # n + 1
            BY <1>5, <3>2
        <4> QED
            BY <1>5, <3>2, <4>1, <4>2
      <3> QED
          BY <3>1, <3>2
    <2>8. \A h \in Loggers : logger'[h].entry = logger[h].entry
                             /\ (logger'[h].pc \in {"tell", "rotate", "open", "append"} =>
                                   logger[h].pc \in {"tell", "rotate", "open", "append"})
        BY <1>2, <1>3
    <2>9. Sorted'
      <3>1. ASSUME NEW d \in 1..Len(text'), NEW f \in 1..Len(text'),
                   NEW i \in 1..Len(text'[d]), NEW j \in 1..Len(text'[f]), d < f \/ (d = f /\ i < j)
            PROVE  text'[d][i] < text'[f][j]
          BY <1>4, <2>1, <2>7, <3>1 DEF Sorted
      <3>2. ASSUME NEW f \in 1..Len(text'), NEW i \in 1..Len(text'[f])
            PROVE  /\ text'[f][i] <= lines
                   /\ \A h \in Loggers : logger'[h].pc \in {"tell", "rotate", "open", "append"} =>
                        text'[f][i] < logger'[h].entry.line
          BY <1>4, <2>1, <2>7, <2>8 DEF Sorted
      <3>3. \A h \in Loggers : logger'[h].entry.line <= lines
          BY <2>1, <2>8 DEF Sorted
      <3> QED
          BY <1>2, <3>1, <3>2, <3>3 DEF Sorted
    <2> QED
        BY <2>6, <2>9
  <1> QED
      BY <1>2, <1>7, <1>10, <1>11 DEF FilesInv

\* What is left of the generations when a rotation stops.
LEMMA ShiftIs ==
    ASSUME FilesTyped, NEW stop \in {-1} \cup (0..Retain - 1)
    PROVE  /\ Shifted(stop) \in [0..Retain -> 0..Len(text)]
           /\ stop # -1 => Shifted(stop)[0] = gen[0]
           /\ stop = -1 => Shifted(stop)[0] = 0 /\ \A n \in 1..Retain : Shifted(stop)[n] = gen[n - 1]
  <1>1. gen \in [0..Retain -> 0..Len(text)] /\ Len(text) \in Nat /\ Retain \in Nat /\ 0 \in 0..Retain
      BY BoundsAre DEF FilesTyped
  <1>2. \A n \in 0..Retain : n # 0 => n - 1 \in 0..Retain
      BY <1>1
  <1>3. \A n \in 0..Retain : ~(n <= stop) /\ n # stop + 1 => n # 0
      BY <1>1
  <1>4. \A n \in 0..Retain : (IF n <= stop THEN gen[n] ELSE IF n = stop + 1 THEN 0 ELSE gen[n - 1]) \in 0..Len(text)
      BY <1>1, <1>2, <1>3
  <1>5. Shifted(stop) \in [0..Retain -> 0..Len(text)]
      BY <1>4 DEF Shifted
  <1>6. stop # -1 => 0 <= stop
      BY <1>1
  <1>7. \A n \in 1..Retain : n \in 0..Retain /\ ~(n <= -1) /\ n # -1 + 1
      BY <1>1
  <1> QED
      BY <1>1, <1>5, <1>6, <1>7 DEF Shifted

LEMMA RotateFiles ==
    ASSUME EntriesTyped, FilesInv, NEW g \in Loggers, RotateIfNeeded(g)
    PROVE  FilesInv'
  <1>1. FilesTyped /\ Len(text) \in Nat /\ bytes \in Nat \cup {-1} /\ MaxBytes \in Nat /\ MaxBytes > 0
        /\ Size \in Nat /\ Room \in Nat
      BY SizeIs, RoomIs, BoundsAre DEF FilesInv, FilesTyped
  <1>2. UNCHANGED <<text, lines, overlapped>> /\ logger[g].pc = "rotate" /\ logger' = [logger EXCEPT ![g].pc = "open"]
      BY DEF RotateIfNeeded
  <1>3. /\ logger'[g].pc = "open" /\ logger'[g].entry = logger[g].entry
        /\ \A h \in Loggers : h # g => logger'[h] = logger[h]
    <2>1. "open" \in LogSteps
        BY DEF LogSteps
    <2> QED
        BY <1>2, <2>1, LoggerGoes DEF EntriesTyped
  <1>4. KnownBytes = (IF bytes # -1 THEN bytes ELSE Size) /\ KnownBytes \in Nat
      BY <1>1 DEF KnownBytes, Size
  <1>5. \/ /\ KnownBytes + 1 <= MaxBytes /\ bytes' = KnownBytes /\ UNCHANGED <<gen, failedRotations, logFaults>>
        \/ /\ ~(KnownBytes + 1 <= MaxBytes) /\ bytes' = 0 /\ UNCHANGED <<failedRotations, logFaults>>
           /\ gen' = Shifted(-1)
        \/ /\ ~(KnownBytes + 1 <= MaxBytes) /\ bytes' = 0
           /\ logFaults' = logFaults + 1 /\ failedRotations' = failedRotations + 1
           /\ \E stop \in 0..Retain - 1 : gen' = Shifted(stop)
      BY DEF RotateIfNeeded
  <1>6. gen' \in [0..Retain -> 0..Len(text)] /\ (failedRotations' = failedRotations + 1 => gen'[0] = gen[0])
    <2>1. CASE UNCHANGED gen /\ UNCHANGED failedRotations
        BY <1>1, <2>1 DEF FilesTyped
    <2>2. CASE gen' = Shifted(-1) /\ UNCHANGED failedRotations
        BY <1>1, <2>2, ShiftIs DEF FilesTyped
    <2>3. CASE \E stop \in 0..Retain - 1 : gen' = Shifted(stop)
      <3>1. PICK stop \in 0..Retain - 1 : gen' = Shifted(stop)
          BY <2>3
      <3>2. stop # -1 /\ stop \in {-1} \cup (0..Retain - 1)
          BY BoundsAre
      <3> QED
          BY <1>1, <3>1, <3>2, ShiftIs
    <2> QED
        BY <1>5, <2>1, <2>2, <2>3
  <1>7. FilesTyped'
    <2>1. bytes' \in Nat /\ failedRotations' \in Nat /\ logFaults' \in Nat
        BY <1>1, <1>4, <1>5 DEF FilesTyped
    <2> QED
        BY <1>1, <1>2, <1>3, <1>6, <2>1 DEF FilesTyped
  <1>8. ~overlapped =>
          /\ OneAtATime /\ SizeKnown
          /\ \A h \in Loggers : h # g => logger[h].pc = "rest" /\ logger'[h].pc = "rest"
    <2>1. g \in Logging
        BY <1>2 DEF Logging
    <2> QED
        BY <1>3, <2>1 DEF FilesInv, OneAtATime, Logging
  <1>9. ASSUME ~overlapped PROVE OneAtATime' /\ SizeKnown'
    <2>1. OneAtATime'
        BY <1>8, <1>9 DEF OneAtATime, Logging
    <2>2. \A h \in Loggers : ~CountsLine(h) /\ ~CountsLine(h)'
        BY <1>2, <1>3, <1>8, <1>9 DEF CountsLine
    <2>3. /\ bytes = -1 => Size <= MaxBytes + Room
          /\ bytes # -1 => bytes <= MaxBytes /\ Size <= bytes + Room
        BY <1>8, <1>9, <2>2 DEF SizeKnown
    <2>4. bytes' # -1 /\ bytes' <= MaxBytes /\ bytes' + 1 <= MaxBytes /\ Size' <= bytes' + Room'
      <3>1. CASE KnownBytes + 1 <= MaxBytes /\ bytes' = KnownBytes /\ UNCHANGED <<gen, failedRotations, logFaults>>
        <4>1. Size' = Size /\ Room' = Room
            BY <1>2, <3>1 DEF Size, Room
        <4> QED
            BY <1>1, <1>4, <2>3, <3>1, <4>1
      <3>2. CASE bytes' = 0 /\ UNCHANGED failedRotations /\ gen' = Shifted(-1)
        <4>1. Size' = 0 /\ Room' = Room
            BY <1>1, <1>2, <3>2, ShiftIs DEF Size, Room
        <4> QED
            BY <1>1, <3>2, <4>1
      <3>3. CASE bytes' = 0 /\ failedRotations' = failedRotations + 1
        <4>1. Size' = Size /\ Room' = Room + MaxBytes
            BY <1>1, <1>2, <1>6, <3>3, RoomIs DEF Size
        <4> QED
            BY <1>1, <2>3, <3>3, <4>1
      <3> QED
          BY <1>5, <3>1, <3>2, <3>3
    <2>5. \A h \in Loggers : logger'[h].pc \notin {"append", "count"}
        BY <1>3, <1>8, <1>9
    <2> QED
        BY <2>1, <2>2, <2>4, <2>5 DEF SizeKnown
  <1>10. ASSUME ~overlapped, failedRotations' = 0 PROVE Generations' /\ Sorted'
    <2>1. failedRotations = 0 /\ failedRotations' # failedRotations + 1
        BY <1>1, <1>5, <1>10 DEF FilesTyped
    <2>2. Generations /\ Sorted
        BY <1>10, <2>1 DEF FilesInv
    <2>3. \A h \in Loggers : ~CountsLine(h)'
        BY <1>3, <1>8, <1>10 DEF CountsLine
    <2>4. Generations'
      <3>1. CASE KnownBytes + 1 <= MaxBytes /\ bytes' = KnownBytes /\ UNCHANGED <<gen, failedRotations, logFaults>>
        <4>1. Size' = Size /\ Base' = Base
            BY <1>2, <3>1 DEF Size, Base
        <4>2. bytes' <= Size
            BY <1>1, <1>4, <2>2, <3>1 DEF Generations
        <4> QED
            BY <1>2, <2>2, <2>3, <3>1, <4>1, <4>2 DEF Generations
      <3>2. CASE ~(KnownBytes + 1 <= MaxBytes) /\ bytes' = 0 /\ gen' = Shifted(-1)
        <4>1. Size >= MaxBytes
            BY <1>1, <1>4, <2>2, <3>2 DEF Generations
        <4>2. gen[0] # 0 /\ gen[0] = Len(text) /\ gen[0] \in 1..Len(text) /\ Size = Len(text[gen[0]])
            BY <1>1, <2>2, <4>1, SizeIs DEF Generations
        <4>3. gen'[0] = 0 /\ \A n \in 1..Retain : gen'[n] = gen[n - 1]
            BY <1>1, <3>2, ShiftIs
        <4>4. Base = Len(text) /\ Base' = Len(text) + 1
            BY <1>2, <4>2, <4>3 DEF Base
        <4>5. ASSUME NEW n \in 1..Retain PROVE gen'[n] = IF n < Base' THEN Base' - n ELSE 0
          <5>1. CASE n = 1
              BY <4>2, <4>3, <4>4, <5>1
          <5>2. CASE n # 1
            <6>1. n - 1 \in 1..Retain
                BY <5>2, BoundsAre
            <6>2. gen[n - 1] = IF n - 1 < Base THEN Base - (n - 1) ELSE 0
                BY <2>2, <6>1 DEF Generations
            <6> QED
                BY <1>1, <4>3, <4>4, <6>2
          <5> QED
              BY <5>1, <5>2
        <4>6. \A f \in 1..Len(text) : Len(text[f]) >= MaxBytes
            BY <2>2, <4>1, <4>2 DEF Generations
        <4>7. Size' = 0
            BY <4>3 DEF Size
        <4> QED
            BY <1>2, <2>3, <3>2, <4>3, <4>5, <4>6, <4>7 DEF Generations
      <3> QED
          BY <1>5, <2>1, <3>1, <3>2
    <2>5. \A h \in Loggers : logger'[h].entry = logger[h].entry
                             /\ (logger'[h].pc \in {"tell", "rotate", "open", "append"} =>
                                   logger[h].pc \in {"tell", "rotate", "open", "append"})
        BY <1>2, <1>3
    <2>6. Sorted'
        BY <1>2, <2>2, <2>5 DEF Sorted
    <2> QED
        BY <2>4, <2>6
  <1> QED
      BY <1>2, <1>7, <1>9, <1>10 DEF FilesInv

LEMMA RestartFiles ==
    ASSUME FilesInv, LogRestart
    PROVE  FilesInv'
  <1>1. FilesTyped /\ Size \in Nat /\ Room \in Nat /\ bytes \in Nat \cup {-1} /\ MaxBytes \in Nat
      BY SizeIs, RoomIs, BoundsAre DEF FilesInv, FilesTyped
  <1>2. /\ UNCHANGED <<gen, text, lines, failedRotations, overlapped>> /\ bytes' = -1 /\ logFaults' = logFaults + 1
        /\ \A h \in Loggers : logger'[h] = Resting
      BY DEF LogRestart
  <1>3. \A h \in Loggers : logger'[h].pc = "rest" /\ logger'[h].entry.line = 0
      BY <1>2, RestTyped
  <1>4. FilesTyped'
      BY <1>1, <1>2, <1>3 DEF FilesTyped
  <1>5. Size' = Size /\ Room' = Room /\ Base' = Base /\ \A h \in Loggers : ~Writing(h)' /\ ~CountsLine(h)'
      BY <1>2, <1>3 DEF Size, Room, Base, Writing, CountsLine
  <1>6. ASSUME ~overlapped PROVE OneAtATime' /\ SizeKnown'
    <2>1. Size <= MaxBytes + Room
      <3>1. SizeKnown /\ \A h \in Loggers : CountsLine(h) => Writing(h)
          BY <1>6 DEF FilesInv, Writing, CountsLine
      <3> QED
          BY <1>1, <3>1 DEF SizeKnown
    <2> QED
        BY <1>2, <1>3, <1>5, <2>1 DEF SizeKnown, OneAtATime, Logging
  <1>7. ASSUME ~overlapped, failedRotations = 0 PROVE Generations' /\ Sorted'
    <2>1. Generations /\ Sorted /\ lines \in Nat
        BY <1>1, <1>7 DEF FilesInv, FilesTyped
    <2> QED
        BY <1>2, <1>3, <1>5, <2>1 DEF Generations, Sorted
  <1> QED
      BY <1>2, <1>4, <1>6, <1>7 DEF FilesInv

\* The files that earlier processes have left are full, and follow one another.
LEMMA Follows ==
    ASSUME NEW d \in Nat, NEW f \in Nat, d < f, NEW m \in Nat
    PROVE  d * m + m <= f * m
  <1>1. PICK k \in Nat : f = d + 1 + k
    <2>1. f - d - 1 \in Nat /\ f = d + 1 + (f - d - 1)
        OBVIOUS
    <2> QED
        BY <2>1
  <1>2. f * m = d * m + m + k * m /\ k * m >= 0 /\ d * m \in Nat /\ k * m \in Nat
      BY <1>1
  <1> QED
      BY <1>2

LEMMA FilesLeft == LogInit => FilesInv
  <1> SUFFICES ASSUME LogInit PROVE FilesInv
      OBVIOUS
  <1>0. MaxBytes \in Nat /\ Retain \in Nat /\ MaxBytes > 0 /\ 0 \in 0..Retain
      BY BoundsAre
  <1>1. PICK left \in 0..Retain :
             /\ text = [f \in 1..left |-> [i \in 1..MaxBytes |-> (f - 1) * MaxBytes + i]]
             /\ lines = left * MaxBytes
             /\ gen = [n \in 0..Retain |-> IF n \in 1..left THEN left + 1 - n ELSE 0]
      BY DEF LogInit
  <1>2. left \in Nat /\ left <= Retain /\ lines \in Nat
      BY <1>0, <1>1
  <1>3. \A f \in 1..left : (f - 1) * MaxBytes \in Nat /\ (f - 1) * MaxBytes + MaxBytes <= lines
    <2> SUFFICES ASSUME NEW f \in 1..left
                 PROVE  (f - 1) * MaxBytes \in Nat /\ (f - 1) * MaxBytes + MaxBytes <= lines
        OBVIOUS
    <2>1. f - 1 \in Nat /\ f - 1 < left
        BY <1>2
    <2> QED
        BY <1>0, <1>1, <1>2, <2>1, Follows
  <1>4. ASSUME NEW f \in 1..left
        PROVE  text[f] \in Seq(Nat) /\ Len(text[f]) = MaxBytes
               /\ \A i \in 1..MaxBytes : text[f][i] = (f - 1) * MaxBytes + i
    <2>1. text[f] = [i \in 1..MaxBytes |-> (f - 1) * MaxBytes + i] /\ (f - 1) * MaxBytes \in Nat
        BY <1>1, <1>3
    <2>2. PICK before \in Nat : before = (f - 1) * MaxBytes
        BY <2>1
    <2>3. text[f] = [i \in 1..MaxBytes |-> before + i] /\ \A i \in 1..MaxBytes : before + i \in Nat
        BY <1>0, <2>1, <2>2
    <2>4. text[f] \in Seq(Nat) /\ Len(text[f]) = MaxBytes
        BY <1>0, <2>3
    <2> QED
        BY <2>1, <2>4
  <1>5. text \in Seq(Seq(Nat)) /\ Len(text) = left
    <2>1. text = [f \in 1..left |-> text[f]]
        BY <1>1
    <2> QED
        BY <1>2, <1>4, <2>1
  <1>6. \A h \in Loggers : logger[h] = Resting /\ logger[h].pc = "rest" /\ logger[h].entry.line = 0
      BY RestTyped DEF LogInit
  <1>7. bytes = -1 /\ failedRotations = 0 /\ logFaults = 0 /\ overlapped = FALSE
      BY DEF LogInit
  <1>8. gen \in [0..Retain -> 0..left] /\ gen[0] = 0 /\ \A n \in 1..Retain : gen[n] = IF n < left + 1 THEN left + 1 - n ELSE 0
    <2>1. \A n \in 0..Retain : (IF n \in 1..left THEN left + 1 - n ELSE 0) \in 0..left
        BY <1>0, <1>2
    <2>2. \A n \in 1..Retain : (n \in 1..left <=> n < left + 1) /\ n \in 0..Retain
        BY <1>0, <1>2
    <2>3. 0 \notin 1..left
        BY <1>2
    <2> QED
        BY <1>0, <1>1, <2>1, <2>2, <2>3
  <1>9. FilesTyped
      BY <1>2, <1>5, <1>6, <1>7, <1>8 DEF FilesTyped
  <1>10. OneAtATime /\ SizeKnown
    <2>1. Size = 0 /\ Room = 0 /\ \A h \in Loggers : ~Writing(h)
        BY <1>0, <1>6, <1>7, <1>8 DEF Size, Room, Writing
    <2> QED
        BY <1>0, <1>6, <1>7, <2>1 DEF OneAtATime, Logging, SizeKnown
  <1>11. Generations
      BY <1>0, <1>2, <1>4, <1>5, <1>7, <1>8 DEF Generations, Base
  <1>12. Sorted
    <2>1. ASSUME NEW d \in 1..left, NEW f \in 1..left, NEW i \in 1..MaxBytes, NEW j \in 1..MaxBytes,
                 d < f \/ (d = f /\ i < j)
          PROVE  text[d][i] < text[f][j]
      <3>1. text[d][i] = (d - 1) * MaxBytes + i /\ text[f][j] = (f - 1) * MaxBytes + j
            /\ (d - 1) * MaxBytes \in Nat /\ (f - 1) * MaxBytes \in Nat
          BY <1>3, <1>4
      <3>2. CASE d = f /\ i < j
          BY <3>1, <3>2
      <3>3. CASE d < f
        <4>1. d - 1 \in Nat /\ f - 1 \in Nat /\ d - 1 < f - 1
            BY <1>2, <3>3
        <4>2. (d - 1) * MaxBytes + MaxBytes <= (f - 1) * MaxBytes
            BY <1>0, <4>1, Follows
        <4>3. PICK a \in Nat, b \in Nat : a = (d - 1) * MaxBytes /\ b = (f - 1) * MaxBytes
            BY <3>1
        <4> QED
            BY <1>0, <3>1, <4>2, <4>3
      <3> QED
          BY <2>1, <3>2, <3>3
    <2>2. ASSUME NEW f \in 1..left, NEW i \in 1..MaxBytes PROVE text[f][i] <= lines
      <3>1. PICK a \in Nat : a = (f - 1) * MaxBytes
          BY <1>3
      <3>2. text[f][i] = a + i /\ a + MaxBytes <= lines
          BY <1>3, <1>4, <3>1
      <3> QED
          BY <1>0, <1>2, <3>2
    <2>3. \A f \in 1..left : Len(text[f]) = MaxBytes
        BY <1>4
    <2> QED
        BY <1>2, <1>5, <1>6, <2>1, <2>2, <2>3 DEF Sorted
  <1> QED
      BY <1>9, <1>10, <1>11, <1>12 DEF FilesInv

LEMMA FilesHold ==
    ASSUME PagesInv, FilesInv, [LogNext]_logVars
    PROVE  FilesInv'
  <1>0. EntriesTyped
      BY DEF PagesInv
  <1>1. ASSUME NEW g \in Loggers, NEW name \in LogNames, NEW kind \in {"done", "fail"}, Log(g, name, kind)
        PROVE  FilesInv'
      BY <1>0, <1>1, LogFiles
  <1>2. ASSUME NEW g \in Loggers, RotateIfNeeded(g) \/ OpenLog(g) \/ AppendLine(g) \/ CountBytes(g) \/ LineFails(g)
        PROVE  FilesInv'
      BY <1>0, <1>2, RotateFiles, OpenFiles, AppendFiles, RestFiles
  <1>3. ASSUME NEW g \in Loggers, NEW s \in Streams, Tell(g, s) PROVE FilesInv'
    <2>1. UNCHANGED <<gen, text, bytes, lines, failedRotations, logFaults, overlapped>> /\ logger[g].pc = "tell"
        BY <1>3 DEF Tell
    <2>2. logger'[g].entry = logger[g].entry /\ logger'[g].pc \in {"rotate", "tell"}
          /\ logger'[g].fd = logger[g].fd /\ \A h \in Loggers : h # g => logger'[h] = logger[h]
        BY <1>0, <1>3, TellLogger
    <2> QED
        BY <2>1, <2>2, FilesStay
  <1>4. ASSUME UNCHANGED <<gen, text, bytes, lines, failedRotations, logFaults, overlapped, logger>> PROVE FilesInv'
      BY <1>4, FilesStay
  <1>5. ASSUME NEW s \in Streams, StreamInit(s) \/ StreamListen(s) \/ StreamSend(s) PROVE FilesInv'
      BY <1>4, <1>5 DEF StreamInit, StreamListen, StreamSend
  <1>6. CASE UNCHANGED logVars
      BY <1>4, <1>6 DEF logVars
  <1>7. CASE LogRestart
      BY <1>7, RestartFiles
  <1> QED
      BY <1>1, <1>2, <1>3, <1>5, <1>6, <1>7 DEF LogNext

-----------------------------------------------------------------------------
(* What follows.                                                            *)

LEMMA LogBoundedThen == FilesInv => LogBounded
  <1> SUFFICES ASSUME FilesInv, ~overlapped, gen[0] # 0
               PROVE  Len(text[gen[0]]) <= MaxBytes * (1 + failedRotations)
      BY DEF LogBounded
  <1>1. FilesTyped /\ SizeKnown
      BY DEF FilesInv
  <1>2. Size = Len(text[gen[0]]) /\ Size \in Nat /\ Room \in Nat /\ MaxBytes \in Nat /\ bytes \in Nat \cup {-1}
        /\ MaxBytes * (1 + failedRotations) = MaxBytes + Room
      BY <1>1, SizeIs, RoomIs, BoundsAre DEF FilesTyped
  <1>3. \A g \in Loggers : CountsLine(g) => Writing(g)
      BY DEF CountsLine, Writing
  <1>4. Size <= MaxBytes + Room
      BY <1>1, <1>2, <1>3 DEF SizeKnown
  <1> QED
      BY <1>2, <1>4

\* Which file a generation is.
LEMMA GenerationIs ==
    ASSUME FilesTyped, Generations
    PROVE  /\ Base \in Nat /\ Base <= Len(text) + 1
           /\ \A n \in 0..Retain : gen[n] # 0 => gen[n] = Base - n /\ gen[n] \in 1..Len(text)
           /\ \A f \in 1..Len(text) : Base - f \in 0..Retain => gen[Base - f] = f
           /\ \A f \in 1..Len(text) : f <= Base
           /\ \A n \in 1..Retain : n < Base => gen[n] # gen[0]
  <1>1. gen[0] \in 0..Len(text) /\ Len(text) \in Nat /\ Retain \in Nat /\ gen \in [0..Retain -> 0..Len(text)]
      BY SizeIs, BoundsAre DEF FilesTyped
  <1>2. Base \in Nat /\ (gen[0] # 0 => Base = Len(text) /\ gen[0] = Base) /\ (gen[0] = 0 => Base = Len(text) + 1)
      BY <1>1 DEF Base, Generations
  <1>3. \A n \in 1..Retain : gen[n] = IF n < Base THEN Base - n ELSE 0
      BY DEF Generations
  <1>4. ASSUME NEW n \in 0..Retain, gen[n] # 0 PROVE gen[n] = Base - n /\ gen[n] \in 1..Len(text)
    <2>1. gen[n] \in 1..Len(text)
        BY <1>1, <1>4
    <2>2. CASE n = 0
        BY <1>2, <1>4, <2>1, <2>2
    <2>3. CASE n # 0
      <3>1. n \in 1..Retain
          BY <1>1, <2>3
      <3> QED
          BY <1>3, <1>4, <2>1, <3>1
    <2> QED
        BY <2>2, <2>3
  <1>5. \A f \in 1..Len(text) : f <= Base
      BY <1>1, <1>2
  <1>6. ASSUME NEW f \in 1..Len(text), Base - f \in 0..Retain PROVE gen[Base - f] = f
    <2>1. CASE Base - f = 0
      <3>1. Base = f /\ f \in Nat /\ f <= Len(text)
          BY <1>2, <2>1
      <3>2. gen[0] # 0
          BY <1>1, <1>2, <3>1
      <3> QED
          BY <1>2, <2>1, <3>1, <3>2
    <2>2. CASE Base - f # 0
      <3>1. Base - f \in 1..Retain /\ Base - f < Base /\ Base - (Base - f) = f
          BY <1>1, <1>2, <1>6, <2>2
      <3> QED
          BY <1>3, <3>1
    <2> QED
        BY <2>1, <2>2
  <1>7. \A n \in 1..Retain : n < Base => gen[n] # gen[0]
      BY <1>1, <1>2, <1>3
  <1> QED
      BY <1>1, <1>2, <1>4, <1>5, <1>6, <1>7

\* The generations hold the lines of the youngest files.
LEMMA KeptLines ==
    ASSUME FilesTyped, Generations, Sorted
    PROVE  /\ IsFiniteSet(LinesKept)
           /\ \A line \in LinesKept : \E f \in 1..Len(text) : \E i \in 1..Len(text[f]) :
                line = text[f][i] /\ f + Retain >= Base
           /\ \A f \in 1..Len(text) : f + Retain >= Base => \A i \in 1..Len(text[f]) : text[f][i] \in LinesKept
  <1>1. text \in Seq(Seq(Nat)) /\ Len(text) \in Nat /\ lines \in Nat /\ Retain \in Nat /\ Base \in Nat
      BY GenerationIs, BoundsAre DEF FilesTyped
  <1>2. \A f \in 1..Len(text) : text[f] \in Seq(Nat) /\ DOMAIN text[f] = 1..Len(text[f])
      BY <1>1
  <1>3. ASSUME NEW line \in LinesKept
        PROVE  \E f \in 1..Len(text) : \E i \in 1..Len(text[f]) : line = text[f][i] /\ f + Retain >= Base
    <2>1. PICK n \in 0..Retain : gen[n] # 0 /\ line \in LinesIn(gen[n])
        BY DEF LinesKept
    <2>2. gen[n] = Base - n /\ gen[n] \in 1..Len(text)
        BY <2>1, GenerationIs
    <2>3. PICK i \in 1..Len(text[gen[n]]) : line = text[gen[n]][i]
        BY <1>2, <2>1, <2>2 DEF LinesIn
    <2>4. gen[n] + Retain >= Base
        BY <1>1, <2>2
    <2> QED
        BY <2>2, <2>3, <2>4
  <1>4. ASSUME NEW f \in 1..Len(text), f + Retain >= Base, NEW i \in 1..Len(text[f]) PROVE text[f][i] \in LinesKept
    <2>1. Base - f \in 0..Retain
        BY <1>1, <1>4, GenerationIs
    <2>2. gen[Base - f] = f /\ f # 0
        BY <2>1, GenerationIs
    <2>3. text[f][i] \in LinesIn(f)
        BY <1>2 DEF LinesIn
    <2> QED
        BY <2>1, <2>2, <2>3 DEF LinesKept
  <1>5. \A line \in LinesKept : line \in Nat /\ line <= lines
      BY <1>2, <1>3 DEF Sorted
  <1>6. IsFiniteSet(LinesKept)
      BY <1>1, <1>5, FS_BoundedSetOfNaturals
  <1> QED
      BY <1>3, <1>4, <1>6

LEMMA LineIs ==
    ASSUME NEW file \in Seq(Nat), NEW i \in 1..Len(file)
    PROVE  file[i] \in Nat
  OBVIOUS

LEMMA NewestLinesThen == FilesInv => NewestLinesKept
  <1> SUFFICES ASSUME FilesInv, ~overlapped, failedRotations = 0
               PROVE  /\ InReadingOrder
                      /\ \A gone \in LinesWritten \ LinesKept :
                           Cardinality(LinesKept) >= Retain * MaxBytes /\ \A kept \in LinesKept : gone < kept
      BY DEF NewestLinesKept
  <1>0. FilesTyped /\ Generations /\ Sorted
      BY DEF FilesInv
  <1>1. text \in Seq(Seq(Nat)) /\ Len(text) \in Nat /\ MaxBytes \in Nat /\ Retain \in Nat /\ Base \in Nat
      BY <1>0, GenerationIs, BoundsAre DEF FilesTyped
  <1>2. \A f \in 1..Len(text) : text[f] \in Seq(Nat) /\ DOMAIN text[f] = 1..Len(text[f])
      BY <1>1
  <1>3. DOMAIN text = 1..Len(text)
      BY <1>1
  <1>4. \A d, f \in 1..Len(text) : \A i \in 1..Len(text[d]), j \in 1..Len(text[f]) :
          d < f \/ (d = f /\ i < j) => text[d][i] < text[f][j]
      BY <1>0 DEF Sorted
  <1>5. InReadingOrder
    <2> SUFFICES ASSUME NEW n \in 0..Retain, NEW m \in 0..Retain, gen[n] # 0, gen[m] # 0,
                        NEW i \in DOMAIN text[gen[n]], NEW j \in DOMAIN text[gen[m]], n > m \/ (n = m /\ i < j)
                 PROVE  text[gen[n]][i] < text[gen[m]][j]
        BY DEF InReadingOrder
    <2>1. gen[n] = Base - n /\ gen[m] = Base - m /\ gen[n] \in 1..Len(text) /\ gen[m] \in 1..Len(text)
        BY <1>0, GenerationIs
    <2>2. gen[n] < gen[m] \/ (gen[n] = gen[m] /\ i < j)
        BY <1>1, <2>1
    <2> QED
        BY <1>2, <1>4, <2>1, <2>2
  <1>6. ASSUME NEW gone \in LinesWritten, gone \notin LinesKept
        PROVE  Cardinality(LinesKept) >= Retain * MaxBytes /\ \A kept \in LinesKept : gone < kept
    <2>1. PICK f \in 1..Len(text) : \E i \in 1..Len(text[f]) : gone = text[f][i]
        BY <1>2, <1>3, <1>6 DEF LinesWritten, LinesIn
    <2>2. f + Retain < Base
      <3>1. ~(f + Retain >= Base)
          BY <1>0, <1>6, <2>1, KeptLines
      <3> QED
          BY <1>1, <3>1
    <2>3. \A kept \in LinesKept : gone < kept
      <3> SUFFICES ASSUME NEW kept \in LinesKept PROVE gone < kept
          OBVIOUS
      <3>1. PICK d \in 1..Len(text) : \E i \in 1..Len(text[d]) : kept = text[d][i] /\ d + Retain >= Base
          BY <1>0, KeptLines
      <3>2. f < d
          BY <1>1, <2>2, <3>1
      <3> QED
          BY <1>4, <2>1, <3>1, <3>2
    \* Each older generation is there and full, and no line is in two places.
    <2>4. ASSUME NEW n \in 1..Retain
          PROVE  Base - n \in 1..Len(text) /\ Len(text[Base - n]) >= MaxBytes
                 /\ \A i \in 1..MaxBytes : i \in 1..Len(text[Base - n]) /\ text[Base - n][i] \in LinesKept
      <3>1. n < Base /\ gen[n] = Base - n /\ gen[n] # 0 /\ n \in 0..Retain
          BY <1>0, <1>1, <2>2 DEF Generations
      <3>2. Base - n \in 1..Len(text) /\ Base - n # gen[0]
          BY <1>0, <3>1, GenerationIs
      <3>3. Len(text[Base - n]) >= MaxBytes
          BY <1>0, <3>2 DEF Generations
      <3>4. (Base - n) + Retain >= Base
          BY <1>1
      <3>5. \A i \in 1..MaxBytes : i \in 1..Len(text[Base - n])
          BY <1>1, <1>2, <3>2, <3>3
      <3> QED
          BY <1>0, <3>2, <3>3, <3>4, <3>5, KeptLines
    <2> DEFINE Cells == (1..Retain) \X (1..MaxBytes)
               lineAt == [p \in Cells |-> text[Base - p[1]][p[2]]]
    <2>5. IsFiniteSet(Cells) /\ Cardinality(Cells) = Retain * MaxBytes
      <3>1. /\ IsFiniteSet(1..Retain) /\ Cardinality(1..Retain) = Retain
            /\ IsFiniteSet(1..MaxBytes) /\ Cardinality(1..MaxBytes) = MaxBytes
        <4>1. ASSUME NEW n \in Nat PROVE IsFiniteSet(1..n) /\ Cardinality(1..n) = n
            BY FS_Interval
        <4> QED
            BY <1>1, <4>1
      <3> DEFINE A == 1..Retain
                 B == 1..MaxBytes
      <3> HIDE DEF A, B
      <3>2. IsFiniteSet(A) /\ Cardinality(A) = Retain /\ IsFiniteSet(B) /\ Cardinality(B) = MaxBytes
          BY <3>1 DEF A, B
      <3>3. IsFiniteSet(A \X B) /\ Cardinality(A \X B) = Retain * MaxBytes
          BY <3>2, FS_Product
      <3> QED
          BY <3>3 DEF A, B
    <2>6. lineAt \in [Cells -> LinesKept]
        BY <2>4
    <2>7. \A p, q \in Cells : p # q => lineAt[p] # lineAt[q]
      <3> SUFFICES ASSUME NEW p \in Cells, NEW q \in Cells, p # q
                   PROVE  text[Base - p[1]][p[2]] # text[Base - q[1]][q[2]]
          OBVIOUS
      <3>1. p[1] \in 1..Retain /\ q[1] \in 1..Retain /\ p[2] \in 1..MaxBytes /\ q[2] \in 1..MaxBytes
            /\ (p[1] # q[1] \/ p[2] # q[2])
          OBVIOUS
      <3>0. PICK d \in 1..Len(text), e \in 1..Len(text) : d = Base - p[1] /\ e = Base - q[1]
          BY <2>4, <3>1
      <3>2. PICK i \in 1..Len(text[d]), j \in 1..Len(text[e]) : i = p[2] /\ j = q[2]
          BY <2>4, <3>0, <3>1
      <3>3. d # e \/ i # j
          BY <1>1, <3>0, <3>1, <3>2
      <3>4. d < e \/ e < d \/ (d = e /\ (i < j \/ j < i))
          BY <1>1, <1>2, <3>3
      <3>5. text[d][i] < text[e][j] \/ text[e][j] < text[d][i]
          BY <1>4, <3>4
      <3>6. text[d][i] \in Nat /\ text[e][j] \in Nat
          BY <1>2, LineIs
      <3> QED
          BY <3>0, <3>2, <3>5, <3>6
    <2>8. ~(Cardinality(LinesKept) < Cardinality(Cells))
      <3> HIDE DEF lineAt, Cells
      <3> QED
          BY <1>0, <2>5, <2>6, <2>7, KeptLines, FS_PigeonHole
    <2>9. Cardinality(LinesKept) \in Nat /\ Retain * MaxBytes \in Nat
        BY <1>0, <1>1, KeptLines, FS_CardinalityType
    <2> QED
        BY <2>3, <2>5, <2>8, <2>9
  <1> QED
      BY <1>5, <1>6

LEMMA NoEntryTwiceThen == PagesInv => NoEntryTwice
  <1> SUFFICES ASSUME PagesInv, NEW s \in Streams, NEW i \in DOMAIN stream[s].sent, NEW j \in DOMAIN stream[s].sent, i # j
               PROVE  stream[s].sent[i].id # stream[s].sent[j].id
      BY DEF NoEntryTwice
  <1>1. DOMAIN stream[s].sent = 1..Len(stream[s].sent)
      BY DEF PagesInv, EntriesTyped, StreamStates
  <1> QED
      BY <1>1 DEF PagesInv, OnceEach

LEMMA PageHasLogThen == PagesInv => PageHasLog
  <1> SUFFICES ASSUME PagesInv, Logging = {}, NEW s \in Listening, stream[s].channel = <<>>,
                      NEW id \in stream[s].from + 1..Len(entries)
               PROVE  id \in stream[s].dropped \/ \E i \in DOMAIN stream[s].sent : stream[s].sent[i].id = id
      BY DEF PageHasLog
  <1>1. s \in Streams /\ stream[s].pc = "on" /\ stream[s].sent \in Seq(LogEntries)
      BY DEF Listening, PagesInv, EntriesTyped, StreamStates
  <1>2. \A g \in Loggers : ~Telling(g)
      BY DEF Logging, Telling
  <1>3. id \in Got(s)
      BY <1>1, <1>2 DEF PagesInv, AllComes
  <1>4. DOMAIN stream[s].sent = 1..Len(stream[s].sent) /\ 1..Len(stream[s].channel) = {}
      BY <1>1
  <1> QED
      BY <1>3, <1>4 DEF Got

LEMMA LogKeptThen == PagesInv /\ FilesInv => LogKept
  <1> SUFFICES ASSUME PagesInv, FilesInv PROVE LogKept
      OBVIOUS
  <1>1. LogTypeOK
      BY DEF LogTypeOK, PagesInv, EntriesTyped, FilesInv, FilesTyped
  <1> QED
      BY <1>1, LogBoundedThen, NewestLinesThen, NoEntryTwiceThen, PageHasLogThen DEF LogKept

THEOREM LogKeptTheorem == LogSpec => []LogKept
  <1>1. LogInit => PagesInv /\ FilesInv
    <2>1. LogInit => entries = <<>> /\ ring = 0 /\ logger = [g \in Loggers |-> Resting] /\ stream = [s \in Streams |-> NoStream]
        BY DEF LogInit
    <2> QED
        BY <2>1, FreshPages, FilesLeft
  <1>2. PagesInv /\ FilesInv /\ [LogNext]_logVars => (PagesInv /\ FilesInv)'
    <2>1. FilesInv => FilesTyped
        BY DEF FilesInv
    <2> QED
        BY <2>1, PagesHold, FilesHold
  <1> QED
      BY <1>1, <1>2, LogKeptThen, PTL DEF LogSpec

-----------------------------------------------------------------------------
(* What the page of the log shows: GroupedSessionLogs is a loop over the    *)
(* buffered entries.                                                        *)

\* The loop over the buffered entries: a recursive function, like the loop
\* over the decisions.
ToldOne(shown, e) ==
  [shown EXCEPT ![e.name] = [count |-> @.count + 1, status |-> Status(@.status, e.kind), updated |-> e.id]]
ShowsEach(told, f, n) ==
  f = [k \in 0..n |-> IF k = 0 THEN [d \in LogNames |-> NoSession] ELSE ToldOne(f[k - 1], told[k])]

LEMMA ShowsEachLoop ==
    ASSUME NEW told
    PROVE  \A n \in Nat : \E f : ShowsEach(told, f, n)
  <1> DEFINE T == {n \in Nat : \E f : ShowsEach(told, f, n)}
             fresh == [d \in LogNames |-> NoSession]
  <1>1. ShowsEach(told, [k \in 0..0 |-> fresh], 0)
      BY DEF ShowsEach
  <1> HIDE DEF fresh
  <1>2. ASSUME NEW n \in Nat, NEW f, ShowsEach(told, f, n) PROVE \E g : ShowsEach(told, g, n + 1)
    <2> DEFINE g == [k \in 0..(n + 1) |-> IF k <= n THEN f[k] ELSE ToldOne(f[n], told[n + 1])]
    <2>1. \A k \in 0..n : f[k] = IF k = 0 THEN fresh ELSE ToldOne(f[k - 1], told[k])
        BY <1>2 DEF ShowsEach, fresh
    <2>2. \A k \in 0..(n + 1) : g[k] = IF k = 0 THEN fresh ELSE ToldOne(g[k - 1], told[k])
      <3>1. ASSUME NEW k \in 0..n PROVE g[k] = f[k]
          OBVIOUS
      <3>2. g[n + 1] = ToldOne(f[n], told[n + 1])
          OBVIOUS
      <3> HIDE DEF g
      <3>3. ASSUME NEW k \in 1..n PROVE g[k - 1] = f[k - 1]
          BY <3>1
      <3>4. g[n] = f[n]
          BY <3>1
      <3> QED
          BY <2>1, <3>1, <3>2, <3>3, <3>4
    <2>3. ShowsEach(told, g, n + 1)
        BY <2>2 DEF ShowsEach, fresh
    <2> QED
        BY <2>3
  <1>3. 0 \in T /\ \A n \in Nat : n \in T => n + 1 \in T
      BY <1>1, <1>2
  <1> HIDE DEF T
  <1>4. Nat \subseteq T
      BY <1>3, Counting
  <1> QED
      BY <1>4 DEF T

\* What is shown after n entries: a session for each name, failed if one of
\* the n is a failure.
FailedAmong(told, shown, n) ==
  /\ shown \in [LogNames -> [count : Nat, status : {"IN_PROGRESS", "COMPLETED", "FAILED"}, updated : Nat]]
  /\ \A i \in 1..n : told[i].kind = "fail" => shown[told[i].name].status = "FAILED"

LEMMA FailedStays ==
    ASSUME NEW told \in Seq(LogEntries), NEW n \in Nat, n + 1 <= Len(told),
           \A i \in 1..Len(told) : told[i].name \in LogNames,
           NEW shown, FailedAmong(told, shown, n)
    PROVE  FailedAmong(told, ToldOne(shown, told[n + 1]), n + 1)
  <1> DEFINE m == n + 1
             e == told[m]
             new == ToldOne(shown, e)
             d == e.name
             st == Status(shown[d].status, e.kind)
             States == {"IN_PROGRESS", "COMPLETED", "FAILED"}
  <1>1. m \in Nat /\ m \in 1..Len(told) /\ \A i \in 1..m : i = m \/ i \in 1..n
      OBVIOUS
  <1>2. e \in LogEntries /\ d \in LogNames
      BY <1>1
  <1>3. shown \in [LogNames -> [count : Nat, status : States, updated : Nat]]
      BY DEF FailedAmong
  <1>4. shown[d] \in [count : Nat, status : States, updated : Nat]
      BY <1>2, <1>3
  <1>5. st \in States /\ (e.kind = "fail" \/ shown[d].status = "FAILED" => st = "FAILED")
    <2>1. e.kind \in {"", "done", "fail"} /\ shown[d].status \in States
        BY <1>2, <1>4 DEF LogEntries
    <2> HIDE DEF e, d
    <2> QED
        BY <2>1 DEF Status
  <1>6. shown[d].count + 1 \in Nat /\ e.id \in Nat
    <2>1. shown[d].count \in Nat /\ e.id \in Nat
        BY <1>2, <1>4 DEF LogEntries
    <2> QED
        BY <2>1
  <1>7. new = [shown EXCEPT ![d] = [count |-> shown[d].count + 1, status |-> st, updated |-> e.id]]
      BY DEF ToldOne
  <1>8. /\ new \in [LogNames -> [count : Nat, status : States, updated : Nat]]
        /\ new[d].status = st
        /\ \A c \in LogNames : c # d => new[c] = shown[c]
    <2> HIDE DEF st, d, e, new
    <2>1. [count |-> shown[d].count + 1, status |-> st, updated |-> e.id] \in [count : Nat, status : States, updated : Nat]
        BY <1>5, <1>6
    <2> QED
        BY <1>2, <1>3, <1>7, <2>1
  <1>9. ASSUME NEW i \in 1..m, told[i].kind = "fail" PROVE new[told[i].name].status = "FAILED"
    <2>1. CASE i = m
        BY <1>5, <1>8, <1>9, <2>1
    <2>2. CASE i # m
      <3>1. i \in 1..n /\ i \in 1..Len(told)
          BY <1>1, <2>2
      <3>2. shown[told[i].name].status = "FAILED" /\ told[i].name \in LogNames
          BY <1>9, <3>1 DEF FailedAmong
      <3> HIDE DEF new, st, d, e
      <3>3. CASE told[i].name = d
          BY <1>5, <1>8, <3>2, <3>3
      <3>4. CASE told[i].name # d
          BY <1>8, <3>2, <3>4
      <3> QED
          BY <3>3, <3>4
    <2> QED
        BY <2>1, <2>2
  <1> QED
      BY <1>8, <1>9 DEF FailedAmong

LEMMA SessionsShow ==
    ASSUME Buffered \in Seq(LogEntries), \A i \in 1..Len(Buffered) : Buffered[i].name \in LogNames
    PROVE  FailedAmong(Buffered, Sessions, Len(Buffered))
  <1> DEFINE told == Buffered
             L == Len(told)
             f == CHOOSE f : ShowsEach(told, f, L)
  <1>1. L \in Nat
      OBVIOUS
  <1>2. ShowsEach(told, f, L)
      BY <1>1, ShowsEachLoop
  <1>3. Sessions = f[L]
      BY DEF Sessions, ShowsEach, ToldOne
  <1> HIDE DEF f
  <1>4. f[0] = [d \in LogNames |-> NoSession] /\ \A k \in 1..L : f[k] = ToldOne(f[k - 1], told[k])
      BY <1>1, <1>2 DEF ShowsEach
  <1> DEFINE S == {n \in Nat : n <= L => FailedAmong(told, f[n], n)}
  <1>5. 0 \in S
      BY <1>4 DEF FailedAmong, NoSession
  <1>6. ASSUME NEW n \in Nat, n \in S PROVE n + 1 \in S
    <2>1. CASE n + 1 <= L
      <3>1. n + 1 \in 1..L /\ n + 1 - 1 = n /\ n <= L
          BY <1>1, <2>1
      <3>2. f[n + 1] = ToldOne(f[n], told[n + 1])
          BY <1>4, <3>1
      <3>3. FailedAmong(told, f[n], n)
          BY <1>6, <3>1
      <3>4. FailedAmong(told, ToldOne(f[n], told[n + 1]), n + 1)
          BY <2>1, <3>3, FailedStays
      <3> QED
          BY <3>2, <3>4
    <2>2. CASE ~(n + 1 <= L)
        BY <2>2
    <2> QED
        BY <2>1, <2>2
  <1> HIDE DEF S
  <1>7. L \in S
      BY <1>1, <1>5, <1>6, Counting
  <1> QED
      BY <1>1, <1>3, <1>7 DEF S

\* Every entry is about a document.
EntriesNamed == \A i \in 1..Len(entries) : entries[i].name \in LogNames

LEMMA NamedStep ==
    ASSUME EntriesTyped, EntriesNamed, [LogNext]_logVars
    PROVE  EntriesNamed'
  <1>1. ASSUME NEW g \in Loggers, NEW name \in LogNames, NEW kind \in {"done", "fail"}, Log(g, name, kind)
        PROVE  EntriesNamed'
    <2>1. PICK e : e.name = name /\ entries' = Append(entries, e)
        BY <1>1 DEF Log
    <2>2. entries \in Seq(LogEntries) /\ Len(entries) \in Nat
        BY DEF EntriesTyped
    <2>3. Len(entries') = Len(entries) + 1 /\ entries'[Len(entries) + 1] = e
          /\ \A i \in 1..Len(entries) : entries'[i] = entries[i]
        BY <2>1, <2>2
    <2> QED
        BY <2>1, <2>2, <2>3 DEF EntriesNamed
  <1>2. CASE LogRestart
    <2>1. entries' = <<>>
        BY <1>2 DEF LogRestart
    <2> QED
        BY <2>1 DEF EntriesNamed
  <1>3. CASE UNCHANGED entries
      BY <1>3 DEF EntriesNamed
  <1>4. [LogNext]_logVars =>
          \/ \E g \in Loggers, name \in LogNames, kind \in {"done", "fail"} : Log(g, name, kind)
          \/ LogRestart \/ UNCHANGED entries
    <2>1. ASSUME NEW g \in Loggers, RotateIfNeeded(g) \/ OpenLog(g) \/ LineFails(g) \/ AppendLine(g) \/ CountBytes(g)
          PROVE  UNCHANGED entries
        BY <2>1 DEF RotateIfNeeded, OpenLog, LineFails, AppendLine, CountBytes
    <2>2. ASSUME NEW g \in Loggers, NEW s \in Streams, Tell(g, s) PROVE UNCHANGED entries
        BY <2>2 DEF Tell
    <2>3. ASSUME NEW s \in Streams, StreamInit(s) \/ StreamListen(s) \/ StreamSend(s) PROVE UNCHANGED entries
        BY <2>3 DEF StreamInit, StreamListen, StreamSend
    <2>4. UNCHANGED logVars => UNCHANGED entries
        BY DEF logVars
    <2> QED
        BY <2>1, <2>2, <2>3, <2>4 DEF LogNext
  <1> QED
      BY <1>1, <1>2, <1>3, <1>4

LEMMA FailureVisibleThen ==
    ASSUME EntriesTyped, EntriesNamed
    PROVE  FailureStaysVisible
  <1> DEFINE first == Len(entries) - ring
  <1>1. entries \in Seq(LogEntries) /\ Len(entries) \in Nat /\ ring \in Nat /\ ring <= Len(entries)
      BY DEF EntriesTyped
  <1>2. first \in Nat /\ first + ring = Len(entries) /\ Len(entries) - first = ring
      BY <1>1
  <1>3. Buffered \in Seq(LogEntries) /\ Len(Buffered) = ring
        /\ \A i \in 1..ring : Buffered[i] = entries[first + i]
    <2> DEFINE n == Len(entries)
    <2>1. Buffered = SubSeq(entries, first + 1, n)
        BY DEF Buffered
    <2>2. Buffered = [i \in 1..ring |-> entries[first + i]]
        BY <1>1, <1>2, <2>1
    <2>3. ASSUME NEW i \in 1..ring PROVE entries[first + i] \in LogEntries
        BY <1>1, <1>2
    <2> QED
        BY <1>1, <2>2, <2>3
  <1>4. \A i \in 1..Len(Buffered) : Buffered[i].name \in LogNames
    <2>1. ASSUME NEW i \in 1..ring PROVE first + i \in 1..Len(entries)
        BY <1>1, <1>2
    <2> QED
        BY <1>3, <2>1 DEF EntriesNamed
  <1>5. FailedAmong(Buffered, Sessions, Len(Buffered))
      BY <1>3, <1>4, SessionsShow
  <1>6. DOMAIN Buffered = 1..Len(Buffered)
      BY <1>3
  <1> QED
      BY <1>5, <1>6 DEF FailureStaysVisible, FailedAmong

(* A document one of whose buffered entries is a failure is shown as        *)
(* failed, for any names, goroutines, sizes of the buffer and restarts.     *)
THEOREM FailureStaysVisibleTheorem == LogSpec => []FailureStaysVisible
  <1>1. LogInit => PagesInv /\ FilesInv /\ EntriesNamed
    <2>1. LogInit => entries = <<>> /\ ring = 0 /\ logger = [g \in Loggers |-> Resting] /\ stream = [s \in Streams |-> NoStream]
        BY DEF LogInit
    <2> QED
        BY <2>1, FreshPages, FilesLeft DEF EntriesNamed
  <1>2. PagesInv /\ FilesInv /\ EntriesNamed /\ [LogNext]_logVars => (PagesInv /\ FilesInv /\ EntriesNamed)'
    <2>1. FilesInv => FilesTyped
        BY DEF FilesInv
    <2>2. PagesInv => EntriesTyped
        BY DEF PagesInv
    <2> QED
        BY <2>1, <2>2, PagesHold, FilesHold, NamedStep
  <1>3. PagesInv /\ EntriesNamed => FailureStaysVisible
    <2>1. PagesInv => EntriesTyped
        BY DEF PagesInv
    <2> QED
        BY <2>1, FailureVisibleThen
  <1> QED
      BY <1>1, <1>2, <1>3, PTL DEF LogSpec
=============================================================================

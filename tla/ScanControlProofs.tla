-------------------------- MODULE ScanControlProofs --------------------------
(***************************************************************************)
(* For any number of runs of any kinds, any number of unlock requests and  *)
(* lists of any length: the control of the runs of a server keeps what     *)
(* ScanControl states.  What a run has to give back is read off its place  *)
(* and off what it still has to do on its way out.                         *)
(***************************************************************************)
EXTENDS ScanControl, TLAPS

Reports == {"finish", "fail"}

(* What may be left to do on the way out, by the kind of the run.  A denied *)
(* run and one that finds nothing enter these lists in the middle.          *)
WaysOut(o) ==
    CASE Kind[o] = "WATCH"  -> {<<r, "release", "endScan">> : r \in Reports}
                                 \cup {<<"release", "endScan">>, <<"endScan">>}
      [] Kind[o] = "REPAIR" -> {<<"release", r, "endScan">> : r \in Reports}
                                 \cup {<<r, "endScan">> : r \in Reports} \cup {<<"endScan">>}
      [] OTHER              -> {<<r, "endScan", "release">> : r \in Reports}
                                 \cup {<<"endScan", "release">>, <<"release">>, <<"endScan">>}

OnWayOut == \A o \in Ops : pc[o] = "exit" => todo[o] \in WaysOut(o)

Owes(o, what) == pc[o] = "exit" /\ \E i \in DOMAIN todo[o] : todo[o][i] = what

(* The runs that have the scan lock, that have claimed the gate, and whose  *)
(* task is under way.                                                       *)
HasLock(o) ==
    \/ pc[o] \in {"locked"} \cup Working
    \/ pc[o] = "ready" /\ Kind[o] # "REPAIR"
    \/ Owes(o, "release")
HasGate(o) == pc[o] \notin {"idle", "exit"} \/ Owes(o, "endScan")
HasTask(o) ==
    \/ pc[o] \in Working
    \/ pc[o] = "claimed" /\ Kind[o] = "REPAIR"
    \/ Owes(o, "finish") \/ Owes(o, "fail")

LockOwned == \A o \in Ops : HasLock(o) <=> Holder(o)
GateClaimed == gate => \E o \in Ops : HasGate(o)
TaskRuns == task.running => \E o \in Ops : HasTask(o)

(* Until the first unlock the gate keeps the runs apart.                    *)
GateExcludes ==
    stops = 0 =>
        /\ \A o1, o2 \in Ops : HasGate(o1) /\ HasGate(o2) => o1 = o2
        /\ \A o \in Ops : HasGate(o) => gate
        /\ \A o \in Ops : HasTask(o) => task.running /\ task.type = TaskType(o)

FileInList == \A o \in Ops : pc[o] = "file" => left[o] # 0
IdleIsClean == \A o \in Ops : pc[o] = "idle" => stop[o] = "none" /\ after[o] = 0

(* A stop that came after the abort flag was set up finds the flag raised   *)
(* at every poll: who clears it has the lock, which the stopped run has.    *)
StopHolds ==
    \A o \in Ops : Abortable(o) /\ stop[o] = "late" =>
        /\ pc[o] \notin Starting
        /\ pc[o] # "exit" => abort
        /\ after[o] <= IF pc[o] = "file" THEN 0 ELSE 1

IInv ==
    /\ TypeOK /\ OnWayOut /\ LockOwned /\ GateClaimed /\ TaskRuns
    /\ GateExcludes /\ FileInList /\ IdleIsClean /\ StopHolds

-----------------------------------------------------------------------------

(* A list of one, two or three things to do, once its head is done.         *)
LEMMA Heads ==
    ASSUME NEW a, NEW b, NEW c
    PROVE  /\ Len(<<a>>) = 1 /\ Head(<<a>>) = a
           /\ Len(<<a, b>>) = 2 /\ Head(<<a, b>>) = a /\ Tail(<<a, b>>) = <<b>>
           /\ Len(<<a, b, c>>) = 3 /\ Head(<<a, b, c>>) = a
           /\ Tail(<<a, b, c>>) = <<b, c>>
  OBVIOUS

LEMMA Members ==
    ASSUME NEW a, NEW b, NEW c, NEW x
    PROVE  /\ (\E i \in DOMAIN <<a>> : <<a>>[i] = x) <=> x = a
           /\ (\E i \in DOMAIN <<a, b>> : <<a, b>>[i] = x) <=> x \in {a, b}
           /\ (\E i \in DOMAIN <<a, b, c>> : <<a, b, c>>[i] = x) <=> x \in {a, b, c}
  <1>1. DOMAIN <<a>> = {1} /\ DOMAIN <<a, b>> = {1, 2} /\ DOMAIN <<a, b, c>> = {1, 2, 3}
      OBVIOUS
  <1> QED
      BY <1>1

Chores == {"finish", "fail", "endScan", "release"}

(* A way out is of one, two or three different things, and what is left of  *)
(* it once the first is done is one as well.                                *)
LEMMA WayShape ==
    ASSUME NEW o \in Ops, NEW way \in WaysOut(o)
    PROVE  \/ \E a \in Chores : way = <<a>>
           \/ \E a, b \in Chores : a # b /\ way = <<a, b>> /\ <<b>> \in WaysOut(o)
           \/ \E a, b, c \in Chores :
                 a # b /\ a # c /\ way = <<a, b, c>> /\ <<b, c>> \in WaysOut(o)
  <1>1. CASE Kind[o] = "WATCH"
    <2>1. WaysOut(o) = {<<r, "release", "endScan">> : r \in Reports}
                         \cup {<<"release", "endScan">>, <<"endScan">>}
        BY <1>1 DEF WaysOut
    <2>2. \/ \E r \in Reports : way = <<r, "release", "endScan">>
          \/ way = <<"release", "endScan">> \/ way = <<"endScan">>
        BY <2>1
    <2> QED
        BY <2>1, <2>2 DEF Reports, Chores
  <1>2. CASE Kind[o] = "REPAIR"
    <2>1. WaysOut(o) = {<<"release", r, "endScan">> : r \in Reports}
                         \cup {<<r, "endScan">> : r \in Reports} \cup {<<"endScan">>}
        BY <1>2 DEF WaysOut
    <2>2. \/ \E r \in Reports : way = <<"release", r, "endScan">> \/ way = <<r, "endScan">>
          \/ way = <<"endScan">>
        BY <2>1
    <2> QED
        BY <2>1, <2>2 DEF Reports, Chores
  <1>3. CASE Kind[o] \notin {"WATCH", "REPAIR"}
    <2>1. WaysOut(o) = {<<r, "endScan", "release">> : r \in Reports}
                         \cup {<<"endScan", "release">>, <<"release">>, <<"endScan">>}
        BY <1>3 DEF WaysOut
    <2>2. \/ \E r \in Reports : way = <<r, "endScan", "release">>
          \/ way = <<"endScan", "release">> \/ way = <<"release">> \/ way = <<"endScan">>
        BY <2>1
    <2> QED
        BY <2>1, <2>2 DEF Reports, Chores
  <1> QED
      BY <1>1, <1>2, <1>3

(* A thing to do is done and not owed any more; the rest still is.          *)
LEMMA ExitStep ==
    ASSUME TypeOK, OnWayOut, NEW o \in Ops, NEW what, Exit(o, what)
    PROVE  /\ pc[o] = "exit" /\ Owes(o, what) /\ what \in Chores
           /\ pc'[o] \in {"idle", "exit"}
           /\ pc'[o] = "exit" => todo'[o] \in WaysOut(o)
           /\ todo'[o] \in Seq(Chores)
           /\ \A x : Owes(o, x)' <=> Owes(o, x) /\ x # what
  <1> DEFINE way == todo[o]
  <1>1. /\ pc[o] = "exit" /\ way \in WaysOut(o) /\ Head(way) = what
        /\ todo'[o] = Tail(way) /\ pc'[o] = IF Len(way) = 1 THEN "idle" ELSE "exit"
      BY DEF Exit, TypeOK, OnWayOut
  <1>2. CASE \E a \in Chores : way = <<a>>
    <2>1. PICK a \in Chores : way = <<a>>
        BY <1>2
    <2>2. what = a /\ pc'[o] = "idle" /\ Tail(way) = <<>>
        BY <1>1, <2>1, Heads
    <2>3. \A x : Owes(o, x) <=> x = a
        BY <1>1, <2>1, Members DEF Owes
    <2> QED
        BY <1>1, <2>1, <2>2, <2>3 DEF Owes
  <1>3. CASE \E a, b \in Chores : a # b /\ way = <<a, b>> /\ <<b>> \in WaysOut(o)
    <2>1. PICK a, b \in Chores : a # b /\ way = <<a, b>> /\ <<b>> \in WaysOut(o)
        BY <1>3
    <2>2. what = a /\ pc'[o] = "exit" /\ todo'[o] = <<b>>
        BY <1>1, <2>1, Heads
    <2>3. \A x : /\ Owes(o, x) <=> x \in {a, b}
                 /\ Owes(o, x)' <=> x = b
        BY <1>1, <2>1, <2>2, Members DEF Owes
    <2> QED
        BY <1>1, <2>1, <2>2, <2>3
  <1>4. CASE \E a, b, c \in Chores :
               a # b /\ a # c /\ way = <<a, b, c>> /\ <<b, c>> \in WaysOut(o)
    <2>1. PICK a, b, c \in Chores :
             a # b /\ a # c /\ way = <<a, b, c>> /\ <<b, c>> \in WaysOut(o)
        BY <1>4
    <2>2. what = a /\ pc'[o] = "exit" /\ todo'[o] = <<b, c>>
        BY <1>1, <2>1, Heads
    <2>3. \A x : /\ Owes(o, x) <=> x \in {a, b, c}
                 /\ Owes(o, x)' <=> x \in {b, c}
        BY <1>1, <2>1, <2>2, Members DEF Owes
    <2> QED
        BY <1>1, <2>1, <2>2, <2>3
  <1> QED
      BY <1>1, <1>2, <1>3, <1>4, WayShape

LEMMA WayIsSequence ==
    ASSUME NEW o \in Ops, NEW way \in WaysOut(o)
    PROVE  way \in Seq(Chores)
  <1>1. \A a, b, c \in Chores :
           <<a>> \in Seq(Chores) /\ <<a, b>> \in Seq(Chores) /\ <<a, b, c>> \in Seq(Chores)
      OBVIOUS
  <1>2. CASE \E a \in Chores : way = <<a>>
      BY <1>1, <1>2
  <1>3. CASE \E a, b \in Chores : a # b /\ way = <<a, b>> /\ <<b>> \in WaysOut(o)
      BY <1>1, <1>3
  <1>4. CASE \E a, b, c \in Chores :
               a # b /\ a # c /\ way = <<a, b, c>> /\ <<b, c>> \in WaysOut(o)
      BY <1>1, <1>4
  <1> QED
      BY <1>2, <1>3, <1>4, WayShape

(* What the return statements and defers of a run give is a way out.        *)
LEMMA ExitsAreWays ==
    ASSUME NEW o \in Ops, NEW report \in Reports
    PROVE  /\ Exits(o, report) \in WaysOut(o)
           /\ \A x : (\E i \in DOMAIN Exits(o, report) : Exits(o, report)[i] = x)
                      <=> x \in {report, "release", "endScan"}
  <1>1. CASE Kind[o] = "WATCH"
    <2>1. Exits(o, report) = <<report, "release", "endScan">>
        BY <1>1 DEF Exits
    <2>2. WaysOut(o) = {<<r, "release", "endScan">> : r \in Reports}
                         \cup {<<"release", "endScan">>, <<"endScan">>}
        BY <1>1 DEF WaysOut
    <2> QED
        BY <2>1, <2>2, Members
  <1>2. CASE Kind[o] = "REPAIR"
    <2>1. Exits(o, report) = <<"release", report, "endScan">>
        BY <1>2 DEF Exits
    <2>2. WaysOut(o) = {<<"release", r, "endScan">> : r \in Reports}
                         \cup {<<r, "endScan">> : r \in Reports} \cup {<<"endScan">>}
        BY <1>2 DEF WaysOut
    <2> QED
        BY <2>1, <2>2, Members
  <1>3. CASE Kind[o] \notin {"WATCH", "REPAIR"}
    <2>1. Exits(o, report) = <<report, "endScan", "release">>
        BY <1>3 DEF Exits
    <2>2. WaysOut(o) = {<<r, "endScan", "release">> : r \in Reports}
                         \cup {<<"endScan", "release">>, <<"release">>, <<"endScan">>}
        BY <1>3 DEF WaysOut
    <2> QED
        BY <2>1, <2>2, Members
  <1> QED
      BY <1>1, <1>2, <1>3

(* The other lists a run enters on its way out.                             *)
LEMMA ShortWays ==
    ASSUME NEW o \in Ops
    PROVE  /\ <<"endScan">> \in WaysOut(o)
           /\ Kind[o] = "REPAIR" => <<"fail", "endScan">> \in WaysOut(o)
           /\ Kind[o] = "WATCH" => <<"release", "endScan">> \in WaysOut(o)
  <1>1. CASE Kind[o] = "WATCH"
      BY <1>1 DEF WaysOut
  <1>2. CASE Kind[o] = "REPAIR"
    <2>1. WaysOut(o) = {<<"release", r, "endScan">> : r \in Reports}
                         \cup {<<r, "endScan">> : r \in Reports} \cup {<<"endScan">>}
        BY <1>2 DEF WaysOut
    <2> QED
        BY <1>2, <2>1 DEF Reports
  <1>3. CASE Kind[o] \notin {"WATCH", "REPAIR"}
      BY <1>3 DEF WaysOut
  <1> QED
      BY <1>1, <1>2, <1>3

(* A run that still has to report has the gate to give back as well.        *)
LEMMA ReportNeedsGate ==
    ASSUME OnWayOut, NEW o \in Ops, HasTask(o)
    PROVE  HasGate(o)
  <1>1. CASE pc[o] # "exit"
      BY <1>1 DEF HasTask, HasGate, Working, Owes
  <1>2. CASE pc[o] = "exit"
    <2>1. PICK report \in Reports : Owes(o, report)
        BY <1>2 DEF HasTask, Working, Reports
    <2>2. todo[o] \in WaysOut(o)
        BY <1>2 DEF OnWayOut
    <2>3. CASE Kind[o] = "WATCH"
      <3>1. \/ \E r \in Reports : todo[o] = <<r, "release", "endScan">>
            \/ todo[o] = <<"release", "endScan">> \/ todo[o] = <<"endScan">>
          BY <2>2, <2>3 DEF WaysOut
      <3> QED
          BY <1>2, <3>1, Members DEF HasGate, Owes
    <2>4. CASE Kind[o] = "REPAIR"
      <3>1. \/ \E r \in Reports :
                  todo[o] = <<"release", r, "endScan">> \/ todo[o] = <<r, "endScan">>
            \/ todo[o] = <<"endScan">>
          BY <2>2, <2>4 DEF WaysOut
      <3> QED
          BY <1>2, <3>1, Members DEF HasGate, Owes
    <2>5. CASE Kind[o] \notin {"WATCH", "REPAIR"}
      <3>1. \/ \E r \in Reports : todo[o] = <<r, "endScan", "release">>
            \/ todo[o] = <<"endScan", "release">> \/ todo[o] = <<"release">>
            \/ todo[o] = <<"endScan">>
          BY <2>2, <2>5 DEF WaysOut
      <3>2. todo[o] # <<"release">>
          BY <2>1, Members DEF Owes, Reports
      <3> QED
          BY <1>2, <3>1, <3>2, Members DEF HasGate, Owes
    <2> QED
        BY <2>3, <2>4, <2>5
  <1> QED
      BY <1>1, <1>2

(* A run reports once: with its report made it owes no other.               *)
LEMMA OneReport ==
    ASSUME NEW o \in Ops, pc[o] = "exit", todo[o] \in WaysOut(o),
           NEW r1 \in Reports, NEW r2 \in Reports, Owes(o, r1), Owes(o, r2)
    PROVE  r1 = r2
  <1>1. CASE Kind[o] = "WATCH"
    <2>1. \/ \E r \in Reports : todo[o] = <<r, "release", "endScan">>
          \/ todo[o] = <<"release", "endScan">> \/ todo[o] = <<"endScan">>
        BY <1>1 DEF WaysOut
    <2> QED
        BY <2>1, Members DEF Owes, Reports
  <1>2. CASE Kind[o] = "REPAIR"
    <2>1. \/ \E r \in Reports :
                todo[o] = <<"release", r, "endScan">> \/ todo[o] = <<r, "endScan">>
          \/ todo[o] = <<"endScan">>
        BY <1>2 DEF WaysOut
    <2> QED
        BY <2>1, Members DEF Owes, Reports
  <1>3. CASE Kind[o] \notin {"WATCH", "REPAIR"}
    <2>1. \/ \E r \in Reports : todo[o] = <<r, "endScan", "release">>
          \/ todo[o] = <<"endScan", "release">> \/ todo[o] = <<"release">>
          \/ todo[o] = <<"endScan">>
        BY <1>3 DEF WaysOut
    <2> QED
        BY <2>1, Members DEF Owes, Reports
  <1> QED
      BY <1>1, <1>2, <1>3

-----------------------------------------------------------------------------
(* What a step of one run has to do to keep the invariant.                  *)

(* The step leaves the others alone, gives nothing back for them ...        *)
OthersAlone(o) ==
    \A q \in Ops \ {o} :
        /\ pc'[q] = pc[q] /\ todo'[q] = todo[q] /\ left'[q] = left[q]
        /\ stop'[q] = stop[q] /\ after'[q] = after[q]
        /\ Holder(q)' <=> Holder(q)

(* ... and keeps the run's own account of what it has.                      *)
OwnAccount(o) ==
    /\ HasLock(o)' <=> Holder(o)'
    /\ gate' => HasGate(o)' \/ (gate /\ ~HasGate(o))
    /\ task'.running => HasTask(o)' \/ (task.running /\ ~HasTask(o))
    /\ abort' = abort \/ HasLock(o)

(* The same before the first unlock, when the gate is exclusive.            *)
OwnExclusion(o) ==
    stops = 0 =>
        /\ HasGate(o)' => gate' /\ (HasGate(o) \/ ~gate)
        /\ gate' \/ ~gate \/ HasGate(o)
        /\ HasTask(o)' => task'.running /\ task'.type = TaskType(o)
        /\ \/ task'.running = task.running /\ task'.type = task.type
           \/ HasGate(o)

OwnProgress(o) ==
    /\ pc'[o] = "file" => left'[o] # 0
    /\ pc'[o] = "idle" => stop'[o] = "none" /\ after'[o] = 0
    /\ Abortable(o) /\ stop'[o] = "late" =>
          /\ pc'[o] \notin Starting
          /\ pc'[o] # "exit" => abort'
          /\ after'[o] <= IF pc'[o] = "file" THEN 0 ELSE 1

LEMMA Combine ==
    ASSUME IInv, TypeOK', OnWayOut', NEW o \in Ops, stops' = stops,
           OthersAlone(o), OwnAccount(o), OwnExclusion(o), OwnProgress(o)
    PROVE  IInv'
  <1> USE DEF IInv
  <1>1. \A q \in Ops \ {o} :
           /\ pc'[q] = pc[q] /\ todo'[q] = todo[q]
           /\ HasLock(q)' <=> HasLock(q)
           /\ HasGate(q)' <=> HasGate(q)
           /\ HasTask(q)' <=> HasTask(q)
      BY DEF OthersAlone, HasLock, HasGate, HasTask, Owes
  <1>2. LockOwned'
      BY <1>1 DEF LockOwned, OthersAlone, OwnAccount
  <1>3. GateClaimed'
      BY <1>1 DEF GateClaimed, OwnAccount
  <1>4. TaskRuns'
      BY <1>1 DEF TaskRuns, OwnAccount
  <1>5. GateExcludes'
    <2> SUFFICES ASSUME stops = 0
                 PROVE  /\ \A o1, o2 \in Ops : HasGate(o1)' /\ HasGate(o2)' => o1 = o2
                        /\ \A q \in Ops : HasGate(q)' => gate'
                        /\ \A q \in Ops : HasTask(q)' => task'.running /\ task'.type = TaskType(q)
        BY DEF GateExcludes
    <2>1. \A q \in Ops : HasTask(q) => HasGate(q)
        BY ReportNeedsGate
    <2>2. \A q \in Ops \ {o} : HasGate(q) => gate /\ ~HasGate(o)
        BY DEF GateExcludes
    <2>3. \A q \in Ops \ {o} : HasGate(q)' => gate /\ ~HasGate(o) /\ ~HasGate(o)' /\ gate'
        BY <1>1, <2>2 DEF OwnExclusion
    <2>4. \A o1, o2 \in Ops : HasGate(o1)' /\ HasGate(o2)' => o1 = o2
        BY <1>1, <2>3 DEF GateExcludes
    <2>5. \A q \in Ops : HasGate(q)' => gate'
        BY <2>3 DEF OwnExclusion
    <2>6. \A q \in Ops \ {o} : HasTask(q)' => task'.running /\ task'.type = TaskType(q)
        BY <1>1, <2>1, <2>2 DEF OwnExclusion, GateExcludes
    <2> QED
        BY <2>4, <2>5, <2>6 DEF OwnExclusion
  <1>6. FileInList' /\ IdleIsClean'
      BY DEF FileInList, IdleIsClean, OthersAlone, OwnProgress
  <1>7. StopHolds'
    <2> SUFFICES ASSUME NEW q \in Ops, Abortable(q), stop'[q] = "late"
                 PROVE  /\ pc'[q] \notin Starting
                        /\ pc'[q] # "exit" => abort'
                        /\ after'[q] <= IF pc'[q] = "file" THEN 0 ELSE 1
        BY DEF StopHolds, Abortable
    <2>1. CASE q = o
        BY <2>1 DEF OwnProgress
    <2>2. CASE q # o
      <3>1. /\ pc'[q] = pc[q] /\ stop[q] = "late" /\ after'[q] = after[q]
            /\ pc[q] \notin Starting
            /\ after[q] <= IF pc[q] = "file" THEN 0 ELSE 1
            /\ pc[q] # "exit" => abort
          BY <2>2 DEF OthersAlone, StopHolds
      <3>2. ASSUME pc[q] # "exit" PROVE HasLock(q)
        <4>1. pc[q] \in {"ready"} \cup Working
            BY <3>1, <3>2 DEF TypeOK, Places, IdleIsClean
        <4> QED
            BY <4>1 DEF HasLock, Abortable
      <3>3. HasLock(o) => ~HasLock(q)
          BY <2>2 DEF LockOwned, Holder
      <3> QED
          BY <3>1, <3>2, <3>3 DEF OwnAccount
    <2> QED
        BY <2>1, <2>2
  <1> QED
      BY <1>2, <1>3, <1>4, <1>5, <1>6, <1>7

-----------------------------------------------------------------------------
(* The types, one step at a time.                                           *)

LEMMA TypeSteps ==
    ASSUME TypeOK, OnWayOut, FileInList, NEW o \in Ops, Claim(o) \/ RunSteps(o)
    PROVE  TypeOK'
  <1> USE DEF Goto, lockVars, history
  <1> DEFINE Owners == [{Server} -> ({Server} \X Ops) \cup {NoRun}]
             Tasks == [running : BOOLEAN, type : {"IDLE", "SCAN", "REPAIR", "CLEAR"},
                 stage : {"", "STARTING", "WORKING", "COMPLETED", "FAILED", "IDLE"}]
             Flags == /\ gate' \in BOOLEAN /\ abort' \in BOOLEAN /\ cooldown' \in BOOLEAN
                      /\ foreign' \in BOOLEAN /\ stops' = stops /\ resets' = resets
             Way == todo' \in [Ops -> Seq(Chores)]
             Rest == left' \in [Ops -> 0 .. Many] /\ gone' \in [Ops -> BOOLEAN]
             Past == /\ stop' \in [Ops -> {"none", "early", "late"}]
                     /\ after' \in [Ops -> 0 .. 2]
  <1>1. owner \in Owners
      BY DEF TypeOK, Lock!TypeOK, Lock!Runs
  <1>2. task \in Tasks
      BY DEF TypeOK
  <1>3. todo \in [Ops -> Seq(Chores)]
      BY DEF TypeOK, Chores
  <1>4. pc \in [Ops -> Places]
      BY DEF TypeOK
  <1>5. left \in [Ops -> 0 .. Many] /\ gone \in [Ops -> BOOLEAN]
      BY DEF TypeOK
  <1>6. stop \in [Ops -> {"none", "early", "late"}] /\ after \in [Ops -> 0 .. 2]
      BY DEF TypeOK
  <1>7. gate \in BOOLEAN /\ abort \in BOOLEAN /\ cooldown \in BOOLEAN /\ foreign \in BOOLEAN
      BY DEF TypeOK
  <1>8. TaskType(o) \in {"SCAN", "REPAIR", "CLEAR"}
      BY KindAssumption DEF TaskType, Kinds
  <1>9. /\ {"idle", "ready", "exit", "claimed", "locked", "open", "poll", "file"} \subseteq Places
        /\ Many \in Nat \ {0}
      BY BoundAssumption DEF Places, Starting, Working
  <1>10. owner' \in Owners /\ task' \in Tasks /\ pc' \in [Ops -> Places]
           /\ Flags /\ Way /\ Rest /\ Past => TypeOK'
      BY DEF TypeOK, Lock!TypeOK, Lock!Runs, Chores
  <1>11. CASE Claim(o) \/ Acquire(o) \/ ClearAbort(o) \/ StartTask(o)
    <2>1. Flags
        BY <1>11, <1>7 DEF Claim, Acquire, ClearAbort, StartTask
    <2>2. owner' \in Owners
        BY <1>11, <1>1 DEF Claim, Acquire, ClearAbort, StartTask, Lock!Grant, Lock!ProcOf
    <2>3. task' \in Tasks
      <3>1. \/ task' = task
            \/ task' = [running |-> TRUE, type |-> TaskType(o), stage |-> "STARTING"]
          BY <1>11 DEF Claim, Acquire, ClearAbort, StartTask
      <3>2. [running |-> TRUE, type |-> TaskType(o), stage |-> "STARTING"] \in Tasks
          BY <1>8
      <3> QED
          BY <1>2, <3>1, <3>2
    <2>4. PICK place \in {"ready", "claimed", "locked", "open"} : pc' = [pc EXCEPT ![o] = place]
        BY <1>11 DEF Claim, Acquire, ClearAbort, StartTask
    <2>5. pc' \in [Ops -> Places]
        BY <1>4, <1>9, <2>4
    <2>6. Way /\ Rest /\ Past
        BY <1>11, <1>3, <1>5, <1>6 DEF Claim, Acquire, ClearAbort, StartTask
    <2> QED
        BY <1>10, <2>1, <2>2, <2>3, <2>5, <2>6
  <1>12. CASE Denied(o) \/ NothingToScan(o)
    <2>1. PICK way \in WaysOut(o) :
             pc' = [pc EXCEPT ![o] = "exit"] /\ todo' = [todo EXCEPT ![o] = way]
        BY <1>12, ShortWays DEF Denied, NothingToScan, Leave
    <2>2. pc' \in [Ops -> Places] /\ Way
        BY <1>3, <1>4, <1>9, <2>1, WayIsSequence
    <2>3. UNCHANGED <<gate, abort, cooldown, owner, foreign, task, resets, left, gone,
                      stop, after, stops>>
        BY <1>12 DEF Denied, NothingToScan
    <2>4. owner' \in Owners /\ task' \in Tasks /\ Flags /\ Rest /\ Past
        BY <1>1, <1>2, <1>5, <1>6, <1>7, <2>3
    <2> QED
        BY <1>10, <2>2, <2>4
  <1>13. CASE OpenRun(o) \/ Poll(o)
    <2>1. /\ UNCHANGED <<gate, abort, cooldown, owner, foreign, resets, gone, stop, after, stops>>
          /\ task' = task \/ task' = [task EXCEPT !.stage = "WORKING"]
          /\ left' = left \/ \E n \in 0 .. Many : left' = [left EXCEPT ![o] = n]
        BY <1>13 DEF OpenRun, Poll
    <2>2. \/ /\ \E place \in {"poll", "file"} : pc' = [pc EXCEPT ![o] = place]
             /\ todo' = todo
          \/ /\ pc' = [pc EXCEPT ![o] = "exit"]
             /\ \E report \in Reports : todo' = [todo EXCEPT ![o] = Exits(o, report)]
        BY <1>13 DEF OpenRun, Poll, Reports, Leave
    <2>3. pc' \in [Ops -> Places]
        BY <1>4, <1>9, <2>2
    <2>4. \A report \in Reports : Exits(o, report) \in Seq(Chores)
        BY ExitsAreWays, WayIsSequence
    <2>5. Way
        BY <1>3, <2>2, <2>4
    <2>6. Rest
        BY <1>5, <2>1
    <2>7. owner' \in Owners /\ task' \in Tasks /\ Flags /\ Past
        BY ZenonT(40), <1>1, <1>2, <1>6, <1>7, <2>1
    <2> QED
        BY <1>10, <2>3, <2>5, <2>6, <2>7
  <1>14. CASE ProcessFile(o)
    <2>1. /\ UNCHANGED <<gate, abort, cooldown, owner, foreign, resets, todo, gone, stop, stops>>
          /\ task' = [task EXCEPT !.stage = "WORKING"] /\ pc' = [pc EXCEPT ![o] = "poll"]
          /\ \E n \in {left[o] - 1, left[o]} : left' = [left EXCEPT ![o] = n]
        BY <1>14 DEF ProcessFile
    <2>2. left[o] # 0 /\ left[o] \in 0 .. Many
        BY <1>5, <1>14 DEF ProcessFile, FileInList
    <2>3. {left[o] - 1, left[o]} \subseteq 0 .. Many
        BY <1>9, <2>2
    <2>4. Rest
        BY <1>5, <2>1, <2>3
    <2>5. PICK n : /\ after' = [after EXCEPT ![o] = n]
                   /\ n = after[o] \/ (after[o] < 2 /\ n = after[o] + 1)
        BY <1>14 DEF ProcessFile
    <2>6. after[o] \in 0 .. 2
        BY <1>6
    <2>7. Past
        BY <1>6, <2>1, <2>5, <2>6
    <2>8. owner' \in Owners /\ task' \in Tasks /\ pc' \in [Ops -> Places] /\ Flags /\ Way
        BY <1>1, <1>2, <1>3, <1>4, <1>7, <1>9, <2>1
    <2> QED
        BY <1>10, <2>4, <2>7, <2>8
  <1>15. CASE FinishTask(o) \/ FailTask(o) \/ EndScan(o) \/ Release(o)
    <2>1. PICK what : Exit(o, what)
        BY <1>15 DEF FinishTask, FailTask, EndScan, Release
    <2>2. Way
      <3>1. todo' = [todo EXCEPT ![o] = Tail(todo[o])]
          BY <2>1 DEF Exit
      <3>2. todo'[o] \in Seq(Chores)
          BY <2>1, ExitStep
      <3> QED
          BY <1>3, <3>1, <3>2
    <2>3. /\ \E place \in {"idle", "exit"} : pc' = [pc EXCEPT ![o] = place]
          /\ \E n \in {0, left[o]} : left' = [left EXCEPT ![o] = n]
          /\ \E n \in {"none", stop[o]} : stop' = [stop EXCEPT ![o] = n]
          /\ \E n \in {0, after[o]} : after' = [after EXCEPT ![o] = n]
      <3>1. pc[o] = "exit"
          BY <2>1 DEF Exit
      <3> QED
          BY <2>1, <3>1, <1>4 DEF Exit
    <2>4. gone' \in [Ops -> BOOLEAN]
        BY <1>5, <2>1 DEF Exit
    <2>5. pc' \in [Ops -> Places]
        BY <1>4, <1>9, <2>3
    <2>6. Rest
      <3>1. PICK n \in {0, left[o]} : left' = [left EXCEPT ![o] = n]
          BY <2>3
      <3>2. n \in 0 .. Many
          BY <1>5, <1>9, <3>1
      <3> QED
          BY <1>5, <2>4, <3>1, <3>2
    <2>7. Past
        BY <1>6, <2>3
    <2>8. UNCHANGED <<abort, cooldown, foreign, resets, stops>>
        BY <2>1 DEF Exit
    <2>9. Flags
        BY <1>7, <1>15, <2>8 DEF FinishTask, FailTask, EndScan, Release
    <2>10. task' \in Tasks
        BY <1>2, <1>15 DEF FinishTask, FailTask, EndScan, Release
    <2>11. owner' \in Owners
        BY <1>1, <1>15 DEF FinishTask, FailTask, EndScan, Release, Lock!Leave, Lock!ProcOf
    <2> QED
        BY <1>10, <2>2, <2>5, <2>6, <2>7, <2>9, <2>10, <2>11
  <1> QED
      BY <1>11, <1>12, <1>13, <1>14, <1>15 DEF RunSteps


-----------------------------------------------------------------------------
(* The steps of a run.                                                      *)

(* A run holds the lock exactly when its ownership says so; none but the    *)
(* owner may change it.                                                     *)
LEMMA OwnerAlone ==
    ASSUME TypeOK, NEW o \in Ops,
           \/ Lock!Grant(<<Server, o>>)
           \/ Lock!Leave(<<Server, o>>)
    PROVE  /\ Lock!Grant(<<Server, o>>) => Holder(o)' /\ ~Holder(o)
           /\ Lock!Leave(<<Server, o>>) => ~Holder(o)' /\ Holder(o)
           /\ \A q \in Ops \ {o} : Holder(q)' <=> Holder(q)
  <1>1. owner \in [{Server} -> ({Server} \X Ops) \cup {NoRun}]
      BY DEF TypeOK, Lock!TypeOK, Lock!Runs
  <1>2. \A q \in Ops : <<Server, q>> # NoRun
      BY NoRunAssumption
  <1> QED
      BY <1>1, <1>2 DEF Lock!Grant, Lock!Leave, Lock!ProcOf, Holder

(* A run that goes to a place where it is not on its way out.               *)
LEMMA GoingOn ==
    ASSUME TypeOK, OnWayOut, NEW o \in Ops, NEW place \in Places \ {"exit"},
           Goto(o, place), UNCHANGED todo
    PROVE  /\ OnWayOut' /\ pc'[o] = place /\ \A x : ~Owes(o, x)'
           /\ \A q \in Ops \ {o} : pc'[q] = pc[q] /\ todo'[q] = todo[q]
  BY DEF TypeOK, OnWayOut, Goto, Owes

(* A run that turns to its way out.                                         *)
LEMMA Leaving ==
    ASSUME TypeOK, OnWayOut, NEW o \in Ops, NEW way \in WaysOut(o), Leave(o, way)
    PROVE  /\ OnWayOut' /\ pc'[o] = "exit"
           /\ \A x : Owes(o, x)' <=> \E i \in DOMAIN way : way[i] = x
           /\ \A q \in Ops \ {o} : pc'[q] = pc[q] /\ todo'[q] = todo[q]
  <1>1. /\ pc' = [pc EXCEPT ![o] = "exit"] /\ todo' = [todo EXCEPT ![o] = way]
        /\ pc \in [Ops -> Places] /\ DOMAIN todo = Ops
      BY DEF Leave, Goto, TypeOK
  <1>2. pc'[o] = "exit" /\ todo'[o] = way
      BY <1>1
  <1>3. \A q \in Ops \ {o} : pc'[q] = pc[q] /\ todo'[q] = todo[q]
      BY <1>1
  <1>4. \A q \in Ops : WaysOut(q)' = WaysOut(q)
      BY DEF WaysOut, Reports
  <1> QED
      BY <1>2, <1>3, <1>4 DEF OnWayOut, Owes

LEMMA StartSteps ==
    ASSUME IInv, TypeOK', NEW o \in Ops,
           Claim(o) \/ Acquire(o) \/ ClearAbort(o) \/ StartTask(o)
    PROVE  IInv'
  <1> USE DEF IInv, lockVars, history
  <1>1. Kind[o] \in Kinds
      BY KindAssumption
  <1>2. PICK place \in {"ready", "claimed", "locked", "open"} : Goto(o, place)
      BY DEF Claim, Acquire, ClearAbort, StartTask
  <1>3. place \in Places \ {"exit"} /\ UNCHANGED <<todo, left, stop, after, stops>>
      BY DEF Places, Starting, Working, Claim, Acquire, ClearAbort, StartTask
  <1>4. /\ OnWayOut' /\ pc'[o] = place /\ \A x : ~Owes(o, x)'
        /\ \A q \in Ops \ {o} : pc'[q] = pc[q] /\ todo'[q] = todo[q]
      BY <1>2, <1>3, GoingOn
  <1>5. pc[o] \in {"idle", "claimed", "locked", "ready"} /\ \A x : ~Owes(o, x)
      BY DEF Claim, Acquire, ClearAbort, StartTask, Owes
  <1>6. HasGate(o)'
      BY <1>4 DEF HasGate
  <1>7. CASE Claim(o)
    <2>1. /\ pc[o] = "idle" /\ ~gate /\ gate' /\ UNCHANGED <<abort, owner, task>>
          /\ pc'[o] = IF Kind[o] = "REPAIR" THEN "ready" ELSE "claimed"
        BY <1>7 DEF Claim, Goto, TypeOK
    <2>2. ~HasLock(o) /\ ~HasLock(o)' /\ ~HasTask(o) /\ ~HasTask(o)'
        BY <1>4, <1>5, <2>1 DEF HasLock, HasTask, Working
    <2>3. OthersAlone(o)
        BY <1>3, <1>4, <2>1 DEF OthersAlone, Holder
    <2>4. OwnAccount(o)
        BY <1>6, <2>1, <2>2 DEF OwnAccount, LockOwned, Holder
    <2>5. OwnExclusion(o)
        BY <2>1, <2>2 DEF OwnExclusion
    <2>6. OwnProgress(o)
        BY <1>3, <2>1 DEF OwnProgress, IdleIsClean
    <2> QED
        BY <1>3, <1>4, <2>3, <2>4, <2>5, <2>6, Combine
  <1>8. CASE Acquire(o)
    <2>1. /\ pc[o] = "claimed" /\ Lock!Grant(<<Server, o>>) /\ UNCHANGED <<gate, abort, task>>
          /\ pc'[o] = CASE Abortable(o) -> "locked"
                         [] Kind[o] = "CLEAR" -> "ready"
                         [] OTHER -> "open"
        BY <1>8 DEF Acquire, Goto, TypeOK
    <2>2. HasLock(o)' /\ (HasTask(o)' => HasTask(o)) /\ (HasTask(o) => HasTask(o)')
        BY <1>1, <1>4, <1>5, <2>1 DEF HasLock, HasTask, Working, Abortable, Kinds
    <2>3. Holder(o)' /\ \A q \in Ops \ {o} : Holder(q)' <=> Holder(q)
        BY <2>1, OwnerAlone
    <2>4. HasGate(o)
        BY <2>1 DEF HasGate
    <2>5. OthersAlone(o)
        BY <1>3, <1>4, <2>3 DEF OthersAlone
    <2>6. OwnAccount(o)
        BY <1>6, <2>1, <2>2, <2>3 DEF OwnAccount, TaskRuns
    <2>7. OwnExclusion(o)
        BY <2>1, <2>2, <2>4 DEF OwnExclusion, GateExcludes
    <2>8. OwnProgress(o)
        BY <1>2, <1>3, <1>4, <2>1 DEF OwnProgress, StopHolds, Starting
    <2> QED
        BY <1>3, <1>4, <2>5, <2>6, <2>7, <2>8, Combine
  <1>9. CASE ClearAbort(o)
    <2>1. /\ pc[o] = "locked" /\ pc'[o] = "ready" /\ UNCHANGED <<gate, owner, task>>
          /\ Kind[o] # "REPAIR"
        BY <1>9 DEF ClearAbort, Goto, TypeOK, Abortable
    <2>2. HasLock(o) /\ HasLock(o)' /\ HasGate(o) /\ ~HasTask(o)' /\ ~HasTask(o)
        BY <1>4, <1>5, <2>1 DEF HasLock, HasTask, HasGate, Working
    <2>3. OthersAlone(o)
        BY <1>3, <1>4, <2>1 DEF OthersAlone, Holder
    <2>4. OwnAccount(o)
        BY <1>6, <2>1, <2>2 DEF OwnAccount, LockOwned, Holder
    <2>5. OwnExclusion(o)
        BY <2>1, <2>2 DEF OwnExclusion, GateExcludes
    <2>6. OwnProgress(o)
        BY <1>3, <1>4, <2>1 DEF OwnProgress, StopHolds, Starting
    <2> QED
        BY <1>3, <1>4, <2>3, <2>4, <2>5, <2>6, Combine
  <1>10. CASE StartTask(o)
    <2>1. /\ pc[o] = "ready" /\ pc'[o] = (IF Kind[o] = "REPAIR" THEN "claimed" ELSE "open")
          /\ UNCHANGED <<gate, abort, owner>> /\ task'.running /\ task'.type = TaskType(o)
        BY <1>10 DEF StartTask, Goto, TypeOK
    <2>2. HasGate(o) /\ HasTask(o)' /\ (HasLock(o)' <=> HasLock(o))
        BY <1>4, <1>5, <2>1 DEF HasLock, HasTask, HasGate, Working
    <2>3. OthersAlone(o)
        BY <1>3, <1>4, <2>1 DEF OthersAlone, Holder
    <2>4. OwnAccount(o)
        BY <1>6, <2>1, <2>2 DEF OwnAccount, LockOwned, Holder
    <2>5. OwnExclusion(o)
        BY <2>1, <2>2 DEF OwnExclusion, GateExcludes
    <2>6. OwnProgress(o)
        BY <1>3, <1>4, <2>1 DEF OwnProgress, StopHolds, Starting, Abortable
    <2> QED
        BY <1>3, <1>4, <2>3, <2>4, <2>5, <2>6, Combine
  <1> QED
      BY <1>7, <1>8, <1>9, <1>10

(* A run that leaves before its pipeline, or out of it, owes what it has.   *)
LEMMA LeavingSteps ==
    ASSUME IInv, TypeOK', NEW o \in Ops, NEW way \in WaysOut(o), Leave(o, way),
           UNCHANGED <<gate, abort, owner, task, left, stop, after, stops>>,
           pc[o] \in {"claimed", "locked"} \cup Working,
           \A x : (\E i \in DOMAIN way : way[i] = x) =>
                     x \in {"finish", "fail", "endScan", "release"},
           \E i \in DOMAIN way : way[i] = "endScan",
           HasLock(o) <=> \E i \in DOMAIN way : way[i] = "release",
           HasTask(o) <=> \E i \in DOMAIN way : way[i] \in Reports
    PROVE  IInv'
  <1> USE DEF IInv
  <1>1. /\ OnWayOut' /\ pc'[o] = "exit"
        /\ \A x : Owes(o, x)' <=> \E i \in DOMAIN way : way[i] = x
        /\ \A q \in Ops \ {o} : pc'[q] = pc[q] /\ todo'[q] = todo[q]
      BY Leaving
  <1>2. HasGate(o) /\ HasGate(o)'
      BY <1>1 DEF HasGate, Working
  <1>3. HasLock(o)' <=> HasLock(o)
      BY <1>1 DEF HasLock, Working
  <1>4. HasTask(o)' <=> HasTask(o)
      BY <1>1 DEF HasTask, Working, Reports
  <1>5. OthersAlone(o)
      BY <1>1 DEF OthersAlone, Holder
  <1>6. OwnAccount(o)
      BY <1>2, <1>3, <1>4 DEF OwnAccount, LockOwned, Holder
  <1>7. OwnExclusion(o)
      BY <1>2, <1>4 DEF OwnExclusion, GateExcludes
  <1>8. OwnProgress(o)
    <2>1. Abortable(o) /\ stop[o] = "late" =>
             after[o] \in 0 .. 2 /\ after[o] <= IF pc[o] = "file" THEN 0 ELSE 1
        BY DEF StopHolds, TypeOK
    <2>2. Abortable(o) /\ stop[o] = "late" => after[o] <= 1
        BY <2>1
    <2> QED
        BY <1>1, <2>2 DEF OwnProgress, Starting
  <1> QED
      BY <1>1, <1>5, <1>6, <1>7, <1>8, Combine

(* A run that goes on in its pipeline keeps what it has.                    *)
LEMMA WorkingSteps ==
    ASSUME IInv, TypeOK', NEW o \in Ops, NEW place \in Working, Goto(o, place),
           pc[o] \in Working, UNCHANGED <<gate, abort, owner, todo, stop, stops>>,
           task'.running = task.running, task'.type = task.type,
           \A q \in Ops \ {o} : left'[q] = left[q] /\ after'[q] = after[q],
           OwnProgress(o)
    PROVE  IInv'
  <1> USE DEF IInv
  <1>1. place \in Places \ {"exit"}
      BY DEF Places, Working
  <1>2. /\ OnWayOut' /\ pc'[o] = place
        /\ \A q \in Ops \ {o} : pc'[q] = pc[q] /\ todo'[q] = todo[q]
      BY <1>1, GoingOn
  <1>3. /\ HasGate(o) /\ HasGate(o)' /\ HasLock(o) /\ HasLock(o)'
        /\ HasTask(o) /\ HasTask(o)'
      BY <1>2 DEF HasGate, HasLock, HasTask, Working
  <1>4. OthersAlone(o)
      BY <1>2 DEF OthersAlone, Holder
  <1>5. OwnAccount(o)
      BY <1>3 DEF OwnAccount, LockOwned, Holder
  <1>6. OwnExclusion(o)
      BY <1>3 DEF OwnExclusion, GateExcludes
  <1> QED
      BY <1>2, <1>4, <1>5, <1>6, Combine

LEMMA PipelineSteps ==
    ASSUME IInv, TypeOK', NEW o \in Ops,
           Denied(o) \/ NothingToScan(o) \/ OpenRun(o) \/ Poll(o) \/ ProcessFile(o)
    PROVE  IInv'
  <1> USE DEF IInv, lockVars, history
  <1>1. Kind[o] \in Kinds
      BY KindAssumption
  <1>2. CASE Denied(o)
    <2>1. PICK way \in {<<"endScan">>, <<"fail", "endScan">>} :
             /\ Leave(o, way)
             /\ way = IF Kind[o] = "REPAIR" THEN <<"fail", "endScan">> ELSE <<"endScan">>
        BY <1>2 DEF Denied
    <2>2. way \in WaysOut(o)
        BY <2>1, ShortWays
    <2>3. \A x : (\E i \in DOMAIN way : way[i] = x) <=>
               x = "endScan" \/ (x = "fail" /\ Kind[o] = "REPAIR")
        BY <2>1, Members
    <2>4. /\ pc[o] = "claimed"
          /\ UNCHANGED <<gate, abort, owner, task, left, stop, after, stops>>
        BY <1>2 DEF Denied
    <2>5. ~HasLock(o) /\ (HasTask(o) <=> Kind[o] = "REPAIR")
        BY <2>4 DEF HasLock, HasTask, Owes, Working
    <2>6. HasTask(o) <=> \E i \in DOMAIN way : way[i] \in Reports
        BY <2>3, <2>5 DEF Reports
    <2> QED
        BY <2>1, <2>2, <2>3, <2>4, <2>5, <2>6, LeavingSteps
  <1>3. CASE NothingToScan(o)
    <2> DEFINE way == <<"release", "endScan">>
    <2>1. /\ Leave(o, way) /\ way \in WaysOut(o) /\ pc[o] = "locked" /\ Kind[o] = "WATCH"
          /\ UNCHANGED <<gate, abort, owner, task, left, stop, after, stops>>
        BY <1>3, ShortWays DEF NothingToScan
    <2>2. \A x : (\E i \in DOMAIN way : way[i] = x) <=> x \in {"release", "endScan"}
        BY Members
    <2>3. HasLock(o) /\ ~HasTask(o)
        BY <2>1 DEF HasLock, HasTask, Owes, Working
    <2>4. ~\E i \in DOMAIN way : way[i] \in Reports
        BY <2>2 DEF Reports
    <2> HIDE DEF way
    <2> QED
        BY <2>1, <2>2, <2>3, <2>4, LeavingSteps
  <1>4. ASSUME NEW report \in Reports, Leave(o, Exits(o, report)), pc[o] \in Working,
               UNCHANGED <<gate, abort, owner, task, left, stop, after, stops>>
        PROVE  IInv'
    <2> DEFINE way == Exits(o, report)
    <2>1. /\ way \in WaysOut(o)
          /\ \A x : (\E i \in DOMAIN way : way[i] = x) <=> x \in {report, "release", "endScan"}
        BY ExitsAreWays
    <2>2. HasLock(o) /\ HasTask(o)
        BY <1>4 DEF HasLock, HasTask
    <2>3. \E i \in DOMAIN way : way[i] \in Reports
        BY <2>1
    <2>4. Leave(o, way)
        BY <1>4
    <2>5. \A x : (\E i \in DOMAIN way : way[i] = x) =>
                    x \in {"finish", "fail", "endScan", "release"}
        BY <2>1 DEF Reports
    <2> HIDE DEF way
    <2> QED
        BY <1>4, <2>1, <2>2, <2>3, <2>4, <2>5, LeavingSteps
  <1>5. CASE OpenRun(o)
    <2>1. /\ pc[o] = "open" /\ pc[o] \in Working
          /\ UNCHANGED <<gate, abort, owner, stop, after, stops>>
        BY <1>5 DEF OpenRun, Working
    <2>2. CASE Leave(o, Exits(o, "fail")) /\ UNCHANGED <<left, task>>
        BY <1>4, <2>1, <2>2 DEF Reports
    <2>3. CASE /\ \E n \in 0 .. Many : left' = [left EXCEPT ![o] = n]
               /\ task' = [task EXCEPT !.stage = "WORKING"]
               /\ Goto(o, "poll") /\ UNCHANGED todo
      <3>1. \A q \in Ops \ {o} : left'[q] = left[q] /\ after'[q] = after[q]
          BY <2>1, <2>3 DEF TypeOK
      <3>2. task'.running = task.running /\ task'.type = task.type
          BY <2>3 DEF TypeOK
      <3>3. pc'[o] = "poll" /\ "poll" \in Working
          BY <2>3 DEF TypeOK, Goto, Working
      <3>4. OwnProgress(o)
          BY <2>1, <3>3 DEF OwnProgress, StopHolds, Starting
      <3> QED
          BY <2>1, <2>3, <3>1, <3>2, <3>3, <3>4, WorkingSteps
    <2> QED
        BY <1>5, <2>2, <2>3 DEF OpenRun
  <1>6. CASE Poll(o)
    <2>1. /\ pc[o] = "poll" /\ pc[o] \in Working
          /\ UNCHANGED <<gate, abort, owner, task, left, stop, after, stops>>
        BY <1>6 DEF Poll, Working
    <2>2. CASE \E report \in Reports : Leave(o, Exits(o, report))
        BY <1>4, <2>1, <2>2
    <2>3. CASE left[o] # 0 /\ ~Aborting(o) /\ Goto(o, "file") /\ UNCHANGED todo
      <3>1. pc'[o] = "file" /\ "file" \in Working
          BY <2>3 DEF TypeOK, Goto, Working
      <3>2. ~(Abortable(o) /\ stop'[o] = "late")
          BY <2>1, <2>3 DEF Aborting, StopHolds
      <3>3. OwnProgress(o)
          BY <2>1, <2>3, <3>1, <3>2 DEF OwnProgress
      <3> QED
          BY <2>1, <2>3, <3>1, <3>3, WorkingSteps
    <2> QED
        BY <1>6, <2>2, <2>3 DEF Poll, Reports
  <1>7. CASE ProcessFile(o)
    <2>1. /\ pc[o] = "file" /\ pc[o] \in Working /\ Goto(o, "poll")
          /\ UNCHANGED <<gate, abort, owner, todo, stop, stops>>
          /\ task' = [task EXCEPT !.stage = "WORKING"]
        BY <1>7 DEF ProcessFile, Working
    <2>2. \A q \in Ops \ {o} : left'[q] = left[q] /\ after'[q] = after[q]
        BY <1>7 DEF ProcessFile, TypeOK
    <2>3. task'.running = task.running /\ task'.type = task.type
        BY <2>1 DEF TypeOK
    <2>4. pc'[o] = "poll" /\ "poll" \in Working
        BY <2>1 DEF TypeOK, Goto, Working
    <2>5. Abortable(o) /\ stop[o] = "late" => abort /\ after'[o] <= 1
      <3>1. SUFFICES ASSUME Abortable(o), stop[o] = "late"
                     PROVE  abort /\ after'[o] <= 1
          OBVIOUS
      <3>2. abort /\ after[o] <= 0 /\ after[o] \in 0 .. 2
          BY <2>1, <3>1 DEF StopHolds, TypeOK
      <3>3. after'[o] = after[o] \/ after'[o] = after[o] + 1
          BY <1>7 DEF ProcessFile, TypeOK
      <3> QED
          BY <3>2, <3>3
    <2>6. OwnProgress(o)
        BY <2>1, <2>4, <2>5 DEF OwnProgress, Starting
    <2> QED
        BY <2>1, <2>2, <2>3, <2>4, <2>6, WorkingSteps
  <1> QED
      BY <1>2, <1>3, <1>5, <1>6, <1>7

(* Each thing a run does on its way out gives back what it stands for.      *)
LEMMA ExitSteps ==
    ASSUME IInv, TypeOK', NEW o \in Ops,
           FinishTask(o) \/ FailTask(o) \/ EndScan(o) \/ Release(o)
    PROVE  IInv'
  <1> USE DEF IInv
  <1>1. PICK what : Exit(o, what)
      BY DEF FinishTask, FailTask, EndScan, Release
  <1>2. /\ pc[o] = "exit" /\ Owes(o, what) /\ what \in Chores
        /\ pc'[o] \in {"idle", "exit"}
        /\ pc'[o] = "exit" => todo'[o] \in WaysOut(o)
        /\ todo'[o] \in Seq(Chores)
        /\ \A x : Owes(o, x)' <=> Owes(o, x) /\ x # what
      BY <1>1, ExitStep
  <1>3. /\ \A q \in Ops \ {o} :
              /\ pc'[q] = pc[q] /\ todo'[q] = todo[q] /\ left'[q] = left[q]
              /\ stop'[q] = stop[q] /\ after'[q] = after[q]
        /\ pc'[o] = "idle" => stop'[o] = "none" /\ after'[o] = 0
        /\ pc'[o] # "idle" => stop'[o] = stop[o] /\ after'[o] = after[o]
        /\ UNCHANGED <<abort, stops>>
      BY ZenonT(40), <1>1, <1>2 DEF Exit, TypeOK
  <1>4. OnWayOut'
    <2>1. \A q \in Ops : WaysOut(q)' = WaysOut(q)
        BY DEF WaysOut, Reports
    <2> QED
        BY <1>2, <1>3, <2>1 DEF OnWayOut
  <1>5. OwnProgress(o)
      BY <1>2, <1>3 DEF OwnProgress, StopHolds, Starting
  <1>6. /\ HasLock(o) <=> Owes(o, "release")
        /\ HasLock(o)' <=> Owes(o, "release")'
        /\ HasGate(o) <=> Owes(o, "endScan")
        /\ HasTask(o) <=> Owes(o, "finish") \/ Owes(o, "fail")
        /\ HasTask(o)' <=> Owes(o, "finish")' \/ Owes(o, "fail")'
      BY <1>2 DEF HasLock, HasGate, HasTask, Working
  <1>7. HasGate(o)' <=> Owes(o, "endScan")'
      BY <1>2 DEF HasGate, Owes
  <1>8. CASE FinishTask(o) \/ FailTask(o)
    <2>1. /\ UNCHANGED <<gate, owner>> /\ ~task'.running /\ what \in Reports
        BY <1>1, <1>8 DEF FinishTask, FailTask, Exit, TypeOK, Reports
    <2>2. OthersAlone(o)
        BY <1>3, <2>1 DEF OthersAlone, Holder
    <2>3. OwnAccount(o)
        BY <1>2, <1>3, <1>6, <1>7, <2>1 DEF OwnAccount, LockOwned, Holder, Reports
    <2>4. HasTask(o)
        BY <1>2, <1>6, <2>1 DEF Reports
    <2>5. HasGate(o)
        BY <2>4, ReportNeedsGate
    <2>6. ~HasTask(o)'
      <3>1. OnWayOut /\ todo[o] \in WaysOut(o)
          BY <1>2 DEF OnWayOut
      <3>2. \A r \in Reports : Owes(o, r) => r = what
          BY <1>2, <2>1, <3>1, OneReport
      <3> QED
          BY <1>2, <1>6, <3>2 DEF Reports
    <2>7. OwnExclusion(o)
        BY <1>2, <1>6, <1>7, <2>1, <2>5, <2>6 DEF OwnExclusion, GateExcludes
    <2> QED
        BY <1>3, <1>4, <1>5, <2>2, <2>3, <2>7, Combine
  <1>9. CASE EndScan(o)
    <2>1. ~gate' /\ UNCHANGED <<task, owner>> /\ what = "endScan"
        BY <1>1, <1>9 DEF EndScan, Exit
    <2>2. OthersAlone(o)
        BY <1>3, <2>1 DEF OthersAlone, Holder
    <2>3. HasTask(o)' <=> HasTask(o)
        BY <1>2, <1>6, <2>1
    <2>4. OwnAccount(o)
        BY <1>2, <1>3, <1>6, <2>1, <2>3 DEF OwnAccount, LockOwned, Holder
    <2>5. OwnExclusion(o)
        BY <1>2, <1>6, <1>7, <2>1, <2>3 DEF OwnExclusion, GateExcludes
    <2> QED
        BY <1>3, <1>4, <1>5, <2>2, <2>4, <2>5, Combine
  <1>10. CASE Release(o)
    <2>1. UNCHANGED <<gate, task>> /\ Lock!Leave(<<Server, o>>) /\ what = "release"
        BY <1>1, <1>10 DEF Release, Exit
    <2>2. ~Holder(o)' /\ \A q \in Ops \ {o} : Holder(q)' <=> Holder(q)
        BY <2>1, OwnerAlone
    <2>3. OthersAlone(o)
        BY <1>3, <2>2 DEF OthersAlone
    <2>4. (HasTask(o)' <=> HasTask(o)) /\ (HasGate(o)' <=> HasGate(o)) /\ ~HasLock(o)'
        BY <1>2, <1>6, <1>7, <2>1
    <2>5. OwnAccount(o)
        BY <1>3, <2>1, <2>2, <2>4 DEF OwnAccount
    <2>6. OwnExclusion(o)
        BY <2>1, <2>4 DEF OwnExclusion, GateExcludes
    <2> QED
        BY <1>3, <1>4, <1>5, <2>3, <2>5, <2>6, Combine
  <1> QED
      BY <1>8, <1>9, <1>10

-----------------------------------------------------------------------------
(* Everything else.                                                         *)

LEMMA InitInv == Init => IInv
  <1> SUFFICES ASSUME Init PROVE IInv
      OBVIOUS
  <1>1. TypeOK
    <2>1. <<>> \in Seq(Chores) /\ "idle" \in Places /\ 0 \in 0 .. Many /\ 0 \in 0 .. MaxStops
        BY BoundAssumption DEF Places
    <2>2. owner \in [{Server} -> ({Server} \X Ops) \cup {NoRun}]
        BY DEF Init, Lock!Init
    <2>3. todo \in [Ops -> Seq(Chores)] /\ pc \in [Ops -> Places] /\ left \in [Ops -> 0 .. Many]
        BY <2>1 DEF Init
    <2>4. /\ stop \in [Ops -> {"none", "early", "late"}] /\ after \in [Ops -> 0 .. 2]
          /\ gone \in [Ops -> BOOLEAN]
      <3>1. /\ stop = [o \in Ops |-> "none"] /\ after = [o \in Ops |-> 0]
            /\ gone = [o \in Ops |-> FALSE]
          BY DEF Init
      <3>2. 0 \in 0 .. 2
          OBVIOUS
      <3> QED
          BY <3>1, <3>2
    <2>6. stops \in 0 .. MaxStops /\ resets \in 0 .. stops
      <3>1. stops = 0 /\ resets = 0
          BY DEF Init
      <3> QED
          BY <2>1, <3>1
    <2>5. task \in [running : BOOLEAN, type : {"IDLE", "SCAN", "REPAIR", "CLEAR"},
                     stage : {"", "STARTING", "WORKING", "COMPLETED", "FAILED", "IDLE"}]
        BY DEF Init
    <2> QED
        BY <2>2, <2>3, <2>4, <2>5, <2>6 DEF Init, TypeOK, Lock!TypeOK, Lock!Runs, Chores
  <1>2. \A o \in Ops : ~HasLock(o) /\ ~HasGate(o) /\ ~HasTask(o)
      BY DEF Init, HasLock, HasGate, HasTask, Owes, Working
  <1>3. \A o \in Ops : ~Holder(o)
    <2>1. owner[Server] = NoRun
        BY DEF Init, Lock!Init
    <2> QED
        BY <2>1, NoRunAssumption DEF Holder
  <1> QED
      BY <1>1, <1>2, <1>3
      DEF Init, IInv, OnWayOut, LockOwned, GateClaimed, TaskRuns, GateExcludes,
          FileInList, IdleIsClean, StopHolds

(* A step that moves no run takes nothing from one and gives it nothing.    *)
LEMMA Unmoved ==
    ASSUME NEW o \in Ops, UNCHANGED <<pc, todo>>
    PROVE  /\ WaysOut(o)' = WaysOut(o)
           /\ HasLock(o)' <=> HasLock(o)
           /\ HasGate(o)' <=> HasGate(o)
           /\ HasTask(o)' <=> HasTask(o)
  <1>1. WaysOut(o)' = WaysOut(o)
      BY DEF WaysOut, Reports
  <1> QED
      BY <1>1 DEF HasLock, HasGate, HasTask, Owes

(* A stop raises the flag, gives the gate away and counts from here.        *)
LEMMA UnlockStep ==
    ASSUME IInv, Unlock
    PROVE  IInv'
  <1> USE DEF IInv, lockVars, runVars
  <1>1. /\ stops < MaxStops /\ stops' = stops + 1 /\ resets' = resets + 1
        /\ abort' /\ ~gate' /\ UNCHANGED <<owner, foreign, task, pc, left, todo, gone>>
        /\ cooldown' = TRUE /\ abort' = TRUE /\ gate' = FALSE
        /\ stop' = [o \in Ops |-> IF pc[o] = "idle" THEN "none"
                                   ELSE IF pc[o] \in Starting THEN "early" ELSE "late"]
        /\ after' = [o \in Ops |-> 0]
      BY DEF Unlock
  <1>2. stops \in 0 .. MaxStops /\ resets \in 0 .. stops
      BY DEF TypeOK
  <1>3. stops' \in 0 .. MaxStops /\ resets' \in 0 .. stops' /\ stops' # 0
      BY <1>1, <1>2, BoundAssumption
  <1>4. TypeOK'
    <2>1. /\ stop' \in [Ops -> {"none", "early", "late"}]
          /\ after' \in [Ops -> 0 .. 2]
        BY <1>1
    <2> QED
        BY <1>1, <1>3, <2>1 DEF TypeOK, Lock!TypeOK
  <1>5. OnWayOut' /\ LockOwned' /\ TaskRuns' /\ FileInList'
      BY <1>1, Unmoved DEF OnWayOut, LockOwned, TaskRuns, FileInList, Holder
  <1>6. GateClaimed' /\ GateExcludes' /\ IdleIsClean' /\ StopHolds'
      BY <1>1, <1>3 DEF GateClaimed, GateExcludes, IdleIsClean, StopHolds, Abortable
  <1> QED
      BY <1>4, <1>5, <1>6

(* The task state is reset only after an unlock.                            *)
LEMMA ResetStep ==
    ASSUME IInv, ResetTaskState
    PROVE  IInv'
  <1> USE DEF IInv, lockVars, runVars, history
  <1>1. /\ resets > 0 /\ resets' = resets - 1
        /\ task' = [running |-> FALSE, type |-> "IDLE", stage |-> "IDLE"]
        /\ UNCHANGED <<gate, abort, cooldown, owner, foreign, pc, left, todo, gone,
                       stop, after, stops>>
      BY DEF ResetTaskState
  <1>2. stops \in 0 .. MaxStops /\ resets \in 0 .. stops
      BY DEF TypeOK
  <1>3. resets' \in 0 .. stops /\ stops # 0
      BY <1>1, <1>2, BoundAssumption
  <1>4. TypeOK'
      BY <1>1, <1>3 DEF TypeOK, Lock!TypeOK
  <1>5. OnWayOut' /\ LockOwned' /\ GateClaimed' /\ FileInList' /\ IdleIsClean' /\ StopHolds'
      BY <1>1, Unmoved
      DEF OnWayOut, LockOwned, GateClaimed, FileInList, IdleIsClean, StopHolds, Holder
  <1>6. TaskRuns' /\ GateExcludes'
      BY <1>1, <1>3 DEF TaskRuns, GateExcludes
  <1> QED
      BY <1>4, <1>5, <1>6

(* What nobody has to give back.                                            *)
LEMMA OtherSteps ==
    ASSUME IInv,
           \/ CooldownEnds \/ ForeignRun \/ UNCHANGED vars
           \/ \E o \in Ops : ContextDone(o)
    PROVE  IInv'
  <1> USE DEF IInv, lockVars, runVars, history
  <1>1. UNCHANGED <<gate, abort, owner, task, pc, left, todo, stop, after, stops, resets>>
      BY DEF CooldownEnds, ForeignRun, ContextDone, vars
  <1>2. cooldown' \in BOOLEAN /\ foreign' \in BOOLEAN /\ gone' \in [Ops -> BOOLEAN]
      BY DEF CooldownEnds, ForeignRun, ContextDone, vars, TypeOK
  <1>3. TypeOK'
      BY <1>1, <1>2 DEF TypeOK, Lock!TypeOK
  <1> QED
      BY <1>1, <1>3, Unmoved
      DEF OnWayOut, LockOwned, GateClaimed, TaskRuns, GateExcludes, FileInList,
          IdleIsClean, StopHolds, Holder

LEMMA StepInv == IInv /\ [Next]_vars => IInv'
  <1> SUFFICES ASSUME IInv, [Next]_vars PROVE IInv'
      OBVIOUS
  <1>1. ASSUME NEW o \in Ops, Claim(o) \/ RunSteps(o)
        PROVE  IInv'
    <2>1. TypeOK'
        BY <1>1, TypeSteps DEF IInv
    <2> QED
        BY <1>1, <2>1, StartSteps, PipelineSteps, ExitSteps DEF RunSteps
  <1>2. CASE \/ CooldownEnds \/ ForeignRun \/ UNCHANGED vars
             \/ \E o \in Ops : ContextDone(o)
      BY <1>2, OtherSteps
  <1> QED
      BY <1>1, <1>2, UnlockStep, ResetStep DEF Next

-----------------------------------------------------------------------------

(* The inductive invariant, from which the following theorems take theirs.  *)
THEOREM ControlInvariant == Spec => []IInv
  BY InitInv, StepInv, PTL DEF Spec

(* The variables keep their types, and a list never gets longer.            *)
THEOREM ControlTypes == Spec => []TypeOK
  <1>1. IInv => TypeOK
      BY DEF IInv
  <1> QED
      BY <1>1, ControlInvariant, PTL

(* However many runs begin, and whatever an unlock does to the gate, no two *)
(* pipelines of the server run at a time (scanlock.go:27-36): each has the  *)
(* lock, which has one owner.                                               *)
THEOREM OnePipelineTheorem == Spec => []OnePipeline
  <1>1. IInv => OnePipeline
      BY DEF IInv, OnePipeline, LockOwned, HasLock, Holder
  <1> QED
      BY <1>1, ControlInvariant, PTL

(* No path out of a handler or tick leaves the gate, the lock or the task   *)
(* behind (documents_write_scan.go:164-165, :311-313): whatever is held is  *)
(* owed by a run that has not returned.                                     *)
THEOREM NothingLeaksTheorem == Spec => []NothingLeaks
  <1>1. IInv => NothingLeaks
    <2> SUFFICES ASSUME IInv, \A o \in Ops : pc[o] = "idle"
                 PROVE  ~gate /\ owner[Server] = NoRun /\ ~task.running
        BY DEF NothingLeaks
    <2>1. \A o \in Ops : ~HasLock(o) /\ ~HasGate(o) /\ ~HasTask(o)
        BY DEF HasLock, HasGate, HasTask, Owes, Working
    <2>2. ~gate /\ ~task.running
        BY <2>1 DEF IInv, GateClaimed, TaskRuns
    <2>3. owner[Server] \in ({Server} \X Ops) \cup {NoRun}
        BY DEF IInv, TypeOK, Lock!TypeOK, Lock!Runs
    <2>4. \A o \in Ops : owner[Server] # <<Server, o>>
        BY <2>1 DEF IInv, LockOwned, Holder
    <2> QED
        BY <2>2, <2>3, <2>4
  <1> QED
      BY <1>1, ControlInvariant, PTL

(* Until the first unlock the task state describes the run that is in its   *)
(* pipeline, which has the gate and the lock.                               *)
THEOREM TaskDescribesTheorem == Spec => []TaskDescribesRun
  <1>1. IInv => TaskDescribesRun
    <2> SUFFICES ASSUME IInv, NEW o \in Ops, stops = 0, pc[o] \in Working
                 PROVE  gate /\ task.running /\ task.type = TaskType(o) /\ Holder(o)
        BY DEF TaskDescribesRun
    <2>1. HasLock(o) /\ HasGate(o) /\ HasTask(o)
        BY DEF HasLock, HasGate, HasTask, Working
    <2> QED
        BY <2>1 DEF IInv, LockOwned, GateExcludes
  <1> QED
      BY <1>1, ControlInvariant, PTL

(* A scan that has set up its abort flag starts at most one more file after *)
(* an unlock (triage.go:42), however many runs come after it.               *)
THEOREM StopsTheorem == Spec => []StopsAtFileBoundary
  <1>1. IInv => StopsAtFileBoundary
    <2> SUFFICES ASSUME IInv, NEW o \in Ops, Abortable(o), stop[o] = "late"
                 PROVE  after[o] <= 1
        BY DEF StopsAtFileBoundary
    <2>1. after[o] \in 0 .. 2 /\ after[o] <= IF pc[o] = "file" THEN 0 ELSE 1
        BY DEF IInv, TypeOK, StopHolds
    <2> QED
        BY <2>1
  <1> QED
      BY <1>1, ControlInvariant, PTL
=============================================================================

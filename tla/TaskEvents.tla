----------------------------- MODULE TaskEvents -----------------------------
(***************************************************************************)
(* The task state and its stream of events (app/taskstate, httpapi/sse.go,  *)
(* GET /api/triage/events).  A Manager changes its state and takes a        *)
(* snapshot under its mutex and broadcasts the snapshot after giving the    *)
(* mutex back; Broadcast copies the list of clients under the hub's mutex   *)
(* and then offers the frame to each buffer without waiting.                *)
(***************************************************************************)
EXTENDS Integers, Sequences, FiniteSets

CONSTANTS
  Runners,       \* goroutines that run a pipeline and report its progress
  Unlockers,     \* goroutines of POST /api/triage/unlock
  Clients,       \* browsers on the event stream
  FrameBuffer,   \* hubClientBuffer, 64 in the code
  TotalFiles,    \* files of a run
  MaxChanges, MaxJoins \* bounds

\* Without files the code computes no percentage, and no frame carries one.
ASSUME EventAssumption == TotalFiles \in Nat \ {0} /\ {FrameBuffer, MaxChanges} \subseteq Nat

VARIABLES
  task,      \* Manager.state, with the number of the change that made it
  emitter,   \* per goroutine: where it is, its snapshot, whom it still owes it
  running,   \* runners between StartTask and their FinishTask or FailTask
  hub,       \* the clients that are subscribed
  buffer,    \* client -> its channel
  got,       \* client -> the last frame it wrote to its response
  since,     \* history: client -> number of changes when it subscribed
  missed,    \* history: clients a frame was dropped for
  crossed,   \* history: a change was made while an earlier one was being sent
  joins

eventVars == <<task, emitter, running, hub, buffer, got, since, missed, crossed, joins>>

Emitters == Runners \cup Unlockers
NoFrame == [live |-> FALSE, done |-> 0, percent |-> 0, stage |-> "IDLE", ver |-> 0]
Quiet   == [pc |-> "quiet", frame |-> NoFrame, owed |-> {}]

EventInit ==
  /\ task = NoFrame
  /\ emitter = [e \in Emitters |-> Quiet]
  /\ running = {}
  /\ hub = {}
  /\ buffer = [c \in Clients |-> <<>>]
  /\ got = [c \in Clients |-> NoFrame]
  /\ since = [c \in Clients |-> 0]
  /\ missed = {} /\ crossed = FALSE /\ joins = 0

Sending == {e \in Emitters : emitter[e].pc # "quiet"}

\* Mutant: the snapshot is taken before the state is changed.
ChangeLate(e, state) ==
  /\ emitter[e].pc = "quiet" /\ task.ver < MaxChanges
  /\ task' = [state EXCEPT !.ver = task.ver + 1]
  /\ emitter' = [emitter EXCEPT ![e] = [pc |-> "marshal", frame |-> task, owed |-> {}]]
  /\ crossed' = (crossed \/ Sending # {})
  /\ UNCHANGED <<hub, buffer, got, since, missed, joins>>

\* The mutex of the Manager: the state, the snapshot, the number of the change.
Change(e, state) ==
  /\ emitter[e].pc = "quiet" /\ task.ver < MaxChanges
  /\ task' = [state EXCEPT !.ver = task.ver + 1]
  /\ emitter' = [emitter EXCEPT ![e] = [pc |-> "marshal", frame |-> task', owed |-> {}]]
  /\ crossed' = (crossed \/ Sending # {})
  /\ UNCHANGED <<hub, buffer, got, since, missed, joins>>

StartTask(e) ==
  /\ e \notin running
  /\ Change(e, [live |-> TRUE, done |-> 0, percent |-> 0, stage |-> "STARTING", ver |-> 0])
  /\ running' = running \cup {e}

\* Mutant: more files than were announced are more than 100 percent.
PercentOver(done) == (200 * done + TotalFiles) \div (2 * TotalFiles)

\* math.Floor(x + 0.5), and at most 100.
Percent(done) ==
  LET p == (200 * done + TotalFiles) \div (2 * TotalFiles) IN IF p > 100 THEN 100 ELSE p

\* Mutant: the count of the caller replaces the count, larger or not.
AdvanceBackwards(e, done) ==
  /\ e \in running
  /\ Change(e, [task EXCEPT !.done = done, !.percent = Percent(done), !.stage = "FILE"])
  /\ UNCHANGED running

\* UpdateTaskProgress: a smaller count is ignored; whether the task is live is
\* left as it is, also after an unlock.
UpdateTaskProgress(e, done) ==
  /\ e \in running
  /\ LET most == IF done > task.done THEN done ELSE task.done
     IN  Change(e, [task EXCEPT !.done = most, !.percent = Percent(most), !.stage = "FILE"])
  /\ UNCHANGED running

FinishTask(e) ==
  /\ e \in running
  /\ Change(e, [task EXCEPT !.live = FALSE, !.percent = 100, !.stage = "COMPLETED"])
  /\ running' = running \ {e}

FailTask(e) ==
  /\ e \in running
  /\ Change(e, [task EXCEPT !.live = FALSE, !.stage = "FAILED"])
  /\ running' = running \ {e}

ResetTaskState(e) == Change(e, NoFrame) /\ UNCHANGED running

\* Broadcast: the clients of this moment ...
CopyClients(e) ==
  /\ emitter[e].pc = "marshal"
  /\ emitter' = [emitter EXCEPT ![e] = IF hub = {} THEN Quiet
                                       ELSE [@ EXCEPT !.pc = "send", !.owed = hub]]
  /\ UNCHANGED <<task, running, hub, buffer, got, since, missed, crossed, joins>>

\* Mutant: a full buffer is waited for.
OfferWaiting(e, c) ==
  /\ emitter[e].pc = "send" /\ c \in emitter[e].owed
  /\ Len(buffer[c]) < FrameBuffer
  /\ buffer' = [buffer EXCEPT ![c] = Append(@, emitter[e].frame)]
  /\ emitter' = [emitter EXCEPT ![e] = IF @.owed = {c} THEN Quiet ELSE [emitter[e] EXCEPT !.owed = @ \ {c}]]
  /\ UNCHANGED <<task, running, hub, got, since, missed, crossed, joins>>

\* ... and one frame for each, in any order, thrown away when its buffer is full.
Offer(e, c) ==
  /\ emitter[e].pc = "send" /\ c \in emitter[e].owed
  /\ IF Len(buffer[c]) < FrameBuffer
     THEN buffer' = [buffer EXCEPT ![c] = Append(@, emitter[e].frame)] /\ UNCHANGED missed
     ELSE missed' = missed \cup {c} /\ UNCHANGED buffer
  /\ emitter' = [emitter EXCEPT ![e] = IF @.owed = {c} THEN Quiet ELSE [emitter[e] EXCEPT !.owed = @ \ {c}]]
  /\ UNCHANGED <<task, running, hub, got, since, crossed, joins>>

\* Subscribe makes a fresh channel; the present state is not replayed.
Join(c) ==
  /\ c \notin hub /\ joins < MaxJoins
  /\ joins' = joins + 1
  /\ hub' = hub \cup {c}
  /\ buffer' = [buffer EXCEPT ![c] = <<>>]
  /\ got' = [got EXCEPT ![c] = NoFrame]
  /\ since' = [since EXCEPT ![c] = task.ver]
  /\ missed' = missed \ {c}
  /\ emitter' = [e \in Emitters |-> IF emitter[e].pc = "send" /\ emitter[e].owed = {c}
                                    THEN Quiet ELSE [emitter[e] EXCEPT !.owed = @ \ {c}]]
  /\ UNCHANGED <<task, running, crossed>>

ClosePage(c) ==
  /\ c \in hub
  /\ hub' = hub \ {c}
  /\ UNCHANGED <<task, emitter, running, buffer, got, since, missed, crossed, joins>>

Receive(c) ==
  /\ c \in hub /\ buffer[c] # <<>>
  /\ got' = [got EXCEPT ![c] = Head(buffer[c])]
  /\ buffer' = [buffer EXCEPT ![c] = Tail(@)]
  /\ UNCHANGED <<task, emitter, running, hub, since, missed, crossed, joins>>

EmitterStep(e) == CopyClients(e) \/ \E c \in Clients : Offer(e, c)

EventNext ==
  \/ \E e \in Emitters : EmitterStep(e)
  \/ \E e \in Runners :
       \/ StartTask(e) \/ FinishTask(e) \/ FailTask(e)
       \/ \E done \in 0..TotalFiles + 1 : UpdateTaskProgress(e, done)
  \/ \E e \in Unlockers : ResetTaskState(e)
  \/ \E c \in Clients : Join(c) \/ ClosePage(c) \/ Receive(c)

EventSpec ==
  /\ EventInit /\ [][EventNext]_eventVars
  /\ \A e \in Emitters : WF_eventVars(EmitterStep(e))

-----------------------------------------------------------------------------
EventTypeOK ==
  /\ task.percent \in 0..100 /\ task.ver \in 0..MaxChanges
  /\ \A c \in Clients : Len(buffer[c]) <= FrameBuffer

\* A page that has read all there is shows the present state, if it was there
\* before the last change, lost no frame to a full buffer, and no two changes
\* were broadcast at the same time: then the older one may arrive last and stay.
PageShowsTask ==
  \A c \in hub :
    Sending = {} /\ buffer[c] = <<>> /\ since[c] < task.ver /\ c \notin missed /\ ~crossed
      => got[c] = task

\* Within a run no page sees progress go back: of two frames a page gets one
\* after the other, both of live tasks, the later has at least the count of the
\* earlier, unless a frame was lost to a full buffer or two broadcasts overlapped.
ProgressNeverBack ==
  \A c \in hub :
    ~crossed /\ c \notin missed /\ buffer[c] # <<>> /\ got[c].live /\ Head(buffer[c]).live /\ Head(buffer[c]).stage = "FILE"
      => Head(buffer[c]).done >= got[c].done

\* A goroutine that owes a frame can go on in every state: no page that has
\* stopped reading stops a scan.
NoPageStopsAScan == \A e \in Sending : ENABLED EmitterStep(e)

(* What the page of a run promises, taken together: a page that listens     *)
(* from the start shows the task as it is once everything has reached it,   *)
(* its bar never runs backwards and a page that does not read stops nothing.*)
PagesFollowTask == EventTypeOK /\ PageShowsTask /\ ProgressNeverBack /\ NoPageStopsAScan
=============================================================================

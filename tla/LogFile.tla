------------------------------ MODULE LogFile ------------------------------
(***************************************************************************)
(* The log (infra/logger) and its stream (httpapi/logs.go).  An entry is    *)
(* numbered and put in the ring buffer under the mutex; the listeners, the  *)
(* console and the file come after it.  The file is rotated under the mutex *)
(* when the next line would not fit, and appended to without it.  A line    *)
(* has size 1.                                                              *)
(***************************************************************************)
EXTENDS Integers, Sequences, FiniteSets, SequencesExt, FiniteSetsExt

CONSTANTS
  Loggers,       \* goroutines that log
  Streams,       \* browsers on GET /api/logs/stream
  LogNames,      \* names of documents
  MaxBytes, Retain, MaxBuffer,  \* the options of the logger
  StreamBuffer,  \* capacity of a stream's channel, 64 in the code
  InitialLogs,   \* entries of the INIT frame, 100 in the code
  MaxLines, MaxLogFaults \* bounds

ASSUME LogAssumption ==
  /\ {MaxBytes, Retain} \subseteq Nat \ {0} /\ {MaxBuffer, StreamBuffer, MaxLogFaults} \subseteq Nat
  /\ InitialLogs \in Int

VARIABLES
  entries,   \* every entry since the start of the process, the oldest first
  ring,      \* how many of the last of them the ring buffer holds
  logger,    \* per goroutine: where it is, its entry, whom it has to tell, its descriptor
  gen,       \* 0..Retain -> the file of that generation, 0 for none
  text,      \* the files ever made, each the sequence of its lines
  bytes,     \* currentBytes, -1 while it is not known
  lines,     \* history: number of lines, over all processes
  stream,    \* per browser: where it is, its channel, what it has been sent
  failedRotations, overlapped, logFaults  \* history

logVars == <<entries, ring, logger, gen, text, bytes, lines, stream, failedRotations, overlapped, logFaults>>

NoEntry  == [id |-> 0, line |-> 0, name |-> "", kind |-> ""]
Resting  == [pc |-> "rest", entry |-> NoEntry, due |-> {}, fd |-> 0]
NoStream == [pc |-> "off", channel |-> <<>>, sent |-> <<>>, from |-> 0, dropped |-> {}]

LogInit ==
  /\ entries = <<>> /\ ring = 0
  /\ logger = [g \in Loggers |-> Resting]
  \* An earlier process has left generations, but not the youngest; each of them is full.
  /\ \E left \in 0..Retain :
       /\ text = [f \in 1..left |-> [i \in 1..MaxBytes |-> (f - 1) * MaxBytes + i]]
       /\ lines = left * MaxBytes
       /\ gen = [n \in 0..Retain |-> IF n \in 1..left THEN left + 1 - n ELSE 0]
  /\ bytes = -1
  /\ stream = [s \in Streams |-> NoStream]
  /\ failedRotations = 0 /\ overlapped = FALSE /\ logFaults = 0

Logging == {g \in Loggers : logger[g].pc # "rest"}
Listening == {s \in Streams : stream[s].pc = "on"}
Buffered == SubSeq(entries, Len(entries) - ring + 1, Len(entries))

\* RecentLogs: a limit that is not positive, or too large, asks for everything.
RecentLogs(limit) ==
  IF limit <= 0 \/ limit > ring THEN Buffered ELSE SubSeq(Buffered, ring - limit + 1, ring)

\* Mutant: the ring buffer is never cut.
RingUncut == ring + 1
RingGrown == IF ring < MaxBuffer THEN ring + 1 ELSE ring

\* formatLocked, and the copy of the listeners.
Log(g, name, kind) ==
  /\ logger[g].pc = "rest" /\ lines < MaxLines
  /\ lines' = lines + 1
  /\ LET entry == [id |-> Len(entries) + 1, line |-> lines', name |-> name, kind |-> kind]
     IN  /\ entries' = Append(entries, entry)
         /\ logger' = [logger EXCEPT ![g] = [pc |-> IF Listening = {} THEN "rotate" ELSE "tell",
                                             entry |-> entry, due |-> Listening, fd |-> 0]]
  /\ ring' = RingGrown
  /\ overlapped' = (overlapped \/ Logging # {})
  /\ UNCHANGED <<gen, text, bytes, stream, failedRotations, logFaults>>

\* Mutant: a full channel gives up its oldest entry.
TellReplacing(g, s) ==
  /\ logger[g].pc = "tell" /\ s \in logger[g].due
  /\ stream' = [stream EXCEPT ![s] =
       IF @.pc # "on" THEN @
       ELSE IF Len(@.channel) < StreamBuffer THEN [@ EXCEPT !.channel = Append(@, logger[g].entry)]
       ELSE [@ EXCEPT !.channel = Append(Tail(@), logger[g].entry)]]
  /\ logger' = [logger EXCEPT ![g].due = @ \ {s}, ![g].pc = IF logger[g].due = {s} THEN "rotate" ELSE "tell"]
  /\ UNCHANGED <<entries, ring, gen, text, bytes, lines, failedRotations, overlapped, logFaults>>

\* The listener of a stream: the channel, or nothing when it is full.
Tell(g, s) ==
  /\ logger[g].pc = "tell" /\ s \in logger[g].due
  /\ LET page == stream[s] IN
       stream' = [stream EXCEPT ![s] =
         IF page.pc # "on" THEN page
         ELSE IF Len(page.channel) < StreamBuffer THEN [page EXCEPT !.channel = Append(@, logger[g].entry)]
         ELSE [page EXCEPT !.dropped = @ \cup {logger[g].entry.id}]]
  /\ logger' = [logger EXCEPT ![g].due = @ \ {s}, ![g].pc = IF logger[g].due = {s} THEN "rotate" ELSE "tell"]
  /\ UNCHANGED <<entries, ring, gen, text, bytes, lines, failedRotations, overlapped, logFaults>>

\* Mutant: the size of a file that was there at the start is not looked up.
KnownFromZero == IF bytes = -1 THEN 0 ELSE bytes
KnownBytes ==
  IF bytes # -1 THEN bytes ELSE IF gen[0] = 0 THEN 0 ELSE Len(text[gen[0]])

\* Mutant: the generations are shifted from the youngest to the oldest.
ShiftedUpwards(stop) ==
  [n \in 0..Retain |-> IF n <= stop THEN gen[n] ELSE IF n = Retain THEN gen[stop + 1] ELSE 0]

\* rotate: the oldest goes, each other one moves up, the oldest of them first;
\* `stop' is the generation whose rename failed, -1 for none.
Shifted(stop) ==
  [n \in 0..Retain |-> IF n <= stop THEN gen[n] ELSE IF n = stop + 1 THEN 0 ELSE gen[n - 1]]

\* rotateLocked.
RotateIfNeeded(g) ==
  /\ logger[g].pc = "rotate"
  /\ IF KnownBytes + 1 <= MaxBytes
     THEN bytes' = KnownBytes /\ UNCHANGED <<gen, failedRotations, logFaults>>
     ELSE /\ bytes' = 0
          /\ \/ gen' = Shifted(-1) /\ UNCHANGED <<failedRotations, logFaults>>
             \/ /\ logFaults < MaxLogFaults /\ logFaults' = logFaults + 1
                /\ failedRotations' = failedRotations + 1
                /\ \E stop \in 0..Retain - 1 : gen[stop] # 0 /\ gen' = Shifted(stop)
  /\ logger' = [logger EXCEPT ![g].pc = "open"]
  /\ UNCHANGED <<entries, ring, text, lines, stream, overlapped>>

OpenLog(g) ==
  /\ logger[g].pc = "open"
  /\ IF gen[0] = 0
     THEN text' = Append(text, <<>>) /\ gen' = [gen EXCEPT ![0] = Len(text) + 1]
     ELSE UNCHANGED <<text, gen>>
  /\ logger' = [logger EXCEPT ![g].pc = "append", ![g].fd = gen'[0]]
  /\ UNCHANGED <<entries, ring, bytes, lines, stream, failedRotations, overlapped, logFaults>>

\* The directory cannot be made, the file not be opened or not be written: the line is
\* only on the console.
LineFails(g) ==
  /\ logger[g].pc \in {"rotate", "open", "append"} /\ logFaults < MaxLogFaults
  /\ logFaults' = logFaults + 1
  /\ logger' = [logger EXCEPT ![g] = Resting]
  /\ UNCHANGED <<entries, ring, gen, text, bytes, lines, stream, failedRotations, overlapped>>

\* The line goes to the file that was opened, rotated meanwhile or not.
AppendLine(g) ==
  /\ logger[g].pc = "append"
  /\ text' = [text EXCEPT ![logger[g].fd] = Append(@, logger[g].entry.line)]
  /\ logger' = [logger EXCEPT ![g].pc = "count"]
  /\ UNCHANGED <<entries, ring, gen, bytes, lines, stream, failedRotations, overlapped, logFaults>>

CountBytes(g) ==
  /\ logger[g].pc = "count"
  /\ bytes' = bytes + 1
  /\ logger' = [logger EXCEPT ![g] = Resting]
  /\ UNCHANGED <<entries, ring, gen, text, lines, stream, failedRotations, overlapped, logFaults>>

\* Mutant: the listener is there before the first entries are read, and the
\* last of them was logged in between.
StreamInitLate(s) ==
  /\ stream[s].pc = "off" /\ entries # <<>>
  /\ stream' = [stream EXCEPT ![s] = [NoStream EXCEPT !.pc = "on", !.from = Len(entries),
                                      !.sent = RecentLogs(InitialLogs), !.channel = <<Last(entries)>>]]
  /\ UNCHANGED <<entries, ring, logger, gen, text, bytes, lines, failedRotations, overlapped, logFaults>>

\* logsStreamHandler: the INIT frame, and then the listener.
StreamInit(s) ==
  /\ stream[s].pc = "off"
  /\ stream' = [stream EXCEPT ![s] = [NoStream EXCEPT !.pc = "init", !.sent = RecentLogs(InitialLogs)]]
  /\ UNCHANGED <<entries, ring, logger, gen, text, bytes, lines, failedRotations, overlapped, logFaults>>

StreamListen(s) ==
  /\ stream[s].pc = "init"
  /\ stream' = [stream EXCEPT ![s].pc = "on", ![s].from = Len(entries)]
  /\ UNCHANGED <<entries, ring, logger, gen, text, bytes, lines, failedRotations, overlapped, logFaults>>

StreamSend(s) ==
  /\ stream[s].pc = "on" /\ stream[s].channel # <<>>
  /\ stream' = [stream EXCEPT ![s].sent = Append(@, Head(stream[s].channel)), ![s].channel = Tail(@)]
  /\ UNCHANGED <<entries, ring, logger, gen, text, bytes, lines, failedRotations, overlapped, logFaults>>

\* The process ends, at any moment, and starts again.
LogRestart ==
  /\ logFaults < MaxLogFaults /\ logFaults' = logFaults + 1
  /\ entries' = <<>> /\ ring' = 0 /\ bytes' = -1
  /\ logger' = [g \in Loggers |-> Resting]
  /\ stream' = [s \in Streams |-> NoStream]
  /\ UNCHANGED <<gen, text, lines, failedRotations, overlapped>>

LogNext ==
  \/ \E g \in Loggers :
       \/ \E name \in LogNames, kind \in {"done", "fail"} : Log(g, name, kind)
       \/ RotateIfNeeded(g) \/ OpenLog(g) \/ LineFails(g) \/ AppendLine(g) \/ CountBytes(g)
       \/ \E s \in Streams : Tell(g, s)
  \/ \E s \in Streams : StreamInit(s) \/ StreamListen(s) \/ StreamSend(s)
  \/ LogRestart

LogSpec == LogInit /\ [][LogNext]_logVars

-----------------------------------------------------------------------------
\* GroupedSessionLogs: one session per name, failed for good.
NoSession == [count |-> 0, status |-> "IN_PROGRESS", updated |-> 0]

\* Mutant: a later success makes up for a failure.
StatusForgiving(status, kind) ==
  IF kind = "fail" THEN "FAILED" ELSE IF kind = "done" THEN "COMPLETED" ELSE status
Status(status, kind) ==
  CASE kind = "fail" -> "FAILED"
    [] kind = "done" /\ status # "FAILED" -> "COMPLETED"
    [] OTHER -> status

\* What the page shows after the first n of the entries it is told.
Sessions ==
  LET told == Buffered
      shown[n \in 0..Len(told)] ==
        IF n = 0 THEN [d \in LogNames |-> NoSession]
        ELSE [shown[n - 1] EXCEPT ![told[n].name] =
                [count |-> @.count + 1, status |-> Status(@.status, told[n].kind), updated |-> told[n].id]]
  IN  shown[Len(told)]

\* A document one of whose entries in the buffer is a failure is shown as
\* failed, whatever was logged about it afterwards.
FailureStaysVisible ==
  \A i \in DOMAIN Buffered :
    Buffered[i].kind = "fail" => Sessions[Buffered[i].name].status = "FAILED"

\* The log file never holds more than its limit, restarts included; each
\* rotation that failed lets it grow by one limit more, and so do lines that
\* are written at the same time.
LogBounded ==
  ~overlapped /\ gen[0] # 0 => Len(text[gen[0]]) <= MaxBytes * (1 + failedRotations)

\* The generations, the oldest first, are the written lines in the order in
\* which they were logged; those that went are older than all of them, and went
\* when as many younger ones as the older generations hold were there.
LinesIn(f) == {text[f][i] : i \in DOMAIN text[f]}
LinesKept == UNION {LinesIn(gen[n]) : n \in {n \in 0..Retain : gen[n] # 0}}
LinesWritten == UNION {LinesIn(f) : f \in DOMAIN text}
InReadingOrder ==
  \A n, m \in {n \in 0..Retain : gen[n] # 0} :
    \A i \in DOMAIN text[gen[n]], j \in DOMAIN text[gen[m]] :
      n > m \/ (n = m /\ i < j) => text[gen[n]][i] < text[gen[m]][j]
NewestLinesKept ==
  ~overlapped /\ failedRotations = 0 =>
    /\ InReadingOrder
    /\ \A gone \in LinesWritten \ LinesKept :
         Cardinality(LinesKept) >= Retain * MaxBytes /\ \A kept \in LinesKept : gone < kept

\* No entry reaches a page of the log twice, as one of the first entries and
\* again as an event.
NoEntryTwice ==
  \A s \in Streams : \A i, j \in DOMAIN stream[s].sent :
    i # j => stream[s].sent[i].id # stream[s].sent[j].id

\* A page of the log that listens and has no entry waiting has every entry
\* since it began to listen, but those its full channel refused.
PageHasLog ==
  Logging = {} => \A s \in Listening : stream[s].channel = <<>> =>
    \A id \in stream[s].from + 1..Len(entries) :
      id \in stream[s].dropped \/ \E i \in DOMAIN stream[s].sent : stream[s].sent[i].id = id

LogTypeOK ==
  /\ ring <= MaxBuffer /\ ring <= Len(entries) /\ bytes \in Nat \cup {-1}
  /\ gen \in [0..Retain -> 0..Len(text)]

(* What the log promises, taken together: files and buffer stay bounded,    *)
(* rotation drops the oldest lines first, and a page that follows the log   *)
(* sees every entry once.                                                   *)
LogKept ==
  LogTypeOK /\ LogBounded /\ NewestLinesKept /\ NoEntryTwice /\ PageHasLog
=============================================================================

----------------------------- MODULE LiveReload -----------------------------
(***************************************************************************)
(* GET /api/dev/livereload: each stream makes a PollingWatcher of its own,  *)
(* whose goroutine takes a first fingerprint of the folder when it comes to *)
(* run, compares once per interval and signals through a channel of size 1. *)
(* A browser that is told reloads the page, which ends its stream.          *)
(***************************************************************************)
EXTENDS Integers

CONSTANTS Browsers, MaxSaves, MaxReloadsOfPages

VARIABLES
  folder,   \* number of the last change of a file of public/
  page,     \* per browser: "closed", "open" or "busy", and the folder it shows
  poller,   \* per browser: the fingerprint its watcher has, -1 before the first
  signal,   \* per browser: a reload is pending in the channel
  orphans,  \* goroutines whose stream has ended; nothing closes a watcher
  unseen,   \* history: browsers a change escaped before the first fingerprint
  reloaded

liveVars == <<folder, page, poller, signal, orphans, unseen, reloaded>>

LiveInit ==
  /\ folder = 0 /\ page = [b \in Browsers |-> [pc |-> "closed", shows |-> 0]]
  /\ poller = [b \in Browsers |-> -1] /\ signal = [b \in Browsers |-> FALSE]
  /\ orphans = 0 /\ unseen = {} /\ reloaded = 0

Open == {b \in Browsers : page[b].pc # "closed"}

SaveFile ==
  /\ folder < MaxSaves /\ folder' = folder + 1
  /\ unseen' = unseen \cup {b \in Open : poller[b] = -1}
  /\ UNCHANGED <<page, poller, signal, orphans, reloaded>>

\* The page is loaded and subscribes; a page that was open is closed by it.
LoadPage(b) ==
  /\ reloaded < MaxReloadsOfPages /\ reloaded' = reloaded + 1
  /\ page' = [page EXCEPT ![b] = [pc |-> "open", shows |-> folder]]
  /\ poller' = [poller EXCEPT ![b] = -1] /\ signal' = [signal EXCEPT ![b] = FALSE]
  /\ orphans' = IF b \in Open THEN orphans + 1 ELSE orphans
  /\ unseen' = unseen \ {b}
  /\ UNCHANGED folder

FirstFingerprint(b) ==
  /\ b \in Open /\ poller[b] = -1
  /\ poller' = [poller EXCEPT ![b] = folder]
  /\ UNCHANGED <<folder, page, signal, orphans, unseen, reloaded>>

\* Mutant: a channel without a buffer.
PollUnbuffered(b) ==
  /\ b \in Open /\ poller[b] \notin {-1, folder}
  /\ poller' = [poller EXCEPT ![b] = folder]
  /\ signal' = [signal EXCEPT ![b] = @ \/ page[b].pc = "open"]
  /\ UNCHANGED <<folder, page, orphans, unseen, reloaded>>

\* run, notify: a signal that is pending is enough.
Poll(b) ==
  /\ b \in Open /\ poller[b] \notin {-1, folder}
  /\ poller' = [poller EXCEPT ![b] = folder]
  /\ signal' = [signal EXCEPT ![b] = TRUE]
  /\ UNCHANGED <<folder, page, orphans, unseen, reloaded>>

\* The handler takes the signal and writes the frame: the page shows the folder
\* of the time when the browser asks for it again.
WriteReload(b) ==
  /\ page[b].pc = "open" /\ signal[b]
  /\ signal' = [signal EXCEPT ![b] = FALSE]
  /\ page' = [page EXCEPT ![b] = [pc |-> "busy", shows |-> folder]]
  /\ UNCHANGED <<folder, poller, orphans, unseen, reloaded>>

FlushReload(b) ==
  /\ page[b].pc = "busy" /\ page' = [page EXCEPT ![b].pc = "open"]
  /\ UNCHANGED <<folder, poller, signal, orphans, unseen, reloaded>>

LiveNext ==
  \/ SaveFile
  \/ \E b \in Browsers :
       LoadPage(b) \/ FirstFingerprint(b) \/ Poll(b) \/ WriteReload(b) \/ FlushReload(b)

LiveSpec == LiveInit /\ [][LiveNext]_liveVars

-----------------------------------------------------------------------------
\* A page whose watcher has seen the folder as it is, and that has no reload
\* pending, shows the folder as it is, unless a change fell between its load
\* and the first fingerprint.
PageIsFresh ==
  \A b \in Open \ unseen : poller[b] = folder /\ ~signal[b] => page[b].shows = folder
=============================================================================

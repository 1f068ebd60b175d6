---------------------------- MODULE OllamaHealth ----------------------------
(***************************************************************************)
(* The Ollama client (infra/ollama): EnsureOllamaModel lists the models,    *)
(* pulls a missing one, and asks whether the model generates, through a     *)
(* cache of one entry that every client of the process shares; when the     *)
(* server cannot be reached it starts one and asks again past the cache.    *)
(***************************************************************************)
EXTENDS Integers, FiniteSets

CONSTANTS
  Askers,      \* goroutines: a scan, a classification, GET /api/ollama/status
  Models,      \* model names
  CacheTTL,    \* modelHealthCacheTTL, 5 minutes
  MaxHours, MaxOutages, MaxAsks \* bounds

ASSUME TTLAssumption == CacheTTL \in Nat

VARIABLES
  server,    \* "up" or "down"
  able,      \* models that are there and generate
  present,   \* models that are there
  hour,      \* the clock
  healthCache, \* modelHealthCache
  asker,     \* per goroutine: where it is
  answer,    \* the last answer anyone got
  outages, asks

ollamaVars == <<server, able, present, hour, healthCache, asker, answer, outages, asks>>

\* `seen' is history: when, and for which model, the server was really asked.
NoCheck  == [model |-> "", at |-> 0, ok |-> FALSE, seen |-> 0, of |-> ""]
NotAsking == [pc |-> "idle", model |-> "", force |-> FALSE, at |-> 0, ok |-> FALSE, seen |-> 0, spawned |-> -1]
NoAnswer == [ok |-> FALSE, probed |-> FALSE, at |-> 0, seen |-> 0, model |-> "", of |-> "", spawned |-> -1]

OllamaInit ==
  /\ server = "up" /\ able \in {{m} : m \in Models} /\ present = able
  /\ hour = 0 /\ healthCache = NoCheck
  /\ asker = [a \in Askers |-> NotAsking] /\ answer = NoAnswer
  /\ outages = 0 /\ asks = 0

Move(a, rec) == asker' = [asker EXCEPT ![a] = rec]
Turns(a, pc) == Move(a, [asker[a] EXCEPT !.pc = pc])
Answers(a, ok, probed, seen, of) ==
  /\ answer' = [ok |-> ok, probed |-> probed, at |-> hour, seen |-> seen,
                model |-> asker[a].model, of |-> of, spawned |-> asker[a].spawned]
  /\ Move(a, NotAsking)

\* EnsureOllamaModel begins with the list; the status handler asks
\* when its own list has the model.
AskEnsure(a, m) ==
  /\ asker[a].pc = "idle" /\ asks < MaxAsks /\ asks' = asks + 1
  /\ Move(a, [NotAsking EXCEPT !.pc = "list", !.model = m])
  /\ UNCHANGED <<server, able, present, hour, healthCache, answer, outages>>

AskStatus(a, m) ==
  /\ server = "up" /\ m \in present /\ asker[a].pc = "idle" /\ asks < MaxAsks /\ asks' = asks + 1
  /\ Move(a, [NotAsking EXCEPT !.pc = "look", !.model = m])
  /\ UNCHANGED <<server, able, present, hour, healthCache, answer, outages>>

ListModels(a) ==
  /\ asker[a].pc = "list"
  /\ Turns(a, IF server = "down" THEN "spawn" ELSE IF asker[a].model \in present THEN "look" ELSE "pull")
  /\ UNCHANGED <<server, able, present, hour, healthCache, answer, outages, asks>>

\* The pull of a model that exists somewhere; any error is taken for an outage.
Pull(a) ==
  /\ asker[a].pc = "pull"
  /\ \/ server = "up" /\ present' = present \cup {asker[a].model} /\ Turns(a, "look")
        /\ (able' = able \/ able' = able \cup {asker[a].model})
     \/ Turns(a, "spawn") /\ UNCHANGED <<present, able>>
  /\ UNCHANGED <<server, hour, healthCache, answer, outages, asks>>

\* Mutant: the entry answers for every model.
FreshForAny(model, now) == healthCache.model # "" /\ now - healthCache.at < CacheTTL
Fresh(model, now) == healthCache.model = model /\ now - healthCache.at < CacheTTL

\* CheckModelCanGenerate: the cache, or else a request ...
LookUp(a) ==
  /\ asker[a].pc = "look"
  /\ IF ~asker[a].force /\ Fresh(asker[a].model, hour)
     THEN Answers(a, healthCache.ok, FALSE, healthCache.seen, healthCache.of)
     ELSE Move(a, [asker[a] EXCEPT !.pc = "probe", !.at = hour]) /\ UNCHANGED answer
  /\ UNCHANGED <<server, able, present, hour, healthCache, outages, asks>>

Probe(a) ==
  /\ asker[a].pc = "probe"
  /\ Move(a, [asker[a] EXCEPT !.pc = "store", !.seen = hour,
                              !.ok = server = "up" /\ asker[a].model \in able])
  /\ UNCHANGED <<server, able, present, hour, healthCache, answer, outages, asks>>

\* Mutant: the entry has the time of the answer.
EntryAtAnswer(a) ==
  [model |-> asker[a].model, at |-> hour, ok |-> asker[a].ok, seen |-> asker[a].seen, of |-> asker[a].model]

\* ... and the result is stored under the time before the request.
EntryOf(a) ==
  [model |-> asker[a].model, at |-> asker[a].at, ok |-> asker[a].ok, seen |-> asker[a].seen, of |-> asker[a].model]

StoreHealth(a) ==
  /\ asker[a].pc = "store"
  /\ healthCache' = EntryOf(a)
  /\ Answers(a, asker[a].ok, TRUE, asker[a].seen, asker[a].model)
  /\ UNCHANGED <<server, able, present, hour, outages, asks>>

\* autoSpawn: `ollama serve', two seconds, the list, a check past the cache.
Spawn(a) ==
  /\ asker[a].pc = "spawn"
  /\ \/ Answers(a, FALSE, FALSE, hour, "") /\ UNCHANGED server
     \/ /\ server' \in {server, "up"}
        /\ Move(a, [asker[a] EXCEPT !.pc = "relist", !.spawned = hour]) /\ UNCHANGED answer
  /\ UNCHANGED <<able, present, hour, healthCache, outages, asks>>

\* Mutant: the cache is good enough after the start.
RelistCached(a) ==
  /\ asker[a].pc = "relist"
  /\ IF server = "up" /\ asker[a].model \in present
     THEN Turns(a, "look") /\ UNCHANGED answer
     ELSE Answers(a, FALSE, FALSE, hour, "")
  /\ UNCHANGED <<server, able, present, hour, healthCache, outages, asks>>

Relist(a) ==
  /\ asker[a].pc = "relist"
  /\ IF server = "up" /\ asker[a].model \in present
     THEN Move(a, [asker[a] EXCEPT !.pc = "look", !.force = TRUE]) /\ UNCHANGED answer
     ELSE Answers(a, FALSE, FALSE, hour, "")
  /\ UNCHANGED <<server, able, present, hour, healthCache, outages, asks>>

\* The server goes and comes, models stop and begin to generate, time passes.
Outage ==
  /\ outages < MaxOutages /\ outages' = outages + 1
  /\ \/ server' = (IF server = "up" THEN "down" ELSE "up") /\ UNCHANGED able
     \/ able' \in SUBSET present /\ UNCHANGED server
  /\ UNCHANGED <<present, hour, healthCache, asker, answer, asks>>

HourPasses ==
  /\ hour < MaxHours /\ hour' = hour + 1
  /\ UNCHANGED <<server, able, present, healthCache, asker, answer, outages, asks>>

OllamaNext ==
  \/ \E a \in Askers :
       \/ \E m \in Models : AskEnsure(a, m) \/ AskStatus(a, m)
       \/ ListModels(a) \/ Pull(a) \/ LookUp(a) \/ Probe(a) \/ StoreHealth(a) \/ Spawn(a) \/ Relist(a)
  \/ Outage \/ HourPasses

OllamaSpec == OllamaInit /\ [][OllamaNext]_ollamaVars

-----------------------------------------------------------------------------
\* An answer out of the cache is what the server said of that same model less
\* than the lifetime ago, however long the requests took and whichever of two
\* of them was stored last.
AnswerRecent ==
  answer.of # "" /\ ~answer.probed =>
    answer.of = answer.model /\ answer.at - answer.seen < CacheTTL

\* After a server was started, the model is only said to be up when it has
\* generated since: what was cached before the outage does not count.
StartedMeansProbed ==
  answer.spawned # -1 /\ answer.ok => answer.probed /\ answer.seen >= answer.spawned

(* What a health answer promises: it is about the model that was asked and  *)
(* no older than its time to live, and after the server has been started    *)
(* again it stems from a new probe.                                         *)
AnswersHonest == AnswerRecent /\ StartedMeansProbed
=============================================================================

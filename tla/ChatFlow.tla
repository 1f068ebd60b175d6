------------------------------ MODULE ChatFlow ------------------------------
(***************************************************************************)
(* POST /api/chat: a request is planned by the model or by rules            *)
(* (app/chatplanner, chatquery), searched for from the strictest query to   *)
(* the loosest (RetrieveDocuments), answered by the model, and shown with    *)
(* the documents the answer cites (ProcessChatQuery).  A scan goes on        *)
(* storing and a user deleting documents meanwhile.                         *)
(*                                                                         *)
(* A document is its id, words, category, subcategory and month (yyyymm, 0  *)
(* for none); the rank bm25 gives it is any.  The index holds every         *)
(* document: whether it does is the subject of DocStore.                     *)
(***************************************************************************)
EXTENDS Integers, FiniteSets, FiniteSetsExt

CONSTANTS
  Shelf,      \* every document there may ever be
  Requests,   \* messages of users
  Replies,    \* what the planning model may reply
  Fillers,    \* stopwords of more than two letters
  MaxShelfChanges \* bound: documents stored or deleted meanwhile

VARIABLES
  archive,    \* the documents table
  chat,       \* the request: where it is and what it has found
  steady,     \* history: documents that were there throughout the request
  shelfChanges

chatVars == <<archive, chat, steady, shelfChanges>>

fetchHeadroom == 3
Junk == "**"        \* a term without a letter or a digit
NotText == "42"     \* an element of the array that is no string

NoQuery == [docTypes |-> {}, entities |-> {}, keywords |-> {}, notTerms |-> {},
            category |-> "", subcategory |-> "", dateFrom |-> 0, dateTo |-> 0, limit |-> 0]

\* Texts are STRINGs and a month is a number; an id belongs to one document.
QueryPlans == [docTypes : SUBSET STRING, entities : SUBSET STRING, keywords : SUBSET STRING,
               notTerms : SUBSET STRING, category : STRING, subcategory : STRING,
               dateFrom : Nat, dateTo : Nat, limit : Int]
Messages == [words : SUBSET STRING, year : Nat, number : Nat, numberFirst : BOOLEAN,
             numeral : Nat, last : BOOLEAN]
ASSUME ChatAssumption ==
  /\ IsFiniteSet(Shelf) /\ \A d, e \in Shelf : d.id = e.id => d = e
  /\ Shelf \subseteq [id : Nat, words : SUBSET STRING, category : STRING, subcategory : STRING, date : Nat]
  /\ Requests \subseteq Messages /\ \A reply \in Replies : reply.plan \in QueryPlans

-----------------------------------------------------------------------------
(* Planning. *)

\* "3 factures" has its number, "last 3" only its "last", which means one.
RequestedCount(msg) ==
  IF msg.numberFirst /\ msg.number \in 1..20 THEN msg.number
  ELSE IF msg.numeral # 0 THEN msg.numeral
  ELSE IF msg.last THEN 1 ELSE 0

PlanQueryHeuristic(msg) ==
  [NoQuery EXCEPT !.keywords = msg.words \ Fillers,
                  !.dateFrom = IF msg.year = 0 THEN 0 ELSE 100 * msg.year + 1,
                  !.dateTo = IF msg.year = 0 THEN 0 ELSE 100 * msg.year + 12]

\* What the schema makes of a reply that is an object with fields of the
\* right kinds: an element that is no string is left out, and so is a limit
\* out of range.
ParsedPlan(reply) ==
  [reply.plan EXCEPT !.docTypes = @ \ {NotText}, !.entities = @ \ {NotText},
                     !.keywords = @ \ {NotText}, !.notTerms = @ \ {NotText},
                     !.limit = IF @ \in 1..50 THEN @ ELSE 0]

NormaliseFacet(terms) == terms \ {Junk}
Facets(q) == {NormaliseFacet(q.docTypes), NormaliseFacet(q.entities), NormaliseFacet(q.keywords)} \ {{}}
Searchable(q) == Facets(q) # {}

PlanFor(msg, reply) ==
  IF reply.parses /\ Searchable(ParsedPlan(reply)) THEN ParsedPlan(reply) ELSE PlanQueryHeuristic(msg)

\* Mutant: the exclusions go before the keywords.
RelaxNotTermsFirst(q) ==
  IF q.notTerms # {} THEN {[q EXCEPT !.notTerms = {}]}
  ELSE IF q.keywords # {} THEN {[q EXCEPT !.keywords = {}]}
  ELSE IF q.entities # {} THEN {[q EXCEPT !.entities = {}]}
  ELSE {}

\* One rung down the ladder; {} where only the kinds and the filters remain.
RelaxQuery(q) ==
  IF q.keywords # {} THEN {[q EXCEPT !.keywords = {}]}
  ELSE IF q.notTerms # {} THEN {[q EXCEPT !.notTerms = {}]}
  ELSE IF q.entities # {} THEN {[q EXCEPT !.entities = {}]}
  ELSE {}

-----------------------------------------------------------------------------
(* Searching. *)

TextOf(d) == d.words \cup {d.category, d.subcategory}

\* Mutant: a document without a date is before every date.
InFiltersUndated(q, d) ==
  /\ q.category # "" => d.category = q.category
  /\ q.subcategory # "" => d.subcategory = q.subcategory
  /\ q.dateFrom # 0 => d.date >= q.dateFrom
  /\ q.dateTo # 0 => d.date <= q.dateTo

InFilters(q, d) ==
  /\ q.category # "" => d.category = q.category
  /\ q.subcategory # "" => d.subcategory = q.subcategory
  /\ q.dateFrom # 0 => d.date # 0 /\ d.date >= q.dateFrom
  /\ q.dateTo # 0 => d.date # 0 /\ d.date <= q.dateTo

\* Facets are ANDed, the terms of one ORed, the exclusions hold for all.
SearchDocumentsFts(q, docs) ==
  {d \in docs : /\ InFilters(q, d)
                /\ \A facet \in Facets(q) : facet \cap TextOf(d) # {}
                /\ NormaliseFacet(q.notTerms) \cap TextOf(d) = {}}

IsPaySlip(d) == d.category = "bulletin_salaire"
SamePeriod(d, e) == d = e \/ (IsPaySlip(d) /\ IsPaySlip(e) /\ d.date # 0 /\ d.date = e.date)
DedupeByPeriod(docs) == {d \in docs : \A e \in docs : SamePeriod(d, e) => e.id <= d.id}

\* The first n of a set in any order.
Slices(n, docs) == kSubset(IF n < Cardinality(docs) THEN n ELSE Cardinality(docs), docs)

\* Mutant: the copies are collapsed after the limit.
KeptAfterLimit(hits, limit) == {DedupeByPeriod(s) : s \in Slices(limit, hits)}

\* The copies of a month are collapsed among three times as many as are asked.
Kept(hits, limit) ==
  UNION {Slices(limit, DedupeByPeriod(s)) : s \in Slices(limit * fetchHeadroom, hits)}

LimitOf(msg, plan) ==
  IF RequestedCount(msg) # 0 THEN RequestedCount(msg) ELSE IF plan.limit # 0 THEN plan.limit ELSE 10

\* The token scorer: whatever shares a word, else the newest.
SearchRelevantDocuments(msg, docs) ==
  LET count  == RequestedCount(msg)
      scored == {d \in docs : (msg.words \cap TextOf(d)) # {}}
      newest(s) == \A d \in s, e \in docs \ s : e.date <= d.date
  IN IF scored # {} THEN Slices(IF count # 0 THEN count ELSE 10, scored)
     ELSE {s \in Slices(IF count # 0 THEN count ELSE 5, docs) : newest(s)}

-----------------------------------------------------------------------------
NoChat == [pc |-> "idle", msg |-> [words |-> {}, year |-> 0, number |-> 0, numberFirst |-> FALSE,
                                   numeral |-> 0, last |-> FALSE],
           plan |-> NoQuery, asked |-> NoQuery, searches |-> 0, via |-> "",
           found |-> {}, matched |-> {}, shown |-> {}, tableFailed |-> FALSE, failed |-> FALSE]

ChatInit ==
  /\ archive \in SUBSET Shelf /\ chat = NoChat /\ steady = {} /\ shelfChanges = 0

ChatHandler(msg) ==
  /\ chat.pc = "idle"
  /\ chat' = [chat EXCEPT !.pc = "plan", !.msg = msg]
  /\ steady' = archive
  /\ UNCHANGED <<archive, shelfChanges>>

\* A model that does not answer is a reply that does not parse.
PlanQuery ==
  /\ chat.pc = "plan"
  /\ \E reply \in Replies :
       LET plan == PlanFor(chat.msg, reply)
       IN chat' = [chat EXCEPT !.pc = "search", !.plan = plan, !.asked = plan]
  /\ UNCHANGED <<archive, steady, shelfChanges>>

\* One rung: no query is possible, the query fails, it finds nothing, or it
\* finds something, which ends the ladder.
SearchRung ==
  /\ chat.pc = "search"
  /\ \/ chat' = [chat EXCEPT !.pc = "score"]
     \/ /\ Searchable(chat.plan)
        /\ LET hits  == SearchDocumentsFts(chat.plan, archive)
               limit == LimitOf(chat.msg, chat.asked)
           IN \/ /\ hits = {}
                 /\ \/ \E q \in RelaxQuery(chat.plan) :
                         chat' = [chat EXCEPT !.plan = q, !.searches = @ + 1]
                    \/ RelaxQuery(chat.plan) = {} /\ chat' = [chat EXCEPT !.pc = "score", !.searches = @ + 1]
              \/ /\ hits # {}
                 /\ \E kept \in Kept(hits, limit) :
                      chat' = [chat EXCEPT !.pc = "prompt", !.via = "search", !.searches = @ + 1,
                                           !.found = hits, !.matched = DedupeByPeriod(kept)]
  /\ UNCHANGED <<archive, steady, shelfChanges>>

\* The last resort reads the whole table, which alone may fail the request.
ScoreTokens ==
  /\ chat.pc = "score"
  /\ \/ chat' = [chat EXCEPT !.pc = "done", !.tableFailed = TRUE, !.failed = TRUE]
     \/ \E kept \in SearchRelevantDocuments(chat.msg, archive) :
          chat' = [chat EXCEPT !.pc = "prompt", !.via = "scorer", !.matched = DedupeByPeriod(kept)]
  /\ UNCHANGED <<archive, steady, shelfChanges>>

\* Mutant: half is rounded down.
MinExpectedDown(msg, matched) ==
  LET n == Cardinality(matched)
  IN IF RequestedCount(msg) = 0 THEN n \div 2 ELSE IF RequestedCount(msg) < n THEN RequestedCount(msg) ELSE n

\* How many of the documents the answer has to cite to be believed.
MinExpected(msg, matched) ==
  LET n == Cardinality(matched)
  IN IF RequestedCount(msg) = 0 THEN (n + 1) \div 2 ELSE IF RequestedCount(msg) < n THEN RequestedCount(msg) ELSE n

\* The model is silent, cites nothing, or cites some of the documents and
\* others that are not among them.
ProcessChatQuery ==
  /\ chat.pc = "prompt"
  /\ \/ chat' = [chat EXCEPT !.pc = "done", !.shown = chat.matched]
     \/ \E cited \in SUBSET chat.matched :
          LET believed == Cardinality(cited) >= MinExpected(chat.msg, chat.matched)
          IN chat' = [chat EXCEPT !.pc = "done", !.shown = IF believed THEN cited ELSE chat.matched]
  /\ UNCHANGED <<archive, steady, shelfChanges>>

\* A scan stores a document, which has the highest id; a user deletes one.
ShelfChanged ==
  /\ shelfChanges < MaxShelfChanges /\ shelfChanges' = shelfChanges + 1
  /\ \/ \E d \in Shelf \ archive : (\A e \in archive : e.id < d.id) /\ archive' = archive \cup {d}
     \/ \E d \in archive : archive' = archive \ {d}
  /\ steady' = steady \cap archive'
  /\ UNCHANGED chat

ChatNext ==
  \/ \E msg \in Requests : ChatHandler(msg)
  \/ PlanQuery \/ SearchRung \/ ScoreTokens \/ ProcessChatQuery \/ ShelfChanged

ChatSpec == ChatInit /\ [][ChatNext]_chatVars

-----------------------------------------------------------------------------
PeriodsIn(docs) == {{e \in docs : SamePeriod(d, e)} : d \in docs}

\* A request with documents in the archive is never answered empty-handed,
\* whatever the model replies to either of its two questions and whatever it
\* cites, and only a table that cannot be read makes it fail.
NeverEmptyHanded ==
  chat.pc = "done" =>
    /\ chat.failed => chat.tableFailed
    /\ ~chat.failed /\ steady # {} => chat.shown # {}

\* Two scans of a month take no place from another month that was asked for:
\* while no month has more copies than the headroom allows for, an answer out
\* of the index shows as many months and documents as were asked for and found
\* (at least half of them where no number was given), and no month twice.
EveryPeriodHasItsPlace ==
  chat.pc = "done" /\ ~chat.failed =>
    /\ \A d, e \in chat.shown : SamePeriod(d, e) => d = e
    /\ chat.via = "search" /\ (\A p \in PeriodsIn(chat.found) : Cardinality(p) <= fetchHeadroom) =>
         LET there == Cardinality(PeriodsIn(chat.found))
             limit == LimitOf(chat.msg, chat.asked)
             most  == IF limit < there THEN limit ELSE there
         IN IF RequestedCount(chat.msg) # 0 THEN Cardinality(chat.shown) = most
            ELSE 2 * Cardinality(chat.shown) >= most

\* What the ladder gives up and what not: an answer out of the index keeps to
\* the kind of document and to the filters of the plan, and shows a document
\* with an excluded term only where nothing else fits even without keywords.
\* Four searches are the most a request costs.
LadderKeepsOrder ==
  /\ chat.searches <= 4
  /\ chat.via = "search" =>
       LET q == chat.asked
           loose == [q EXCEPT !.keywords = {}]
       IN \A d \in chat.shown :
            /\ NormaliseFacet(q.docTypes) # {} => NormaliseFacet(q.docTypes) \cap TextOf(d) # {}
            /\ q.category \in {"", d.category}
            /\ q.dateTo # 0 => d.date \in 1..q.dateTo
            /\ NormaliseFacet(q.notTerms) \cap TextOf(d) # {} /\ Searchable(loose)
                 => SearchDocumentsFts(loose, steady) = {}

(* What a chat answer promises: something to look at, each month once and in *)
(* its place, and no more relaxed than it has to be.                         *)
ChatServes == NeverEmptyHanded /\ EveryPeriodHasItsPlace /\ LadderKeepsOrder
=============================================================================

----------------------------- MODULE MCServices -----------------------------
(* The services around the pipeline: the events of a run and the pages that *)
(* show them, the logger, the start of the server, the live reload of the   *)
(* page and the health of the model server; and the ways a document takes:  *)
(* from photographs to a PDF, from a text to its Markdown and a category,   *)
(* through the repairs of its tables, and by what earlier decisions taught; *)
(* and the chat that finds documents again.                                 *)
(* No two of them touch the same state or wait for one another, so a        *)
(* behaviour moves one of them and leaves the rest where they start.        *)
EXTENDS Promises, ServerStart, TableRepair, MCLearnedRules, TLC

CONSTANTS e1, e2, r1, u1, c1

VARIABLE part  \* the service that moves

Services == {"events", "log", "start", "reload", "ollama", "photos", "flow", "tables", "lessons", "chat"}

\* Two scans of a pay slip, one of the next month and one without a date, an
\* account number and a statement that mentions it.
Document(id, words, cat, sub, date) ==
  [id |-> id, words |-> words, category |-> cat, subcategory |-> sub, date |-> date]
MCShelf == {Document(1, {"paie"}, "bulletin_salaire", "acme", 202401),
            Document(2, {"paie"}, "bulletin_salaire", "acme", 202401),
            Document(3, {"rib", "releve", "acme"}, "bank", "orange", 202312),
            Document(4, {"rib"}, "bank", "orange", 202402),
            Document(5, {"paie"}, "bulletin_salaire", "acme", 202402),
            Document(6, {"paie"}, "bulletin_salaire", "acme", 0)}

Message(words) == [words |-> words, year |-> 0, number |-> 0, numberFirst |-> FALSE, numeral |-> 0, last |-> FALSE]
MCRequests == {[Message({"fiches", "paie"}) EXCEPT !.number = 2, !.numberFirst = TRUE],
               [Message({"besoin", "rib"}) EXCEPT !.year = 2024],
               [Message({"paie", "last"}) EXCEPT !.number = 3, !.last = TRUE],
               [Message({"besoin"}) EXCEPT !.numeral = 2]}

Reply(plan) == [parses |-> TRUE, plan |-> plan]
MCReplies == {[parses |-> FALSE, plan |-> NoQuery],
              Reply([NoQuery EXCEPT !.docTypes = {"rib"}, !.keywords = {"acme"}, !.notTerms = {"releve"}]),
              Reply([NoQuery EXCEPT !.docTypes = {"paie", NotText}, !.entities = {"orange"}, !.dateTo = 202402, !.limit = 51]),
              Reply([NoQuery EXCEPT !.keywords = {"paie", Junk}, !.category = "bulletin_salaire", !.limit = 2]),
              Reply([NoQuery EXCEPT !.keywords = {Junk}])}

ServicesInit ==
  /\ part \in Services
  /\ EventInit /\ LogInit /\ StartInit /\ LiveInit /\ OllamaInit
  /\ PhotoInit /\ FlowInit /\ TableInit /\ LearnInit /\ ChatInit
  \* where a service starts matters to that service only
  /\ part # "start" => port = "free"
  /\ part # "ollama" => able = {CHOOSE m \in Models : TRUE}
  /\ part # "chat" => archive = {}
  /\ Len(text) = Retain  \* the log starts with all its older generations

Others(rest) == UNCHANGED <<part, rest>>
Early == <<eventVars, logVars, startVars, liveVars, ollamaVars>>
Late == <<photoVars, flowVars, tableVars, learnVars, chatVars>>

EventsMove == part = "events" /\ EventNext /\ Others(<<logVars, startVars, liveVars, ollamaVars, Late>>)
LogMoves == part = "log" /\ LogNext /\ Others(<<eventVars, startVars, liveVars, ollamaVars, Late>>)
StartMoves == part = "start" /\ StartNext /\ Others(<<eventVars, logVars, liveVars, ollamaVars, Late>>)
ReloadMoves == part = "reload" /\ LiveNext /\ Others(<<eventVars, logVars, startVars, ollamaVars, Late>>)
OllamaMoves == part = "ollama" /\ OllamaNext /\ Others(<<eventVars, logVars, startVars, liveVars, Late>>)
PhotosMove == part = "photos" /\ PhotoNext /\ Others(<<Early, flowVars, tableVars, learnVars, chatVars>>)
FlowMoves == part = "flow" /\ FlowNext /\ Others(<<Early, photoVars, tableVars, learnVars, chatVars>>)
TablesMove == part = "tables" /\ TableNext /\ Others(<<Early, photoVars, flowVars, learnVars, chatVars>>)
LessonsMove == part = "lessons" /\ LearnNext /\ Others(<<Early, photoVars, flowVars, tableVars, chatVars>>)
ChatMoves == part = "chat" /\ ChatNext /\ Others(<<Early, photoVars, flowVars, tableVars, learnVars>>)
ServicesNext ==
  \/ EventsMove \/ LogMoves \/ StartMoves \/ ReloadMoves \/ OllamaMoves
  \/ PhotosMove \/ FlowMoves \/ TablesMove \/ LessonsMove \/ ChatMoves

Interchangeable == Permutations({e1, e2})
=============================================================================

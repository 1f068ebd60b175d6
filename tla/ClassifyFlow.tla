---------------------------- MODULE ClassifyFlow ----------------------------
(***************************************************************************)
(* ClassifyPDFText (app/classify): the health check, Step A (entity), Step  *)
(* C (Markdown, chunk by chunk, and one more try for a broken chunk), Step  *)
(* D (classification), each a request to a model server that may stop, be   *)
(* gone or answer badly at any of them; and what becomes of the document    *)
(* then.  What happens to the pair that results is TaxonomyStore's.         *)
(***************************************************************************)
EXTENDS Integers, Sequences, FiniteSets

CONSTANTS
  MaxChunks,    \* chunks of the longest text
  MaxModelFaults, MaxDocuments \* bounds

VARIABLES
  modelUp,    \* the model server listens
  doc,        \* the document under classification
  pieces,     \* convertedChunks, with convertedFlags
  verdict,    \* what the last classification returned
  modelFaults, documents

flowVars == <<modelUp, doc, pieces, verdict, modelFaults, documents>>

\* `chunks' pieces of text; the next chunk `i'; the chunk whose open table the
\* next prompt continues, or 0; the broken chunks to try again.
NoDoc == [pc |-> "none", chunks |-> 0, i |-> 0, cont |-> 0, broken |-> {}, hint |-> FALSE]
NoVerdict == [by |-> "none", failed |-> "none", chunks |-> 0, markdown |-> <<>>]

FlowInit ==
  /\ modelUp = TRUE /\ doc = NoDoc /\ pieces = <<>> /\ verdict = NoVerdict
  /\ modelFaults = 0 /\ documents = 0

Stage(pc) == doc' = [doc EXCEPT !.pc = pc]
ModelFault == modelFaults < MaxModelFaults /\ modelFaults' = modelFaults + 1

\* A request: an answer, or an error of the kinds the client tells apart.
\* A server that is gone refuses; one that stops while it answers closes the
\* connection, which the client sees as a reset or as an early end.
Answered == modelUp /\ UNCHANGED <<modelUp, modelFaults>>
Errs(kind) ==
  \/ kind = "refused" /\ ~modelUp /\ UNCHANGED <<modelUp, modelFaults>>
  \/ kind \in {"status", "timeout"} /\ modelUp /\ ModelFault /\ UNCHANGED modelUp
  \/ kind \in {"reset", "eof"} /\ modelUp /\ ModelFault /\ modelUp' = FALSE
ErrorKinds == {"refused", "status", "timeout", "reset", "eof"}

\* isOllamaDownError: a connection that ended early is not among its cases.
IsOllamaDown(kind) == kind \in {"refused", "timeout", "reset", "unhealthy"}

\* Mutant: any failure is good for the rules.
RulesForAll(kind) ==
  /\ verdict' = [by |-> "rules", failed |-> kind, chunks |-> doc.chunks, markdown |-> [k \in 1 .. doc.chunks |-> [of |-> k, cut |-> FALSE]]]
  /\ doc' = NoDoc /\ pieces' = <<>>

\* The end of a pipeline that failed: the file waits for the server, or the
\* rules classify the raw text.
PipelineFailed(kind) ==
  /\ verdict' = IF IsOllamaDown(kind) THEN [by |-> "nobody", failed |-> kind, chunks |-> 0, markdown |-> <<>>]
                ELSE [by |-> "rules", failed |-> kind, chunks |-> doc.chunks,
                      markdown |-> [k \in 1 .. doc.chunks |-> [of |-> k, cut |-> FALSE]]]
  /\ doc' = NoDoc /\ pieces' = <<>>

\* EnsureOllamaModel; a good answer may be five minutes old.
Start(n) ==
  /\ doc = NoDoc /\ documents < MaxDocuments /\ documents' = documents + 1
  /\ doc' = [NoDoc EXCEPT !.pc = "health", !.chunks = n, !.i = 1] /\ pieces' = <<>> /\ verdict' = NoVerdict
  /\ UNCHANGED <<modelUp, modelFaults>>

Health ==
  /\ doc.pc = "health"
  /\ \/ Stage("entity") /\ UNCHANGED <<pieces, verdict, modelFaults>>
     \/ ~modelUp /\ PipelineFailed("unhealthy") /\ UNCHANGED modelFaults
     \/ modelUp /\ ModelFault /\ PipelineFailed("unhealthy")
  /\ UNCHANGED <<modelUp, documents>>

\* Step A: a failure of any kind only costs the hint.  Markdown of the
\* extractor makes Step C unnecessary, as does a text of blanks.
StepA ==
  /\ doc.pc = "entity"
  /\ \/ Answered /\ \E hint \in BOOLEAN : doc' = [doc EXCEPT !.pc = "convert", !.hint = hint]
     \/ (\E kind \in ErrorKinds : Errs(kind)) /\ Stage("convert")
  /\ UNCHANGED <<pieces, verdict, documents>>

Premade ==
  /\ doc.pc = "convert" /\ doc.i = 1
  /\ pieces' = [k \in 1 .. doc.chunks |-> [of |-> k, by |-> "extractor", cut |-> FALSE, broken |-> FALSE, tail |-> FALSE]]
  /\ Stage("classify")
  /\ UNCHANGED <<modelUp, verdict, modelFaults, documents>>

Converts == doc.pc = "convert" /\ doc.i <= doc.chunks
Piece(by, cut, broken, tail) ==
  pieces' = Append(pieces, [of |-> doc.i, by |-> by, cut |-> cut, broken |-> broken, tail |-> tail])
NextChunk(cont) == doc' = [doc EXCEPT !.i = @ + 1, !.cont = cont]

\* The model's text is used when it is not cut short; a table that is open at
\* its end is continued in the next prompt.
ConvertChunk ==
  /\ Converts /\ Answered
  /\ \E broken, tail \in BOOLEAN :
       /\ Piece("model", FALSE, broken, tail)
       /\ NextChunk(IF tail /\ doc.i < doc.chunks THEN doc.i ELSE 0)
  /\ UNCHANGED <<verdict, documents>>

\* Mutants: the failed chunk is left out; the open table is remembered; the
\* text that was cut short is good enough.
LeaveOutChunk ==
  /\ Converts /\ (Answered \/ \E kind \in ErrorKinds : Errs(kind))
  /\ UNCHANGED pieces /\ NextChunk(0)
  /\ UNCHANGED <<verdict, documents>>
KeepTable ==
  /\ Converts /\ (Answered \/ \E kind \in ErrorKinds : Errs(kind))
  /\ Piece("raw", FALSE, FALSE, FALSE) /\ NextChunk(doc.cont)
  /\ UNCHANGED <<verdict, documents>>

\* An error, an answer cut at the output limit or a blank one: the raw text.
KeepChunk ==
  /\ Converts /\ (Answered \/ \E kind \in ErrorKinds : Errs(kind))
  /\ Piece("raw", FALSE, FALSE, FALSE) /\ NextChunk(0)
  /\ UNCHANGED <<verdict, documents>>

ChunksDone ==
  /\ doc.pc = "convert" /\ doc.i > doc.chunks
  /\ doc' = [doc EXCEPT !.pc = "repair", !.broken = {k \in DOMAIN pieces : pieces[k].by = "model" /\ pieces[k].broken}]
  /\ UNCHANGED <<modelUp, pieces, verdict, modelFaults, documents>>

NextBroken == CHOOSE k \in doc.broken : \A l \in doc.broken : k <= l
Tried == doc' = [doc EXCEPT !.broken = @ \ {NextBroken}]

\* Mutant: whatever the second try gives.
RepairBlindly ==
  /\ doc.pc = "repair" /\ doc.broken # {} /\ Tried
  /\ Answered
  /\ \E cut, broken, tail \in BOOLEAN :
       pieces' = [pieces EXCEPT ![NextBroken] = [@ EXCEPT !.cut = cut, !.broken = broken, !.tail = tail]]
  /\ UNCHANGED <<verdict, documents>>

\* One more try for each broken chunk, on its own, without the table it
\* continued; its text is taken when it is whole and no longer broken.
RepairChunk ==
  /\ doc.pc = "repair" /\ doc.broken # {} /\ Tried
  /\ \/ Answered /\ UNCHANGED pieces
     \/ /\ Answered
        /\ \E tail \in BOOLEAN : pieces' = [pieces EXCEPT ![NextBroken].broken = FALSE, ![NextBroken].tail = tail]
     \/ (\E kind \in ErrorKinds : Errs(kind)) /\ UNCHANGED pieces
  /\ UNCHANGED <<verdict, documents>>

Repaired ==
  /\ doc.pc = "repair" /\ doc.broken = {} /\ Stage("classify")
  /\ UNCHANGED <<modelUp, pieces, verdict, modelFaults, documents>>

\* Step D: an answer that parses, one that does not, or an error.
StepD ==
  /\ doc.pc = "classify"
  /\ \/ /\ Answered /\ doc' = NoDoc /\ pieces' = <<>>
        /\ verdict' = [by |-> "model", failed |-> "none", chunks |-> doc.chunks,
                       markdown |-> [k \in DOMAIN pieces |-> [of |-> pieces[k].of, cut |-> pieces[k].cut]]]
     \/ Answered /\ PipelineFailed("unparsed")
     \/ \E kind \in ErrorKinds : Errs(kind) /\ PipelineFailed(kind)
  /\ UNCHANGED documents

ServerTurns ==
  /\ ModelFault /\ modelUp' = ~modelUp
  /\ UNCHANGED <<doc, pieces, verdict, documents>>

\* ChunkText: a text of blanks has no chunk.
ChunkCounts == 0 .. MaxChunks

FlowNext ==
  \/ \E n \in ChunkCounts : Start(n)
  \/ Health \/ StepA \/ Premade \/ ConvertChunk \/ KeepChunk \/ ChunksDone
  \/ RepairChunk \/ Repaired \/ StepD \/ ServerTurns

FlowSpec == FlowInit /\ [][FlowNext]_flowVars

-----------------------------------------------------------------------------
\* "ZERO CONTENT SKIPPING": the Markdown a document is filed with has every
\* chunk of its text, in order and none cut short, whatever failed on the way.
NothingSkipped ==
  verdict.by = "model" =>
    /\ Len(verdict.markdown) = verdict.chunks
    /\ \A k \in DOMAIN verdict.markdown : verdict.markdown[k].of = k /\ ~verdict.markdown[k].cut

\* The table a prompt continues is the one at the end of the chunk before it:
\* not of an earlier chunk, when a chunk in between was kept as raw text.
ContinuesPrevious ==
  doc.pc = "convert" /\ doc.cont # 0 =>
    doc.cont = doc.i - 1 /\ \E k \in DOMAIN pieces : pieces[k].of = doc.cont /\ pieces[k].tail

\* A document is not classified by the rules because the server could not be
\* reached when the request was made, the check before it having passed.
UnreachableNeverRules == verdict.by = "rules" => verdict.failed \notin {"refused", "unhealthy", "timeout"}

(* What the way of a text promises, taken together: no part of it is left   *)
(* out, a table that goes on is continued, and rules never stand in for a   *)
(* model server that is down.                                               *)
TextWhole == NothingSkipped /\ ContinuesPrevious /\ UnreachableNeverRules
=============================================================================

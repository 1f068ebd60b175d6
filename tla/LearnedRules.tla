---------------------------- MODULE LearnedRules ----------------------------
(* How a user's correction teaches the classifier: manual decisions become  *)
(* STEP 0 rules (decisionrule), follow the rules of the private overlay     *)
(* (promptpersonalization) and are obeyed by the rule-based classifier      *)
(* (classification), whose signal list they stand in front of.              *)
(*                                                                          *)
(* A document is the words of its file name and of its text and the signs   *)
(* the classifier's patterns find in it.  Classifying is a pure function of *)
(* the document and of what the user has taught by then.                    *)
EXTENDS Integers, Sequences, FiniteSets, SequencesExt, FiniteSetsExt

CONSTANTS
    FileNames, Titles,      \* file names and titles, as sequences of words
    Stopwords,              \* words that name a kind of document, not an issuer
    Targets,                \* <<category, subcategory>> a user files under
    MaxKeywordsPerDecision, \* 3 in the code
    MaxDecisionRules,       \* 25
    OverlayRules,           \* the rules a user writes by hand
    Papers,                 \* the sets of signs the documents show
    MaxLessons              \* bound of the model: decisions recorded

ASSUME RulesAssumption == MaxDecisionRules \in Nat \ {0}

VARIABLES
    overlay,    \* the hand-written rules of .prompts.private.json
    lessons,    \* the decisions, newest first
    outcome     \* the last document that was classified and its result

learnVars == <<overlay, lessons, outcome>>

----------------------------------------------------------------------------
(* Rules.                                                                   *)

UsefulToken(w) == w \notin Stopwords
Deduplicated(s) ==
    LET firsts == {i \in DOMAIN s : \A j \in 1..(i - 1) : s[j] # s[i]}
    IN  [k \in 1..Cardinality(firsts) |-> s[SetToSortSeq(firsts, <)[k]]]
(* tokens of both come first, then the file name's, then the title's *)
DeriveRuleKeywords(name, title) ==
    LET both == SelectSeq(name, LAMBDA w : Contains(title, w))
        tokens == SelectSeq(Deduplicated(both \o name \o title), UsefulToken)
    IN  SubSeq(tokens, 1, Min({MaxKeywordsPerDecision, Len(tokens)}))

IsForbiddenSubcategory(sub) == sub \in {"", "general"}
(* keywords that were emptied are derived again *)
KeywordsOf(d) ==
    IF d.keywords = <<>> THEN DeriveRuleKeywords(d.name, d.title)
    ELSE SubSeq(d.keywords, 1, Min({MaxKeywordsPerDecision, Len(d.keywords)}))
Teaches(d) ==
    /\ d.enabled
    /\ d.sub = "" \/ ~IsForbiddenSubcategory(d.sub)
    /\ KeywordsOf(d) # <<>>
RuleFor(d, scope) == [keywords |-> ToSet(KeywordsOf(d)), cat |-> d.cat, sub |-> d.sub, scope |-> scope]
RuleForAll(d) == RuleFor(d, "all")
RuleOf(d) == RuleFor(d, "filename")
(* decision by decision, until there are enough rules *)
DecisionsToPriorityRules(ds) ==
    LET rules[n \in 0..Len(ds)] ==
            IF n = 0 THEN <<>>
            ELSE IF Len(rules[n - 1]) < MaxDecisionRules /\ Teaches(ds[n])
                 THEN Append(rules[n - 1], RuleOf(ds[n]))
                 ELSE rules[n - 1]
    IN  rules[Len(ds)]
LearnedFirst(o, ds) == DecisionsToPriorityRules(ds) \o o
OldestFirst(o, ds) == o \o DecisionsToPriorityRules(Reverse(ds))
PriorityRules(o, ds) == o \o DecisionsToPriorityRules(ds)

KeywordMatches(doc, rule) ==
    rule.keywords \cap (ToSet(doc.name) \cup (IF rule.scope = "all" THEN doc.text ELSE {})) # {}
NoMatch == [keywords |-> {}, cat |-> "", sub |-> "", scope |-> ""]
MatchPriorityRules(doc, rules) ==
    LET first == SelectInSeq(rules, LAMBDA r : r.sub # "" /\ KeywordMatches(doc, r))
    IN  IF first = 0 THEN NoMatch ELSE rules[first]
----------------------------------------------------------------------------
(* RuleBasedClassify: the first sign decides.  `sure' branches name their   *)
(* subcategory themselves; the others do when the text has a detail of      *)
(* theirs or an entity of the dictionary.                                   *)

Branch(sign, cat, sure) == [sign |-> sign, cat |-> cat, sure |-> sure]
Branches == <<
    Branch("fine", "administrative", TRUE), Branch("payslip", "bulletin_salaire", TRUE),
    Branch("internship", "education", TRUE), Branch("2ddoc", "housing", TRUE),
    Branch("contract", "contracts", TRUE), Branch("identity", "identity", FALSE),
    Branch("care", "health", FALSE), Branch("transport", "administrative", TRUE),
    Branch("home", "housing", TRUE), Branch("school", "education", FALSE),
    Branch("client", "factures_clients", FALSE), Branch("invoice", "invoices", FALSE),
    Branch("taxes", "administrative", TRUE), Branch("agency", "administrative", TRUE),
    Branch("insurance", "insurance", FALSE), Branch("insurer", "insurance", TRUE),
    Branch("bank", "bank", TRUE), Branch("recruitment", "recruitment", FALSE),
    Branch("letter", "correspondence", FALSE), Branch("technical", "technical", FALSE),
    Branch("report", "reports", FALSE)>>
(* the entity dictionary, in the order of its domains *)
Entities == <<Branch("bank", "bank", TRUE), Branch("vendor", "invoices", TRUE),
              Branch("insurer", "insurance", TRUE), Branch("agency", "administrative", TRUE),
              Branch("clinic", "health", TRUE)>>
(* what a branch's own look at the dictionary accepts *)
Recognised == [cat \in {b.cat : b \in ToSet(Branches)} |->
    CASE cat = "health" -> {"detail", "clinic"}
      [] cat = "education" -> {"detail"} \cup {e.sign : e \in ToSet(Entities)}
      [] cat = "insurance" -> {"detail", "insurer"}
      [] cat \in {"invoices", "factures_clients"} -> {"detail", "vendor", "word"}
      [] OTHER -> {"detail"}]
(* the fallback of a document that is still "general" *)
Fallbacks == <<Branch("brand", "", TRUE), Branch("confirmation", "administrative", TRUE),
               Branch("cpf", "education", TRUE), Branch("bulletin", "bulletin_salaire", TRUE),
               Branch("facture", "invoices", TRUE)>> \o Entities \o <<Branch("word", "", TRUE)>>
FirstOf(list, doc) == SelectInSeq(list, LAMBDA b : b.sign \in doc.signs)

ByBranch(doc) ==
    LET n == FirstOf(Branches, doc)
        b == Branches[n]
        insured == /\ b.cat \in {"invoices", "factures_clients"} /\ "insurer" \in doc.signs
                   /\ doc.signs \cap {"detail", "vendor"} = {}
    IN  IF n = 0 THEN [cat |-> "administrative", sub |-> "general"]
        ELSE IF insured THEN [cat |-> "insurance", sub |-> "named"]
        ELSE [cat |-> b.cat,
              sub |-> IF b.sure \/ doc.signs \cap Recognised[b.cat] # {} THEN "named" ELSE "general"]
LooksLikeBankStatement(doc, match) == "statement" \in doc.signs \/ match.cat = "bank"
Anchored(doc, match) ==
    \/ LooksLikeBankStatement(doc, match) /\ match.cat # "bank"
    \/ "tax notice" \in doc.signs /\ match.cat # "administrative"
    \/ "pay signs" \in doc.signs /\ match.cat # "bulletin_salaire"
FinesFirst(doc, match) ==
    IF "fine" \in doc.signs THEN ByBranch(doc)
    ELSE IF match # NoMatch /\ ~Anchored(doc, match) THEN [cat |-> match.cat, sub |-> match.sub]
    ELSE IF LooksLikeBankStatement(doc, match) THEN [cat |-> "bank", sub |-> "named"]
    ELSE ByBranch(doc)
Unanchored(doc, match) ==
    IF match # NoMatch /\ ~(LooksLikeBankStatement(doc, match) /\ match.cat # "bank")
    THEN [cat |-> match.cat, sub |-> match.sub]
    ELSE IF LooksLikeBankStatement(doc, match) THEN [cat |-> "bank", sub |-> "named"]
    ELSE ByBranch(doc)
Decided(doc, match) ==
    IF match # NoMatch /\ ~Anchored(doc, match) THEN [cat |-> match.cat, sub |-> match.sub]
    ELSE IF LooksLikeBankStatement(doc, match) THEN [cat |-> "bank", sub |-> "named"]
    ELSE ByBranch(doc)
ByFallback(doc, r) ==
    LET n == FirstOf(Fallbacks, doc)
        f == Fallbacks[n]
        kept == f.cat = "" \/ (f.sign = "facture" /\ r.cat = "factures_clients")
    IN  IF n = 0 THEN r ELSE [cat |-> IF kept THEN r.cat ELSE f.cat, sub |-> "named"]
RuleBasedClassify(doc, rules) ==
    LET r == Decided(doc, MatchPriorityRules(doc, rules))
    IN  IF r.sub = "general" THEN ByFallback(doc, r) ELSE r
----------------------------------------------------------------------------
Words == UNION {ToSet(n) : n \in FileNames} \ Stopwords
Documents == {[name |-> n, text |-> t, signs |-> s] :
                n \in FileNames, t \in {{}} \cup {{w} : w \in Words}, s \in Papers}
NothingFiled == [name |-> <<>>, text |-> {}, signs |-> {}, cat |-> "", sub |-> ""]

LearnInit == overlay = <<>> /\ lessons = <<>> /\ outcome = NothingFiled

(* Record: the keywords are derived unless the caller gives them *)
Decide(name, title, t) ==
    /\ outcome = NothingFiled /\ Len(lessons) < MaxLessons
    /\ lessons' = <<[keywords |-> DeriveRuleKeywords(name, title), cat |-> t[1], sub |-> t[2],
                     enabled |-> TRUE, name |-> name, title |-> title]>> \o lessons
    /\ UNCHANGED <<overlay, outcome>>

Edit(i, enabled, keywords) ==
    /\ outcome = NothingFiled
    /\ lessons' = [lessons EXCEPT ![i].enabled = enabled, ![i].keywords = keywords]
    /\ UNCHANGED <<overlay, outcome>>

Forget(i) ==
    /\ outcome = NothingFiled
    /\ lessons' = RemoveAt(lessons, i)
    /\ UNCHANGED <<overlay, outcome>>

(* the overlay is read again for every document; a file that does not parse *)
(* counts as an empty one                                                   *)
Curate(rules) ==
    /\ outcome = NothingFiled
    /\ overlay' = rules
    /\ UNCHANGED <<lessons, outcome>>

Classify(doc) ==
    LET r == RuleBasedClassify(doc, PriorityRules(overlay, lessons))
    IN  /\ outcome = NothingFiled
        /\ outcome' = [name |-> doc.name, text |-> doc.text, signs |-> doc.signs, cat |-> r.cat, sub |-> r.sub]
        /\ UNCHANGED <<overlay, lessons>>

NextDocument ==
    /\ outcome # NothingFiled /\ outcome' = NothingFiled
    /\ UNCHANGED <<overlay, lessons>>

LearnNext ==
    \/ NextDocument
    \/ \E n \in FileNames, title \in Titles, t \in Targets : Decide(n, title, t)
    \/ \E i \in DOMAIN lessons, e \in BOOLEAN, k \in {<<>>} \cup {<<w>> : w \in Words} : Edit(i, e, k)
    \/ \E i \in DOMAIN lessons : Forget(i)
    \/ \E rules \in {<<>>} \cup {<<r>> : r \in OverlayRules} : Curate(rules)
    \/ \E doc \in Documents : Classify(doc)

LearnSpec == LearnInit /\ [][LearnNext]_learnVars
----------------------------------------------------------------------------
Judged == outcome # NothingFiled
NamedIn(keywords) == keywords \cap ToSet(outcome.name) # {}
Anchors == {"statement", "tax notice", "pay signs"}

(* The feedback loop closes: the newest decision that can teach is obeyed   *)
(* for the next file with one of its words in its name, unless a rule of    *)
(* the user's own overlay or one of the three anchors stands before it.     *)
IsNewest(i) == Teaches(lessons[i]) /\ \A j \in 1..(i - 1) : ~Teaches(lessons[j])
LessonLearned ==
    \A i \in DOMAIN lessons :
        /\ Judged /\ overlay = <<>> /\ IsNewest(i)
        /\ lessons[i].sub # "" /\ NamedIn(ToSet(KeywordsOf(lessons[i])))
        /\ outcome.signs \cap Anchors = {}
        => <<outcome.cat, outcome.sub>> = <<lessons[i].cat, lessons[i].sub>>

(* A decision about one file never moves a file whose name shares no word   *)
(* with it, whatever its text says; the hijacking of 2026-08-31.            *)
NoHijack ==
    Judged /\ (\A i \in DOMAIN lessons : ~NamedIn(ToSet(KeywordsOf(lessons[i])))) =>
        RuleBasedClassify(outcome, PriorityRules(overlay, <<>>)) = [cat |-> outcome.cat, sub |-> outcome.sub]

(* Deliberate curation outranks what was learned.                           *)
CurationWins ==
    LET match == MatchPriorityRules(outcome, overlay)
    IN  Judged /\ match # NoMatch /\ match.sub # "general" /\ outcome.signs \cap Anchors = {} =>
            <<outcome.cat, outcome.sub>> = <<match.cat, match.sub>>

(* Golden Rule 6: a bank statement is filed under bank whatever its rows    *)
(* mention and whatever was taught.  An overlay rule for bank/general is    *)
(* the exception: "general" opens the fallback, which may move it away.     *)
StatementIsBank ==
    Judged /\ "statement" \in outcome.signs
        /\ MatchPriorityRules(outcome, overlay).sub # "general" => outcome.cat = "bank"

(* A tax notice or a document with the signs of a pay slip is filed as if   *)
(* a disagreeing rule were not there; unless the rule says bank.            *)
DisagreesWith(sign, cat) ==
    LET match == MatchPriorityRules(outcome, PriorityRules(overlay, lessons))
    IN  Judged /\ sign \in outcome.signs /\ match # NoMatch /\ match.cat # cat
AsIfUntaught == RuleBasedClassify(outcome, <<>>) = [cat |-> outcome.cat, sub |-> outcome.sub]
OnlyBankOutranks ==
    LET match == MatchPriorityRules(outcome, PriorityRules(overlay, lessons))
    IN  match.cat # "bank" =>
            /\ DisagreesWith("tax notice", "administrative") => AsIfUntaught
            /\ DisagreesWith("pay signs", "bulletin_salaire") => AsIfUntaught

(* "a tax notice or a pay slip is never outranked by a STEP 0 overlay rule  *)
(* whose target category disagrees" (classification.go).                    *)
NeverOutranked == DisagreesWith("tax notice", "administrative") => AsIfUntaught

(* What the rules promise, taken together: the newest lesson is obeyed, no  *)
(* lesson moves unrelated documents, the overlay stands before lessons, a   *)
(* statement is filed under bank, and only bank stands before the anchors.  *)
RulesInOrder == LessonLearned /\ NoHijack /\ CurationWins /\ StatementIsBank /\ OnlyBankOutranks
=============================================================================

--------------------------- MODULE TaxonomyStore ---------------------------
(***************************************************************************)
(* The taxonomy as the program grows it: the committed categories.json, the *)
(* private overlay that holds what was created (store/categories), and the  *)
(* calls that read both, change a copy and save the difference: the          *)
(* classification of a document (app/classify), the user's explicit choice  *)
(* (guards.EnsureCategoryAndSubcategoryExist), the rename of a subcategory  *)
(* and PUT /api/categories.  The store's mutex covers a read or a save, not *)
(* the time in between, and not another process (the MCP server).           *)
(***************************************************************************)
EXTENDS TaxonomyRules

CONSTANTS
  PublicTaxonomy,  \* categories.json
  Callers,         \* goroutines, with the process each runs in:
  Homes,           \*   caller -> set of processes it may be in
  Proposals,       \* what the models and the rules say of a document
  UserEdits,       \* what a user may ask for
  MaxCalls,        \* bound: calls begun
  MaxHints,        \* MaxTaxonomyHints, scaled down
  MaxCrashes       \* bound: crashes

Slug == DOMAIN Spelling
SubcategoryItem == [id : Slug, aliases : SUBSET Slug]
CategoryItem == [id : Slug, aliases : SUBSET Slug, subs : Seq(SubcategoryItem)]
Proposal == [cat : Slug, sub : Slug, grounded : SUBSET Slug, rule : [cat : Slug, sub : Slug],
             entity : [kind : {"none", "bank", "other"}, cat : Slug, sub : Slug], tax : BOOLEAN]
UserEdit == [op : {"ensure", "rename", "put"}, cat : Slug, sub : Slug, to : Slug]

\* The committed file names a category once, as the merge by ids takes for granted;
\* a slug contains itself, and "general" is refused.
ASSUME TaxonomyAssumption ==
  /\ PublicTaxonomy \in Seq(CategoryItem)
  /\ \A i, j \in DOMAIN PublicTaxonomy : PublicTaxonomy[i].id = PublicTaxonomy[j].id => i = j
  /\ Proposals \subseteq Proposal /\ UserEdits \subseteq UserEdit
  /\ {"administrative", "bulletin_salaire", "general"} \subseteq Slug /\ "general" \in Sentinels
  /\ Undated \in [Slug -> Slug \cup {""}]
  /\ \A s \in Slug : <<s, s>> \in Inside
  /\ {MaxCalls, MaxHints, MaxCrashes} \subseteq Nat

VARIABLES
  overlay,   \* .categories.private.json: the list it holds, or torn
  home,      \* the process of each caller
  caller,    \* per caller: where its call is and the copy it holds
  hints,     \* the taxonomy hints, newest first
  calls, crashes,
  stale,     \* a call saved a copy older than another call's save
  edited,    \* a user's edit was saved
  shrunk,    \* ... one that removes or renames
  lost,      \* a save replaced an overlay that it could not read
  renamed    \* the rename saved last, unless an edit that may undo it followed

taxonomyVars == <<overlay, home, caller, hints, calls, crashes, stale, edited, shrunk, lost, renamed>>

Torn   == [ok |-> FALSE, cats |-> <<>>]
NoCall == [pc |-> "idle", op |-> "", arg |-> <<>>, copy |-> <<>>, old |-> FALSE,
           blind |-> FALSE, cat |-> "", sub |-> "", asIs |-> FALSE]

TaxonomyInit ==
  /\ overlay = [ok |-> TRUE, cats |-> <<>>]
  /\ home \in [Callers -> UNION {Homes[c] : c \in Callers}]
  /\ \A c \in Callers : home[c] \in Homes[c]
  /\ caller = [c \in Callers |-> NoCall]
  /\ hints = <<>> /\ calls = 0 /\ crashes = 0
  /\ stale = FALSE /\ edited = FALSE /\ shrunk = FALSE /\ lost = FALSE
  /\ renamed = {}

\* mergeCategories: the overlay's new categories after the public ones, its
\* new subcategories after those of a category both have.
MergedSubs(base, over) == base \o Without(over, Ids(base))
MergeCategories(base, over) ==
  [i \in DOMAIN base |->
     IF base[i].id \in Ids(over)
     THEN [base[i] EXCEPT !.subs = MergedSubs(@, SubsOf(over, base[i].id))] ELSE base[i]]
  \o Without(over, Ids(base))

\* GetCategoriesConfig: an unreadable overlay counts as none; subcategories
\* with a forbidden name are left out.
Stripped(config) == [i \in DOMAIN config |-> [config[i] EXCEPT !.subs = Without(@, Forbidden)]]
Config == Stripped(MergeCategories(PublicTaxonomy, overlay.cats))

\* Mutant: only categories that are not public are private.
NewCategoriesOnly(config) == Without(config, Ids(PublicTaxonomy))

\* saveLocked: the categories and subcategories that are not public.
PrivateDiff(config) ==
  LET Diff(c) == IF c.id \in Ids(PublicTaxonomy)
                 THEN [c EXCEPT !.subs = Without(@, Ids(SubsOf(PublicTaxonomy, c.id)))] ELSE c
      all == [i \in DOMAIN config |-> Diff(config[i])]
  IN  Sift(all, {c \in ToSet(all) : c.id \notin Ids(PublicTaxonomy) \/ c.subs # <<>>})

\* Mutant: the store without its mutex.
NeverSaving(process) == FALSE

Saving(process) == \E c \in Callers : caller[c].pc = "saving" /\ home[c] = process

\* Mutant: what is read to be changed is the committed file.
LoadPublic(c, op, arg) ==
  /\ caller[c].pc \in {"idle", "done"} /\ calls < MaxCalls
  /\ ~Saving(home[c])
  /\ calls' = calls + 1
  /\ caller' = [caller EXCEPT ![c] =
       [NoCall EXCEPT !.pc = op, !.op = op, !.arg = arg, !.copy = PublicTaxonomy, !.blind = ~overlay.ok]]
  /\ UNCHANGED <<overlay, home, hints, crashes, stale, edited, shrunk, lost, renamed>>

Load(c, op, arg) ==
  /\ caller[c].pc \in {"idle", "done"} /\ calls < MaxCalls
  /\ ~Saving(home[c])
  /\ calls' = calls + 1
  /\ caller' = [caller EXCEPT ![c] =
       [NoCall EXCEPT !.pc = op, !.op = op, !.arg = arg, !.copy = Config, !.blind = ~overlay.ok]]
  /\ UNCHANGED <<overlay, home, hints, crashes, stale, edited, shrunk, lost, renamed>>

ToSave(c, copy) == [caller[c] EXCEPT !.pc = "save", !.copy = copy]

\* SaveCategoriesConfig under the mutex: os.WriteFile empties the overlay,
\* then writes it.
SaveBegin(c) ==
  /\ caller[c].pc = "save"
  /\ ~Saving(home[c])
  /\ overlay' = Torn
  /\ caller' = [caller EXCEPT ![c].pc = "saving"]
  /\ stale' = (stale \/ caller[c].old \/ \E d \in Callers : caller[d].pc = "saving")
  /\ lost' = (lost \/ caller[c].blind)
  /\ edited' = (edited \/ caller[c].op # "category")
  /\ shrunk' = (shrunk \/ caller[c].op \in {"rename", "put"})
  /\ renamed' = IF caller[c].op \in {"rename", "put"} THEN {} ELSE renamed
  /\ UNCHANGED <<home, hints, calls, crashes>>

\* What a saver does next: a classification that made a category goes on to
\* the subcategory.
SaveEnd(c) ==
  /\ caller[c].pc = "saving"
  /\ overlay' = [ok |-> TRUE, cats |-> PrivateDiff(caller[c].copy)]
  /\ caller' = [d \in Callers |->
       IF d = c THEN [caller[c] EXCEPT !.pc = IF caller[c].op = "category" /\ caller[c].sub = ""
                                               THEN "subcategory" ELSE "done"]
       ELSE [caller[d] EXCEPT !.old = (caller[d].pc \notin {"idle", "done"})]]
  /\ renamed' = IF caller[c].op = "rename" /\ caller[c].sub # ""
                THEN {[cat |-> caller[c].arg.cat, sub |-> caller[c].sub, to |-> caller[c].arg.to]} ELSE renamed
  /\ UNCHANGED <<home, hints, calls, crashes, stale, edited, shrunk, lost>>

-----------------------------------------------------------------------------
\* ApplyEntityPriorityOverride: a bank of the dictionary always wins, another
\* entity of the dictionary over a category nothing better was found for.
WeakFallbackCategories == {"correspondence", "other", "personal", ""}
EntityOverride(p) ==
  IF \/ p.entity.kind = "bank" /\ p.entity.cat # p.cat
     \/ p.entity.kind = "other" /\ p.cat \in WeakFallbackCategories
  THEN [p EXCEPT !.cat = p.entity.cat, !.sub = p.entity.sub] ELSE p

\* RefineClassification: the rules replace a category that says nothing and a
\* "general" subcategory.
Refined(p) ==
  LET vague == \/ p.cat \in {"personal", "other", ""}
               \/ p.cat = "correspondence" /\ p.rule.cat = "administrative"
      cat   == IF vague THEN p.rule.cat ELSE p.cat
      new   == p.sub = "general" /\ p.rule.sub # "general"
  IN  IF ~(p.cat \in {"personal", "other"} \/ p.sub = "general" \/ (p.cat = "correspondence" /\ p.tax))
      THEN p
      ELSE [p EXCEPT
              !.cat = IF new /\ cat \in {"correspondence", "other"} THEN p.rule.cat ELSE cat,
              !.sub = IF new THEN p.rule.sub
                      ELSE IF p.sub = "general" /\ cat = "bulletin_salaire"
                      THEN "bulletin_salaire" ELSE p.sub]

Proposed(p) == Refined(EntityOverride(p))

HintOf(p, k) == [cat |-> p.cat, sub |-> p.sub, toCat |-> k.cat, toSub |-> k.sub]
Newest(list) == SubSeq(list, 1, IF Len(list) < MaxHints THEN Len(list) ELSE MaxHints)

\* Mutant: a hint is recorded again each time.
HintedAgain(list, p, conflict) ==
  IF conflict = {} THEN list ELSE Newest(<<HintOf(p, CHOOSE k \in conflict : TRUE)>> \o list)

\* RecordTaxonomyHint: newest first, at most MaxHints, none twice.
Hinted(list, p, conflict) ==
  IF conflict = {} \/ \E k \in conflict : HintOf(p, k) \in ToSet(list) THEN list
  ELSE Newest(<<HintOf(p, CHOOSE k \in conflict : TRUE)>> \o list)

\* ClassifyPDFText once the model has answered: the category ...
ResolveCategoryStep(c) ==
  /\ caller[c].pc = "category"
  /\ \E p \in {Proposed(caller[c].arg)} : \E r \in {ResolveCategory(caller[c].copy, CategorySlug(p.cat))} :
         /\ hints' = Hinted(hints, p, r.conflict)
         /\ caller' = [caller EXCEPT ![c] = [@ EXCEPT
              !.pc = IF r.isNew THEN "save" ELSE "subcategory",
              !.copy = r.config, !.cat = r.id]]
  /\ UNCHANGED <<overlay, home, calls, crashes, stale, edited, shrunk, lost, renamed>>

\* ... then the subcategory; one that comes out "general" though something else
\* was proposed is replaced by the rules' pair or, of a payslip, by the name of
\* the category, as it is.
ResolveSubcategoryStep(c) ==
  /\ caller[c].pc = "subcategory"
  /\ \E p \in {Proposed(caller[c].arg)} :
     \E r \in {ResolveSubcategory(caller[c].copy, caller[c].cat, SubcategorySlug(p.sub),
                                  p.grounded, p.rule.sub)} :
     LET cat   == IF r.conflict = {} THEN caller[c].cat ELSE (CHOOSE k \in r.conflict : TRUE).cat
         rejected == r.id = "general" /\ p.sub # "general"
         given    == rejected /\ p.rule.sub # "general"
         payslip  == rejected /\ ~given /\ cat = "bulletin_salaire"
     IN  /\ hints' = Hinted(hints, p, r.conflict)
         /\ caller' = [caller EXCEPT ![c] = [@ EXCEPT
              !.pc = IF r.isNew THEN "save" ELSE "done",
              !.copy = r.config,
              !.cat = IF given THEN p.rule.cat ELSE cat,
              !.sub = IF given THEN p.rule.sub
                      ELSE IF payslip THEN "bulletin_salaire" ELSE r.id,
              !.asIs = given \/ payslip]]
  /\ UNCHANGED <<overlay, home, calls, crashes, stale, edited, shrunk, lost, renamed>>

-----------------------------------------------------------------------------
\* EnsureCategoryAndSubcategoryExist: a category and a subcategory that are not
\* there are added, without the duplicate guard; the save happens in any case.
Ensured(config, cat, sub) ==
  LET with == IF Category(config, cat) # {} THEN config
              ELSE Append(config, [id |-> cat, aliases |-> {cat}, subs |-> <<>>])
  IN  IF Known(with, cat, sub) THEN with ELSE WithSub(with, cat, sub)

EnsureStep(c) ==
  /\ caller[c].pc = "ensure"
  /\ caller' = [caller EXCEPT ![c] =
       [ToSave(c, Ensured(caller[c].copy, caller[c].arg.cat, caller[c].arg.sub))
          EXCEPT !.cat = caller[c].arg.cat, !.sub = caller[c].arg.sub]]
  /\ UNCHANGED <<overlay, home, hints, calls, crashes, stale, edited, shrunk, lost, renamed>>

\* A rename after which nothing but the new name can answer to the old one:
\* neither is public, and no third subcategory answers to it.
Tellable(copy, a) ==
  /\ Known(copy, a.cat, a.sub) /\ {a.sub, a.to} \cap Forbidden = {}
  /\ \A s \in ToSet(SubsOf(copy, a.cat)) : Matches(s, a.sub) => s.id \in {a.sub, a.to}
  /\ a.cat \in Ids(PublicTaxonomy) =>
       \A s \in ToSet(SubsOf(PublicTaxonomy, a.cat)) : s.id # a.to /\ ~Matches(s, a.sub)

\* The rename of a subcategory: the taxonomy's part of the handler.
RenameStep(c) ==
  /\ caller[c].pc = "rename"
  /\ LET a == caller[c].arg
         copy == caller[c].copy
     IN  caller' = [caller EXCEPT ![c] =
           [ToSave(c, MergeSubcategory(copy, a.cat, a.sub, a.to))
              EXCEPT !.sub = IF Tellable(copy, a) THEN a.sub ELSE ""]]
  /\ UNCHANGED <<overlay, home, hints, calls, crashes, stale, edited, shrunk, lost, renamed>>

\* PUT /api/categories: the page's copy, a subcategory taken out.
PutStep(c) ==
  /\ caller[c].pc = "put"
  /\ LET a == caller[c].arg
         copy == caller[c].copy
     IN  caller' = [caller EXCEPT ![c] = ToSave(c,
           [i \in DOMAIN copy |-> IF copy[i].id = a.cat
              THEN [copy[i] EXCEPT !.subs = Without(@, {a.sub})] ELSE copy[i]])]
  /\ UNCHANGED <<overlay, home, hints, calls, crashes, stale, edited, shrunk, lost, renamed>>

\* A process dies; a save in progress leaves an empty overlay.
TaxonomyCrash(process) ==
  /\ crashes < MaxCrashes
  /\ crashes' = crashes + 1
  /\ caller' = [c \in Callers |-> IF home[c] = process THEN NoCall ELSE caller[c]]
  /\ UNCHANGED <<overlay, home, hints, calls, stale, edited, shrunk, lost, renamed>>

TaxonomyNext ==
  \/ \E c \in Callers :
       \/ \E p \in Proposals : Load(c, "category", p)
       \/ \E a \in UserEdits : Load(c, a.op, a)
       \/ ResolveCategoryStep(c) \/ ResolveSubcategoryStep(c)
       \/ EnsureStep(c) \/ RenameStep(c) \/ PutStep(c)
       \/ SaveBegin(c) \/ SaveEnd(c)
  \/ \E c \in Callers : TaxonomyCrash(home[c])

TaxonomySpec == TaxonomyInit /\ [][TaxonomyNext]_taxonomyVars

-----------------------------------------------------------------------------
Steady == ~stale /\ ~lost

\* The one-instance-per-subcategory rule: classifications never bring a
\* spelling into a second category, whatever the models propose and whatever
\* copies they save.  Where two categories spell one subcategory, both do so in
\* the public file (the comment on FindCanonicalCategoryForSubcategory counts 42).
OneInstance ==
  LET Spells(config) == {<<c.cat, Spelling[c.sub]>> : c \in Candidates(config)}
  IN  ~edited => \A x, y \in Spells(Config) :
        x[1] # y[1] /\ x[2] = y[2] => x \in Spells(PublicTaxonomy)

\* Golden Rule 5, "the category/subcategory must exist in categories.json
\* BEFORE any physical file move", for everything a classification returns
\* that is not blocked by its name.
ResultKnown(c) ==
  overlay.ok /\ caller[c].pc = "done" /\ caller[c].sub \notin Forbidden
    => Known(Config, caller[c].cat, caller[c].sub)

\* It holds for the user's explicit choices and for every classification but
\* one whose pair is the rules' own or the payslips': it is returned as it is.
ResolvedIsKnown ==
  \A c \in Callers : caller[c].op \in {"category", "ensure"} /\ ~caller[c].asIs
                     /\ ~shrunk /\ Steady => ResultKnown(c)

\* What was created stays: as long as nothing is renamed or taken out, no save
\* forgets a private subcategory with a valid name, unless it saves a copy
\* older than another save or made when the overlay could not be read.
CreatedStays ==
  [][\A c \in Callers :
       /\ caller[c].pc = "save" /\ caller'[c].pc = "saving"
       /\ overlay.ok /\ ~shrunk' /\ ~stale' /\ ~lost'
       => Pairs(Config) \subseteq
            Pairs(MergeCategories(PublicTaxonomy, PrivateDiff(caller[c].copy)))]_taxonomyVars

\* Every hint a prompt is told to obey names an entry that exists, there is at
\* most MaxHints of them and none twice.
HintsLeadHome ==
  /\ Len(hints) <= MaxHints /\ IsInjective(hints)
  /\ Steady /\ ~shrunk /\ overlay.ok =>
       \A h \in ToSet(hints) : IF h.toSub = "" THEN Category(Config, h.toCat) # {}
                               ELSE Known(Config, h.toCat, h.toSub)

\* A private subcategory that was renamed stays renamed: the old name resolves
\* to the new one, whatever is classified or chosen, crashes or overlaps after
\* it, until the next rename or removal.
RenameSticks ==
  overlay.ok /\ Steady => \A r \in renamed :
    ResolveSubcategory(Config, r.cat, r.sub, {r.sub}, "general").id = r.to

TaxonomyTypeOK ==
  /\ calls \in 0..MaxCalls /\ crashes \in 0..MaxCrashes
  /\ \A c \in Callers : home[c] \in Homes[c]
  /\ \A c, d \in Callers : {caller[c].pc, caller[d].pc} = {"saving"} /\ home[c] = home[d] => c = d

(* What the taxonomy promises, taken together: one category spells a        *)
(* subcategory, a classification ends in a pair that exists, hints lead to  *)
(* entries that exist, and a rename resolves the old spelling.              *)
TaxonomyKept ==
  TaxonomyTypeOK /\ OneInstance /\ ResolvedIsKnown /\ HintsLeadHome /\ RenameSticks
=============================================================================

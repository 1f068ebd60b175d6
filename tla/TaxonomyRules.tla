--------------------------- MODULE TaxonomyRules ---------------------------
(***************************************************************************)
(* How a category and a subcategory proposed for a document are resolved    *)
(* against the taxonomy: classificationresolution, the duplicate guard of   *)
(* taxonomyconflicts and the merge of two subcategories of taxonomy.  A     *)
(* taxonomy is a sequence of categories [id, aliases, subs], a subcategory  *)
(* is [id, aliases]; the spelling of slugs is given by the constants.       *)
(***************************************************************************)
EXTENDS Integers, Sequences, FiniteSets, SequencesExt

CONSTANTS
  Spelling,    \* slug -> its form without accents and separators
  Likeness,    \* pair of spellings -> similarity, in percent
  Inside,      \* pairs of slugs <<a, b>>: a occurs in b
  Comparable,  \* slugs of at least MinCompareLength letters
  Undated,     \* slug -> without the date it ends in ("" of a bare year)
  Sentinels,   \* the literal forbidden slugs ("general", "other", "pdf", ...)
  Malformed    \* other slugs IsForbiddenSubcategory rejects (years, *_pdf, ...)

NearDuplicateThreshold == 82

\* The slugs IsForbiddenSubcategory refuses.
Forbidden == Sentinels \cup Malformed \cup {""}

Ratio(a, b) == IF Spelling[a] = Spelling[b] THEN 100
               ELSE Likeness[<<Spelling[a], Spelling[b]>>]

\* The items of a sequence that are in a set, in their order.
Sift(seq, S) ==
  LET kept[n \in 0 .. Len(seq)] ==
        IF n = 0 THEN <<>>
        ELSE IF seq[n] \in S THEN Append(kept[n - 1], seq[n]) ELSE kept[n - 1]
  IN  kept[Len(seq)]

Ids(items) == {x.id : x \in ToSet(items)}
Without(items, ids) == Sift(items, {x \in ToSet(items) : x.id \notin ids})

\* The first item of a sequence that satisfies P, wrapped in a set.
FirstOf(seq, P(_)) ==
  {seq[i] : i \in {k \in DOMAIN seq : P(seq[k]) /\ \A j \in 1 .. k - 1 : ~P(seq[j])}}

\* `c.ID == slug || aliases.some(a => slug.includes(a))`
Matches(item, slug) == item.id = slug \/ \E a \in item.aliases : <<a, slug>> \in Inside

Category(config, id) == FirstOf(config, LAMBDA c : c.id = id)

\* collectSubcategoryCandidates: each with the place where the loops meet it.
Candidates(config) ==
  UNION {{[cat |-> config[i].id, sub |-> config[i].subs[j].id,
           aliases |-> config[i].subs[j].aliases, at |-> <<i, j>>] :
            j \in {k \in DOMAIN config[i].subs : config[i].subs[k].id \notin Forbidden}} :
          i \in DOMAIN config}

Earliest(S) ==
  {c \in S : \A d \in S : c.at[1] < d.at[1] \/ (c.at[1] = d.at[1] /\ c.at[2] <= d.at[2])}
\* The earliest candidate with the greatest measure.
BestOf(S, measure(_)) == Earliest({c \in S : \A d \in S : measure(d) <= measure(c)})

\* FindSubcategoryConflict: an exact spelling elsewhere, else an alias with
\* that spelling, else the nearest spelling of an id, else of an alias.  An
\* exact spelling in the current category ends the search without a conflict.
FindSubcategoryConflict(config, current, slug) ==
  LET all   == Candidates(config)
      exact == Earliest({c \in all : Spelling[c.sub] = Spelling[slug]})
      alias == Earliest({c \in all : \E a \in c.aliases : Spelling[a] = Spelling[slug]})
      near  == BestOf({c \in all : Ratio(slug, c.sub) >= NearDuplicateThreshold},
                      LAMBDA c : Ratio(slug, c.sub))
      AliasRatio(c) == LET rs == {Ratio(slug, a) : a \in c.aliases \cap Comparable}
                       IN  IF rs = {} THEN 0 ELSE CHOOSE r \in rs : \A q \in rs : q <= r
      nearAlias == BestOf({c \in all : AliasRatio(c) >= NearDuplicateThreshold}, AliasRatio)
      found == CASE exact # {}           -> {c \in exact : c.cat # current}
                 [] exact = {} /\ alias # {} -> alias
                 [] OTHER -> IF slug \notin Comparable THEN {}
                             ELSE IF near # {} THEN near ELSE nearAlias
  IN  IF slug \in Forbidden THEN {} ELSE {[cat |-> c.cat, sub |-> c.sub] : c \in found}

\* FindCategoryConflict: a category spelt nearly so, else a subcategory that is
\* the proposed category, or nearly.
FindCategoryConflict(config, slug) ==
  LET Near(c) == /\ slug \in Comparable
                 /\ c.id \notin Forbidden
                 /\ Spelling[c.id] # Spelling[slug]
                 /\ Ratio(slug, c.id) >= NearDuplicateThreshold
      near == FirstOf(config, LAMBDA c :
                Near(c) /\ \A d \in ToSet(config) : Near(d) => Ratio(slug, d.id) <= Ratio(slug, c.id))
      entity == BestOf({c \in Candidates(config) : Ratio(slug, c.sub) >= NearDuplicateThreshold},
                       LAMBDA c : Ratio(slug, c.sub))
  IN  IF near # {} THEN {[cat |-> c.id, sub |-> ""] : c \in near}
      ELSE {[cat |-> c.cat, sub |-> c.sub] : c \in entity}

\* The slugs the two resolutions begin with: no category is "administrative", a
\* subcategory loses its date, and nothing left of it is "general".
CategorySlug(cat) == IF cat = "" THEN "administrative" ELSE cat
SubcategorySlug(sub) == IF Undated[sub] = "" THEN "general" ELSE Undated[sub]

\* ResolveCategory: an existing category, the one a conflict names, or a new one.
ResolveCategory(config, slug) ==
  LET known    == FirstOf(config, LAMBDA c : Matches(c, slug))
      conflict == IF known # {} THEN {} ELSE FindCategoryConflict(config, slug)
      new      == known = {} /\ conflict = {}
  IN  [id |-> IF known # {} THEN (CHOOSE c \in known : TRUE).id
              ELSE IF conflict # {} THEN (CHOOSE c \in conflict : TRUE).cat ELSE slug,
       isNew |-> new, conflict |-> conflict,
       config |-> IF new THEN Append(config, [id |-> slug, aliases |-> {slug}, subs |-> <<>>])
                  ELSE config]

WithSub(config, cat, slug) ==
  [i \in DOMAIN config |->
     IF config[i].id = cat
     THEN [config[i] EXCEPT !.subs = Append(@, [id |-> slug, aliases |-> {slug}])]
     ELSE config[i]]

SubsOf(config, cat) == (CHOOSE c \in Category(config, cat) : TRUE).subs

Unresolved(config, id) == [id |-> id, isNew |-> FALSE, conflict |-> {}, config |-> config]

\* Mutant: the duplicate guard is asked and not obeyed.
CreateSubBlind(config, cat, slug) ==
  [id |-> slug, isNew |-> TRUE, conflict |-> {}, config |-> WithSub(config, cat, slug)]

\* A slug that is grounded in the document and not in its category: the
\* subcategory that a conflict names, or a new one.
CreateSub(config, cat, slug) ==
  LET conflict == FindSubcategoryConflict(config, cat, slug)
  IN  [id |-> IF conflict = {} THEN slug ELSE (CHOOSE c \in conflict : TRUE).sub,
       isNew |-> conflict = {}, conflict |-> conflict,
       config |-> IF conflict = {} THEN WithSub(config, cat, slug) ELSE config]

\* ResolveSubcategory: `grounded' is the set of slugs the document's text bears
\* out, `rule' the subcategory the rule-based classifier gives.  A forbidden
\* slug is returned as it is; an ungrounded one becomes the rule's, if that is
\* known or grounded, or "general".
ResolveSubcategory(config, cat, slug, grounded, rule) ==
  LET subs  == SubsOf(config, cat)
      known == FirstOf(subs, LAMBDA s : Matches(s, slug))
      conflict == FindSubcategoryConflict(config, cat, slug)
      fallback == FirstOf(subs, LAMBDA s :
                    s.id = rule \/ \E a \in s.aliases : {<<a, rule>>, <<rule, a>>} \cap Inside # {})
  IN  CASE slug \in Sentinels              -> Unresolved(config, slug)
        [] slug \notin Sentinels /\ known # {} ->
             Unresolved(config, (CHOOSE s \in known : TRUE).id)
        [] OTHER ->
             IF conflict # {} \/ slug \in grounded THEN CreateSub(config, cat, slug)
             ELSE IF rule \in Sentinels THEN Unresolved(config, "general")
             ELSE IF fallback # {} THEN Unresolved(config, (CHOOSE s \in fallback : TRUE).id)
             ELSE IF rule \in grounded THEN CreateSub(config, cat, rule)
             ELSE Unresolved(config, "general")

\* Mutant: the old spelling is not kept as an alias.
MergeForgetting(config, cat, from, to) ==
  [i \in DOMAIN config |-> IF config[i].id = cat
     THEN [config[i] EXCEPT !.subs =
             Append(Without(@, {from, to}), [id |-> to, aliases |-> {to}])]
     ELSE config[i]]

\* MergeSubcategoryInTaxonomy, in place: `to' takes over the aliases of `from'
\* and both names; `from' is renamed when there is no `to'.
MergeSubcategory(config, cat, from, to) ==
  LET Merged(subs) ==
        LET source == FirstOf(subs, LAMBDA s : s.id = from)
            target == FirstOf(subs, LAMBDA s : s.id = to)
            names  == {from, to} \cup UNION {s.aliases : s \in source}
        IN  IF target # {}
            THEN LET kept == Without(subs, {from})
                 IN  [i \in DOMAIN kept |-> IF kept[i].id = to
                        THEN [kept[i] EXCEPT !.aliases = @ \cup names] ELSE kept[i]]
            ELSE IF source # {}
            THEN [i \in DOMAIN subs |-> IF subs[i].id = from
                    THEN [id |-> to, aliases |-> names] ELSE subs[i]]
            ELSE Append(subs, [id |-> to, aliases |-> {to}])
  IN  IF from = to \/ "" \in {from, to} THEN config
      ELSE [i \in DOMAIN config |-> IF config[i].id = cat
              THEN [config[i] EXCEPT !.subs = Merged(@)] ELSE config[i]]

Pairs(config) == UNION {{<<c.id, s.id>> : s \in ToSet(c.subs)} : c \in ToSet(config)}
Known(config, cat, sub) == \E c \in ToSet(config) : c.id = cat /\ \E s \in ToSet(c.subs) : s.id = sub
=============================================================================

------------------------------ MODULE MCStores ------------------------------
(* The stores that keep files and answer to calls that overlap: the manual  *)
(* decisions with their mirror, the settings, the JSON mirror of the        *)
(* documents and the taxonomy overlay.  No two of them touch the same state *)
(* or wait for one another, so a behaviour moves one of them and leaves the *)
(* rest where they start.                                                   *)
EXTENDS Mirrors, Settings, TaxonomyStore, TLC

CONSTANTS e1, e2, r1, c1, c2

VARIABLE part  \* the store that moves

S == {"administrative", "administratif", "bank", "edf", "e_d_f", "credit_mutuel",
      "creditmutuel", "caisse_mutuel", "mutuel", "orange", "oranges", "media", "free",
      "correspondence", "other", "personal", "bulletin_salaire", "general", "recu_pdf", "orange_2024", "2024", ""}
MCSpelling == [s \in S |-> CASE s = "e_d_f" -> "edf" [] s = "credit_mutuel" -> "creditmutuel" [] OTHER -> s]
MCLikeness == [p \in S \X S |-> IF p \in {<<"administrative", "administratif">>, <<"administratif", "administrative">>,
                 <<"orange", "oranges">>, <<"oranges", "orange">>} THEN 85 ELSE 20]
MCInside == {<<s, s>> : s \in S} \cup {<<"mutuel", "caisse_mutuel">>, <<"orange", "oranges">>}
MCComparable == S \ {"edf", ""}
MCUndated == [s \in S |-> CASE s = "orange_2024" -> "orange" [] s = "2024" -> "" [] OTHER -> s]
MCPublic == <<[id |-> "administrative", aliases |-> {"administrative"}, subs |-> <<[id |-> "edf", aliases |-> {"edf"}]>>],
              [id |-> "bank", aliases |-> {"bank"}, subs |-> <<[id |-> "credit_mutuel", aliases |-> {"creditmutuel", "mutuel"}], [id |-> "edf", aliases |-> {"edf"}]>>]>>
NoEntity == [kind |-> "none", cat |-> "", sub |-> ""]
Doc(c, s, g, rc, rs) == [cat |-> c, sub |-> s, grounded |-> g, rule |-> [cat |-> rc, sub |-> rs], entity |-> NoEntity, tax |-> FALSE]
MCProposals == {
  Doc("administratif", "e_d_f", {"e_d_f"}, "administrative", "general"),
  Doc("media", "orange_2024", {"orange"}, "administrative", "general"),
  Doc("bulletin_salaire", "oranges", {}, "administrative", "general"),
  Doc("", "2024", {}, "administrative", "general"),
  Doc("edf", "recu_pdf", {"recu_pdf"}, "bank", "general"),
  [Doc("correspondence", "free", {}, "media", "orange") EXCEPT !.entity = [kind |-> "other", cat |-> "administrative", sub |-> "free"]],
  [Doc("administrative", "free", {"free"}, "administrative", "general") EXCEPT !.entity = [kind |-> "bank", cat |-> "bank", sub |-> "creditmutuel"], !.tax = TRUE] }
MCUserEdits == {[op |-> "ensure", cat |-> "bank", sub |-> "orange", to |-> ""],
                [op |-> "rename", cat |-> "media", sub |-> "orange", to |-> "free"],
                [op |-> "put", cat |-> "media", sub |-> "orange", to |-> ""]}
MCHomes == (c1 :> {"web"}) @@ (c2 :> {"web", "mcp"})
MCDenylists == {<<>>, <<"name">>}

StoresInit ==
  /\ part \in {"decisions", "settings", "registry", "taxonomy"}
  /\ DecisionInit /\ SettingsInit /\ MirrorInit /\ TaxonomyInit
  \* the environment and the migration have nothing to do with one another
  /\ \/ env = [lang |-> "", out |-> ""]
     \/ \A n \in LegacyNames : legacy[n] = "none" /\ parked[n] = "none"
  \* where a store starts matters to that store only
  /\ part # "settings" => /\ env = [lang |-> "", out |-> ""]
                          /\ \A n \in LegacyNames : legacy[n] = "none" /\ parked[n] = "none"
  /\ part # "taxonomy" => \A c \in Callers : home[c] = "web"

DecisionsMove == part = "decisions" /\ DecisionNext /\ UNCHANGED <<part, settingsVars, mirrorVars, taxonomyVars>>
SettingsMove == part = "settings" /\ SettingsNext /\ UNCHANGED <<part, decisionVars, mirrorVars, taxonomyVars>>
RegistryMoves == part = "registry" /\ MirrorNext /\ UNCHANGED <<part, decisionVars, settingsVars, taxonomyVars>>
TaxonomyMoves == part = "taxonomy" /\ TaxonomyNext /\ UNCHANGED <<part, decisionVars, settingsVars, mirrorVars>>
Interchangeable == Permutations({e1, e2})
StoresNext == DecisionsMove \/ SettingsMove \/ RegistryMoves \/ TaxonomyMoves
=============================================================================

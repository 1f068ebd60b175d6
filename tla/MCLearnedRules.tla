--------------------------- MODULE MCLearnedRules ---------------------------
(* Instances of LearnedRules for TLC: two file names, one title that shares *)
(* a word with the first, and documents that show the signs of two kinds.   *)
EXTENDS LearnedRules

MCNames == {<<"acme", "facture">>, <<"orange">>}
MCTitles == {<<"acme">>}
MCTargets == {<<"invoices", "acme">>, <<"health", "">>}
OverlayRule(w, cat, sub, scope) == [keywords |-> {w}, cat |-> cat, sub |-> sub, scope |-> scope]
MCOverlayRules == {OverlayRule("acme", "bank", "general", "all"),
                   OverlayRule("orange", "invoices", "orange", "filename"),
                   OverlayRule("orange", "bank", "orange", "all")}
MCPapers == {{}, {"statement"}, {"tax notice"}, {"pay signs"}, {"care"}, {"word"},
             {"statement", "fine"}, {"tax notice", "invoice"}, {"tax notice", "contract"},
             {"pay signs", "bulletin"}, {"invoice", "insurer"}, {"care", "clinic"},
             {"client", "facture"}, {"brand", "report"}}
=============================================================================

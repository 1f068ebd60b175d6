----------------------------- MODULE MCFileMove -----------------------------
(* Instances for TLC of what happens to files: the calls that move one      *)
(* (FileMove) with names in __raws and __archive, and names in a parking    *)
(* folder; the places documents are given (FilingPath); what the pages of   *)
(* the browser put into __raws (RawsIntake); and the folders they leave     *)
(* behind (FolderTidy). The four are the same files at four distances: they *)
(* share no variable, and a behaviour moves one of them.                    *)
EXTENDS FileMove, FilingPath, RawsIntake, FolderTidy, TLC

CONSTANTS import1, import2, paper1, paper2, request1

VARIABLE part

\* A scan and a bare name, the same letter of one sender; a subcategory that two
\* categories own, one that one owns, one that a renaming makes "general" or a year; a
\* classification that names none, and what the rules make of it.
Row(category, subcategory, date, title) ==
  [category |-> category, subcategory |-> subcategory, date |-> date, title |-> title]
MCGiven == [d \in {"d1", "d2"} |-> IF d = "d1" THEN "scan" ELSE "facture"]
MCBranches == {<<"invoices", "edf">>, <<"bank", "edf">>, <<"invoices", "orange">>, <<"personal", "carnet">>}
MCClassified == {Row("invoices", "edf", 20241, <<"Gaz">>),
                 Row("personal", "orange", 0, <<"Gaz", "copy">>),
                 Row("bank", "general", 20241, <<>>)}
MCByRules == [d \in {"d1", "d2"} |-> IF d = "d1" THEN Row("invoices", "edf", 0, <<>>)
                                     ELSE Row("personal", "general", 0, <<>>)]
MCEdits == {Row("bank", "orange", 0, <<>>), Row("invoices", "edf", 20241, <<>>), Row("bank", "carnet", 20241, <<>>)}
MCRenames == {[category |-> "invoices", old |-> "edf", new |-> "gaz"],
              [category |-> "bank", old |-> "orange", new |-> "general"],
              [category |-> "bank", old |-> "orange", new |-> "2024"]}
MCCalendar == <<20251, 20252, 20261>>

\* Two imports of one name while the user has dropped a file with the next name; a
\* PDF to split, and merges under the names of a photograph and of a page.
MCImportName == [i \in {import1, import2} |-> "a.jpg"]
MCTries == [n \in {"a.jpg"} |-> <<"a.jpg", "a_1.jpg">>]
MCSplitStem == [s \in {"s1"} |-> "b"]
MCPageCount == [s \in {"s1"} |-> 2]
MCPageNames == [stem \in {"b"} |-> <<"b_page_1.pdf", "b_page_2.pdf">>]
MCPdfName == [m \in {"a.jpg", "b_page_1.pdf"} |-> IF m = "a.jpg" THEN "a.jpg.pdf" ELSE m]

\* A folder within a folder on either side, and the trash; documents that are
\* filed, left in __archive itself, waiting in a folder or still to come.
MCFolders == {"raws", "trash", "in", "deep", "archive", "category", "subcategory"}
MCAbove == [d \in MCFolders |->
    CASE d \in {"trash", "in"} -> "raws" [] d = "deep" -> "in"
      [] d = "category" -> "archive" [] d = "subcategory" -> "category" [] OTHER -> ""]

FilesInit ==
    /\ part \in {"move", "filing", "intake", "folders"}
    /\ Init /\ FilingInit /\ IntakeInit /\ TidyInit
    /\ there = Managed \cup UNION {Path[lies[f]] : f \in {f \in DOMAIN lies : lies[f] # "nowhere"}}
    /\ lies["Thumbs.db"] \in {"nowhere", "in"}
    /\ \A f \in Papers : lies[f] \in {"nowhere", "deep", "archive", "subcategory"}
    /\ part # "folders" => \A f \in DOMAIN lies : lies[f] = "nowhere"
    /\ part # "move" => dir = [n \in Names |-> None] /\ src = [m \in Movers |-> CHOOSE n \in Names : TRUE]

FilesNext ==
    \/ part = "move" /\ SerialNext /\ UNCHANGED <<part, filingVars, intakeVars, tidyVars>>
    \/ part = "filing" /\ FilingNext /\ UNCHANGED <<part, vars, intakeVars, tidyVars>>
    \/ part = "intake" /\ IntakeNext /\ UNCHANGED <<part, vars, filingVars, tidyVars>>
    \/ part = "folders" /\ TidyNext /\ UNCHANGED <<part, vars, filingVars, intakeVars>>

\* Of the sets that may be permuted these two save more states than they cost time.
Symmetric == Permutations(Names \ ParkNames) \cup Permutations(Files)

(* What becomes of a document: an import or a page is kept until the scan   *)
(* takes it (IntakeKept), a document stays where a repair has put it        *)
(* (FiledForGood), and no folder is cleaned up with a document in it        *)
(* (FoldersTidied).                                                         *)
DocumentsKept == IntakeKept /\ FiledForGood /\ FoldersTidied
=============================================================================

----------------------------- MODULE RawsIntake -----------------------------
(***************************************************************************)
(* What the pages of the browser put into __raws (httpapi                   *)
(* documents_write_files.go): imported photographs, PDFs merged into one,   *)
(* and a PDF split into its pages; and the scan that takes them from there. *)
(* An import creates its file under a free name and fills it afterwards; a  *)
(* merge and a split write over whatever has the name. How the PDF library  *)
(* writes a file is not modelled: a merge or a page is there at once.       *)
(***************************************************************************)
EXTENDS Naturals, FiniteSets, Sequences

CONSTANTS
  Dropped,    \* names of files the user has dropped into __raws
  Imports,    \* requests to import a photograph
  ImportName, \* per import: the cleaned name it asks for
  Tries,      \* per name: the names tried for it, the name first (51 in the code)
  Splits,     \* requests to split a PDF
  SplitStem,  \* per split: the name of its PDF without the extension
  PageCount,  \* per split: the pages of its PDF
  PageNames,  \* per stem: the names of its pages, in their order
  Merges,     \* output names of merges, cleaned
  PdfName     \* per output name: the name with the extension it needs

\* An import is tried under one name at least, each with the extension of an
\* image; merges and pages end in .pdf.
ASSUME IntakeAssumption ==
  /\ \A s \in Splits : PageCount[s] \in Nat
  /\ \A i \in Imports :
       /\ Len(Tries[ImportName[i]]) \in Nat \ {0}
       /\ \A k \in 1..Len(Tries[ImportName[i]]) :
            /\ \A out \in Merges : Tries[ImportName[i]][k] # PdfName[out]
            /\ \A s \in Splits : \A page \in 1..PageCount[s] :
                 Tries[ImportName[i]][k] # PageNames[SplitStem[s]][page]

VARIABLES
  raws,       \* the files in __raws: per name what is in it and whether all of it is
  imports,    \* per import: where it is, and how many names it has tried
  splits,     \* per split: pages written so far, and whether it has been answered
  merged,     \* the merges that have been answered
  taken,      \* history: what the scan has taken
  overwritten \* history: names a merge or a split has written over

intakeVars == <<raws, imports, splits, merged, taken, overwritten>>

IntakeInit ==
  /\ raws = [n \in Dropped |-> [of |-> <<"dropped", n>>, whole |-> TRUE]]
  /\ imports = [i \in Imports |-> [pc |-> "open", tried |-> 0]]
  /\ splits = [s \in Splits |-> [pages |-> 0, pc |-> "open"]]
  /\ merged = {} /\ taken = {} /\ overwritten = {}

Waiting == DOMAIN raws
Put(name, of, whole) ==
  raws' = [n \in Waiting \cup {name} |-> IF n = name THEN [of |-> of, whole |-> whole] ELSE raws[n]]
Import(i) == <<"import", i>>
Page(s, page) == <<"page", s, page>>

\* The name an import has reached.
Target(i) == Tries[ImportName[i]][imports[i].tried]
Reached(i, pc) == imports' = [imports EXCEPT ![i].pc = pc]

-----------------------------------------------------------------------------

\* Mutant: the file is opened without O_EXCL.
ImportOpensAny(i) ==
  LET name == Tries[ImportName[i]][imports[i].tried + 1]
  IN /\ imports[i].pc = "open"
     /\ Put(name, Import(i), FALSE)
     /\ imports' = [imports EXCEPT ![i] = [pc |-> "write", tried |-> imports[i].tried + 1]]
     /\ UNCHANGED <<splits, merged, taken, overwritten>>

\* One OpenFile: the name is free, or it is taken and the next one is tried.
ImportOpens(i) ==
  LET tried == imports[i].tried + 1
      name == Tries[ImportName[i]][tried]
  IN /\ imports[i].pc = "open"
     /\ \/ /\ name \notin Waiting
           /\ Put(name, Import(i), FALSE)
           /\ imports' = [imports EXCEPT ![i] = [pc |-> "write", tried |-> tried]]
        \/ /\ name \in Waiting /\ UNCHANGED raws
           /\ imports' = [imports EXCEPT ![i] =
                [pc |-> IF tried = Len(Tries[ImportName[i]]) THEN "conflict" ELSE "open", tried |-> tried]]
     /\ UNCHANGED <<splits, merged, taken, overwritten>>

\* The bytes follow, unless the scan was faster: then nothing has that name any more,
\* or another import has. A failed write leaves the torn file.
ImportWrites(i) ==
  /\ imports[i].pc = "write"
  /\ \/ /\ Reached(i, "ok")
        /\ IF Target(i) \in Waiting /\ raws[Target(i)].of = Import(i)
           THEN Put(Target(i), Import(i), TRUE) ELSE UNCHANGED raws
     \/ Reached(i, "failed") /\ UNCHANGED raws
  /\ UNCHANGED <<splits, merged, taken, overwritten>>

Overwrites(name) == overwritten' = IF name \in Waiting THEN overwritten \cup {name} ELSE overwritten

\* Mutant: the output keeps the name it was asked for.
MergeUnderAnyName(out) ==
  /\ out \notin merged /\ merged' = merged \cup {out}
  /\ Put(out, <<"merge", out>>, TRUE) /\ Overwrites(out)
  /\ UNCHANGED <<imports, splits, taken>>

MergePDF(out) ==
  /\ out \notin merged /\ merged' = merged \cup {out}
  /\ Put(PdfName[out], <<"merge", out>>, TRUE) /\ Overwrites(PdfName[out])
  /\ UNCHANGED <<imports, splits, taken>>

\* Mutant: the pages are written under the name of the first.
SplitOnFirstName(s) ==
  /\ splits[s].pc = "open" /\ splits[s].pages < PageCount[s]
  /\ LET page == splits[s].pages + 1
         name == PageNames[SplitStem[s]][1]
     IN /\ Put(name, Page(s, page), TRUE) /\ UNCHANGED overwritten
        /\ splits' = [splits EXCEPT ![s].pages = page]
  /\ UNCHANGED <<imports, merged, taken>>

\* One page after the other, each under its own number.
SplitPage(s) ==
  /\ splits[s].pc = "open" /\ PageCount[s] > 1 /\ splits[s].pages < PageCount[s]
  /\ LET page == splits[s].pages + 1
         name == PageNames[SplitStem[s]][page]
     IN /\ Put(name, Page(s, page), TRUE) /\ Overwrites(name)
        /\ splits' = [splits EXCEPT ![s].pages = page]
  /\ UNCHANGED <<imports, merged, taken>>

\* Answered: every page is written, or one of them failed and the ones before it stay.
SplitAnswers(s) ==
  /\ splits[s].pc = "open"
  /\ splits' = [splits EXCEPT ![s].pc = IF splits[s].pages = PageCount[s] THEN "ok" ELSE "failed"]
  /\ UNCHANGED <<raws, imports, merged, taken, overwritten>>

\* The scan takes a file of any state: nothing tells it that a file is being written.
ScanTakes(name) ==
  /\ name \in Waiting
  /\ raws' = [n \in Waiting \ {name} |-> raws[n]]
  /\ taken' = taken \cup {raws[name].of}
  /\ UNCHANGED <<imports, splits, merged, overwritten>>

IntakeNext ==
  \/ \E i \in Imports : ImportOpens(i) \/ ImportWrites(i)
  \/ \E out \in Merges : MergePDF(out)
  \/ \E s \in Splits : SplitPage(s) \/ SplitAnswers(s)
  \/ \E name \in Waiting : ScanTakes(name)

IntakeSpec == IntakeInit /\ [][IntakeNext]_intakeVars

-----------------------------------------------------------------------------
(* Properties.                                                              *)

Taken(of) == of \in taken
Holds(name, of) == name \in Waiting /\ raws[name] = [of |-> of, whole |-> TRUE]

(* An import that was answered with 200 is in __raws, whole and under the   *)
(* name of the answer, until the scan takes it: no other import, merge or   *)
(* split writes over it.                                                    *)
ImportsAreKept ==
  \A i \in Imports : imports[i].pc = "ok" => Holds(Target(i), Import(i)) \/ Taken(Import(i))

(* A split that was answered with 200 has left every page, unless a merge   *)
(* or a split of a PDF of the same name wrote over it.                      *)
PagesAreKept ==
  \A s \in Splits : splits[s].pc = "ok" =>
    \A page \in 1..PageCount[s] :
      LET name == PageNames[SplitStem[s]][page]
      IN Holds(name, Page(s, page)) \/ Taken(Page(s, page)) \/ name \in overwritten

IntakeKept == ImportsAreKept /\ PagesAreKept
=============================================================================

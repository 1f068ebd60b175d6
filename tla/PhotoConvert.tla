---------------------------- MODULE PhotoConvert ----------------------------
(***************************************************************************)
(* Photographs in __raws (app/convertimage, called by app/triagescan): a    *)
(* folder of photographs becomes one PDF before the walk, a photograph on   *)
(* its own becomes one when its turn comes, and the PDF takes its place.    *)
(* A name is claimed by an exclusive create; the PDF is written and its     *)
(* text extracted before a source is moved to the trash.  The user drops    *)
(* files at any moment.                                                     *)
(***************************************************************************)
EXTENDS Integers, FiniteSets, FiniteSetsExt, TLC

CONSTANTS
  Singles,     \* names of photographs directly in __raws
  Pages,       \* names of photographs in one folder, Folder
  MaxSuffix,   \* MaxPdfNameAttempts, 20
  MaxPhotos, MaxPdfs, MaxPhotoFaults, MaxPhotoScans \* bounds

VARIABLES
  photoAt,   \* the photograph under each name, 0 for none; photographs are numbered
  pdfAt,     \* per base name and suffix: the PDF of that name
  folderThere, \* the folder still exists
  parked,    \* .delete_files/img_converted: the photograph at each spot
  filed,     \* what triage archived
  turn,      \* the files the walk listed and has not come to
  job,       \* the conversion under way: its sources, the photographs it read,
             \* the suffix it tries, the spot in the trash it found
  swapped,   \* history: photographs the user put over another one, and that other one
  dropped, userPdfs, photoFaults, photoScans

photoVars == <<photoAt, pdfAt, folderThere, parked, filed, turn, job, swapped,
               dropped, userPdfs, photoFaults, photoScans>>

Folder == "folder"
Sources == Singles \cup Pages
Bases   == Sources \cup {Folder}
PdfSuffixes == 0 .. MaxSuffix
ASSUME PhotoAssumption == MaxSuffix \in Nat /\ Folder \notin Sources
NoPdf == [kind |-> "none", of |-> {}]
\* The trash keeps the pages of a folder together, in a folder of its own.
TrashSpots == Sources \X BOOLEAN \X PdfSuffixes
Spot(s, base, n) == <<s, base = Folder, n>>
NoJob == [pc |-> "idle", base |-> Folder, srcs |-> {}, read |-> {}, n |-> 0,
          dest |-> Spot(CHOOSE s \in Sources : TRUE, Folder, 0)]

PhotoInit ==
  /\ photoAt = [s \in Sources |-> 0] /\ pdfAt = [k \in Bases \X PdfSuffixes |-> NoPdf]
  /\ folderThere = TRUE /\ parked = [k \in TrashSpots |-> 0]
  /\ filed = {} /\ turn = {} /\ job = NoJob /\ swapped = {}
  /\ dropped = 0 /\ userPdfs = 0 /\ photoFaults = 0 /\ photoScans = 0

PhotoFault == photoFaults < MaxPhotoFaults /\ photoFaults' = photoFaults + 1
Step(pc) == job' = [job EXCEPT !.pc = pc]
\* A conversion of the walk's file that failed leaves the photograph to be
\* triaged as it is; a folder that failed leaves its photographs to the walk.
Fails == Step(IF job.base = Folder THEN "walk" ELSE "asis")

\* FindImageBundleFolders: two photographs or more, and nothing else.
InFolder == {p \in Pages : photoAt[p] # 0}
PdfInFolder == \E p \in Pages, n \in PdfSuffixes : pdfAt[<<p, n>>] # NoPdf
IsBundle == folderThere /\ Cardinality(InFolder) >= 2 /\ ~PdfInFolder

\* A scan begins with the folders, when no job is under way.
BeginScan ==
  /\ job.pc = "idle" /\ photoScans < MaxPhotoScans /\ photoScans' = photoScans + 1
  /\ job' = IF IsBundle THEN [NoJob EXCEPT !.pc = "render", !.srcs = InFolder]
                        ELSE [NoJob EXCEPT !.pc = "walk"]
  /\ UNCHANGED <<photoAt, pdfAt, folderThere, parked, filed, turn, swapped, dropped, userPdfs, photoFaults>>

\* GetPDFsRecursively: everything that is there now.
Walk ==
  /\ job.pc = "walk"
  /\ turn' = {<<"photo", s>> : s \in {s \in Sources : photoAt[s] # 0}}
               \cup {<<"pdf", k>> : k \in {k \in Bases \X PdfSuffixes : pdfAt[k] # NoPdf}}
  /\ Step("file")
  /\ UNCHANGED <<photoAt, pdfAt, folderThere, parked, filed, swapped, dropped, userPdfs, photoFaults, photoScans>>

\* The turn of a photograph: it is converted.
TurnOfPhoto(s) ==
  /\ job.pc = "file" /\ <<"photo", s>> \in turn /\ turn' = turn \ {<<"photo", s>>}
  /\ job' = IF photoAt[s] = 0 THEN job ELSE [NoJob EXCEPT !.pc = "render", !.base = s, !.srcs = {s}]
  /\ UNCHANGED <<photoAt, pdfAt, folderThere, parked, filed, swapped, dropped, userPdfs, photoFaults, photoScans>>

\* The rest of triage, for a file that is not converted: it is filed, or an
\* error leaves it.  A PDF that was cut short gives no text for ever.
FilePdf(k) ==
  \/ /\ pdfAt[k].kind \in {"user", "pages"}
     /\ filed' = filed \cup {pdfAt[k]} /\ pdfAt' = [pdfAt EXCEPT ![k] = NoPdf] /\ UNCHANGED photoFaults
  \/ pdfAt[k].kind = "torn" /\ UNCHANGED <<filed, pdfAt, photoFaults>>
  \/ pdfAt[k].kind # "none" /\ PhotoFault /\ UNCHANGED <<filed, pdfAt>>

TurnOfPdf(k) ==
  /\ job.pc = "file" /\ <<"pdf", k>> \in turn /\ turn' = turn \ {<<"pdf", k>>}
  /\ FilePdf(k)
  /\ UNCHANGED <<photoAt, folderThere, parked, job, swapped, dropped, userPdfs, photoScans>>

EndScan ==
  /\ job.pc = "file" /\ turn = {} /\ job' = NoJob
  /\ UNCHANGED <<photoAt, pdfAt, folderThere, parked, filed, turn, swapped, dropped, userPdfs, photoFaults, photoScans>>

\* renderPageFromImage for every page: a stage that fails leaves the image as
\* it was; a page that cannot be read or encoded fails the whole document.
Render ==
  /\ job.pc = "render"
  /\ \/ /\ \A s \in job.srcs : photoAt[s] # 0
        /\ job' = [job EXCEPT !.pc = "claim", !.read = {photoAt[s] : s \in job.srcs}]
        /\ UNCHANGED photoFaults
     \/ PhotoFault /\ Fails
  /\ UNCHANGED <<photoAt, pdfAt, folderThere, parked, filed, turn, swapped, dropped, userPdfs, photoScans>>

\* Mutant: a plain write, whatever owns the name.
ClaimOver ==
  /\ job.pc = "claim"
  /\ pdfAt' = [pdfAt EXCEPT ![<<job.base, job.n>>] = [kind |-> "torn", of |-> job.read]] /\ Step("write")
  /\ UNCHANGED <<photoAt, folderThere, parked, filed, turn, swapped, dropped, userPdfs, photoFaults, photoScans>>

\* WritePdfWithoutOverwriting: O_EXCL, then the next suffix.
Claim ==
  /\ job.pc = "claim"
  /\ IF pdfAt[<<job.base, job.n>>] = NoPdf
     THEN pdfAt' = [pdfAt EXCEPT ![<<job.base, job.n>>] = [kind |-> "torn", of |-> job.read]] /\ Step("write")
     ELSE /\ IF job.n >= MaxSuffix THEN Fails ELSE job' = [job EXCEPT !.n = @ + 1]
          /\ UNCHANGED pdfAt
  /\ UNCHANGED <<photoAt, folderThere, parked, filed, turn, swapped, dropped, userPdfs, photoFaults, photoScans>>

\* Mutant: the sources leave as soon as the PDF was claimed.
WriteLast ==
  /\ job.pc = "write" /\ Step("probe")
  /\ UNCHANGED <<photoAt, pdfAt, folderThere, parked, filed, turn, swapped, dropped, userPdfs, photoFaults, photoScans>>

\* The bytes; a write that fails leaves what it wrote.
Write ==
  /\ job.pc = "write"
  /\ \/ /\ pdfAt' = [pdfAt EXCEPT ![<<job.base, job.n>>].kind = "pages"] /\ Step("extract")
        /\ UNCHANGED photoFaults
     \/ PhotoFault /\ Fails /\ UNCHANGED pdfAt
  /\ UNCHANGED <<photoAt, folderThere, parked, filed, turn, swapped, dropped, userPdfs, photoScans>>

\* pdf2w reads the new PDF; without its text nothing is moved.
Extract ==
  /\ job.pc = "extract"
  /\ \/ Step("probe") /\ UNCHANGED photoFaults
     \/ PhotoFault /\ Fails
  /\ UNCHANGED <<photoAt, pdfAt, folderThere, parked, filed, turn, swapped, dropped, userPdfs, photoScans>>

Converted == Step(IF job.base = Folder THEN "folder" ELSE "triage")
CutShort == -1
FreeInTrash(s) == {n \in PdfSuffixes : parked[Spot(s, job.base, n)] = 0}
Leave(s) == job' = [job EXCEPT !.srcs = @ \ {s}, !.pc = "probe"]

\* Mutant: the first name, taken or not.
ProbeTrashNot(s) ==
  /\ job.pc = "probe" /\ s \in job.srcs
  /\ job' = [job EXCEPT !.pc = "move", !.dest = Spot(s, job.base, 0)]
  /\ UNCHANGED <<photoAt, pdfAt, folderThere, parked, filed, turn, swapped, dropped, userPdfs, photoFaults, photoScans>>

\* MoveConvertedSourceToTrash: the first free name by os.Stat ...
ProbeTrash(s) ==
  /\ job.pc = "probe" /\ s \in job.srcs
  /\ \/ FreeInTrash(s) # {} /\ job' = [job EXCEPT !.pc = "move", !.dest = Spot(s, job.base, Min(FreeInTrash(s)))] /\ UNCHANGED photoFaults
     \/ FreeInTrash(s) = {} /\ Leave(s) /\ UNCHANGED photoFaults
     \/ PhotoFault /\ Leave(s)
  /\ UNCHANGED <<photoAt, pdfAt, folderThere, parked, filed, turn, swapped, dropped, userPdfs, photoScans>>

\* Mutant: a copy, and the source stays.
MoveCopies(s) ==
  /\ job.pc = "move" /\ s = job.dest[1] /\ Leave(s)
  /\ parked' = [parked EXCEPT ![job.dest] = photoAt[s]]
  /\ UNCHANGED <<photoAt, pdfAt, folderThere, filed, turn, swapped, dropped, userPdfs, photoFaults, photoScans>>

\* ... then a rename of whatever has the source's name by now, or a copy and a
\* removal.  A source that cannot be moved stays, with a warning, and so may a
\* copy of it, whole or not.
MoveSource(s) ==
  /\ job.pc = "move" /\ s = job.dest[1] /\ Leave(s)
  /\ \/ /\ photoAt[s] # 0
        /\ parked' = [parked EXCEPT ![job.dest] = photoAt[s]] /\ photoAt' = [photoAt EXCEPT ![s] = 0]
        /\ UNCHANGED photoFaults
     \/ /\ PhotoFault /\ UNCHANGED photoAt
        /\ \E copy \in {0, CutShort, photoAt[s]} : parked' = [parked EXCEPT ![job.dest] = copy]
  /\ UNCHANGED <<pdfAt, folderThere, filed, turn, swapped, dropped, userPdfs, photoScans>>

SourcesMoved ==
  /\ job.pc = "probe" /\ job.srcs = {} /\ Converted
  /\ UNCHANGED <<photoAt, pdfAt, folderThere, parked, filed, turn, swapped, dropped, userPdfs, photoFaults, photoScans>>

\* Only an empty folder is removed; its PDF is for the walk.
RemoveFolder ==
  /\ job.pc = "folder" /\ Step("walk")
  /\ folderThere' = (InFolder # {} \/ PdfInFolder)
  /\ UNCHANGED <<photoAt, pdfAt, parked, filed, turn, swapped, dropped, userPdfs, photoFaults, photoScans>>

\* The PDF of a photograph goes through triage in the photograph's turn.
TriagePdf ==
  /\ job.pc = "triage" /\ Step("file") /\ FilePdf(<<job.base, job.n>>)
  /\ UNCHANGED <<photoAt, folderThere, parked, turn, swapped, dropped, userPdfs, photoScans>>

\* "Fall through and triage the photo as-is."
TriageAsIs ==
  /\ job.pc = "asis" /\ Step("file")
  /\ \/ /\ photoAt[job.base] # 0
        /\ filed' = filed \cup {[kind |-> "photo", of |-> {photoAt[job.base]}]}
        /\ photoAt' = [photoAt EXCEPT ![job.base] = 0] /\ UNCHANGED photoFaults
     \/ PhotoFault /\ UNCHANGED <<filed, photoAt>>
  /\ UNCHANGED <<pdfAt, folderThere, parked, turn, swapped, dropped, userPdfs, photoScans>>

\* The user drops a photograph, perhaps over one of the same name ...
DropPhoto(s) ==
  /\ dropped < MaxPhotos /\ dropped' = dropped + 1
  /\ swapped' = IF photoAt[s] = 0 THEN swapped ELSE swapped \cup {photoAt[s], dropped'}
  /\ photoAt' = [photoAt EXCEPT ![s] = dropped']
  /\ folderThere' = (folderThere \/ s \in Pages)
  /\ UNCHANGED <<pdfAt, parked, filed, turn, job, userPdfs, photoFaults, photoScans>>

\* ... or a PDF that has the name a conversion would take.
DropPdf(b) ==
  /\ userPdfs < MaxPdfs /\ userPdfs' = userPdfs + 1 /\ pdfAt[<<b, 0>>] = NoPdf
  /\ pdfAt' = [pdfAt EXCEPT ![<<b, 0>>] = [kind |-> "user", of |-> {}]]
  /\ UNCHANGED <<photoAt, folderThere, parked, filed, turn, job, swapped, dropped, photoFaults, photoScans>>

PhotoNext ==
  \/ BeginScan \/ Walk \/ EndScan \/ Render \/ Claim \/ Write \/ Extract \/ SourcesMoved
  \/ RemoveFolder \/ TriagePdf \/ TriageAsIs
  \/ \E k \in Bases \X PdfSuffixes : TurnOfPdf(k)
  \/ \E s \in Sources : TurnOfPhoto(s) \/ ProbeTrash(s) \/ MoveSource(s) \/ DropPhoto(s)
  \/ \E b \in Singles \cup {Folder} : DropPdf(b)

PhotoSpec == PhotoInit /\ [][PhotoNext]_photoVars

-----------------------------------------------------------------------------
Pdfs == {pdfAt[k] : k \in Bases \X PdfSuffixes}
Trash == {parked[k] : k \in TrashSpots}

\* "FAILURE IS NEVER DESTRUCTIVE": the bytes of every photograph the user did
\* not himself put another one over are in __raws, in the trash or in the
\* archive, whichever step failed and whatever was dropped meanwhile.
NoPhotoLost ==
  \A id \in (1 .. dropped) \ swapped :
    id \in {photoAt[s] : s \in Sources} \cup Trash \/ [kind |-> "photo", of |-> {id}] \in filed

\* A PDF the user dropped under the name of a conversion is still there, or filed.
UserPdfKept ==
  userPdfs > 0 => [kind |-> "user", of |-> {}] \in Pdfs \cup filed

\* A photograph in the trash is on a page of a whole PDF that is in __raws or
\* in the archive, unless the user exchanged it while it was being converted.
ParkedHasPdf ==
  \A id \in Trash \ ({0, CutShort} \cup swapped) : \E d \in Pdfs \cup filed : d.kind = "pages" /\ id \in d.of

\* As long as nothing fails, a photograph ends in one document, its own or its
\* folder's.  After a fault it may end in two: when the text of the new PDF
\* cannot be had, the PDF stays in __raws and the photograph is filed too.  So
\* does one that stays since every name for it in the trash is taken.
TrashFull == \E s \in Sources, b \in Bases : \A n \in PdfSuffixes : parked[Spot(s, b, n)] # 0
OneDocumentUnlessFault ==
  photoFaults = 0 /\ ~TrashFull => \A id \in 1 .. dropped : Cardinality({d \in Pdfs \cup filed : id \in d.of}) <= 1

(* What the conversion promises, taken together: no photograph is lost, no  *)
(* PDF of the user is written over, a parked photograph has its PDF, and    *)
(* without a fault a photograph becomes one document.                       *)
PhotosKept == NoPhotoLost /\ UserPdfKept /\ ParkedHasPdf /\ OneDocumentUnlessFault
=============================================================================

------------------------------ MODULE FileMove ------------------------------
(***************************************************************************)
(* How files change their names in __raws and __archive.  A mover is one   *)
(* call of relocalize.renameAtomicNoOverwrite (archive, trash, back to     *)
(* __raws: link, then remove the old name) or of triagescan's              *)
(* moveToCollisionDir (.duplicates_files, .blocked_files: look for a free  *)
(* name, then rename).  Movers of scans, repairs, document requests and of *)
(* other processes interleave one system call at a time, any of them may   *)
(* be cut off between two calls, and the user drops files.                 *)
(*                                                                         *)
(* A file is its content: a name holds a file, nothing, or a torn copy.    *)
(***************************************************************************)
EXTENDS Naturals

CONSTANTS
    Names,        \* paths
    ParkNames,    \* the paths inside .duplicates_files and .blocked_files
    Files,
    None,         \* the path does not exist
    Torn,         \* an incomplete copy
    Movers,
    MaxAttempts   \* maxRenameAttempts

ASSUME ParkAssumption == ParkNames \subseteq Names
ASSUME ContentAssumption == None \notin Files /\ Torn \notin Files /\ None # Torn
ASSUME AttemptAssumption == MaxAttempts \in Nat \ {0}

VARIABLES
    dir,              \* what each name holds
    pc,               \* where a mover is
    src, cand,        \* a mover's source name and the candidate it moves to
    attempt

callVars == <<src, cand, attempt>>
vars == <<dir, pc, callVars>>

(* Names the movers take files from and move files to with a link. *)
OpenNames == Names \ ParkNames

(* A mover parks from "rename" on if its candidate is in a parking folder. *)
Parks(m) == cand[m] \in ParkNames
Active(m) == pc[m] # "idle"

TypeOK ==
    /\ dir \in [Names -> Files \cup {None, Torn}]
    /\ pc \in [Movers -> {"idle", "link", "rename", "copy", "unlink"}]
    /\ src \in [Movers -> Names]
    /\ cand \in [Movers -> Names]
    /\ attempt \in [Movers -> 0 .. MaxAttempts]

Init ==
    /\ dir \in [Names -> Files \cup {None}]
    /\ \A n \in ParkNames : dir[n] = None
    /\ \A n1, n2 \in Names : dir[n1] = dir[n2] /\ dir[n1] # None => n1 = n2
    /\ pc = [m \in Movers |-> "idle"]
    /\ src \in {[m \in Movers |-> n] : n \in Names}
    /\ cand = src
    /\ attempt = [m \in Movers |-> 0]

Goto(m, place) == pc' = [pc EXCEPT ![m] = place]

-----------------------------------------------------------------------------
(* renameAtomicNoOverwrite *)

(* The caller has found the file on disk (os.Stat, or the listing) and does *)
(* not call with the target it is at.                                       *)
BeginMove(m) ==
    /\ pc[m] = "idle"
    /\ \E s \in OpenNames : dir[s] \in Files /\ src' = [src EXCEPT ![m] = s]
    /\ \E c \in OpenNames : c # src'[m] /\ cand' = [cand EXCEPT ![m] = c]
    /\ attempt' = [attempt EXCEPT ![m] = 0]
    /\ Goto(m, "link")
    /\ UNCHANGED dir

(* Mutants: a rename that replaces the candidate; EEXIST taken for success. *)
LinkReplacing(m) ==
    /\ pc[m] = "link"
    /\ dir[src[m]] # None
    /\ dir' = [dir EXCEPT ![cand[m]] = dir[src[m]]]
    /\ Goto(m, "unlink")
    /\ UNCHANGED callVars
LinkTakingExistsForDone(m) ==
    /\ pc[m] = "link"
    /\ dir[src[m]] # None
    /\ dir' = [dir EXCEPT ![cand[m]] = IF @ = None THEN dir[src[m]] ELSE @]
    /\ Goto(m, "unlink")
    /\ UNCHANGED callVars

(* os.Link succeeds only if the candidate is free. *)
Link(m) ==
    /\ pc[m] = "link"
    /\ dir[src[m]] # None /\ dir[cand[m]] = None
    /\ dir' = [dir EXCEPT ![cand[m]] = dir[src[m]]]
    /\ Goto(m, "unlink")
    /\ UNCHANGED callVars

(* os.Link fails with EEXIST: another name, built from the time and the     *)
(* attempt, or the end of the attempts.                                     *)
NextCandidate(m) ==
    /\ pc[m] = "link"
    /\ dir[src[m]] # None /\ dir[cand[m]] # None
    /\ attempt' = [attempt EXCEPT ![m] = @ + 1]
    /\ \/ /\ attempt[m] + 1 < MaxAttempts
          /\ \E c \in OpenNames : cand' = [cand EXCEPT ![m] = c]
          /\ UNCHANGED pc
       \/ /\ attempt[m] + 1 = MaxAttempts
          /\ Goto(m, "idle")
          /\ UNCHANGED cand
    /\ UNCHANGED <<dir, src>>

(* os.Remove of the source name, whatever it holds by now; that it is gone  *)
(* is an error, too.                                                        *)
Unlink(m) ==
    /\ pc[m] = "unlink"
    /\ dir' = [dir EXCEPT ![src[m]] = None]
    /\ Goto(m, "idle")
    /\ UNCHANGED callVars

-----------------------------------------------------------------------------
(* moveToCollisionDir *)

(* fileExists finds the first suffix that is free. *)
BeginPark(m) ==
    /\ pc[m] = "idle"
    /\ \E s \in OpenNames : dir[s] \in Files /\ src' = [src EXCEPT ![m] = s]
    /\ \E c \in ParkNames : dir[c] = None /\ cand' = [cand EXCEPT ![m] = c]
    /\ attempt' = [attempt EXCEPT ![m] = 0]
    /\ Goto(m, "rename")
    /\ UNCHANGED dir

(* os.Rename replaces what the candidate holds by now; when it fails, the   *)
(* file is copied.                                                          *)
Rename(m) ==
    /\ pc[m] = "rename"
    /\ \/ /\ dir[src[m]] # None
          /\ dir' = [dir EXCEPT ![cand[m]] = dir[src[m]], ![src[m]] = None]
          /\ Goto(m, "idle")
       \/ /\ Goto(m, "copy")
          /\ UNCHANGED dir
    /\ UNCHANGED callVars

(* Mutant: the error of io.Copy is dropped. *)
CopyDroppingError(m) ==
    /\ pc[m] = "copy"
    /\ dir[src[m]] # None
    /\ \E content \in {dir[src[m]], Torn} : dir' = [dir EXCEPT ![cand[m]] = content]
    /\ Goto(m, "unlink")
    /\ UNCHANGED callVars

(* copyFile opens the source, then truncates and fills the target.  It may  *)
(* fail after the truncation.                                               *)
Copy(m) ==
    /\ pc[m] = "copy"
    /\ dir[src[m]] # None
    /\ \/ /\ dir' = [dir EXCEPT ![cand[m]] = dir[src[m]]]
          /\ Goto(m, "unlink")
       \/ /\ dir' = [dir EXCEPT ![cand[m]] = Torn]
          /\ Goto(m, "idle")
    /\ UNCHANGED callVars

-----------------------------------------------------------------------------
(* The environment *)

(* A system call fails (the source is gone, EXDEV: os.Rename fails with it  *)
(* after os.Link, permissions), or the process dies: the mover stops where  *)
(* it is.                                                                   *)
Stop(m) ==
    /\ Active(m)
    /\ Goto(m, "idle")
    /\ UNCHANGED <<dir, callVars>>

(* The user drops a file. *)
Drop ==
    /\ \E n \in OpenNames, f \in Files :
          /\ dir[n] = None
          /\ \A k \in Names : dir[k] # f
          /\ dir' = [dir EXCEPT ![n] = f]
    /\ UNCHANGED <<pc, callVars>>

-----------------------------------------------------------------------------

Continue(m) ==
    \/ Link(m) \/ NextCandidate(m) \/ Unlink(m) \/ Rename(m) \/ Copy(m) \/ Stop(m)

Next ==
    \/ \E m \in Movers : BeginMove(m) \/ BeginPark(m) \/ Continue(m)
    \/ Drop

Spec == Init /\ [][Next]_vars

(* What the scan lock gives to the movers of scans, repairs and clears, and *)
(* nothing gives to document requests and MCP scans: no two movers have the *)
(* same source, and only one parks.                                         *)
Serial ==
    \A m1, m2 \in Movers :
        Active(m1) /\ Active(m2) /\ m1 # m2 =>
            src[m1] # src[m2] /\ ~(Parks(m1) /\ Parks(m2))

SerialNext ==
    \/ \E m \in Movers :
          \/ BeginMove(m) /\ Serial'
          \/ BeginPark(m) /\ Serial'
          \/ Continue(m)
    \/ Drop

SerialSpec == Init /\ [][SerialNext]_vars

-----------------------------------------------------------------------------
(* Properties *)

Named(f) == \E n \in Names : dir[n] = f

(* A name some mover is about to remove. *)
Doomed(n) == \E m \in Movers : pc[m] = "unlink" /\ src[m] = n

(* "A file is moved back to __raws, never deleted" (relocalize.go:366-367): *)
(* no step takes the last name of a file, in whatever order the calls of    *)
(* several movers come and wherever they are cut off.                       *)
NeverLost == [][\A f \in Files : Named(f) => Named(f)']_vars

(* "A genuine collision always gets a fresh unique suffix instead of        *)
(* clobbering another file" (atomic.go:19-20): a name that holds a file     *)
(* never holds another one in the next state.                               *)
NeverOverwritten ==
    [][\A n \in Names : dir[n] \in Files => dir'[n] \in {dir[n], None}]_vars

(* Every file has a name that no mover is about to remove: the chain of     *)
(* moves never bites its own tail.                                          *)
SafeName ==
    \A f \in Files : Named(f) => \E n \in Names : dir[n] = f /\ ~Doomed(n)
=============================================================================

--------------------------- MODULE FileMoveProofs ---------------------------
(***************************************************************************)
(* Files are kept, for every value of the constants: no interleaving of the *)
(* system calls of two moves, no failing call and no crash loses a file or  *)
(* overwrites one (FileMove); what the pages of the browser have accepted   *)
(* stays until the scan takes it (RawsIntake); a repair has nothing to do   *)
(* twice (FilingPath); and no clean-up takes a document it could have seen  *)
(* (FolderTidy). The first holds while no two movers share a source and at  *)
(* most one parks. MCFileMove is extended for DocumentsKept, which joins    *)
(* the other three: its constants are not used.                             *)
(***************************************************************************)
EXTENDS MCFileMove, FiniteSetTheorems, TLAPS

(* While a mover is under way its source name holds something, a link's     *)
(* candidate is no parking name, and a parking candidate is still free.     *)
SourceHeld ==
    \A m \in Movers : Active(m) => src[m] \in OpenNames /\ dir[src[m]] # None

CandidateKind ==
    \A m \in Movers :
        /\ pc[m] = "link" => cand[m] \in OpenNames
        /\ pc[m] \in {"rename", "copy"} =>
              cand[m] \in ParkNames /\ dir[cand[m]] = None

IInv == TypeOK /\ Serial /\ SourceHeld /\ CandidateKind /\ SafeName

(* A step never loses and never overwrites a file. *)
Kept == \A f \in Files : Named(f) => Named(f)'
Unclobbered == \A n \in Names : dir[n] \in Files => dir'[n] \in {dir[n], None}

-----------------------------------------------------------------------------

(* The initial states satisfy the invariant. *)
LEMMA InitInv == Init => IInv
  <1> SUFFICES ASSUME Init PROVE IInv
      OBVIOUS
  <1> USE DEF Init
  <1>1. PICK n0 \in Names : src = [m \in Movers |-> n0]
      OBVIOUS
  <1>2. TypeOK
      BY <1>1, AttemptAssumption DEF TypeOK
  <1>3. \A m \in Movers : ~Active(m) /\ pc[m] = "idle"
      BY DEF Active
  <1>4. SafeName
      BY <1>3 DEF SafeName, Named, Doomed
  <1> QED
      BY <1>2, <1>3, <1>4 DEF IInv, Serial, SourceHeld, CandidateKind

(* A mover begins: nothing changes its name, and the new mover does not yet *)
(* threaten any.                                                            *)
LEMMA BeginInv ==
    ASSUME IInv, NEW m \in Movers, BeginMove(m) \/ BeginPark(m), Serial'
    PROVE  IInv'
  <1> USE DEF IInv, Goto
  <1>1. PICK s \in OpenNames, c \in Names :
            /\ dir[s] \in Files
            /\ src' = [src EXCEPT ![m] = s]
            /\ cand' = [cand EXCEPT ![m] = c]
            /\ attempt' = [attempt EXCEPT ![m] = 0]
            /\ dir' = dir
            /\ pc[m] = "idle"
            /\ \/ pc' = [pc EXCEPT ![m] = "link"] /\ c \in OpenNames
               \/ /\ pc' = [pc EXCEPT ![m] = "rename"]
                  /\ c \in ParkNames /\ dir[c] = None
    <2>1. CASE BeginMove(m)
        BY <2>1 DEF BeginMove, OpenNames, TypeOK
    <2>2. CASE BeginPark(m)
        BY <2>2, ParkAssumption DEF BeginPark, OpenNames, TypeOK
    <2> QED
        BY <2>1, <2>2
  <1>2. TypeOK'
      BY <1>1, AttemptAssumption DEF TypeOK, OpenNames
  <1>3. SourceHeld'
      BY <1>1, ContentAssumption DEF SourceHeld, Active, TypeOK, OpenNames
  <1>4. CandidateKind'
      BY <1>1 DEF CandidateKind, TypeOK
  <1>5. \A n \in Names : Doomed(n)' => Doomed(n)
      BY <1>1 DEF Doomed, TypeOK
  <1>6. SafeName'
      BY <1>1, <1>5 DEF SafeName, Named
  <1> QED
      BY <1>2, <1>3, <1>4, <1>6

(* A link gives a file a second name, one that no mover was looking at. *)
LEMMA LinkInv ==
    ASSUME IInv, NEW m \in Movers, Link(m)
    PROVE  IInv' /\ Kept /\ Unclobbered
  <1> USE DEF IInv, Goto, Link, callVars
  <1> DEFINE x == dir[src[m]]
  <1>1. /\ src[m] \in Names /\ cand[m] \in OpenNames /\ cand[m] \in Names
        /\ x \in Files \cup {Torn}
      BY DEF TypeOK, CandidateKind, OpenNames
  <1>2. \A n \in Names : dir'[n] = IF n = cand[m] THEN x ELSE dir[n]
      BY <1>1 DEF TypeOK
  <1>3. TypeOK'
      BY <1>1 DEF TypeOK
  <1>4. Serial'
      BY DEF Serial, Active, Parks, TypeOK
  <1>5. SourceHeld'
      BY <1>1, <1>2 DEF SourceHeld, Active, TypeOK, OpenNames
  <1>6. CandidateKind'
    <2> SUFFICES ASSUME NEW k \in Movers, k # m
                 PROVE  /\ pc[k] = "link" => cand[k] \in OpenNames
                        /\ pc[k] \in {"rename", "copy"} =>
                              cand[k] \in ParkNames /\ dir'[cand[k]] = None
        BY DEF CandidateKind, TypeOK
    <2> QED
        BY <1>1, <1>2, ParkAssumption DEF CandidateKind, OpenNames, TypeOK
  <1>7. ~Doomed(cand[m])' /\ \A n \in Names : Doomed(n)' => Doomed(n) \/ n = src[m]
      BY <1>1 DEF Doomed, SourceHeld, Active, TypeOK
  <1>8. SafeName'
    <2> SUFFICES ASSUME NEW f \in Files, Named(f)'
                 PROVE  \E n \in Names : dir'[n] = f /\ ~Doomed(n)'
        BY DEF SafeName
    <2>1. CASE f = x
        BY <2>1, <1>1, <1>2, <1>7
    <2>2. CASE f # x
      <3>1. Named(f)
          BY <2>2, <1>2 DEF Named
      <3>2. PICK n \in Names : dir[n] = f /\ ~Doomed(n)
          BY <3>1 DEF SafeName
      <3> QED
          BY <3>2, <2>2, <1>1, <1>2, <1>7, ContentAssumption
    <2> QED
        BY <2>1, <2>2
  <1>9. Kept
      BY <1>1, <1>2, ContentAssumption DEF Kept, Named
  <1>10. Unclobbered
      BY <1>2, ContentAssumption DEF Unclobbered
  <1> QED
      BY <1>3, <1>4, <1>5, <1>6, <1>8, <1>9, <1>10

(* Removing the source name of a mover: its file has a name that is not     *)
(* doomed, and no other mover counts on the one that goes.                  *)
LEMMA UnlinkInv ==
    ASSUME IInv, NEW m \in Movers, Unlink(m)
    PROVE  IInv' /\ Kept /\ Unclobbered
  <1> USE DEF IInv, Goto, Unlink, callVars
  <1>1. src[m] \in Names /\ src[m] \in OpenNames /\ Doomed(src[m])
      BY DEF TypeOK, SourceHeld, Active, Doomed
  <1>2. \A n \in Names : dir'[n] = IF n = src[m] THEN None ELSE dir[n]
      BY <1>1 DEF TypeOK
  <1>3. TypeOK'
      BY <1>1 DEF TypeOK
  <1>4. Serial'
      BY DEF Serial, Active, Parks, TypeOK
  <1>5. SourceHeld'
    <2> SUFFICES ASSUME NEW k \in Movers, k # m, pc[k] # "idle"
                 PROVE  src[k] \in OpenNames /\ dir'[src[k]] # None
        BY DEF SourceHeld, Active, TypeOK
    <2>1. src[k] # src[m]
        BY DEF Serial, Active
    <2> QED
        BY <2>1, <1>2 DEF SourceHeld, Active, OpenNames
  <1>6. CandidateKind'
      BY <1>2, ParkAssumption DEF CandidateKind, TypeOK
  <1>7. \A n \in Names : Doomed(n)' => Doomed(n)
      BY DEF Doomed, TypeOK
  <1>8. ASSUME NEW f \in Files, Named(f)
        PROVE  \E n \in Names : dir'[n] = f /\ ~Doomed(n)'
    <2>1. PICK n \in Names : dir[n] = f /\ ~Doomed(n)
        BY <1>8 DEF SafeName
    <2> QED
        BY <2>1, <1>1, <1>2, <1>7
  <1>9. \A f \in Files : Named(f)' => Named(f)
      BY <1>2, ContentAssumption DEF Named
  <1>10. SafeName' /\ Kept
      BY <1>8, <1>9 DEF SafeName, Kept, Named
  <1>11. Unclobbered
      BY <1>2 DEF Unclobbered
  <1> QED
      BY <1>3, <1>4, <1>5, <1>6, <1>10, <1>11

(* A rename moves the file to a parking name that is still free; when it    *)
(* fails, nothing has happened.                                             *)
LEMMA RenameInv ==
    ASSUME IInv, NEW m \in Movers, Rename(m)
    PROVE  IInv' /\ Kept /\ Unclobbered
  <1> USE DEF IInv, Goto, callVars
  <1> DEFINE x == dir[src[m]]
  <1>1. /\ pc[m] = "rename" /\ Active(m) /\ src' = src /\ cand' = cand
        /\ attempt' = attempt
        /\ src[m] \in Names /\ src[m] \in OpenNames /\ x # None
        /\ cand[m] \in ParkNames /\ cand[m] \in Names /\ dir[cand[m]] = None
        /\ cand[m] # src[m] /\ Parks(m)
      BY ParkAssumption
      DEF Rename, TypeOK, SourceHeld, CandidateKind, Active, OpenNames, Parks
  <1>2. CASE pc' = [pc EXCEPT ![m] = "copy"] /\ dir' = dir
    <2>1. TypeOK' /\ Serial' /\ SourceHeld' /\ CandidateKind'
        BY <1>1, <1>2
        DEF TypeOK, Serial, Active, Parks, SourceHeld, CandidateKind
    <2>2. \A n \in Names : Doomed(n)' => Doomed(n)
        BY <1>1, <1>2 DEF Doomed, TypeOK
    <2> QED
        BY <1>2, <2>1, <2>2 DEF SafeName, Named, Kept, Unclobbered
  <1>3. CASE /\ dir' = [dir EXCEPT ![cand[m]] = x, ![src[m]] = None]
             /\ pc' = [pc EXCEPT ![m] = "idle"]
    <2>1. \A n \in Names : dir'[n] = IF n = cand[m] THEN x
                                     ELSE IF n = src[m] THEN None ELSE dir[n]
        BY <1>1, <1>3 DEF TypeOK
    <2>2. TypeOK' /\ Serial'
        BY <1>1, <1>3 DEF TypeOK, Serial, Active, Parks
    <2>3. ASSUME NEW k \in Movers, k # m, pc[k] # "idle"
          PROVE  /\ src[k] \in OpenNames /\ dir'[src[k]] # None
                 /\ src[k] # cand[m] /\ cand[k] \notin ParkNames
      <3>1. src[k] # src[m] /\ ~Parks(k)
          BY <1>1, <2>3 DEF Serial, Active
      <3> QED
          BY <1>1, <2>1, <2>3, <3>1 DEF SourceHeld, Active, OpenNames, Parks
    <2>4. SourceHeld'
        BY <1>1, <1>3, <2>3 DEF SourceHeld, Active, TypeOK
    <2>5. CandidateKind'
        BY <1>1, <1>3, <2>3 DEF CandidateKind, TypeOK
    <2>6. ~Doomed(cand[m])' /\ \A n \in Names : Doomed(n)' => Doomed(n)
        BY <1>1, <1>3, <2>3 DEF Doomed, TypeOK
    <2>7. ASSUME NEW f \in Files, Named(f)
          PROVE  \E n \in Names : dir'[n] = f /\ ~Doomed(n)'
      <3>1. CASE f = x
          BY <3>1, <1>1, <2>1, <2>6
      <3>2. CASE f # x
        <4>1. PICK n \in Names : dir[n] = f /\ ~Doomed(n)
            BY <2>7 DEF SafeName
        <4> QED
            BY <4>1, <3>2, <1>1, <2>1, <2>6, ContentAssumption
      <3> QED
          BY <3>1, <3>2
    <2>8. \A f \in Files : Named(f)' => Named(f)
        BY <1>1, <2>1, ContentAssumption DEF Named
    <2>9. SafeName' /\ Kept
        BY <2>7, <2>8 DEF SafeName, Kept, Named
    <2>10. Unclobbered
        BY <1>1, <2>1, ContentAssumption DEF Unclobbered
    <2> QED
        BY <2>2, <2>4, <2>5, <2>9, <2>10
  <1> QED
      BY <1>2, <1>3 DEF Rename

(* A copy leaves the whole file, or a torn one, under a free parking name.  *)
LEMMA CopyInv ==
    ASSUME IInv, NEW m \in Movers, Copy(m)
    PROVE  IInv' /\ Kept /\ Unclobbered
  <1> USE DEF IInv, Goto, callVars
  <1>1. PICK x \in {dir[src[m]], Torn}, place \in {"unlink", "idle"} :
            /\ dir' = [dir EXCEPT ![cand[m]] = x]
            /\ pc' = [pc EXCEPT ![m] = place]
            /\ place = "unlink" => x = dir[src[m]]
      BY DEF Copy
  <1>2. /\ pc[m] = "copy" /\ src' = src /\ cand' = cand /\ attempt' = attempt
        /\ src[m] \in Names /\ src[m] \in OpenNames /\ dir[src[m]] # None
        /\ cand[m] \in ParkNames /\ cand[m] \in Names /\ dir[cand[m]] = None
        /\ cand[m] # src[m] /\ Parks(m) /\ Active(m)
        /\ x \in Files \cup {Torn}
      BY ParkAssumption
      DEF Copy, TypeOK, SourceHeld, CandidateKind, Active, OpenNames, Parks
  <1>3. \A n \in Names : dir'[n] = IF n = cand[m] THEN x ELSE dir[n]
      BY <1>1, <1>2 DEF TypeOK
  <1>4. TypeOK'
      BY <1>1, <1>2 DEF TypeOK
  <1>5. Serial'
      BY <1>1, <1>2 DEF Serial, Active, Parks, TypeOK
  <1>6. SourceHeld'
      BY <1>1, <1>2, <1>3 DEF SourceHeld, Active, TypeOK, OpenNames
  <1>7. CandidateKind'
    <2> SUFFICES ASSUME NEW k \in Movers, k # m
                 PROVE  /\ pc[k] = "link" => cand[k] \in OpenNames
                        /\ pc[k] \in {"rename", "copy"} =>
                              cand[k] \in ParkNames /\ dir'[cand[k]] = None
        BY <1>1, <1>2 DEF CandidateKind, TypeOK
    <2>1. pc[k] # "idle" => ~Parks(k)
        BY <1>2 DEF Serial, Active
    <2> QED
        BY <2>1 DEF CandidateKind, Parks
  <1>8. ~Doomed(cand[m])' /\ \A n \in Names : Doomed(n)' => Doomed(n) \/ n = src[m]
    <2>1. \A k \in Movers : pc'[k] = "unlink" => src[k] \in OpenNames
        BY <1>1, <1>2, <1>6 DEF SourceHeld, Active
    <2> QED
        BY <2>1, <1>1, <1>2 DEF Doomed, TypeOK, OpenNames
  <1>9. place = "idle" => \A n \in Names : Doomed(n)' => Doomed(n)
      BY <1>1, <1>2 DEF Doomed, TypeOK
  <1>10. SafeName'
    <2> SUFFICES ASSUME NEW f \in Files, Named(f)'
                 PROVE  \E n \in Names : dir'[n] = f /\ ~Doomed(n)'
        BY DEF SafeName
    <2>1. CASE f = x
        BY <2>1, <1>2, <1>3, <1>8
    <2>2. CASE f # x
      <3>1. Named(f)
          BY <2>2, <1>3 DEF Named
      <3>2. PICK n \in Names : dir[n] = f /\ ~Doomed(n)
          BY <3>1 DEF SafeName
      <3>3. n # cand[m]
          BY <3>2, <1>2, ContentAssumption
      <3>4. n = src[m] => place = "idle"
          BY <3>2, <2>2, <1>1
      <3> QED
          BY <3>2, <3>3, <3>4, <1>3, <1>8, <1>9
    <2> QED
        BY <2>1, <2>2
  <1>11. Kept
      BY <1>2, <1>3, ContentAssumption DEF Kept, Named
  <1>12. Unclobbered
      BY <1>2, <1>3, ContentAssumption DEF Unclobbered
  <1> QED
      BY <1>4, <1>5, <1>6, <1>7, <1>10, <1>11, <1>12

(* A new candidate, a mover that stops, a file that is dropped. *)
LEMMA OtherInv ==
    ASSUME IInv, (\E m \in Movers : NextCandidate(m) \/ Stop(m)) \/ Drop
    PROVE  IInv' /\ Kept /\ Unclobbered
  <1> USE DEF IInv, Goto, callVars
  <1>1. ASSUME NEW m \in Movers, NextCandidate(m)
        PROVE  IInv' /\ Kept /\ Unclobbered
    <2> USE <1>1 DEF NextCandidate
    <2>1. attempt[m] + 1 <= MaxAttempts
        BY AttemptAssumption DEF TypeOK
    <2>2. TypeOK'
        BY <2>1, AttemptAssumption DEF TypeOK, OpenNames
    <2>3. Serial' /\ SourceHeld' /\ CandidateKind'
        BY DEF Serial, Active, Parks, SourceHeld, CandidateKind, TypeOK, OpenNames
    <2>4. \A n \in Names : Doomed(n)' => Doomed(n)
        BY DEF Doomed, TypeOK
    <2> QED
        BY <2>2, <2>3, <2>4 DEF SafeName, Named, Kept, Unclobbered
  <1>2. ASSUME NEW m \in Movers, Stop(m)
        PROVE  IInv' /\ Kept /\ Unclobbered
    <2> USE <1>2 DEF Stop
    <2>1. TypeOK' /\ Serial' /\ SourceHeld' /\ CandidateKind'
        BY DEF TypeOK, Serial, Active, Parks, SourceHeld, CandidateKind
    <2>2. \A n \in Names : Doomed(n)' => Doomed(n)
        BY DEF Doomed, TypeOK
    <2> QED
        BY <2>1, <2>2 DEF SafeName, Named, Kept, Unclobbered
  <1>3. CASE Drop
    <2>1. PICK n \in OpenNames, f \in Files :
              dir[n] = None /\ dir' = [dir EXCEPT ![n] = f]
        BY <1>3 DEF Drop
    <2> USE <1>3 DEF Drop
    <2>2. n \in Names /\ n \notin ParkNames
        BY DEF OpenNames
    <2>3. \A k \in Names : dir'[k] = IF k = n THEN f ELSE dir[k]
        BY <2>1, <2>2 DEF TypeOK
    <2>4. TypeOK' /\ Serial'
        BY <2>1, <2>2 DEF TypeOK, Serial, Active, Parks
    <2>5. SourceHeld' /\ CandidateKind'
        BY <2>2, <2>3, ContentAssumption, ParkAssumption
        DEF SourceHeld, CandidateKind, Active, OpenNames, TypeOK
    <2>6. ~Doomed(n)' /\ \A k \in Names : Doomed(k)' <=> Doomed(k)
        BY <2>1 DEF Doomed, SourceHeld, Active
    <2>7. SafeName'
        BY <2>1, <2>2, <2>3, <2>6, ContentAssumption DEF SafeName, Named
    <2> QED
        BY <2>1, <2>2, <2>3, <2>4, <2>5, <2>7, ContentAssumption
        DEF Kept, Unclobbered, Named
  <1> QED
      BY <1>1, <1>2, <1>3

(* Every step keeps the invariant, and with it every file and its names. *)
LEMMA StepInv == IInv /\ [SerialNext]_vars => IInv' /\ Kept /\ Unclobbered
  <1> SUFFICES ASSUME IInv, [SerialNext]_vars
               PROVE  IInv' /\ Kept /\ Unclobbered
      OBVIOUS
  <1>1. ASSUME NEW m \in Movers, BeginMove(m) \/ BeginPark(m), Serial'
        PROVE  IInv' /\ Kept /\ Unclobbered
    <2>1. dir' = dir
        BY <1>1 DEF BeginMove, BeginPark
    <2> QED
        BY <1>1, <2>1, BeginInv DEF Kept, Unclobbered, Named
  <1>2. ASSUME NEW m \in Movers, Continue(m)
        PROVE  IInv' /\ Kept /\ Unclobbered
      BY <1>2, LinkInv, UnlinkInv, RenameInv, CopyInv, OtherInv DEF Continue
  <1>3. CASE Drop
      BY <1>3, OtherInv
  <1>4. CASE UNCHANGED vars
      BY <1>4 DEF vars, callVars, IInv, TypeOK, Serial, SourceHeld, CandidateKind,
                  SafeName, Named, Doomed, Active, Parks, Kept, Unclobbered
  <1> QED
      BY <1>1, <1>2, <1>3, <1>4 DEF SerialNext

(* The movers' variables keep their types, the attempts their bound         *)
(* (atomic.go:30).                                                          *)
THEOREM MoveTypes == SerialSpec => []TypeOK
  <1>1. IInv => TypeOK
      BY DEF IInv
  <1> QED
      BY <1>1, InitInv, StepInv, PTL DEF SerialSpec

(* Every file always has a name that no mover is about to remove, so that a *)
(* crash at any point leaves it reachable.                                  *)
THEOREM SafeNameTheorem == SerialSpec => []SafeName
  <1>1. IInv => SafeName
      BY DEF IInv
  <1> QED
      BY <1>1, InitInv, StepInv, PTL DEF SerialSpec

(* "Moved back to __raws, never deleted" (relocalize.go:366-367), for all   *)
(* movers that the scan lock keeps apart.                                   *)
THEOREM NeverLostTheorem == SerialSpec => NeverLost
  <1>1. IInv /\ [SerialNext]_vars => [Kept]_vars
      BY StepInv
  <1>2. [Kept]_vars <=> [\A f \in Files : Named(f) => Named(f)']_vars
      BY DEF Kept
  <1> QED
      BY <1>1, <1>2, InitInv, StepInv, PTL DEF SerialSpec, NeverLost

(* "... instead of clobbering another file" (atomic.go:19-20). *)
THEOREM NeverOverwrittenTheorem == SerialSpec => NeverOverwritten
  <1>1. IInv /\ [SerialNext]_vars => [Unclobbered]_vars
      BY StepInv
  <1>2. [Unclobbered]_vars
          <=> [\A n \in Names : dir[n] \in Files => dir'[n] \in {dir[n], None}]_vars
      BY DEF Unclobbered
  <1> QED
      BY <1>1, <1>2, InitInv, StepInv, PTL DEF SerialSpec, NeverOverwritten

-----------------------------------------------------------------------------
(* The intake.  An import has its file from the exclusive create on, since  *)
(* only a merge or a page writes over a name, and theirs end otherwise.     *)

Tried(i) == Tries[ImportName[i]]

IntakeTyped ==
  /\ imports \in [Imports -> [pc : {"open", "write", "ok", "failed", "conflict"}, tried : Nat]]
  /\ splits \in [Splits -> [pages : Nat, pc : {"open", "ok", "failed"}]]
  /\ \A i \in Imports :
       /\ imports[i].pc = "open" => imports[i].tried < Len(Tried(i))
       /\ imports[i].pc \in {"write", "ok"} => imports[i].tried \in 1..Len(Tried(i))
  /\ \A s \in Splits : splits[s].pc = "ok" => splits[s].pages = PageCount[s]

HasFile(i) ==
  /\ Target(i) \in Waiting
  /\ imports[i].pc = "ok" => raws[Target(i)] = [of |-> Import(i), whole |-> TRUE]
  /\ imports[i].pc = "write" => raws[Target(i)] = [of |-> Import(i), whole |-> FALSE]
ImportsHeld ==
  \A i \in Imports : imports[i].pc \in {"write", "ok"} => HasFile(i) \/ Taken(Import(i))

PageHeld(s, page) ==
  LET name == PageNames[SplitStem[s]][page]
  IN Holds(name, Page(s, page)) \/ Taken(Page(s, page)) \/ name \in overwritten
PagesHeld == \A s \in Splits : \A page \in 1..splits[s].pages : PageHeld(s, page)

IntakeInv == IntakeTyped /\ ImportsHeld /\ PagesHeld

LEMMA SourcesDiffer ==
    /\ \A i, j \in Imports : Import(i) = Import(j) => i = j
    /\ \A i \in Imports, s \in Splits : \A page : Import(i) # Page(s, page)
  BY DEF Import, Page

\* One name is written.
Becomes(name, content) ==
  raws' = [n \in Waiting \cup {name} |-> IF n = name THEN content ELSE raws[n]]

LEMMA PutOne ==
    ASSUME NEW name, NEW content, Becomes(name, content)
    PROVE  /\ Waiting' = Waiting \cup {name} /\ raws'[name] = content
           /\ \A n \in Waiting : n # name => raws'[n] = raws[n]
  BY DEF Becomes, Waiting

LEMMA IntakeStarts == IntakeInit => IntakeInv
  BY IntakeAssumption DEF IntakeInit, IntakeInv, IntakeTyped, ImportsHeld, PagesHeld, Tried

LEMMA ImportOpensStep ==
    ASSUME IntakeInv, NEW i \in Imports, ImportOpens(i)
    PROVE  IntakeInv'
  <1> DEFINE tried == imports[i].tried + 1
             name == Tried(i)[tried]
             TornCopy == [of |-> Import(i), whole |-> FALSE]
             place == IF tried = Len(Tried(i)) THEN "conflict" ELSE "open"
  <1>0. IntakeTyped /\ imports[i].pc = "open"
      BY DEF IntakeInv, ImportOpens
  <1>1. /\ UNCHANGED <<splits, merged, taken, overwritten>>
        /\ \/ name \notin Waiting /\ Becomes(name, TornCopy)
              /\ imports' = [imports EXCEPT ![i] = [pc |-> "write", tried |-> tried]]
           \/ UNCHANGED raws
              /\ imports' = [imports EXCEPT ![i] =
                   [pc |-> place, tried |-> tried]]
      BY DEF ImportOpens, Tried, Put, Becomes
  <1>2. tried \in 1..Len(Tried(i)) /\ tried \in Nat
      BY <1>0, IntakeAssumption DEF IntakeTyped, Tried
  <1>a. /\ place \in {"conflict", "open"} /\ (place = "open" => tried < Len(Tried(i)))
        /\ imports \in [Imports -> [pc : {"open", "write", "ok", "failed", "conflict"}, tried : Nat]]
      BY <1>0, <1>2, IntakeAssumption DEF IntakeTyped, Tried
  <1> HIDE DEF tried, place, name
  <1>3. /\ \A j \in Imports \ {i} : imports'[j] = imports[j]
        /\ imports'[i].tried = tried /\ imports'[i].pc # "ok"
        /\ IntakeTyped'
    <2> DEFINE new == imports'[i]
    <2>1. new \in {[pc |-> "write", tried |-> tried], [pc |-> place, tried |-> tried]}
          /\ imports' = [imports EXCEPT ![i] = new]
        BY <1>1, <1>a
    <2>2. /\ new.pc \in {"write", "conflict", "open"} /\ new.tried = tried
          /\ new \in [pc : {"open", "write", "ok", "failed", "conflict"}, tried : Nat]
          /\ new.pc = "open" => tried < Len(Tried(i))
        BY <1>2, <1>a, <2>1
    <2> HIDE DEF new
    <2>3. \A j \in Imports \ {i} : imports'[j] = imports[j]
        BY <1>a, <2>1
    <2>4. imports'[i] = new
        BY <1>a, <2>1
    <2>5. imports' \in [Imports -> [pc : {"open", "write", "ok", "failed", "conflict"}, tried : Nat]]
        BY <1>a, <2>1, <2>2
    <2> QED
        BY <1>0, <1>1, <1>2, <2>2, <2>3, <2>4, <2>5 DEF IntakeTyped, Tried
  <1>4. \A n \in Waiting : n \in Waiting' /\ raws'[n] = raws[n]
      BY <1>1, PutOne DEF Waiting
  <1>5. PagesHeld'
      BY <1>1, <1>4 DEF IntakeInv, PagesHeld, PageHeld, Holds, Taken
  <1>6. ASSUME imports'[i].pc = "write" PROVE HasFile(i)'
    <2>1. Becomes(name, TornCopy)
        BY <1>1, <1>6, <1>a
    <2>2. Target(i)' = name
        BY <1>3 DEF Target, Tried, name
    <2>3. name \in Waiting' /\ raws'[name] = [of |-> Import(i), whole |-> FALSE]
        BY <2>1, PutOne
    <2> QED
        BY <1>6, <2>2, <2>3 DEF HasFile
  <1>7. ASSUME NEW j \in Imports \ {i}, imports'[j].pc \in {"write", "ok"}
        PROVE  HasFile(j)' \/ Taken(Import(j))'
    <2>1. imports'[j] = imports[j] /\ Target(j)' = Target(j)
        BY <1>3 DEF Target
    <2>2. HasFile(j) \/ Taken(Import(j))
        BY <1>7, <2>1 DEF IntakeInv, ImportsHeld
    <2> QED
        BY <1>1, <1>4, <2>1, <2>2 DEF HasFile, Taken
  <1> QED
      BY <1>3, <1>5, <1>6, <1>7 DEF IntakeInv, ImportsHeld

LEMMA ImportWritesStep ==
    ASSUME IntakeInv, NEW i \in Imports, ImportWrites(i)
    PROVE  IntakeInv'
  <1> DEFINE name == Target(i)
             Whole == [of |-> Import(i), whole |-> TRUE]
  <1>0. IntakeTyped /\ imports[i].pc = "write" /\ UNCHANGED <<splits, merged, taken, overwritten>>
      BY DEF IntakeInv, ImportWrites
  <1>1. \/ /\ imports' = [imports EXCEPT ![i].pc = "ok"]
           /\ IF name \in Waiting /\ raws[name].of = Import(i)
              THEN Becomes(name, Whole) ELSE UNCHANGED raws
        \/ imports' = [imports EXCEPT ![i].pc = "failed"] /\ UNCHANGED raws
      BY DEF ImportWrites, Reached, Put, Becomes
  <1>2. /\ IntakeTyped' /\ \A j \in Imports : Target(j)' = Target(j)
        /\ \A j \in Imports \ {i} : imports'[j] = imports[j]
    <2> DEFINE new == imports'[i]
    <2>1. PICK outcome \in {"ok", "failed"} : imports' = [imports EXCEPT ![i].pc = outcome]
        BY <1>1
    <2>2. /\ imports' = [imports EXCEPT ![i] = new]
          /\ new \in [pc : {"open", "write", "ok", "failed", "conflict"}, tried : Nat]
          /\ new.pc # "open" /\ new.tried = imports[i].tried
        BY <1>0, <2>1 DEF IntakeTyped
    <2> HIDE DEF new
    <2>3. /\ \A j \in Imports \ {i} : imports'[j] = imports[j]
          /\ imports'[i] = new
          /\ imports' \in [Imports -> [pc : {"open", "write", "ok", "failed", "conflict"}, tried : Nat]]
        BY <1>0, <2>2 DEF IntakeTyped
    <2>4. imports[i].tried \in 1..Len(Tried(i))
        BY <1>0 DEF IntakeTyped
    <2>5. \A j \in Imports : imports'[j].tried = imports[j].tried
        BY <2>2, <2>3
    <2>6. \A j \in Imports : Target(j)' = Target(j)
        BY <2>5 DEF Target
    <2> QED
        BY <1>0, <2>2, <2>3, <2>4, <2>6 DEF IntakeTyped, Tried
  <1>3. \A n \in Waiting : n \in Waiting' /\ (raws[n].of # Import(i) => raws'[n] = raws[n])
    <2>1. CASE Becomes(name, Whole) /\ raws[name].of = Import(i)
        BY <2>1, PutOne
    <2>2. CASE UNCHANGED raws
        BY <2>2 DEF Waiting
    <2> QED
        BY <1>1, <2>1, <2>2
  <1>4. PagesHeld'
      BY <1>0, <1>3, SourcesDiffer DEF IntakeInv, PagesHeld, PageHeld, Holds, Taken
  <1>5. ASSUME imports'[i].pc \in {"write", "ok"} PROVE HasFile(i)' \/ Taken(Import(i))'
    <2>1. imports'[i].pc = "ok"
        BY <1>0, <1>1, <1>5 DEF IntakeTyped
    <2>2. CASE Taken(Import(i))
        BY <1>0, <2>2 DEF Taken
    <2>3. CASE ~Taken(Import(i))
      <3>1. HasFile(i)
          BY <1>0, <2>3 DEF IntakeInv, ImportsHeld
      <3>2. Becomes(name, Whole)
          BY <1>0, <1>1, <1>5, <3>1 DEF HasFile, IntakeTyped
      <3> QED
          BY <1>2, <2>1, <3>2, PutOne DEF HasFile
    <2> QED
        BY <2>2, <2>3
  <1>6. ASSUME NEW j \in Imports \ {i}, imports'[j].pc \in {"write", "ok"}
        PROVE  HasFile(j)' \/ Taken(Import(j))'
    <2>1. imports'[j] = imports[j] /\ Target(j)' = Target(j) /\ Import(j) # Import(i)
        BY <1>2, SourcesDiffer
    <2>2. HasFile(j) \/ Taken(Import(j))
        BY <1>6, <2>1 DEF IntakeInv, ImportsHeld
    <2> QED
        BY <1>0, <1>3, <1>6, <2>1, <2>2 DEF HasFile, Taken
  <1> QED
      BY <1>2, <1>4, <1>5, <1>6 DEF IntakeInv, ImportsHeld

\* A merge or a page, under a name no import is tried under.
LEMMA WritesOver ==
    ASSUME IntakeInv, NEW name, NEW of, Becomes(name, [of |-> of, whole |-> TRUE]), Overwrites(name),
           \A i \in Imports : \A k \in 1..Len(Tried(i)) : Tried(i)[k] # name,
           UNCHANGED <<imports, taken>>
    PROVE  /\ ImportsHeld'
           /\ \A s \in Splits : \A page \in 1..splits[s].pages : PageHeld(s, page)'
           /\ Holds(name, of)'
  <1>1. \A n \in Waiting : n \in Waiting' /\ (n # name => raws'[n] = raws[n])
      BY PutOne
  <1>2. ASSUME NEW i \in Imports, imports[i].pc \in {"write", "ok"}
        PROVE  HasFile(i)' \/ Taken(Import(i))'
    <2>1. Target(i) # name /\ Target(i)' = Target(i)
        BY <1>2 DEF Target, Tried, IntakeInv, IntakeTyped
    <2>2. HasFile(i) \/ Taken(Import(i))
        BY <1>2 DEF IntakeInv, ImportsHeld
    <2> QED
        BY <1>1, <2>1, <2>2 DEF HasFile, Taken
  <1>3. ASSUME NEW s \in Splits, NEW page \in 1..splits[s].pages
        PROVE  PageHeld(s, page)'
    <2>1. PageHeld(s, page)
        BY DEF IntakeInv, PagesHeld
    <2> QED
        BY <1>1, <2>1 DEF PageHeld, Holds, Taken, Overwrites
  <1> QED
      BY <1>2, <1>3, PutOne DEF ImportsHeld, Holds

LEMMA MergeStep ==
    ASSUME IntakeInv, NEW out \in Merges, MergePDF(out)
    PROVE  IntakeInv'
  <1>1. /\ Becomes(PdfName[out], [of |-> <<"merge", out>>, whole |-> TRUE])
        /\ Overwrites(PdfName[out]) /\ UNCHANGED <<imports, splits, taken>>
      BY DEF MergePDF, Put, Becomes
  <1>2. \A i \in Imports : \A k \in 1..Len(Tried(i)) : Tried(i)[k] # PdfName[out]
      BY IntakeAssumption DEF Tried
  <1>3. IntakeTyped'
      BY <1>1 DEF IntakeInv, IntakeTyped
  <1> QED
      BY <1>1, <1>2, <1>3, WritesOver DEF IntakeInv, PagesHeld

LEMMA SplitPageStep ==
    ASSUME IntakeInv, NEW s \in Splits, SplitPage(s)
    PROVE  IntakeInv'
  <1>p. PICK page : page = splits[s].pages + 1
      OBVIOUS
  <1>n. PICK name : name = PageNames[SplitStem[s]][page]
      OBVIOUS
  <1>0. IntakeTyped
      BY DEF IntakeInv
  <1>1. /\ splits[s].pc = "open" /\ splits[s].pages < PageCount[s]
        /\ Becomes(name, [of |-> Page(s, page), whole |-> TRUE]) /\ Overwrites(name)
        /\ splits' = [splits EXCEPT ![s].pages = page]
        /\ UNCHANGED <<imports, taken>>
      BY <1>p, <1>n DEF SplitPage, Put, Becomes
  <1>2. page \in Nat /\ \A t \in Splits \ {s} : splits'[t] = splits[t]
      BY <1>0, <1>1, <1>p DEF IntakeTyped
  <1>3. splits'[s].pages = page /\ splits'[s].pc = "open" /\ IntakeTyped'
      BY <1>0, <1>1, <1>p DEF IntakeTyped
  <1>4. \A i \in Imports : \A k \in 1..Len(Tried(i)) : Tried(i)[k] # name
    <2>1. page \in 1..PageCount[s]
        BY <1>0, <1>1, <1>p, IntakeAssumption DEF IntakeTyped
    <2> QED
        BY <2>1, <1>n, IntakeAssumption DEF Tried
  <1>5. /\ ImportsHeld' /\ Holds(name, Page(s, page))'
        /\ \A t \in Splits : \A p \in 1..splits[t].pages : PageHeld(t, p)'
      BY <1>1, <1>4, WritesOver
  <1>6. PagesHeld'
    <2> SUFFICES ASSUME NEW t \in Splits, NEW p \in 1..splits'[t].pages PROVE PageHeld(t, p)'
        BY DEF PagesHeld
    <2>1. CASE t = s /\ p = page
        BY <1>5, <1>n, <2>1 DEF PageHeld
    <2>2. CASE t # s \/ p # page
      <3>1. p \in 1..splits[t].pages
          BY <1>0, <1>2, <1>3, <1>p, <2>2 DEF IntakeTyped
      <3> QED
          BY <1>5, <3>1
    <2> QED
        BY <2>1, <2>2
  <1> QED
      BY <1>3, <1>5, <1>6 DEF IntakeInv

LEMMA ScanTakesStep ==
    ASSUME IntakeInv, NEW name \in Waiting, ScanTakes(name)
    PROVE  IntakeInv'
  <1>1. /\ UNCHANGED <<imports, splits, overwritten>>
        /\ taken' = taken \cup {raws[name].of}
        /\ \A n \in Waiting : n # name => n \in Waiting' /\ raws'[n] = raws[n]
      BY DEF ScanTakes, Waiting
  <1>2. IntakeTyped'
      BY <1>1 DEF IntakeInv, IntakeTyped
  <1>3. ASSUME NEW i \in Imports, imports[i].pc \in {"write", "ok"}
        PROVE  HasFile(i)' \/ Taken(Import(i))'
    <2>1. Target(i)' = Target(i)
        BY <1>1 DEF Target
    <2>2. HasFile(i) \/ Taken(Import(i))
        BY <1>3 DEF IntakeInv, ImportsHeld
    <2>3. HasFile(i) /\ Target(i) = name => raws[name].of = Import(i)
        BY <1>3 DEF HasFile
    <2> QED
        BY <1>1, <2>1, <2>2, <2>3 DEF HasFile, Taken
  <1>4. ASSUME NEW s \in Splits, NEW page \in 1..splits[s].pages
        PROVE  PageHeld(s, page)'
    <2>1. PageHeld(s, page)
        BY DEF IntakeInv, PagesHeld
    <2> QED
        BY <1>1, <2>1 DEF PageHeld, Holds, Taken
  <1> QED
      BY <1>1, <1>2, <1>3, <1>4 DEF IntakeInv, ImportsHeld, PagesHeld

LEMMA IntakeStep == IntakeInv /\ [IntakeNext]_intakeVars => IntakeInv'
  <1> SUFFICES ASSUME IntakeInv, [IntakeNext]_intakeVars PROVE IntakeInv'
      OBVIOUS
  <1>1. CASE UNCHANGED intakeVars
      BY <1>1 DEF intakeVars, IntakeInv, IntakeTyped, ImportsHeld, HasFile, Target, PagesHeld,
                  PageHeld, Holds, Taken, Waiting
  <1>2. ASSUME NEW s \in Splits, SplitAnswers(s) PROVE IntakeInv'
    <2>1. /\ splits' = [splits EXCEPT ![s].pc = IF splits[s].pages = PageCount[s] THEN "ok" ELSE "failed"]
          /\ UNCHANGED <<raws, imports, taken, overwritten>>
        BY <1>2 DEF SplitAnswers
    <2>2. IntakeTyped' /\ \A t \in Splits : splits'[t].pages = splits[t].pages
        BY <2>1 DEF IntakeInv, IntakeTyped
    <2>3. ImportsHeld' /\ PagesHeld'
        BY <2>1, <2>2 DEF IntakeInv, ImportsHeld, HasFile, Target, PagesHeld, PageHeld, Holds, Taken, Waiting
    <2> QED
        BY <2>2, <2>3 DEF IntakeInv
  <1> QED
      BY <1>1, <1>2, ImportOpensStep, ImportWritesStep, MergeStep, SplitPageStep, ScanTakesStep
      DEF IntakeNext

(* What was answered with 200 is in __raws until the scan takes it: for any *)
(* requests, names and order of their steps.                                *)
THEOREM IntakeKeptTheorem == IntakeSpec => []IntakeKept
  <1>1. IntakeInv => IntakeKept
    <2> SUFFICES ASSUME IntakeInv PROVE IntakeKept
        OBVIOUS
    <2>1. ImportsAreKept
        BY DEF IntakeInv, ImportsHeld, HasFile, ImportsAreKept, Holds
    <2>2. PagesAreKept
        BY DEF IntakeInv, IntakeTyped, PagesHeld, PageHeld, PagesAreKept
    <2> QED
        BY <2>1, <2>2 DEF IntakeKept
  <1> QED
      BY <1>1, IntakeStarts, IntakeStep, PTL DEF IntakeSpec

-----------------------------------------------------------------------------
(* Where documents are filed.  A name is made of the title once, and what   *)
(* is made stays made: its stem has a date, and the stamp of a collision    *)
(* makes it speak.                                                          *)

\* The rows, with the prover told that these literals are texts, too.
RowTexts == STRING \cup {"", "__raws", "general"}
TitleTexts == STRING \cup {"Document"}
TypedRows == [category : RowTexts, subcategory : RowTexts, date : Nat, title : Seq(TitleTexts)]

HasForm(f) == f = [folder |-> f.folder, name |-> [stem |-> f.name.stem, stamp |-> f.name.stamp]]
NameKnown(d) ==
  /\ HasForm(files[d]) /\ files[d].name.stamp \in Nat
  /\ files[d].name.stem = GivenName(d).stem \/ files[d].name.stem.date # 0

FilingTyped ==
  /\ rows \in [Docs -> TypedRows] /\ branches \subseteq RowTexts \X RowTexts
  /\ files = [d \in Docs |-> files[d]] /\ \A d \in Docs : NameKnown(d)
  /\ day \in 1..Len(Calendar) /\ stamps \in Nat /\ settled \subseteq Docs
  /\ renaming = [category |-> renaming.category, old |-> renaming.old, new |-> renaming.new,
                 left |-> renaming.left, seen |-> renaming.seen, at |-> renaming.at]
  /\ renaming.left \subseteq Docs
  /\ renaming.left # {} => renaming.seen \in [Docs -> TypedRows] /\ renaming.new \in RowTexts

\* What a repair has put right the next one leaves where it is.
NextRow(d) == RowRepaired(d, Normalized(rows[d]))
RightNow(d) == AtHome(d, NextRow(d)) /\ ~GoesBack(d, Normalized(rows[d]))
FilingInv ==
  /\ FilingTyped /\ SpeakingNamesStay
  /\ \A d \in settled : RightNow(d)

LEMMA TodayIsADay ==
    ASSUME FilingAssumption, FilingTyped
    PROVE  /\ Today \in Nat \ {0}
           /\ \A date \in Nat : DateOr(date, Today) # 0
  <1>1. Calendar \in [1..Len(Calendar) -> Nat \ {0}]
      BY DEF FilingAssumption
  <1>2. Today \in Nat \ {0}
      BY <1>1 DEF FilingTyped, Today
  <1>3. ASSUME NEW date \in Nat PROVE DateOr(date, Today) # 0
      BY <1>2, <1>3 DEF DateOr
  <1> QED
      BY <1>2, <1>3

\* The name a row gives a file: the one it has, or one that has a date.
LEMMA NamesMade ==
    ASSUME FilingAssumption, FilingTyped, NEW row \in TypedRows,
           NEW name, name = [stem |-> name.stem, stamp |-> name.stamp], name.stamp \in Nat,
           NEW made, made = IntelligentName(row, name)
    PROVE  /\ made = [stem |-> made.stem, stamp |-> made.stamp] /\ made.stamp \in Nat
           /\ made = name \/ (made.stem.date # 0 /\ IsGenericFilename(name) /\ row.title # <<>>)
           /\ IntelligentName(row, made) = made
           /\ \A n \in Nat \ {0} :
                LET stamped == [stem |-> made.stem, stamp |-> n]
                IN \/ IntelligentName(row, stamped) = stamped
                   \/ made.stem.date = 0 /\ Last(made.stem.words) \in BareNames
  <1> DEFINE new == [stem |-> [date |-> DateOr(row.date, Today), entity |-> Entity(row),
                               words |-> TitleWords(row)],
                     stamp |-> 0]
  <1>1. row.date \in Nat
      BY DEF TypedRows
  <1>2. new.stem.date # 0 /\ new.stamp = 0 /\ new = [stem |-> new.stem, stamp |-> 0]
      BY <1>1, TodayIsADay
  <1>3. \A m : IntelligentName(row, m) = IF row.title = <<>> \/ ~IsGenericFilename(m) THEN m ELSE new
      BY DEF IntelligentName
  <1> HIDE DEF new
  <1>4. made = [stem |-> made.stem, stamp |-> made.stamp] /\ made.stamp \in Nat
      BY <1>2, <1>3
  <1>5. made = name \/ (made = new /\ made.stem.date # 0 /\ IsGenericFilename(name) /\ row.title # <<>>)
      BY <1>2, <1>3
  <1>6. IntelligentName(row, made) = made
      BY <1>3
  <1>7. ASSUME NEW n \in Nat \ {0}, NEW stamped, stamped = [stem |-> made.stem, stamp |-> n]
        PROVE  \/ IntelligentName(row, stamped) = stamped
               \/ made.stem.date = 0 /\ Last(made.stem.words) \in BareNames
    <2>1. stamped.stem = made.stem /\ stamped.stamp = n /\ n # 0
        BY <1>7
    <2>2. CASE row.title = <<>> \/ ~IsGenericFilename(stamped)
        BY <1>3, <2>2
    <2>3. CASE row.title # <<>> /\ IsGenericFilename(stamped)
      <3>1. stamped.stem.date = 0 /\ Last(stamped.stem.words) \in CodeNames \cup BareNames
          BY <2>1, <2>3 DEF IsGenericFilename
      <3>2. made = name /\ ~IsGenericFilename(name)
          BY <1>2, <1>3, <2>1, <2>3, <3>1
      <3>3. Last(made.stem.words) \notin CodeNames
          BY <2>1, <3>1, <3>2 DEF IsGenericFilename
      <3> QED
          BY <2>1, <3>1, <3>3
    <2> QED
        BY <2>2, <2>3
  <1> QED
      BY <1>4, <1>5, <1>6, <1>7

\* A move puts the file where it is to go, with a stamp if that is taken.
LEMMA Moved ==
    ASSUME FilingTyped, NEW d \in Docs, NEW target, HasForm(target), target.name.stamp \in Nat,
           MoveTo(d, target)
    PROVE  \E f : /\ files' = [files EXCEPT ![d] = f] /\ HasForm(f) /\ stamps' \in Nat
                  /\ f = target \/ (\E n \in Nat \ {0} :
                       f = [folder |-> target.folder, name |-> [stem |-> target.name.stem, stamp |-> n]])
  <1>1. CASE target = files[d]
    <2>1. files' = [files EXCEPT ![d] = target] /\ stamps' \in Nat
        BY <1>1 DEF MoveTo, FilingTyped
    <2> QED
        BY <2>1
  <1>2. CASE target # files[d]
    <2>1. stamps \in Nat
        BY DEF FilingTyped
    <2>2. \/ files' = [files EXCEPT ![d] = target] /\ stamps' = stamps
          \/ files' = [files EXCEPT ![d] = [target EXCEPT !.name.stamp = stamps']] /\ stamps' = stamps + 1
        BY <1>2 DEF MoveTo
    <2>3. CASE files' = [files EXCEPT ![d] = target] /\ stamps' = stamps
        BY <2>1, <2>3
    <2>4. CASE files' = [files EXCEPT ![d] = [target EXCEPT !.name.stamp = stamps']] /\ stamps' = stamps + 1
      <3> DEFINE f == [target EXCEPT !.name.stamp = stamps']
      <3>1. stamps' \in Nat \ {0}
          BY <2>1, <2>4
      <3>2. f = [folder |-> target.folder, name |-> [stem |-> target.name.stem, stamp |-> stamps']]
          BY DEF HasForm
      <3>3. HasForm(f)
          BY <3>2 DEF HasForm
      <3> QED
          BY <2>4, <3>1, <3>2, <3>3
    <2> QED
        BY <2>2, <2>3, <2>4
  <1> QED
      BY <1>1, <1>2

\* A file that is moved by its row: its name speaks if it did, it is at home if
\* nobody else is there, and every other file stays.
LEMMA Relocated ==
    ASSUME FilingAssumption, FilingTyped, NEW d \in Docs, NEW row \in TypedRows,
           RelocalizeFileIfNeeded(d, row)
    PROVE  \E f : /\ files' = [files EXCEPT ![d] = f] /\ HasForm(f) /\ f.name.stamp \in Nat
                  /\ stamps' \in Nat
                  /\ f.name.stem = GivenName(d).stem \/ f.name.stem.date # 0
                  /\ Given[d] \notin CodeNames \cup EndNames \cup BareNames
                     /\ files[d].name.stem = GivenName(d).stem => f.name.stem = GivenName(d).stem
                  /\ \/ ComputeCanonicalPath(row, f.name) = f
                     \/ f.name.stem = GivenName(d).stem /\ Given[d] \in BareNames /\ f.name.stamp # 0
  <1> DEFINE name == files[d].name
             made == IntelligentName(row, name)
             target == ComputeCanonicalPath(row, name)
  <1>1. name = [stem |-> name.stem, stamp |-> name.stamp] /\ name.stamp \in Nat
        /\ (name.stem = GivenName(d).stem \/ name.stem.date # 0)
      BY DEF FilingTyped, NameKnown, HasForm
  <1>2. /\ made = [stem |-> made.stem, stamp |-> made.stamp] /\ made.stamp \in Nat
        /\ made = name \/ (made.stem.date # 0 /\ IsGenericFilename(name) /\ row.title # <<>>)
        /\ IntelligentName(row, made) = made
        /\ \A n \in Nat \ {0} :
             LET stamped == [stem |-> made.stem, stamp |-> n]
             IN \/ IntelligentName(row, stamped) = stamped
                \/ made.stem.date = 0 /\ Last(made.stem.words) \in BareNames
      BY <1>1, NamesMade
  <1>3. target = [folder |-> FolderOf(row), name |-> made]
      BY DEF ComputeCanonicalPath
  <1>4. MoveTo(d, target)
      BY DEF RelocalizeFileIfNeeded
  <1>g. GivenName(d).stem.date = 0 /\ Last(GivenName(d).stem.words) = Given[d]
      BY DEF GivenName, Last
  <1> HIDE DEF name, made, target
  <1>5. HasForm(target) /\ target.name = made /\ target.folder = FolderOf(row)
      BY <1>2, <1>3 DEF HasForm
  <1>6. PICK f : /\ files' = [files EXCEPT ![d] = f] /\ HasForm(f) /\ stamps' \in Nat
                 /\ f = target \/ (\E n \in Nat \ {0} :
                      f = [folder |-> target.folder, name |-> [stem |-> target.name.stem, stamp |-> n]])
      BY <1>2, <1>4, <1>5, Moved
  <1>7. f.name.stem = made.stem /\ f.folder = FolderOf(row) /\ f.name.stamp \in Nat
    <2>1. CASE f = target
        BY <1>2, <1>5, <2>1
    <2>2. CASE \E n \in Nat \ {0} :
                 f = [folder |-> target.folder, name |-> [stem |-> target.name.stem, stamp |-> n]]
        BY <1>5, <2>2
    <2> QED
        BY <1>6, <2>1, <2>2
  <1>8. f.name.stem = GivenName(d).stem \/ f.name.stem.date # 0
      BY <1>1, <1>2, <1>7
  <1>9. ASSUME Given[d] \notin CodeNames \cup EndNames \cup BareNames, name.stem = GivenName(d).stem
        PROVE  f.name.stem = GivenName(d).stem
    <2>1. ~IsGenericFilename(name)
        BY <1>9, <1>g DEF IsGenericFilename
    <2> QED
        BY <1>2, <1>7, <1>9, <2>1
  <1>10. \/ ComputeCanonicalPath(row, f.name) = f
         \/ f.name.stem = GivenName(d).stem /\ Given[d] \in BareNames /\ f.name.stamp # 0
    <2>1. CASE f = target
        BY <1>2, <1>3, <1>5, <2>1 DEF ComputeCanonicalPath
    <2>2. CASE \E n \in Nat \ {0} :
                 f = [folder |-> target.folder, name |-> [stem |-> target.name.stem, stamp |-> n]]
      <3>1. PICK n \in Nat \ {0} : f = [folder |-> FolderOf(row), name |-> [stem |-> made.stem, stamp |-> n]]
          BY <1>5, <2>2
      <3>2. f.name = [stem |-> made.stem, stamp |-> n] /\ n # 0
          BY <3>1
      <3>3. CASE IntelligentName(row, [stem |-> made.stem, stamp |-> n]) = [stem |-> made.stem, stamp |-> n]
          BY <3>1, <3>2, <3>3 DEF ComputeCanonicalPath
      <3>4. CASE made.stem.date = 0 /\ Last(made.stem.words) \in BareNames
        <4>1. made.stem = GivenName(d).stem
            BY <1>7, <1>8, <3>4
        <4> QED
            BY <1>7, <1>g, <3>2, <3>4, <4>1
      <3> QED
          BY <1>2, <3>3, <3>4
    <2> QED
        BY <1>6, <2>1, <2>2
  <1> QED
      BY <1>6, <1>7, <1>8, <1>9, <1>10 DEF name

LEMMA RowsTyped ==
    ASSUME FilingAssumption
    PROVE  /\ NoRow \in TypedRows /\ Classified \subseteq TypedRows /\ Edits \subseteq TypedRows
           /\ \A d \in Docs : ByRules[d] \in TypedRows
           /\ InitialBranches \subseteq RowTexts \X RowTexts
           /\ \A r \in Renames : {r.category, r.old, r.new} \subseteq RowTexts
  <1>1. DocumentRows \subseteq TypedRows
    <2>1. STRING \subseteq RowTexts /\ STRING \subseteq TitleTexts
        BY DEF RowTexts, TitleTexts
    <2>2. ASSUME NEW s \in Seq(STRING) PROVE s \in Seq(TitleTexts)
      <3>1. Len(s) \in Nat /\ s \in [1..Len(s) -> STRING]
          OBVIOUS
      <3>2. s \in [1..Len(s) -> TitleTexts]
          BY <2>1, <3>1
      <3> QED
          BY <3>1, <3>2
    <2> QED
        BY <2>1, <2>2 DEF DocumentRows, TypedRows
  <1>2. NoRow \in TypedRows
      BY DEF NoRow, TypedRows, RowTexts
  <1>3. InitialBranches \subseteq RowTexts \X RowTexts
      BY DEF FilingAssumption, RowTexts
  <1>4. \A r \in Renames : {r.category, r.old, r.new} \subseteq RowTexts
      BY DEF FilingAssumption, RowTexts
  <1>5. \A d \in Docs : ByRules[d] \in DocumentRows
      BY DEF FilingAssumption
  <1> QED
      BY <1>1, <1>2, <1>3, <1>4, <1>5 DEF FilingAssumption

\* The one document a step files, moves or writes the row of.
OneFiled(d) ==
  \E f, row :
    /\ files' = [files EXCEPT ![d] = f] /\ HasForm(f) /\ f.name.stamp \in Nat /\ stamps' \in Nat
    /\ f.name.stem = GivenName(d).stem \/ f.name.stem.date # 0
    /\ Given[d] \notin CodeNames \cup EndNames \cup BareNames => f.name.stem = GivenName(d).stem
    /\ rows' = [rows EXCEPT ![d] = row] /\ row \in TypedRows
SameRenaming ==
  /\ renaming' = [category |-> renaming'.category, old |-> renaming'.old, new |-> renaming'.new,
                  left |-> renaming'.left, seen |-> renaming'.seen, at |-> renaming'.at]
  /\ renaming'.left \subseteq Docs
  /\ renaming'.left # {} => renaming'.seen \in [Docs -> TypedRows] /\ renaming'.new \in RowTexts

LEMMA OwnersTyped ==
    ASSUME FilingAssumption, FilingTyped, NEW row \in TypedRows
    PROVE  CanonicalCategory(row) \in RowTexts
  <1> DEFINE owners == Owners(row.subcategory)
  <1>1. owners \subseteq RowTexts
      BY DEF Owners, FilingTyped
  <1>2. row.category \in RowTexts
      BY DEF TypedRows
  <1>3. CASE row.category \notin owners /\ Cardinality(owners) = 1
    <2>1. owners # {}
      <3>1. Cardinality(owners) = 1
          BY <1>3
      <3>2. Cardinality({}) = 0
          BY FS_EmptySet
      <3> HIDE DEF owners
      <3>3. ASSUME owners = {} PROVE FALSE
          BY <3>1, <3>2, <3>3
      <3> QED
          BY <3>3
    <2>2. (CHOOSE c \in owners : TRUE) \in owners
        BY <2>1
    <2>3. CanonicalCategory(row) = CHOOSE c \in owners : TRUE
        BY <1>3 DEF CanonicalCategory
    <2> QED
        BY <1>1, <2>2, <2>3
  <1>4. CASE ~(row.category \notin owners /\ Cardinality(owners) = 1)
    <2>1. CanonicalCategory(row) = row.category
        BY <1>4 DEF CanonicalCategory
    <2> QED
        BY <1>2, <2>1
  <1> QED
      BY <1>3, <1>4

\* What a repair makes of a row, and the writing of a year as "general" before it.
LEMMA RowsRepaired ==
    ASSUME FilingAssumption, FilingTyped, NEW d \in Docs, NEW row \in TypedRows
    PROVE  /\ RowRepaired(d, row) \in TypedRows /\ RowRepaired(d, row).date = row.date
           /\ SaysTooLittle(row) =>
                RowRepaired(d, row) = [category |-> ByRules[d].category, subcategory |-> ByRules[d].subcategory,
                                       date |-> row.date, title |-> row.title]
           /\ ~SaysTooLittle(row) =>
                RowRepaired(d, row) = [category |-> CanonicalCategory(row), subcategory |-> row.subcategory,
                                       date |-> row.date, title |-> row.title]
  <1> DEFINE rule == ByRules[d]
             new == RowRepaired(d, row)
             canonical == CanonicalCategory(row)
  <1>1. rule \in TypedRows /\ canonical \in RowTexts
      BY RowsTyped, OwnersTyped
  <1>2. /\ SaysTooLittle(row) => new = [row EXCEPT !.category = rule.category, !.subcategory = rule.subcategory]
        /\ ~SaysTooLittle(row) => new = [row EXCEPT !.category = canonical]
      BY DEF RowRepaired
  <1> HIDE DEF rule, new, canonical
  <1>3. /\ {row.category, row.subcategory, rule.category, rule.subcategory} \subseteq RowTexts
        /\ row = [category |-> row.category, subcategory |-> row.subcategory, date |-> row.date, title |-> row.title]
        /\ row.date \in Nat /\ row.title \in Seq(TitleTexts)
      BY <1>1 DEF TypedRows
  <1>4. CASE SaysTooLittle(row)
    <2>1. new = [category |-> rule.category, subcategory |-> rule.subcategory, date |-> row.date, title |-> row.title]
        BY <1>2, <1>3, <1>4
    <2>2. new \in TypedRows /\ new.date = row.date
        BY <1>3, <2>1 DEF TypedRows
    <2> QED
        BY <1>4, <2>1, <2>2 DEF new, rule
  <1>5. CASE ~SaysTooLittle(row)
    <2>1. new = [category |-> canonical, subcategory |-> row.subcategory, date |-> row.date, title |-> row.title]
        BY <1>2, <1>3, <1>5
    <2>2. new \in TypedRows /\ new.date = row.date
        BY <1>1, <1>3, <2>1 DEF TypedRows
    <2> QED
        BY <1>5, <2>1, <2>2 DEF new, canonical
  <1> QED
      BY <1>4, <1>5

LEMMA RowsNormalized ==
    ASSUME NEW row \in TypedRows
    PROVE  /\ Normalized(row) \in TypedRows /\ Normalized(row).date = row.date
           /\ Normalized(Normalized(row)) = Normalized(row)
           /\ ~SaysTooLittle(Normalized(row)) => Normalized(row) = row
           /\ Normalized(row).category = row.category /\ Normalized(row).title = row.title
  <1>1. /\ {row.category, row.subcategory} \subseteq RowTexts
        /\ row = [category |-> row.category, subcategory |-> row.subcategory, date |-> row.date, title |-> row.title]
        /\ row.date \in Nat /\ row.title \in Seq(TitleTexts)
      BY DEF TypedRows
  <1>2. CASE row.subcategory \in YearNames
    <2> DEFINE general == [category |-> row.category, subcategory |-> "general", date |-> row.date, title |-> row.title]
    <2>1. Normalized(row) = general
        BY <1>1, <1>2 DEF Normalized
    <2>2. general \in TypedRows
      <3>1. {general.category, general.subcategory} \subseteq RowTexts /\ general.date \in Nat /\ general.title \in Seq(TitleTexts)
          BY <1>1 DEF RowTexts
      <3> QED
          BY <3>1 DEF TypedRows
    <2>3. Normalized(general) = general
        BY DEF Normalized
    <2>4. SaysTooLittle(general)
        BY DEF SaysTooLittle, Vague
    <2> QED
        BY <2>1, <2>2, <2>3, <2>4
  <1>3. CASE row.subcategory \notin YearNames
      BY <1>3 DEF Normalized
  <1> QED
      BY <1>2, <1>3

\* What is settled depends on its own row and file, the taxonomy and the day; a year in
\* its row may be written as "general".
LEMMA StillRight ==
    ASSUME FilingAssumption, FilingTyped, branches' = branches, NEW d \in Docs,
           Normalized(rows'[d]) = Normalized(rows[d]), files'[d] = files[d],
           RightNow(d),
           day' = day \/ DateOr(rows[d].date, 0) # 0
    PROVE  RightNow(d)'
  <1> DEFINE row == Normalized(rows[d])
             new == NextRow(d)
  <1>1. \A r : CanonicalCategory(r)' = CanonicalCategory(r)
      BY DEF CanonicalCategory, Owners
  <1>2. NextRow(d)' = new /\ (GoesBack(d, Normalized(rows[d]))' <=> GoesBack(d, Normalized(rows[d])))
      BY <1>1 DEF NextRow, RowRepaired, GoesBack, Normalized
  <1>3. new.date = rows[d].date
    <2>1. rows[d] \in TypedRows
        BY DEF FilingTyped
    <2>2. row \in TypedRows /\ row.date = rows[d].date
        BY <2>1, RowsNormalized
    <2> HIDE DEF row
    <2>3. RowRepaired(d, row).date = row.date
        BY <2>2, RowsRepaired
    <2> QED
        BY <2>2, <2>3 DEF NextRow, row
  <1> HIDE DEF new
  <1>4. ComputeCanonicalPath(NextRow(d), files[d].name)' = ComputeCanonicalPath(new, files[d].name)
    <2>1. DateOr(new.date, Today)' = DateOr(new.date, Today)
      <3>1. CASE day' = day
          BY <1>2, <3>1 DEF DateOr, Today, new
      <3>2. CASE DateOr(rows[d].date, 0) # 0
          BY <1>2, <1>3, <3>2 DEF DateOr, new
      <3> QED
          BY <3>1, <3>2
    <2> QED
        BY <1>2, <2>1 DEF ComputeCanonicalPath, FolderOf, IntelligentName, new
  <1> QED
      BY <1>2, <1>4 DEF RightNow, AtHome, new

LEMMA OneFiledStep ==
    ASSUME FilingAssumption, FilingInv, NEW d \in Docs, OneFiled(d), day' = day, branches' \subseteq RowTexts \X RowTexts,
           SameRenaming, settled' \subseteq settled \cup {d}, settled' = {} \/ branches' = branches,
           d \in settled' => RightNow(d)'
    PROVE  FilingInv'
  <1>1. PICK f, row :
          /\ files' = [files EXCEPT ![d] = f] /\ HasForm(f) /\ f.name.stamp \in Nat /\ stamps' \in Nat
          /\ f.name.stem = GivenName(d).stem \/ f.name.stem.date # 0
          /\ Given[d] \notin CodeNames \cup EndNames \cup BareNames => f.name.stem = GivenName(d).stem
          /\ rows' = [rows EXCEPT ![d] = row] /\ row \in TypedRows
      BY DEF OneFiled
  <1>2. /\ rows' \in [Docs -> TypedRows] /\ rows'[d] = row /\ \A e \in Docs \ {d} : rows'[e] = rows[e]
        /\ files' = [e \in Docs |-> files'[e]] /\ files'[d] = f /\ \A e \in Docs \ {d} : files'[e] = files[e]
    <2>1. rows \in [Docs -> TypedRows] /\ files = [e \in Docs |-> files[e]]
        BY DEF FilingInv, FilingTyped
    <2> QED
        BY <1>1, <2>1
  <1>3. \A e \in Docs : NameKnown(e)'
    <2>1. NameKnown(d)'
        BY <1>1, <1>2 DEF NameKnown, HasForm
    <2>2. ASSUME NEW e \in Docs \ {d} PROVE NameKnown(e)'
        BY <1>2 DEF FilingInv, FilingTyped, NameKnown, HasForm
    <2> QED
        BY <2>1, <2>2
  <1>4. FilingTyped'
      BY <1>1, <1>2, <1>3 DEF FilingInv, FilingTyped, SameRenaming
  <1>5. SpeakingNamesStay'
      BY <1>1, <1>2 DEF FilingInv, SpeakingNamesStay
  <1>6. ASSUME NEW e \in settled' PROVE RightNow(e)'
    <2>1. CASE e = d
        BY <1>6, <2>1
    <2>2. CASE e # d
      <3>1. e \in settled /\ e \in Docs \ {d} /\ branches' = branches
          BY <1>6, <2>2 DEF FilingInv, FilingTyped
      <3>2. rows'[e] = rows[e] /\ files'[e] = files[e] /\ RightNow(e) /\ FilingTyped
          BY <1>2, <3>1 DEF FilingInv
      <3> QED
          BY <3>1, <3>2, StillRight
    <2> QED
        BY <2>1, <2>2
  <1> QED
      BY <1>4, <1>5, <1>6 DEF FilingInv

LEMMA KeptName ==
    ASSUME FilingInv, NEW d \in Docs, NEW f, HasForm(f), f.name.stem = files[d].name.stem
    PROVE  /\ f.name.stem = GivenName(d).stem \/ f.name.stem.date # 0
           /\ Given[d] \notin CodeNames \cup EndNames \cup BareNames => f.name.stem = GivenName(d).stem
  BY DEF FilingInv, FilingTyped, NameKnown, SpeakingNamesStay

LEMMA FileStays ==
    ASSUME FilingInv, NEW d \in Docs, UNCHANGED <<files, stamps>>, NEW row \in TypedRows,
           rows' = [rows EXCEPT ![d] = row]
    PROVE  OneFiled(d)
  <1>1. files' = [files EXCEPT ![d] = files[d]] /\ HasForm(files[d]) /\ files[d].name.stamp \in Nat
        /\ stamps' \in Nat
      BY DEF FilingInv, FilingTyped, NameKnown
  <1> QED
      BY <1>1, KeptName DEF OneFiled

LEMMA FileGoes ==
    ASSUME FilingAssumption, FilingInv, NEW d \in Docs, NEW by \in TypedRows, RelocalizeFileIfNeeded(d, by),
           NEW row \in TypedRows, rows' = [rows EXCEPT ![d] = row]
    PROVE  OneFiled(d)
  <1>1. FilingTyped /\ SpeakingNamesStay
      BY DEF FilingInv
  <1>2. PICK f : /\ files' = [files EXCEPT ![d] = f] /\ HasForm(f) /\ f.name.stamp \in Nat
                 /\ stamps' \in Nat
                 /\ f.name.stem = GivenName(d).stem \/ f.name.stem.date # 0
                 /\ Given[d] \notin CodeNames \cup EndNames \cup BareNames
                    /\ files[d].name.stem = GivenName(d).stem => f.name.stem = GivenName(d).stem
      BY <1>1, Relocated
  <1> QED
      BY <1>1, <1>2 DEF OneFiled, SpeakingNamesStay

LEMMA BackStep ==
    ASSUME FilingAssumption, FilingInv, NEW d \in Docs, MoveBackToRaws(d), UNCHANGED <<branches, day, renaming>>
    PROVE  FilingInv'
  <1> DEFINE target == [folder |-> Raws, name |-> files[d].name]
  <1>1. HasForm(files[d]) /\ files[d].name.stamp \in Nat
      BY DEF FilingInv, FilingTyped, NameKnown
  <1>2. HasForm(target) /\ target.name.stamp \in Nat /\ target.name.stem = files[d].name.stem
      BY <1>1 DEF HasForm
  <1>3. MoveTo(d, target) /\ rows' = [rows EXCEPT ![d] = NoRow] /\ settled' = settled \ {d}
      BY DEF MoveBackToRaws
  <1> HIDE DEF target
  <1>4. PICK f : /\ files' = [files EXCEPT ![d] = f] /\ HasForm(f) /\ stamps' \in Nat
                 /\ f = target \/ (\E n \in Nat \ {0} :
                      f = [folder |-> target.folder, name |-> [stem |-> target.name.stem, stamp |-> n]])
      BY <1>2, <1>3, Moved DEF FilingInv
  <1>5. f.name.stem = files[d].name.stem /\ f.name.stamp \in Nat
      BY <1>2, <1>4
  <1>6. OneFiled(d)
      BY <1>3, <1>4, <1>5, KeptName, RowsTyped DEF OneFiled
  <1>7. SameRenaming /\ branches' \subseteq RowTexts \X RowTexts
      BY DEF FilingInv, FilingTyped, SameRenaming
  <1> QED
      BY <1>3, <1>6, <1>7, OneFiledStep

\* What the next repair writes for a row just written.
LEMMA RowAfter ==
    ASSUME branches' = branches, NEW d \in Docs, NEW row, rows'[d] = row
    PROVE  NextRow(d)' = RowRepaired(d, Normalized(row))
  <1> DEFINE next == Normalized(row)
  <1>1. Normalized(rows[d])' = next
      BY DEF Normalized
  <1>2. CanonicalCategory(Normalized(rows[d]))' = CanonicalCategory(next)
      BY <1>1 DEF CanonicalCategory, Owners, Normalized
  <1>3. SaysTooLittle(Normalized(rows[d]))' <=> SaysTooLittle(next)
      BY <1>1 DEF SaysTooLittle, Normalized
  <1> HIDE DEF next
  <1> QED
      BY <1>1, <1>2, <1>3 DEF NextRow, RowRepaired

\* A row a repair has settled is the one the next repair writes.
LEMMA RepairedTwice ==
    ASSUME FilingAssumption, FilingTyped, NEW d \in Docs, ~GoesBack(d, rows[d]), branches' = branches,
           rows' = [rows EXCEPT ![d] = RowRepaired(d, rows[d])]
    PROVE  /\ RowRepaired(d, rows[d]) \in TypedRows /\ rows'[d] = RowRepaired(d, rows[d])
           /\ d \in SettledWith(d) => NextRow(d)' = rows'[d] /\ ~GoesBack(d, Normalized(rows[d]))'
  <1> DEFINE row == rows[d]
             new == RowRepaired(d, row)
             next == Normalized(new)
             rule == ByRules[d]
  <1>1. row \in TypedRows /\ new = rows'[d]
      BY DEF FilingTyped
  <1>2. \A r : CanonicalCategory(r)' = CanonicalCategory(r)
      BY DEF CanonicalCategory, Owners
  <1>3. /\ new \in TypedRows
        /\ SaysTooLittle(row) =>
             new = [category |-> rule.category, subcategory |-> rule.subcategory, date |-> row.date, title |-> row.title]
      BY <1>1, RowsRepaired
  <1>5. d \in SettledWith(d) => CanonicalCategory(new) = new.category /\ (SaysTooLittle(next) => SaysTooLittle(row))
      BY DEF SettledWith
  <1>6. ~(SaysTooLittle(row) /\ rule.subcategory \in Vague \ {""})
      BY DEF GoesBack
  <1>7. NextRow(d)' = RowRepaired(d, next) /\ (GoesBack(d, Normalized(rows[d]))' <=> GoesBack(d, next))
    <2>1. rows'[d] = new
        BY <1>1
    <2> HIDE DEF new
    <2>2. NextRow(d)' = RowRepaired(d, next)
        BY <2>1, RowAfter
    <2>3. GoesBack(d, Normalized(rows[d]))' <=> GoesBack(d, next)
        BY <2>1 DEF GoesBack, Normalized, SaysTooLittle
    <2> QED
        BY <2>2, <2>3
  <1> HIDE DEF new, row
  <1>8. /\ next \in TypedRows /\ next.date = new.date /\ next.title = new.title
        /\ ~SaysTooLittle(next) => next = new
      BY <1>3, RowsNormalized
  <1>9. new = [category |-> new.category, subcategory |-> new.subcategory, date |-> new.date, title |-> new.title]
      BY <1>3 DEF TypedRows
  <1> HIDE DEF next
  <1>10. /\ SaysTooLittle(next) =>
              RowRepaired(d, next) = [category |-> rule.category, subcategory |-> rule.subcategory,
                                      date |-> next.date, title |-> next.title]
         /\ ~SaysTooLittle(next) =>
              RowRepaired(d, next) = [category |-> CanonicalCategory(next), subcategory |-> next.subcategory,
                                      date |-> next.date, title |-> next.title]
      BY <1>8, RowsRepaired
  <1> HIDE DEF rule
  <1>11. ASSUME d \in SettledWith(d) PROVE RowRepaired(d, next) = new /\ ~GoesBack(d, next)
    <2>1. CASE SaysTooLittle(next)
      <3>1. SaysTooLittle(row)
          BY <1>5, <1>11, <2>1
      <3>2. RowRepaired(d, next) = new
          BY <1>3, <1>8, <1>10, <2>1, <3>1
      <3>3. ~GoesBack(d, next)
          BY <1>6, <3>1 DEF GoesBack, rule
      <3> QED
          BY <3>2, <3>3
    <2>2. CASE ~SaysTooLittle(next)
      <3>1. RowRepaired(d, next) = new
          BY <1>5, <1>8, <1>9, <1>10, <1>11, <2>2
      <3> QED
          BY <2>2, <3>1 DEF GoesBack
    <2> QED
        BY <2>1, <2>2
  <1> QED
      BY <1>1, <1>3, <1>7, <1>11 DEF new, row

LEMMA SameTaxonomy ==
    ASSUME FilingTyped, UNCHANGED <<branches, renaming>>
    PROVE  SameRenaming /\ branches' \subseteq RowTexts \X RowTexts
  BY DEF FilingTyped, SameRenaming

LEMMA FileNewStep ==
    ASSUME FilingAssumption, FilingInv, NEW d \in Docs, FileNew(d)
    PROVE  FilingInv'
  <1>1. PICK row \in Classified : rows' = [rows EXCEPT ![d] = row] /\ RelocalizeFileIfNeeded(d, row)
      BY DEF FileNew
  <1>2. OneFiled(d)
      BY <1>1, FileGoes, RowsTyped
  <1>3. settled' = settled \ {d} /\ UNCHANGED <<branches, day, renaming>>
      BY DEF FileNew
  <1> QED
      BY <1>2, <1>3, SameTaxonomy, OneFiledStep DEF FilingInv

LEMMA RepairStep ==
    ASSUME FilingAssumption, FilingInv, NEW d \in Docs, RepairExisting(d)
    PROVE  FilingInv'
  <1> DEFINE row == RowRepaired(d, rows[d])
  <1>1. UNCHANGED <<branches, day, renaming>> /\ FilingTyped /\ rows[d] \in TypedRows
      BY DEF RepairExisting, FilingInv, FilingTyped
  <1>2. CASE GoesBack(d, rows[d])
      BY <1>1, <1>2, BackStep DEF RepairExisting
  <1>3. row \in TypedRows
      BY <1>1, RowsRepaired
  <1>4. CASE ~GoesBack(d, rows[d]) /\ RelocalizeFileIfNeeded(d, row) /\ settled' = SettledWith(d)
    <2>1. rows' = [rows EXCEPT ![d] = row]
        BY <1>4 DEF RepairExisting
    <2>2. rows'[d] = row /\ (d \in SettledWith(d) => NextRow(d)' = rows'[d] /\ ~GoesBack(d, Normalized(rows[d]))')
        BY <1>1, <1>4, <2>1, RepairedTwice
    <2> HIDE DEF row
    <2>3. OneFiled(d)
        BY <1>3, <1>4, <2>1, FileGoes
    <2>4. AtHome(d, rows[d])'
      <3>1. PICK f : /\ files' = [files EXCEPT ![d] = f]
                     /\ \/ ComputeCanonicalPath(row, f.name) = f
                        \/ f.name.stem = GivenName(d).stem /\ Given[d] \in BareNames /\ f.name.stamp # 0
          BY <1>1, <1>3, <1>4, Relocated
      <3>2. files'[d] = f
          BY <3>1 DEF FilingInv, FilingTyped
      <3>3. ComputeCanonicalPath(rows[d], files[d].name)' = ComputeCanonicalPath(row, f.name)
          BY <1>1, <2>2, <3>2 DEF ComputeCanonicalPath, FolderOf, IntelligentName, Today
      <3> QED
          BY <3>1, <3>2, <3>3 DEF AtHome
    <2>5. ASSUME d \in settled' PROVE RightNow(d)'
      <3>1. NextRow(d)' = rows'[d] /\ ~GoesBack(d, Normalized(rows[d]))'
          BY <1>4, <2>2, <2>5
      <3>2. AtHome(d, NextRow(d))'
          BY <2>4, <3>1 DEF AtHome
      <3> QED
          BY <3>1, <3>2 DEF RightNow
    <2>6. settled' \subseteq settled \cup {d}
        BY <1>4 DEF SettledWith
    <2> QED
        BY <1>1, <2>3, <2>5, <2>6, SameTaxonomy, OneFiledStep
  <1>5. CASE rows' = [rows EXCEPT ![d] = row] /\ UNCHANGED <<files, stamps>> /\ settled' = settled \ {d}
    <2>1. OneFiled(d)
        BY <1>3, <1>5, FileStays
    <2> QED
        BY <1>1, <1>5, <2>1, SameTaxonomy, OneFiledStep
  <1> QED
      BY <1>2, <1>4, <1>5 DEF RepairExisting

LEMMA UnindexedStep ==
    ASSUME FilingAssumption, FilingInv, NEW d \in Docs, RepairUnindexed(d)
    PROVE  FilingInv'
  <1>1. UNCHANGED <<branches, day, renaming>>
      BY DEF RepairUnindexed
  <1>2. CASE MoveBackToRaws(d)
      BY <1>1, <1>2, BackStep
  <1>3. CASE ~MoveBackToRaws(d)
    <2>1. PICK row \in Classified :
            /\ RelocalizeFileIfNeeded(d, row)
            /\ LET titled == IF row.title # <<>> THEN row ELSE [row EXCEPT !.title = <<"Document">>]
               IN rows' \in {rows, [rows EXCEPT ![d] = titled]}
            /\ settled' = settled \ {d}
        BY <1>3 DEF RepairUnindexed
    <2> DEFINE titled == IF row.title # <<>> THEN row ELSE [row EXCEPT !.title = <<"Document">>]
    <2>2. row \in TypedRows /\ rows[d] \in TypedRows /\ rows = [rows EXCEPT ![d] = rows[d]]
        BY RowsTyped DEF FilingInv, FilingTyped
    <2>3. titled \in TypedRows
      <3>1. "Document" \in TitleTexts
          BY DEF TitleTexts
      <3>2. <<"Document">> \in Seq(TitleTexts)
          BY <3>1
      <3> QED
          BY <2>2, <3>2 DEF TypedRows
    <2>4. rows' = [rows EXCEPT ![d] = rows[d]] \/ rows' = [rows EXCEPT ![d] = titled]
        BY <2>1, <2>2
    <2> HIDE DEF titled
    <2>5. OneFiled(d)
        BY <2>1, <2>2, <2>3, <2>4, FileGoes
    <2> QED
        BY <1>1, <2>1, <2>5, SameTaxonomy, OneFiledStep DEF FilingInv
  <1> QED
      BY <1>2, <1>3

\* The years become "general" and the lost rows go; no file moves.
LEMMA BeginsStep ==
    ASSUME FilingAssumption, FilingInv, RepairBegins
    PROVE  FilingInv'
  <1>1. UNCHANGED <<files, branches, day, stamps, renaming>> /\ FilingTyped
      BY DEF RepairBegins, FilingInv
  <1>2. PICK lost : /\ rows' = [d \in Docs |-> IF d \in lost THEN NoRow ELSE Normalized(rows[d])]
                    /\ settled' = settled \ lost
      BY DEF RepairBegins
  <1>3. \A d \in Docs : rows[d] \in TypedRows /\ Normalized(rows[d]) \in TypedRows
                        /\ Normalized(Normalized(rows[d])) = Normalized(rows[d])
    <2>1. \A d \in Docs : rows[d] \in TypedRows
        BY <1>1 DEF FilingTyped
    <2> QED
        BY <2>1, RowsNormalized
  <1>4. FilingTyped'
    <2>1. \A d \in Docs : NameKnown(d)'
        BY <1>1 DEF FilingTyped, NameKnown, HasForm
    <2>2. rows' \in [Docs -> TypedRows]
        BY <1>2, <1>3, RowsTyped
    <2> QED
        BY <1>1, <1>2, <2>1, <2>2 DEF FilingTyped
  <1>5. ASSUME NEW d \in settled' PROVE RightNow(d)'
    <2>1. d \in settled /\ d \in Docs /\ d \notin lost
        BY <1>1, <1>2, <1>5 DEF FilingTyped
    <2>2. Normalized(rows'[d]) = Normalized(rows[d])
        BY <1>2, <1>3, <2>1
    <2>3. RightNow(d)
        BY <2>1 DEF FilingInv
    <2> QED
        BY <1>1, <2>1, <2>2, <2>3, StillRight
  <1> QED
      BY <1>1, <1>4, <1>5 DEF FilingInv, SpeakingNamesStay

LEMMA UnreadableStep ==
    ASSUME FilingAssumption, FilingInv, NEW d \in Docs, RepairUnreadable(d)
    PROVE  FilingInv'
  BY BackStep DEF RepairUnreadable

LEMMA PutStep ==
    ASSUME FilingAssumption, FilingInv, NEW d \in Docs, PutDocument(d)
    PROVE  FilingInv'
  <1>1. PICK edit \in Edits :
          /\ rows' = [rows EXCEPT ![d] = [edit EXCEPT !.title = rows[d].title]]
          /\ \/ UNCHANGED <<files, stamps, branches>>
             \/ /\ branches' = branches \cup {<<edit.category, edit.subcategory>>}
                /\ LET date == IF edit.date = 0 THEN rows[d].date ELSE edit.date
                   IN \/ UNCHANGED <<files, stamps>>
                      \/ RelocalizeFileIfNeeded(d, [edit EXCEPT !.date = date, !.title = <<>>])
      BY DEF PutDocument
  <1> DEFINE row == [edit EXCEPT !.title = rows[d].title]
             by == [edit EXCEPT !.date = IF edit.date = 0 THEN rows[d].date ELSE edit.date, !.title = <<>>]
  <1>2. edit \in TypedRows /\ rows[d] \in TypedRows
      BY RowsTyped DEF FilingInv, FilingTyped
  <1>3. row \in TypedRows
      BY <1>2 DEF TypedRows
  <1>4. by \in TypedRows
    <2> DEFINE date == IF edit.date = 0 THEN rows[d].date ELSE edit.date
    <2>1. date \in Nat /\ <<>> \in Seq(TitleTexts) /\ by = [edit EXCEPT !.date = date, !.title = <<>>]
        BY <1>2 DEF TypedRows
    <2> HIDE DEF date, by
    <2>2. by = [category |-> edit.category, subcategory |-> edit.subcategory, date |-> date, title |-> <<>>]
        BY <1>2, <2>1 DEF TypedRows
    <2> QED
        BY <1>2, <2>1, <2>2 DEF TypedRows
  <1>5. branches' \subseteq RowTexts \X RowTexts
    <2>1. <<edit.category, edit.subcategory>> \in RowTexts \X RowTexts
        BY <1>2 DEF TypedRows
    <2> QED
        BY <1>1, <2>1 DEF FilingInv, FilingTyped
  <1>6. rows' = [rows EXCEPT ![d] = row] /\ (UNCHANGED <<files, stamps>> \/ RelocalizeFileIfNeeded(d, by))
      BY <1>1
  <1> HIDE DEF row, by
  <1>7. OneFiled(d)
      BY <1>3, <1>4, <1>6, FileStays, FileGoes
  <1>8. settled' = SettledWithout(d) /\ UNCHANGED <<day, renaming>>
      BY DEF PutDocument
  <1>9. SameRenaming
      BY <1>8 DEF FilingInv, FilingTyped, SameRenaming
  <1>10. settled' \subseteq settled \cup {d} /\ (settled' = {} \/ branches' = branches) /\ d \notin settled'
      BY <1>8 DEF SettledWithout
  <1> QED
      BY <1>5, <1>7, <1>8, <1>9, <1>10, OneFiledStep

LEMMA RenameStep ==
    ASSUME FilingAssumption, FilingInv, RenameSubcategory
    PROVE  FilingInv'
  <1>1. PICK r \in Renames :
          /\ branches' = (branches \ {<<r.category, r.old>>}) \cup {<<r.category, r.new>>}
          /\ LET named == {d \in Indexed : rows[d].category = r.category /\ rows[d].subcategory = r.old}
             IN renaming' = IF named = {} THEN NotRenaming
                            ELSE [category |-> r.category, old |-> r.old, new |-> r.new,
                                  left |-> named, seen |-> rows, at |-> files]
      BY DEF RenameSubcategory
  <1>2. settled' = {} /\ UNCHANGED <<rows, files, day, stamps>>
      BY DEF RenameSubcategory
  <1>3. r.category \in RowTexts /\ r.new \in RowTexts
      BY RowsTyped
  <1>4. branches' \subseteq RowTexts \X RowTexts
      BY <1>1, <1>3 DEF FilingInv, FilingTyped
  <1>5. SameRenaming
    <2> DEFINE named == {d \in Indexed : rows[d].category = r.category /\ rows[d].subcategory = r.old}
    <2>1. named \subseteq Docs
        BY DEF Filed, Indexed
    <2>2. rows \in [Docs -> TypedRows]
        BY DEF FilingInv, FilingTyped
    <2> HIDE DEF named
    <2>3. CASE renaming' = NotRenaming
        BY <2>3 DEF NotRenaming, SameRenaming
    <2>4. CASE renaming' = [category |-> r.category, old |-> r.old, new |-> r.new,
                            left |-> named, seen |-> rows, at |-> files]
        BY <1>3, <2>1, <2>2, <2>4 DEF SameRenaming
    <2> QED
        BY <1>1, <2>3, <2>4 DEF named
  <1>6. FilingTyped'
    <2>1. \A d \in Docs : NameKnown(d)'
        BY <1>2 DEF FilingInv, FilingTyped, NameKnown, HasForm
    <2> QED
        BY <1>2, <1>4, <1>5, <2>1 DEF FilingInv, FilingTyped, SameRenaming
  <1> QED
      BY <1>2, <1>6 DEF FilingInv, SpeakingNamesStay

LEMMA RenameNextStep ==
    ASSUME FilingAssumption, FilingInv, NEW d \in Docs, RenameNext(d)
    PROVE  FilingInv'
  <1> DEFINE by == [renaming.seen[d] EXCEPT !.subcategory = renaming.new, !.title = <<>>]
             row == [rows[d] EXCEPT !.subcategory = renaming.new]
  <1>1. /\ d \in renaming.left
        /\ (d \in Filed /\ RelocalizeFileIfNeeded(d, by)) \/ UNCHANGED <<files, stamps>>
        /\ rows' = [rows EXCEPT ![d] = row] \/ rows' = rows
        /\ settled' = settled \ {d}
        /\ renaming' = NotRenaming \/ renaming' = [renaming EXCEPT !.left = @ \ {d}]
        /\ UNCHANGED <<branches, day>>
      BY DEF RenameNext
  <1>2. renaming.new \in RowTexts /\ renaming.seen[d] \in TypedRows /\ rows[d] \in TypedRows
      BY <1>1 DEF FilingInv, FilingTyped
  <1>3. by \in TypedRows
    <2> DEFINE was == renaming.seen[d]
    <2>1. by = [was EXCEPT !.subcategory = renaming.new, !.title = <<>>] /\ was \in TypedRows
        BY <1>2
    <2> HIDE DEF was, by
    <2>2. was = [category |-> was.category, subcategory |-> was.subcategory, date |-> was.date, title |-> was.title]
          /\ was.category \in RowTexts /\ was.date \in Nat
        BY <2>1 DEF TypedRows
    <2>3. by = [category |-> was.category, subcategory |-> renaming.new, date |-> was.date, title |-> <<>>]
        BY <2>1, <2>2
    <2>4. <<>> \in Seq(TitleTexts)
        OBVIOUS
    <2> QED
        BY <1>2, <2>2, <2>3, <2>4 DEF TypedRows
  <1>4. row \in TypedRows
      BY <1>2 DEF TypedRows
  <1> HIDE DEF by, row
  <1>5. rows' = [rows EXCEPT ![d] = rows[d]] \/ rows' = [rows EXCEPT ![d] = row]
      BY <1>1 DEF FilingInv, FilingTyped
  <1>6. OneFiled(d)
      BY <1>1, <1>2, <1>3, <1>4, <1>5, FileStays, FileGoes
  <1>7. SameRenaming
    <2>1. CASE renaming' = NotRenaming
        BY <2>1 DEF NotRenaming, SameRenaming
    <2>2. CASE renaming' = [renaming EXCEPT !.left = @ \ {d}]
        BY <2>2 DEF FilingInv, FilingTyped, SameRenaming
    <2> QED
        BY <1>1, <2>1, <2>2
  <1>8. branches' \subseteq RowTexts \X RowTexts
      BY <1>1 DEF FilingInv, FilingTyped
  <1> QED
      BY <1>1, <1>6, <1>7, <1>8, OneFiledStep

LEMMA StopsStep ==
    ASSUME FilingAssumption, FilingInv, RenameStops
    PROVE  FilingInv'
  <1>1. UNCHANGED <<rows, files, branches, day, stamps, settled>> /\ renaming' = NotRenaming
      BY DEF RenameStops
  <1>2. SameRenaming
      BY <1>1 DEF NotRenaming, SameRenaming
  <1>3. FilingTyped'
    <2>1. \A d \in Docs : NameKnown(d)'
        BY <1>1 DEF FilingInv, FilingTyped, NameKnown, HasForm
    <2> QED
        BY <1>1, <1>2, <2>1 DEF FilingInv, FilingTyped, SameRenaming
  <1>4. ASSUME NEW d \in settled' PROVE RightNow(d)'
    <2>1. d \in settled /\ d \in Docs /\ RightNow(d) /\ FilingTyped
        BY <1>1, <1>4 DEF FilingInv, FilingTyped
    <2> QED
        BY <1>1, <2>1, StillRight
  <1> QED
      BY <1>1, <1>3, <1>4 DEF FilingInv, SpeakingNamesStay

LEMMA DayStep ==
    ASSUME FilingAssumption, FilingInv, DayPasses
    PROVE  FilingInv'
  <1>1. /\ UNCHANGED <<rows, files, branches, stamps, renaming>> /\ day' = day + 1 /\ day < Len(Calendar)
        /\ settled' = {d \in settled : DateOr(rows[d].date, 0) # 0}
      BY DEF DayPasses
  <1>2. FilingTyped'
    <2>1. \A d \in Docs : NameKnown(d)'
        BY <1>1 DEF FilingInv, FilingTyped, NameKnown, HasForm
    <2>2. day' \in 1..Len(Calendar)
        BY <1>1 DEF FilingInv, FilingTyped
    <2> QED
        BY <1>1, <2>1, <2>2 DEF FilingInv, FilingTyped
  <1>3. ASSUME NEW d \in settled' PROVE RightNow(d)'
    <2>1. d \in settled /\ d \in Docs /\ RightNow(d) /\ FilingTyped /\ DateOr(rows[d].date, 0) # 0
        BY <1>1, <1>3 DEF FilingInv, FilingTyped
    <2> QED
        BY <1>1, <2>1, StillRight
  <1> QED
      BY <1>1, <1>2, <1>3 DEF FilingInv, SpeakingNamesStay

LEMMA FilingStarts ==
    ASSUME FilingAssumption, FilingInit
    PROVE  FilingInv
  <1>1. NoRow \in TypedRows /\ branches \subseteq RowTexts \X RowTexts
      BY RowsTyped DEF FilingInit
  <1>2. \A d \in Docs : NameKnown(d)
      BY DEF FilingInit, NameKnown, HasForm, GivenName
  <1>3. 1 \in 1..Len(Calendar)
      BY DEF FilingAssumption
  <1>4. FilingTyped
      BY <1>1, <1>2, <1>3 DEF FilingTyped, FilingInit, NotRenaming
  <1> QED
      BY <1>4 DEF FilingInv, FilingInit, SpeakingNamesStay

\* A repair has nothing to do twice, and a name that says something is kept, whatever is
\* filed, edited, renamed and repaired in between.
THEOREM FiledForGoodTheorem == FilingSpec => []FiledForGood
  <1> USE FilingAssumption
  <1>1. FilingInit => FilingInv
      BY FilingStarts
  <1>2. FilingInv /\ [FilingNext]_filingVars => FilingInv'
    <2> SUFFICES ASSUME FilingInv, [FilingNext]_filingVars PROVE FilingInv'
        OBVIOUS
    <2>1. CASE \E d \in Docs : \/ FileNew(d) \/ PutDocument(d) \/ RenameNext(d)
                              \/ RepairExisting(d) \/ RepairUnindexed(d) \/ RepairUnreadable(d)
        BY <2>1, FileNewStep, RepairStep, UnindexedStep, UnreadableStep, PutStep, RenameNextStep
    <2>2. CASE RepairBegins \/ RenameSubcategory \/ RenameStops \/ DayPasses
        BY <2>2, BeginsStep, RenameStep, StopsStep, DayStep
    <2>3. CASE UNCHANGED filingVars
      <3>1. UNCHANGED <<rows, files, branches, day, stamps, renaming, settled>>
          BY <2>3 DEF filingVars
      <3>2. FilingTyped'
        <4>1. \A d \in Docs : NameKnown(d)'
            BY <3>1 DEF FilingInv, FilingTyped, NameKnown, HasForm
        <4> QED
            BY <3>1, <4>1 DEF FilingInv, FilingTyped
      <3>3. ASSUME NEW d \in settled' PROVE RightNow(d)'
        <4>1. d \in settled /\ d \in Docs /\ RightNow(d) /\ FilingTyped
            BY <3>1, <3>3 DEF FilingInv, FilingTyped
        <4> QED
            BY <3>1, <4>1, StillRight
      <3> QED
          BY <3>1, <3>2, <3>3 DEF FilingInv, SpeakingNamesStay
    <2> QED
        BY <2>1, <2>2, <2>3 DEF FilingNext
  <1>3. FilingInv => FiledForGood
      BY DEF FilingInv, RightNow, NextRow, FiledForGood, SettledStays
  <1> QED
      BY <1>1, <1>2, <1>3, PTL DEF FilingSpec

-----------------------------------------------------------------------------
(* The folders (FolderTidy).                                                *)

\* A folder below a root, but not the root.
Below(root) == In(root) \ {root}
Targets == Below(OutputRootDir) \cup {TrashDir, InputDir}

MoverForm(r) == r = [pc |-> r.pc, file |-> r.file, from |-> r.from, to |-> r.to]
MoversKnown ==
  /\ mover = [m \in Requests |-> mover[m]]
  /\ \A m \in Requests :
       /\ MoverForm(mover[m])
       /\ mover[m].pc # "idle" => mover[m].from \in Folders /\ Visible(mover[m].from) /\ mover[m].to \in Targets

FolderFrame(f) == f = [dir |-> f.dir, left |-> f.left]
CleanFrames(stack) ==
  \A i \in 1..Len(stack) :
    /\ stack[i].dir \in In(InputDir)
    /\ i = 1 => stack[i].dir = InputDir
    /\ i > 1 => stack[i].dir # InputDir /\ Visible(stack[i].dir) /\ Above[stack[i].dir] = stack[i - 1].dir
    /\ stack[i].left \subseteq {e \in Folders \ Spared : Above[e] = stack[i].dir}
ClearFrames(stack) ==
  \A i \in 1..Len(stack) :
    /\ stack[i].dir \in In(OutputRootDir)
    /\ i = 1 => stack[i].dir = OutputRootDir
    /\ stack[i].left \subseteq Folders \cup Papers \cup Junk
    /\ \A e \in stack[i].left \cap Folders : Above[e] = stack[i].dir

Frames == [dir : Folders, left : SUBSET (Folders \cup Papers \cup Junk)]
Stacks == Seq(Frames)
\* Where a walk goes on when its file is away.
Place == IF walk.pc \in {"tidy", "above"} THEN walk.back ELSE walk.pc
WalkKnown ==
  /\ walk = [op |-> walk.op, pc |-> walk.pc, stack |-> walk.stack, rows |-> walk.rows, from |-> walk.from, back |-> walk.back]
  /\ walk.op \in {"none", "clean", "clear"} /\ walk.stack \in Stacks
  /\ walk.op = "none" => walk.pc = "none"
  /\ walk.op = "clean" => walk.pc \in {"next", "remove"} /\ Len(walk.stack) > 0 /\ CleanFrames(walk.stack)
  /\ walk.pc = "remove" => walk.op = "clean" /\ Len(walk.stack) > 1
  /\ walk.op = "clear" =>
       /\ Place \in {"rows", "next", "ensure", "cleared"}
       /\ walk.pc \in {"tidy", "above"} => walk.from \in In(OutputRootDir) /\ walk.back \in {"rows", "next"}
       /\ Place = "next" => Len(walk.stack) > 0
       /\ ClearFrames(walk.stack)

TidyTyped ==
  /\ there \subseteq Folders
  /\ lies \in [Papers \cup Junk -> Folders \cup {"nowhere", "deleted"}]
  /\ disturbed \in BOOLEAN /\ refusals \in Nat
  /\ MoversKnown /\ WalkKnown

\* Between the last look and the RemoveAll only a drop puts a paper there.
RemovesNone ==
  walk.pc = "remove" => \A f \in Papers : lies[f] \in In(Top.dir) => f \in snatched

\* What a clean-up nobody disturbs has still before it.
Pending(d) ==
  \E i \in 1..Len(walk.stack) :
    \/ i > 1 /\ walk.stack[i].dir = d
    \/ \E e \in walk.stack[i].left : e \in Path[d]
CleanCovers ==
  walk.op = "clean" /\ ~disturbed =>
    \A d \in Below(InputDir) : Visible(d) => ~OnlyJunk(d) \/ Pending(d)

ClearCovers ==
  walk.op = "clear" /\ ~disturbed /\ refusals = 0 =>
    /\ Place = "next" => \A i \in 1..Len(walk.stack) :
         \A e \in Entries(walk.stack[i].dir) :
           e \in walk.stack[i].left \/ (i < Len(walk.stack) /\ e = walk.stack[i + 1].dir)
    /\ Place \in {"ensure", "cleared"} => Entries(OutputRootDir) = {}
    /\ Place = "cleared" => OutputRootDir \in there

TidyInv == TidyTyped /\ NothingDeleted /\ FoldersStand /\ RemovesNone /\ CleanCovers /\ ClearCovers

-----------------------------------------------------------------------------
(* The trees.  A path is the least set that holds a folder and goes upward. *)

LEMMA PathUp ==
    ASSUME NEW d \in Folders
    PROVE  /\ Path[d] \subseteq Folders /\ d \in Path[d]
           /\ \A e \in Path[d] : Above[e] # "" => Above[e] \in Path[d]
  BY TidyAssumption DEF Path, Upwards

LEMMA PathLeast ==
    ASSUME NEW d \in Folders, NEW S, S \subseteq Folders, d \in S, Upwards(S)
    PROVE  Path[d] \subseteq S
  BY DEF Path

LEMMA PathWithin ==
    ASSUME NEW d \in Folders, NEW e \in Path[d]
    PROVE  e \in Folders /\ Path[e] \subseteq Path[d]
  <1>1. Upwards(Path[d]) /\ Path[d] \subseteq Folders
      BY PathUp DEF Upwards
  <1> QED
      BY <1>1, PathLeast

LEMMA PathSteps ==
    ASSUME NEW d \in Folders
    PROVE  /\ Above[d] # "" => Above[d] \in Folders /\ Above[d] \in Path[d]
           /\ \A e \in Path[d] : e = d \/ (Above[d] # "" /\ e \in Path[Above[d]])
  <1>1. CASE Above[d] = ""
    <2> DEFINE S == {d}
    <2>1. Upwards(S) /\ S \subseteq Folders /\ d \in S /\ \A e \in S : e = d
        BY <1>1 DEF Upwards
    <2> HIDE DEF S
    <2>2. Path[d] \subseteq S
        BY <2>1, PathLeast
    <2> QED
        BY <1>1, <2>1, <2>2
  <1>2. CASE Above[d] # ""
    <2> DEFINE S == {d} \cup Path[Above[d]]
    <2>1. Above[d] \in Folders
        BY TidyAssumption, <1>2
    <2>2. S \subseteq Folders /\ Above[d] \in S
        BY <2>1, PathUp
    <2>3. Upwards(S)
        BY <2>1, <2>2, PathUp DEF Upwards
    <2>4. d \in S /\ \A e \in S : e = d \/ e \in Path[Above[d]]
        OBVIOUS
    <2> HIDE DEF S
    <2>5. Path[d] \subseteq S
        BY <2>2, <2>3, <2>4, PathLeast
    <2>6. Above[d] \in Path[d]
        BY <1>2, PathUp
    <2> QED
        BY <1>2, <2>1, <2>4, <2>5, <2>6
  <1> QED
      BY <1>1, <1>2

\* The first folder below another on the way to one that is deeper.
LEMMA PathChild ==
    ASSUME NEW d \in Folders, NEW root \in Path[d], root # d
    PROVE  \E e \in Path[d] : Above[e] = root /\ e \in Folders
  <1> DEFINE S == {e \in Path[d] : root \in Path[e] /\ e # root}
  <1>1. S \subseteq Folders /\ d \in S
      BY PathUp
  <1>2. ASSUME NEW e \in S PROVE Above[e] = root \/ Above[e] \in S
    <2>1. e \in Path[d] /\ root \in Path[e] /\ e # root /\ e \in Folders
        BY <1>1
    <2>2. Above[e] # "" /\ root \in Path[Above[e]] /\ Above[e] \in Path[e]
        BY <2>1, PathSteps
    <2>3. Above[e] \in Path[d]
        BY <2>1, <2>2, PathWithin
    <2> QED
        BY <2>2, <2>3
  <1>3. \A e \in S : e \in Path[d]
      OBVIOUS
  <1> HIDE DEF S
  <1>4. PICK e \in S : Above[e] \notin S
      BY TidyAssumption, <1>1
  <1> QED
      BY <1>1, <1>2, <1>3, <1>4

LEMMA PathAcyclic ==
    ASSUME NEW d \in Folders, NEW e \in Path[d], d \in Path[e]
    PROVE  e = d
  <1> SUFFICES ASSUME e # d PROVE FALSE
      OBVIOUS
  <1> DEFINE S == {g \in Path[d] : d \in Path[g]}
  <1>1. S \subseteq Folders /\ d \in S /\ e \in Folders
      BY PathUp
  <1>2. ASSUME NEW g \in S, g # d PROVE Above[g] \in S
    <2>1. g \in Folders /\ g \in Path[d] /\ d \in Path[g]
        BY <1>1
    <2>2. Above[g] \in Path[g] /\ d \in Path[Above[g]]
        BY <1>2, <2>1, PathSteps
    <2> QED
        BY <2>1, <2>2, PathWithin
  <1>3. Above[d] \in S
    <2>1. Above[d] # "" /\ e \in Path[Above[d]] /\ Above[d] \in Folders /\ Above[d] \in Path[d]
        BY PathSteps
    <2>2. Path[e] \subseteq Path[Above[d]]
        BY <2>1, PathWithin
    <2> QED
        BY <2>1, <2>2
  <1> HIDE DEF S
  <1>4. PICK g \in S : Above[g] \notin S
      BY TidyAssumption, <1>1
  <1> QED
      BY <1>2, <1>3, <1>4

LEMMA TreesApart ==
    \A d \in Folders : ~(InputDir \in Path[d] /\ OutputRootDir \in Path[d])
  <1> DEFINE S == {d \in Folders : InputDir \in Path[d] /\ OutputRootDir \in Path[d]}
  <1>1. InputDir \in Folders /\ OutputRootDir \in Folders /\ InputDir # OutputRootDir
        /\ Above[InputDir] = "" /\ Above[OutputRootDir] = ""
      BY TidyAssumption
  <1>2. ASSUME NEW d \in S PROVE Above[d] \in S
    <2>1. d \in Folders /\ InputDir \in Path[d] /\ OutputRootDir \in Path[d]
        OBVIOUS
    <2>2. /\ InputDir = d \/ (Above[d] # "" /\ InputDir \in Path[Above[d]])
          /\ OutputRootDir = d \/ (Above[d] # "" /\ OutputRootDir \in Path[Above[d]])
          /\ Above[d] # "" => Above[d] \in Folders
        BY <2>1, PathSteps
    <2> QED
        BY <1>1, <2>2
  <1>3. S \subseteq Folders
      OBVIOUS
  <1>4. S = {}
    <2> HIDE DEF S
    <2> QED
        BY TidyAssumption, <1>2, <1>3
  <1> QED
      BY <1>4

LEMMA InUp ==
    ASSUME NEW root \in Folders
    PROVE  /\ root \in In(root) /\ In(root) \subseteq Folders
           /\ \A d \in In(root) : In(d) \subseteq In(root)
           /\ \A d \in In(root) : d # root => Above[d] \in In(root)
           /\ \A d \in Folders : Above[d] \in In(root) => d \in In(root)
  <1>1. root \in In(root) /\ In(root) \subseteq Folders
      BY PathUp DEF In
  <1>2. ASSUME NEW d \in In(root), NEW e \in In(d) PROVE e \in In(root)
    <2>1. e \in Folders /\ d \in Path[e] /\ root \in Path[d]
        BY DEF In
    <2>2. Path[d] \subseteq Path[e]
        BY <2>1, PathWithin
    <2> QED
        BY <2>1, <2>2 DEF In
  <1>3. ASSUME NEW d \in In(root), d # root PROVE Above[d] \in In(root)
    <2>1. d \in Folders /\ root \in Path[d]
        BY DEF In
    <2>2. Above[d] # "" /\ root \in Path[Above[d]] /\ Above[d] \in Folders
        BY <1>3, <2>1, PathSteps
    <2> QED
        BY <2>2 DEF In
  <1>4. ASSUME NEW d \in Folders, Above[d] \in In(root) PROVE d \in In(root)
    <2>1. Above[d] \in Folders /\ root \in Path[Above[d]]
        BY <1>4 DEF In
    <2>2. Above[d] # ""
        BY TidyAssumption, <2>1
    <2>3. Above[d] \in Path[d]
        BY <2>2, PathSteps
    <2>4. Path[Above[d]] \subseteq Path[d]
        BY <2>3, PathWithin
    <2> QED
        BY <2>1, <2>4 DEF In
  <1> QED
      BY <1>1, <1>2, <1>3, <1>4

LEMMA VisibleUp ==
    ASSUME NEW d \in Folders, Visible(d), NEW e \in Path[d]
    PROVE  Visible(e) /\ e \notin Spared
  <1>1. e \in Path[e] /\ Path[e] \subseteq Path[d]
      BY PathUp, PathWithin
  <1> QED
      BY <1>1 DEF Visible

LEMMA ManagedStands ==
    ASSUME NEW d \in Managed
    PROVE  d \in Folders /\ Path[d] \subseteq Managed
  <1>1. InputDir \in Folders /\ OutputRootDir \in Folders /\ Spared \subseteq Folders
        /\ Above[InputDir] = "" /\ Above[OutputRootDir] = "" /\ InputDir # ""
      BY TidyAssumption
  <1>2. d \in Folders /\ (d \in {InputDir, OutputRootDir} \/ Above[d] = InputDir)
      BY <1>1 DEF Managed
  <1> QED
      BY <1>1, <1>2, PathSteps DEF Managed

\* What the clean-up removes is none of the folders a document is sent to.
LEMMA TargetsApart ==
    ASSUME NEW d \in Below(InputDir), Visible(d), NEW e \in Targets \cup Managed
    PROVE  e \in Folders /\ e \notin In(d)
  <1>1. d \in Folders /\ InputDir \in Path[d] /\ d # InputDir
      BY DEF Below, In
  <1>2. d \notin Spared
      BY <1>1, PathUp, VisibleUp
  <1>3. OutputRootDir \notin Path[d]
      BY <1>1, TreesApart
  <1>4. CASE e \in Managed \cup {TrashDir, InputDir}
    <2>1. InputDir \in Folders /\ TrashDir \in Folders /\ TrashDir \in Spared /\ Above[TrashDir] = InputDir
          /\ TrashDir \in Managed /\ InputDir \in Managed /\ OutputRootDir \in Folders
        BY TidyAssumption DEF Managed
    <2>2. e \in Managed
        BY <1>4, <2>1
    <2>3. Path[e] \subseteq Managed /\ e \in Folders
        BY <2>2, ManagedStands
    <2>4. d # OutputRootDir
        BY <1>3, <2>1, PathUp
    <2>5. d \notin Managed
        BY <1>1, <1>2, <2>4 DEF Managed
    <2> QED
        BY <2>3, <2>5 DEF In
  <1>5. CASE e \in Below(OutputRootDir)
    <2>1. e \in Folders /\ OutputRootDir \in Path[e]
        BY <1>5 DEF Below, In
    <2>2. InputDir \notin Path[e]
        BY <2>1, TreesApart
    <2>3. ASSUME d \in Path[e] PROVE FALSE
      <3>1. Path[d] \subseteq Path[e]
          BY <2>1, <2>3, PathWithin
      <3> QED
          BY <1>1, <2>2, <3>1
    <2> QED
        BY <2>1, <2>3 DEF In
  <1> QED
      BY <1>4, <1>5 DEF Targets

-----------------------------------------------------------------------------
(* The folders that are there.                                              *)

LEMMA FoldersAdded ==
    ASSUME FoldersStand, there \subseteq Folders,
           NEW T, T \subseteq Folders, \A d \in T : Path[d] \subseteq there \cup T, there' = there \cup T,
           DOMAIN lies' = DOMAIN lies,
           \A f \in DOMAIN lies : lies'[f] = lies[f] \/ lies'[f] \notin Folders \/ lies'[f] \in there'
    PROVE  FoldersStand' /\ there' \subseteq Folders
  BY DEF FoldersStand, Managed

\* Only an empty folder is removed, and none the program works with.
LEMMA FolderRemoved ==
    ASSUME TidyTyped, FoldersStand, NEW d, ~(d \in Spared /\ Above[d] = InputDir), there' = Without(d), lies' = lies
    PROVE  FoldersStand' /\ there' \subseteq there
  <1>1. CASE ~Emptied(d)
      BY <1>1 DEF Without, FoldersStand, Managed
  <1>2. CASE Emptied(d)
    <2>1. d \in Folders /\ d \in there /\ there' = there \ {d} /\ Entries(d) = {}
        BY <1>2 DEF Emptied, Without, TidyTyped
    <2>2. \A e \in there : Above[e] # d
        BY <2>1 DEF Entries, FoldersIn
    <2>3. \A f \in DOMAIN lies : lies[f] # d
        BY <2>1 DEF Entries, FilesIn, TidyTyped
    <2>4. d # InputDir
      <3>1. TrashDir \in there /\ Above[TrashDir] = InputDir
          BY TidyAssumption DEF FoldersStand, Managed
      <3> QED
          BY <2>2, <3>1
    <2>5. Managed \ {OutputRootDir} \subseteq there'
        BY <2>1, <2>4 DEF FoldersStand, Managed
    <2>6. ASSUME NEW e \in there' PROVE Path[e] \subseteq there'
      <3>1. e \in Folders /\ e # d /\ Path[e] \subseteq there
          BY <2>1, <2>6 DEF FoldersStand, TidyTyped
      <3>2. d \notin Path[e]
        <4> SUFFICES ASSUME d \in Path[e] PROVE FALSE
            OBVIOUS
        <4>1. PICK c \in Path[e] : Above[c] = d
            BY <3>1, PathChild
        <4> QED
            BY <2>2, <3>1, <4>1
      <3> QED
          BY <2>1, <3>1, <3>2
    <2>7. \A f \in DOMAIN lies' : lies'[f] \in Folders => lies'[f] \in there'
        BY <2>1, <2>3 DEF FoldersStand
    <2> QED
        BY <2>1, <2>5, <2>6, <2>7 DEF FoldersStand, Managed
  <1> QED
      BY <1>1, <1>2

-----------------------------------------------------------------------------
(* Requests and the user.                                                   *)

LEMMA Turns ==
    ASSUME MoversKnown, NEW m \in Requests, NEW p, Turned(m, p), mover[m].pc # "idle"
    PROVE  MoversKnown'
  <1> DEFINE r == [mover[m] EXCEPT !.pc = p]
  <1>1. mover' = [mover EXCEPT ![m] = r] /\ mover = [n \in Requests |-> mover[n]]
      BY DEF Turned, MoversKnown
  <1>2. MoverForm(mover[m])
      BY DEF MoversKnown
  <1>3. MoverForm(r) /\ r.from = mover[m].from /\ r.to = mover[m].to
      BY <1>2 DEF MoverForm
  <1> HIDE DEF r
  <1>4. /\ mover' = [n \in Requests |-> mover'[n]]
        /\ \A n \in Requests : mover'[n] = IF n = m THEN r ELSE mover[n]
      BY <1>1
  <1>5. ASSUME NEW n \in Requests
        PROVE  /\ MoverForm(mover'[n])
               /\ mover'[n].pc # "idle" => mover'[n].from \in Folders /\ Visible(mover'[n].from) /\ mover'[n].to \in Targets
    <2>1. CASE n = m
        BY <1>3, <1>4, <2>1 DEF MoversKnown
    <2>2. CASE n # m
        BY <1>4, <2>2 DEF MoversKnown
    <2> QED
        BY <2>1, <2>2
  <1> QED
      BY <1>4, <1>5 DEF MoversKnown

\* Whoever is not the walk leaves it to itself, and has disturbed it.
LEMMA Disturbs ==
    ASSUME TidyInv, walk' = walk, disturbed' = TRUE, refusals' = refusals, MoversKnown',
           there' \subseteq Folders, lies' \in [Papers \cup Junk -> Folders \cup {"nowhere", "deleted"}],
           NothingDeleted', FoldersStand', RemovesNone'
    PROVE  TidyInv'
  <1>1. WalkKnown'
      BY DEF TidyInv, TidyTyped, WalkKnown, Place, CleanFrames, ClearFrames
  <1>2. TidyTyped'
      BY <1>1 DEF TidyInv, TidyTyped
  <1> QED
      BY <1>2 DEF TidyInv, CleanCovers, ClearCovers

LEMMA LengthOf ==
    ASSUME NEW S, NEW s \in Seq(S)
    PROVE  Len(s) \in Nat
  OBVIOUS

LEMMA LastOf ==
    ASSUME NEW S, NEW s \in Seq(S), Len(s) > 0
    PROVE  Len(s) \in Nat /\ Last(s) = s[Len(s)] /\ Len(s) \in 1..Len(s) /\ Last(s) \in S
  BY DEF Last

LEMMA TopKnown ==
    ASSUME WalkKnown, walk.op = "clean", Len(walk.stack) > 1
    PROVE  /\ Top.dir \in Below(InputDir) /\ Visible(Top.dir) /\ Top.dir \notin Spared
           /\ Top.dir = walk.stack[Len(walk.stack)].dir /\ Top.left = walk.stack[Len(walk.stack)].left
           /\ Len(walk.stack) \in 1..Len(walk.stack)
  <1>0. walk.stack \in Stacks
      BY DEF WalkKnown
  <1>1. Len(walk.stack) \in Nat /\ Top = walk.stack[Len(walk.stack)] /\ Len(walk.stack) \in 1..Len(walk.stack)
    <2>1. Len(walk.stack) \in Nat
        BY <1>0, LengthOf DEF Stacks
    <2>2. Len(walk.stack) > 0
        BY <2>1
    <2> QED
        BY <1>0, <2>2, LastOf DEF Top, Stacks
  <1>2. Top.dir \in In(InputDir) /\ Top.dir # InputDir /\ Visible(Top.dir)
      BY <1>1 DEF WalkKnown, CleanFrames
  <1>3. Top.dir \in Folders /\ Top.dir \notin Spared
      BY <1>2, PathUp, VisibleUp DEF In
  <1> QED
      BY <1>1, <1>2, <1>3 DEF Below

LEMMA BeginMovingStep ==
    ASSUME TidyInv, NEW m \in Requests, BeginMoving(m)
    PROVE  TidyInv'
  <1>1. PICK f \in Papers, to \in Targets :
          /\ lies[f] \in Folders /\ Visible(lies[f])
          /\ mover' = [mover EXCEPT ![m] =
               [pc |-> IF to = InputDir THEN "link" ELSE "mkdir", file |-> f, from |-> lies[f], to |-> to]]
      BY DEF BeginMoving, Targets, Below
  <1>2. UNCHANGED <<there, lies, walk, snatched, disturbed, refusals>>
      BY DEF BeginMoving
  <1>3. MoversKnown'
    <2> DEFINE r == [pc |-> IF to = InputDir THEN "link" ELSE "mkdir", file |-> f, from |-> lies[f], to |-> to]
    <2>1. MoverForm(r) /\ r.from = lies[f] /\ r.to = to
        BY DEF MoverForm
    <2>2. mover' = [mover EXCEPT ![m] = r] /\ mover = [n \in Requests |-> mover[n]]
        BY <1>1 DEF TidyInv, TidyTyped, MoversKnown
    <2> HIDE DEF r
    <2>3. /\ mover' = [n \in Requests |-> mover'[n]]
          /\ \A n \in Requests : mover'[n] = IF n = m THEN r ELSE mover[n]
        BY <2>2
    <2> QED
        BY <1>1, <2>1, <2>3 DEF TidyInv, TidyTyped, MoversKnown
  <1>4. WalkKnown'
      BY <1>2 DEF TidyInv, TidyTyped, WalkKnown, Place, CleanFrames, ClearFrames
  <1>5. TidyTyped'
      BY <1>2, <1>3, <1>4 DEF TidyInv, TidyTyped
  <1>6. NothingDeleted' /\ FoldersStand' /\ RemovesNone'
      BY <1>2 DEF TidyInv, NothingDeleted, FoldersStand, RemovesNone, Managed, Top
  <1>7. CleanCovers'
      BY <1>2 DEF TidyInv, CleanCovers, Pending, OnlyJunk, Entries, FilesIn, FoldersIn
  <1>8. ClearCovers'
      BY <1>2 DEF TidyInv, ClearCovers, Place, Entries, FilesIn, FoldersIn
  <1> QED
      BY <1>5, <1>6, <1>7, <1>8 DEF TidyInv

LEMMA MakeTargetStep ==
    ASSUME TidyInv, NEW m \in Requests, MakeTarget(m)
    PROVE  TidyInv'
  <1>1. /\ mover[m].pc = "mkdir" /\ Turned(m, "link") /\ there' = there \cup Path[mover[m].to] /\ disturbed' = TRUE
        /\ UNCHANGED <<lies, walk, snatched, refusals>>
      BY DEF MakeTarget
  <1>2. MoversKnown /\ MoversKnown'
      BY <1>1, Turns DEF TidyInv, TidyTyped
  <1>3. mover[m].to \in Folders
      BY ZenonT(40), TidyAssumption, <1>1, <1>2 DEF MoversKnown, Targets, Below, In
  <1> DEFINE T == Path[mover[m].to]
  <1>4. T \subseteq Folders /\ \A d \in T : Path[d] \subseteq there \cup T
      BY <1>3, PathUp, PathWithin
  <1>5. there' = there \cup T
      BY <1>1
  <1> HIDE DEF T
  <1>6. FoldersStand' /\ there' \subseteq Folders
      BY <1>1, <1>4, <1>5, FoldersAdded DEF TidyInv, TidyTyped
  <1>7. NothingDeleted' /\ RemovesNone'
      BY <1>1 DEF TidyInv, NothingDeleted, RemovesNone, Top
  <1> QED
      BY <1>1, <1>2, <1>6, <1>7, Disturbs DEF TidyInv, TidyTyped

LEMMA MoveFileStep ==
    ASSUME TidyInv, NEW m \in Requests, MoveFile(m)
    PROVE  TidyInv'
  <1> DEFINE f == mover[m].file
             to == mover[m].to
  <1>1. /\ mover[m].pc = "link" /\ disturbed' = TRUE /\ UNCHANGED <<there, walk, snatched, refusals>>
        /\ \/ lies' = lies
           \/ lies[f] = mover[m].from /\ to \in there /\ lies' = [lies EXCEPT ![f] = to]
        /\ Turned(m, "tidy") \/ Turned(m, "idle")
      BY DEF MoveFile
  <1>2. MoversKnown /\ MoversKnown'
      BY <1>1, Turns DEF TidyInv, TidyTyped
  <1>3. to \in Targets
      BY <1>1, <1>2 DEF MoversKnown
  <1>4. lies \in [Papers \cup Junk -> Folders \cup {"nowhere", "deleted"}] /\ there \subseteq Folders
        /\ FoldersStand /\ NothingDeleted /\ RemovesNone /\ WalkKnown
      BY DEF TidyInv, TidyTyped
  <1> HIDE DEF f, to
  <1>5. CASE lies' = lies
    <2>1. NothingDeleted' /\ RemovesNone' /\ FoldersStand'
        BY <1>1, <1>4, <1>5 DEF NothingDeleted, RemovesNone, Top, FoldersStand, Managed
    <2> QED
        BY <1>1, <1>2, <1>4, <1>5, <2>1, Disturbs
  <1>6. CASE to \in there /\ lies' = [lies EXCEPT ![f] = to]
    <2>1. /\ lies' \in [Papers \cup Junk -> Folders \cup {"nowhere", "deleted"}]
          /\ \A g \in Papers \cup Junk : lies'[g] = lies[g] \/ (lies'[g] = to)
        BY <1>4, <1>6
    <2>2. to \in Folders /\ to # "deleted"
        BY TidyAssumption, <1>4, <1>6
    <2>3. FoldersStand'
        BY <1>1, <1>4, <1>6, <2>1 DEF FoldersStand, Managed
    <2>4. NothingDeleted'
        BY <1>1, <1>4, <2>1, <2>2 DEF NothingDeleted
    <2>5. RemovesNone'
      <3> SUFFICES ASSUME walk.pc = "remove", NEW g \in Papers, lies'[g] \in In(Top.dir) PROVE g \in snatched
          BY <1>1 DEF RemovesNone, Top
      <3>1. to \notin In(Top.dir)
          BY <1>3, <1>4, TopKnown, TargetsApart DEF WalkKnown
      <3> QED
          BY <1>4, <2>1, <3>1 DEF RemovesNone
    <2> QED
        BY <1>1, <1>2, <1>4, <2>1, <2>3, <2>4, <2>5, Disturbs
  <1> QED
      BY <1>1, <1>5, <1>6

LEMMA LeaveFolderStep ==
    ASSUME TidyInv, NEW m \in Requests, LeaveFolder(m)
    PROVE  TidyInv'
  <1> DEFINE from == mover[m].from
  <1>1. PICK d, p :
          /\ mover[m].pc \in {"tidy", "above"} /\ d \in {from, Above[from]} /\ there' = Without(d)
          /\ Turned(m, p) /\ disturbed' = TRUE /\ UNCHANGED <<lies, walk, snatched, refusals>>
      BY DEF LeaveFolder
  <1>2. MoversKnown /\ MoversKnown'
      BY <1>1, Turns DEF TidyInv, TidyTyped
  <1>3. from \in Folders /\ Visible(from)
      BY <1>1, <1>2 DEF MoversKnown
  <1>4. from \notin Spared /\ Above[from] \notin Spared
    <2>1. "" \notin Spared
        BY TidyAssumption
    <2>2. from \in Path[from] /\ (Above[from] # "" => Above[from] \in Path[from])
        BY <1>3, PathUp, PathSteps
    <2>3. from \notin Spared
        BY <1>3, <2>2, VisibleUp
    <2>4. ASSUME Above[from] # "" PROVE Above[from] \notin Spared
        BY <1>3, <2>2, <2>4, VisibleUp
    <2> QED
        BY <2>1, <2>3, <2>4
  <1>5. FoldersStand' /\ there' \subseteq Folders
      BY <1>1, <1>4, FolderRemoved DEF TidyInv, TidyTyped
  <1>6. NothingDeleted' /\ RemovesNone'
      BY <1>1 DEF TidyInv, NothingDeleted, RemovesNone, Top
  <1> QED
      BY <1>1, <1>2, <1>5, <1>6, Disturbs DEF TidyInv, TidyTyped

LEMMA UserDropsStep ==
    ASSUME TidyInv, NEW f \in Papers \cup Junk, UserDrops(f)
    PROVE  TidyInv'
  <1>1. PICK d \in In(InputDir) :
          /\ Visible(d) /\ lies' = [lies EXCEPT ![f] = d] /\ there' = there \cup Path[d]
          /\ snatched' = IF LookedAt \cap Path[d] # {} THEN snatched \cup {f} ELSE snatched
      BY DEF UserDrops
  <1>2. disturbed' = TRUE /\ UNCHANGED <<mover, walk, refusals>>
      BY DEF UserDrops
  <1>3. lies \in [Papers \cup Junk -> Folders \cup {"nowhere", "deleted"}] /\ there \subseteq Folders
        /\ FoldersStand /\ NothingDeleted /\ RemovesNone /\ WalkKnown
      BY DEF TidyInv, TidyTyped
  <1>4. d \in Folders /\ d # "deleted" /\ d \in Path[d] /\ Path[d] \subseteq Folders
        /\ \A e \in Path[d] : Path[e] \subseteq there \cup Path[d]
      BY TidyAssumption, PathUp, PathWithin DEF In
  <1>5. /\ lies' \in [Papers \cup Junk -> Folders \cup {"nowhere", "deleted"}]
        /\ \A g \in Papers \cup Junk : lies'[g] = IF g = f THEN d ELSE lies[g]
      BY <1>1, <1>3, <1>4
  <1>6. FoldersStand' /\ there' \subseteq Folders
    <2> DEFINE T == Path[d]
    <2>1. T \subseteq Folders /\ (\A e \in T : Path[e] \subseteq there \cup T) /\ there' = there \cup T /\ d \in there'
        BY <1>1, <1>4
    <2> HIDE DEF T
    <2>2. DOMAIN lies = Papers \cup Junk /\ DOMAIN lies' = DOMAIN lies
        BY <1>3, <1>5
    <2>3. \A g \in DOMAIN lies : lies'[g] = lies[g] \/ lies'[g] \notin Folders \/ lies'[g] \in there'
        BY <1>5, <2>1, <2>2
    <2> QED
        BY <1>3, <2>1, <2>2, <2>3, FoldersAdded
  <1>7. snatched \subseteq snatched'
      BY <1>1
  <1>8. NothingDeleted'
      BY <1>3, <1>4, <1>5, <1>7 DEF NothingDeleted
  <1>9. RemovesNone'
    <2> SUFFICES ASSUME walk.pc = "remove", NEW g \in Papers, lies'[g] \in In(Top.dir) PROVE g \in snatched'
        BY <1>2 DEF RemovesNone, Top
    <2>1. CASE g = f
      <3>1. Top.dir \in Path[d]
          BY <1>5, <2>1 DEF In
      <3>2. LookedAt = {Top.dir}
          BY DEF LookedAt, Top
      <3> QED
          BY <1>1, <2>1, <3>1, <3>2
    <2>2. CASE g # f
        BY <1>3, <1>5, <1>7, <2>2 DEF RemovesNone
    <2> QED
        BY <2>1, <2>2
  <1>10. MoversKnown'
      BY <1>2 DEF TidyInv, TidyTyped, MoversKnown
  <1> QED
      BY <1>2, <1>5, <1>6, <1>8, <1>9, <1>10, Disturbs

-----------------------------------------------------------------------------
(* The walks.                                                               *)

LEMMA Pushed ==
    ASSUME NEW S, NEW s \in Seq(S), Len(s) > 0, NEW g \in S, NEW e \in S,
           NEW new, new = Append([s EXCEPT ![Len(s)] = g], e)
    PROVE  /\ new \in Seq(S) /\ Len(new) = Len(s) + 1
           /\ \A i \in 1..Len(s) : i # Len(s) => new[i] = s[i]
           /\ new[Len(s)] = g /\ new[Len(s) + 1] = e
  OBVIOUS

Topped(s, g) == [s EXCEPT ![Len(s)] = g]
LEMMA TopSet ==
    ASSUME NEW S, NEW s \in Seq(S), Len(s) > 0, NEW g \in S
    PROVE  /\ Topped(s, g) \in Seq(S) /\ Len(Topped(s, g)) = Len(s)
           /\ \A i \in 1..Len(s) : i # Len(s) => Topped(s, g)[i] = s[i]
           /\ Topped(s, g)[Len(s)] = g
  BY DEF Topped

LEMMA Popped ==
    ASSUME NEW S, NEW s \in Seq(S), Len(s) > 0, NEW new, new = Front(s)
    PROVE  /\ new \in Seq(S) /\ Len(new) = Len(s) - 1
           /\ \A i \in 1..Len(new) : i \in 1..Len(s) /\ i # Len(s) /\ new[i] = s[i]
  <1>1. Len(s) \in Nat /\ Len(s) - 1 \in Nat /\ \A i \in 1..(Len(s) - 1) : i \in 1..Len(s) /\ i # Len(s)
      OBVIOUS
  <1>2. new = [i \in 1..(Len(s) - 1) |-> s[i]]
      BY DEF Front
  <1>3. \A i \in 1..Len(s) : s[i] \in S
      OBVIOUS
  <1>4. new \in [1..(Len(s) - 1) -> S]
      BY <1>1, <1>2, <1>3
  <1>5. new \in Seq(S) /\ Len(new) = Len(s) - 1
      BY <1>1, <1>4
  <1> QED
      BY <1>1, <1>2, <1>5

LEMMA OnTopIs ==
    ASSUME walk.stack \in Seq(Frames), Len(walk.stack) > 0, NEW left
    PROVE  OnTop(left) = [walk.stack EXCEPT ![Len(walk.stack)] = [dir |-> Top.dir, left |-> left]]
  <1> DEFINE top == walk.stack[Len(walk.stack)]
  <1>1. Top = top /\ top \in Frames
      BY LastOf DEF Top
  <1>2. OnTop(left) = [walk.stack EXCEPT ![Len(walk.stack)] = [top EXCEPT !.left = left]]
      BY DEF OnTop
  <1> HIDE DEF top
  <1>3. [top EXCEPT !.left = left] = [dir |-> top.dir, left |-> left]
      BY <1>1 DEF Frames
  <1> QED
      BY <1>1, <1>2, <1>3

\* The walk after a step, field by field.
WalkIs(op, next, stack, list, from, back) ==
  walk' = [op |-> op, pc |-> next, stack |-> stack, rows |-> list, from |-> from, back |-> back]
LEMMA WalkParts ==
    ASSUME NEW op, NEW next, NEW stack, NEW list, NEW from, NEW back, WalkIs(op, next, stack, list, from, back)
    PROVE  /\ walk'.op = op /\ walk'.pc = next /\ walk'.stack = stack
           /\ walk'.rows = list /\ walk'.from = from /\ walk'.back = back
           /\ walk' = [op |-> walk'.op, pc |-> walk'.pc, stack |-> walk'.stack,
                       rows |-> walk'.rows, from |-> walk'.from, back |-> walk'.back]
  BY DEF WalkIs

LEMMA WalkGoes ==
    ASSUME NEW op, NEW next, NEW stack,
           walk = [op |-> op, pc |-> walk.pc, stack |-> walk.stack, rows |-> walk.rows,
                   from |-> walk.from, back |-> walk.back],
           walk' = [walk EXCEPT !.pc = next, !.stack = stack]
    PROVE  WalkIs(op, next, stack, walk.rows, walk.from, walk.back)
  <1>1. PICK now, olds, list, from, back :
          walk = [op |-> op, pc |-> now, stack |-> olds, rows |-> list, from |-> from, back |-> back]
      OBVIOUS
  <1>2. walk' = [op |-> op, pc |-> next, stack |-> stack, rows |-> list, from |-> from, back |-> back]
      BY <1>1
  <1>3. walk.rows = list /\ walk.from = from /\ walk.back = back
      BY <1>1
  <1> QED
      BY <1>2, <1>3 DEF WalkIs

\* A folder that is there can be reached from every folder above it.
LEMMA RootReached ==
    ASSUME FoldersStand, there \subseteq Folders, NEW d \in there, Visible(d), NEW root \in Path[d], root # d
    PROVE  \E e \in Subfolders(root) : e \in Path[d]
  <1>1. d \in Folders /\ Path[d] \subseteq there
      BY DEF FoldersStand
  <1>2. PICK e \in Path[d] : Above[e] = root
      BY <1>1, PathChild
  <1> QED
      BY <1>1, <1>2, VisibleUp DEF Subfolders, FoldersIn

LEMMA RootsVisible ==
    /\ InputDir \in Folders /\ OutputRootDir \in Folders /\ Visible(InputDir)
    /\ Path[InputDir] = {InputDir} /\ InputDir \in In(InputDir) /\ OutputRootDir \in In(OutputRootDir)
  <1>1. InputDir \in Folders /\ OutputRootDir \in Folders /\ Above[InputDir] = "" /\ InputDir \notin Spared
      BY TidyAssumption
  <1>2. Path[InputDir] = {InputDir}
    <2>1. \A e \in Path[InputDir] : e = InputDir \/ (Above[InputDir] # "" /\ e \in Path[Above[InputDir]])
        BY <1>1, PathSteps
    <2> QED
        BY <1>1, <2>1, PathUp
  <1> QED
      BY <1>1, <1>2, InUp DEF Visible

LEMMA Below1 ==
    ASSUME NEW top \in In(InputDir), Visible(top), NEW d \in Folders \ Spared, Above[d] = top
    PROVE  d \in Below(InputDir) /\ Visible(d)
  <1>1. top \in Folders /\ InputDir \in Folders
      BY RootsVisible DEF In
  <1>2. d \in In(InputDir)
      BY <1>1, InUp
  <1>3. Above[InputDir] = "" /\ "" \notin Folders
      BY TidyAssumption
  <1>4. Path[d] \subseteq {d} \cup Path[top]
      BY PathSteps
  <1> QED
      BY <1>1, <1>2, <1>3, <1>4 DEF Below, Visible

\* A step of the clean-up that leaves the files and the folders alone.
LEMMA CleanWalks ==
    ASSUME TidyInv, NEW p \in {"next", "remove"}, NEW s \in Stacks, NEW r, NEW f, NEW b,
           WalkIs("clean", p, s, r, f, b), Len(s) > 0, CleanFrames(s), p = "remove" => Len(s) > 1,
           UNCHANGED <<mover, there, lies, snatched, refusals>>, disturbed' \in BOOLEAN,
           RemovesNone', CleanCovers'
    PROVE  TidyInv'
  <1>1. /\ walk'.op = "clean" /\ walk'.pc = p /\ walk'.stack = s
        /\ walk' = [op |-> walk'.op, pc |-> walk'.pc, stack |-> walk'.stack,
                    rows |-> walk'.rows, from |-> walk'.from, back |-> walk'.back]
      BY WalkParts
  <1>2. WalkKnown'
      BY <1>1 DEF WalkKnown, CleanFrames
  <1>3. TidyTyped'
      BY <1>2 DEF TidyInv, TidyTyped, MoversKnown
  <1>4. NothingDeleted' /\ FoldersStand'
      BY DEF TidyInv, NothingDeleted, FoldersStand, Managed
  <1> QED
      BY <1>1, <1>3, <1>4 DEF TidyInv, ClearCovers

LEMMA StartCleanStep ==
    ASSUME TidyInv, StartClean
    PROVE  TidyInv'
  <1> DEFINE fr == [dir |-> InputDir, left |-> Subfolders(InputDir)]
             s == <<fr>>
  <1>1. /\ WalkIs("clean", "next", s, {}, "", "")
        /\ UNCHANGED <<mover, there, lies, snatched, refusals>> /\ disturbed' \in BOOLEAN
      BY DEF StartClean, NoWalk, WalkIs, WalkOnly, Busy
  <1>2. there \subseteq Folders /\ FoldersStand
      BY DEF TidyInv, TidyTyped
  <1>3. Subfolders(InputDir) \subseteq {e \in Folders \ Spared : Above[e] = InputDir}
      BY <1>2 DEF Subfolders, FoldersIn
  <1>4. fr \in Frames /\ fr.dir = InputDir /\ fr.left = Subfolders(InputDir)
      BY <1>3, RootsVisible DEF Frames
  <1> HIDE DEF fr
  <1>5. s \in Stacks /\ Len(s) = 1 /\ s[1] = fr
      BY <1>4 DEF Stacks
  <1> HIDE DEF s
  <1>6. CleanFrames(s)
      BY <1>3, <1>4, <1>5, RootsVisible DEF CleanFrames
  <1>7. walk'.stack = s /\ walk'.pc = "next"
      BY <1>1, WalkParts
  <1>8. CleanCovers'
    <2> SUFFICES ASSUME NEW d \in Below(InputDir), Visible(d), OnlyJunk(d)'
                 PROVE  Pending(d)'
        BY DEF CleanCovers, Below, In, Visible
    <2>1. d \in there /\ InputDir \in Path[d] /\ InputDir # d
        BY <1>1 DEF OnlyJunk, Below, In
    <2>2. PICK e \in Subfolders(InputDir) : e \in Path[d]
        BY <1>2, <2>1, RootReached
    <2>3. e \in s[1].left /\ 1 \in 1..Len(s)
        BY <1>4, <1>5, <2>2
    <2> QED
        BY <1>7, <2>2, <2>3 DEF Pending
  <1>9. RemovesNone'
      BY <1>7 DEF RemovesNone
  <1>10. Len(s) > 0
      BY <1>5
  <1> QED
      BY <1>1, <1>5, <1>6, <1>8, <1>9, <1>10, CleanWalks

LEMMA EnterStep ==
    ASSUME TidyInv, EnterSubfolder
    PROVE  TidyInv'
  <1> DEFINE old == walk.stack
             L == Len(old)
  <1>0. WalkKnown /\ walk.op = "clean" /\ walk.pc = "next" /\ there \subseteq Folders /\ FoldersStand
      BY DEF EnterSubfolder, TidyInv, TidyTyped
  <1>1. old \in Seq(Frames) /\ L > 0 /\ CleanFrames(old)
      BY <1>0 DEF WalkKnown, Stacks
  <1>2. Top = old[L] /\ L \in 1..L /\ L \in Nat /\ Top \in Frames
      BY <1>1, LastOf DEF Top
  <1>3. PICK d \in Top.left :
          walk' = [walk EXCEPT !.stack = Append(OnTop(Top.left \ {d}), [dir |-> d, left |-> Subfolders(d)])]
      BY DEF EnterSubfolder
  <1> DEFINE g == [dir |-> Top.dir, left |-> Top.left \ {d}]
             fr == [dir |-> d, left |-> Subfolders(d)]
             new == Append([old EXCEPT ![L] = g], fr)
  <1>4. Top = [dir |-> Top.dir, left |-> Top.left]
      BY <1>2 DEF Frames
  <1>5. OnTop(Top.left \ {d}) = [old EXCEPT ![L] = g]
      BY <1>1, <1>2, OnTopIs
  <1>6. WalkIs("clean", "next", new, walk.rows, walk.from, walk.back)
      BY <1>0, <1>3, <1>5 DEF WalkIs, WalkKnown
  <1>7. /\ Top.dir \in In(InputDir) /\ Visible(Top.dir)
        /\ Top.left \subseteq {e \in Folders \ Spared : Above[e] = Top.dir}
      BY <1>1, <1>2, RootsVisible DEF CleanFrames
  <1>8. d \in Below(InputDir) /\ Visible(d) /\ d \in Folders /\ Above[d] = Top.dir
      BY <1>7, Below1
  <1>9. Subfolders(d) \subseteq {e \in Folders \ Spared : Above[e] = d}
      BY <1>0 DEF Subfolders, FoldersIn
  <1>10. g \in Frames /\ g.dir = Top.dir /\ g.left = Top.left \ {d}
      BY <1>2 DEF Frames
  <1>11. fr \in Frames /\ fr.dir = d /\ fr.left = Subfolders(d)
      BY <1>8, <1>9 DEF Frames
  <1> HIDE DEF g, fr, L, old
  <1>12. /\ new \in Seq(Frames) /\ Len(new) = L + 1
         /\ \A i \in 1..L : i # L => new[i] = old[i]
         /\ new[L] = g /\ new[L + 1] = fr
      BY <1>1, <1>10, <1>11, Pushed DEF L
  <1> HIDE DEF new
  <1>13. /\ L + 1 \in 1..Len(new) /\ L + 1 > 1 /\ (L + 1) - 1 = L /\ L + 1 # 1
         /\ \A i \in 1..Len(new) : i = L + 1 \/ (i \in 1..L /\ (i > 1 => i - 1 \in 1..L /\ i - 1 # L))
         /\ \A i \in 1..L : i \in 1..Len(new)
      BY <1>2, <1>12
  <1>14. CleanFrames(new)
    <2> SUFFICES ASSUME NEW i \in 1..Len(new)
                 PROVE  /\ new[i].dir \in In(InputDir)
                        /\ i = 1 => new[i].dir = InputDir
                        /\ i > 1 => new[i].dir # InputDir /\ Visible(new[i].dir) /\ Above[new[i].dir] = new[i - 1].dir
                        /\ new[i].left \subseteq {e \in Folders \ Spared : Above[e] = new[i].dir}
        BY DEF CleanFrames
    <2>1. CASE i = L + 1
        BY <1>8, <1>9, <1>10, <1>11, <1>12, <1>13, <2>1 DEF Below
    <2>2. CASE i # L + 1
      <3>1. i \in 1..L /\ (i > 1 => i - 1 \in 1..L /\ new[i - 1] = old[i - 1])
          BY <1>12, <1>13, <2>2
      <3>2. new[i].dir = old[i].dir /\ new[i].left \subseteq old[i].left
          BY <1>2, <1>10, <1>12, <3>1
      <3> QED
          BY <1>1, <3>1, <3>2 DEF CleanFrames, L
    <2> QED
        BY <2>1, <2>2
  <1>15. walk'.stack = new /\ walk'.pc = "next" /\ UNCHANGED <<mover, there, lies, snatched, refusals, disturbed>>
      BY <1>6, WalkParts DEF EnterSubfolder, WalkOnly
  <1>16. CleanCovers'
    <2> SUFFICES ASSUME ~disturbed, NEW e \in Below(InputDir), Visible(e), OnlyJunk(e)
                 PROVE  Pending(e)'
        BY <1>15 DEF CleanCovers, Below, In, Visible, OnlyJunk, Entries, FilesIn, FoldersIn
    <2>1. PICK i \in 1..L : (i > 1 /\ old[i].dir = e) \/ \E x \in old[i].left : x \in Path[e]
        BY <1>0 DEF TidyInv, CleanCovers, Pending, L, old
    <2>2. CASE i > 1 /\ old[i].dir = e
      <3>1. i \in 1..Len(new) /\ new[i].dir = e
          BY <1>2, <1>10, <1>12, <1>13, <2>2
      <3> QED
          BY <1>15, <2>2, <3>1 DEF Pending
    <2>3. ASSUME NEW x \in old[i].left, x \in Path[e], x # d \/ i # L PROVE Pending(e)'
      <3>1. i \in 1..Len(new) /\ x \in new[i].left
          BY <1>2, <1>10, <1>12, <1>13, <2>3
      <3> QED
          BY <1>15, <2>3, <3>1 DEF Pending
    <2>4. CASE e = d
      <3>1. new[L + 1].dir = e
          BY <1>11, <1>12, <2>4
      <3> QED
          BY <1>13, <1>15, <3>1 DEF Pending
    <2>5. CASE e # d /\ d \in Path[e]
      <3>1. e \in there
          BY DEF OnlyJunk
      <3>2. PICK x \in Subfolders(d) : x \in Path[e]
          BY <1>0, <2>5, <3>1, RootReached
      <3>3. x \in new[L + 1].left
          BY <1>11, <1>12, <3>2
      <3> QED
          BY <1>13, <1>15, <3>2, <3>3 DEF Pending
    <2> QED
        BY <2>1, <2>2, <2>3, <2>4, <2>5
  <1>17. RemovesNone'
      BY <1>15 DEF RemovesNone
  <1>18. new \in Stacks /\ Len(new) > 0
      BY <1>2, <1>12 DEF Stacks
  <1>19. disturbed' \in BOOLEAN
      BY <1>15 DEF TidyInv, TidyTyped
  <1> QED
      BY <1>6, <1>14, <1>15, <1>16, <1>17, <1>18, <1>19, CleanWalks

\* The frames a clean-up has left when it leaves a folder.
LEMMA CleanPops ==
    ASSUME WalkKnown, walk.op = "clean", Len(walk.stack) > 1, NEW new, new = Front(walk.stack)
    PROVE  /\ new \in Stacks /\ Len(new) > 0 /\ CleanFrames(new)
           /\ \A i \in 1..Len(new) : i \in 1..Len(walk.stack) /\ new[i] = walk.stack[i]
           /\ \A i \in 1..Len(walk.stack) : i \in 1..Len(new) \/ walk.stack[i] = Top
           /\ Above[Top.dir] = InputDir \/ \E i \in 1..Len(new) : i > 1 /\ new[i].dir = Above[Top.dir]
  <1> DEFINE old == walk.stack
             L == Len(old)
  <1>1. old \in Seq(Frames) /\ CleanFrames(old)
      BY DEF WalkKnown, Stacks
  <1>2. L \in Nat /\ L > 1 /\ L > 0 /\ L \in 1..L
      BY <1>1, LengthOf
  <1>3. Top = old[L]
      BY <1>1, <1>2, LastOf DEF Top
  <1>4. new \in Seq(Frames) /\ Len(new) = L - 1 /\ \A i \in 1..Len(new) : i \in 1..L /\ i # L /\ new[i] = old[i]
      BY <1>1, <1>2, Popped
  <1> HIDE DEF L
  <1>5. /\ Len(new) > 0 /\ L - 1 \in 1..Len(new) /\ L - 1 \in 1..L /\ (L - 1 = 1 \/ L - 1 > 1)
        /\ \A i \in 1..L : i = L \/ i \in 1..Len(new)
        /\ \A i \in 1..Len(new) : i > 1 => i - 1 \in 1..Len(new)
      BY <1>2, <1>4
  <1>6. CleanFrames(new)
    <2> SUFFICES ASSUME NEW i \in 1..Len(new)
                 PROVE  /\ new[i].dir \in In(InputDir)
                        /\ i = 1 => new[i].dir = InputDir
                        /\ i > 1 => new[i].dir # InputDir /\ Visible(new[i].dir) /\ Above[new[i].dir] = new[i - 1].dir
                        /\ new[i].left \subseteq {e \in Folders \ Spared : Above[e] = new[i].dir}
        BY DEF CleanFrames
    <2>1. i \in 1..L /\ new[i] = old[i] /\ (i > 1 => new[i - 1] = old[i - 1])
        BY <1>4, <1>5
    <2> QED
        BY <1>1, <2>1 DEF CleanFrames, L
  <1>7. Above[Top.dir] = old[L - 1].dir /\ old[L - 1] = new[L - 1]
      BY <1>1, <1>2, <1>3, <1>4, <1>5 DEF CleanFrames, L
  <1>8. L - 1 = 1 => old[L - 1].dir = InputDir
      BY <1>1, <1>5 DEF CleanFrames, L
  <1>9. new \in Stacks
      BY <1>4 DEF Stacks
  <1>10. Above[Top.dir] = InputDir \/ \E i \in 1..Len(new) : i > 1 /\ new[i].dir = Above[Top.dir]
    <2>1. CASE L - 1 = 1
        BY <1>7, <1>8, <2>1
    <2>2. CASE L - 1 > 1
        BY <1>5, <1>7, <2>2
    <2> QED
        BY <1>5, <2>1, <2>2
  <1> QED
      BY <1>3, <1>4, <1>5, <1>6, <1>9, <1>10 DEF L

\* Nothing but junk in it, and so no paper below it.
LEMMA OnlyJunkBelow ==
    ASSUME TidyTyped, FoldersStand, NEW d \in Folders, OnlyJunk(d)
    PROVE  /\ \A e \in there : e \in In(d) => e = d
           /\ \A f \in Papers : lies[f] \notin In(d)
  <1>1. there \subseteq Folders /\ lies \in [Papers \cup Junk -> Folders \cup {"nowhere", "deleted"}]
      BY DEF TidyTyped
  <1>2. \A e \in there : Above[e] # d
    <2> SUFFICES ASSUME NEW e \in there, Above[e] = d PROVE FALSE
        OBVIOUS
    <2>1. e \in Junk
        BY DEF OnlyJunk, Entries, FoldersIn
    <2> QED
        BY TidyAssumption, <1>1, <2>1
  <1>3. ASSUME NEW e \in there, e \in In(d), e # d PROVE FALSE
    <2>1. e \in Folders /\ d \in Path[e] /\ Path[e] \subseteq there
        BY <1>1, <1>3 DEF In, FoldersStand
    <2>2. PICK c \in Path[e] : Above[c] = d
        BY <1>3, <2>1, PathChild
    <2> QED
        BY <1>2, <2>1, <2>2
  <1>4. ASSUME NEW f \in Papers, lies[f] \in In(d) PROVE FALSE
    <2>1. lies[f] \in Folders
        BY <1>4 DEF In
    <2>2. lies[f] \in there
        BY <1>1, <2>1 DEF FoldersStand
    <2>3. lies[f] = d
        BY <1>3, <1>4, <2>2
    <2>4. f \in Junk
        BY <2>3 DEF OnlyJunk, Entries, FilesIn
    <2> QED
        BY TidyAssumption, <2>4
  <1> QED
      BY <1>3, <1>4

LEMMA LookStep ==
    ASSUME TidyInv, LookAtFolder
    PROVE  TidyInv'
  <1>1. /\ WalkKnown /\ walk.op = "clean" /\ walk.pc = "next" /\ Top.left = {} /\ Len(walk.stack) > 1
        /\ UNCHANGED <<mover, there, lies, snatched, refusals, disturbed>> /\ disturbed' \in BOOLEAN
        /\ TidyTyped /\ FoldersStand
      BY DEF LookAtFolder, WalkOnly, TidyInv, TidyTyped
  <1>2. /\ Top.dir \in Folders /\ walk.stack \in Stacks /\ CleanFrames(walk.stack) /\ Len(walk.stack) > 0
      BY <1>1, TopKnown DEF WalkKnown, Below, In
  <1>3. CASE OnlyJunk(Top.dir)
    <2>1. WalkIs("clean", "remove", walk.stack, walk.rows, walk.from, walk.back)
        BY <1>1, <1>3 DEF LookAtFolder, WalkIs, WalkKnown
    <2>2. walk'.op = "clean" /\ walk'.pc = "remove" /\ walk'.stack = walk.stack
        BY <2>1, WalkParts
    <2>3. RemovesNone'
        BY <1>1, <1>2, <1>3, <2>2, OnlyJunkBelow DEF RemovesNone, Top
    <2>4. CleanCovers'
        BY <1>1, <2>2 DEF TidyInv, CleanCovers, Pending, OnlyJunk, Entries, FilesIn, FoldersIn
    <2> QED
        BY <1>1, <1>2, <2>1, <2>3, <2>4, CleanWalks
  <1>4. CASE ~OnlyJunk(Top.dir)
    <2> DEFINE new == Front(walk.stack)
    <2>1. WalkIs("clean", "next", new, walk.rows, walk.from, walk.back)
        BY <1>1, <1>4 DEF LookAtFolder, WalkIs, WalkKnown
    <2>2. walk'.op = "clean" /\ walk'.pc = "next" /\ walk'.stack = new
        BY <2>1, WalkParts
    <2>3. /\ new \in Stacks /\ Len(new) > 0 /\ CleanFrames(new)
          /\ \A i \in 1..Len(new) : i \in 1..Len(walk.stack) /\ new[i] = walk.stack[i]
          /\ \A i \in 1..Len(walk.stack) : i \in 1..Len(new) \/ walk.stack[i] = Top
        BY <1>1, CleanPops
    <2> HIDE DEF new
    <2>4. RemovesNone'
        BY <2>2 DEF RemovesNone
    <2>5. CleanCovers'
      <3> SUFFICES ASSUME ~disturbed, NEW e \in Below(InputDir), Visible(e), OnlyJunk(e) PROVE Pending(e)'
          BY <1>1 DEF CleanCovers, Below, In, Visible, OnlyJunk, Entries, FilesIn, FoldersIn
      <3>1. PICK i \in 1..Len(walk.stack) :
              (i > 1 /\ walk.stack[i].dir = e) \/ \E x \in walk.stack[i].left : x \in Path[e]
          BY <1>1 DEF TidyInv, CleanCovers, Pending
      <3>2. walk.stack[i] # Top
          BY <1>1, <1>4, <3>1
      <3>3. i \in 1..Len(new) /\ new[i] = walk.stack[i]
          BY <2>3, <3>2
      <3> QED
          BY <2>2, <3>1, <3>3 DEF Pending
    <2> QED
        BY <1>1, <2>1, <2>3, <2>4, <2>5, CleanWalks
  <1> QED
      BY <1>3, <1>4

LEMMA RemoveStep ==
    ASSUME TidyInv, RemoveFolder
    PROVE  TidyInv'
  <1> DEFINE top == Top.dir
             new == Front(walk.stack)
  <1>1. /\ WalkKnown /\ walk.op = "clean" /\ walk.pc = "remove" /\ Len(walk.stack) > 1
        /\ UNCHANGED <<mover, snatched, refusals, disturbed>> /\ disturbed' \in BOOLEAN
        /\ TidyTyped /\ FoldersStand /\ NothingDeleted /\ RemovesNone /\ MoversKnown
        /\ there \subseteq Folders /\ lies \in [Papers \cup Junk -> Folders \cup {"nowhere", "deleted"}]
      BY DEF RemoveFolder, WalkOnly, TidyInv, TidyTyped, WalkKnown
  <1>2. /\ there' = there \ In(top)
        /\ lies' = [f \in DOMAIN lies |-> IF lies[f] \in In(top) THEN "deleted" ELSE lies[f]]
      BY DEF RemoveFolder
  <1>3. WalkIs("clean", "next", new, walk.rows, walk.from, walk.back)
      BY <1>1 DEF RemoveFolder, WalkIs, WalkKnown
  <1>4. /\ new \in Stacks /\ Len(new) > 0 /\ CleanFrames(new)
        /\ \A i \in 1..Len(new) : i \in 1..Len(walk.stack) /\ new[i] = walk.stack[i]
        /\ \A i \in 1..Len(walk.stack) : i \in 1..Len(new) \/ walk.stack[i] = Top
        /\ Above[top] = InputDir \/ \E i \in 1..Len(new) : i > 1 /\ new[i].dir = Above[top]
      BY <1>1, CleanPops
  <1>5. top \in Below(InputDir) /\ Visible(top)
      BY <1>1, TopKnown
  <1>6. top \in Folders /\ top \in In(top)
      BY <1>5, PathUp DEF Below, In
  <1> HIDE DEF top, new
  <1>7. /\ lies' \in [Papers \cup Junk -> Folders \cup {"nowhere", "deleted"}]
        /\ \A f \in Papers \cup Junk : lies'[f] = IF lies[f] \in In(top) THEN "deleted" ELSE lies[f]
      BY <1>1, <1>2
  <1>8. "deleted" \notin Folders /\ \A d \in In(top) : d \in Folders
      BY TidyAssumption DEF In
  <1>9. NothingDeleted'
      BY <1>1, <1>7, <1>8 DEF NothingDeleted, RemovesNone, top
  <1>10. FoldersStand'
    <2>1. Managed \ {OutputRootDir} \subseteq there'
        BY <1>1, <1>2, <1>5, TargetsApart DEF FoldersStand, Managed
    <2>2. ASSUME NEW d \in there' PROVE Path[d] \subseteq there'
      <3>1. d \in Folders /\ top \notin Path[d] /\ Path[d] \subseteq there
          BY <1>1, <1>2, <2>2 DEF In, FoldersStand
      <3>2. ASSUME NEW e \in Path[d], e \in In(top) PROVE FALSE
        <4>1. top \in Path[e] /\ Path[e] \subseteq Path[d]
            BY <3>1, <3>2, PathWithin DEF In
        <4> QED
            BY <3>1, <4>1
      <3> QED
          BY <1>2, <3>1, <3>2
    <2>3. \A f \in DOMAIN lies' : lies'[f] \in Folders => lies'[f] \in there'
        BY <1>1, <1>2, <1>7, <1>8 DEF FoldersStand
    <2> QED
        BY <2>1, <2>2, <2>3 DEF FoldersStand, Managed
  <1>11. /\ walk'.op = "clean" /\ walk'.pc = "next" /\ walk'.stack = new
         /\ walk' = [op |-> walk'.op, pc |-> walk'.pc, stack |-> walk'.stack,
                     rows |-> walk'.rows, from |-> walk'.from, back |-> walk'.back]
      BY <1>3, WalkParts
  <1>12. WalkKnown'
      BY <1>4, <1>11 DEF WalkKnown, CleanFrames
  <1>13. TidyTyped'
      BY <1>1, <1>2, <1>7, <1>12 DEF TidyTyped, MoversKnown
  <1>14. CleanCovers'
    <2> SUFFICES ASSUME ~disturbed, NEW e \in Below(InputDir), Visible(e), OnlyJunk(e)' PROVE Pending(e)'
        BY <1>1 DEF CleanCovers, Below, In, Visible
    <2>1. e \in there /\ e \notin In(top) /\ e \in Folders /\ e # top
        BY <1>1, <1>2, <1>6 DEF OnlyJunk
    <2>2. CASE OnlyJunk(e)
      <3>1. PICK i \in 1..Len(walk.stack) :
              (i > 1 /\ walk.stack[i].dir = e) \/ \E x \in walk.stack[i].left : x \in Path[e]
          BY <1>1, <2>2 DEF TidyInv, CleanCovers, Pending
      <3>2. CASE walk.stack[i] # Top
        <4>1. i \in 1..Len(new) /\ new[i] = walk.stack[i]
            BY <1>4, <3>2
        <4> QED
            BY <1>11, <3>1, <4>1 DEF Pending
      <3>3. CASE walk.stack[i] = Top
        <4>1. PICK x \in Top.left : x \in Path[e]
            BY <2>1, <3>1, <3>3 DEF top
        <4>2. x \in Folders /\ Above[x] = top
            BY <1>1, <3>3, <4>1 DEF WalkKnown, CleanFrames, top
        <4>3. top \in Path[x] /\ Path[x] \subseteq Path[e]
            BY <1>6, <2>1, <4>1, <4>2, PathSteps, PathWithin, TidyAssumption
        <4> QED
            BY <2>1, <4>3 DEF In
      <3> QED
          BY <3>2, <3>3
    <2>3. CASE ~OnlyJunk(e)
      <3>1. PICK x \in Entries(e) : x \notin Junk /\ x \notin Entries(e)'
          BY <2>1, <2>3 DEF OnlyJunk
      <3>2. CASE x \in FilesIn(e)
        <4>1. x \in Papers \cup Junk /\ lies[x] = e
            BY <3>2 DEF FilesIn
        <4>2. lies'[x] = e
            BY <1>7, <2>1, <4>1
        <4> QED
            BY <3>1, <4>1, <4>2 DEF Entries, FilesIn
      <3>3. CASE x \in FoldersIn(e)
        <4>1. x \in there /\ Above[x] = e /\ x \notin there' /\ x \in Folders
            BY <1>1, <3>1, <3>3 DEF Entries, FoldersIn
        <4>2. top \in Path[x]
            BY <1>2, <4>1 DEF In
        <4>3. x = top \/ top \in Path[e]
            BY <4>1, <4>2, PathSteps
        <4>4. x = top
            BY <2>1, <4>3 DEF In
        <4>5. PICK i \in 1..Len(new) : i > 1 /\ new[i].dir = e
            BY <1>4, <4>1, <4>4 DEF Below
        <4> QED
            BY <1>11, <4>5 DEF Pending
      <3> QED
          BY <3>1, <3>2, <3>3 DEF Entries
    <2> QED
        BY <2>2, <2>3
  <1> QED
      BY <1>9, <1>10, <1>11, <1>13, <1>14 DEF TidyInv, RemovesNone, ClearCovers

LEMMA RemovalFailsStep ==
    ASSUME TidyInv, RemovalFails
    PROVE  TidyInv'
  <1> DEFINE top == Top.dir
             new == Front(walk.stack)
  <1>1. /\ WalkKnown /\ walk.op = "clean" /\ walk.pc = "remove" /\ Len(walk.stack) > 1
        /\ UNCHANGED <<mover, there, snatched>> /\ disturbed' = TRUE /\ refusals' \in Nat
        /\ TidyTyped /\ FoldersStand /\ NothingDeleted /\ RemovesNone /\ MoversKnown
        /\ there \subseteq Folders /\ lies \in [Papers \cup Junk -> Folders \cup {"nowhere", "deleted"}]
      BY DEF RemovalFails, Refuse, WalkOnly, TidyInv, TidyTyped, WalkKnown
  <1>2. PICK gone \in SUBSET {f \in DOMAIN lies : lies[f] \in In(top)} :
          lies' = [f \in DOMAIN lies |-> IF f \in gone THEN "deleted" ELSE lies[f]]
      BY DEF RemovalFails
  <1>3. WalkIs("clean", "next", new, walk.rows, walk.from, walk.back)
      BY <1>1 DEF RemovalFails, WalkIs, WalkKnown
  <1>4. new \in Stacks /\ Len(new) > 0 /\ CleanFrames(new)
      BY <1>1, CleanPops
  <1>5. "deleted" \notin Folders
      BY TidyAssumption
  <1> HIDE DEF top, new
  <1>6. /\ lies' \in [Papers \cup Junk -> Folders \cup {"nowhere", "deleted"}]
        /\ \A f \in Papers \cup Junk : lies'[f] = IF f \in gone THEN "deleted" ELSE lies[f]
      BY <1>1, <1>2
  <1>7. NothingDeleted'
      BY <1>1, <1>2, <1>6 DEF NothingDeleted, RemovesNone, top
  <1>8. FoldersStand'
      BY <1>1, <1>5, <1>6 DEF FoldersStand, Managed
  <1>9. /\ walk'.op = "clean" /\ walk'.pc = "next" /\ walk'.stack = new
        /\ walk' = [op |-> walk'.op, pc |-> walk'.pc, stack |-> walk'.stack,
                    rows |-> walk'.rows, from |-> walk'.from, back |-> walk'.back]
      BY <1>3, WalkParts
  <1>10. WalkKnown'
      BY <1>4, <1>9 DEF WalkKnown, CleanFrames
  <1>11. TidyTyped'
      BY <1>1, <1>6, <1>10 DEF TidyTyped, MoversKnown
  <1> QED
      BY <1>1, <1>7, <1>8, <1>9, <1>11 DEF TidyInv, RemovesNone, CleanCovers, ClearCovers

\* A walk that ends.
LEMMA EndStep ==
    ASSUME TidyInv, walk' = NoWalk, UNCHANGED <<mover, there, lies, snatched, disturbed>>, refusals' \in Nat
    PROVE  TidyInv'
  <1>1. WalkIs("none", "none", <<>>, {}, "", "")
      BY DEF WalkIs, NoWalk
  <1>2. <<>> \in Stacks
      BY DEF Stacks
  <1>3. /\ walk'.op = "none" /\ walk'.pc = "none" /\ walk'.stack \in Stacks
        /\ walk' = [op |-> walk'.op, pc |-> walk'.pc, stack |-> walk'.stack,
                    rows |-> walk'.rows, from |-> walk'.from, back |-> walk'.back]
      BY <1>1, <1>2, WalkParts
  <1>4. WalkKnown'
      BY <1>3 DEF WalkKnown
  <1>5. TidyTyped'
      BY <1>4 DEF TidyInv, TidyTyped, MoversKnown
  <1>6. NothingDeleted' /\ FoldersStand'
      BY DEF TidyInv, NothingDeleted, FoldersStand, Managed
  <1> QED
      BY <1>3, <1>5, <1>6 DEF TidyInv, RemovesNone, CleanCovers, ClearCovers

\* A step of the clear.
LEMMA ClearWalks ==
    ASSUME TidyInv, NEW p, NEW s \in Stacks, NEW r, NEW f, NEW b, WalkIs("clear", p, s, r, f, b),
           p # "remove", ClearFrames(s), NEW place, place = IF p \in {"tidy", "above"} THEN b ELSE p,
           place \in {"rows", "next", "ensure", "cleared"}, place = "next" => Len(s) > 0,
           p \in {"tidy", "above"} => f \in In(OutputRootDir) /\ b \in {"rows", "next"},
           UNCHANGED <<mover, snatched>>, disturbed' \in BOOLEAN, refusals' \in Nat, there' \subseteq Folders,
           lies' \in [Papers \cup Junk -> Folders \cup {"nowhere", "deleted"}],
           FoldersStand', NothingDeleted', ClearCovers'
    PROVE  TidyInv'
  <1>1. /\ walk'.op = "clear" /\ walk'.pc = p /\ walk'.stack = s /\ walk'.from = f /\ walk'.back = b
        /\ walk' = [op |-> walk'.op, pc |-> walk'.pc, stack |-> walk'.stack,
                    rows |-> walk'.rows, from |-> walk'.from, back |-> walk'.back]
      BY WalkParts
  <1>2. Place' = place
      BY <1>1 DEF Place
  <1>3. WalkKnown'
      BY <1>1, <1>2 DEF WalkKnown, ClearFrames
  <1>4. TidyTyped'
      BY <1>3 DEF TidyInv, TidyTyped, MoversKnown
  <1> QED
      BY <1>1, <1>4 DEF TidyInv, RemovesNone, CleanCovers

\* Where the walk of a clear is, as its next step needs it.
LEMMA ClearKnown ==
    ASSUME TidyInv, walk.op = "clear"
    PROVE  /\ walk.stack \in Stacks /\ walk.stack \in Seq(Frames) /\ ClearFrames(walk.stack)
           /\ there \subseteq Folders /\ lies \in [Papers \cup Junk -> Folders \cup {"nowhere", "deleted"}]
           /\ TidyTyped /\ FoldersStand /\ NothingDeleted /\ refusals \in Nat /\ disturbed \in BOOLEAN
           /\ walk = [op |-> "clear", pc |-> walk.pc, stack |-> walk.stack, rows |-> walk.rows,
                      from |-> walk.from, back |-> walk.back]
           /\ Place \in {"rows", "next", "ensure", "cleared"}
           /\ Place = "next" => Len(walk.stack) > 0
  BY DEF TidyInv, TidyTyped, WalkKnown, Stacks

LEMMA StartClearStep ==
    ASSUME TidyInv, StartClear
    PROVE  TidyInv'
  <1>1. PICK list : walk' = [NoWalk EXCEPT !.op = "clear", !.pc = "rows", !.rows = list]
      BY DEF StartClear
  <1>2. /\ WalkIs("clear", "rows", <<>>, list, "", "") /\ there' = there \cup Managed
        /\ UNCHANGED <<mover, lies, snatched, refusals>> /\ disturbed' \in BOOLEAN
      BY <1>1 DEF StartClear, NoWalk, WalkIs, WalkOnly, Busy
  <1>3. /\ there \subseteq Folders /\ FoldersStand /\ refusals \in Nat /\ NothingDeleted
        /\ lies \in [Papers \cup Junk -> Folders \cup {"nowhere", "deleted"}]
      BY DEF TidyInv, TidyTyped
  <1>4. Managed \subseteq Folders /\ \A d \in Managed : Path[d] \subseteq there \cup Managed
      BY ManagedStands
  <1>5. FoldersStand' /\ there' \subseteq Folders
      BY <1>2, <1>3, <1>4, FoldersAdded
  <1>6. NothingDeleted'
      BY <1>2, <1>3 DEF NothingDeleted
  <1>7. walk'.pc = "rows"
      BY <1>2, WalkParts
  <1>8. ClearCovers'
      BY <1>7 DEF ClearCovers, Place
  <1> DEFINE s == <<>>
             blank == ""
  <1>9. s \in Stacks /\ ClearFrames(s)
      BY DEF Stacks, ClearFrames
  <1>10. WalkIs("clear", "rows", s, list, blank, blank)
      BY <1>2
  <1> HIDE DEF s, blank
  <1>11. /\ refusals' \in Nat /\ lies' \in [Papers \cup Junk -> Folders \cup {"nowhere", "deleted"}]
         /\ UNCHANGED <<mover, snatched>> /\ disturbed' \in BOOLEAN
      BY <1>2, <1>3
  <1> QED
      BY <1>5, <1>6, <1>8, <1>9, <1>10, <1>11, ClearWalks

\* A file that goes back to __raws.
LEMMA WentBack ==
    ASSUME TidyInv, NEW f \in Papers \cup Junk, lies' = [lies EXCEPT ![f] = InputDir], UNCHANGED <<there, snatched>>
    PROVE  /\ lies' \in [Papers \cup Junk -> Folders \cup {"nowhere", "deleted"}]
           /\ \A g \in Papers \cup Junk : lies'[g] = IF g = f THEN InputDir ELSE lies[g]
           /\ FoldersStand' /\ NothingDeleted'
           /\ \A d \in In(OutputRootDir) : Entries(d)' = Entries(d) \ {f}
  <1>1. /\ there \subseteq Folders /\ FoldersStand /\ NothingDeleted
        /\ lies \in [Papers \cup Junk -> Folders \cup {"nowhere", "deleted"}]
      BY DEF TidyInv, TidyTyped
  <1>2. InputDir \in Folders /\ InputDir # "deleted" /\ InputDir # OutputRootDir /\ f \notin Folders
      BY TidyAssumption
  <1>3. /\ lies' \in [Papers \cup Junk -> Folders \cup {"nowhere", "deleted"}]
        /\ \A g \in Papers \cup Junk : lies'[g] = IF g = f THEN InputDir ELSE lies[g]
      BY <1>1, <1>2
  <1>4. InputDir \in there
      BY <1>1, <1>2 DEF FoldersStand, Managed
  <1>5. FoldersStand'
      BY <1>1, <1>3, <1>4 DEF FoldersStand, Managed
  <1>6. NothingDeleted'
      BY <1>1, <1>2, <1>3 DEF NothingDeleted
  <1>7. ASSUME NEW d \in In(OutputRootDir) PROVE Entries(d)' = Entries(d) \ {f}
    <2>1. d # InputDir
        BY <1>2, RootsVisible DEF In
    <2>2. FilesIn(d)' = FilesIn(d) \ {f}
        BY <1>3, <2>1 DEF FilesIn
    <2>3. FoldersIn(d)' = FoldersIn(d) /\ f \notin FoldersIn(d)
        BY <1>1, <1>2 DEF FoldersIn
    <2> QED
        BY <2>2, <2>3 DEF Entries
  <1> QED
      BY <1>3, <1>5, <1>6, <1>7

LEMMA ClearRowStep ==
    ASSUME TidyInv, ClearRow
    PROVE  TidyInv'
  <1>1. walk.op = "clear" /\ walk.pc = "rows" /\ Place = "rows"
      BY DEF ClearRow, TidyInv, TidyTyped, WalkKnown, Place
  <1>2. PICK f \in walk.rows :
          LET after == [walk EXCEPT !.rows = @ \ {f}]
          IN IF lies[f] \in In(OutputRootDir) THEN MoveBack(f, lies[f], after)
             ELSE walk' = after /\ UNCHANGED <<there, lies, refusals>>
      BY DEF ClearRow
  <1>3. UNCHANGED <<mover, snatched, disturbed>>
      BY DEF ClearRow, WalkOnly
  <1> DEFINE left == walk.rows \ {f}
             after == [walk EXCEPT !.rows = left]
  <1>4. /\ walk.stack \in Stacks /\ ClearFrames(walk.stack) /\ refusals \in Nat /\ disturbed \in BOOLEAN
        /\ there \subseteq Folders /\ lies \in [Papers \cup Junk -> Folders \cup {"nowhere", "deleted"}]
        /\ FoldersStand /\ NothingDeleted
        /\ after = [op |-> "clear", pc |-> "rows", stack |-> walk.stack, rows |-> left,
                    from |-> walk.from, back |-> walk.back]
    <2> HIDE DEF left
    <2>1. walk = [op |-> "clear", pc |-> walk.pc, stack |-> walk.stack, rows |-> walk.rows,
                  from |-> walk.from, back |-> walk.back]
        BY <1>1, ClearKnown
    <2>2. after = [op |-> "clear", pc |-> "rows", stack |-> walk.stack, rows |-> left,
                   from |-> walk.from, back |-> walk.back]
        BY <1>1, <2>1
    <2> QED
        BY <1>1, <2>2, ClearKnown
  <1>5. \/ walk' = after /\ UNCHANGED <<there, lies>> /\ refusals' \in Nat
        \/ /\ lies[f] \in In(OutputRootDir) /\ lies' = [lies EXCEPT ![f] = InputDir]
           /\ walk' = [after EXCEPT !.pc = "tidy", !.from = lies[f], !.back = after.pc]
           /\ UNCHANGED <<there, refusals>>
      BY <1>2, <1>4 DEF MoveBack, Refuse
  <1> HIDE DEF left
  <1>6. CASE walk' = after /\ UNCHANGED <<there, lies>> /\ refusals' \in Nat
    <2>1. WalkIs("clear", "rows", walk.stack, left, walk.from, walk.back)
        BY <1>4, <1>6 DEF WalkIs
    <2>2. walk'.pc = "rows"
        BY <2>1, WalkParts
    <2>3. ClearCovers' /\ NothingDeleted' /\ FoldersStand'
        BY <1>3, <1>4, <1>6, <2>2 DEF ClearCovers, Place, NothingDeleted, FoldersStand, Managed
    <2> QED
        BY <1>3, <1>4, <1>6, <2>1, <2>3, ClearWalks
  <1>7. CASE /\ lies[f] \in In(OutputRootDir) /\ lies' = [lies EXCEPT ![f] = InputDir]
             /\ walk' = [after EXCEPT !.pc = "tidy", !.from = lies[f], !.back = after.pc]
             /\ UNCHANGED <<there, refusals>>
    <2>1. WalkIs("clear", "tidy", walk.stack, left, lies[f], "rows")
        BY <1>4, <1>7 DEF WalkIs
    <2>2. walk'.pc = "tidy" /\ walk'.back = "rows"
        BY <2>1, WalkParts
    <2>3. ClearCovers'
        BY <2>2 DEF ClearCovers, Place
    <2>4. CASE f \in Papers \cup Junk
      <3>1. /\ lies' \in [Papers \cup Junk -> Folders \cup {"nowhere", "deleted"}]
            /\ FoldersStand' /\ NothingDeleted'
          BY <1>3, <1>7, <2>4, WentBack
      <3> QED
          BY <1>3, <1>4, <1>7, <2>1, <2>3, <3>1, ClearWalks
    <2>5. CASE f \notin Papers \cup Junk
      <3>1. lies' = lies
          BY <1>4, <1>7, <2>5
      <3>2. FoldersStand' /\ NothingDeleted'
          BY <1>3, <1>4, <1>7, <3>1 DEF NothingDeleted, FoldersStand, Managed
      <3> QED
          BY ZenonT(40), <1>3, <1>4, <1>7, <2>1, <2>3, <3>1, <3>2, ClearWalks
    <2> QED
        BY <2>4, <2>5
  <1> QED
      BY <1>5, <1>6, <1>7

LEMMA WalkLeavesStep ==
    ASSUME TidyInv, WalkLeaves
    PROVE  TidyInv'
  <1>1. /\ walk.pc \in {"tidy", "above"} /\ walk.op = "clear" /\ walk.from \in In(OutputRootDir)
        /\ walk.back \in {"rows", "next"} /\ Place = walk.back
      BY DEF WalkLeaves, TidyInv, TidyTyped, WalkKnown, Place
  <1> DEFINE d == IF walk.pc = "tidy" THEN walk.from ELSE Above[walk.from]
             p == IF walk.pc = "tidy" /\ Emptied(d) /\ Above[d] # "" THEN "above" ELSE walk.back
  <1>2. /\ d \in {walk.from, Above[walk.from]} /\ p \in {"above", walk.back}
        /\ there' = Without(d) /\ walk' = [walk EXCEPT !.pc = p]
      BY DEF WalkLeaves
  <1> HIDE DEF d, p
  <1>3. UNCHANGED <<mover, snatched, lies, refusals, disturbed>>
      BY DEF WalkLeaves, WalkOnly
  <1>4. /\ walk.stack \in Stacks /\ ClearFrames(walk.stack) /\ refusals \in Nat /\ disturbed \in BOOLEAN
        /\ there \subseteq Folders /\ lies \in [Papers \cup Junk -> Folders \cup {"nowhere", "deleted"}]
        /\ FoldersStand /\ NothingDeleted /\ TidyTyped
        /\ walk = [op |-> "clear", pc |-> walk.pc, stack |-> walk.stack, rows |-> walk.rows,
                   from |-> walk.from, back |-> walk.back]
        /\ walk.back = "next" => Len(walk.stack) > 0
      BY <1>1, ClearKnown
  <1>5. WalkIs("clear", p, walk.stack, walk.rows, walk.from, walk.back)
      BY <1>2, <1>4 DEF WalkIs
  <1>6. ~(d \in Spared /\ Above[d] = InputDir)
    <2> SUFFICES ASSUME d \in Spared, Above[d] = InputDir PROVE FALSE
        OBVIOUS
    <2>1. d \in Folders
        BY TidyAssumption
    <2>2. walk.from \in Folders /\ OutputRootDir \in Path[walk.from]
        BY <1>1 DEF In
    <2>3. InputDir \in In(InputDir) /\ InputDir \in Folders
        BY RootsVisible
    <2>4. d \in In(InputDir)
        BY <2>1, <2>3, InUp
    <2>5. walk.from \in In(InputDir)
        BY <1>2, <2>2, <2>3, <2>4, InUp
    <2> QED
        BY <2>2, <2>5, TreesApart DEF In
  <1>7. FoldersStand' /\ there' \subseteq there
      BY <1>2, <1>3, <1>4, <1>6, FolderRemoved
  <1>8. NothingDeleted'
      BY <1>3, <1>4 DEF NothingDeleted
  <1>9. walk'.op = "clear" /\ walk'.stack = walk.stack /\ walk'.pc = p /\ walk'.back = walk.back /\ Place' = walk.back
      BY <1>1, <1>2, <1>5, WalkParts DEF Place
  <1>10. ClearCovers'
    <2> SUFFICES ASSUME ~disturbed, refusals = 0, walk.back = "next", NEW i \in 1..Len(walk.stack),
                        NEW e \in Entries(walk.stack[i].dir)'
                 PROVE  e \in walk.stack[i].left \/ (i < Len(walk.stack) /\ e = walk.stack[i + 1].dir)
        BY <1>1, <1>3, <1>9 DEF ClearCovers
    <2>1. e \in Entries(walk.stack[i].dir)
        BY <1>3, <1>7, <1>9 DEF Entries, FilesIn, FoldersIn
    <2> QED
        BY <1>1, <2>1 DEF TidyInv, ClearCovers
  <1>11. p # "remove" /\ (IF p \in {"tidy", "above"} THEN walk.back ELSE p) = walk.back
      BY <1>1, <1>2
  <1> QED
      BY <1>1, <1>3, <1>4, <1>5, <1>7, <1>8, <1>10, <1>11, ClearWalks

LEMMA EntriesTyped ==
    ASSUME there \subseteq Folders, NEW d
    PROVE  /\ Entries(d) \subseteq Folders \cup Papers \cup Junk
           /\ \A e \in Entries(d) \cap Folders : Above[e] = d
           /\ \A e \in Entries(d) \ Folders : e \in Papers \cup Junk /\ lies[e] = d
  BY TidyAssumption DEF Entries, FilesIn, FoldersIn

LEMMA RowsClearedStep ==
    ASSUME TidyInv, RowsCleared
    PROVE  TidyInv'
  <1>1. walk.op = "clear" /\ walk.pc = "rows" /\ UNCHANGED <<mover, snatched, there, lies, disturbed>>
      BY DEF RowsCleared, TidyInv, TidyTyped, WalkKnown, WalkOnly
  <1>2. /\ there \subseteq Folders /\ lies \in [Papers \cup Junk -> Folders \cup {"nowhere", "deleted"}]
        /\ FoldersStand /\ NothingDeleted /\ refusals \in Nat /\ disturbed \in BOOLEAN
        /\ walk = [op |-> "clear", pc |-> walk.pc, stack |-> walk.stack, rows |-> walk.rows,
                   from |-> walk.from, back |-> walk.back]
      BY <1>1, ClearKnown
  <1> DEFINE fr == [dir |-> OutputRootDir, left |-> Entries(OutputRootDir)]
             s == <<fr>>
  <1>3. \/ walk' = [walk EXCEPT !.pc = "next", !.stack = s] /\ refusals' = refusals
        \/ walk' = NoWalk /\ refusals' = refusals + 1
      BY DEF RowsCleared, Refuse
  <1>4. CASE walk' = NoWalk /\ refusals' = refusals + 1
      BY <1>1, <1>2, <1>4, EndStep
  <1>5. CASE walk' = [walk EXCEPT !.pc = "next", !.stack = s] /\ refusals' = refusals
    <2>4. WalkIs("clear", "next", s, walk.rows, walk.from, walk.back)
        BY <1>1, <1>2, <1>5, WalkGoes
    <2>1. fr \in Frames /\ fr.dir = OutputRootDir /\ fr.left = Entries(OutputRootDir)
      <3>1. Entries(OutputRootDir) \subseteq Folders \cup Papers \cup Junk
          BY <1>2, EntriesTyped
      <3> QED
          BY <3>1, RootsVisible DEF Frames
    <2> HIDE DEF fr
    <2>2. s \in Stacks /\ Len(s) = 1 /\ s[1] = fr
        BY <2>1 DEF Stacks
    <2> HIDE DEF s
    <2>3. ClearFrames(s)
        BY <1>2, <2>1, <2>2, RootsVisible, EntriesTyped DEF ClearFrames
    <2>5. walk'.pc = "next" /\ walk'.stack = s
        BY <2>4, WalkParts
    <2>6. ClearCovers'
      <3>1. \A i \in 1..Len(s) : \A e \in Entries(s[i].dir) : e \in s[i].left
          BY <2>1, <2>2
      <3>2. \A d : Entries(d)' = Entries(d)
          BY <1>1 DEF Entries, FilesIn, FoldersIn
      <3> QED
          BY <2>5, <3>1, <3>2 DEF ClearCovers, Place
    <2>7. FoldersStand' /\ NothingDeleted'
        BY <1>1, <1>2 DEF FoldersStand, NothingDeleted, Managed
    <2>8. refusals' \in Nat /\ Len(s) > 0 /\ disturbed' \in BOOLEAN /\ there' \subseteq Folders
          /\ lies' \in [Papers \cup Junk -> Folders \cup {"nowhere", "deleted"}]
        BY <1>1, <1>2, <1>5, <2>2
    <2> QED
        BY <1>1, <2>2, <2>3, <2>4, <2>6, <2>7, <2>8, ClearWalks
  <1> QED
      BY <1>3, <1>4, <1>5

\* The top of the stack without e; the rest of it as it was.
EntryTaken(new, e) ==
  /\ new \in Stacks /\ Len(new) = Len(walk.stack) /\ Len(walk.stack) > 0 /\ Len(walk.stack) \in Nat
  /\ ClearFrames(new) /\ Top = walk.stack[Len(walk.stack)]
  /\ new[Len(new)] = [dir |-> Top.dir, left |-> Top.left \ {e}] /\ new[Len(new)] \in Frames
  /\ \A i \in 1..Len(new) : /\ new[i].dir = walk.stack[i].dir
                            /\ i # Len(new) => new[i] = walk.stack[i]
                            /\ \A x \in walk.stack[i].left : x \in new[i].left \/ (i = Len(new) /\ x = e)
  /\ Top.dir \in In(OutputRootDir) /\ e \in Folders \cup Papers \cup Junk
  /\ e \in Folders => Above[e] = Top.dir /\ e \in In(OutputRootDir)

\* The frames of a clear when an entry of the folder it is in is done.
LEMMA EntryOff ==
    ASSUME TidyInv, walk.op = "clear", walk.pc = "next", NEW e \in Top.left,
           NEW new, new = OnTop(Top.left \ {e})
    PROVE  EntryTaken(new, e)
  <1> DEFINE old == walk.stack
             L == Len(old)
             g == [dir |-> Top.dir, left |-> Top.left \ {e}]
  <1>0. Place = "next"
      BY DEF Place
  <1>1. old \in Seq(Frames) /\ L > 0 /\ ClearFrames(old)
      BY <1>0, ClearKnown
  <1>2. Top = old[L] /\ L \in 1..L /\ L \in Nat /\ Top \in Frames
      BY <1>1, LastOf DEF Top
  <1>3. new = [old EXCEPT ![L] = g]
      BY <1>1, OnTopIs
  <1>4. g \in Frames /\ g.dir = Top.dir /\ g.left = Top.left \ {e}
      BY <1>2 DEF Frames
  <1>5. /\ Top.dir \in In(OutputRootDir) /\ Top.left \subseteq Folders \cup Papers \cup Junk
        /\ \A x \in Top.left \cap Folders : Above[x] = Top.dir
      BY <1>1, <1>2 DEF ClearFrames
  <1> HIDE DEF g, old, L
  <1>6. /\ new \in Seq(Frames) /\ Len(new) = L
        /\ \A i \in 1..L : i # L => new[i] = old[i]
        /\ new[L] = g
    <2>1. old \in Seq(Frames) /\ Len(old) > 0 /\ new = Topped(old, g) /\ g \in Frames
        BY <1>1, <1>3, <1>4 DEF L, Topped
    <2>2. /\ Topped(old, g) \in Seq(Frames) /\ Len(Topped(old, g)) = Len(old)
          /\ \A i \in 1..Len(old) : i # Len(old) => Topped(old, g)[i] = old[i]
          /\ Topped(old, g)[Len(old)] = g
        BY <2>1, TopSet
    <2> QED
        BY <2>1, <2>2 DEF L
  <1>7. \A i \in 1..L : /\ new[i].dir = old[i].dir /\ new[i].left \subseteq old[i].left
                        /\ \A x \in old[i].left : x \in new[i].left \/ (i = L /\ x = e)
      BY <1>2, <1>4, <1>6
  <1>8. ClearFrames(new)
      BY <1>1, <1>6, <1>7 DEF ClearFrames, L
  <1>9. e \in Folders => Above[e] = Top.dir /\ e \in In(OutputRootDir)
      BY <1>5, RootsVisible, InUp
  <1>10. new \in Stacks
      BY <1>6 DEF Stacks
  <1>11. new[Len(new)] = [dir |-> Top.dir, left |-> Top.left \ {e}] /\ new[Len(new)] \in Frames
      BY <1>4, <1>6 DEF g
  <1> QED
      BY <1>1, <1>2, <1>5, <1>6, <1>7, <1>8, <1>9, <1>10, <1>11 DEF L, old, EntryTaken

LEMMA ClearEntryStep ==
    ASSUME TidyInv, ClearEntry
    PROVE  TidyInv'
  <1>1. walk.op = "clear" /\ walk.pc = "next" /\ Place = "next" /\ UNCHANGED <<mover, snatched, disturbed>>
      BY DEF ClearEntry, Place, WalkOnly
  <1>2. /\ there \subseteq Folders /\ lies \in [Papers \cup Junk -> Folders \cup {"nowhere", "deleted"}]
        /\ FoldersStand /\ NothingDeleted /\ refusals \in Nat /\ disturbed \in BOOLEAN
        /\ walk = [op |-> "clear", pc |-> walk.pc, stack |-> walk.stack, rows |-> walk.rows,
                   from |-> walk.from, back |-> walk.back]
      BY <1>1, ClearKnown
  <1>3. PICK e \in Top.left :
          LET after == [walk EXCEPT !.stack = OnTop(Top.left \ {e})]
          IN IF e \in Folders
             THEN /\ \/ walk' = [after EXCEPT !.stack = Append(@, [dir |-> e, left |-> Entries(e)])]
                        /\ UNCHANGED refusals
                     \/ Refuse /\ walk' = after
                  /\ UNCHANGED <<there, lies>>
             ELSE MoveBack(e, Top.dir, after)
      BY DEF ClearEntry
  <1>n. PICK new : new = OnTop(Top.left \ {e})
      OBVIOUS
  <1> DEFINE after == [walk EXCEPT !.stack = new]
             fr == [dir |-> e, left |-> Entries(e)]
             pushed == Append(new, fr)
             L == Len(new)
  <1>4. /\ new \in Stacks /\ L = Len(walk.stack) /\ L > 0 /\ L \in Nat
        /\ ClearFrames(new)
        /\ new[L] = [dir |-> Top.dir, left |-> Top.left \ {e}] /\ new[L] \in Frames
        /\ \A i \in 1..L : /\ new[i].dir = walk.stack[i].dir
                           /\ i # L => new[i] = walk.stack[i]
                           /\ \A x \in walk.stack[i].left : x \in new[i].left \/ (i = L /\ x = e)
        /\ Top.dir \in In(OutputRootDir) /\ e \in Folders \cup Papers \cup Junk
        /\ e \in Folders => Above[e] = Top.dir /\ e \in In(OutputRootDir)
        /\ Top = walk.stack[L]
    <2>1. TidyInv /\ walk.op = "clear" /\ walk.pc = "next"
        BY <1>1
    <2>2. e \in Top.left /\ new = OnTop(Top.left \ {e})
        BY <1>3, <1>n
    <2>3. EntryTaken(new, e)
        BY <2>1, <2>2, EntryOff
    <2> QED
        BY <2>3 DEF EntryTaken
  <1>5. \/ e \in Folders /\ walk' = [after EXCEPT !.stack = pushed] /\ UNCHANGED <<there, lies, refusals>>
        \/ walk' = after /\ UNCHANGED <<there, lies>> /\ refusals' = refusals + 1
        \/ e \notin Folders /\ lies[e] # Top.dir /\ walk' = after /\ UNCHANGED <<there, lies, refusals>>
        \/ /\ e \notin Folders /\ lies[e] = Top.dir /\ lies' = [lies EXCEPT ![e] = InputDir]
           /\ walk' = [after EXCEPT !.pc = "tidy", !.from = Top.dir, !.back = after.pc]
           /\ UNCHANGED <<there, refusals>>
      BY <1>3, <1>n DEF MoveBack, Refuse
  <1> HIDE DEF fr
  <1>6. after = [op |-> "clear", pc |-> "next", stack |-> new, rows |-> walk.rows,
                 from |-> walk.from, back |-> walk.back]
      BY <1>1, <1>2
  <1> HIDE DEF after
  <1>7. \A i \in 1..L : \A x \in Entries(walk.stack[i].dir) : ~disturbed /\ refusals = 0 =>
          \/ x \in new[i].left
          \/ i < L /\ x = new[i + 1].dir
          \/ i = L /\ x = e
    <2> SUFFICES ASSUME NEW i \in 1..L, NEW x \in Entries(walk.stack[i].dir), ~disturbed, refusals = 0
                 PROVE  \/ x \in new[i].left
                        \/ i < L /\ x = new[i + 1].dir
                        \/ i = L /\ x = e
        OBVIOUS
    <2>1. x \in walk.stack[i].left \/ (i < L /\ x = walk.stack[i + 1].dir)
        BY <1>1, <1>4 DEF TidyInv, ClearCovers
    <2>2. i < L => i + 1 \in 1..L
        BY <1>4
    <2> QED
        BY <1>4, <2>1, <2>2
  <1>8. /\ UNCHANGED <<there, lies>> => FoldersStand' /\ NothingDeleted' /\ there' \subseteq Folders
             /\ lies' \in [Papers \cup Junk -> Folders \cup {"nowhere", "deleted"}]
             /\ \A d : Entries(d)' = Entries(d)
      BY <1>1, <1>2 DEF FoldersStand, NothingDeleted, Managed, Entries, FilesIn, FoldersIn
  <1>9. disturbed' \in BOOLEAN
      BY <1>1, <1>2
  <1>10. CASE e \in Folders /\ walk' = [after EXCEPT !.stack = pushed] /\ UNCHANGED <<there, lies, refusals>>
    <2>1. fr \in Frames /\ fr.dir = e /\ fr.left = Entries(e)
      <3>1. Entries(e) \subseteq Folders \cup Papers \cup Junk
          BY <1>2, EntriesTyped
      <3> QED
          BY <1>10, <3>1 DEF Frames, fr
    <2>2. /\ pushed \in Seq(Frames) /\ Len(pushed) = L + 1 /\ pushed[L + 1] = fr
          /\ \A i \in 1..L : pushed[i] = new[i]
        BY <1>4, <2>1 DEF Stacks
    <2> HIDE DEF pushed, L
    <2>3. /\ \A i \in 1..Len(pushed) : i = L + 1 \/ i \in 1..L
          /\ L < Len(pushed) /\ Len(pushed) > 0 /\ \A i \in 1..L : i < L => i + 1 \in 1..L /\ i < Len(pushed)
          /\ L + 1 # 1
        BY <1>4, <2>2
    <2>4. ClearFrames(pushed)
      <3> SUFFICES ASSUME NEW i \in 1..Len(pushed)
                   PROVE  /\ pushed[i].dir \in In(OutputRootDir)
                          /\ i = 1 => pushed[i].dir = OutputRootDir
                          /\ pushed[i].left \subseteq Folders \cup Papers \cup Junk
                          /\ \A x \in pushed[i].left \cap Folders : Above[x] = pushed[i].dir
          BY DEF ClearFrames
      <3>1. CASE i = L + 1
          BY <1>2, <1>4, <1>10, <2>1, <2>2, <2>3, <3>1, EntriesTyped
      <3>2. CASE i \in 1..L
          BY <1>4, <2>2, <3>2 DEF ClearFrames, L
      <3> QED
          BY <2>3, <3>1, <3>2
    <2>5. WalkIs("clear", "next", pushed, walk.rows, walk.from, walk.back)
        BY <1>6, <1>10 DEF WalkIs
    <2>6. walk'.pc = "next" /\ walk'.stack = pushed
        BY <2>5, WalkParts
    <2>7. ClearCovers'
      <3>1. ASSUME ~disturbed, refusals = 0, NEW i \in 1..Len(pushed), NEW x \in Entries(pushed[i].dir)
            PROVE  x \in pushed[i].left \/ (i < Len(pushed) /\ x = pushed[i + 1].dir)
        <4>1. CASE i = L + 1
            BY <2>1, <2>2, <3>1, <4>1
        <4>2. CASE i \in 1..L
          <5>1. x \in Entries(walk.stack[i].dir) /\ pushed[i] = new[i]
              BY <1>4, <2>2, <3>1, <4>2
          <5>2. x \in new[i].left \/ (i < L /\ x = new[i + 1].dir) \/ (i = L /\ x = e)
              BY <1>7, <3>1, <4>2, <5>1
          <5>3. i < L => pushed[i + 1] = new[i + 1] /\ i < Len(pushed)
              BY <2>2, <2>3, <4>2
          <5>4. i = L => pushed[i + 1].dir = e /\ i < Len(pushed)
              BY <2>1, <2>2, <2>3
          <5> QED
              BY <5>1, <5>2, <5>3, <5>4
        <4> QED
            BY <2>3, <4>1, <4>2
      <3> QED
          BY <1>1, <1>8, <1>10, <2>6, <3>1 DEF ClearCovers, Place
    <2>8. pushed \in Stacks /\ refusals' \in Nat
        BY <1>2, <1>10, <2>2 DEF Stacks
    <2> QED
        BY <1>1, <1>8, <1>9, <1>10, <2>3, <2>4, <2>5, <2>7, <2>8, ClearWalks
  <1>11. CASE walk' = after /\ UNCHANGED <<there, lies>> /\ refusals' = refusals + 1
    <2>1. WalkIs("clear", "next", new, walk.rows, walk.from, walk.back)
        BY <1>6, <1>11 DEF WalkIs
    <2>2. refusals' \in Nat /\ refusals' # 0
        BY <1>2, <1>11
    <2>3. ClearCovers'
        BY <2>2 DEF ClearCovers
    <2> QED
        BY <1>1, <1>4, <1>8, <1>9, <1>11, <2>1, <2>2, <2>3, ClearWalks
  <1>12. CASE e \notin Folders /\ lies[e] # Top.dir /\ walk' = after /\ UNCHANGED <<there, lies, refusals>>
    <2>1. WalkIs("clear", "next", new, walk.rows, walk.from, walk.back)
        BY <1>6, <1>12 DEF WalkIs
    <2>2. walk'.pc = "next" /\ walk'.stack = new
        BY <2>1, WalkParts
    <2>3. e \notin Entries(Top.dir)
        BY <1>2, <1>12, EntriesTyped
    <2> HIDE DEF L
    <2>4. ASSUME ~disturbed, refusals = 0, NEW i \in 1..L, NEW x \in Entries(new[i].dir)
          PROVE  x \in new[i].left \/ (i < L /\ x = new[i + 1].dir)
      <3>1. x \in Entries(walk.stack[i].dir)
          BY <1>4, <2>4
      <3> QED
          BY <1>4, <1>7, <2>3, <2>4, <3>1
    <2>5. ClearCovers'
        BY <1>1, <1>8, <1>12, <2>2, <2>4 DEF ClearCovers, Place, L
    <2>6. refusals' \in Nat
        BY <1>2, <1>12
    <2> QED
        BY <1>1, <1>4, <1>8, <1>9, <1>12, <2>1, <2>5, <2>6, ClearWalks DEF L
  <1>13. CASE /\ e \notin Folders /\ lies[e] = Top.dir /\ lies' = [lies EXCEPT ![e] = InputDir]
              /\ walk' = [after EXCEPT !.pc = "tidy", !.from = Top.dir, !.back = after.pc]
              /\ UNCHANGED <<there, refusals>>
    <2> DEFINE from == Top.dir
    <2> HIDE DEF from
    <2>1. WalkIs("clear", "tidy", new, walk.rows, from, "next")
        BY <1>6, <1>13 DEF WalkIs, from
    <2>2. walk'.pc = "tidy" /\ walk'.back = "next" /\ walk'.stack = new
        BY <2>1, WalkParts
    <2>3. e \in Papers \cup Junk
        BY <1>4, <1>13
    <2>4. /\ lies' \in [Papers \cup Junk -> Folders \cup {"nowhere", "deleted"}]
          /\ FoldersStand' /\ NothingDeleted'
          /\ \A d \in In(OutputRootDir) : Entries(d)' = Entries(d) \ {e}
        BY <1>1, <1>13, <2>3, WentBack
    <2> HIDE DEF L
    <2>5. ASSUME ~disturbed, refusals = 0, NEW i \in 1..L, NEW x \in Entries(new[i].dir)'
          PROVE  x \in new[i].left \/ (i < L /\ x = new[i + 1].dir)
      <3>1. new[i].dir \in In(OutputRootDir) /\ new[i].dir = walk.stack[i].dir
          BY <1>4, <2>5 DEF ClearFrames, L
      <3>2. Entries(new[i].dir)' = Entries(new[i].dir) \ {e}
          BY <2>4, <3>1
      <3>3. x \in Entries(walk.stack[i].dir) /\ x # e
          BY <2>5, <3>1, <3>2
      <3> QED
          BY <1>7, <2>5, <3>3
    <2>6. ClearCovers'
        BY <1>1, <1>13, <2>2, <2>5 DEF ClearCovers, Place, L
    <2>7. refusals' \in Nat /\ there' \subseteq Folders
        BY <1>2, <1>13
    <2>8. from \in In(OutputRootDir)
        BY <1>4 DEF from
    <2> QED
        BY <1>1, <1>4, <1>9, <1>13, <2>1, <2>4, <2>6, <2>7, <2>8, ClearWalks DEF L
  <1> QED
      BY <1>5, <1>10, <1>11, <1>12, <1>13

\* A folder that was walked through has nothing left in it.
LEMMA LeavesFolderStep ==
    ASSUME TidyInv, ClearLeavesFolder
    PROVE  TidyInv'
  <1> DEFINE old == walk.stack
             L == Len(old)
             top == Top.dir
  <1>1. walk.op = "clear" /\ walk.pc = "next" /\ Place = "next" /\ Top.left = {}
        /\ UNCHANGED <<mover, snatched, lies, refusals, disturbed>>
      BY DEF ClearLeavesFolder, Place, WalkOnly
  <1>2. /\ there \subseteq Folders /\ lies \in [Papers \cup Junk -> Folders \cup {"nowhere", "deleted"}]
        /\ FoldersStand /\ NothingDeleted /\ TidyTyped /\ refusals \in Nat /\ disturbed \in BOOLEAN
        /\ walk = [op |-> "clear", pc |-> walk.pc, stack |-> walk.stack, rows |-> walk.rows,
                   from |-> walk.from, back |-> walk.back]
      BY <1>1, ClearKnown
  <1>3. old \in Seq(Frames) /\ L > 0 /\ ClearFrames(old) /\ old \in Stacks
      BY <1>1, ClearKnown
  <1>4. Top = old[L] /\ L \in 1..L /\ L \in Nat
      BY <1>3, LastOf DEF Top
  <1>5. top \in In(OutputRootDir) /\ (L = 1 => top = OutputRootDir)
      BY <1>3, <1>4 DEF ClearFrames
  <1>6. ~disturbed /\ refusals = 0 => Entries(top) = {}
    <2> HIDE DEF L, top, old
    <2>1. ASSUME ~disturbed, refusals = 0, NEW e \in Entries(top) PROVE FALSE
      <3>1. e \in Top.left \/ (L < L /\ e = old[L + 1].dir)
          BY <1>1, <1>4, <2>1 DEF TidyInv, ClearCovers, L, top, old
      <3> QED
          BY <1>1, <1>4, <3>1
    <2> QED
        BY <2>1
  <1>7. disturbed' \in BOOLEAN /\ refusals' \in Nat /\ NothingDeleted'
        /\ lies' \in [Papers \cup Junk -> Folders \cup {"nowhere", "deleted"}]
      BY <1>1, <1>2 DEF NothingDeleted
  <1>8. CASE L > 1
    <2>1. PICK new : new = Front(old)
        OBVIOUS
    <2>2. there' = Without(top) /\ walk' = [walk EXCEPT !.stack = new]
        BY <1>8, <2>1 DEF ClearLeavesFolder
    <2>3. WalkIs("clear", "next", new, walk.rows, walk.from, walk.back)
        BY <1>1, <1>2, <2>2 DEF WalkIs
    <2>4. walk'.pc = "next" /\ walk'.stack = new
        BY <2>3, WalkParts
    <2>5. /\ new \in Seq(Frames) /\ Len(new) = L - 1
          /\ \A i \in 1..Len(new) : i \in 1..L /\ i # L /\ new[i] = old[i]
        BY <1>3, <2>1, Popped
    <2> HIDE DEF old, L, top
    <2>6. /\ Len(new) > 0 /\ \A i \in 1..Len(new) : i < L /\ (i < Len(new) => i + 1 \in 1..Len(new))
          /\ \A i \in 1..Len(new) : i = Len(new) => i + 1 = L
          /\ \A i \in 1..Len(new) : i < Len(new) \/ i = Len(new)
        BY <1>4, <1>8, <2>5
    <2>7. ClearFrames(new)
        BY <1>3, <2>5 DEF ClearFrames, L
    <2>8. ~(top \in Spared /\ Above[top] = InputDir)
      <3>1. top \in Folders /\ OutputRootDir \in Path[top]
          BY <1>5 DEF In
      <3>2. InputDir \notin Path[top]
          BY <3>1, TreesApart
      <3>3. Above[top] # "" => Above[top] \in Path[top]
          BY <3>1, PathSteps
      <3> QED
          BY <3>2, <3>3, TidyAssumption
    <2>9. FoldersStand' /\ there' \subseteq there
        BY <1>1, <1>2, <2>2, <2>8, FolderRemoved
    <2>10. ClearCovers'
      <3>1. ASSUME ~disturbed, refusals = 0, NEW i \in 1..Len(new), NEW e \in Entries(new[i].dir)'
            PROVE  e \in new[i].left \/ (i < Len(new) /\ e = new[i + 1].dir)
        <4>1. e \in Entries(new[i].dir)
            BY <1>1, <2>9, <3>1 DEF Entries, FilesIn, FoldersIn
        <4>2. e \in old[i].left \/ (i < L /\ e = old[i + 1].dir)
            BY <1>1, <2>5, <3>1, <4>1 DEF TidyInv, ClearCovers, L, old
        <4>3. e # top
          <5> SUFFICES ASSUME e = top PROVE FALSE
              OBVIOUS
          <5>1. top \in Folders /\ Entries(top) = {}
              BY <1>5, <1>6, <3>1 DEF In
          <5>2. top \notin there'
              BY <2>2, <5>1 DEF Without, Emptied
          <5>3. e \in FoldersIn(new[i].dir)'
              BY <3>1, <5>1, TidyAssumption DEF Entries, FilesIn
          <5> QED
              BY <5>2, <5>3 DEF FoldersIn
        <4>4. CASE i < Len(new)
            BY <2>5, <2>6, <4>2, <4>4
        <4>5. CASE i = Len(new)
          <5>1. i + 1 = L /\ old[i] = new[i]
              BY <2>5, <2>6, <4>5
          <5>2. old[i + 1].dir = top
              BY <1>4, <5>1 DEF top
          <5> QED
              BY <4>2, <4>3, <5>1, <5>2
        <4> QED
            BY <2>6, <4>4, <4>5
      <3> QED
          BY <1>1, <2>4, <3>1 DEF ClearCovers, Place
    <2>11. new \in Stacks /\ there' \subseteq Folders
        BY <1>2, <2>5, <2>9 DEF Stacks
    <2> QED
        BY <1>1, <1>7, <2>3, <2>6, <2>7, <2>9, <2>10, <2>11, ClearWalks
  <1>9. CASE ~(L > 1)
    <2>1. L = 1
      <3>1. ~(L > 1)
          BY <1>9
      <3> HIDE DEF L, old
      <3> QED
          BY <1>3, <1>4, <3>1
    <2>2. walk' = [walk EXCEPT !.pc = "ensure"] /\ there' = there
        BY <1>9 DEF ClearLeavesFolder
    <2>3. WalkIs("clear", "ensure", old, walk.rows, walk.from, walk.back)
        BY <1>2, <2>2 DEF WalkIs
    <2>4. walk'.pc = "ensure"
        BY <2>3, WalkParts
    <2>5. FoldersStand'
        BY <1>1, <1>2, <2>2 DEF FoldersStand, Managed
    <2>6. Entries(OutputRootDir)' = Entries(OutputRootDir)
        BY <1>1, <2>2 DEF Entries, FilesIn, FoldersIn
    <2>7. ClearCovers'
        BY <1>1, <1>5, <1>6, <2>1, <2>4, <2>6 DEF ClearCovers, Place
    <2> HIDE DEF old, L
    <2> QED
        BY <1>1, <1>2, <1>3, <1>7, <2>2, <2>3, <2>5, <2>7, ClearWalks
  <1> QED
      BY <1>8, <1>9

LEMMA EnsureStep ==
    ASSUME TidyInv, EnsureDirectories
    PROVE  TidyInv'
  <1>1. walk.op = "clear" /\ walk.pc = "ensure" /\ Place = "ensure"
        /\ UNCHANGED <<mover, snatched, lies, refusals, disturbed>>
      BY DEF EnsureDirectories, TidyInv, TidyTyped, WalkKnown, Place, WalkOnly
  <1>2. /\ there \subseteq Folders /\ lies \in [Papers \cup Junk -> Folders \cup {"nowhere", "deleted"}]
        /\ FoldersStand /\ NothingDeleted /\ refusals \in Nat /\ disturbed \in BOOLEAN
        /\ walk.stack \in Stacks /\ ClearFrames(walk.stack)
        /\ walk = [op |-> "clear", pc |-> walk.pc, stack |-> walk.stack, rows |-> walk.rows,
                   from |-> walk.from, back |-> walk.back]
      BY <1>1, ClearKnown
  <1>3. walk' = [walk EXCEPT !.pc = "cleared"] /\ there' = there \cup Managed
      BY DEF EnsureDirectories
  <1>4. WalkIs("clear", "cleared", walk.stack, walk.rows, walk.from, walk.back)
      BY <1>2, <1>3 DEF WalkIs
  <1>5. walk'.pc = "cleared"
      BY <1>4, WalkParts
  <1>6. Managed \subseteq Folders /\ \A d \in Managed : Path[d] \subseteq there \cup Managed
      BY ManagedStands
  <1>7. FoldersStand' /\ there' \subseteq Folders
      BY <1>1, <1>2, <1>3, <1>6, FoldersAdded
  <1>8. \A d \in Managed : Above[d] # OutputRootDir
      BY TidyAssumption DEF Managed
  <1>9. Entries(OutputRootDir)' = Entries(OutputRootDir) /\ OutputRootDir \in there'
      BY <1>1, <1>3, <1>8 DEF Entries, FilesIn, FoldersIn, Managed
  <1>10. ClearCovers'
      BY <1>1, <1>5, <1>9 DEF TidyInv, ClearCovers, Place
  <1>11. NothingDeleted' /\ refusals' \in Nat /\ disturbed' \in BOOLEAN
         /\ lies' \in [Papers \cup Junk -> Folders \cup {"nowhere", "deleted"}]
      BY <1>1, <1>2 DEF NothingDeleted
  <1> QED
      BY <1>1, <1>2, <1>4, <1>7, <1>10, <1>11, ClearWalks

LEMMA TidyStarts == TidyInit => TidyInv
  <1> SUFFICES ASSUME TidyInit PROVE TidyInv
      OBVIOUS
  <1>1. PICK bare \in {{}, {d \in Folders : Visible(d)}} :
          there = Managed \cup UNION {Path[d] : d \in bare \cup ({lies[f] : f \in Papers \cup Junk} \ {"nowhere"})}
      BY DEF TidyInit
  <1>2. lies \in [Papers \cup Junk -> {"nowhere"} \cup {d \in Folders : Visible(d)}]
        /\ mover = [m \in Requests |-> IdleMover] /\ walk = NoWalk /\ disturbed = FALSE /\ refusals = 0
      BY DEF TidyInit
  <1> DEFINE D == bare \cup ({lies[f] : f \in Papers \cup Junk} \ {"nowhere"})
  <1>3. D \subseteq Folders /\ \A f \in Papers \cup Junk : lies[f] # "nowhere" => lies[f] \in D
      BY <1>2
  <1>4. there = Managed \cup UNION {Path[d] : d \in D}
      BY <1>1
  <1> HIDE DEF D
  <1>5. there \subseteq Folders
      BY <1>3, <1>4, PathUp, ManagedStands
  <1>6. ASSUME NEW e \in there PROVE Path[e] \subseteq there
    <2>1. CASE e \in Managed
        BY <1>4, <2>1, ManagedStands
    <2>2. CASE e \notin Managed
      <3>1. PICK d \in D : e \in Path[d]
          BY <1>4, <1>6, <2>2
      <3>2. Path[e] \subseteq Path[d]
          BY <1>3, <3>1, PathWithin
      <3> QED
          BY <1>4, <3>2
    <2> QED
        BY <2>1, <2>2
  <1>7. ASSUME NEW f \in Papers \cup Junk, lies[f] \in Folders PROVE lies[f] \in there
    <2>1. lies[f] # "nowhere"
        BY <1>7, TidyAssumption
    <2>2. lies[f] \in D
        BY <1>3, <2>1
    <2>3. lies[f] \in Path[lies[f]]
        BY <1>7, PathUp
    <2> QED
        BY <1>4, <2>2, <2>3
  <1>8. FoldersStand
      BY <1>2, <1>4, <1>6, <1>7 DEF FoldersStand
  <1>9. MoversKnown
      BY <1>2 DEF MoversKnown, MoverForm, IdleMover
  <1>10. WalkKnown
    <2>1. <<>> \in Stacks
        BY DEF Stacks
    <2> QED
        BY <1>2, <2>1 DEF WalkKnown, NoWalk
  <1>11. TidyTyped
      BY <1>2, <1>5, <1>9, <1>10 DEF TidyTyped
  <1>12. NothingDeleted
    <2>1. "deleted" \notin Folders
        BY TidyAssumption
    <2> QED
        BY <1>2, <2>1 DEF NothingDeleted
  <1> QED
      BY <1>2, <1>8, <1>11, <1>12 DEF TidyInv, RemovesNone, CleanCovers, ClearCovers, NoWalk

\* A clean-up deletes no document but one that is dropped after its last look, and leaves
\* no empty folder; a clear leaves an empty __archive; what is needed stays.
THEOREM FoldersTidiedTheorem == TidySpec => []FoldersTidied
  <1>1. TidyInit => TidyInv
      BY TidyStarts
  <1>2. TidyInv /\ [TidyNext]_tidyVars => TidyInv'
    <2> SUFFICES ASSUME TidyInv, [TidyNext]_tidyVars PROVE TidyInv'
        OBVIOUS
    <2>1. CASE \E m \in Requests : BeginMoving(m) \/ MakeTarget(m) \/ MoveFile(m) \/ LeaveFolder(m)
        BY <2>1, BeginMovingStep, MakeTargetStep, MoveFileStep, LeaveFolderStep
    <2>2. CASE \E f \in Papers \cup Junk : UserDrops(f)
        BY <2>2, UserDropsStep
    <2>3. CASE StartClean \/ EnterSubfolder \/ LookAtFolder \/ RemoveFolder \/ RemovalFails
        BY <2>3, StartCleanStep, EnterStep, LookStep, RemoveStep, RemovalFailsStep
    <2>4. CASE StartClear \/ ClearRow \/ WalkLeaves \/ RowsCleared \/ ClearEntry \/ ClearLeavesFolder \/ EnsureDirectories
        BY <2>4, StartClearStep, ClearRowStep, WalkLeavesStep, RowsClearedStep, ClearEntryStep,
           LeavesFolderStep, EnsureStep
    <2>5. CASE EndClean \/ EndClear
      <3>1. walk' = NoWalk /\ UNCHANGED <<mover, there, lies, snatched, disturbed, refusals>>
          BY <2>5 DEF EndClean, EndClear, WalkOnly
      <3>2. refusals' \in Nat
          BY <3>1 DEF TidyInv, TidyTyped
      <3> QED
          BY <3>1, <3>2, EndStep
    <2>6. CASE UNCHANGED tidyVars
      <3>1. UNCHANGED <<there, lies, mover, walk, snatched, disturbed, refusals>>
          BY <2>6 DEF tidyVars
      <3>2. WalkKnown'
          BY <3>1 DEF TidyInv, TidyTyped, WalkKnown, Place, CleanFrames, ClearFrames
      <3>3. TidyTyped'
          BY <3>1, <3>2 DEF TidyInv, TidyTyped, MoversKnown
      <3>4. NothingDeleted' /\ FoldersStand' /\ RemovesNone'
          BY <3>1 DEF TidyInv, NothingDeleted, FoldersStand, RemovesNone, Managed, Top
      <3>5. CleanCovers'
          BY <3>1 DEF TidyInv, CleanCovers, Pending, OnlyJunk, Entries, FilesIn, FoldersIn
      <3>6. ClearCovers'
          BY <3>1 DEF TidyInv, ClearCovers, Place, Entries, FilesIn, FoldersIn
      <3> QED
          BY <3>3, <3>4, <3>5, <3>6 DEF TidyInv
    <2> QED
        BY <2>1, <2>2, <2>3, <2>4, <2>5, <2>6 DEF TidyNext
  <1>3. TidyInv => FoldersTidied
    <2> SUFFICES ASSUME TidyInv PROVE FoldersTidied
        OBVIOUS
    <2>1. CleanLeavesNone
      <3> SUFFICES ASSUME CleanIsDone, ~disturbed, NEW d \in Below(InputDir), Visible(d), OnlyJunk(d)
                   PROVE  FALSE
          BY DEF CleanLeavesNone, Below
      <3>1. walk.op = "clean" /\ Len(walk.stack) = 1 /\ Top.left = {} /\ walk.stack \in Seq(Frames)
          BY DEF CleanIsDone, TidyInv, TidyTyped, WalkKnown, Stacks
      <3>2. PICK i \in 1..Len(walk.stack) :
              (i > 1 /\ walk.stack[i].dir = d) \/ \E e \in walk.stack[i].left : e \in Path[d]
          BY <3>1 DEF TidyInv, CleanCovers, Pending
      <3>3. i = 1 /\ Top = walk.stack[1]
          BY <3>1, <3>2, LastOf DEF Top
      <3> QED
          BY <3>1, <3>2, <3>3
    <2>2. ClearLeavesRoot
      <3> SUFFICES ASSUME walk.pc = "cleared", ~disturbed, refusals = 0
                   PROVE  OutputRootDir \in there /\ Entries(OutputRootDir) = {}
          BY DEF ClearLeavesRoot
      <3>1. walk.op = "clear" /\ Place = "cleared"
          BY DEF TidyInv, TidyTyped, WalkKnown, Place
      <3> QED
          BY <3>1 DEF TidyInv, ClearCovers
    <2> QED
        BY <2>1, <2>2 DEF FoldersTidied, TidyInv
  <1> QED
      BY <1>1, <1>2, <1>3, PTL DEF TidySpec

\* What becomes of a document, at the three distances together: the three modules share
\* no variable, so that their conjunction allows every interleaving of their steps.
THEOREM DocumentsKeptTheorem == IntakeSpec /\ FilingSpec /\ TidySpec => []DocumentsKept
  <1>1. IntakeKept /\ FiledForGood /\ FoldersTidied => DocumentsKept
      BY DEF DocumentsKept
  <1> QED
      BY <1>1, IntakeKeptTheorem, FiledForGoodTheorem, FoldersTidiedTheorem, PTL
=============================================================================

---------------------------- MODULE DocOpsProofs ----------------------------
(***************************************************************************)
(* For every set of callers, documents, folders and names, and any number  *)
(* of faults: a document that no call is about, and whose calls did not    *)
(* overlap, has a row that names its file or neither a row nor a file in   *)
(* the archive.                                                            *)
(*                                                                         *)
(* The argument is about a call and a document it has had to itself since  *)
(* it began: nobody else moves that document's file or writes its row, so  *)
(* what the call has read is still so.                                     *)
(***************************************************************************)
EXTENDS DocOps, TLAPS

(* The row names the file of the document, in the folder of its category;   *)
(* or there is neither.                                                     *)
Right(d) ==
    /\ row[d] # NoRow
    /\ row[d].new \in Archive /\ disk[row[d].new] = d
    /\ Folder(row[d].new) = row[d].cat
Settled(d) == Right(d) \/ (row[d] = NoRow /\ ~Filed(d))

OneName == \A m, n \in Names : disk[m] = disk[n] /\ disk[m] # NoDoc => m = n

-----------------------------------------------------------------------------
(* Where a call can be, by its kind, and what it has in hand there *)

PlacesOf ==
    [none |-> {"idle"},
     scan |-> {"move", "update"},
     edit |-> {"edit", "stat", "move", "update"},
     reclassify |-> {"list", "move", "update", "purge"},
     delete |-> {"list", "trash", "purge"},
     rename |-> {"list", "move", "update"},
     repair |-> {"list", "purge", "files", "back", "recat", "move", "update"},
     clear |-> {"list", "back", "walk", "files"}]

(* A repair or a clear that walks over the archive. *)
Walking(c) == call[c].at = "files" \/ call[c].from # NoPath

Shape(c) ==
    /\ call[c].at \in PlacesOf[call[c].kind]
    /\ call[c].doc \in Docs <=> call[c].at \notin {"idle", "list", "walk", "files"}
    /\ call[c].at \in {"move", "trash", "back", "recat"} => call[c].path \in Names
    /\ call[c].at = "update" /\ call[c].path = NoPath => call[c].kind = "rename"
    /\ call[c].at \in {"list", "files", "walk"} =>
         call[c].from = NoPath /\ call[c].path = NoPath
    /\ call[c].from # NoPath =>
         call[c].kind \in {"repair", "clear"} /\ call[c].path \in Archive \cup {NoPath}
    /\ call[c].kind = "repair" /\ call[c].at \in {"back", "recat", "move", "update"}
         => call[c].from # NoPath
    /\ call[c].kind \in {"scan", "edit", "reclassify", "delete"} =>
         \A d, e \in Touches(c) : d = e
    /\ call[c].kind = "scan" => ToDo(c) = {}
    /\ call[c].at = "list" /\ call[c].kind \in {"reclassify", "delete"} => ToDo(c) # {}
    /\ call[c].kind = "edit" => call[c].seen[call[c].doc] # NoRow
    /\ call[c].kind \in {"scan", "edit", "rename"} => call[c].cat \in Folders
    /\ call[c].at \in {"update", "recat"} => call[c].cat \in Folders
    /\ Walking(c) \/ call[c].at = "walk" => ToDo(c) \subseteq {call[c].doc}
    /\ call[c].at = "idle" => call[c] = Idle

(* The document of a call that moves its file agrees with what was read.    *)
Agrees(c, d) ==
    IF call[c].kind = "repair" /\ call[c].seen[d] = NoRow
    THEN row[d] = NoRow
    ELSE /\ row[d] # NoRow
         /\ call[c].kind \in {"scan", "edit", "repair"} => row[d].cat = call[c].cat
         /\ call[c].kind \in {"edit", "repair"} =>
              call[c].seen[d] # NoRow /\ row[d].new = call[c].seen[d].new

InHand(c, d) ==
    /\ call[c].at \in {"edit", "recat"} => row[d] = call[c].seen[d] /\ row[d] # NoRow
    /\ call[c].at = "edit" => Right(d)
    /\ call[c].at = "stat" =>
         /\ Agrees(c, d)
         /\ row[d].new \in Archive /\ disk[row[d].new] = d
    /\ call[c].at \in {"move", "update"} => Agrees(c, d)
    /\ call[c].at \in {"move", "trash", "back", "recat", "update"} =>
         call[c].path \in Names /\ disk[call[c].path] = d
    /\ call[c].at = "update" => Folder(call[c].path) = call[c].cat
    /\ call[c].at = "purge" => ~Filed(d)

(* What is so of a document that a call has had to itself.  Clear leaves    *)
(* nothing as it was, and repair a document that was wrong before: of those *)
(* documents only the walk is known to miss none.                           *)
Owned(c, d) ==
    d \in alone[c] =>
      /\ d = call[c].doc /\ (call[c].from # NoPath \/ (d \notin dirty /\ call[c].kind # "clear"))
           => InHand(c, d)
      /\ d \in Touches(c) \ dirty /\ d # call[c].doc /\ call[c].kind # "clear"
           => Settled(d) /\ (d \in ToDo(c) => call[c].seen[d] = row[d])
      /\ Walking(c) /\ d # call[c].doc
           => /\ \A n \in Archive : disk[n] = d =>
                    n \in call[c].files \/ (call[c].kind = "repair" /\ Right(d))
              /\ call[c].path \in Names => disk[call[c].path] # d
      /\ call[c].kind = "clear" /\ (call[c].at = "walk" \/ Walking(c)) => row[d] = NoRow

Touched == UNION {Touches(c) : c \in Callers}

AllOwned   == \A c \in Callers, d \in Docs : Owned(c, d)
AllSettled == \A d \in Docs \ dirty : d \notin Touched => Settled(d)

(* A document that a call has to itself is nobody else's. *)
Exclusive ==
    \A c, e \in Callers : c # e => alone[c] \cap Touches(e) = {}

IInv == /\ TypeOK /\ OneName /\ \A c \in Callers : Shape(c)
        /\ Exclusive /\ AllOwned /\ AllSettled
-----------------------------------------------------------------------------
(* What the parts of a step do *)

(* The three ways a call goes on or ends, field by field. *)
LEMMA LeaveFields ==
    ASSUME TypeOK, NEW c \in Callers, Leave(c)
    PROVE  /\ call' \in [Callers -> Calls]
           /\ \A e \in Callers \ {c} : call'[e] = call[e]
           /\ call'[c].kind = call[c].kind /\ call'[c].cat = call[c].cat
           /\ call'[c].files = call[c].files
           /\ call'[c].at = IF call[c].from = NoPath THEN "list" ELSE "files"
           /\ call'[c].doc = NoDoc /\ call'[c].path = NoPath /\ call'[c].from = NoPath
           /\ \A d \in Docs : call'[c].seen[d] = IF d = call[c].doc THEN NoRow ELSE call[c].seen[d]
  <1> DEFINE k == call[c]
             new == [k EXCEPT !.at = IF k.from = NoPath THEN "list" ELSE "files",
                              !.seen = [d \in Docs |-> IF d = k.doc THEN NoRow ELSE k.seen[d]],
                              !.doc = NoDoc, !.path = NoPath, !.from = NoPath]
  <1>1. k \in Calls /\ call \in [Callers -> Calls]
      BY DEF TypeOK
  <1>2. new \in Calls
      BY <1>1 DEF Calls, Places
  <1>3. call' = [call EXCEPT ![c] = new]
      BY <1>1 DEF Leave
  <1>4. /\ new.kind = k.kind /\ new.cat = k.cat /\ new.files = k.files
        /\ new.at = IF k.from = NoPath THEN "list" ELSE "files"
        /\ new.doc = NoDoc /\ new.path = NoPath /\ new.from = NoPath
        /\ \A d \in Docs : new.seen[d] = IF d = k.doc THEN NoRow ELSE k.seen[d]
      BY <1>1 DEF Calls
  <1> HIDE DEF new
  <1> QED
      BY <1>1, <1>2, <1>3, <1>4

LEMMA IdleType == Idle \in Calls
  BY DEF Idle, Calls, Kinds, Places

LEMMA EndFields ==
    ASSUME TypeOK, NEW c \in Callers, NEW healed, NEW spoiled, End(c, healed, spoiled)
    PROVE  /\ call' \in [Callers -> Calls] /\ call'[c] = Idle
           /\ \A e \in Callers \ {c} : call'[e] = call[e]
           /\ alone' \in [Callers -> SUBSET Docs] /\ alone'[c] = {}
           /\ \A e \in Callers \ {c} : alone'[e] = alone[e]
           /\ lock' \in Callers \cup {Nobody} 
           /\ \A e \in Callers \ {c} : lock = e => lock' = e
  BY IdleType DEF TypeOK, End

LEMMA GotoFields ==
    ASSUME TypeOK, NEW c \in Callers, NEW place \in Places, Goto(c, place)
    PROVE  /\ call' \in [Callers -> Calls]
           /\ \A e \in Callers \ {c} : call'[e] = call[e]
           /\ call'[c] = [call[c] EXCEPT !.at = place]
  <1>1. call[c] \in Calls /\ call \in [Callers -> Calls]
      BY DEF TypeOK
  <1>2. [call[c] EXCEPT !.at = place] \in Calls
      BY <1>1 DEF Calls
  <1>3. call' = [call EXCEPT ![c] = [call[c] EXCEPT !.at = place]]
      BY DEF Goto
  <1> QED
      BY <1>1, <1>2, <1>3

-----------------------------------------------------------------------------
(* A step of a call under way, and why it keeps the invariant *)

Unmoved(d) == row'[d] = row[d] /\ \A n \in Names : disk'[n] = d <=> disk[n] = d
Kept(d)    == Unmoved(d) /\ (d \in dirty => d \in dirty')
Spoilt(d)  == d \in dirty' /\ \A e \in Callers : d \notin alone'[e]

Effect(c) ==
    /\ Shape(c)'
    /\ \A e \in Callers \ {c} : call'[e] = call[e]
    /\ \A e \in Callers : alone'[e] \subseteq alone[e]
    /\ Touches(c)' \subseteq Touches(c)
    /\ \A d \in Docs \ Touches(c) : Kept(d) \/ Spoilt(d)
    /\ \A d \in Touches(c) :
          Owned(c, d)' /\ (d \in Touches(c)' \/ d \in dirty' \/ Settled(d)')

(* Of which documents a call is about, by its place. *)
About(c) ==
    /\ Touches(c) \subseteq Docs
    /\ call[c].kind = "clear" \/ Walking(c) => Touches(c) = Docs
    /\ call[c].doc \in Docs => call[c].doc \in Touches(c)
    /\ ToDo(c) \subseteq Touches(c)
    /\ call[c].at = "idle" => Touches(c) = {}

Shapes   == \A c \in Callers : Shape(c)
AllAbout == \A c \in Callers : About(c)

LEMMA CallsAbout == TypeOK /\ Shapes => AllAbout
  <1> SUFFICES ASSUME TypeOK, NEW c \in Callers, Shape(c) PROVE About(c)
      BY DEF Shapes, AllAbout
  <1>1. /\ Touches(c) \subseteq Docs
        /\ call[c].doc \in Docs => call[c].doc \in Touches(c)
        /\ ToDo(c) \subseteq Touches(c)
      BY DEF Touches, ToDo
  <1>2. call[c].kind = "clear" \/ Walking(c) => call[c].kind \in {"clear", "repair"}
    <2>1. call[c].kind \in Kinds
        BY DEF TypeOK, Calls
    <2>2. call[c].at = "files" => call[c].kind \in {"clear", "repair"}
        BY <2>1 DEF Shape, PlacesOf, Kinds
    <2> QED
        BY <2>2 DEF Shape, Walking
  <1>3. call[c].at = "idle" => Touches(c) = {}
      BY NothingAssumption DEF Shape, Touches, ToDo, Idle
  <1> QED
      BY <1>1, <1>2, <1>3 DEF About, Touches

LEMMA CallsAboutNext ==
    ASSUME TypeOK', \A c \in Callers : Shape(c)'
    PROVE  \A c \in Callers : About(c)'
  <1>1. (TypeOK /\ Shapes)' => AllAbout'
      BY CallsAbout, PTL
  <1> QED
      BY <1>1 DEF Shapes, AllAbout

LEMMA SettledStays ==
    ASSUME NEW d \in Docs, Unmoved(d), TypeOK
    PROVE  Settled(d)' <=> Settled(d)
  <1>1. row'[d] = row[d] /\ \A n \in Names : disk'[n] = d <=> disk[n] = d
      BY DEF Unmoved
  <1>2. Archive \subseteq Names
      BY DEF Archive, Names
  <1>3. Filed(d)' <=> Filed(d)
      BY <1>1, <1>2 DEF Filed, Archive
  <1>4. Right(d)' <=> Right(d)
      BY <1>1, <1>2 DEF Right, Archive
  <1> QED
      BY <1>1, <1>3, <1>4 DEF Settled

(* What a call owns is not disturbed by the steps of others. *)
LEMMA OwnedStays ==
    ASSUME TypeOK, NEW e \in Callers, NEW d \in Docs, Owned(e, d), call'[e] = call[e],
           d \in alone'[e] => d \in alone[e], Kept(d)
    PROVE  Owned(e, d)'
  <1> SUFFICES ASSUME d \in alone[e] PROVE Owned(e, d)'
      BY DEF Owned
  <1>1. /\ row'[d] = row[d] /\ \A n \in Names : disk'[n] = d <=> disk[n] = d
        /\ d \in dirty => d \in dirty'
      BY DEF Kept, Unmoved
  <1>2. Archive \subseteq Names
      BY DEF Archive, Names
  <1>3. (Filed(d)' <=> Filed(d)) /\ (Right(d)' <=> Right(d)) /\ (Settled(d)' <=> Settled(d))
      BY <1>1, <1>2, SettledStays DEF Filed, Right, Archive, Kept
  <1>4. (Walking(e)' <=> Walking(e)) /\ Touches(e)' = Touches(e) /\ ToDo(e)' = ToDo(e)
      BY DEF Walking, Touches, ToDo
  <1>5. InHand(e, d) => InHand(e, d)'
      BY <1>1, <1>2, <1>3 DEF InHand, Agrees
  <1> QED
      BY <1>1, <1>2, <1>3, <1>4, <1>5 DEF Owned, Archive

LEMMA EffectKeeps ==
    ASSUME IInv, NEW c \in Callers, Effect(c), TypeOK', OneName'
    PROVE  IInv'
  <1>1. ASSUME NEW e \in Callers PROVE Shape(e)'
    <2>1. CASE e = c
        BY <2>1 DEF Effect
    <2>2. CASE e # c
        BY <2>2 DEF IInv, Effect, Shape, Touches, ToDo, Walking
    <2> QED
        BY <2>1, <2>2
  <1>2. \A e \in Callers \ {c} : Touches(e)' = Touches(e)
      BY DEF Effect, Touches, ToDo
  <1>3. Exclusive'
      BY <1>2 DEF IInv, Exclusive, Effect
  <1>4. ASSUME NEW e \in Callers, NEW d \in Docs PROVE Owned(e, d)'
    <2>1. CASE d \in Touches(c) /\ e = c
        BY <2>1 DEF Effect
    <2>2. CASE d \in Touches(c) /\ e # c
        BY <2>2 DEF IInv, Exclusive, Effect, Owned
    <2>3. CASE d \notin Touches(c) /\ e = c
      <3>1. d \notin Touches(c)'
          BY <2>3 DEF Effect
      <3>2. d # call'[c].doc /\ ~Walking(c)' /\ call'[c].kind # "clear"
        <4>1. About(c)'
            BY <1>1, CallsAboutNext
        <4> QED
            BY <2>3, <3>1, <4>1 DEF About, Walking
      <3> QED
          BY <2>3, <3>1, <3>2 DEF Owned
    <2>4. CASE d \notin Touches(c) /\ e # c
        BY <2>4, OwnedStays DEF IInv, AllOwned, Effect, Spoilt, Owned
    <2> QED
        BY <2>1, <2>2, <2>3, <2>4
  <1>5. ASSUME NEW d \in Docs \ dirty', d \notin Touched' PROVE Settled(d)'
    <2>1. d \notin Touches(c)'
        BY <1>5 DEF Touched
    <2>2. CASE d \in Touches(c)
        BY <1>5, <2>1, <2>2 DEF Effect
    <2>3. CASE d \notin Touches(c)
      <3>1. Kept(d)
          BY <1>5, <2>3 DEF Effect, Spoilt
      <3>2. d \notin Touched /\ d \notin dirty
          BY <1>2, <1>5, <2>3, <3>1 DEF Touched, Kept
      <3> QED
          BY <3>1, <3>2, SettledStays DEF IInv, AllSettled, Kept
    <2> QED
        BY <2>2, <2>3
  <1> QED
      BY <1>1, <1>3, <1>4, <1>5 DEF IInv, AllOwned, AllSettled

-----------------------------------------------------------------------------
(* The ways a call leaves a document, or ends *)

LEMMA EndEffect ==
    ASSUME IInv, NEW c \in Callers, NEW healed, NEW spoiled, End(c, healed, spoiled),
           \A d \in Docs \ Touches(c) : Unmoved(d),
           \A d \in Touches(c) : d \in dirty' \/ Settled(d)',
           healed \cap alone[c] \subseteq Touches(c)
    PROVE  Effect(c)
  <1>1. /\ call'[c] = Idle /\ alone'[c] = {}
        /\ \A e \in Callers \ {c} : call'[e] = call[e] /\ alone'[e] = alone[e]
      BY EndFields DEF IInv
  <1>2. ToDo(c)' = {} /\ Touches(c)' = {}
      BY <1>1, NothingAssumption DEF ToDo, Touches, Idle
  <1>3. Shape(c)'
      BY <1>1, <1>2, NothingAssumption DEF Shape, PlacesOf, Idle, Walking
  <1>4. \A d \in Docs \ Touches(c) : Kept(d)
      BY DEF End, Kept
  <1>5. \A d \in Docs : Owned(c, d)'
      BY <1>1 DEF Owned
  <1>6. Touches(c) \subseteq Docs
      BY CallsAbout DEF IInv, Shapes, AllAbout, About
  <1> QED
      BY <1>1, <1>2, <1>3, <1>4, <1>5, <1>6 DEF Effect

(* A document that was not in hand and is not now, and has not moved. *)
LEMMA OwnedWaits ==
    ASSUME IInv, NEW c \in Callers, NEW d \in Docs, Kept(d),
           d # call[c].doc, d # call'[c].doc, d \in alone'[c] => d \in alone[c],
           d \in Touches(c)' => d \in Touches(c),
           call'[c].kind = call[c].kind,
           d \in ToDo(c)' => call'[c].seen[d] = call[c].seen[d],
           Walking(c)' =>
             /\ Walking(c)
             /\ \A n \in call[c].files : disk'[n] = d => n \in call'[c].files
             /\ \/ call'[c].path \in {call[c].path, NoPath}
                \/ disk'[call'[c].path] # d,
           call'[c].at = "walk" => call[c].at = "walk"
    PROVE  Owned(c, d)'
  <1> SUFFICES ASSUME d \in alone'[c], d \in alone[c] PROVE Owned(c, d)'
      BY DEF Owned
  <1>1. /\ row'[d] = row[d] /\ \A n \in Names : disk'[n] = d <=> disk[n] = d
        /\ d \in dirty => d \in dirty'
      BY DEF Kept, Unmoved
  <1>2. Archive \subseteq Names
      BY DEF Archive, Names
  <1>3. (Filed(d)' <=> Filed(d)) /\ (Right(d)' <=> Right(d)) /\ (Settled(d)' <=> Settled(d))
      BY <1>1, <1>2, SettledStays DEF Filed, Right, Archive, Kept, IInv
  <1>4. d \in ToDo(c)' => d \in ToDo(c)
      BY DEF ToDo
  <1>5. Owned(c, d) /\ NoPath \notin Names
      BY NoneAssumption DEF IInv, AllOwned
  <1> QED
      BY <1>1, <1>2, <1>3, <1>4, <1>5 DEF Owned

LEMMA LeaveEffect ==
    ASSUME IInv, NEW c \in Callers, NEW x \in Docs, Leave(c), x = call[c].doc,
           call[c].kind \in {"rename", "repair", "clear"},
           \A e \in Callers : alone'[e] \subseteq alone[e], dirty \subseteq dirty',
           \A d \in Docs \ {x} :
              \/ Unmoved(d) \/ Spoilt(d)
              \/ call[c].kind = "clear" /\ (d \notin alone[c] \/ call[c].from = NoPath),
           x \in alone'[c]
             => \/ call[c].from = NoPath /\ (x \in dirty' \/ call[c].kind = "clear")
                \/ Settled(x)',
           x \notin alone'[c] => x \in dirty',
           call[c].kind = "clear" => row' = row
    PROVE  Effect(c)
  <1>1. /\ \A e \in Callers \ {c} : call'[e] = call[e]
        /\ call'[c].kind = call[c].kind /\ call'[c].cat = call[c].cat
        /\ call'[c].files = call[c].files
        /\ call'[c].at = IF call[c].from = NoPath THEN "list" ELSE "files"
        /\ call'[c].doc = NoDoc /\ call'[c].path = NoPath /\ call'[c].from = NoPath
        /\ \A d \in Docs : call'[c].seen[d] = IF d = x THEN NoRow ELSE call[c].seen[d]
      BY LeaveFields DEF IInv
  <1>2. Shape(c) /\ About(c)
      BY CallsAbout DEF IInv, Shapes, AllAbout
  <1>3. ToDo(c)' = ToDo(c) \ {x}
      BY <1>1 DEF ToDo
  <1>4. /\ Touches(c)' \subseteq Touches(c)
        /\ call[c].kind \in {"repair", "clear"} => Touches(c) = Docs /\ Touches(c)' = Docs
        /\ \A d \in Touches(c) : d # x => d \in Touches(c)'
      BY <1>1, <1>3, NothingAssumption DEF Touches
  <1>5. Shape(c)'
    <2>1. call'[c].at = "files" => call[c].kind \in {"repair", "clear"} /\ Walking(c)
        BY <1>1, <1>2 DEF Shape, Walking
    <2>2. call'[c].at \in PlacesOf[call'[c].kind]
        BY <1>1, <2>1 DEF PlacesOf
    <2>3. Walking(c)' \/ call'[c].at = "walk" => ToDo(c)' = {}
        BY <1>1, <1>2, <1>3, <2>1 DEF Shape, Walking
    <2> QED
        BY <1>1, <1>2, <2>2, <2>3, NothingAssumption, NoneAssumption DEF Shape
  <1>6. ASSUME NEW d \in Docs \ {x} PROVE Owned(c, d)'
    <2>1. CASE d \notin alone'[c]
        BY <2>1 DEF Owned
    <2>2. CASE call[c].kind = "clear" /\ call[c].from = NoPath
        BY <1>1, <2>2 DEF Owned, Walking
    <2>3. CASE d \in alone'[c] /\ ~(call[c].kind = "clear" /\ call[c].from = NoPath)
      <3>1. d \in alone[c] /\ ~Spoilt(d)
          BY <2>3 DEF Spoilt
      <3>2. Kept(d)
          BY <1>6, <2>3, <3>1 DEF Kept
      <3>3. Walking(c)' => Walking(c)
          BY <1>1, <1>2 DEF Walking, Shape
      <3> QED
          BY <1>1, <1>4, <1>6, <3>1, <3>2, <3>3, NothingAssumption, OwnedWaits
    <2> QED
        BY <2>1, <2>2, <2>3
  <1>7. Owned(c, x)'
    <2> SUFFICES ASSUME x \in alone'[c] PROVE Owned(c, x)'
        BY DEF Owned
    <2>1. x \notin ToDo(c)' /\ x # call'[c].doc /\ call'[c].path \notin Names
        BY <1>1, <1>3, NothingAssumption, NoneAssumption
    <2>2. x \notin dirty' /\ call[c].kind # "clear" => Settled(x)'
        OBVIOUS
    <2>3. Walking(c)' => Walking(c) /\ call[c].from # NoPath
        BY <1>1 DEF Walking
    <2>4. Walking(c) /\ call[c].kind = "clear" => row'[x] = NoRow
        BY DEF IInv, AllOwned, Owned
    <2>5. Walking(c)' => \A n \in Archive : disk'[n] = x => call[c].kind = "repair" /\ Right(x)'
      <3> SUFFICES ASSUME Walking(c)', NEW n \in Archive, disk'[n] = x
                   PROVE  call[c].kind = "repair" /\ Right(x)'
          OBVIOUS
      <3>1. Settled(x)'
          BY <2>3
      <3>2. Filed(x)'
          BY DEF Filed
      <3>3. Right(x)'
          BY <3>1, <3>2 DEF Settled
      <3>4. row'[x] # NoRow
          BY <3>3 DEF Right
      <3>5. call[c].kind \in {"repair", "clear"}
          BY <1>2, <2>3 DEF Shape
      <3> QED
          BY <2>3, <2>4, <3>3, <3>4, <3>5
    <2> QED
        BY <1>1, <2>1, <2>2, <2>3, <2>4, <2>5 DEF Owned
  <1>8. \A d \in Docs \ Touches(c) : Kept(d) \/ Spoilt(d)
      BY <1>2, <1>4 DEF Kept, About
  <1>9. ASSUME NEW d \in Touches(c)
        PROVE  d \in Touches(c)' \/ d \in dirty' \/ Settled(d)'
      BY <1>4
  <1> QED
      BY <1>1, <1>2, <1>4, <1>5, <1>6, <1>7, <1>8, <1>9 DEF Effect, About

LEMMA LeaveDoneEffect ==
    ASSUME IInv, NEW c \in Callers, NEW x \in Docs, LeaveDone(c), x = call[c].doc,
           \A d \in Docs \ {x} :
              \/ Unmoved(d)
              \/ call[c].kind = "clear" /\ (d \notin alone[c] \/ call[c].from = NoPath),
           x \in alone[c]
             => \/ call[c].from = NoPath /\ (x \in dirty \/ call[c].kind = "clear")
                \/ Settled(x)',
           call[c].kind = "clear" => row' = row
    PROVE  Effect(c)
  <1>1. Shape(c) /\ About(c) /\ call[c].kind \in Kinds
      BY CallsAbout DEF IInv, Shapes, AllAbout, TypeOK, Calls
  <1>2. CASE call[c].kind \in {"rename", "repair", "clear"}
    <2>1. /\ Leave(c) /\ alone' = alone
          /\ dirty' = dirty \cup ({x} \ alone[c])
        BY <1>2 DEF LeaveDone
    <2> QED
        BY <1>2, <2>1, LeaveEffect
  <1>3. CASE call[c].kind \notin {"rename", "repair", "clear"}
    <2>1. End(c, {}, {x} \ alone[c])
        BY <1>3 DEF LeaveDone
    <2>2. dirty' = dirty \cup ({x} \ alone[c])
        BY <2>1 DEF End
    <2>3. call[c].kind \in {"scan", "edit", "reclassify", "delete"}
        BY <1>1, <1>3 DEF Shape, PlacesOf, Kinds
    <2>4. Touches(c) = {x}
        BY <1>1, <2>3 DEF Shape, About
    <2>5. call[c].from = NoPath
        BY <1>1, <2>3 DEF Shape
    <2>6. x \in dirty' \/ Settled(x)'
        BY <1>3, <2>2, <2>5
    <2> QED
        BY <1>3, <2>1, <2>4, <2>6, EndEffect
  <1> QED
      BY <1>2, <1>3

(* A call that gives up leaves nothing it had in hand undirtied. *)
LEMMA GiveUpEffect ==
    ASSUME IInv, NEW c \in Callers, GiveUp(c), call[c] # Idle, UNCHANGED <<disk, row>>
    PROVE  Effect(c)
  <1>1. Shape(c) /\ About(c) /\ call[c].kind \in Kinds /\ call[c].doc \in Docs \cup {NoDoc}
      BY CallsAbout DEF IInv, Shapes, AllAbout, TypeOK, Calls
  <1>2. \A d \in Docs : Unmoved(d)
      BY DEF Unmoved
  <1>3. CASE call[c].from # NoPath \/ (call[c].kind = "clear" /\ At(c, "back"))
    <2>1. PICK x \in Docs : x = call[c].doc
        BY <1>1, <1>3 DEF Shape, At
    <2>2. PICK S : x \in S /\ Leave(c) /\ Spoil(S)
        BY <1>3, <2>1 DEF GiveUp
    <2>3. /\ \A e \in Callers : alone'[e] \subseteq alone[e] /\ x \notin alone'[e]
          /\ dirty \subseteq dirty' /\ x \in dirty'
        BY <2>2 DEF Spoil
    <2>4. call[c].kind \in {"rename", "repair", "clear"}
        BY <1>1, <1>3 DEF Shape
    <2> QED
        BY <1>2, <2>1, <2>2, <2>3, <2>4, LeaveEffect
  <1>4. CASE ~(call[c].from # NoPath \/ (call[c].kind = "clear" /\ At(c, "back")))
    <2>1. End(c, {}, Touches(c))
        BY <1>4 DEF GiveUp
    <2>2. Touches(c) \subseteq dirty'
        BY <2>1 DEF End
    <2> QED
        BY <1>2, <2>1, <2>2, EndEffect
  <1> QED
      BY <1>3, <1>4

LEMMA FailsEffect ==
    ASSUME IInv, NEW c \in Callers, Fails(c)
    PROVE  Effect(c)
  <1>1. \A d \in Docs : Unmoved(d)
      BY DEF Fails, Unmoved
  <1>2. CASE GiveUp(c)
      BY <1>2, GiveUpEffect DEF Fails
  <1>3. CASE End(c, {}, Touches(c))
    <2>1. Touches(c) \subseteq dirty'
        BY <1>3 DEF End
    <2> QED
        BY <1>1, <1>3, <2>1, EndEffect
  <1> QED
      BY <1>2, <1>3 DEF Fails

-----------------------------------------------------------------------------
(* Types *)

DataOK ==
    /\ disk \in [Names -> Docs \cup {NoDoc}]
    /\ gone \subseteq Docs
    /\ row \in [Docs -> Rows \cup {NoRow}]
    /\ faults \in 0 .. MaxFaults
ControlOK ==
    /\ lock \in Callers \cup {Nobody}
    /\ call \in [Callers -> Calls]
    /\ \A c \in Callers :
          /\ call[c].kind \in {"scan", "repair", "clear"} => lock = c
          /\ call[c].at = "move" => call[c].cat \in Folders
    /\ alone \in [Callers -> SUBSET Docs]
    /\ dirty \subseteq Docs

LEMMA TypeParts == TypeOK <=> DataOK /\ ControlOK
  BY DEF TypeOK, DataOK, ControlOK

LEMMA TypePartsNext == DataOK' /\ ControlOK' => TypeOK'
  BY DEF TypeOK, DataOK, ControlOK

LEMMA DataStays ==
    ASSUME TypeOK, UNCHANGED <<disk, gone, faults>>, row' \in [Docs -> Rows \cup {NoRow}]
    PROVE  DataOK'
  BY DEF TypeOK, DataOK

LEMMA LeaveTypes ==
    ASSUME TypeOK, NEW c \in Callers, Leave(c), lock' = lock,
           alone' \in [Callers -> SUBSET Docs], dirty' \subseteq Docs
    PROVE  ControlOK'
  <1>1. ControlOK
      BY TypeParts
  <1>2. /\ call' \in [Callers -> Calls] /\ call'[c].kind = call[c].kind
        /\ \A e \in Callers \ {c} : call'[e] = call[e]
        /\ call'[c].at # "move"
      BY LeaveFields
  <1> QED
      BY <1>1, <1>2 DEF ControlOK

LEMMA EndTypes ==
    ASSUME TypeOK, NEW c \in Callers, NEW healed, NEW spoiled \in SUBSET Docs,
           End(c, healed, spoiled)
    PROVE  ControlOK'
  <1>1. ControlOK
      BY TypeParts
  <1>2. Idle.kind = "none" /\ Idle.at = "idle"
      BY DEF Idle
  <1>3. dirty' \subseteq Docs
      BY <1>1 DEF End, ControlOK
  <1> QED
      BY <1>1, <1>2, <1>3, EndFields DEF ControlOK

LEMMA LeaveDoneTypes ==
    ASSUME TypeOK, NEW c \in Callers, LeaveDone(c)
    PROVE  ControlOK'
  <1>1. CASE call[c].kind \in {"rename", "repair", "clear"}
    <2>1. Leave(c) /\ UNCHANGED <<lock, alone>> /\ dirty' \subseteq Docs
        BY <1>1 DEF LeaveDone, TypeOK
    <2> QED
        BY <2>1, LeaveTypes DEF TypeOK
  <1>2. CASE call[c].kind \notin {"rename", "repair", "clear"}
    <2>1. PICK S \in SUBSET Docs : End(c, {}, S)
        BY <1>2 DEF LeaveDone
    <2> QED
        BY <2>1, EndTypes
  <1> QED
      BY <1>1, <1>2

LEMMA GiveUpTypes ==
    ASSUME TypeOK, NEW c \in Callers, Touches(c) \subseteq Docs, GiveUp(c)
    PROVE  ControlOK'
  <1>1. CASE call[c].from # NoPath \/ (call[c].kind = "clear" /\ At(c, "back"))
    <2>1. PICK S \in SUBSET Docs : Leave(c) /\ Spoil(S) /\ lock' = lock
        BY <1>1 DEF GiveUp
    <2>2. alone' \in [Callers -> SUBSET Docs] /\ dirty' \subseteq Docs
        BY <2>1 DEF Spoil, TypeOK
    <2> QED
        BY <2>1, <2>2, LeaveTypes
  <1>2. CASE ~(call[c].from # NoPath \/ (call[c].kind = "clear" /\ At(c, "back")))
    <2>1. End(c, {}, Touches(c))
        BY <1>2 DEF GiveUp
    <2> QED
        BY <2>1, EndTypes
  <1> QED
      BY <1>1, <1>2

(* A call that goes on. *)
LEMMA GoesOnTypes ==
    ASSUME TypeOK, NEW c \in Callers, NEW new \in Calls,
           call' = [call EXCEPT ![c] = new], lock' = lock,
           new.kind = call[c].kind, new.at = "move" => new.cat \in Folders,
           alone' \in [Callers -> SUBSET Docs], dirty' \subseteq Docs
    PROVE  ControlOK'
  BY TypeParts DEF ControlOK

-----------------------------------------------------------------------------
(* What the steps have in common *)

LEMMA CallFacts ==
    ASSUME IInv, NEW c \in Callers
    PROVE  /\ TypeOK /\ OneName
           /\ call[c] \in Calls /\ call \in [Callers -> Calls]
           /\ Shape(c) /\ About(c) /\ \A d \in Docs : Owned(c, d)
  BY CallsAbout DEF IInv, Shapes, AllAbout, AllOwned, TypeOK

(* A call that goes on, alone with what it was alone with. *)
LEMMA GoesOnTypesSame ==
    ASSUME IInv, NEW c \in Callers, NEW new \in Calls, call' = [call EXCEPT ![c] = new],
           new.kind = call[c].kind, new.at = "move" => new.cat \in Folders,
           UNCHANGED <<disk, gone, lock, alone, dirty, faults>>,
           row' \in [Docs -> Rows \cup {NoRow}]
    PROVE  TypeOK'
  <1>1. alone \in [Callers -> SUBSET Docs] /\ dirty \subseteq Docs
      BY CallFacts DEF TypeOK
  <1>2. ControlOK'
      BY <1>1, GoesOnTypes, CallFacts
  <1> QED
      BY <1>2, DataStays, TypePartsNext, CallFacts

(* Which kinds of calls a place belongs to. *)
LEMMA KindsAt ==
    ASSUME IInv, NEW c \in Callers
    PROVE  /\ call[c].at \in {"edit", "stat"} => call[c].kind = "edit"
           /\ call[c].at = "list" =>
                call[c].kind \in {"reclassify", "delete", "rename", "repair", "clear"}
           /\ call[c].at = "move" =>
                call[c].kind \in {"scan", "edit", "reclassify", "rename", "repair"}
           /\ call[c].at = "update" =>
                call[c].kind \in {"scan", "edit", "reclassify", "rename", "repair"}
           /\ call[c].at = "purge" => call[c].kind \in {"reclassify", "delete", "repair"}
           /\ call[c].at = "trash" => call[c].kind = "delete"
           /\ call[c].at \in {"files", "back"} => call[c].kind \in {"repair", "clear"}
           /\ call[c].at = "recat" => call[c].kind = "repair"
           /\ call[c].at = "walk" => call[c].kind = "clear"
  <1>1. call[c].kind \in Kinds /\ call[c].at \in PlacesOf[call[c].kind]
      BY CallFacts DEF Calls, Shape
  <1> QED
      BY <1>1 DEF Kinds, PlacesOf

(* A call that goes on with the documents it was about. *)
LEMMA GoesOnEffect ==
    ASSUME IInv, NEW c \in Callers, NEW new \in Calls, call' = [call EXCEPT ![c] = new],
           Shape(c)', Touches(c)' = Touches(c),
           \A e \in Callers : alone'[e] \subseteq alone[e],
           \A d \in Docs \ Touches(c) : Kept(d) \/ Spoilt(d),
           \A d \in Docs : Owned(c, d)'
    PROVE  Effect(c)
  <1>1. Touches(c) \subseteq Docs
      BY CallFacts DEF About
  <1> QED
      BY <1>1, CallFacts DEF Effect

LEMMA SameTouches ==
    ASSUME IInv, NEW c \in Callers, NEW new \in Calls, call' = [call EXCEPT ![c] = new],
           new.kind = call[c].kind, new.doc = call[c].doc, new.seen = call[c].seen
    PROVE  call'[c] = new /\ ToDo(c)' = ToDo(c) /\ Touches(c)' = Touches(c)
  BY CallFacts DEF ToDo, Touches

(* A call about one document. *)
LEMMA OneOwned ==
    ASSUME IInv, NEW c \in Callers, NEW x \in Docs, Touches(c)' = {x},
           call'[c].kind \in {"scan", "edit", "reclassify", "delete"}, Shape(c)',
           call'[c].doc = x, x \in alone'[c] /\ x \notin dirty' => InHand(c, x)'
    PROVE  \A d \in Docs : Owned(c, d)'
  <1>1. call'[c].from = NoPath /\ call'[c].at # "files"
      BY DEF Shape, PlacesOf
  <1> QED
      BY <1>1 DEF Owned, Walking

LEMMA SameDisk ==
    ASSUME IInv, disk' = disk
    PROVE  /\ OneName'
           /\ \A d \in Docs : row'[d] = row[d] => Unmoved(d)
  BY DEF IInv, OneName, Unmoved

(* The place where a row is looked for by FindActualFileOnDisk. *)
LEMMA FoundNames ==
    ASSUME TypeOK, NEW r \in Rows
    PROVE  Found(r) \subseteq Names
  BY DEF Found, Rows, Names, Archive, Base

(* A document that a call has had to itself is where the call has read it.  *)
LEMMA FoundAtOnce ==
    ASSUME IInv, NEW c \in Callers, NEW d \in ToDo(c), At(c, "list"),
           d \in alone[c], d \notin dirty, call[c].kind # "clear"
    PROVE  Right(d) /\ Found(call[c].seen[d]) = {row[d].new}
  <1>1. d \in Docs /\ call[c].seen[d] # NoRow
      BY DEF ToDo
  <1>2. call[c].doc \notin Docs /\ d \in Touches(c)
      BY <1>1, CallFacts DEF Shape, At, About
  <1>3. Settled(d) /\ call[c].seen[d] = row[d]
      BY <1>1, <1>2, CallFacts DEF Owned
  <1>4. Right(d)
      BY <1>1, <1>3 DEF Settled
  <1>5. row[d].new # NoPath
      BY <1>4, NoneAssumption DEF Right, Archive, Names
  <1> QED
      BY <1>1, <1>3, <1>4, <1>5, NothingAssumption DEF Right, Found

-----------------------------------------------------------------------------
(* The steps of edit *)

LEMMA EditRowStep ==
    ASSUME IInv, NEW c \in Callers, EditRow(c)
    PROVE  Effect(c) /\ TypeOK' /\ OneName'
  <1>1. PICK x \in Docs : x = call[c].doc
      BY CallFacts DEF EditRow, At, Shape
  <1>2. /\ call[c].kind = "edit" /\ call[c].at = "edit" /\ call[c].from = NoPath
        /\ Touches(c) = {x} /\ OneName'
      BY <1>1, CallFacts, KindsAt, SameDisk DEF EditRow, At, Shape, About
  <1>3. x \in alone[c] /\ x \notin dirty => row[x] = call[c].seen[x] /\ row[x] # NoRow /\ Right(x)
      BY <1>1, <1>2, CallFacts DEF Owned, InHand
  <1>4. CASE row[x] = NoRow
    <2>1. LeaveDone(c) /\ UNCHANGED <<disk, gone, row, faults>>
        BY <1>1, <1>4 DEF EditRow
    <2>2. \A d \in Docs : Unmoved(d)
        BY <2>1, SameDisk
    <2>3. Effect(c)
        BY <1>1, <1>2, <1>3, <1>4, <2>1, <2>2, LeaveDoneEffect
    <2>4. TypeOK'
        BY <2>1, LeaveDoneTypes, TypePartsNext, DataStays, CallFacts DEF TypeOK
    <2> QED
        BY <1>2, <2>3, <2>4
  <1>5. CASE row[x] # NoRow
    <2>1. /\ Goto(c, "stat") /\ UNCHANGED <<disk, gone, lock, alone, dirty, faults>>
          /\ \/ row' = [row EXCEPT ![x].cat = call[c].cat]
             \/ call[c].cat = call[c].seen[x].cat /\ row' = row
        BY <1>1, <1>5 DEF EditRow
    <2> DEFINE new == [call[c] EXCEPT !.at = "stat"]
    <2>2. /\ new \in Calls /\ call' = [call EXCEPT ![c] = new]
          /\ new.kind = "edit" /\ new.at = "stat" /\ new.doc = x /\ new.path = call[c].path
          /\ new.from = NoPath /\ new.cat = call[c].cat /\ new.seen = call[c].seen
        BY <1>1, <1>2, <2>1, CallFacts DEF Goto, Calls, Places
    <2> HIDE DEF new
    <2>3. /\ call'[c] = new
          /\ ToDo(c)' = ToDo(c) /\ Touches(c)' = Touches(c)
        BY <1>1, <1>2, <2>2, CallFacts DEF ToDo, Touches
    <2>4. Shape(c)'
        BY <1>1, <1>2, <2>2, <2>3, CallFacts DEF Shape, PlacesOf, Walking
    <2>5. row[x] \in Rows /\ call[c].cat \in Folders
        BY <1>2, <1>5, CallFacts DEF TypeOK, Shape
    <2>6. /\ row' \in [Docs -> Rows \cup {NoRow}] /\ row'[x] \in Rows
          /\ row'[x].new = row[x].new
          /\ row'[x].cat = call[c].cat \/ (row' = row /\ call[c].cat = call[c].seen[x].cat)
          /\ \A d \in Docs \ {x} : row'[d] = row[d]
        BY <2>1, <2>5, CallFacts DEF TypeOK, Rows
    <2>7. TypeOK'
        BY <1>2, <2>1, <2>2, <2>6, GoesOnTypesSame
    <2>8. Owned(c, x)'
      <3> SUFFICES ASSUME x \in alone[c], x \notin dirty PROVE Owned(c, x)'
          BY <1>1, <2>1, <2>2, <2>3 DEF Owned, Walking
      <3>1. row[x] = call[c].seen[x] /\ Right(x)
          BY <1>3
      <3>2. Agrees(c, x)'
          BY <1>5, <2>2, <2>3, <2>6, <3>1, NoneAssumption DEF Agrees
      <3>3. InHand(c, x)'
          BY <2>1, <2>2, <2>3, <2>6, <3>1, <3>2 DEF InHand, Right
      <3> QED
          BY <2>2, <2>3, <3>3 DEF Owned, Walking
    <2>9. \A d \in Docs : Owned(c, d)'
      <3> SUFFICES ASSUME NEW d \in Docs \ {x} PROVE Owned(c, d)'
          BY <2>8
      <3>1. d \notin Touches(c)'
          BY <1>2, <2>3
      <3> QED
          BY <2>2, <2>3, <3>1 DEF Owned, Walking
    <2>10. \A d \in Docs \ Touches(c) : Kept(d)
        BY <1>2, <2>1, <2>6, SameDisk DEF Kept
    <2> QED
        BY <1>2, <2>1, <2>2, <2>3, <2>4, <2>7, <2>9, <2>10, GoesOnEffect
  <1> QED
      BY <1>4, <1>5

LEMMA StatOldStep ==
    ASSUME IInv, NEW c \in Callers, StatOld(c)
    PROVE  Effect(c) /\ TypeOK' /\ OneName'
  <1>1. PICK x \in Docs : x = call[c].doc
      BY CallFacts DEF StatOld, At, Shape
  <1>2. /\ call[c].kind = "edit" /\ call[c].at = "stat" /\ call[c].from = NoPath
        /\ Touches(c) = {x} /\ OneName' /\ UNCHANGED <<disk, gone, row, faults>>
        /\ call[c].seen[x] # NoRow /\ call[c].cat \in Folders
      BY <1>1, CallFacts, KindsAt, SameDisk DEF StatOld, At, Shape, About
  <1>3. call[c].seen[x] \in Rows
      BY <1>2, CallFacts DEF Calls
  <1>4. x \in alone[c] /\ x \notin dirty =>
           Agrees(c, x) /\ row[x].new \in Archive /\ disk[row[x].new] = x
      BY <1>1, <1>2, CallFacts DEF Owned, InHand
  <1>5. \A d \in Docs : Kept(d) \/ dirty' # dirty
      BY <1>2, SameDisk DEF Kept
  <1> DEFINE old == call[c].seen[x].new
  <1>6. CASE old # NoPath /\ disk[old] # NoDoc
    <2>1. /\ call' = [call EXCEPT ![c].at = "move", ![c].path = old]
          /\ UNCHANGED <<lock, alone, dirty>>
        BY <1>1, <1>6 DEF StatOld
    <2>2. old \in Names
        BY <1>3, <1>6 DEF Rows
    <2> DEFINE new == [call[c] EXCEPT !.at = "move", !.path = old]
    <2>3. /\ new \in Calls /\ call' = [call EXCEPT ![c] = new]
          /\ new.kind = "edit" /\ new.at = "move" /\ new.doc = x /\ new.path = old
          /\ new.from = NoPath /\ new.cat = call[c].cat /\ new.seen = call[c].seen
        BY ZenonT(40), <1>1, <1>2, <2>1, <2>2, CallFacts DEF Calls, Places
    <2> HIDE DEF new
    <2>4. call'[c] = new /\ ToDo(c)' = ToDo(c) /\ Touches(c)' = Touches(c)
        BY <1>1, <1>2, <2>3, SameTouches
    <2>5. Shape(c)'
        BY <1>1, <1>2, <2>2, <2>3, <2>4, CallFacts DEF Shape, PlacesOf, Walking
    <2>6. x \in alone'[c] /\ x \notin dirty' => InHand(c, x)'
      <3> SUFFICES ASSUME x \in alone[c], x \notin dirty PROVE InHand(c, x)'
          BY <2>1
      <3>1. Agrees(c, x)' /\ row[x].new = old
          BY <1>2, <1>4, <2>3, <2>4 DEF Agrees
      <3> QED
          BY <1>2, <1>4, <2>2, <2>3, <2>4, <3>1 DEF InHand
    <2>7. \A d \in Docs : Owned(c, d)'
        BY <1>2, <2>3, <2>4, <2>5, <2>6, OneOwned
    <2>8. TypeOK'
      <3>1. row' \in [Docs -> Rows \cup {NoRow}]
          BY <1>2, CallFacts DEF TypeOK
      <3>2. new.kind = call[c].kind /\ new.cat \in Folders
          BY <1>2, <2>3
      <3>3. UNCHANGED <<disk, gone, lock, alone, dirty, faults>>
          BY <1>2, <2>1
      <3>4. new \in Calls /\ call' = [call EXCEPT ![c] = new]
          BY <2>3
      <3> QED
          BY <3>1, <3>2, <3>3, <3>4, GoesOnTypesSame
    <2> QED
        BY <1>2, <1>5, <2>1, <2>3, <2>4, <2>5, <2>7, <2>8, GoesOnEffect
  <1>7. CASE ~(old # NoPath /\ disk[old] # NoDoc)
    <2>1. LeaveDone(c)
        BY <1>1, <1>7 DEF StatOld
    <2>2. x \in alone[c] => x \in dirty
      <3> SUFFICES ASSUME x \in alone[c], x \notin dirty PROVE FALSE
          OBVIOUS
      <3>1. old \in Archive /\ disk[old] = x
          BY <1>2, <1>4 DEF Agrees
      <3> QED
          BY <1>7, <3>1, NothingAssumption, NoneAssumption DEF Archive, Names
    <2>3. Effect(c)
        BY <1>1, <1>2, <2>1, <2>2, SameDisk, LeaveDoneEffect
    <2>4. TypeOK'
        BY <1>2, <2>1, LeaveDoneTypes, TypePartsNext, DataStays, CallFacts DEF TypeOK
    <2> QED
        BY <1>2, <2>3, <2>4
  <1> QED
      BY <1>6, <1>7

LEMMA PurgeStep ==
    ASSUME IInv, NEW c \in Callers, Purge(c)
    PROVE  Effect(c) /\ TypeOK' /\ OneName'
  <1>1. PICK x \in Docs : x = call[c].doc
      BY CallFacts DEF Purge, At, Shape
  <1>2. /\ call[c].at = "purge" /\ call[c].kind # "clear" /\ OneName'
        /\ LeaveDone(c) /\ UNCHANGED <<disk, gone, faults>>
        /\ row' = [row EXCEPT ![x] = NoRow]
      BY <1>1, KindsAt, SameDisk DEF Purge, At
  <1>3. row' \in [Docs -> Rows \cup {NoRow}] /\ row'[x] = NoRow
      BY <1>2, CallFacts DEF TypeOK
  <1>4. \A d \in Docs \ {x} : Unmoved(d)
      BY <1>2, SameDisk, CallFacts DEF TypeOK
  <1>5. x \in alone[c] => (call[c].from = NoPath /\ x \in dirty) \/ Settled(x)'
    <2> SUFFICES ASSUME x \in alone[c], call[c].from # NoPath \/ x \notin dirty
                 PROVE  Settled(x)'
        OBVIOUS
    <2>1. ~Filed(x)
        BY <1>1, <1>2, CallFacts DEF Owned, InHand
    <2> QED
        BY <1>2, <1>3, <2>1 DEF Settled, Filed
  <1>6. Effect(c)
      BY <1>1, <1>2, <1>4, <1>5, LeaveDoneEffect
  <1>7. TypeOK'
      BY <1>2, <1>3, LeaveDoneTypes, TypePartsNext, DataStays, CallFacts
  <1> QED
      BY <1>2, <1>6, <1>7

-----------------------------------------------------------------------------
(* The steps over a list of rows *)

(* The file is found and taken in hand. *)
Takes(c, d, p, place, k) ==
    call' = [call EXCEPT ![c].at = place, ![c].doc = d, ![c].path = p, ![c].cat = k]
Passes(c, d) == call' = [call EXCEPT ![c].seen[d] = NoRow]

LEMMA FindFileCases ==
    ASSUME IInv, NEW c \in Callers, FindFile(c)
    PROVE  \E d \in ToDo(c) : \E p \in Found(call[c].seen[d]) :
             \/ call[c].kind = "reclassify" /\ \E k \in Folders : Takes(c, d, p, "move", k)
             \/ call[c].kind = "rename" /\ Takes(c, d, p, "move", call[c].cat)
             \/ call[c].kind = "delete" /\ Takes(c, d, p, "trash", Raws)
             \/ call[c].kind = "clear" /\ Takes(c, d, p, "back", Raws)
             \/ call[c].kind \in {"repair", "clear"} /\ Passes(c, d)
  <1>1. call[c].kind \in {"reclassify", "delete", "rename", "repair", "clear"}
      BY KindsAt DEF FindFile, At
  <1>2. PICK d \in ToDo(c) : \E p \in Found(call[c].seen[d]) :
          CASE call[c].kind = "reclassify" -> \E k \in Folders : Takes(c, d, p, "move", k)
            [] call[c].kind = "rename" -> Takes(c, d, p, "move", call[c].cat)
            [] call[c].kind = "delete" -> Takes(c, d, p, "trash", Raws)
            [] call[c].kind = "clear" /\ p \in Archive -> Takes(c, d, p, "back", Raws)
            [] OTHER -> Passes(c, d)
      BY DEF FindFile, Takes, Passes
  <1> QED
      BY <1>1, <1>2

LEMMA TakesStep ==
    ASSUME IInv, NEW c \in Callers, At(c, "list"), NEW d \in ToDo(c),
           NEW p \in Found(call[c].seen[d]), NEW place, NEW k \in Folders \cup {Raws},
           Takes(c, d, p, place, k),
           UNCHANGED <<disk, gone, row, lock, alone, dirty, faults>>,
           \/ place = "move" /\ call[c].kind \in {"reclassify", "rename"} /\ k \in Folders
           \/ place = "trash" /\ call[c].kind = "delete"
           \/ place = "back" /\ call[c].kind = "clear"
    PROVE  Effect(c) /\ TypeOK' /\ OneName'
  <1>1. d \in Docs /\ call[c].seen[d] \in Rows
      BY CallFacts DEF ToDo, Calls
  <1>2. p \in Names
      BY <1>1, FoundNames, CallFacts
  <1>3. /\ call[c].at = "list" /\ call[c].doc \notin Docs /\ call[c].from = NoPath
        /\ d \in Touches(c) /\ place \in Places
      BY <1>1, CallFacts DEF At, Shape, About, Places
  <1> DEFINE new == [call[c] EXCEPT !.at = place, !.doc = d, !.path = p, !.cat = k]
  <1>4. /\ new \in Calls /\ call' = [call EXCEPT ![c] = new]
        /\ new.kind = call[c].kind /\ new.at = place /\ new.doc = d /\ new.path = p
        /\ new.from = NoPath /\ new.cat = k /\ new.seen = call[c].seen
      BY <1>1, <1>2, <1>3, CallFacts DEF Calls, Takes
  <1> HIDE DEF new
  <1>5. call'[c] = new /\ ToDo(c)' = ToDo(c)
      BY <1>4, CallFacts DEF ToDo
  <1>6. Touches(c)' = Touches(c)
      BY <1>1, <1>3, <1>4, <1>5 DEF Touches
  <1>7. Shape(c)'
    <2>1. place \in PlacesOf[new.kind] /\ ~Walking(c)'
        BY <1>4, <1>5 DEF PlacesOf, Walking
    <2>2. \A x, y \in Touches(c)' :
             new.kind \in {"scan", "edit", "reclassify", "delete"} => x = y
        BY <1>4, <1>6, CallFacts DEF Shape
    <2> QED
        BY <1>1, <1>2, <1>3, <1>4, <1>5, <2>1, <2>2, NoneAssumption, CallFacts DEF Shape
  <1>8. OneName' /\ \A e \in Docs : Kept(e)
      BY SameDisk DEF Kept
  <1>9. Owned(c, d)'
    <2> SUFFICES ASSUME d \in alone[c], d \notin dirty, call[c].kind # "clear"
                 PROVE  InHand(c, d)'
        BY <1>3, <1>4, <1>5, <1>7 DEF Owned, Walking, Shape
    <2>1. Right(d) /\ p = row[d].new
        BY FoundAtOnce
    <2>2. disk'[p] = d /\ row'[d] # NoRow
        BY <2>1 DEF Right
    <2> QED
        BY <1>2, <1>4, <1>5, <2>2 DEF InHand, Agrees
  <1>10. ASSUME NEW e \in Docs \ {d} PROVE Owned(c, e)'
    <2>1. ~Walking(c)' /\ call'[c].at # "walk" /\ e # call'[c].doc /\ e # call[c].doc
        BY <1>3, <1>4, <1>5 DEF Walking
    <2> QED
        BY <1>4, <1>5, <1>6, <1>8, <2>1, OwnedWaits
  <1>11. TypeOK'
    <2>1. row' \in [Docs -> Rows \cup {NoRow}]
        BY CallFacts DEF TypeOK
    <2> QED
        BY <1>4, <2>1, GoesOnTypesSame
  <1> QED
      BY <1>4, <1>6, <1>7, <1>8, <1>9, <1>10, <1>11, GoesOnEffect

LEMMA PassesStep ==
    ASSUME IInv, NEW c \in Callers, At(c, "list"), NEW d \in ToDo(c), Passes(c, d),
           call[c].kind \in {"repair", "clear"},
           UNCHANGED <<disk, gone, row, lock, alone, dirty, faults>>
    PROVE  Effect(c) /\ TypeOK' /\ OneName'
  <1>1. /\ d \in Docs /\ call[c].at = "list" /\ call[c].doc \notin Docs
        /\ call[c].from = NoPath
      BY CallFacts DEF ToDo, At, Shape
  <1> DEFINE new == [call[c] EXCEPT !.seen = [@ EXCEPT ![d] = NoRow]]
  <1>2. /\ new \in Calls /\ call' = [call EXCEPT ![c] = new]
        /\ new.kind = call[c].kind /\ new.at = call[c].at /\ new.doc = call[c].doc
        /\ new.path = call[c].path /\ new.from = NoPath /\ new.cat = call[c].cat
        /\ new.files = call[c].files
        /\ \A e \in Docs : new.seen[e] = IF e = d THEN NoRow ELSE call[c].seen[e]
      BY <1>1, CallFacts DEF Calls, Passes
  <1> HIDE DEF new
  <1>3. call'[c] = new /\ ToDo(c)' = ToDo(c) \ {d}
      BY <1>1, <1>2, CallFacts DEF ToDo
  <1>4. Touches(c)' = Touches(c)
      BY <1>2, <1>3 DEF Touches
  <1>5. Shape(c)'
      BY <1>1, <1>2, <1>3, NoneAssumption, CallFacts DEF Shape, Walking
  <1>6. OneName' /\ \A e \in Docs : Kept(e)
      BY SameDisk DEF Kept
  <1>7. ASSUME NEW e \in Docs PROVE Owned(c, e)'
    <2>1. ~Walking(c)' /\ call'[c].at # "walk" /\ e # call'[c].doc /\ e # call[c].doc
        BY <1>1, <1>2, <1>3 DEF Walking
    <2> QED
        BY <1>2, <1>3, <1>4, <1>6, <2>1, OwnedWaits
  <1>8. TypeOK'
    <2>1. row' \in [Docs -> Rows \cup {NoRow}]
        BY CallFacts DEF TypeOK
    <2> QED
        BY <1>1, <1>2, <2>1, GoesOnTypesSame
  <1> QED
      BY <1>2, <1>4, <1>5, <1>6, <1>7, <1>8, GoesOnEffect

LEMMA FindFileStep ==
    ASSUME IInv, NEW c \in Callers, FindFile(c)
    PROVE  Effect(c) /\ TypeOK' /\ OneName'
  <1>1. At(c, "list") /\ UNCHANGED <<disk, gone, row, lock, alone, dirty, faults>>
      BY DEF FindFile
  <1>2. call[c].kind = "rename" => call[c].cat \in Folders
      BY CallFacts DEF Shape
  <1> QED
      BY <1>1, <1>2, FindFileCases, TakesStep, PassesStep

LEMMA FindNoneStep ==
    ASSUME IInv, NEW c \in Callers, FindNone(c)
    PROVE  Effect(c) /\ TypeOK' /\ OneName'
  <1>1. At(c, "list") /\ UNCHANGED <<disk, gone, row, lock, alone, dirty, faults>>
      BY DEF FindNone
  <1>2. PICK d \in ToDo(c) :
          /\ Found(call[c].seen[d]) = {}
          /\ call' = IF call[c].kind = "clear"
                     THEN [call EXCEPT ![c].seen[d] = NoRow]
                     ELSE [call EXCEPT ![c].doc = d,
                                       ![c].at = IF call[c].kind = "rename" THEN "update" ELSE "purge"]
      BY DEF FindNone, ToDo
  <1>3. CASE call[c].kind = "clear"
      BY <1>1, <1>2, <1>3, PassesStep DEF Passes
  <1>4. CASE call[c].kind # "clear"
    <2> DEFINE place == IF call[c].kind = "rename" THEN "update" ELSE "purge"
               new == [call[c] EXCEPT !.doc = d, !.at = place]
    <2>1. d \in Docs /\ place \in Places
        BY DEF ToDo, Places
    <2>2. /\ call[c].at = "list" /\ call[c].doc \notin Docs /\ call[c].from = NoPath
          /\ call[c].kind \in {"reclassify", "delete", "rename", "repair"}
          /\ d \in Touches(c)
        BY <1>1, <1>4, <2>1, KindsAt, CallFacts DEF At, Shape, About
    <2>3. /\ new \in Calls /\ call' = [call EXCEPT ![c] = new]
          /\ new.kind = call[c].kind /\ new.at = place /\ new.doc = d
          /\ new.path = call[c].path /\ new.from = NoPath /\ new.cat = call[c].cat
          /\ new.seen = call[c].seen
        BY <1>2, <1>4, <2>1, <2>2, CallFacts DEF Calls
    <2> HIDE DEF new
    <2>4. call'[c] = new /\ ToDo(c)' = ToDo(c)
        BY <2>3, CallFacts DEF ToDo
    <2>5. Touches(c)' = Touches(c)
        BY <2>1, <2>2, <2>3, <2>4 DEF Touches
    <2>6. Shape(c)'
      <3>1. place \in PlacesOf[new.kind] /\ ~Walking(c)'
          BY <2>2, <2>3, <2>4 DEF PlacesOf, Walking
      <3>2. \A x, y \in Touches(c)' :
               new.kind \in {"scan", "edit", "reclassify", "delete"} => x = y
          BY <2>3, <2>5, CallFacts DEF Shape
      <3>3. place \in {"update", "purge"} /\ (place = "update" => call[c].kind = "rename")
          OBVIOUS
      <3> HIDE DEF place
      <3> QED
          BY <2>1, <2>2, <2>3, <2>4, <3>1, <3>2, <3>3, NoneAssumption, CallFacts DEF Shape
    <2>7. OneName' /\ \A e \in Docs : Kept(e)
        BY <1>1, SameDisk DEF Kept
    <2>8. d \in alone[c] => d \in dirty
        BY <1>1, <1>2, <1>4, FoundAtOnce
    <2>9. Owned(c, d)'
        BY <1>1, <2>3, <2>4, <2>8 DEF Owned, Walking
    <2>10. ASSUME NEW e \in Docs \ {d} PROVE Owned(c, e)'
      <3>1. ~Walking(c)' /\ call'[c].at # "walk" /\ e # call'[c].doc /\ e # call[c].doc
          BY <2>2, <2>3, <2>4 DEF Walking
      <3> QED
          BY <1>1, <2>3, <2>4, <2>5, <2>7, <3>1, OwnedWaits
    <2>11. TypeOK'
      <3>1. row' \in [Docs -> Rows \cup {NoRow}]
          BY <1>1, CallFacts DEF TypeOK
      <3> QED
          BY <1>1, <2>3, <3>1, GoesOnTypesSame
    <2> QED
        BY <1>1, <2>3, <2>5, <2>6, <2>7, <2>9, <2>10, <2>11, GoesOnEffect
  <1> QED
      BY <1>3, <1>4

LEMMA SameFiles ==
    ASSUME IInv, NEW c \in Callers, At(c, "files") \/ At(c, "walk") \/ At(c, "list")
    PROVE  /\ call[c].doc \notin Docs /\ call[c].from = NoPath /\ call[c].path = NoPath
           /\ call[c].kind \in {"repair", "clear"} => Touches(c) = Docs
  BY CallFacts DEF At, Shape, Touches

(* The walk begins with every file that is in the archive. *)
LEMMA WalkEffect ==
    ASSUME IInv, NEW c \in Callers, At(c, "list") \/ At(c, "walk"), ToDo(c) = {},
           call[c].kind \in {"repair", "clear"}, call[c].kind = "clear" => At(c, "walk"),
           WalkArchive(c), UNCHANGED <<disk, gone, row, lock, alone, dirty, faults>>
    PROVE  Effect(c) /\ TypeOK' /\ OneName'
  <1> DEFINE files == {n \in Archive : disk[n] # NoDoc}
             new == [call[c] EXCEPT !.at = "files", !.files = files]
  <1>1. /\ new \in Calls /\ call' = [call EXCEPT ![c] = new]
        /\ new.kind = call[c].kind /\ new.at = "files" /\ new.doc = call[c].doc
        /\ new.path = call[c].path /\ new.from = call[c].from /\ new.cat = call[c].cat
        /\ new.seen = call[c].seen /\ new.files = files
      BY CallFacts DEF Calls, WalkArchive, Places
  <1> HIDE DEF new
  <1>2. call'[c] = new /\ ToDo(c)' = {} /\ Touches(c)' = Touches(c)
      BY <1>1, SameTouches
  <1>3. /\ call[c].doc \notin Docs /\ call[c].from = NoPath /\ call[c].path = NoPath
        /\ Touches(c) = Docs
      BY SameFiles
  <1>4. Shape(c)'
      BY <1>1, <1>2, <1>3, NoneAssumption, CallFacts DEF Shape, PlacesOf
  <1>5. OneName' /\ \A e \in Docs : Kept(e)
      BY SameDisk DEF Kept
  <1>6. ASSUME NEW d \in Docs PROVE Owned(c, d)'
    <2> SUFFICES ASSUME d \in alone[c] PROVE Owned(c, d)'
        BY DEF Owned
    <2>1. d \notin dirty /\ call[c].kind # "clear" => Settled(d)'
        BY <1>3, <1>5, SettledStays, CallFacts DEF Owned, Kept
    <2>2. \A n \in Archive : disk'[n] = d => n \in new.files
        BY <1>1, NothingAssumption
    <2>3. call[c].kind = "clear" => row'[d] = NoRow
        BY CallFacts DEF Owned, At
    <2> QED
        BY <1>1, <1>2, <1>3, <2>1, <2>2, <2>3, NoneAssumption DEF Owned
  <1>7. TypeOK'
    <2>1. row' \in [Docs -> Rows \cup {NoRow}]
        BY CallFacts DEF TypeOK
    <2> QED
        BY <1>1, <2>1, GoesOnTypesSame
  <1> QED
      BY <1>1, <1>2, <1>4, <1>5, <1>6, <1>7, GoesOnEffect

LEMMA WalkStep ==
    ASSUME IInv, NEW c \in Callers, Walk(c)
    PROVE  Effect(c) /\ TypeOK' /\ OneName'
  <1>1. /\ At(c, "walk") /\ WalkArchive(c) /\ call[c].kind = "clear"
        /\ UNCHANGED <<disk, gone, row, lock, alone, dirty, faults>>
      BY KindsAt DEF Walk, At
  <1>2. ToDo(c) = {}
      BY <1>1, SameFiles, CallFacts DEF Shape, At, ToDo
  <1> QED
      BY <1>1, <1>2, WalkEffect

LEMMA PurgesAll ==
    ASSUME IInv, NEW c \in Callers, At(c, "list"), ToDo(c) = {}, call[c].kind = "clear",
           row' = [d \in Docs |-> NoRow], Goto(c, "walk"),
           UNCHANGED <<disk, gone, lock, alone, dirty, faults>>
    PROVE  Effect(c) /\ TypeOK' /\ OneName'
  <1> DEFINE new == [call[c] EXCEPT !.at = "walk"]
  <1>1. /\ new \in Calls /\ call' = [call EXCEPT ![c] = new]
        /\ new.kind = "clear" /\ new.at = "walk" /\ new.doc = call[c].doc
        /\ new.path = call[c].path /\ new.from = call[c].from /\ new.cat = call[c].cat
        /\ new.seen = call[c].seen /\ new.files = call[c].files
      BY CallFacts DEF Calls, Goto, Places
  <1> HIDE DEF new
  <1>2. call'[c] = new /\ ToDo(c)' = {} /\ Touches(c)' = Touches(c)
      BY <1>1, SameTouches
  <1>3. /\ call[c].doc \notin Docs /\ call[c].from = NoPath /\ call[c].path = NoPath
        /\ Touches(c) = Docs
      BY SameFiles
  <1>4. Shape(c)'
      BY <1>1, <1>2, <1>3, NoneAssumption, CallFacts DEF Shape, PlacesOf, Walking
  <1>5. ASSUME NEW d \in Docs PROVE Owned(c, d)'
      BY <1>1, <1>2, <1>3 DEF Owned, Walking
  <1>6. TypeOK'
    <2>1. row' \in [Docs -> Rows \cup {NoRow}]
        OBVIOUS
    <2> QED
        BY <1>1, <2>1, GoesOnTypesSame
  <1> QED
      BY <1>1, <1>2, <1>3, <1>4, <1>5, <1>6, SameDisk, GoesOnEffect

LEMMA ListEndsStep ==
    ASSUME IInv, NEW c \in Callers, ListEnds(c)
    PROVE  Effect(c) /\ TypeOK' /\ OneName'
  <1>1. At(c, "list") /\ ToDo(c) = {} /\ UNCHANGED <<disk, gone, faults>>
      BY DEF ListEnds
  <1>2. call[c].kind \in {"reclassify", "delete", "rename", "repair", "clear"}
      BY <1>1, KindsAt DEF At
  <1>3. call[c].kind \notin {"reclassify", "delete"}
      BY <1>1, CallFacts DEF Shape, At
  <1>4. \/ call[c].kind = "rename" /\ End(c, {}, {}) /\ row' = row
        \/ call[c].kind = "repair" /\ WalkArchive(c) /\ UNCHANGED <<row, lock, alone, dirty>>
        \/ /\ call[c].kind = "clear" /\ row' = [d \in Docs |-> NoRow]
           /\ Goto(c, "walk") /\ UNCHANGED <<lock, alone, dirty>>
      BY <1>2, <1>3 DEF ListEnds
  <1>5. CASE call[c].kind = "rename" /\ End(c, {}, {}) /\ row' = row
    <2>1. Touches(c) = {}
        BY <1>1, <1>5, SameFiles DEF Touches
    <2>2. Effect(c)
        BY <1>1, <1>5, <2>1, SameDisk, EndEffect
    <2>3. TypeOK'
      <3>1. ControlOK' /\ row' \in [Docs -> Rows \cup {NoRow}]
          BY <1>5, EndTypes, CallFacts DEF TypeOK
      <3> QED
          BY <1>1, <3>1, DataStays, TypePartsNext, CallFacts
    <2> QED
        BY <1>1, <2>2, <2>3, SameDisk
  <1>6. CASE call[c].kind = "repair" /\ WalkArchive(c) /\ UNCHANGED <<row, lock, alone, dirty>>
      BY <1>1, <1>6, WalkEffect
  <1>7. CASE /\ call[c].kind = "clear" /\ row' = [d \in Docs |-> NoRow]
             /\ Goto(c, "walk") /\ UNCHANGED <<lock, alone, dirty>>
      BY <1>1, <1>7, PurgesAll
  <1> QED
      BY <1>4, <1>5, <1>6, <1>7

-----------------------------------------------------------------------------
(* The steps of the walk over the archive *)

LEMMA RecatStep ==
    ASSUME IInv, NEW c \in Callers, Recat(c)
    PROVE  Effect(c) /\ TypeOK' /\ OneName'
  <1>1. PICK x \in Docs : x = call[c].doc
      BY CallFacts DEF Recat, At, Shape
  <1>2. /\ call[c].at = "recat" /\ call[c].kind = "repair" /\ call[c].from # NoPath
        /\ call[c].cat \in Folders /\ Touches(c) = Docs
        /\ Goto(c, "move") /\ UNCHANGED <<disk, gone, lock, alone, dirty, faults>>
        /\ row' = [row EXCEPT ![x] = IF @ = NoRow THEN NoRow ELSE [@ EXCEPT !.cat = call[c].cat]]
      BY <1>1, KindsAt, CallFacts DEF Recat, At, Shape, Touches
  <1>3. /\ row' \in [Docs -> Rows \cup {NoRow}]
        /\ row[x] # NoRow =>
              row'[x] \in Rows /\ row'[x].cat = call[c].cat /\ row'[x].new = row[x].new
        /\ \A d \in Docs \ {x} : row'[d] = row[d]
    <2>1. row \in [Docs -> Rows \cup {NoRow}] /\ row[x] \in Rows \cup {NoRow}
        BY CallFacts DEF TypeOK
    <2>2. row[x] # NoRow => [row[x] EXCEPT !.cat = call[c].cat] \in Rows
        BY <1>2, <2>1 DEF Rows
    <2> QED
        BY <1>2, <2>1, <2>2 DEF Rows
  <1> DEFINE new == [call[c] EXCEPT !.at = "move"]
  <1>4. /\ new \in Calls /\ call' = [call EXCEPT ![c] = new]
        /\ new.kind = "repair" /\ new.at = "move" /\ new.doc = x /\ new.path = call[c].path
        /\ new.from = call[c].from /\ new.cat = call[c].cat /\ new.seen = call[c].seen
        /\ new.files = call[c].files
      BY <1>1, <1>2, CallFacts DEF Goto, Calls, Places
  <1> HIDE DEF new
  <1>5. call'[c] = new /\ ToDo(c)' = ToDo(c) /\ Touches(c)' = Touches(c)
      BY <1>1, <1>2, <1>4, SameTouches
  <1>6. Shape(c)'
      BY <1>1, <1>2, <1>4, <1>5, CallFacts DEF Shape, PlacesOf, Walking
  <1>7. Owned(c, x)'
    <2> SUFFICES ASSUME x \in alone[c] PROVE InHand(c, x)'
        BY <1>2, <1>4, <1>5 DEF Owned
    <2>1. /\ row[x] = call[c].seen[x] /\ row[x] # NoRow
          /\ call[c].path \in Names /\ disk[call[c].path] = x
        BY <1>1, <1>2, CallFacts DEF Owned, InHand
    <2>2. Agrees(c, x)'
        BY <1>3, <1>4, <1>5, <2>1, NoneAssumption DEF Agrees
    <2> QED
        BY <1>2, <1>4, <1>5, <2>1, <2>2 DEF InHand
  <1>8. ASSUME NEW d \in Docs \ {x} PROVE Owned(c, d)'
    <2>1. Kept(d) /\ Walking(c)
        BY <1>2, <1>3, SameDisk DEF Kept, Walking
    <2> QED
        BY <1>1, <1>2, <1>4, <1>5, <2>1, OwnedWaits
  <1>9. TypeOK'
      BY <1>2, <1>3, <1>4, GoesOnTypesSame
  <1> QED
      BY <1>2, <1>4, <1>5, <1>6, <1>7, <1>8, <1>9, SameDisk, GoesOnEffect

(* A name that has no file any more is passed over. *)
LEMMA SkipsName ==
    ASSUME IInv, NEW c \in Callers, At(c, "files"), NEW n \in call[c].files, disk[n] = NoDoc,
           call' = [call EXCEPT ![c] = [call[c] EXCEPT !.files = @ \ {n}]],
           UNCHANGED <<disk, gone, row, lock, alone, dirty, faults>>
    PROVE  Effect(c) /\ TypeOK' /\ OneName'
  <1> DEFINE new == [call[c] EXCEPT !.files = @ \ {n}]
  <1>1. /\ new \in Calls /\ call' = [call EXCEPT ![c] = new]
        /\ new.kind = call[c].kind /\ new.at = "files" /\ new.doc = call[c].doc
        /\ new.path = call[c].path /\ new.from = call[c].from /\ new.cat = call[c].cat
        /\ new.seen = call[c].seen /\ new.files = call[c].files \ {n}
      BY CallFacts DEF Calls, At
  <1> HIDE DEF new
  <1>2. call'[c] = new /\ ToDo(c)' = ToDo(c) /\ Touches(c)' = Touches(c)
      BY <1>1, SameTouches
  <1>3. /\ call[c].doc \notin Docs /\ call[c].from = NoPath /\ call[c].path = NoPath
        /\ call[c].at = "files" /\ Walking(c)
      BY SameFiles DEF At, Walking
  <1>4. Shape(c)'
      BY <1>1, <1>2, <1>3, NoneAssumption, CallFacts DEF Shape, PlacesOf, Walking
  <1>5. OneName' /\ \A e \in Docs : Kept(e)
      BY SameDisk DEF Kept
  <1>6. ASSUME NEW d \in Docs PROVE Owned(c, d)'
    <2>1. \A m \in call[c].files : disk'[m] = d => m \in new.files
        BY <1>1, NothingAssumption
    <2> QED
        BY <1>1, <1>2, <1>3, <1>5, <2>1, OwnedWaits
  <1>7. TypeOK'
    <2>1. row' \in [Docs -> Rows \cup {NoRow}]
        BY CallFacts DEF TypeOK
    <2> QED
        BY <1>1, <2>1, GoesOnTypesSame
  <1> QED
      BY <1>1, <1>2, <1>4, <1>5, <1>6, <1>7, GoesOnEffect

(* A file is taken in hand, with the row of its document. *)
WithFile(c, n, place, k) ==
    LET rest == [call[c] EXCEPT !.files = @ \ {n}]
        d    == disk[n]
    IN  [rest EXCEPT !.at = place, !.doc = d, !.path = n, !.from = n, !.cat = k,
                     !.seen[d] = row[d]]
TakesFile(c, n, place, k) == call' = [call EXCEPT ![c] = WithFile(c, n, place, k)]

LEMMA TakesFileStep ==
    ASSUME IInv, NEW c \in Callers, At(c, "files"), NEW n \in call[c].files, disk[n] # NoDoc,
           NEW place, NEW k \in Folders \cup {Raws}, TakesFile(c, n, place, k),
           \/ place = "back"
           \/ /\ call[c].kind = "repair" /\ k \in Folders
              /\ place = IF row[disk[n]] # NoRow /\ row[disk[n]].cat # k THEN "recat" ELSE "move",
           UNCHANGED <<disk, gone, row, lock, alone, dirty, faults>>
    PROVE  Effect(c) /\ TypeOK' /\ OneName'
  <1>1. /\ call[c].at = "files" /\ Walking(c) /\ call[c].doc \notin Docs
        /\ call[c].kind \in {"repair", "clear"} /\ Touches(c) = Docs
        /\ ToDo(c) = {}
    <2>1. /\ call[c].at = "files" /\ call[c].kind \in {"repair", "clear"}
          /\ ToDo(c) \subseteq {call[c].doc}
        BY KindsAt, CallFacts DEF At, Shape, Walking
    <2> QED
        BY <2>1, SameFiles DEF Walking, ToDo
  <1>2. n \in Archive /\ n \in Names /\ n # NoPath
      BY NoneAssumption, CallFacts DEF Calls, Archive, Names
  <1>3. PICK d \in Docs : d = disk[n]
      BY <1>2, CallFacts DEF TypeOK
  <1>4. row[d] \in Rows \cup {NoRow} /\ place \in {"back", "recat", "move"}
      BY CallFacts DEF TypeOK
  <1> DEFINE new == WithFile(c, n, place, k)
  <1>5. new \in Calls
    <2> DEFINE rest == [call[c] EXCEPT !.files = @ \ {n}]
               seen == [rest.seen EXCEPT ![d] = row[d]]
    <2>1. rest \in Calls
        BY CallFacts DEF Calls
    <2>2. new = [rest EXCEPT !.at = place, !.doc = d, !.path = n, !.from = n, !.cat = k,
                             !.seen = seen]
        BY <1>3 DEF WithFile
    <2> HIDE DEF rest, new
    <2>3. seen \in [Docs -> Rows \cup {NoRow}]
        BY <1>3, <1>4, <2>1 DEF Calls
    <2>4. place \in Places
        BY <1>4 DEF Places
    <2> HIDE DEF seen
    <2> QED
        BY <1>2, <2>1, <2>2, <2>3, <2>4 DEF Calls
  <1>6. call' = [call EXCEPT ![c] = new]
      BY DEF TakesFile
  <1>7. /\ new.kind = call[c].kind /\ new.at = place /\ new.doc = d /\ new.path = n
        /\ new.from = n /\ new.cat = k /\ new.files = call[c].files \ {n}
        /\ \A e \in Docs : new.seen[e] = IF e = d THEN row[d] ELSE call[c].seen[e]
      BY <1>3, CallFacts DEF Calls, WithFile
  <1> HIDE DEF new
  <1>8. call'[c] = new /\ ToDo(c)' \subseteq {d} /\ Touches(c)' = Touches(c)
    <2>1. call'[c] = new
        BY <1>6, CallFacts
    <2> QED
        BY <1>1, <1>7, <2>1 DEF ToDo, Touches
  <1>9. Shape(c)'
    <2>1. place \in PlacesOf[call[c].kind]
        BY <1>1, <1>4 DEF PlacesOf
    <2> QED
        BY <1>1, <1>2, <1>4, <1>7, <1>8, <2>1 DEF Shape
  <1>10. OneName' /\ \A e \in Docs : Kept(e)
      BY SameDisk DEF Kept
  <1>11. Owned(c, d)'
    <2>1. Agrees(c, d)' \/ place \notin {"move"}
        BY <1>3, <1>4, <1>7, <1>8 DEF Agrees
    <2>2. InHand(c, d)'
        BY <1>2, <1>3, <1>4, <1>7, <1>8, <2>1 DEF InHand
    <2>3. d \in alone[c] /\ call[c].kind = "clear" => row[d] = NoRow
        BY <1>1, CallFacts DEF Owned
    <2> QED
        BY <1>7, <1>8, <2>2, <2>3 DEF Owned
  <1>12. ASSUME NEW e \in Docs \ {d} PROVE Owned(c, e)'
    <2>1. /\ \A m \in call[c].files : disk'[m] = e => m \in new.files
          /\ disk'[new.path] # e
        BY <1>3, <1>7
    <2>2. e \notin ToDo(c)'
        BY <1>8
    <2> QED
        BY <1>1, <1>4, <1>7, <1>8, <1>10, <2>1, <2>2, OwnedWaits
  <1>13. TypeOK'
    <2>1. row' \in [Docs -> Rows \cup {NoRow}]
        BY CallFacts DEF TypeOK
    <2>2. new.at = "move" => new.cat \in Folders
        BY <1>7
    <2> QED
        BY <1>5, <1>6, <1>7, <2>1, <2>2, GoesOnTypesSame
  <1> QED
      BY <1>5, <1>6, <1>8, <1>9, <1>10, <1>11, <1>12, <1>13, GoesOnEffect

LEMMA NextFileStep ==
    ASSUME IInv, NEW c \in Callers, NextFile(c)
    PROVE  Effect(c) /\ TypeOK' /\ OneName'
  <1>1. At(c, "files") /\ UNCHANGED <<disk, gone, row, lock, alone, dirty, faults>>
      BY DEF NextFile
  <1>2. PICK n \in call[c].files :
          \/ disk[n] = NoDoc /\ call' = [call EXCEPT ![c] = [call[c] EXCEPT !.files = @ \ {n}]]
          \/ /\ disk[n] # NoDoc
             /\ \/ TakesFile(c, n, "back", Raws)
                \/ /\ call[c].kind = "repair"
                   /\ \E k \in Folders :
                         TakesFile(c, n, IF row[disk[n]] # NoRow /\ row[disk[n]].cat # k
                                         THEN "recat" ELSE "move", k)
      BY DEF NextFile, TakesFile, WithFile
  <1> QED
      BY <1>1, <1>2, SkipsName, TakesFileStep

LEMMA FilesEndStep ==
    ASSUME IInv, NEW c \in Callers, FilesEnd(c)
    PROVE  Effect(c) /\ TypeOK' /\ OneName'
  <1> DEFINE healed == IF call[c].kind = "clear" THEN Docs
                       ELSE {d \in Docs : row[d] = NoRow \/ Filed(d)}
  <1>1. /\ call[c].at = "files" /\ call[c].files = {} /\ End(c, healed, Docs \ alone[c])
        /\ UNCHANGED <<disk, gone, row, faults>>
      BY DEF FilesEnd, At
  <1>2. /\ Walking(c) /\ call[c].doc \notin Docs /\ Touches(c) = Docs
        /\ call[c].kind \in {"repair", "clear"}
      BY <1>1, KindsAt, SameFiles DEF At, Walking
  <1>3. dirty' = (dirty \ (healed \cap alone[c])) \cup (Docs \ alone[c])
      BY <1>1 DEF End
  <1>4. OneName' /\ \A d \in Docs : Unmoved(d)
      BY <1>1, SameDisk
  <1>5. ASSUME NEW d \in Docs PROVE d \in dirty' \/ Settled(d)'
    <2>1. CASE d \notin alone[c]
        BY <1>3, <2>1
    <2>2. CASE d \in alone[c]
      <3>1. /\ Filed(d) => call[c].kind = "repair" /\ Right(d)
            /\ call[c].kind = "clear" => row[d] = NoRow
            /\ d \notin dirty /\ call[c].kind # "clear" => Settled(d)
          BY <1>1, <1>2, <2>2, CallFacts DEF Owned, Filed
      <3>2. d \in healed => Settled(d)
          BY <1>2, <3>1 DEF Settled
      <3>3. d \in dirty /\ d \notin healed => d \in dirty'
          BY <1>3
      <3>4. Settled(d) \/ d \in dirty'
          BY <1>2, <3>1, <3>2, <3>3
      <3> QED
          BY <1>4, <3>4, SettledStays, CallFacts
    <2> QED
        BY <2>1, <2>2
  <1>6. Effect(c)
      BY <1>1, <1>2, <1>4, <1>5, EndEffect
  <1>7. TypeOK'
    <2>1. ControlOK' /\ row' \in [Docs -> Rows \cup {NoRow}]
        BY <1>1, EndTypes, CallFacts DEF TypeOK
    <2> QED
        BY <1>1, <2>1, DataStays, TypePartsNext, CallFacts
  <1> QED
      BY <1>4, <1>6, <1>7

-----------------------------------------------------------------------------
(* The steps that move a file, and what they do to the names *)

LEMMA FileMoves ==
    ASSUME IInv, NEW p \in Names, NEW n \in Names, disk[n] = NoDoc, disk[p] # NoDoc,
           disk' = [disk EXCEPT ![n] = disk[p], ![p] = NoDoc]
    PROVE  /\ disk' \in [Names -> Docs \cup {NoDoc}] /\ OneName'
           /\ disk[p] \in Docs /\ disk'[n] = disk[p]
           /\ \A m \in Names : disk'[m] = disk[p] => m = n
           /\ \A d \in Docs \ {disk[p]} : row'[d] = row[d] => Unmoved(d)
  <1>1. disk \in [Names -> Docs \cup {NoDoc}] /\ OneName /\ n # p /\ disk[p] \in Docs
      BY CallFacts DEF IInv, TypeOK
  <1>2. /\ disk'[n] = disk[p] /\ disk'[p] = NoDoc
        /\ \A m \in Names \ {n, p} : disk'[m] = disk[m]
      BY <1>1
  <1>3. disk' \in [Names -> Docs \cup {NoDoc}]
      BY <1>1
  <1>4. \A m \in Names : disk'[m] = disk[p] => m = n
      BY <1>1, <1>2, NothingAssumption DEF OneName
  <1>5. OneName'
      BY <1>1, <1>2, <1>4 DEF OneName
  <1>6. ASSUME NEW d \in Docs \ {disk[p]}, row'[d] = row[d] PROVE Unmoved(d)
      BY <1>1, <1>2, <1>6, NothingAssumption DEF Unmoved
  <1> QED
      BY <1>1, <1>2, <1>3, <1>4, <1>5, <1>6

LEMMA FileGoes ==
    ASSUME IInv, NEW p \in Names, disk[p] # NoDoc, disk' = [disk EXCEPT ![p] = NoDoc]
    PROVE  /\ disk' \in [Names -> Docs \cup {NoDoc}] /\ OneName'
           /\ disk[p] \in Docs /\ \A m \in Names : disk'[m] # disk[p]
           /\ \A d \in Docs \ {disk[p]} : row'[d] = row[d] => Unmoved(d)
  BY NothingAssumption DEF IInv, TypeOK, OneName, Unmoved

(* The file gets a name in the folder of the category. *)
LEMMA MovesFile ==
    ASSUME IInv, NEW c \in Callers, At(c, "move"), disk[call[c].path] # NoDoc,
           NEW n \in Free(call[c].cat), Renamed(c, n),
           call' = [call EXCEPT ![c].at = "update", ![c].path = n],
           UNCHANGED <<gone, row, lock, faults>>
    PROVE  Effect(c) /\ TypeOK' /\ OneName'
  <1>1. PICK x \in Docs : x = call[c].doc
      BY CallFacts DEF At, Shape
  <1>2. /\ call[c].at = "move" /\ call[c].cat \in Folders /\ call[c].path \in Names
        /\ call[c].kind \in {"scan", "edit", "reclassify", "rename", "repair"}
      BY KindsAt, CallFacts DEF At, Shape, TypeOK
  <1>3. PICK p \in Names : p = call[c].path
      BY <1>2
  <1>4. n \in Names /\ n \in Archive /\ Folder(n) = call[c].cat /\ disk[n] = NoDoc /\ n # NoPath
      BY <1>2, NoneAssumption DEF Free, Names, Archive, Folder
  <1>5. disk' = [disk EXCEPT ![n] = disk[p], ![p] = NoDoc] /\ Spoil({disk[p]} \ {x})
      BY <1>1, <1>3 DEF Renamed
  <1>6. /\ disk' \in [Names -> Docs \cup {NoDoc}] /\ OneName'
        /\ disk[p] \in Docs /\ disk'[n] = disk[p]
        /\ \A m \in Names : disk'[m] = disk[p] => m = n
        /\ \A d \in Docs \ {disk[p]} : Unmoved(d)
      BY <1>3, <1>4, <1>5, FileMoves
  <1>7. /\ dirty' = dirty \cup ({disk[p]} \ {x}) /\ dirty' \subseteq Docs
        /\ alone' = [e \in Callers |-> alone[e] \ ({disk[p]} \ {x})]
        /\ alone' \in [Callers -> SUBSET Docs]
      BY <1>5, <1>6, CallFacts DEF Spoil, TypeOK
  <1>8. \A d \in Docs \ {x} : Kept(d) \/ Spoilt(d)
      BY <1>6, <1>7 DEF Kept, Spoilt
  <1> DEFINE new == [call[c] EXCEPT !.at = "update", !.path = n]
  <1>9. /\ new \in Calls /\ call' = [call EXCEPT ![c] = new]
        /\ new.kind = call[c].kind /\ new.at = "update" /\ new.doc = x /\ new.path = n
        /\ new.from = call[c].from /\ new.cat = call[c].cat /\ new.seen = call[c].seen
        /\ new.files = call[c].files
      BY <1>1, <1>4, CallFacts DEF Calls, Places
  <1> HIDE DEF new
  <1>10. call'[c] = new /\ ToDo(c)' = ToDo(c) /\ Touches(c)' = Touches(c)
    <2>1. new \in Calls /\ call' = [call EXCEPT ![c] = new]
        BY <1>9
    <2>2. new.kind = call[c].kind /\ new.doc = call[c].doc /\ new.seen = call[c].seen
        BY <1>1, <1>9
    <2> QED
        BY <2>1, <2>2, SameTouches
  <1>11. Shape(c)'
      BY <1>1, <1>2, <1>4, <1>9, <1>10, CallFacts DEF Shape, PlacesOf, Walking
  <1>12. Owned(c, x)'
    <2> SUFFICES ASSUME x \in alone'[c], call[c].from # NoPath \/ x \notin dirty'
                 PROVE  InHand(c, x)'
        BY <1>2, <1>9, <1>10 DEF Owned
    <2>1. x \in alone[c] /\ (x \in dirty => x \in dirty')
        BY <1>7
    <2>2. InHand(c, x)
        BY <1>1, <1>2, <2>1, CallFacts DEF Owned
    <2>3. Agrees(c, x)'
        BY <1>2, <1>9, <1>10, <2>2 DEF InHand, Agrees
    <2>4. disk'[n] = x
        BY <1>2, <1>3, <1>6, <2>2 DEF InHand
    <2> QED
        BY <1>4, <1>9, <1>10, <2>3, <2>4 DEF InHand
  <1>13. ASSUME NEW d \in Docs \ {x} PROVE Owned(c, d)'
    <2>1. CASE Spoilt(d)
        BY <2>1 DEF Spoilt, Owned
    <2>2. CASE Kept(d) /\ ~Spoilt(d)
      <3>1. disk'[new.path] # d
          BY <1>6, <1>7, <1>9, <1>13, <2>2 DEF Spoilt
      <3>2. Walking(c)' => Walking(c)
          BY <1>9, <1>10 DEF Walking
      <3>3. d \in alone'[c] => d \in alone[c]
          BY <1>7
      <3> QED
          BY <1>1, <1>9, <1>10, <2>2, <3>1, <3>2, <3>3, OwnedWaits
    <2> QED
        BY <1>8, <2>1, <2>2
  <1>14. TypeOK'
    <2>1. ControlOK'
        BY <1>7, <1>9, GoesOnTypes, CallFacts
    <2>2. DataOK'
        BY <1>6, CallFacts DEF DataOK, TypeOK
    <2> QED
        BY <2>1, <2>2, TypePartsNext
  <1>15. \A d \in Docs \ Touches(c) : Kept(d) \/ Spoilt(d)
      BY <1>1, <1>8, CallFacts DEF About
  <1>16. \A e \in Callers : alone'[e] \subseteq alone[e]
      BY <1>7
  <1>17. Effect(c)
    <2>1. new \in Calls /\ call' = [call EXCEPT ![c] = new] /\ Touches(c)' = Touches(c)
        BY <1>9, <1>10
    <2>2. \A d \in Docs : Owned(c, d)'
        BY <1>12, <1>13
    <2> QED
        BY <1>11, <1>15, <1>16, <2>1, <2>2, GoesOnEffect
  <1> QED
      BY <1>6, <1>14, <1>17

LEMMA MoveStep ==
    ASSUME IInv, NEW c \in Callers, Move(c)
    PROVE  Effect(c) /\ TypeOK' /\ OneName'
  <1>1. PICK x \in Docs : x = call[c].doc
      BY CallFacts DEF Move, At, Shape
  <1>2. /\ call[c].at = "move" /\ call[c].cat \in Folders /\ call[c].path \in Names
        /\ call[c].kind \in {"scan", "edit", "reclassify", "rename", "repair"}
        /\ UNCHANGED <<gone, row, faults>>
      BY KindsAt, CallFacts DEF Move, At, Shape, TypeOK
  <1>3. CASE Folder(call[c].path) = call[c].cat /\ Goto(c, "update")
             /\ UNCHANGED <<disk, lock, alone, dirty>>
    <2> DEFINE new == [call[c] EXCEPT !.at = "update"]
    <2>1. /\ new \in Calls /\ call' = [call EXCEPT ![c] = new]
          /\ new.kind = call[c].kind /\ new.at = "update" /\ new.doc = x
          /\ new.path = call[c].path /\ new.from = call[c].from /\ new.cat = call[c].cat
          /\ new.seen = call[c].seen /\ new.files = call[c].files
        BY <1>1, <1>3, CallFacts DEF Goto, Calls, Places
    <2> HIDE DEF new
    <2>2. call'[c] = new /\ ToDo(c)' = ToDo(c) /\ Touches(c)' = Touches(c)
        BY <1>1, <2>1, SameTouches
    <2>3. Shape(c)'
        BY <1>1, <1>2, <2>1, <2>2, NoneAssumption, CallFacts DEF Shape, PlacesOf, Walking
    <2>4. OneName' /\ \A d \in Docs : Kept(d)
        BY <1>2, <1>3, SameDisk DEF Kept
    <2>5. Owned(c, x)'
      <3> SUFFICES ASSUME x \in alone[c], call[c].from # NoPath \/ x \notin dirty
                   PROVE  InHand(c, x)'
          BY <1>2, <1>3, <2>1, <2>2 DEF Owned
      <3>1. InHand(c, x)
          BY <1>1, <1>2, CallFacts DEF Owned
      <3>2. Agrees(c, x)'
          BY <1>2, <2>1, <2>2, <3>1 DEF InHand, Agrees
      <3> QED
          BY <1>2, <1>3, <2>1, <2>2, <3>1, <3>2 DEF InHand
    <2>6. ASSUME NEW d \in Docs \ {x} PROVE Owned(c, d)'
      <3>1. Walking(c)' => Walking(c)
          BY <2>1, <2>2 DEF Walking
      <3> QED
          BY <1>1, <1>3, <2>1, <2>2, <2>4, <3>1, OwnedWaits
    <2>7. TypeOK'
      <3>1. row' \in [Docs -> Rows \cup {NoRow}]
          BY <1>2, CallFacts DEF TypeOK
      <3> QED
          BY <1>2, <1>3, <2>1, <3>1, GoesOnTypesSame
    <2> QED
        BY <1>3, <2>1, <2>2, <2>3, <2>4, <2>5, <2>6, <2>7, GoesOnEffect
  <1>4. CASE /\ disk[call[c].path] # NoDoc
             /\ \E n \in Free(call[c].cat) :
                   /\ Renamed(c, n)
                   /\ call' = [call EXCEPT ![c].at = "update", ![c].path = n]
             /\ lock' = lock
      BY <1>2, <1>4, MovesFile DEF At
  <1>5. CASE disk[call[c].path] = NoDoc /\ GiveUp(c) /\ disk' = disk
    <2>1. call[c] # Idle
        BY <1>2 DEF Idle
    <2>2. Effect(c) /\ OneName'
        BY <1>2, <1>5, <2>1, GiveUpEffect, SameDisk
    <2>3. TypeOK'
      <3>1. ControlOK' /\ row' \in [Docs -> Rows \cup {NoRow}]
          BY <1>2, <1>5, GiveUpTypes, CallFacts DEF TypeOK, About
      <3> QED
          BY <1>2, <1>5, <3>1, DataStays, TypePartsNext, CallFacts
    <2> QED
        BY <2>2, <2>3
  <1> QED
      BY <1>3, <1>4, <1>5 DEF Move

-----------------------------------------------------------------------------
(* The steps that write the row after the file, or move the file away *)

LEMMA LeaveDoneTypeOK ==
    ASSUME IInv, NEW c \in Callers, LeaveDone(c), UNCHANGED <<disk, gone, faults>>,
           row' \in [Docs -> Rows \cup {NoRow}]
    PROVE  TypeOK'
  BY LeaveDoneTypes, DataStays, TypePartsNext, CallFacts

LEMMA UpdateStep ==
    ASSUME IInv, NEW c \in Callers, Update(c)
    PROVE  Effect(c) /\ TypeOK' /\ OneName'
  <1>1. PICK x \in Docs : x = call[c].doc
      BY CallFacts DEF Update, At, Shape
  <1>2. /\ call[c].at = "update" /\ call[c].cat \in Folders
        /\ call[c].kind \in {"scan", "edit", "reclassify", "rename", "repair"}
        /\ call[c].kind = "repair" => call[c].from \in Names
        /\ call[c].path = NoPath \/ call[c].path \in Names
        /\ UNCHANGED <<disk, gone, faults>> /\ LeaveDone(c) /\ OneName'
    <2>1. call[c].at = "update" /\ UNCHANGED <<disk, gone, faults>> /\ LeaveDone(c)
        BY DEF Update, At
    <2>2. /\ call[c].path \in Names \cup {NoPath}
          /\ call[c].from \in Names \cup {NoPath}
        BY CallFacts DEF Calls
    <2> QED
        BY <2>1, <2>2, KindsAt, SameDisk, CallFacts DEF Shape
  <1>3. PICK path \in Names \cup {NoPath} : path = call[c].path
      BY <1>2
  <1>4. PICK cat \in Folders : cat = call[c].cat
      BY <1>2
  <1>5. PICK old \in Rows \cup {NoRow} : old = call[c].seen[x]
      BY CallFacts DEF Calls
  <1> DEFINE indexing == call[c].kind = "repair" /\ old = NoRow
             recat    == call[c].kind \in {"reclassify", "rename"} \/ indexing
  <1>6. /\ row \in [Docs -> Rows \cup {NoRow}]
        /\ row[x] # NoRow => row[x] \in Rows
      BY CallFacts DEF TypeOK
  <1>7. row' = IF row[x] = NoRow
               THEN IF indexing
                    THEN [row EXCEPT ![x] = [orig |-> call[c].from, new |-> path, cat |-> cat]]
                    ELSE row
               ELSE IF call[c].kind \in {"edit", "repair"} /\ old # NoRow /\ old.new = path
               THEN row
               ELSE [row EXCEPT ![x].new = IF path = NoPath THEN @ ELSE path,
                                ![x].cat = IF recat THEN cat ELSE @]
      BY <1>1, <1>3, <1>4, <1>5 DEF Update
  <1>8. /\ \A d \in Docs \ {x} : row'[d] = row[d]
        /\ \/ row'[x] = row[x]
              /\ \/ row[x] = NoRow /\ ~indexing
                 \/ call[c].kind \in {"edit", "repair"} /\ old # NoRow /\ old.new = path
           \/ /\ row[x] = NoRow /\ indexing /\ row'[x] \in Rows
              /\ row'[x].new = path /\ row'[x].cat = cat
           \/ /\ row[x] # NoRow /\ row'[x] \in Rows
              /\ row'[x].new = IF path = NoPath THEN row[x].new ELSE path
              /\ row'[x].cat = IF recat THEN cat ELSE row[x].cat
        /\ row' \in [Docs -> Rows \cup {NoRow}]
    <2>1. CASE row[x] = NoRow /\ indexing
      <3>1. [orig |-> call[c].from, new |-> path, cat |-> cat] \in Rows
          BY <1>2, <2>1 DEF Rows
      <3>2. row' = [row EXCEPT ![x] = [orig |-> call[c].from, new |-> path, cat |-> cat]]
          BY <1>7, <2>1
      <3> QED
          BY <1>6, <2>1, <3>1, <3>2
    <2>2. CASE row[x] = NoRow /\ ~indexing
        BY <1>6, <1>7, <2>2
    <2>3. CASE row[x] # NoRow /\ call[c].kind \in {"edit", "repair"} /\ old # NoRow /\ old.new = path
        BY <1>6, <1>7, <2>3
    <2>4. CASE row[x] # NoRow /\ ~(call[c].kind \in {"edit", "repair"} /\ old # NoRow /\ old.new = path)
      <3> DEFINE new == IF path = NoPath THEN row[x].new ELSE path
                 folder == IF recat THEN cat ELSE row[x].cat
                 r == [row[x] EXCEPT !.new = new, !.cat = folder]
      <3>1. r \in Rows /\ r.new = new /\ r.cat = folder
        <4>1. new \in Names \cup {NoPath} /\ folder \in Folders
            BY <1>6, <2>4 DEF Rows
        <4> HIDE DEF new, folder, recat
        <4> QED
            BY <1>6, <2>4, <4>1 DEF Rows
      <3>2. row' = [row EXCEPT ![x] = r]
          BY <1>6, <1>7, <2>4
      <3> HIDE DEF r
      <3> QED
          BY <1>6, <2>4, <3>1, <3>2
    <2> QED
        BY <2>1, <2>2, <2>3, <2>4
  <1>9. \A d \in Docs \ {x} : Unmoved(d)
      BY <1>2, <1>8, SameDisk
  <1>10. x \in alone[c] => (call[c].from = NoPath /\ x \in dirty) \/ Settled(x)'
    <2> SUFFICES ASSUME x \in alone[c], call[c].from # NoPath \/ x \notin dirty
                 PROVE  Settled(x)'
        OBVIOUS
    <2>1. InHand(c, x)
        BY <1>1, <1>2, CallFacts DEF Owned
    <2>2. /\ Agrees(c, x) /\ path \in Names /\ disk[path] = x /\ Folder(path) = cat
        BY <1>2, <1>3, <1>4, <2>1 DEF InHand
    <2>3. path \in Archive /\ path # NoPath
        BY <2>2, NoneAssumption DEF Names, Archive, Folder
    <2>4. /\ indexing => row[x] = NoRow
          /\ ~indexing =>
               /\ row[x] # NoRow
               /\ call[c].kind \in {"scan", "edit", "repair"} => row[x].cat = cat
               /\ call[c].kind \in {"edit", "repair"} => row[x].new = old.new
        BY <1>4, <1>5, <2>2 DEF Agrees
    <2>5. row'[x] # NoRow /\ row'[x].new = path /\ row'[x].cat = cat
        BY <1>2, <1>8, <2>3, <2>4, NoneAssumption
    <2> QED
        BY <1>2, <2>2, <2>3, <2>5 DEF Settled, Right
  <1>11. Effect(c)
      BY <1>1, <1>2, <1>9, <1>10, LeaveDoneEffect
  <1>12. TypeOK'
      BY <1>2, <1>8, LeaveDoneTypeOK
  <1> QED
      BY <1>2, <1>11, <1>12

LEMMA GiveUpStep ==
    ASSUME IInv, NEW c \in Callers, GiveUp(c), call[c].at # "idle",
           UNCHANGED <<disk, gone, row, faults>>
    PROVE  Effect(c) /\ TypeOK' /\ OneName'
  <1>1. call[c] # Idle
      BY DEF Idle
  <1>2. Effect(c) /\ OneName'
      BY <1>1, GiveUpEffect, SameDisk
  <1>3. ControlOK' /\ row' \in [Docs -> Rows \cup {NoRow}]
      BY GiveUpTypes, CallFacts DEF TypeOK, About
  <1>4. TypeOK'
      BY <1>3, DataStays, TypePartsNext, CallFacts
  <1> QED
      BY <1>2, <1>4

(* The call goes on to purge the row. *)
LEMMA ToPurgeShape ==
    ASSUME IInv, NEW c \in Callers, NEW x \in Docs, x = call[c].doc, ToPurge(c),
           call[c].kind = "delete" \/ (call[c].kind = "repair" /\ call[c].from # NoPath)
    PROVE  \E new \in Calls :
             /\ call' = [call EXCEPT ![c] = new] /\ call'[c] = new
             /\ new.kind = call[c].kind /\ new.at = "purge" /\ new.doc = x
             /\ new.path = NoPath /\ new.from = call[c].from /\ new.cat = call[c].cat
             /\ new.seen = call[c].seen /\ new.files = call[c].files
             /\ ToDo(c)' = ToDo(c) /\ Touches(c)' = Touches(c) /\ Shape(c)'
  <1> DEFINE new == [call[c] EXCEPT !.at = "purge", !.path = NoPath]
  <1>1. /\ new \in Calls /\ call' = [call EXCEPT ![c] = new]
        /\ new.kind = call[c].kind /\ new.at = "purge" /\ new.doc = x
        /\ new.path = NoPath /\ new.from = call[c].from /\ new.cat = call[c].cat
        /\ new.seen = call[c].seen /\ new.files = call[c].files
      BY CallFacts DEF ToPurge, Calls, Places
  <1> HIDE DEF new
  <1>2. call'[c] = new /\ ToDo(c)' = ToDo(c) /\ Touches(c)' = Touches(c)
    <2>1. new.kind = call[c].kind /\ new.doc = call[c].doc /\ new.seen = call[c].seen
        BY <1>1
    <2>2. new \in Calls /\ call' = [call EXCEPT ![c] = new]
        BY <1>1
    <2> QED
        BY <2>1, <2>2, SameTouches
  <1>3. Shape(c)'
    <2>1. /\ call'[c].kind = call[c].kind /\ call'[c].at = "purge" /\ call'[c].doc = x
          /\ call'[c].path = NoPath /\ call'[c].from = call[c].from
          /\ call'[c].cat = call[c].cat /\ call'[c].seen = call[c].seen
        BY <1>1, <1>2
    <2>2. Walking(c)' => Walking(c)
        BY <2>1 DEF Walking
    <2>3. "purge" \in PlacesOf[call[c].kind]
        BY DEF PlacesOf
    <2> QED
        BY <1>2, <2>1, <2>2, <2>3, CallFacts DEF Shape
  <1> QED
      BY <1>1, <1>2, <1>3

LEMMA TrashStep ==
    ASSUME IInv, NEW c \in Callers, Trash(c)
    PROVE  Effect(c) /\ TypeOK' /\ OneName'
  <1>1. PICK x \in Docs : x = call[c].doc
      BY CallFacts DEF Trash, At, Shape
  <1>2. /\ call[c].at = "trash" /\ call[c].kind = "delete" /\ call[c].path \in Names
        /\ call[c].from = NoPath /\ Touches(c) = {x} /\ UNCHANGED <<row, faults>>
    <2>1. call[c].at = "trash" /\ call[c].kind = "delete" /\ UNCHANGED <<row, faults>>
        BY KindsAt DEF Trash, At
    <2>2. call[c].path \in Names /\ call[c].from = NoPath
        BY <2>1, CallFacts DEF Shape
    <2>3. Touches(c) = {x}
        BY <1>1, <2>1, CallFacts DEF Shape, About
    <2> QED
        BY <2>1, <2>2, <2>3
  <1>3. PICK p \in Names : p = call[c].path
      BY <1>2
  <1>4. CASE disk[p] = NoDoc
    <2>1. GiveUp(c) /\ UNCHANGED <<disk, gone>>
        BY <1>3, <1>4 DEF Trash
    <2> QED
        BY <1>2, <2>1, GiveUpStep
  <1>5. CASE disk[p] # NoDoc
    <2>1. /\ disk' = [disk EXCEPT ![p] = NoDoc] /\ gone' = gone \cup {disk[p]}
          /\ Spoil({disk[p]} \ {x}) /\ ToPurge(c) /\ lock' = lock
        BY <1>1, <1>3, <1>5 DEF Trash
    <2>2. /\ disk' \in [Names -> Docs \cup {NoDoc}] /\ OneName'
          /\ disk[p] \in Docs /\ \A m \in Names : disk'[m] # disk[p]
          /\ \A d \in Docs \ {disk[p]} : Unmoved(d)
        BY <1>2, <1>5, <2>1, FileGoes
    <2>3. /\ dirty' = dirty \cup ({disk[p]} \ {x}) /\ dirty' \subseteq Docs
          /\ alone' = [e \in Callers |-> alone[e] \ ({disk[p]} \ {x})]
          /\ alone' \in [Callers -> SUBSET Docs]
        BY <2>1, <2>2, CallFacts DEF Spoil, TypeOK
    <2>4. \A d \in Docs \ Touches(c) : Kept(d) \/ Spoilt(d)
        BY <1>2, <2>2, <2>3 DEF Kept, Spoilt
    <2>5. PICK new \in Calls :
             /\ call' = [call EXCEPT ![c] = new] /\ call'[c] = new
             /\ new.kind = call[c].kind /\ new.at = "purge" /\ new.doc = x
             /\ ToDo(c)' = ToDo(c) /\ Touches(c)' = Touches(c) /\ Shape(c)'
        BY <1>1, <1>2, <2>1, ToPurgeShape
    <2>6. x \in alone'[c] /\ x \notin dirty' => InHand(c, x)'
      <3> SUFFICES ASSUME x \in alone'[c], x \notin dirty' PROVE InHand(c, x)'
          OBVIOUS
      <3>1. x \in alone[c] /\ x \notin dirty
          BY <2>3
      <3>2. disk[p] = x
          BY <1>1, <1>2, <1>3, <3>1, CallFacts DEF Owned, InHand
      <3>3. ~Filed(x)'
          BY <2>2, <3>2 DEF Filed, Archive, Names
      <3> QED
          BY <2>5, <3>3 DEF InHand
    <2>7. \A d \in Docs : Owned(c, d)'
      <3>1. call'[c].kind = "delete" /\ call'[c].doc = x /\ Touches(c)' = {x} /\ Shape(c)'
          BY <1>2, <2>5
      <3> QED
          BY <2>6, <3>1, OneOwned
    <2>8. TypeOK'
      <3>1. new.kind = call[c].kind /\ new.at # "move"
          BY <2>5
      <3>2. ControlOK'
          BY <2>1, <2>3, <2>5, <3>1, GoesOnTypes, CallFacts
      <3>3. DataOK'
          BY <1>2, <2>1, <2>2, CallFacts DEF DataOK, TypeOK
      <3> QED
          BY <3>2, <3>3, TypePartsNext
    <2>9. \A e \in Callers : alone'[e] \subseteq alone[e]
        BY <2>3
    <2> QED
        BY <2>2, <2>4, <2>5, <2>7, <2>8, <2>9, GoesOnEffect
  <1> QED
      BY <1>4, <1>5

(* A walk never has a file in hand of another document that it owns. *)
LEMMA OthersElsewhere ==
    ASSUME IInv, NEW c \in Callers, call[c].from # NoPath, call[c].path \in Names,
           NEW d \in Docs, d \in alone[c], d # call[c].doc
    PROVE  disk[call[c].path] # d
  BY CallFacts DEF Owned, Walking

LEMMA BackStep ==
    ASSUME IInv, NEW c \in Callers, Back(c)
    PROVE  Effect(c) /\ TypeOK' /\ OneName'
  <1>1. PICK x \in Docs : x = call[c].doc
      BY CallFacts DEF Back, At, Shape
  <1>2. /\ call[c].at = "back" /\ call[c].kind \in {"repair", "clear"}
        /\ call[c].path \in Names /\ UNCHANGED <<gone, row, faults>>
        /\ call[c].kind = "repair" => call[c].from # NoPath
        /\ Touches(c) = Docs
    <2>1. /\ call[c].at = "back" /\ call[c].kind \in {"repair", "clear"}
          /\ UNCHANGED <<gone, row, faults>>
        BY KindsAt DEF Back, At
    <2>2. call[c].path \in Names /\ (call[c].kind = "repair" => call[c].from # NoPath)
        BY <2>1, CallFacts DEF Shape
    <2> QED
        BY <2>1, <2>2 DEF Touches
  <1>3. PICK p \in Names : p = call[c].path
      BY <1>2
  <1>4. CASE disk[p] = NoDoc
    <2>1. GiveUp(c) /\ disk' = disk
        BY <1>3, <1>4 DEF Back
    <2> QED
        BY <1>2, <2>1, GiveUpStep
  <1>5. CASE disk[p] # NoDoc
    <2>1. PICK n \in {Raws} \X Bases :
            disk[n] = NoDoc /\ disk' = [disk EXCEPT ![n] = disk[p], ![p] = NoDoc]
      <3> DEFINE same == <<Raws, Base(p)>>
      <3>1. same \in {Raws} \X Bases
          BY DEF Base, Names
      <3>2. \E n \in IF disk[same] = NoDoc THEN {same} ELSE Free(Raws) :
               disk' = [disk EXCEPT ![n] = disk[p], ![p] = NoDoc]
          BY <1>3, <1>5 DEF Back
      <3> HIDE DEF same
      <3> QED
          BY <3>1, <3>2 DEF Free
    <2>2. n \in Names /\ n \notin Archive
        BY FolderAssumption DEF Names, Archive
    <2>3. /\ disk' \in [Names -> Docs \cup {NoDoc}] /\ OneName'
          /\ disk[p] \in Docs
          /\ \A m \in Names : disk'[m] = disk[p] => m = n
          /\ \A d \in Docs \ {disk[p]} : Unmoved(d)
        BY <1>2, <1>5, <2>1, <2>2, FileMoves
    <2>4. DataOK'
        BY <1>2, <2>3, CallFacts DEF DataOK, TypeOK
    <2>5. disk[p] = x => ~Filed(x)'
        BY <2>2, <2>3 DEF Filed, Archive, Names
    <2>6. x \in alone[c] /\ call[c].from # NoPath => disk[p] = x
        BY <1>1, <1>2, <1>3, CallFacts DEF Owned, InHand
    <2>7. ASSUME NEW d \in Docs \ {x}, d \in alone[c], call[c].from # NoPath
          PROVE  Unmoved(d)
        BY <1>1, <1>2, <1>3, <2>3, <2>7, OthersElsewhere
    <2>8. CASE call[c].kind = "repair"
      <3>1. ToPurge(c) /\ UNCHANGED <<lock, alone, dirty>>
          BY <1>3, <1>5, <2>8 DEF Back
      <3>2. PICK new \in Calls :
               /\ call' = [call EXCEPT ![c] = new] /\ call'[c] = new
               /\ new.kind = call[c].kind /\ new.at = "purge" /\ new.doc = x
               /\ new.path = NoPath /\ new.from = call[c].from
               /\ new.seen = call[c].seen /\ new.files = call[c].files
               /\ ToDo(c)' = ToDo(c) /\ Touches(c)' = Touches(c) /\ Shape(c)'
          BY <1>1, <1>2, <2>8, <3>1, ToPurgeShape
      <3>3. Owned(c, x)'
        <4> SUFFICES ASSUME x \in alone[c] PROVE InHand(c, x)'
            BY <2>8, <3>1, <3>2 DEF Owned
        <4>1. ~Filed(x)'
            BY <1>2, <2>5, <2>6, <2>8
        <4> QED
            BY <3>2, <4>1 DEF InHand
      <3>4. ASSUME NEW d \in Docs \ {x} PROVE Owned(c, d)'
        <4> SUFFICES ASSUME d \in alone[c] PROVE Owned(c, d)'
            BY <3>1 DEF Owned
        <4>1. Kept(d)
            BY <1>2, <2>7, <2>8, <3>1 DEF Kept
        <4>2. Walking(c)' => Walking(c)
            BY <3>2 DEF Walking
        <4> QED
            BY <1>1, <3>1, <3>2, <4>1, <4>2, OwnedWaits
      <3>5. Effect(c)
          BY <1>2, <3>1, <3>2, <3>3, <3>4, GoesOnEffect
      <3>6. ControlOK'
        <4>1. alone' \in [Callers -> SUBSET Docs] /\ dirty' \subseteq Docs /\ lock' = lock
            BY <3>1, CallFacts DEF TypeOK
        <4>2. new.kind = call[c].kind /\ new.at # "move"
            BY <3>2
        <4> QED
            BY <3>2, <4>1, <4>2, GoesOnTypes, CallFacts
      <3> QED
          BY <2>3, <2>4, <3>5, <3>6, TypePartsNext
    <2>9. CASE call[c].kind = "clear"
      <3>1. LeaveDone(c)
          BY <1>3, <1>5, <2>9 DEF Back
      <3>2. ASSUME NEW d \in Docs \ {x}
            PROVE  Unmoved(d) \/ d \notin alone[c] \/ call[c].from = NoPath
          BY <2>7
      <3>3. x \in alone[c] => call[c].from = NoPath \/ Settled(x)'
        <4> SUFFICES ASSUME x \in alone[c], call[c].from # NoPath PROVE Settled(x)'
            OBVIOUS
        <4>1. ~Filed(x)'
            BY <2>5, <2>6
        <4>2. row[x] = NoRow
            BY <2>9, CallFacts DEF Owned, Walking
        <4> QED
            BY <1>2, <4>1, <4>2 DEF Settled
      <3>4. Effect(c)
          BY <1>1, <1>2, <2>9, <3>1, <3>2, <3>3, LeaveDoneEffect
      <3>5. ControlOK'
          BY <3>1, LeaveDoneTypes, CallFacts
      <3> QED
          BY <2>3, <2>4, <3>4, <3>5, TypePartsNext
    <2> QED
        BY <1>2, <2>8, <2>9
  <1> QED
      BY <1>4, <1>5

LEMMA FailsStep ==
    ASSUME IInv, NEW c \in Callers, Fails(c)
    PROVE  Effect(c) /\ TypeOK' /\ OneName'
  <1>1. /\ UNCHANGED <<disk, gone, row>> /\ faults < MaxFaults /\ faults' = faults + 1
        /\ Touches(c) \in SUBSET Docs
      BY CallFacts DEF Fails, About
  <1>2. DataOK'
    <2>1. faults \in Nat /\ faults' \in 0 .. MaxFaults
        BY <1>1, FaultAssumption, CallFacts DEF TypeOK
    <2> QED
        BY <1>1, <2>1, CallFacts DEF DataOK, TypeOK
  <1>3. ControlOK'
    <2>1. GiveUp(c) \/ End(c, {}, Touches(c))
        BY DEF Fails
    <2> QED
        BY <1>1, <2>1, GiveUpTypes, EndTypes, CallFacts
  <1> QED
      BY <1>1, <1>2, <1>3, FailsEffect, SameDisk, TypePartsNext

-----------------------------------------------------------------------------
(* A call that begins is alone with the documents that no other one is about *)

LEMMA BeginKeeps ==
    ASSUME IInv, NEW c \in Callers, NEW new \in Calls, NEW S \in SUBSET Docs, Begin(c, new, S),
           UNCHANGED <<disk, gone, dirty>>,
           row' \in [Docs -> Rows \cup {NoRow}], \A d \in Docs \ S : row'[d] = row[d],
           Lock(c) \/ (lock' = lock /\ new.kind \notin {"scan", "repair", "clear"}),
           new.at = "move" => new.cat \in Folders,
           Touches(c)' = S, Shape(c)', \A d \in S \ Touched : Owned(c, d)'
    PROVE  IInv'
  <1>1. /\ call[c] = Idle /\ call' = [call EXCEPT ![c] = new]
        /\ alone' = [e \in Callers |-> IF e = c THEN S \ Touched ELSE alone[e] \ S]
        /\ faults' = IF S \cap Touched = {} THEN faults ELSE faults + 1
        /\ faults' <= MaxFaults
      BY DEF Begin, Touched
  <1>2. call \in [Callers -> Calls] /\ TypeOK /\ ControlOK
      BY CallFacts, TypeParts
  <1>3. call'[c] = new /\ \A e \in Callers \ {c} : call'[e] = call[e]
      BY <1>1, <1>2
  <1>4. \A e \in Callers \ {c} : Touches(e)' = Touches(e)
      BY <1>3 DEF Touches, ToDo
  <1>5. Touches(c) = {}
    <2>1. call[c].at = "idle"
        BY <1>1 DEF Idle
    <2> QED
        BY <2>1, CallFacts DEF About
  <1>6. OneName' /\ \A d \in Docs \ S : Kept(d)
      BY SameDisk DEF Kept
  <1>7. TypeOK'
    <2>1. faults' \in 0 .. MaxFaults
        BY <1>1, <1>2, FaultAssumption DEF TypeOK
    <2>2. DataOK'
        BY <1>2, <2>1 DEF DataOK, TypeOK
    <2>3. call' \in [Callers -> Calls] /\ alone' \in [Callers -> SUBSET Docs] /\ dirty' \subseteq Docs
        BY <1>1, <1>2 DEF ControlOK
    <2>4. lock' \in Callers \cup {Nobody}
        BY <1>2 DEF ControlOK, Lock
    <2>5. ASSUME NEW e \in Callers, call'[e].kind \in {"scan", "repair", "clear"}
          PROVE  lock' = e
      <3>1. CASE e = c
          BY <1>3, <2>5, <3>1 DEF Lock
      <3>2. CASE e # c
        <4>1. lock = e
            BY <1>2, <1>3, <2>5, <3>2 DEF ControlOK
        <4> QED
            BY <4>1, NothingAssumption DEF Lock
      <3> QED
          BY <3>1, <3>2
    <2>6. \A e \in Callers : call'[e].at = "move" => call'[e].cat \in Folders
        BY <1>2, <1>3 DEF ControlOK
    <2>7. ControlOK'
        BY <2>3, <2>4, <2>5, <2>6 DEF ControlOK
    <2> QED
        BY <2>2, <2>7, TypePartsNext
  <1>8. ASSUME NEW e \in Callers PROVE Shape(e)'
    <2>1. CASE e # c
        BY <1>3, <2>1, CallFacts DEF Shape, Touches, ToDo, Walking
    <2> QED
        BY <2>1
  <1>9. Exclusive'
    <2> SUFFICES ASSUME NEW e \in Callers, NEW f \in Callers, e # f
                 PROVE  alone'[e] \cap Touches(f)' = {}
        BY DEF Exclusive
    <2>1. CASE e = c
        BY <1>1, <1>4, <2>1 DEF Touched
    <2>2. CASE f = c
        BY <1>1, <2>2
    <2>3. CASE e # c /\ f # c
        BY <1>1, <1>4, <2>3 DEF IInv, Exclusive
    <2> QED
        BY <2>1, <2>2, <2>3
  <1>10. ASSUME NEW e \in Callers, NEW d \in Docs PROVE Owned(e, d)'
    <2>1. CASE e = c /\ d \in S \ Touched
        BY <2>1
    <2>2. CASE e = c /\ d \notin S \ Touched
        BY <1>1, <2>2 DEF Owned
    <2>3. CASE e # c /\ d \in S
        BY <1>1, <2>3 DEF Owned
    <2>4. CASE e # c /\ d \notin S
      <3>1. Kept(d) /\ call'[e] = call[e] /\ (d \in alone'[e] => d \in alone[e]) /\ Owned(e, d)
          BY <1>1, <1>3, <1>6, <2>4, CallFacts
      <3> QED
          BY <1>2, <3>1, OwnedStays
    <2> QED
        BY <2>1, <2>2, <2>3, <2>4
  <1>11. ASSUME NEW d \in Docs \ dirty', d \notin Touched' PROVE Settled(d)'
    <2>1. d \notin S /\ \A e \in Callers \ {c} : d \notin Touches(e)
        BY <1>4, <1>11 DEF Touched
    <2>2. d \notin Touched
        BY <1>5, <2>1 DEF Touched
    <2>3. Settled(d) /\ Unmoved(d)
        BY <1>6, <1>11, <2>1, <2>2 DEF IInv, AllSettled, Kept
    <2> QED
        BY <1>2, <2>3, SettledStays
  <1> QED
      BY <1>6, <1>7, <1>8, <1>9, <1>10, <1>11 DEF IInv, AllOwned, AllSettled

(* What a call reads of documents that are nobody's. *)
LEMMA ReadSettled ==
    ASSUME IInv, UNCHANGED <<disk, row>>, NEW d \in Docs, d \notin Touched, d \notin dirty
    PROVE  Settled(d)'
  BY SettledStays, SameDisk DEF IInv, AllSettled

LEMMA SnapshotType ==
    ASSUME IInv, NEW S \in SUBSET Docs
    PROVE  /\ Snapshot(S) \in [Docs -> Rows \cup {NoRow}]
           /\ \A d \in Docs : Snapshot(S)[d] = IF d \in S THEN row[d] ELSE NoRow
           /\ {d \in Docs : Snapshot(S)[d] # NoRow} = S \cap Registered
  <1>1. row \in [Docs -> Rows \cup {NoRow}]
      BY DEF IInv, TypeOK
  <1> QED
      BY <1>1 DEF Snapshot, Registered

(* A call that begins with a list of rows. *)
LEMMA BeginsList ==
    ASSUME IInv, NEW c \in Callers, NEW S \in SUBSET Docs, NEW new \in Calls, Begin(c, new, S),
           UNCHANGED <<disk, gone, row, dirty>>,
           NEW kind \in {"reclassify", "delete", "rename", "repair", "clear"},
           NEW cat \in Folders \cup {Raws},
           new.kind = kind, new.at = "list", new.doc = NoDoc, new.path = NoPath,
           new.from = NoPath, new.cat = cat, new.seen = Snapshot(S),
           kind \in {"repair", "clear"} => Lock(c) /\ S = Docs,
           kind \notin {"repair", "clear"} => lock' = lock /\ S \subseteq Registered,
           kind = "rename" => cat \in Folders,
           kind \in {"reclassify", "delete"} => \E d \in Docs : S = {d}
    PROVE  IInv'
  <1>1. /\ new.kind = kind /\ new.at = "list" /\ new.doc = NoDoc
        /\ new.path = NoPath /\ new.from = NoPath /\ new.cat = cat /\ new.seen = Snapshot(S)
      OBVIOUS
  <1>2. call'[c] = new
      BY CallFacts DEF Begin
  <1>3. ToDo(c)' = S \cap Registered
      BY <1>1, <1>2, SnapshotType DEF ToDo
  <1>4. Touches(c)' = S
      BY <1>1, <1>2, <1>3, NothingAssumption DEF Touches
  <1>5. Shape(c)'
    <2>1. "list" \in PlacesOf[kind] /\ ~Walking(c)'
        BY <1>1, <1>2 DEF PlacesOf, Walking
    <2>2. kind \in {"reclassify", "delete"} => \A d, e \in S : d = e
        OBVIOUS
    <2>3. kind \in {"reclassify", "delete"} => ToDo(c)' # {}
        BY <1>3
    <2> QED
        BY <1>1, <1>2, <1>4, <2>1, <2>2, <2>3, NothingAssumption, NoneAssumption DEF Shape
  <1>6. ASSUME NEW d \in S \ Touched PROVE Owned(c, d)'
    <2>1. d \notin dirty => Settled(d)'
        BY <1>6, ReadSettled
    <2>2. call'[c].seen[d] = row'[d]
        BY <1>1, <1>2, SnapshotType
    <2> QED
        BY <1>1, <1>2, <1>6, <2>1, <2>2, NothingAssumption DEF Owned, Walking
  <1>7. row' \in [Docs -> Rows \cup {NoRow}]
      BY CallFacts DEF TypeOK
  <1>8. Lock(c) \/ (lock' = lock /\ new.kind \notin {"scan", "repair", "clear"})
      BY <1>1
  <1>9. new \in Calls /\ new.at # "move"
      BY <1>1
  <1> QED
      BY <1>4, <1>5, <1>6, <1>7, <1>8, <1>9, BeginKeeps

LEMMA ScanKeeps ==
    ASSUME IInv, NEW c \in Callers, Scan(c)
    PROVE  IInv'
  <1>1. PICK n \in {Raws} \X Bases, k \in Folders :
          /\ disk[n] # NoDoc /\ row[disk[n]] = NoRow /\ Lock(c)
          /\ row' = [row EXCEPT ![disk[n]] = [orig |-> n, new |-> NoPath, cat |-> k]]
          /\ Begin(c, [Idle EXCEPT !.kind = "scan", !.at = "move", !.doc = disk[n],
                                   !.path = n, !.cat = k], {disk[n]})
          /\ UNCHANGED <<disk, gone, dirty>>
      BY DEF Scan
  <1>2. n \in Names
      BY DEF Names
  <1>3. PICK d \in Docs : d = disk[n]
      BY <1>1, <1>2, CallFacts DEF TypeOK
  <1> DEFINE new == [Idle EXCEPT !.kind = "scan", !.at = "move", !.doc = d, !.path = n, !.cat = k]
             r == [orig |-> n, new |-> NoPath, cat |-> k]
  <1>4. r \in Rows /\ r # NoRow /\ r.cat = k
      BY <1>2, NoneAssumption DEF Rows
  <1>5. row' \in [Docs -> Rows \cup {NoRow}] /\ row'[d] = r /\ \A e \in Docs \ {d} : row'[e] = row[e]
    <2>1. row' = [row EXCEPT ![d] = r]
        BY <1>1, <1>3
    <2> HIDE DEF r
    <2> QED
        BY <1>4, <2>1, CallFacts DEF TypeOK
  <1> HIDE DEF r
  <1>6. /\ new \in Calls /\ new.kind = "scan" /\ new.at = "move" /\ new.doc = d
        /\ new.path = n /\ new.from = NoPath /\ new.cat = k
        /\ \A e \in Docs : new.seen[e] = NoRow
      BY <1>2 DEF Idle, Calls, Kinds, Places
  <1>7. Begin(c, new, {d})
      BY <1>1, <1>3
  <1> HIDE DEF new
  <1>8. call'[c] = new
      BY <1>7, CallFacts DEF Begin
  <1>9. ToDo(c)' = {} /\ Touches(c)' = {d}
    <2>1. ToDo(c)' = {}
        BY <1>6, <1>8 DEF ToDo
    <2> QED
        BY <1>6, <1>8, <2>1 DEF Touches
  <1>10. Shape(c)'
    <2>1. "move" \in PlacesOf["scan"] /\ ~Walking(c)'
        BY <1>6, <1>8 DEF PlacesOf, Walking
    <2> QED
        BY <1>2, <1>6, <1>8, <1>9, <2>1 DEF Shape
  <1>11. Owned(c, d)'
    <2>1. disk'[n] = d /\ row'[d] # NoRow /\ row'[d].cat = k
        BY <1>1, <1>3, <1>4, <1>5
    <2>2. InHand(c, d)'
        BY <1>2, <1>6, <1>8, <2>1 DEF InHand, Agrees
    <2> QED
        BY <1>6, <1>8, <2>2 DEF Owned, Walking
  <1>12. new.at = "move" => new.cat \in Folders
      BY <1>6
  <1>13. new \in Calls /\ Lock(c) /\ UNCHANGED <<disk, gone, dirty>>
      BY <1>1, <1>6
  <1> QED
      BY <1>5, <1>7, <1>9, <1>10, <1>11, <1>12, <1>13, BeginKeeps

LEMMA EditKeeps ==
    ASSUME IInv, NEW c \in Callers, Edit(c)
    PROVE  IInv'
  <1>1. PICK d \in Registered, k \in Folders :
          /\ Begin(c, [Idle EXCEPT !.kind = "edit", !.at = "edit", !.doc = d, !.cat = k,
                                   !.seen = Snapshot({d})], {d})
          /\ UNCHANGED <<disk, gone, row, lock, dirty>>
      BY DEF Edit
  <1>2. d \in Docs /\ row[d] # NoRow
      BY DEF Registered
  <1> DEFINE new == [Idle EXCEPT !.kind = "edit", !.at = "edit", !.doc = d, !.cat = k,
                                 !.seen = Snapshot({d})]
  <1>3. /\ new \in Calls /\ new.kind = "edit" /\ new.at = "edit" /\ new.doc = d
        /\ new.path = NoPath /\ new.from = NoPath /\ new.cat = k /\ new.seen = Snapshot({d})
    <2>1. Snapshot({d}) \in [Docs -> Rows \cup {NoRow}]
        BY <1>2, SnapshotType
    <2> QED
        BY <1>2, <2>1 DEF Idle, Calls, Kinds, Places
  <1>4. Begin(c, new, {d})
      BY <1>1
  <1> HIDE DEF new
  <1>5. call'[c] = new /\ new.seen[d] = row[d]
      BY <1>2, <1>3, <1>4, SnapshotType, CallFacts DEF Begin
  <1>6. ToDo(c)' = {d} /\ Touches(c)' = {d}
    <2>1. ToDo(c)' = {d} \cap Registered
        BY <1>2, <1>3, <1>5, SnapshotType DEF ToDo
    <2> QED
        BY <1>2, <1>3, <1>5, <2>1 DEF Touches
  <1>7. Shape(c)'
    <2>1. "edit" \in PlacesOf["edit"] /\ ~Walking(c)'
        BY <1>3, <1>5 DEF PlacesOf, Walking
    <2> QED
        BY <1>2, <1>3, <1>5, <1>6, <2>1, NoneAssumption DEF Shape
  <1>8. d \notin Touched => Owned(c, d)'
    <2> SUFFICES ASSUME d \notin Touched PROVE d \notin dirty => InHand(c, d)'
        BY <1>1, <1>3, <1>5 DEF Owned, Walking
    <2>1. d \notin dirty => Right(d)'
      <3>1. d \notin dirty => Settled(d)'
          BY <1>1, <1>2, ReadSettled
      <3> QED
          BY <1>1, <1>2, <3>1 DEF Settled
    <2> QED
        BY <1>1, <1>2, <1>3, <1>5, <2>1 DEF InHand
  <1>9. row' \in [Docs -> Rows \cup {NoRow}] /\ \A e \in Docs : row'[e] = row[e]
      BY <1>1, CallFacts DEF TypeOK
  <1>10. /\ UNCHANGED <<disk, gone, dirty>> /\ {d} \in SUBSET Docs
         /\ Lock(c) \/ (lock' = lock /\ new.kind \notin {"scan", "repair", "clear"})
         /\ new.at # "move" /\ new \in Calls
      BY <1>1, <1>2, <1>3
  <1> QED
      BY <1>4, <1>6, <1>7, <1>8, <1>9, <1>10, BeginKeeps

LEMMA ReadOneKeeps ==
    ASSUME IInv, NEW c \in Callers, ReadOne(c)
    PROVE  IInv'
  <1>1. PICK d \in Registered, k \in {"reclassify", "delete"} :
          /\ Begin(c, [Idle EXCEPT !.kind = k, !.at = "list", !.seen = Snapshot({d})], {d})
          /\ UNCHANGED <<disk, gone, row, lock, dirty>>
      BY DEF ReadOne
  <1>2. d \in Docs /\ {d} \subseteq Registered
      BY DEF Registered
  <1> DEFINE new == [Idle EXCEPT !.kind = k, !.at = "list", !.seen = Snapshot({d})]
  <1>3. /\ new \in Calls /\ new.kind = k /\ new.at = "list" /\ new.doc = NoDoc
        /\ new.path = NoPath /\ new.from = NoPath /\ new.cat = Raws /\ new.seen = Snapshot({d})
    <2>1. Snapshot({d}) \in [Docs -> Rows \cup {NoRow}]
        BY <1>2, SnapshotType
    <2> QED
        BY <2>1 DEF Idle, Calls, Kinds, Places
  <1>4. Begin(c, new, {d})
      BY <1>1
  <1> HIDE DEF new
  <1>5. k \in {"reclassify", "delete"} /\ lock' = lock /\ UNCHANGED <<disk, gone, row, dirty>>
      BY <1>1
  <1> QED
      BY <1>2, <1>3, <1>4, <1>5, BeginsList

LEMMA RenameKeeps ==
    ASSUME IInv, NEW c \in Callers, Rename(c)
    PROVE  IInv'
  <1> DEFINE Of(old) == {d \in Registered : row[d].cat = old}
             New(k, S) == [Idle EXCEPT !.kind = "rename", !.at = "list", !.cat = k,
                                       !.seen = Snapshot(S)]
  <1>1. PICK old \in Folders, k \in Folders :
          Begin(c, New(k, Of(old)), Of(old)) /\ UNCHANGED <<disk, gone, row, lock, dirty>>
      BY DEF Rename
  <1>2. PICK S \in SUBSET Registered : S = Of(old)
      OBVIOUS
  <1>3. S \in SUBSET Docs
      BY DEF Registered
  <1> HIDE DEF Of
  <1>4. PICK new : new = New(k, S)
      OBVIOUS
  <1>5. Begin(c, new, S)
      BY <1>1, <1>2, <1>4
  <1>6. /\ new \in Calls /\ new.kind = "rename" /\ new.at = "list" /\ new.doc = NoDoc
        /\ new.path = NoPath /\ new.from = NoPath /\ new.cat = k /\ new.seen = Snapshot(S)
    <2>1. Snapshot(S) \in [Docs -> Rows \cup {NoRow}]
        BY <1>3, SnapshotType
    <2> QED
        BY <1>4, <2>1 DEF Idle, Calls, Kinds, Places
  <1> QED
      BY <1>1, <1>3, <1>5, <1>6, BeginsList

LEMMA ReadAllKeeps ==
    ASSUME IInv, NEW c \in Callers, ReadAll(c)
    PROVE  IInv'
  <1>1. PICK k \in {"repair", "clear"} :
          /\ Lock(c)
          /\ Begin(c, [Idle EXCEPT !.kind = k, !.at = "list", !.seen = Snapshot(Docs)], Docs)
          /\ UNCHANGED <<disk, gone, row, dirty>>
      BY DEF ReadAll
  <1> DEFINE new == [Idle EXCEPT !.kind = k, !.at = "list", !.seen = Snapshot(Docs)]
  <1>2. /\ new \in Calls /\ new.kind = k /\ new.at = "list" /\ new.doc = NoDoc
        /\ new.path = NoPath /\ new.from = NoPath /\ new.cat = Raws /\ new.seen = Snapshot(Docs)
    <2>1. Snapshot(Docs) \in [Docs -> Rows \cup {NoRow}]
        BY SnapshotType
    <2> QED
        BY <2>1 DEF Idle, Calls, Kinds, Places
  <1>3. Begin(c, new, Docs)
      BY <1>1
  <1> HIDE DEF new
  <1>4. k \in {"repair", "clear"} /\ Lock(c) /\ UNCHANGED <<disk, gone, row, dirty>>
      BY <1>1
  <1> QED
      BY <1>2, <1>3, <1>4, BeginsList

-----------------------------------------------------------------------------
(* The user *)

LEMMA OutsideKeeps ==
    ASSUME IInv, call' = call, TypeOK', OneName',
           \A e \in Callers : alone'[e] \subseteq alone[e],
           \A e \in Callers, d \in Docs : Owned(e, d)',
           \A d \in Docs : d \in dirty' \/ (d \notin dirty /\ (Settled(d) => Settled(d)'))
    PROVE  IInv'
  <1>1. \A e \in Callers : Touches(e)' = Touches(e)
      BY DEF Touches, ToDo
  <1>2. ASSUME NEW e \in Callers PROVE Shape(e)'
    <2>1. Shape(e)
        BY CallFacts
    <2> QED
        BY <2>1 DEF Shape, Touches, ToDo, Walking
  <1>3. Exclusive'
      BY <1>1 DEF IInv, Exclusive
  <1>4. AllSettled'
      BY <1>1 DEF IInv, AllSettled, Touched
  <1> QED
      BY <1>2, <1>3, <1>4 DEF IInv, AllOwned

LEMMA TakeAwayKeeps ==
    ASSUME IInv, NEW d \in Docs, TakeAway(d)
    PROVE  IInv'
  <1>1. PICK n \in Names : disk[n] = d /\ disk' = [disk EXCEPT ![n] = NoDoc]
      BY DEF TakeAway
  <1>2. /\ UNCHANGED <<row, lock, call>> /\ gone' = gone \cup {d}
        /\ faults < MaxFaults /\ faults' = faults + 1
        /\ dirty' = dirty \cup {d} /\ alone' = [e \in Callers |-> alone[e] \ {d}]
      BY DEF TakeAway, Spoil
  <1>3. TypeOK
      BY DEF IInv
  <1>4. /\ disk' \in [Names -> Docs \cup {NoDoc}] /\ OneName'
        /\ \A x \in Docs \ {d} : Unmoved(x)
    <2>1. disk[n] # NoDoc
        BY <1>1, NothingAssumption
    <2> QED
        BY <1>1, <1>2, <2>1, FileGoes
  <1>5. TypeOK'
    <2>1. faults' \in 0 .. MaxFaults
        BY <1>2, <1>3, FaultAssumption DEF TypeOK
    <2>2. DataOK'
        BY <1>2, <1>3, <1>4, <2>1 DEF DataOK, TypeOK
    <2>3. ControlOK'
        BY <1>2, <1>3, TypeParts DEF ControlOK
    <2> QED
        BY <2>2, <2>3, TypePartsNext
  <1>6. \A e \in Callers : alone'[e] \subseteq alone[e]
      BY <1>2
  <1>7. ASSUME NEW e \in Callers, NEW x \in Docs PROVE Owned(e, x)'
    <2>1. CASE x = d
        BY <1>2, <2>1 DEF Owned
    <2>2. CASE x # d
      <3>1. Kept(x) /\ Owned(e, x) /\ call'[e] = call[e] /\ (x \in alone'[e] => x \in alone[e])
          BY <1>2, <1>4, <1>6, <2>2, CallFacts DEF Kept
      <3> QED
          BY <1>3, <3>1, OwnedStays
    <2> QED
        BY <2>1, <2>2
  <1>8. ASSUME NEW x \in Docs
        PROVE  x \in dirty' \/ (x \notin dirty /\ (Settled(x) => Settled(x)'))
      BY <1>2, <1>3, <1>4, SettledStays
  <1> QED
      BY <1>2, <1>4, <1>5, <1>6, <1>7, <1>8, OutsideKeeps

LEMMA DropKeeps ==
    ASSUME IInv, NEW d \in Docs, Drop(d)
    PROVE  IInv'
  <1>1. PICK n \in Free(Raws) : disk' = [disk EXCEPT ![n] = d]
      BY DEF Drop
  <1>2. /\ UNCHANGED <<gone, row, lock, call, alone, dirty, faults>>
        /\ \A m \in Names : disk[m] # d
      BY DEF Drop
  <1>3. n \in Names /\ n \notin Archive /\ disk[n] = NoDoc /\ Archive \subseteq Names
      BY FolderAssumption DEF Free, Names, Archive
  <1>4. TypeOK /\ OneName /\ disk \in [Names -> Docs \cup {NoDoc}]
      BY DEF IInv, TypeOK
  <1>5. \A m \in Names : disk'[m] = IF m = n THEN d ELSE disk[m]
      BY <1>1, <1>3, <1>4
  <1>6. TypeOK'
    <2>1. DataOK'
        BY <1>1, <1>2, <1>4 DEF DataOK, TypeOK
    <2>2. ControlOK'
        BY <1>2, <1>4, TypeParts DEF ControlOK
    <2> QED
        BY <2>1, <2>2, TypePartsNext
  <1>7. OneName'
      BY <1>2, <1>4, <1>5 DEF OneName
  <1>8. \A x \in Docs \ {d} : Kept(x)
      BY <1>2, <1>3, <1>5, NothingAssumption DEF Kept, Unmoved
  <1>9. ~Filed(d) /\ ~Filed(d)' /\ ~Right(d)
      BY <1>2, <1>3, <1>5 DEF Filed, Right, Archive
  <1>10. ASSUME NEW e \in Callers, NEW x \in Docs PROVE Owned(e, x)'
    <2>1. CASE x # d
      <3>1. Kept(x) /\ Owned(e, x) /\ call'[e] = call[e] /\ (x \in alone'[e] => x \in alone[e])
          BY <1>2, <1>8, <2>1, CallFacts
      <3> QED
          BY <1>4, <3>1, OwnedStays
    <2>2. CASE x = d
      <3> SUFFICES ASSUME d \in alone[e] PROVE Owned(e, d)'
          BY <1>2, <2>2 DEF Owned
      <3>1. InHand(e, d) => InHand(e, d)'
          BY <1>2, <1>3, <1>9 DEF InHand, Agrees
      <3>2. Settled(d) => Settled(d)'
          BY <1>2, <1>9 DEF Settled
      <3>3. Walking(e) => call[e].path # n
        <4>1. call[e].from # NoPath => call[e].path \in Archive \cup {NoPath}
            BY CallFacts DEF Shape
        <4>2. call[e].at = "files" => call[e].path = NoPath
            BY CallFacts DEF Shape
        <4> QED
            BY <1>3, <4>1, <4>2, NoneAssumption DEF Walking
      <3>4. \A m \in Archive : disk'[m] # d
          BY <1>9 DEF Filed, Archive
      <3>5. call[e].path \in Names /\ Walking(e) => disk'[call[e].path] # d
          BY <1>2, <1>5, <3>3
      <3>6. Touches(e)' = Touches(e) /\ ToDo(e)' = ToDo(e) /\ (Walking(e)' <=> Walking(e))
          BY <1>2 DEF Touches, ToDo, Walking
      <3>7. Owned(e, d)
          BY CallFacts
      <3> QED
          BY <1>2, <3>1, <3>2, <3>4, <3>5, <3>6, <3>7 DEF Owned, Archive
    <2> QED
        BY <2>1, <2>2
  <1>11. ASSUME NEW x \in Docs
         PROVE  x \in dirty' \/ (x \notin dirty /\ (Settled(x) => Settled(x)'))
    <2>1. Settled(d) => Settled(d)'
        BY <1>2, <1>9 DEF Settled
    <2> QED
        BY <1>2, <1>4, <1>8, <2>1, SettledStays DEF Kept
  <1> QED
      BY <1>2, <1>6, <1>7, <1>10, <1>11, OutsideKeeps

-----------------------------------------------------------------------------
(* The invariant *)

LEMMA InitHolds == Init => IInv
  <1> SUFFICES ASSUME Init PROVE IInv
      OBVIOUS
  <1>1. TypeOK
    <2>1. DataOK
        BY FaultAssumption DEF Init, DataOK
    <2>2. /\ call \in [Callers -> Calls] /\ alone \in [Callers -> SUBSET Docs]
          /\ \A c \in Callers : call[c] = Idle
        BY IdleType DEF Init
    <2>3. Idle.kind = "none" /\ Idle.at = "idle"
        BY DEF Idle
    <2>4. ControlOK
        BY <2>2, <2>3 DEF Init, ControlOK
    <2> QED
        BY <2>1, <2>4, TypeParts
  <1>2. ASSUME NEW c \in Callers
        PROVE  call[c] = Idle /\ alone[c] = {} /\ ToDo(c) = {} /\ Touches(c) = {} /\ Shape(c)
    <2>1. call[c] = Idle /\ alone[c] = {}
        BY DEF Init
    <2>2. ToDo(c) = {} /\ Touches(c) = {}
        BY <2>1, NothingAssumption DEF ToDo, Touches, Idle
    <2> QED
        BY <2>1, <2>2, NothingAssumption DEF Shape, PlacesOf, Idle, Walking
  <1>3. Exclusive /\ AllOwned
      BY <1>2 DEF Exclusive, AllOwned, Owned
  <1>4. OneName /\ \A d \in Docs : row[d] = NoRow /\ ~Filed(d)
      BY NothingAssumption DEF Init, OneName, Filed, Archive, Names
  <1> QED
      BY <1>1, <1>2, <1>3, <1>4 DEF IInv, AllSettled, Settled

LEMMA CallKeeps ==
    ASSUME IInv, NEW c \in Callers,
           \/ EditRow(c) \/ StatOld(c) \/ FindFile(c) \/ FindNone(c) \/ Purge(c)
           \/ Move(c) \/ Update(c) \/ Trash(c) \/ Back(c)
           \/ ListEnds(c) \/ Walk(c) \/ NextFile(c) \/ Recat(c) \/ FilesEnd(c) \/ Fails(c)
    PROVE  IInv'
  <1>1. Effect(c) /\ TypeOK' /\ OneName'
      BY EditRowStep, StatOldStep, FindFileStep, FindNoneStep, PurgeStep, MoveStep, UpdateStep,
         TrashStep, BackStep, ListEndsStep, WalkStep, NextFileStep, RecatStep, FilesEndStep, FailsStep
  <1> QED
      BY <1>1, EffectKeeps

LEMMA StillKeeps == IInv /\ UNCHANGED vars => IInv'
  <1> SUFFICES ASSUME IInv, UNCHANGED vars PROVE IInv'
      OBVIOUS
  <1>1. UNCHANGED <<disk, gone, row, lock, call, alone, dirty, faults>>
      BY DEF vars
  <1>2. TypeOK' /\ OneName' /\ \A d \in Docs : Kept(d)
      BY <1>1, SameDisk DEF IInv, TypeOK, Kept
  <1>3. ASSUME NEW e \in Callers, NEW d \in Docs PROVE Owned(e, d)'
    <2>1. Owned(e, d) /\ TypeOK
        BY CallFacts
    <2> QED
        BY <1>1, <1>2, <2>1, OwnedStays
  <1>4. \A d \in Docs : Settled(d) => Settled(d)'
      BY <1>2, SettledStays DEF IInv, Kept
  <1> QED
      BY <1>1, <1>2, <1>3, <1>4, OutsideKeeps

LEMMA StepHolds == IInv /\ [Next]_vars => IInv'
  <1> SUFFICES ASSUME IInv, [Next]_vars PROVE IInv'
      OBVIOUS
  <1>1. CASE Next
    <2>1. ASSUME NEW c \in Callers, Scan(c) \/ Edit(c) \/ ReadOne(c) \/ Rename(c) \/ ReadAll(c)
          PROVE  IInv'
        BY <2>1, ScanKeeps, EditKeeps, ReadOneKeeps, RenameKeeps, ReadAllKeeps
    <2>2. ASSUME NEW d \in Docs, Drop(d) \/ TakeAway(d) PROVE IInv'
        BY <2>2, DropKeeps, TakeAwayKeeps
    <2> QED
        BY <1>1, <2>1, <2>2, CallKeeps DEF Next
  <1>2. CASE UNCHANGED vars
      BY <1>2, StillKeeps
  <1> QED
      BY <1>1, <1>2

(* The invariant, for every number of callers, documents and faults: what   *)
(* scan, edit, reclassify, delete, rename, repair and clear read of a       *)
(* document that is theirs alone is still so when they act on it.           *)
THEOREM DocOpsInvariant == Spec => []IInv
  BY InitHolds, StepHolds, PTL DEF Spec

(* Every call has what its kind has at its place, and one that needs the    *)
(* scan lock has it, of all the operations in documents_write_docs.go,      *)
(* app/repair and app/clear.                                                *)
THEOREM DocOpsTypes == Spec => []TypeOK
  <1>1. IInv => TypeOK
      BY DEF IInv
  <1> QED
      BY <1>1, DocOpsInvariant, PTL

LEMMA QuietSettled ==
    ASSUME IInv, NEW d \in Docs, Quiet(d)
    PROVE  Settled(d)
  BY DEF IInv, AllSettled, Quiet, Touched

(* A registered document that no call is about, and whose calls did not     *)
(* overlap or fail, has a row that names its own file, in the folder of its *)
(* category: what putDocumentHandler, reclassify, rename, repair and clear  *)
(* leave behind when each has a document to itself.                         *)
THEOREM RowHasFileTheorem == Spec => []RowHasFile
  <1>1. IInv => RowHasFile
    <2> SUFFICES ASSUME IInv, NEW d \in Registered, Quiet(d)
                 PROVE  Right(d)
        BY DEF RowHasFile, Right
    <2>1. d \in Docs /\ row[d] # NoRow
        BY DEF Registered
    <2> QED
        BY <2>1, QuietSettled DEF Settled
  <1> QED
      BY <1>1, DocOpsInvariant, PTL

(* A file in the archive of a document that no call is about, and whose     *)
(* calls did not overlap or fail, has a row: repair and clear restore it    *)
(* too, for every file their walk over the archive finds.                   *)
THEOREM FileHasRowTheorem == Spec => []FileHasRow
  <1>1. IInv => FileHasRow
      BY QuietSettled DEF FileHasRow, Settled, Right, Registered
  <1> QED
      BY <1>1, DocOpsInvariant, PTL
=============================================================================

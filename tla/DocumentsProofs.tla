---------------------------- MODULE DocumentsProofs ----------------------------
(***************************************************************************)
(* Proofs about the documents: first their numbers and the search for      *)
(* them (DocumentNumbers, DossierSearch), then the files and technical     *)
(* sheets kept with them (StoredFiles, TechnicalSheets); for any           *)
(* documents, overlapping calls, kinds, typed levels and bound of the      *)
(* levels, any owners of files, tasks, failures and restarts.              *)
(*                                                                         *)
(* The counter is a row whose lock decides everything: the only call with  *)
(* a fresh level is the one that holds it, and its level is the next one.  *)
(* Every other level a document or a call shows was committed with an      *)
(* increment or typed by hand.                                             *)
(***************************************************************************)
EXTENDS DossierSearch, StoredFiles, TLAPS

-----------------------------------------------------------------------------
(***************************************************************************)
(* DocumentNumbers and DossierSearch                                       *)
(***************************************************************************)

\* The call that has incremented the counter holds it, with the next level.
CounterHeld ==
    \A c \in Call :
        /\ call[c].fresh <=> holder = c
        /\ call[c].fresh => /\ call[c].pc = "insert"
                            /\ call[c].level = next
                            /\ next <= MaxLevel

\* A call that inserts has a number to insert.
NumberKnown == \A c \in Call : call[c].pc = "insert" => call[c].level \in Level

TypeInv == TypeOK /\ CounterHeld /\ NumberKnown

\* What a step may put in the slot of one call.
Slot(m, c) ==
    /\ m \in Memory
    /\ ~m.fresh
    /\ m.pc = "insert" => m.level \in Level

-----------------------------------------------------------------------------
LEMMA Constants ==
    /\ NoLevel \notin Level
    /\ 0 \in Level => MaxLevel \in Nat
    /\ MaxLevel \in Nat
    /\ ByHand \subseteq Level
    /\ NoDoc \notin Doc
    /\ NoCall \notin Call
    /\ Kind \subseteq Prefix
    /\ "none" \notin Prefix /\ "gone" \notin Prefix
    BY NumbersAssumption DEF NoLevel, Level, Prefix

LEMMA IdleSlot == ASSUME NEW c \in Call PROVE Slot(Idle, c)
    BY DEF Slot, Idle, Memory, Prefix

LEMMA TypeInvInit == Init => TypeInv
<1> SUFFICES ASSUME Init PROVE TypeInv
    OBVIOUS
<1>1. \A kind \in {"CMD", "none"} : Blank(kind) \in Row
    BY DEF Blank, Row, Prefix
<1>2. row \in [Doc -> Row]
    BY <1>1 DEF Init
<1>3. call \in [Call -> Memory]
    BY IdleSlot DEF Init, Slot
<1>4. next \in 1 .. MaxLevel + 1
    BY Constants DEF Init
<1>5. CounterHeld /\ NumberKnown
    BY Constants DEF Init, CounterHeld, NumberKnown, Idle
<1> QED
    BY <1>2, <1>3, <1>4, <1>5 DEF Init, TypeInv, TypeOK

\* A step that changes one slot, and leaves the counter to its holder.
LEMMA OneSlot ==
    ASSUME TypeInv, NEW c \in Call, NEW m, Slot(m, c),
           call' = [call EXCEPT ![c] = m],
           holder' = IF holder = c THEN NoCall ELSE holder,
           next' = IF holder = c THEN next' ELSE next
    PROVE  /\ call' \in [Call -> Memory]
           /\ holder' \in Call \cup {NoCall}
           /\ CounterHeld' /\ NumberKnown'
<1>1. call \in [Call -> Memory] /\ holder \in Call \cup {NoCall}
    BY DEF TypeInv, TypeOK
<1>2. \A b \in Call : call'[b] = IF b = c THEN m ELSE call[b]
    BY <1>1
<1>3. holder' # c
    BY Constants
<1>4. \A b \in Call \ {c} : call[b].fresh <=> holder = b
    BY DEF TypeInv, CounterHeld
<1>5. CounterHeld'
  <2> SUFFICES ASSUME NEW b \in Call
               PROVE  /\ call'[b].fresh <=> holder' = b
                      /\ call'[b].fresh => /\ call'[b].pc = "insert"
                                           /\ call'[b].level = next'
                                           /\ next' <= MaxLevel
      BY DEF CounterHeld
  <2>1. CASE b = c
      BY <1>2, <1>3, <2>1 DEF Slot
  <2>2. CASE b # c
    <3>1. call'[b] = call[b] /\ (call[b].fresh <=> holder = b)
        BY <1>2, <1>4, <2>2
    <3>2. holder' = b <=> holder = b
        BY <2>2, Constants
    <3>3. holder = b => next' = next
        BY <2>2
    <3>4. call[b].fresh => /\ call[b].pc = "insert"
                           /\ call[b].level = next
                           /\ next <= MaxLevel
        BY DEF TypeInv, CounterHeld
    <3> QED
        BY <3>1, <3>2, <3>3, <3>4
  <2> QED
      BY <2>1, <2>2
<1>6. NumberKnown'
    BY <1>2 DEF TypeInv, NumberKnown, Slot
<1> QED
    BY <1>1, <1>2, <1>5, <1>6 DEF Slot

LEMMA OrderLevelType ==
    ASSUME TypeInv, NEW o PROVE OrderLevel(o) \in Level \cup {NoLevel}
    BY DEF TypeInv, TypeOK, Row, OrderLevel, Orders

LEMMA BeginCreateType ==
    ASSUME TypeInv, NEW c \in Call, NEW kind \in Kind, NEW o \in Orders \cup {NoDoc},
           NEW asked \in ByHand \cup {NoLevel}, BeginCreate(c, kind, o, asked)
    PROVE  TypeInv'
<1> DEFINE m == [pc |-> IF NeedsLevel(o, asked) THEN "allocate" ELSE "insert",
                 kind |-> kind, doc |-> NoDoc, order |-> o,
                 asked |-> IF NeedsLevel(o, asked) THEN asked ELSE NoLevel,
                 level |-> IF o # NoDoc THEN OrderLevel(o) ELSE asked,
                 fresh |-> FALSE]
<1>1. OrderLevel(o) \in Level \cup {NoLevel}
    BY OrderLevelType
<1>2. asked \in Level \cup {NoLevel} /\ kind \in Prefix /\ o \in Doc \cup {NoDoc}
    BY Constants DEF Orders
<1>3. m \in Memory
    BY <1>1, <1>2 DEF Memory
<1>4. m.pc = "insert" => m.level \in Level
    BY <1>1, <1>2 DEF NeedsLevel
<1>5. Slot(m, c)
    BY <1>3, <1>4 DEF Slot
<1>6. holder # c
    BY DEF BeginCreate, TypeInv, CounterHeld
<1>7. /\ call' \in [Call -> Memory] /\ holder' \in Call \cup {NoCall}
      /\ CounterHeld' /\ NumberKnown'
    BY <1>5, <1>6, OneSlot DEF BeginCreate
<1>8. typed' \subseteq Level
    BY <1>2 DEF BeginCreate, Typing, TypeInv, TypeOK
<1> QED
    BY <1>7, <1>8 DEF BeginCreate, TypeInv, TypeOK

LEMMA AllocateType ==
    ASSUME TypeInv, NEW c \in Call, Allocate(c)
    PROVE  TypeInv'
<1>1. call \in [Call -> Memory] /\ next \in 1 .. MaxLevel + 1 /\ next <= MaxLevel
    BY DEF Allocate, TypeInv, TypeOK
<1>2. next \in Level
    BY <1>1, Constants DEF Level
<1> DEFINE m == [call[c] EXCEPT !.pc = "insert", !.asked = NoLevel,
                             !.level = next, !.fresh = TRUE]
<1>3. \A b \in Call : call'[b] = IF b = c THEN m ELSE call[b]
    BY <1>1 DEF Allocate
<1>m. m \in Memory
  <2>1. \A x \in Memory : [x EXCEPT !.pc = "insert"] \in Memory
      BY DEF Memory
  <2>2. \A x \in Memory : [x EXCEPT !.asked = NoLevel] \in Memory
      BY DEF Memory
  <2>3. \A x \in Memory : [x EXCEPT !.level = next] \in Memory
      BY <1>2 DEF Memory
  <2>4. \A x \in Memory : [x EXCEPT !.fresh = TRUE] \in Memory
      BY DEF Memory
  <2> QED
      BY <1>1, <2>1, <2>2, <2>3, <2>4
<1>4. call' \in [Call -> Memory]
    BY <1>1, <1>3, <1>m DEF Allocate
<1>5. \A b \in Call : ~call[b].fresh
    BY Constants DEF Allocate, TypeInv, CounterHeld
<1>6. call'[c].fresh /\ call'[c].pc = "insert" /\ call'[c].level = next
    BY <1>1, <1>3 DEF Memory
<1>7. CounterHeld'
    BY <1>1, <1>3, <1>5, <1>6 DEF CounterHeld, Allocate
<1>8. NumberKnown'
    BY <1>2, <1>3, <1>6 DEF NumberKnown, TypeInv
<1> QED
    BY <1>4, <1>7, <1>8 DEF Allocate, TypeInv, TypeOK

LEMMA InsertType ==
    ASSUME TypeInv, NEW c \in Call, NEW d \in Doc, Insert(c, d)
    PROVE  TypeInv'
<1> DEFINE m == call[c]
<1>1. m \in Memory /\ m.level \in Level
    BY DEF Insert, TypeInv, TypeOK, NumberKnown
<1>2. NewRow(m) \in Row
    BY <1>1 DEF NewRow, Row, Memory
<1>3. \A e \in Doc : [row[e] EXCEPT !.level = m.level] \in Row
    BY <1>1 DEF TypeInv, TypeOK, Row
<1>4. row' \in [Doc -> Row]
    BY <1>2, <1>3 DEF Insert, TypeInv, TypeOK
<1>5. next' \in 1 .. MaxLevel + 1 /\ next' = IF holder = c THEN next' ELSE next
  <2>1. CASE holder = c
      BY <2>1, Constants DEF TypeInv, TypeOK, CounterHeld, Insert, CounterAfter
  <2>2. CASE holder # c
      BY <2>2 DEF TypeInv, TypeOK, Insert, CounterAfter
  <2> QED
      BY <2>1, <2>2
<1>6. /\ call' \in [Call -> Memory] /\ holder' \in Call \cup {NoCall}
      /\ CounterHeld' /\ NumberKnown'
    BY <1>5, IdleSlot, OneSlot DEF Insert, Release
<1>7. carried' \subseteq Level
    BY <1>1 DEF Insert, TypeInv, TypeOK
<1> QED
    BY <1>4, <1>5, <1>6, <1>7 DEF Insert, TypeInv, TypeOK

LEMMA AbortType ==
    ASSUME TypeInv, NEW c \in Call, Abort(c)
    PROVE  TypeInv'
<1>1. /\ call' \in [Call -> Memory] /\ holder' \in Call \cup {NoCall}
      /\ CounterHeld' /\ NumberKnown'
    BY IdleSlot, OneSlot DEF Abort, Release
<1> QED
    BY <1>1 DEF Abort, TypeInv, TypeOK

LEMMA RenumberType ==
    ASSUME TypeInv, NEW d \in Doc, NEW l \in ByHand, Renumber(d, l)
    PROVE  TypeInv'
<1>1. l \in Level /\ row[d] \in Row /\ row[d].kind \in Prefix
    BY Constants DEF Renumber, TypeInv, TypeOK, Prefix
<1>2. row' \in [Doc -> Row]
    BY <1>1 DEF Renumber, TypeInv, TypeOK, Row
<1>3. typed' \subseteq Level
    BY <1>1 DEF Renumber, Typing, TypeInv, TypeOK
<1> QED
    BY <1>2, <1>3 DEF Renumber, TypeInv, TypeOK, CounterHeld, NumberKnown

LEMMA ReadForEditType ==
    ASSUME TypeInv, NEW c \in Call, NEW d \in Doc, NEW kind \in Kind,
           NEW o \in Orders \cup {row[d].order}, NEW asked \in ByHand \cup {NoLevel},
           NEW retyped \in BOOLEAN, ReadForEdit(c, d, kind, o, asked, retyped)
    PROVE  TypeInv'
<1> DEFINE m == [pc |-> "edit", kind |-> kind, doc |-> d, order |-> o, asked |-> NoLevel,
                 level |-> LevelToWrite(d, retyped, asked), fresh |-> FALSE]
<1>1. row[d] \in Row /\ asked \in Level \cup {NoLevel} /\ kind \in Prefix
    BY Constants DEF TypeInv, TypeOK
<1>2. o \in Doc \cup {NoDoc} /\ LevelToWrite(d, retyped, asked) \in Level \cup {NoLevel}
    BY <1>1 DEF Orders, Row, LevelToWrite
<1>3. Slot(m, c)
    BY <1>1, <1>2 DEF Slot, Memory
<1>4. holder # c
    BY DEF ReadForEdit, TypeInv, CounterHeld
<1>5. /\ call' \in [Call -> Memory] /\ holder' \in Call \cup {NoCall}
      /\ CounterHeld' /\ NumberKnown'
    BY <1>3, <1>4, OneSlot DEF ReadForEdit
<1>6. typed' \subseteq Level
    BY <1>1 DEF ReadForEdit, Typing, TypeInv, TypeOK
<1> QED
    BY <1>5, <1>6 DEF ReadForEdit, TypeInv, TypeOK

LEMMA EditedType ==
    ASSUME NEW r \in Row, NEW m \in Memory
    PROVE  Edited(r, m) \in Row
    BY DEF Edited, Row, Memory

LEMMA WriteEditType ==
    ASSUME TypeInv, NEW c \in Call, WriteEdit(c)
    PROVE  TypeInv'
<1>1. call[c] \in Memory
    BY DEF TypeInv, TypeOK
<1>2. row' \in [Doc -> Row]
    BY <1>1, EditedType DEF WriteEdit, TypeInv, TypeOK
<1>3. holder # c
    BY DEF WriteEdit, TypeInv, CounterHeld
<1>4. /\ call' \in [Call -> Memory] /\ holder' \in Call \cup {NoCall}
      /\ CounterHeld' /\ NumberKnown'
    BY <1>3, IdleSlot, OneSlot DEF WriteEdit
<1> QED
    BY <1>2, <1>4 DEF WriteEdit, TypeInv, TypeOK

LEMMA RemoveType ==
    ASSUME TypeInv, NEW d \in Doc, Remove(d)
    PROVE  TypeInv'
<1>1. Blank("gone") \in Row
    BY DEF Blank, Row
<1>2. \A e \in Doc : [row[e] EXCEPT !.order = NoDoc] \in Row
    BY DEF TypeInv, TypeOK, Row
<1>3. row' \in [Doc -> Row]
    BY <1>1, <1>2 DEF Remove, TypeInv, TypeOK
<1> QED
    BY <1>3 DEF Remove, TypeInv, TypeOK, CounterHeld, NumberKnown

LEMMA TypeInvStep == TypeInv /\ [Next]_vars => TypeInv'
<1> SUFFICES ASSUME TypeInv, [Next]_vars PROVE TypeInv'
    OBVIOUS
<1>1. CASE UNCHANGED vars
    BY <1>1 DEF vars, TypeInv, TypeOK, CounterHeld, NumberKnown
<1>2. CASE Next
    BY <1>2, BeginCreateType, AllocateType, InsertType, AbortType, RenumberType,
       ReadForEditType, WriteEditType, RemoveType DEF Next
<1> QED
    BY <1>1, <1>2

LEMMA TypeInvAlways == Spec => []TypeInv
    BY TypeInvInit, TypeInvStep, PTL DEF Spec

\* Rows, the counter and the memories of calls have their types.
THEOREM TypeCorrect == Spec => []TypeOK
<1>1. TypeInv => TypeOK
    BY DEF TypeInv
<1> QED
    BY TypeInvAlways, <1>1, PTL

-----------------------------------------------------------------------------
(* The counter and the levels. *)

\* The counter and what was allocated move together, in the transaction of the
\* call that holds the counter.
LEMMA InsertCounts ==
    ASSUME TypeInv, NEW c \in Call, NEW d \in Doc, Insert(c, d)
    PROVE  \/ ~call[c].fresh /\ next' = next /\ carried' = carried
           \/ /\ call[c].fresh /\ call[c].level = next
              /\ next' = next + 1 /\ carried' = carried \cup {next}
    BY DEF TypeInv, CounterHeld, Insert, CounterAfter

LEMMA GapsStep == TypeInv /\ LevelsWithoutGaps /\ [Next]_vars => LevelsWithoutGaps'
<1> SUFFICES ASSUME TypeInv, LevelsWithoutGaps, [Next]_vars
             PROVE  LevelsWithoutGaps'
    OBVIOUS
<1>1. CASE next' = next /\ carried' = carried
    BY <1>1 DEF LevelsWithoutGaps
<1>2. CASE next' = next + 1 /\ carried' = carried \cup {next}
  <2>1. next \in Nat \ {0}
      BY Constants DEF TypeInv, TypeOK
  <2> QED
      BY <1>2, <2>1 DEF LevelsWithoutGaps
<1>3. \/ next' = next /\ carried' = carried
      \/ \E c \in Call, d \in Doc : Insert(c, d)
  <2>1. CASE UNCHANGED vars
      BY <2>1 DEF vars
  <2>2. CASE \E c \in Call : Allocate(c) \/ WriteEdit(c) \/ Abort(c)
      BY <2>2 DEF Allocate, WriteEdit, Abort
  <2>3. CASE \E d \in Doc : Remove(d) \/ \E l \in ByHand : Renumber(d, l)
      BY <2>3 DEF Remove, Renumber
  <2>4. ASSUME NEW c \in Call, NEW kind, NEW o, NEW asked, BeginCreate(c, kind, o, asked)
        PROVE  next' = next /\ carried' = carried
      BY <2>4 DEF BeginCreate
  <2>5. ASSUME NEW c \in Call, NEW d, NEW kind, NEW o, NEW asked, NEW retyped,
               ReadForEdit(c, d, kind, o, asked, retyped)
        PROVE  next' = next /\ carried' = carried
      BY <2>5 DEF ReadForEdit
  <2> QED
      BY <2>1, <2>2, <2>3, <2>4, <2>5 DEF Next
<1> QED
    BY <1>1, <1>2, <1>3, InsertCounts

\* No level is lost: what the counter has passed was given to a committed document.
THEOREM NoLevelIsLost == Spec => []LevelsWithoutGaps
<1>1. Init => LevelsWithoutGaps
    BY DEF Init, LevelsWithoutGaps
<1> QED
    BY <1>1, TypeInvAlways, GapsStep, PTL DEF Spec

\* The levels that are explained: typed by hand, or committed with the counter.
Known == typed \cup carried \cup {NoLevel}

\* Every level that a row shows, or that a call without a fresh one will write.
LevelsKnown ==
    /\ \A d \in Doc : row[d].level \in Known /\ row[d].number \in Known
    /\ \A c \in Call : call[c].fresh \/ call[c].level \in Known

\* What a step may do to the rows and the calls, when no level is forgotten.
LEMMA LevelsKept ==
    ASSUME TypeInv, LevelsKnown, Known \subseteq Known',
           \A d \in Doc : row'[d] = row[d] \/ (row'[d].level \in Known' /\ row'[d].number \in Known'),
           \A c \in Call : call'[c] = call[c] \/ call'[c].fresh \/ call'[c].level \in Known'
    PROVE  LevelsKnown'
    BY DEF LevelsKnown

LEMMA OrderLevelKnown ==
    ASSUME LevelsKnown, NEW o
    PROVE  OrderLevel(o) \in Known
    BY DEF LevelsKnown, OrderLevel, Orders, Known

LEMMA TypingKnown ==
    ASSUME NEW l, Typing(l), carried' = carried
    PROVE  Known \subseteq Known' /\ l \in Known'
    BY DEF Typing, Known

LEMMA IdleKnown ==
    ASSUME TypeInv, NEW c \in Call, call' = [call EXCEPT ![c] = Idle]
    PROVE  \A b \in Call : call'[b] = call[b] \/ call'[b].fresh \/ call'[b].level \in Known'
    BY DEF TypeInv, TypeOK, Idle, Known

LEMMA EditedLevels ==
    ASSUME NEW r \in Row, NEW m \in Memory
    PROVE  /\ Edited(r, m).level \in {r.level, m.level}
           /\ Edited(r, m).number \in {r.number, m.level}
<1>1. CASE m.level # NoLevel
    BY <1>1 DEF Edited
<1>2. CASE m.level = NoLevel
  <2>1. \A x \in Row, k \in Prefix :
            /\ [x EXCEPT !.kind = k] \in Row
            /\ [x EXCEPT !.kind = k].level = x.level
            /\ [x EXCEPT !.kind = k].number = x.number
      BY DEF Row
  <2>2. \A x \in Row, o \in Doc \cup {NoDoc} :
            /\ [x EXCEPT !.order = o].level = x.level
            /\ [x EXCEPT !.order = o].number = x.number
      BY DEF Row
  <2>3. m.kind \in Prefix /\ m.order \in Doc \cup {NoDoc}
      BY DEF Memory
  <2> QED
      BY <1>2, <2>1, <2>2, <2>3 DEF Edited
<1> QED
    BY <1>1, <1>2

LEMMA LevelsKnownStep == TypeInv /\ LevelsKnown /\ [Next]_vars => LevelsKnown'
<1> SUFFICES ASSUME TypeInv, LevelsKnown, [Next]_vars PROVE LevelsKnown'
    OBVIOUS
<1>t. call \in [Call -> Memory] /\ row \in [Doc -> Row]
    BY DEF TypeInv, TypeOK
<1>1. ASSUME NEW c \in Call, NEW kind \in Kind, NEW o \in Orders \cup {NoDoc},
             NEW asked \in ByHand \cup {NoLevel}, BeginCreate(c, kind, o, asked)
      PROVE  LevelsKnown'
  <2>1. Known \subseteq Known' /\ asked \in Known' /\ OrderLevel(o) \in Known
      BY <1>1, OrderLevelKnown, TypingKnown DEF BeginCreate
  <2>2. call'[c].level \in Known'
      BY <1>1, <1>t, <2>1 DEF BeginCreate
  <2>3. \A b \in Call : call'[b] = call[b] \/ call'[b].fresh \/ call'[b].level \in Known'
      BY <1>1, <1>t, <2>2 DEF BeginCreate
  <2> QED
      BY <1>1, <2>1, <2>3, LevelsKept DEF BeginCreate
<1>2. ASSUME NEW c \in Call, Allocate(c) PROVE LevelsKnown'
  <2>1. \A b \in Call : call'[b] = call[b] \/ call'[b].fresh
      BY <1>2, <1>t DEF Allocate, Memory
  <2> QED
      BY <1>2, <2>1, LevelsKept DEF Allocate, Known
<1>3. ASSUME NEW c \in Call, NEW d \in Doc, Insert(c, d) PROVE LevelsKnown'
  <2>1. Known \subseteq Known'
      BY <1>3, InsertCounts DEF Insert, Known
  <2>2. call[c].level \in Known'
    <3>1. CASE call[c].fresh
        BY <1>3, <3>1 DEF Insert, Known
    <3>2. CASE ~call[c].fresh
        BY <2>1, <3>2 DEF LevelsKnown
    <3> QED
        BY <3>1, <3>2
  <2>3. \A e \in Doc : row'[e] = row[e] \/ (row'[e].level \in Known' /\ row'[e].number \in Known')
    <3> SUFFICES ASSUME NEW e \in Doc
                 PROVE  row'[e] = row[e] \/ (row'[e].level \in Known' /\ row'[e].number \in Known')
        OBVIOUS
    <3>1. CASE e = d
        BY <1>3, <2>2, <3>1 DEF Insert, NewRow
    <3>2. CASE e # d
      <4>1. row'[e] = row[e] \/ row'[e] = [row[e] EXCEPT !.level = call[c].level]
          BY <1>3, <3>2 DEF Insert
      <4>2. row[e].number \in Known' /\ row[e] \in Row
          BY <1>t, <2>1 DEF LevelsKnown
      <4> QED
          BY <2>2, <4>1, <4>2 DEF Row
    <3> QED
        BY <3>1, <3>2
  <2> QED
      BY <1>3, <2>1, <2>3, IdleKnown, LevelsKept DEF Insert
<1>4. ASSUME NEW c \in Call, Abort(c) PROVE LevelsKnown'
    BY <1>4, IdleKnown, LevelsKept DEF Abort, Known
<1>5. ASSUME NEW d \in Doc, NEW l \in ByHand, Renumber(d, l) PROVE LevelsKnown'
  <2>1. Known \subseteq Known' /\ l \in Known'
      BY <1>5, TypingKnown DEF Renumber
  <2>2. row'[d].level = l /\ row'[d].number = l
      BY <1>5, <1>t DEF Renumber, Row
  <2>3. \A e \in Doc \ {d} : row'[e] = row[e]
      BY <1>5, <1>t DEF Renumber
  <2> QED
      BY <1>5, <2>1, <2>2, <2>3, LevelsKept DEF Renumber
<1>6. ASSUME NEW c \in Call, NEW d \in Doc, NEW kind \in Kind,
             NEW o \in Orders \cup {row[d].order}, NEW asked \in ByHand \cup {NoLevel},
             NEW retyped \in BOOLEAN, ReadForEdit(c, d, kind, o, asked, retyped)
      PROVE  LevelsKnown'
  <2>1. Known \subseteq Known' /\ asked \in Known'
      BY <1>6, TypingKnown DEF ReadForEdit
  <2>2. LevelToWrite(d, retyped, asked) \in Known'
      BY <2>1 DEF LevelToWrite, LevelsKnown, Known
  <2>3. \A b \in Call : call'[b] = call[b] \/ call'[b].fresh \/ call'[b].level \in Known'
      BY <1>6, <1>t, <2>2 DEF ReadForEdit
  <2> QED
      BY <1>6, <2>1, <2>3, LevelsKept DEF ReadForEdit
<1>7. ASSUME NEW c \in Call, WriteEdit(c) PROVE LevelsKnown'
  <2>0. ~call[c].fresh
      BY <1>7 DEF WriteEdit, TypeInv, CounterHeld
  <2>1. Known' = Known /\ call[c].level \in Known
      BY <1>7, <2>0 DEF WriteEdit, Known, LevelsKnown
  <2>2. \A e \in Doc : row'[e] = row[e] \/ row'[e] = Edited(row[e], call[c])
      BY <1>7, <1>t DEF WriteEdit
  <2>3. \A e \in Doc : Edited(row[e], call[c]).level \in Known
                       /\ Edited(row[e], call[c]).number \in Known
      BY <1>t, <2>1, EditedLevels DEF LevelsKnown
  <2>4. \A e \in Doc : row'[e] = row[e] \/ (row'[e].level \in Known' /\ row'[e].number \in Known')
      BY <2>1, <2>2, <2>3
  <2>5. \A b \in Call : call'[b] = call[b] \/ call'[b].fresh \/ call'[b].level \in Known'
      BY <1>7, IdleKnown DEF WriteEdit
  <2> QED
      BY <2>1, <2>4, <2>5, LevelsKept
<1>8. ASSUME NEW d \in Doc, Remove(d) PROVE LevelsKnown'
  <2>1. \A e \in Doc : /\ row'[e].level \in {row[e].level, NoLevel}
                       /\ row'[e].number \in {row[e].number, NoLevel}
      BY <1>8, <1>t DEF Remove, Row, Blank
  <2>2. Known' = Known
      BY <1>8 DEF Remove, Known
  <2>3. \A e \in Doc : row'[e].level \in Known' /\ row'[e].number \in Known'
      BY <2>1, <2>2 DEF LevelsKnown, Known
  <2> QED
      BY <1>8, <2>2, <2>3, LevelsKept DEF Remove
<1>9. CASE UNCHANGED vars
    BY <1>9 DEF vars, LevelsKnown, Known
<1> QED
    BY <1>1, <1>2, <1>3, <1>4, <1>5, <1>6, <1>7, <1>8, <1>9 DEF Next

\* Only a level that somebody has typed ahead of the counter can be shown by a
\* document when the counter reaches it.
THEOREM OnlyTypedLevelsCollide == Spec => []AutomaticLevelIsFree
<1>1. Init => LevelsKnown
    BY DEF Init, LevelsKnown, Known, Blank, Idle
<1>2. TypeInv /\ LevelsWithoutGaps /\ LevelsKnown => AutomaticLevelIsFree
  <2> SUFFICES ASSUME TypeInv, LevelsWithoutGaps, LevelsKnown, NEW c \in Call, NEW d \in Doc,
                      call[c].fresh, call[c].level \in {row[d].level, row[d].number}
               PROVE  call[c].level \in typed
      BY DEF AutomaticLevelIsFree
  <2>1. call[c].level = next /\ next \in Nat \ {0}
      BY Constants DEF TypeInv, TypeOK, CounterHeld
  <2>2. next \notin carried /\ next # NoLevel
      BY <2>1 DEF LevelsWithoutGaps, NoLevel
  <2>3. call[c].level \in Known
      BY DEF LevelsKnown
  <2> QED
      BY <2>1, <2>2, <2>3 DEF Known
<1> QED
    BY <1>1, <1>2, TypeInvAlways, NoLevelIsLost, LevelsKnownStep, PTL DEF Spec

-----------------------------------------------------------------------------
(* The numbers implement the register. *)

Numbers == [d \in Doc |-> <<row[d].prefix, row[d].number>>]

LEMMA EditedKeepsNumber ==
    ASSUME NEW r \in Row, NEW m \in Memory, m.level = NoLevel
    PROVE  Edited(r, m).prefix = r.prefix /\ Edited(r, m).number = r.number
<1>1. \A x \in Row, k \in Prefix :
          /\ [x EXCEPT !.kind = k] \in Row
          /\ [x EXCEPT !.kind = k].prefix = x.prefix
          /\ [x EXCEPT !.kind = k].number = x.number
    BY DEF Row
<1>2. \A x \in Row, o \in Doc \cup {NoDoc} :
          /\ [x EXCEPT !.order = o].prefix = x.prefix
          /\ [x EXCEPT !.order = o].number = x.number
    BY DEF Row
<1>3. m.kind \in Prefix /\ m.order \in Doc \cup {NoDoc}
    BY DEF Memory
<1> QED
    BY <1>1, <1>2, <1>3 DEF Edited

\* A row takes a number that no other shows: it enters it, or had it already.
LEMMA NumberEntered ==
    ASSUME NEW d \in Doc, NEW prefix \in Prefix, NEW l \in Level, Unused(d, prefix, l),
           Numbers' = [Numbers EXCEPT ![d] = <<prefix, l>>]
    PROVE  [Register!Next]_Numbers
<1>1. CASE Numbers[d] = <<prefix, l>>
  <2>1. Numbers' = Numbers
      BY <1>1 DEF Numbers
  <2> QED
      BY <2>1
<1>2. CASE Numbers[d] # <<prefix, l>>
  <2>1. \A e \in Doc : Numbers[e] # <<prefix, l>>
      BY <1>2 DEF Numbers, Unused
  <2>2. Register!Enter(d, <<prefix, l>>)
      BY <2>1 DEF Register!Enter, Register!InUse, Numbers
  <2> QED
      BY <2>2 DEF Register!Next
<1> QED
    BY <1>1, <1>2

LEMMA NumbersKept ==
    ASSUME \A d \in Doc : row'[d].prefix = row[d].prefix /\ row'[d].number = row[d].number
    PROVE  [Register!Next]_Numbers
    BY DEF Numbers

LEMMA RegisterStep == TypeInv /\ [Next]_vars => [Register!Next]_Numbers
<1> SUFFICES ASSUME TypeInv, [Next]_vars PROVE [Register!Next]_Numbers
    OBVIOUS
<1>t. call \in [Call -> Memory] /\ row \in [Doc -> Row]
    BY DEF TypeInv, TypeOK
<1>1. CASE row' = row
    BY <1>1, NumbersKept
<1>2. ASSUME NEW c \in Call, NEW d \in Doc, Insert(c, d) PROVE [Register!Next]_Numbers
  <2> DEFINE m == call[c]
  <2>1. m.kind \in Prefix /\ m.level \in Level /\ Unused(d, m.kind, m.level)
      BY <1>2, <1>t DEF Insert, Memory, TypeInv, NumberKnown
  <2>2. row'[d].prefix = m.kind /\ row'[d].number = m.level
      BY <1>2 DEF Insert, NewRow
  <2>3. \A e \in Doc \ {d} : row'[e].prefix = row[e].prefix /\ row'[e].number = row[e].number
    <3>1. \A e \in Doc \ {d} :
              row'[e] = row[e] \/ row'[e] = [row[e] EXCEPT !.level = m.level]
        BY <1>2 DEF Insert
    <3>2. \A e \in Doc : row[e] \in Row
        BY <1>t
    <3> QED
        BY <3>1, <3>2 DEF Row
  <2>4. Numbers' = [Numbers EXCEPT ![d] = <<m.kind, m.level>>]
      BY <2>2, <2>3 DEF Numbers
  <2> QED
      BY <2>1, <2>4, NumberEntered
<1>3. ASSUME NEW d \in Doc, NEW l \in ByHand, Renumber(d, l) PROVE [Register!Next]_Numbers
  <2>1. row[d].kind \in Prefix /\ l \in Level /\ Unused(d, row[d].kind, l)
      BY <1>3, Constants DEF Renumber, Prefix
  <2>2. row'[d].prefix = row[d].kind /\ row'[d].number = l
      BY <1>3, <1>t DEF Renumber, Row
  <2>3. \A e \in Doc \ {d} : row'[e] = row[e]
      BY <1>3, <1>t DEF Renumber
  <2>4. Numbers' = [Numbers EXCEPT ![d] = <<row[d].kind, l>>]
      BY <2>2, <2>3 DEF Numbers
  <2> QED
      BY <2>1, <2>4, NumberEntered
<1>4. ASSUME NEW c \in Call, WriteEdit(c) PROVE [Register!Next]_Numbers
  <2> DEFINE m == call[c]
  <2>1. m \in Memory /\ m.doc \in Doc \cup {NoDoc}
      BY <1>t DEF Memory
  <2>2. \A e \in Doc : row'[e] = IF e = m.doc THEN Edited(row[e], m) ELSE row[e]
      BY <1>4, <1>t DEF WriteEdit
  <2>3. CASE m.level = NoLevel
    <3>1. \A e \in Doc : /\ Edited(row[e], m).prefix = row[e].prefix
                         /\ Edited(row[e], m).number = row[e].number
        BY <1>t, <2>1, <2>3, EditedKeepsNumber
    <3> QED
        BY <2>2, <3>1, NumbersKept
  <2>4. CASE m.level # NoLevel /\ m.doc \in Doc
    <3>1. m.kind \in Prefix /\ m.level \in Level /\ Unused(m.doc, m.kind, m.level)
        BY <1>4, <2>1, <2>4 DEF WriteEdit, Memory
    <3>a. row'[m.doc] = Edited(row[m.doc], m)
        BY <2>2, <2>4
    <3>b. Edited(row[m.doc], m).prefix = m.kind /\ Edited(row[m.doc], m).number = m.level
        BY <2>4 DEF Edited
    <3>2. row'[m.doc].prefix = m.kind /\ row'[m.doc].number = m.level
        BY <3>a, <3>b
    <3> HIDE DEF m
    <3>3. Numbers' = [Numbers EXCEPT ![m.doc] = <<m.kind, m.level>>]
        BY <2>2, <2>4, <3>2 DEF Numbers
    <3> QED
        BY <2>4, <3>1, <3>3, NumberEntered
  <2>5. CASE m.doc = NoDoc
      BY <2>2, <2>5, Constants, NumbersKept
  <2> QED
      BY <2>1, <2>3, <2>4, <2>5
<1>5. ASSUME NEW d \in Doc, Remove(d) PROVE [Register!Next]_Numbers
  <2>1. row'[d].prefix = "none" /\ row'[d].number = NoLevel
      BY <1>5 DEF Remove, Blank
  <2>2. \A e \in Doc \ {d} : row'[e].prefix = row[e].prefix /\ row'[e].number = row[e].number
    <3>1. \A e \in Doc \ {d} : row'[e] = row[e] \/ row'[e] = [row[e] EXCEPT !.order = NoDoc]
        BY <1>5 DEF Remove
    <3>2. \A e \in Doc : row[e] \in Row
        BY <1>t
    <3> QED
        BY <3>1, <3>2 DEF Row
  <2>3. Numbers' = [Numbers EXCEPT ![d] = Unnumbered]
      BY <1>5, <2>1, <2>2 DEF Numbers, Unnumbered
  <2>4. Register!Strike(d)
      BY <2>3 DEF Register!Strike, Numbers
  <2> QED
      BY <2>4 DEF Register!Next
<1>6. ASSUME NEW c \in Call, NEW kind, NEW o, NEW asked, BeginCreate(c, kind, o, asked)
      PROVE  row' = row
    BY <1>6 DEF BeginCreate
<1>7. ASSUME NEW c \in Call, NEW d, NEW kind, NEW o, NEW asked, NEW retyped,
             ReadForEdit(c, d, kind, o, asked, retyped)
      PROVE  row' = row
    BY <1>7 DEF ReadForEdit
<1>8. ASSUME NEW c \in Call, Allocate(c) \/ Abort(c) PROVE row' = row
    BY <1>8 DEF Allocate, Abort
<1>9. UNCHANGED vars => row' = row
    BY DEF vars
<1> QED
    BY <1>1, <1>2, <1>3, <1>4, <1>5, <1>6, <1>7, <1>8, <1>9 DEF Next

\* No two documents ever show the same number, whatever calls overlap.
THEOREM NumbersAreRegistered == Spec => ImplementsRegister
<1>1. Init => Register!Init
  <2>1. Init => \A d \in Doc : row[d].prefix = "none" /\ row[d].number = NoLevel
      BY DEF Init, Blank
  <2> QED
      BY <2>1 DEF Register!Init, Unnumbered
<1> QED
    BY <1>1, TypeInvAlways, RegisterStep, PTL
    DEF Spec, ImplementsRegister, Register!Spec, Numbers

-----------------------------------------------------------------------------
(* The lines of a document. *)

Lined == {"CMD", "ACH"} \cup InvoiceType

\* An invoice may change its type while it is edited; nothing else changes kind.
SameKind(k, l) == k = "gone" \/ k = l \/ {k, l} \subseteq InvoiceType

EditsKeepKind ==
    \A c \in Call :
        call[c].pc = "edit" => /\ call[c].doc \in Doc
                               /\ row[call[c].doc].kind # "none"
                               /\ SameKind(row[call[c].doc].kind, call[c].kind)

LEMMA EditedKind ==
    ASSUME NEW r \in Row, NEW m \in Memory
    PROVE  Edited(r, m).kind = m.kind
<1>1. CASE m.level # NoLevel
    BY <1>1 DEF Edited
<1>2. CASE m.level = NoLevel
  <2>1. \A x \in Row, k \in Prefix :
            [x EXCEPT !.kind = k] \in Row /\ [x EXCEPT !.kind = k].kind = k
      BY DEF Row
  <2>2. \A x \in Row, o \in Doc \cup {NoDoc} : [x EXCEPT !.order = o].kind = x.kind
      BY DEF Row
  <2>3. m.kind \in Prefix /\ m.order \in Doc \cup {NoDoc}
      BY DEF Memory
  <2> QED
      BY <1>2, <2>1, <2>2, <2>3 DEF Edited
<1> QED
    BY <1>1, <1>2

LEMMA EditedKeepsLines ==
    ASSUME NEW r \in Row, NEW m \in Memory, m.level = NoLevel
    PROVE  Edited(r, m).lines = r.lines
<1>1. \A x \in Row, k \in Prefix :
          [x EXCEPT !.kind = k] \in Row /\ [x EXCEPT !.kind = k].lines = x.lines
    BY DEF Row
<1>2. \A x \in Row, o \in Doc \cup {NoDoc} : [x EXCEPT !.order = o].lines = x.lines
    BY DEF Row
<1>3. m.kind \in Prefix /\ m.order \in Doc \cup {NoDoc}
    BY DEF Memory
<1> QED
    BY <1>1, <1>2, <1>3 DEF Edited

LEMMA KindsStep == TypeInv /\ EditsKeepKind /\ [Next]_vars => EditsKeepKind'
<1> SUFFICES ASSUME TypeInv, EditsKeepKind, [Next]_vars PROVE EditsKeepKind'
    OBVIOUS
<1>t. call \in [Call -> Memory] /\ row \in [Doc -> Row]
    BY DEF TypeInv, TypeOK
<1>k. ASSUME NEW c \in Call, call' = [call EXCEPT ![c] = Idle],
             \A d \in Doc : row[d].kind = "none" \/ row'[d].kind \in {row[d].kind, "gone"}
      PROVE  EditsKeepKind'
    BY <1>k, <1>t DEF EditsKeepKind, SameKind, Idle
<1>1. ASSUME NEW c \in Call, NEW kind, NEW o, NEW asked, BeginCreate(c, kind, o, asked)
      PROVE  EditsKeepKind'
    BY <1>1, <1>t DEF BeginCreate, EditsKeepKind
<1>2. ASSUME NEW c \in Call, Allocate(c) PROVE EditsKeepKind'
  <2>1. \A b \in Call \ {c} : call'[b] = call[b]
      BY <1>2, <1>t DEF Allocate
  <2>2. call'[c].pc = "insert"
      BY <1>2, <1>t DEF Allocate, Memory
  <2> QED
      BY <1>2, <2>1, <2>2 DEF Allocate, EditsKeepKind
<1>3. ASSUME NEW c \in Call, NEW d \in Doc, Insert(c, d) PROVE EditsKeepKind'
  <2>1. \A e \in Doc \ {d} : row'[e].kind = row[e].kind
    <3>1. \A e \in Doc \ {d} : row'[e] = row[e] \/ row'[e] = [row[e] EXCEPT !.level = call[c].level]
        BY <1>3 DEF Insert
    <3>2. \A e \in Doc : row[e] \in Row
        BY <1>t
    <3> QED
        BY <3>1, <3>2 DEF Row
  <2> QED
      BY <1>3, <1>k, <2>1 DEF Insert
<1>4. ASSUME NEW c \in Call, Abort(c) PROVE EditsKeepKind'
    BY <1>4, <1>k DEF Abort
<1>5. ASSUME NEW d \in Doc, NEW l \in ByHand, Renumber(d, l) PROVE EditsKeepKind'
  <2>1. \A e \in Doc : row'[e].kind = row[e].kind
      BY <1>5, <1>t DEF Renumber, Row
  <2> QED
      BY <1>5, <2>1 DEF Renumber, EditsKeepKind
<1>6. ASSUME NEW c \in Call, NEW d \in Doc, NEW kind, NEW o, NEW asked, NEW retyped,
             ReadForEdit(c, d, kind, o, asked, retyped)
      PROVE  EditsKeepKind'
  <2>1. row[d].kind # "none" /\ SameKind(row[d].kind, kind)
      BY <1>6, Constants DEF ReadForEdit, SameKind, MayBelong, Prefix
  <2>2. \A b \in Call : call'[b] = IF b = c
            THEN [pc |-> "edit", kind |-> kind, doc |-> d, order |-> o, asked |-> NoLevel,
                  level |-> LevelToWrite(d, retyped, asked), fresh |-> FALSE]
            ELSE call[b]
      BY <1>6, <1>t DEF ReadForEdit
  <2> QED
      BY <1>6, <2>1, <2>2 DEF ReadForEdit, EditsKeepKind
<1>7. ASSUME NEW c \in Call, WriteEdit(c) PROVE EditsKeepKind'
  <2>1. \A e \in Doc : row'[e] = IF e = call[c].doc THEN Edited(row[e], call[c]) ELSE row[e]
      BY <1>7, <1>t DEF WriteEdit
  <2>2. \A e \in Doc : Edited(row[e], call[c]).kind = call[c].kind
      BY <1>t, EditedKind
  <2>3. call[c].kind # "none" /\ SameKind(row[call[c].doc].kind, call[c].kind)
      BY <1>7, <1>t, Constants DEF WriteEdit, EditsKeepKind, Memory
  <2>4. row[call[c].doc].kind # "gone"
      BY <1>7, Constants DEF WriteEdit, MayBelong, Prefix
  <2>5. \A b \in Call \ {c} : call'[b] = call[b]
      BY <1>7, <1>t DEF WriteEdit
  <2>6. call'[c].pc # "edit"
      BY <1>7, <1>t DEF WriteEdit, Idle
  <2>7. \A k : SameKind(row[call[c].doc].kind, k) => SameKind(call[c].kind, k)
      BY <2>3, <2>4 DEF SameKind
  <2> QED
      BY <2>1, <2>2, <2>3, <2>5, <2>6, <2>7 DEF EditsKeepKind
<1>8. ASSUME NEW d \in Doc, Remove(d) PROVE EditsKeepKind'
  <2>1. \A e \in Doc : row'[e].kind \in {row[e].kind, "gone"}
      BY <1>8, <1>t DEF Remove, Row, Blank
  <2> QED
      BY <1>8, <2>1 DEF Remove, EditsKeepKind, SameKind
<1>9. CASE UNCHANGED vars
    BY <1>9 DEF vars, EditsKeepKind
<1> QED
    BY <1>1, <1>2, <1>3, <1>4, <1>5, <1>6, <1>7, <1>8, <1>9 DEF Next

LinesOf(r) == r.kind \in Lined /\ r.number # NoLevel => r.lines = r.number

LEMMA LinesStep ==
    TypeInv /\ EditsKeepKind /\ LinesFollowNumber /\ [Next]_vars => LinesFollowNumber'
<1> SUFFICES ASSUME TypeInv, EditsKeepKind, LinesFollowNumber, [Next]_vars
             PROVE  \A d \in Doc : LinesOf(row'[d])
    BY DEF LinesFollowNumber, LinesOf, Lined
<1>t. /\ call \in [Call -> Memory] /\ row \in [Doc -> Row]
      /\ \A d \in Doc : LinesOf(row[d])
    BY DEF TypeInv, TypeOK, LinesFollowNumber, LinesOf, Lined
<1>1. CASE row' = row
    BY <1>1, <1>t
<1>2. ASSUME NEW c \in Call, NEW d \in Doc, Insert(c, d) PROVE \A e \in Doc : LinesOf(row'[e])
  <2>1. LinesOf(row'[d])
      BY <1>2, NumbersAssumption DEF Insert, NewRow, LinesOf, Lined
  <2>2. \A e \in Doc \ {d} : row'[e] = row[e] \/ row'[e] = [row[e] EXCEPT !.level = call[c].level]
      BY <1>2 DEF Insert
  <2>3. \A x \in Row : LinesOf(x) => LinesOf([x EXCEPT !.level = call[c].level])
      BY DEF Row, LinesOf
  <2> QED
      BY <1>t, <2>1, <2>2, <2>3
<1>3. ASSUME NEW d \in Doc, NEW l \in ByHand, Renumber(d, l) PROVE \A e \in Doc : LinesOf(row'[e])
  <2>1. row'[d].number = l /\ row'[d].lines = l
      BY <1>3, <1>t DEF Renumber, Row
  <2>2. \A e \in Doc \ {d} : row'[e] = row[e]
      BY <1>3, <1>t DEF Renumber
  <2> QED
      BY <1>t, <2>1, <2>2 DEF LinesOf
<1>4. ASSUME NEW c \in Call, WriteEdit(c) PROVE \A e \in Doc : LinesOf(row'[e])
  <2>1. \A e \in Doc : row'[e] = IF e = call[c].doc THEN Edited(row[e], call[c]) ELSE row[e]
      BY <1>4, <1>t DEF WriteEdit
  <2>2. /\ call[c].doc \in Doc /\ SameKind(row[call[c].doc].kind, call[c].kind)
        /\ row[call[c].doc].kind \in MayBelong
      BY <1>4 DEF WriteEdit, EditsKeepKind
  <2>3. \/ call[c].kind \in {"OF", "LIV"}
        \/ call[c].kind \in InvoiceType /\ row[call[c].doc].kind \in InvoiceType
      BY <2>2, NumbersAssumption DEF SameKind, MayBelong
  <2>4. LinesOf(Edited(row[call[c].doc], call[c]))
    <3> DEFINE r == row[call[c].doc]
               m == call[c]
    <3>1. CASE m.level # NoLevel
        BY <2>3, <3>1, NumbersAssumption DEF Edited, LinesOf, Lined
    <3>2. CASE m.level = NoLevel
      <4>1. /\ Edited(r, m).kind = m.kind /\ Edited(r, m).number = r.number
            /\ Edited(r, m).lines = r.lines
          BY <1>t, <2>2, <3>2, EditedKind, EditedKeepsNumber, EditedKeepsLines
      <4>2. LinesOf(r)
          BY <1>t, <2>2
      <4> QED
          BY <2>3, <4>1, <4>2, NumbersAssumption DEF LinesOf, Lined
    <3> QED
        BY <3>1, <3>2
  <2> QED
      BY <1>t, <2>1, <2>4
<1>5. ASSUME NEW d \in Doc, Remove(d) PROVE \A e \in Doc : LinesOf(row'[e])
  <2>1. LinesOf(Blank("gone"))
      BY DEF LinesOf, Blank
  <2>2. \A x \in Row : LinesOf(x) => LinesOf([x EXCEPT !.order = NoDoc])
      BY DEF Row, LinesOf
  <2> QED
      BY <1>5, <1>t, <2>1, <2>2 DEF Remove
<1>6. ASSUME NEW c \in Call, NEW kind, NEW o, NEW asked, BeginCreate(c, kind, o, asked)
      PROVE  row' = row
    BY <1>6 DEF BeginCreate
<1>7. ASSUME NEW c \in Call, NEW d, NEW kind, NEW o, NEW asked, NEW retyped,
             ReadForEdit(c, d, kind, o, asked, retyped)
      PROVE  row' = row
    BY <1>7 DEF ReadForEdit
<1>8. ASSUME NEW c \in Call, Allocate(c) \/ Abort(c) PROVE row' = row
    BY <1>8 DEF Allocate, Abort
<1>9. UNCHANGED vars => row' = row
    BY DEF vars
<1> QED
    BY <1>1, <1>2, <1>3, <1>4, <1>5, <1>6, <1>7, <1>8, <1>9 DEF Next

\* The lines of an order or an invoice keep the level of the number it shows.
THEOREM LinesAgree == Spec => []LinesFollowNumber
<1>1. Init => EditsKeepKind /\ LinesFollowNumber
    BY DEF Init, EditsKeepKind, Idle, LinesFollowNumber, Blank
<1> QED
    BY <1>1, TypeInvAlways, KindsStep, LinesStep, PTL DEF Spec
-----------------------------------------------------------------------------
(* The search by number. *)

\* What the search needs of a row: a number is shown by a document of a kind, and
\* every document but an old order has one, with its own level.
Findable(d, r) ==
    /\ r.number # NoLevel => r.kind \in Prefix
    /\ d \notin Legacy => /\ r.level = r.number
                          /\ r.kind \in Prefix => r.number # NoLevel

RowsFindable == \A d \in Doc : Findable(d, row[d])

\* Only an old order waits for a level from the counter, so that no other row is
\* given a level apart from its number.
OldOrderWaits ==
    \A c \in Call :
        (call[c].pc = "allocate" \/ call[c].fresh) /\ call[c].order # NoDoc
            => call[c].order \in Legacy

\* Two documents never show the same number: what the register promises.
NumbersDiffer ==
    \A d, e \in Doc : Numbers[d] = Numbers[e] /\ Numbers[d] # Unnumbered => d = e

LEMMA NumbersDifferStep ==
    ASSUME NumbersDiffer, [Register!Next]_Numbers
    PROVE  NumbersDiffer'
<1>f. /\ \A d \in Doc : Numbers[d] = <<row[d].prefix, row[d].number>>
      /\ DOMAIN Numbers = Doc /\ DOMAIN Numbers' = Doc
    BY DEF Numbers
<1>1. CASE Numbers' = Numbers
    BY <1>1 DEF NumbersDiffer
<1>2. ASSUME NEW d \in Doc, Register!Strike(d) PROVE NumbersDiffer'
  <2>1. Numbers' = [Numbers EXCEPT ![d] = Unnumbered]
      BY <1>2 DEF Register!Strike, Numbers
  <2>2. \A e \in Doc : Numbers'[e] = IF e = d THEN Unnumbered ELSE Numbers[e]
      BY <1>f, <2>1
  <2> QED
      BY <2>2 DEF NumbersDiffer
<1>3. ASSUME NEW d \in Doc, NEW n \in Prefix \X Level, Register!Enter(d, n)
      PROVE  NumbersDiffer'
  <2>1. /\ Numbers' = [Numbers EXCEPT ![d] = n]
        /\ n \notin {Numbers[e] : e \in Doc} \ {Unnumbered}
      BY <1>3 DEF Register!Enter, Register!InUse, Numbers
  <2>2. n # Unnumbered
      BY Constants DEF Unnumbered
  <2>3. \A e \in Doc : Numbers'[e] = IF e = d THEN n ELSE Numbers[e]
      BY <1>f, <2>1
  <2>4. \A e \in Doc : Numbers[e] # n
      BY <2>1, <2>2
  <2> QED
      BY <2>3, <2>4 DEF NumbersDiffer
<1> QED
    BY <1>1, <1>2, <1>3 DEF Register!Next

\* A call that leaves its slot waits for nothing.
LEMMA IdleWaits ==
    ASSUME TypeInv, OldOrderWaits, NEW c \in Call, call' = [call EXCEPT ![c] = Idle]
    PROVE  OldOrderWaits'
    BY DEF TypeInv, TypeOK, OldOrderWaits, Idle

LEMMA OldOrderStep ==
    TypeInv /\ RowsFindable /\ OldOrderWaits /\ [Next]_vars => OldOrderWaits'
<1> SUFFICES ASSUME TypeInv, RowsFindable, OldOrderWaits, [Next]_vars
             PROVE  OldOrderWaits'
    OBVIOUS
<1>t. call \in [Call -> Memory] /\ row \in [Doc -> Row]
    BY DEF TypeInv, TypeOK
<1>1. ASSUME NEW c \in Call, NEW kind \in Kind, NEW o \in Orders \cup {NoDoc},
             NEW asked \in ByHand \cup {NoLevel}, BeginCreate(c, kind, o, asked)
      PROVE  OldOrderWaits'
  <2>1. \A b \in Call \ {c} : call'[b] = call[b]
      BY <1>1, <1>t DEF BeginCreate
  <2>2. /\ call'[c].order = o /\ ~call'[c].fresh
        /\ call'[c].pc = "allocate" => NeedsLevel(o, asked)
      BY <1>1, <1>t DEF BeginCreate
  <2>3. NeedsLevel(o, asked) /\ o # NoDoc => o \in Legacy
      BY DEF NeedsLevel, OrderLevel, Orders, RowsFindable, Findable, Prefix
  <2> QED
      BY <2>1, <2>2, <2>3 DEF OldOrderWaits
<1>2. ASSUME NEW c \in Call, Allocate(c) PROVE OldOrderWaits'
  <2>1. \A b \in Call \ {c} : call'[b] = call[b]
      BY <1>2, <1>t DEF Allocate
  <2>2. call'[c].order = call[c].order /\ call[c].pc = "allocate"
      BY <1>2, <1>t DEF Allocate, Memory
  <2> QED
      BY <2>1, <2>2 DEF OldOrderWaits
<1>3. ASSUME NEW c \in Call, NEW d \in Doc, NEW kind, NEW o, NEW asked, NEW retyped,
             ReadForEdit(c, d, kind, o, asked, retyped)
      PROVE  OldOrderWaits'
  <2>1. \A b \in Call \ {c} : call'[b] = call[b]
      BY <1>3, <1>t DEF ReadForEdit
  <2>2. call'[c].pc = "edit" /\ ~call'[c].fresh
      BY <1>3, <1>t DEF ReadForEdit
  <2> QED
      BY <2>1, <2>2 DEF OldOrderWaits
<1>4. ASSUME NEW c \in Call, Abort(c) \/ WriteEdit(c) \/ \E d \in Doc : Insert(c, d)
      PROVE  OldOrderWaits'
    BY <1>4, IdleWaits DEF Abort, WriteEdit, Insert
<1>5. ASSUME NEW d \in Doc, Remove(d) \/ \E l \in ByHand : Renumber(d, l)
      PROVE  OldOrderWaits'
    BY <1>5 DEF Remove, Renumber, OldOrderWaits
<1>6. CASE UNCHANGED vars
    BY <1>6 DEF vars, OldOrderWaits
<1> QED
    BY <1>1, <1>2, <1>3, <1>4, <1>5, <1>6 DEF Next

LEMMA FindableStep ==
    TypeInv /\ RowsFindable /\ OldOrderWaits /\ [Next]_vars => RowsFindable'
<1> SUFFICES ASSUME TypeInv, RowsFindable, OldOrderWaits, [Next]_vars
             PROVE  \A d \in Doc : Findable(d, row'[d])
    BY DEF RowsFindable
<1>t. /\ call \in [Call -> Memory] /\ row \in [Doc -> Row]
      /\ \A d \in Doc : Findable(d, row[d])
    BY DEF TypeInv, TypeOK, RowsFindable
<1>1. CASE row' = row
    BY <1>1, <1>t
<1>2. ASSUME NEW c \in Call, NEW d \in Doc, Insert(c, d)
      PROVE  \A e \in Doc : Findable(e, row'[e])
  <2>1. call[c].kind \in Prefix /\ call[c].level \in Level
      BY <1>2, <1>t DEF Insert, Memory, TypeInv, NumberKnown
  <2>2. Findable(d, row'[d])
      BY <1>2, <2>1, Constants DEF Insert, NewRow, Findable
  <2>3. ASSUME NEW e \in Doc \ {d} PROVE Findable(e, row'[e])
    <3>1. CASE row'[e] = row[e]
        BY <1>t, <3>1
    <3>2. CASE row'[e] # row[e]
      <4>1. /\ call[c].fresh /\ e = call[c].order
            /\ row'[e] = [row[e] EXCEPT !.level = call[c].level]
          BY <1>2, <3>2 DEF Insert
      <4>2. e \in Legacy
          BY <4>1, Constants DEF OldOrderWaits
      <4>3. row'[e].number = row[e].number /\ row'[e].kind = row[e].kind
          BY <1>t, <4>1 DEF Row
      <4> QED
          BY <1>t, <4>2, <4>3 DEF Findable
    <3> QED
        BY <3>1, <3>2
  <2> QED
      BY <2>2, <2>3
<1>3. ASSUME NEW d \in Doc, NEW l \in ByHand, Renumber(d, l)
      PROVE  \A e \in Doc : Findable(e, row'[e])
  <2>1. /\ row'[d].number = l /\ row'[d].level = l /\ row'[d].kind = row[d].kind
        /\ l # NoLevel /\ row[d].kind \in Prefix
      BY <1>3, <1>t, Constants DEF Renumber, Row, Prefix
  <2>2. \A e \in Doc \ {d} : row'[e] = row[e]
      BY <1>3, <1>t DEF Renumber
  <2> QED
      BY <1>t, <2>1, <2>2 DEF Findable
<1>4. ASSUME NEW c \in Call, WriteEdit(c) PROVE \A e \in Doc : Findable(e, row'[e])
  <2> DEFINE m == call[c]
  <2>1. \A e \in Doc : row'[e] = IF e = m.doc THEN Edited(row[e], m) ELSE row[e]
      BY <1>4, <1>t DEF WriteEdit
  <2>2. m \in Memory /\ m.kind \in Prefix
      BY <1>t DEF Memory
  <2>3. ASSUME NEW e \in Doc, e = m.doc PROVE Findable(e, Edited(row[e], m))
    <3>0. row[e].kind \in Prefix
        BY <1>4, <2>3 DEF WriteEdit, MayBelong, Prefix
    <3>1. CASE m.level # NoLevel
        BY <2>2, <3>1 DEF Edited, Findable
    <3>2. CASE m.level = NoLevel
      <4>1. /\ Edited(row[e], m).level = row[e].level
            /\ Edited(row[e], m).number = row[e].number
            /\ Edited(row[e], m).kind = m.kind
        <5>1. Edited(row[e], m).number = row[e].number /\ Edited(row[e], m).kind = m.kind
            BY <1>t, <2>2, <3>2, EditedKeepsNumber, EditedKind
        <5>2. \A x \in Row, k \in Prefix :
                  [x EXCEPT !.kind = k] \in Row /\ [x EXCEPT !.kind = k].level = x.level
            BY DEF Row
        <5>3. \A x \in Row, o \in Doc \cup {NoDoc} : [x EXCEPT !.order = o].level = x.level
            BY DEF Row
        <5>4. m.order \in Doc \cup {NoDoc}
            BY <2>2 DEF Memory
        <5>5. Edited(row[e], m).level = row[e].level
            BY <1>t, <2>2, <3>2, <5>2, <5>3, <5>4 DEF Edited
        <5> QED
            BY <5>1, <5>5
      <4> QED
          BY <1>t, <2>2, <3>0, <4>1 DEF Findable
    <3> QED
        BY <3>1, <3>2
  <2> QED
      BY <1>t, <2>1, <2>3
<1>5. ASSUME NEW d \in Doc, Remove(d) PROVE \A e \in Doc : Findable(e, row'[e])
  <2>1. \A e \in Doc : Findable(e, Blank("gone"))
      BY Constants DEF Findable, Blank
  <2>2. \A e \in Doc, x \in Row : Findable(e, x) => Findable(e, [x EXCEPT !.order = NoDoc])
      BY DEF Row, Findable
  <2> QED
      BY <1>5, <1>t, <2>1, <2>2 DEF Remove
<1>6. ASSUME NEW c \in Call, NEW kind, NEW o, NEW asked, BeginCreate(c, kind, o, asked)
      PROVE  row' = row
    BY <1>6 DEF BeginCreate
<1>7. ASSUME NEW c \in Call, NEW d, NEW kind, NEW o, NEW asked, NEW retyped,
             ReadForEdit(c, d, kind, o, asked, retyped)
      PROVE  row' = row
    BY <1>7 DEF ReadForEdit
<1>8. ASSUME NEW c \in Call, Allocate(c) \/ Abort(c) PROVE row' = row
    BY <1>8 DEF Allocate, Abort
<1>9. UNCHANGED vars => row' = row
    BY DEF vars
<1> QED
    BY <1>1, <1>2, <1>3, <1>4, <1>5, <1>6, <1>7, <1>8, <1>9 DEF Next

\* What a number typed in the header finds: the level it names, the text it is.
LEMMA SearchOfANumber ==
    ASSUME NumbersDiffer, NEW d \in Doc, row[d].number # NoLevel,
           row[d].kind \in Prefix, row[d].level = row[d].number
    PROVE  GlobalSearch(ByText(row[d].prefix, row[d].number)) = {d}
<1> DEFINE q == ByText(row[d].prefix, row[d].number)
<1>1. /\ ReferenceLevelHint(q) = row[d].number
      /\ q.entities = Entity
      /\ q.text = <<row[d].prefix, row[d].number>> /\ q.text # NoText
    BY DEF ByText, ReferenceLevelHint, NoText
<1>2. \A e \in Doc : TextMatch(q, e) <=> e = d
  <2>1. \A e \in Doc : Numbers[e] = <<row[e].prefix, row[e].number>>
      BY DEF Numbers
  <2>2. Numbers[d] # Unnumbered
      BY <2>1 DEF Unnumbered
  <2> QED
      BY <1>1, <2>1, <2>2 DEF TextMatch, NumbersDiffer
<1> HIDE DEF q
<1>3. ASSUME NEW kinds PROVE Hits(kinds, q) = IF row[d].kind \in kinds THEN {d} ELSE {}
    BY <1>1, <1>2 DEF Hits
<1>4. /\ Hits({"CMD"}, q) \cup Hits(InvoiceType, q) \cup Hits({"LIV"}, q)
            \cup Hits({"OF"}, q) \cup Hits({"ACH"}, q) = {d}
  <2>1. \/ row[d].kind \in {"CMD"} \/ row[d].kind \in InvoiceType \/ row[d].kind \in {"LIV"}
        \/ row[d].kind \in {"OF"} \/ row[d].kind \in {"ACH"}
      BY DEF Prefix
  <2> QED
      BY <1>3, <2>1
<1>5. GlobalSearch(q) =
          Hits({"CMD"}, q) \cup Hits(InvoiceType, q) \cup Hits({"LIV"}, q)
              \cup Hits({"OF"}, q) \cup Hits({"ACH"}, q)
  <2> DEFINE hits == [salesOrders |-> SearchSalesOrders(q),
                      invoices |-> SearchInvoices(q),
                      deliveries |-> SearchDeliveries(q),
                      productionOrders |-> SearchProductionOrders(q),
                      purchaseOrders |-> SearchPurchaseOrders(q)]
  <2>1. GlobalSearch(q) = UNION {hits[e] : e \in Entity}
      BY <1>1 DEF GlobalSearch
  <2>2. /\ hits["salesOrders"] = Hits({"CMD"}, q)
        /\ hits["invoices"] = Hits(InvoiceType, q)
        /\ hits["deliveries"] = Hits({"LIV"}, q)
        /\ hits["productionOrders"] = Hits({"OF"}, q)
        /\ hits["purchaseOrders"] = Hits({"ACH"}, q)
      BY DEF SearchSalesOrders, SearchInvoices, SearchDeliveries, SearchProductionOrders,
             SearchPurchaseOrders
  <2> HIDE DEF hits
  <2>3. UNION {hits[e] : e \in Entity} =
            hits["salesOrders"] \cup hits["invoices"] \cup hits["deliveries"]
                \cup hits["productionOrders"] \cup hits["purchaseOrders"]
      BY DEF Entity
  <2> QED
      BY <2>1, <2>2, <2>3
<1> QED
    BY <1>4, <1>5 DEF q

\* The number a document shows finds it, and it alone, whatever edits and
\* renumberings overlap, unless it is an order older than the shared levels.
THEOREM NumbersFindDocuments == Spec => []FoundByNumber
<1>1. Init => RowsFindable /\ OldOrderWaits /\ NumbersDiffer
  <2> SUFFICES ASSUME Init PROVE RowsFindable /\ OldOrderWaits /\ NumbersDiffer
      OBVIOUS
  <2>1. \A d \in Doc : /\ row[d].prefix = "none" /\ row[d].number = NoLevel
                       /\ row[d].level = NoLevel
                       /\ d \notin Legacy => row[d].kind = "none"
      BY DEF Init, Blank
  <2>2. RowsFindable
      BY <2>1, Constants DEF RowsFindable, Findable
  <2>3. OldOrderWaits
      BY DEF Init, OldOrderWaits, Idle
  <2> QED
      BY <2>1, <2>2, <2>3 DEF NumbersDiffer, Numbers, Unnumbered
<1>2. TypeInv /\ NumbersDiffer /\ [Next]_vars => NumbersDiffer'
    BY RegisterStep, NumbersDifferStep
<1>3. RowsFindable /\ NumbersDiffer => FoundByNumber
  <2> SUFFICES ASSUME RowsFindable, NumbersDiffer, NEW d \in Doc \ Legacy,
                      row[d].number # NoLevel
               PROVE  /\ GlobalSearch(ByText(row[d].prefix, row[d].number)) = {d}
                      /\ d \in FindByLevelOrRef(NoLevel, <<row[d].prefix, row[d].number>>).documents
      BY DEF FoundByNumber
  <2>1. row[d].kind \in Prefix /\ row[d].level = row[d].number
      BY DEF RowsFindable, Findable
  <2>2. ResolveLevel(NoLevel, <<row[d].prefix, row[d].number>>) = row[d].number
      BY DEF ResolveLevel
  <2> QED
      BY <2>1, <2>2, SearchOfANumber DEF FindByLevelOrRef
<1> QED
    BY <1>1, <1>2, <1>3, TypeInvAlways, OldOrderStep, FindableStep, PTL DEF Spec

-----------------------------------------------------------------------------
(***************************************************************************)
(* StoredFiles and TechnicalSheets                                         *)
(***************************************************************************)

-----------------------------------------------------------------------------
(* Technical sheets: the invariants.                                       *)

SaveType ==
  [at : {"new", "read", "saved", "deleted", "ended"}, product : Product \cup {None},
   version : Nat, deleted : SUBSET Task]

SheetsTyped ==
  /\ sheet \in [Product -> SheetRow]
  /\ sheetTask \in [Task -> SaveType]
  /\ lock \in [Product -> Task \cup {None}]
  /\ \A c \in Task : sheetTask[c].at \in {"read", "saved", "deleted"} => ProductOf(c) \in Product

\* A save that has written its row holds it until the end of its transaction.
SavesHoldTheirRow ==
  \A c \in Task : sheetTask[c].at \in {"saved", "deleted"} => lock[ProductOf(c)] = c

\* A save deletes all the elements there will be when it creates its own.
DeletedIsAll ==
  \A c \in Task : At(c, "deleted") => sheetTask[c].deleted = sheet[ProductOf(c)].elements

ElementsOfOneSave ==
  \A p \in Product :
    sheet[p].elements = IF sheet[p].present THEN {sheet[p].saved} ELSE {}

SheetsInv == SheetsTyped /\ SavesHoldTheirRow /\ DeletedIsAll /\ ElementsOfOneSave

-----------------------------------------------------------------------------
(* Stored files: the invariants.                                           *)

Stored(d) == object[d].place # "nowhere"
HasRow(d) == doc[d].state # "none"

TaskType ==
  [at : {"new", "put", "row", "unlink", "drop", "fetch", "done"},
   op : {"none", "upload", "delete", "download"}, owner : Owner \cup {None},
   doc : Task \cup {None}, image : BOOLEAN, version : Nat,
   answer : {"none", "plain", "gzip", "error", "missing"}]

FilesTyped ==
  /\ owner \in [Owner -> [present : BOOLEAN, admits : BOOLEAN]]
  /\ doc \in [Task -> DocRow]
  /\ object \in [Task -> [place : Place \cup {"nowhere"}, bytes : {"none", "gzip", "plain"}]]
  /\ minio \in BOOLEAN /\ mishap \in BOOLEAN
  /\ task \in [Task -> TaskType]

\* What a task is about, by what it has still to do.
TasksKnown ==
  \A c \in Task :
    /\ TaskAt(c, "new") => task[c].op = "none"
    /\ task[c].at \in {"put", "row"} => task[c].op = "upload" /\ task[c].owner \in Owner
    /\ task[c].at \in {"unlink", "drop"} =>
         task[c].op = "delete" /\ task[c].doc \in Task /\ HasRow(task[c].doc)
    /\ TaskAt(c, "fetch") =>
         task[c].answer = "none" /\ task[c].doc \in Task /\ HasRow(task[c].doc)

\* The object comes before the row, and the row ends the upload.
UploadsInOrder ==
  \A c \in Task :
    /\ task[c].at \in {"new", "put"} => ~Stored(c)
    /\ TaskAt(c, "row") => Stored(c) /\ object[c].bytes = Compress(task[c].image).bytes
    /\ HasRow(c) => TaskAt(c, "done")

\* The row tells where the object is and how to read it, as long as there is one.
RowsDescribeObjects ==
  \A d \in Task : HasRow(d) /\ Stored(d) =>
    /\ object[d].place = doc[d].place
    /\ Decompress(object[d].bytes, doc[d].algo) = "plain"

\* An object that has a row is only taken away by a deletion.
RowsKeepObjects == \A d \in Task : HasRow(d) /\ ~DeletionBegun(d) => Stored(d)

\* Without a failure an object is waiting for its row, or has it; a deletion
\* drops the row after the object.
NoOrphan ==
  ~mishap =>
    /\ \A d \in Task : Stored(d) => DocPresent(d) \/ TaskAt(d, "row")
    /\ \A c \in Task : TaskAt(c, "drop") => ~Stored(task[c].doc)

FilesInv ==
  /\ FilesTyped /\ TasksKnown /\ UploadsInOrder
  /\ RowsDescribeObjects /\ RowsKeepObjects /\ NoOrphan

-----------------------------------------------------------------------------
(* Technical sheets: the steps.                                            *)

SheetStep ==
  \/ \E c \in Task, p \in Product : ReadSheet(c, p)
  \/ \E c \in Task, exists \in BOOLEAN : SaveSheet(c, exists)
  \/ \E c \in Task : LaterSave(c)
  \/ StopSaves
  \/ UNCHANGED sheetVars

LEMMA SheetsInvInit == SheetsInit => SheetsInv
<1> SUFFICES ASSUME SheetsInit PROVE SheetsInv
  OBVIOUS
<1>1. \A c \in Task : sheetTask[c] = NewSave
  BY DEF SheetsInit
<1>2. \A p \in Product : sheet[p] = NoSheet
  BY DEF SheetsInit
<1>3. NewSave \in SaveType /\ NewSave.at = "new" /\ NoSheet \in SheetRow
  BY DEF NewSave, SaveType, NoSheet, SheetRow
<1>4. SheetsTyped
  BY <1>1, <1>3 DEF SheetsInit, SheetsTyped
<1> QED
  BY <1>1, <1>2, <1>3, <1>4 DEF SheetsInv, SavesHoldTheirRow, DeletedIsAll,
     ElementsOfOneSave, At, NoSheet

LEMMA EndedType == Ended \in SaveType /\ Ended.at = "ended"
  BY DEF Ended, NewSave, SaveType

\* A save that ends gives back its row and no other.
LEMMA UnlockKeeps ==
  ASSUME SheetsInv, NEW c \in Task, Unlock(c)
  PROVE  /\ lock' \in [Product -> Task \cup {None}]
         /\ \A p \in Product, d \in Task \ {c} : lock[p] = d => lock'[p] = d
  BY DEF SheetsInv, SheetsTyped, Unlock

\* Two saves of a product are not both in their transaction.
LEMMA OneHolder ==
  ASSUME SheetsInv, NEW c \in Task, NEW d \in Task,
         sheetTask[c].at \in {"saved", "deleted"}, sheetTask[d].at \in {"saved", "deleted"},
         ProductOf(c) = ProductOf(d)
  PROVE  c = d
  BY DEF SheetsInv, SavesHoldTheirRow

LEMMA ReadSheetKeeps ==
  ASSUME SheetsInv, NEW c \in Task, NEW p \in Product, ReadSheet(c, p)
  PROVE  SheetsInv'
<1> DEFINE v == IF sheet[p].present THEN sheet[p].version + 1 ELSE 1
           read == [NewSave EXCEPT !.at = "read", !.product = p, !.version = v]
<1>1. v \in Nat
  BY DEF SheetsInv, SheetsTyped, SheetRow
<1> HIDE DEF v
<1>2. read \in SaveType /\ read.at = "read" /\ read.product = p
  BY <1>1 DEF NewSave, SaveType
<1>3. sheetTask' = [sheetTask EXCEPT ![c] = read] /\ UNCHANGED <<sheet, lock>>
  BY DEF ReadSheet, v
<1> HIDE DEF read
<1>4. /\ sheetTask' \in [Task -> SaveType] /\ sheetTask'[c] = read
      /\ \A d \in Task \ {c} : sheetTask'[d] = sheetTask[d]
  BY <1>2, <1>3 DEF SheetsInv, SheetsTyped
<1> QED
  BY <1>2, <1>3, <1>4 DEF SheetsInv, SheetsTyped, SavesHoldTheirRow, DeletedIsAll,
     ElementsOfOneSave, At, ProductOf

LEMMA SaveSheetKeeps ==
  ASSUME SheetsInv, NEW c \in Task, NEW exists \in BOOLEAN, SaveSheet(c, exists)
  PROVE  SheetsInv'
<1>1. ProductOf(c) \in Product /\ lock[ProductOf(c)] = None
  BY DEF SaveSheet, SheetsInv, SheetsTyped, At
<1>2. CASE sheetTask' = [sheetTask EXCEPT ![c] = Ended] /\ UNCHANGED <<sheet, lock>>
  <2>1. /\ sheetTask' \in [Task -> SaveType] /\ sheetTask'[c] = Ended
        /\ \A d \in Task \ {c} : sheetTask'[d] = sheetTask[d]
    BY <1>2, EndedType DEF SheetsInv, SheetsTyped
  <2> QED
    BY <1>2, <2>1, EndedType DEF SheetsInv, SheetsTyped, SavesHoldTheirRow, DeletedIsAll,
       ElementsOfOneSave, At, ProductOf
<1>3. CASE /\ sheetTask' = [sheetTask EXCEPT ![c].at = "saved"]
           /\ lock' = [lock EXCEPT ![ProductOf(c)] = c] /\ UNCHANGED sheet
  <2>1. /\ sheetTask' \in [Task -> SaveType]
        /\ sheetTask'[c].at = "saved" /\ sheetTask'[c].product = sheetTask[c].product
        /\ \A d \in Task \ {c} : sheetTask'[d] = sheetTask[d]
    BY <1>3 DEF SheetsInv, SheetsTyped, SaveType
  <2>2. /\ lock' \in [Product -> Task \cup {None}] /\ lock'[ProductOf(c)] = c
        /\ \A p \in Product \ {ProductOf(c)} : lock'[p] = lock[p]
    BY <1>1, <1>3 DEF SheetsInv, SheetsTyped
  <2>3. SavesHoldTheirRow'
    BY <1>1, <2>1, <2>2, SheetsAssumption
    DEF SheetsInv, SheetsTyped, SavesHoldTheirRow, ProductOf
  <2> QED
    BY <1>1, <1>3, <2>1, <2>2, <2>3 DEF SheetsInv, SheetsTyped, DeletedIsAll,
       ElementsOfOneSave, At, ProductOf
<1> QED
  BY <1>2, <1>3 DEF SaveSheet

LEMMA DeleteElementsKeeps ==
  ASSUME SheetsInv, NEW c \in Task, DeleteElements(c)
  PROVE  SheetsInv'
<1>1. ProductOf(c) \in Product /\ sheetTask[c] \in SaveType /\ At(c, "saved")
  BY DEF DeleteElements, SheetsInv, SheetsTyped, At
<1> DEFINE s1 == [sheetTask[c] EXCEPT !.at = "deleted"]
           s2 == [s1 EXCEPT !.deleted = sheet[ProductOf(c)].elements]
<1>2. sheet[ProductOf(c)].elements \in SUBSET Task
  BY <1>1 DEF SheetsInv, SheetsTyped, SheetRow
<1>3. /\ s2 \in SaveType /\ s2.at = "deleted" /\ s2.product = ProductOf(c)
      /\ s2.deleted = sheet[ProductOf(c)].elements
  BY <1>1, <1>2 DEF SaveType, ProductOf
<1>4. sheetTask' = [sheetTask EXCEPT ![c] = s2] /\ UNCHANGED <<sheet, lock>>
  BY DEF DeleteElements, SheetsInv, SheetsTyped
<1> HIDE DEF s2
<1>5. /\ sheetTask' \in [Task -> SaveType] /\ sheetTask'[c] = s2
      /\ \A d \in Task \ {c} : sheetTask'[d] = sheetTask[d]
  BY <1>3, <1>4 DEF SheetsInv, SheetsTyped
<1> QED
  BY <1>1, <1>3, <1>4, <1>5 DEF SheetsInv, SheetsTyped, SavesHoldTheirRow, DeletedIsAll,
     ElementsOfOneSave, At, ProductOf

\* All the elements that are there are those the transaction has deleted, since it
\* has held the row since then: only its own are left.
LEMMA CreateElementsKeeps ==
  ASSUME SheetsInv, NEW c \in Task, CreateElements(c)
  PROVE  SheetsInv'
<1> DEFINE p == ProductOf(c)
           written == [present |-> TRUE, version |-> sheetTask[c].version, saved |-> c,
                       elements |-> (sheet[p].elements \ sheetTask[c].deleted) \cup {c}]
<1>1. p \in Product /\ sheetTask[c] \in SaveType /\ At(c, "deleted")
  BY DEF CreateElements, SheetsInv, SheetsTyped, At
<1>2. written.elements = {c}
  BY <1>1 DEF SheetsInv, DeletedIsAll
<1>3. written \in SheetRow /\ written.present = TRUE /\ written.saved = c
  BY <1>1, <1>2 DEF SaveType, SheetRow
<1>4. /\ sheet' = [sheet EXCEPT ![p] = written] /\ Unlock(c)
      /\ sheetTask' = [sheetTask EXCEPT ![c] = Ended]
  BY <1>1 DEF CreateElements, SheetsInv, SheetsTyped
<1> HIDE DEF written
<1>5. /\ sheetTask' \in [Task -> SaveType] /\ sheetTask'[c] = Ended
      /\ \A d \in Task \ {c} : sheetTask'[d] = sheetTask[d]
      /\ sheet' \in [Product -> SheetRow] /\ sheet'[p] = written
      /\ \A q \in Product \ {p} : sheet'[q] = sheet[q]
  BY <1>1, <1>3, <1>4, EndedType DEF SheetsInv, SheetsTyped
<1>6. \A d \in Task \ {c} : sheetTask[d].at \in {"saved", "deleted"} => ProductOf(d) # p
  BY <1>1, OneHolder DEF At
<1> HIDE DEF p
<1>7. SheetsTyped' /\ SavesHoldTheirRow'
  BY <1>4, <1>5, EndedType, UnlockKeeps DEF SheetsInv, SheetsTyped, SavesHoldTheirRow, ProductOf
<1>8. DeletedIsAll'
  <2> SUFFICES ASSUME NEW d \in Task, sheetTask'[d].at = "deleted"
               PROVE  sheetTask'[d].deleted = sheet'[sheetTask'[d].product].elements
    BY DEF DeletedIsAll, At, ProductOf
  <2>1. d # c /\ sheetTask'[d] = sheetTask[d]
    BY <1>5, EndedType
  <2>2. ProductOf(d) \in Product \ {p}
    BY <1>6, <2>1 DEF SheetsInv, SheetsTyped
  <2> QED
    BY <1>5, <2>1, <2>2 DEF SheetsInv, DeletedIsAll, At, ProductOf
<1>9. ElementsOfOneSave'
  BY <1>2, <1>3, <1>5 DEF SheetsInv, ElementsOfOneSave
<1> QED
  BY <1>7, <1>8, <1>9 DEF SheetsInv

LEMMA EndKeeps ==
  ASSUME SheetsInv, UNCHANGED sheet, lock' \in [Product -> Task \cup {None}],
         NEW C \in SUBSET Task,
         sheetTask' = [c \in Task |-> IF c \in C THEN Ended ELSE sheetTask[c]],
         \A p \in Product, d \in Task \ C :
           lock[p] = d => lock'[p] = d \/ sheetTask[d].at \notin {"saved", "deleted"}
  PROVE  SheetsInv'
<1>1. /\ sheetTask' \in [Task -> SaveType]
      /\ \A d \in Task : sheetTask'[d] = Ended \/ (d \notin C /\ sheetTask'[d] = sheetTask[d])
  BY EndedType DEF SheetsInv, SheetsTyped
<1> QED
  BY <1>1, EndedType DEF SheetsInv, SheetsTyped, SavesHoldTheirRow, DeletedIsAll,
     ElementsOfOneSave, At, ProductOf

LEMMA SheetsInvStep ==
  ASSUME SheetsInv, SheetStep
  PROVE  SheetsInv'
<1>1. ASSUME NEW c \in Task, AbortSave(c) PROVE SheetsInv'
  <2>1. sheetTask' = [d \in Task |-> IF d \in {c} THEN Ended ELSE sheetTask[d]]
    BY <1>1 DEF AbortSave, SheetsInv, SheetsTyped
  <2>2. /\ lock' \in [Product -> Task \cup {None}] /\ UNCHANGED sheet /\ {c} \in SUBSET Task
        /\ \A p \in Product, d \in Task \ {c} :
             lock[p] = d => lock'[p] = d \/ sheetTask[d].at \notin {"saved", "deleted"}
    BY <1>1, UnlockKeeps DEF AbortSave
  <2> QED
    BY <2>1, <2>2, EndKeeps
<1>2. CASE StopSaves
  <2> DEFINE C == {d \in Task : sheetTask[d].at \in {"read", "saved", "deleted"}}
  <2>1. sheetTask' = [d \in Task |-> IF d \in C THEN Ended ELSE sheetTask[d]]
    BY <1>2 DEF StopSaves
  <2>2. /\ lock' \in [Product -> Task \cup {None}] /\ UNCHANGED sheet /\ C \in SUBSET Task
        /\ \A p \in Product, d \in Task \ C :
             lock[p] = d => lock'[p] = d \/ sheetTask[d].at \notin {"saved", "deleted"}
    BY <1>2 DEF StopSaves
  <2> HIDE DEF C
  <2> QED
    BY <2>1, <2>2, EndKeeps
<1>3. CASE UNCHANGED sheetVars
  BY <1>3 DEF sheetVars, SheetsInv, SheetsTyped, SavesHoldTheirRow, DeletedIsAll,
     ElementsOfOneSave, At, ProductOf
<1> QED
  BY <1>1, <1>2, <1>3, ReadSheetKeeps, SaveSheetKeeps, DeleteElementsKeeps,
     CreateElementsKeeps DEF SheetStep, LaterSave

-----------------------------------------------------------------------------
(* Stored files: the steps.                                                *)

LEMMA FilesInvInit == FilesInit => FilesInv
<1> SUFFICES ASSUME FilesInit PROVE FilesInv
  OBVIOUS
<1>1. NewTask \in TaskType /\ NewTask.at = "new" /\ NewTask.op = "none"
  BY DEF NewTask, TaskType
<1>2. NoRow \in DocRow /\ NoRow.state = "none"
  BY DEF NoRow, DocRow, Place
<1>3. NoObject \in [place : Place \cup {"nowhere"}, bytes : {"none", "gzip", "plain"}]
      /\ NoObject.place = "nowhere"
  BY DEF NoObject
<1>4. /\ task = [c \in Task |-> NewTask] /\ doc = [c \in Task |-> NoRow]
      /\ object = [c \in Task |-> NoObject] /\ minio \in BOOLEAN /\ mishap = FALSE
  BY DEF FilesInit
<1>5. owner \in [Owner -> [present : BOOLEAN, admits : BOOLEAN]]
  BY DEF FilesInit
<1>6. FilesTyped
  BY <1>1, <1>2, <1>3, <1>4, <1>5 DEF FilesTyped
<1> QED
  BY <1>1, <1>2, <1>3, <1>4, <1>6 DEF FilesInv, TasksKnown, UploadsInOrder,
     RowsDescribeObjects, RowsKeepObjects, NoOrphan, TaskAt, Stored, HasRow

\* What a task has come to after a step that changes this task only.
TaskBecomes(c, m) ==
  /\ task' \in [Task -> TaskType]
  /\ task'[c] = m
  /\ \A b \in Task \ {c} : task'[b] = task[b]

LEMMA TaskWritten ==
  ASSUME FilesTyped, NEW c \in Task, NEW m \in TaskType, task' = [task EXCEPT ![c] = m]
  PROVE  TaskBecomes(c, m)
  BY DEF FilesTyped, TaskBecomes

LEMMA OverType ==
  ASSUME FilesTyped, NEW c \in Task
  PROVE  /\ Over(c) \in TaskType /\ Over(c).at = "done" /\ Over(c).answer = "none"
         /\ Over(c).op = task[c].op /\ Over(c).doc = task[c].doc
<1>1. task[c].op \in {"none", "upload", "delete", "download"} /\ task[c].doc \in Task \cup {None}
  BY DEF FilesTyped, TaskType
<1> QED
  BY <1>1 DEF Over, NewTask, TaskType

LEMMA GotoWritten ==
  ASSUME FilesTyped, NEW c \in Task, NEW at \in {"row", "drop"}, Goto(c, at)
  PROVE  /\ task' \in [Task -> TaskType]
         /\ task'[c].at = at /\ task'[c].op = task[c].op /\ task'[c].doc = task[c].doc
         /\ task'[c].owner = task[c].owner /\ task'[c].image = task[c].image
         /\ task'[c].answer = task[c].answer
         /\ \A b \in Task \ {c} : task'[b] = task[b]
<1> DEFINE m == [task[c] EXCEPT !.at = at]
<1>1. task[c] \in TaskType /\ task' = [task EXCEPT ![c] = m]
  BY DEF FilesTyped, Goto
<1>2. /\ m \in TaskType /\ m.at = at /\ m.op = task[c].op /\ m.doc = task[c].doc
      /\ m.owner = task[c].owner /\ m.image = task[c].image /\ m.answer = task[c].answer
  BY <1>1 DEF TaskType
<1> HIDE DEF m
<1> QED
  BY <1>1, <1>2 DEF FilesTyped

\* A task does not forget which document it has set out to delete.
DeletionsKept ==
  \A b \in Task : task[b].op = "delete" => task'[b].op = "delete" /\ task'[b].doc = task[b].doc

LEMMA DeletionsRemembered ==
  ASSUME DeletionsKept, NEW d \in Task, DeletionBegun(d)
  PROVE  DeletionBegun(d)'
  BY DEF DeletionsKept, DeletionBegun

LEMMA UploadBegun ==
  ASSUME FilesInv, NEW C \in SUBSET Task, NEW o \in Owner, NEW image \in BOOLEAN,
         NEW v \in Nat, BeginUpload(C, o, image, v)
  PROVE  FilesInv' /\ DeletionsKept
<1> DEFINE m == [NewTask EXCEPT !.at = "put", !.op = "upload", !.owner = o,
                                !.image = image, !.version = v]
<1>1. m \in TaskType /\ m.at = "put" /\ m.op = "upload" /\ m.owner = o
  BY DEF NewTask, TaskType
<1>2. /\ task' = [c \in Task |-> IF c \in C THEN m ELSE task[c]]
      /\ \A c \in C : TaskAt(c, "new")
      /\ UNCHANGED <<owner, doc, object, minio, mishap>>
  BY DEF BeginUpload, FilesUnchanged, Unstarted
<1> HIDE DEF m
<1>3. /\ task' \in [Task -> TaskType]
      /\ \A c \in C : task[c].at = "new" /\ task'[c] = m
      /\ \A c \in Task \ C : task'[c] = task[c]
  BY <1>1, <1>2 DEF FilesInv, FilesTyped, TaskAt
<1>4. DeletionsKept
  BY <1>3 DEF DeletionsKept, FilesInv, TasksKnown, TaskAt
<1>5. FilesTyped'
  BY <1>2, <1>3 DEF FilesInv, FilesTyped
<1>6. TasksKnown' /\ UploadsInOrder'
  BY <1>1, <1>2, <1>3 DEF FilesInv, TasksKnown, UploadsInOrder, TaskAt, Stored, HasRow
<1>7. RowsDescribeObjects' /\ RowsKeepObjects'
  BY <1>2, <1>4, DeletionsRemembered
  DEF FilesInv, RowsDescribeObjects, RowsKeepObjects, Stored, HasRow
<1>8. NoOrphan'
  BY <1>1, <1>2, <1>3 DEF FilesInv, NoOrphan, TaskAt, Stored, DocPresent
<1> QED
  BY <1>4, <1>5, <1>6, <1>7, <1>8 DEF FilesInv

LEMMA TaskBegunOn ==
  ASSUME FilesInv, NEW c \in Task, NEW d \in Task, Delete(c, d) \/ Download(c, d)
  PROVE  FilesInv' /\ DeletionsKept
<1>1. PICK op \in {"delete", "download"}, at \in {"unlink", "fetch"} :
         /\ at = "unlink" => op = "delete"
         /\ BeginOn(c, d, op, at)
  BY DEF Delete, Download
<1> DEFINE m == [NewTask EXCEPT !.at = at, !.op = op, !.doc = d]
<1>2. /\ m \in TaskType /\ m.at = at /\ m.op = op /\ m.doc = d /\ m.answer = "none"
  BY DEF NewTask, TaskType
<1>3. /\ task' = [task EXCEPT ![c] = m] /\ TaskAt(c, "new") /\ HasRow(d)
      /\ UNCHANGED <<owner, doc, object, minio, mishap>>
  BY <1>1 DEF BeginOn, FilesUnchanged, Unstarted, DocPresent, HasRow
<1> HIDE DEF m
<1>4. TaskBecomes(c, m)
  BY <1>2, <1>3, TaskWritten DEF FilesInv
<1>5. DeletionsKept
  BY <1>3, <1>4 DEF DeletionsKept, TaskBecomes, FilesInv, TasksKnown
<1>6. FilesTyped'
  BY <1>3, <1>4 DEF FilesInv, FilesTyped, TaskBecomes
<1>7. TasksKnown' /\ UploadsInOrder'
  BY <1>1, <1>2, <1>3, <1>4
  DEF FilesInv, TasksKnown, UploadsInOrder, TaskAt, Stored, HasRow, TaskBecomes
<1>8. RowsDescribeObjects' /\ RowsKeepObjects'
  BY <1>3, <1>5, DeletionsRemembered
  DEF FilesInv, RowsDescribeObjects, RowsKeepObjects, Stored, HasRow
<1>9. NoOrphan'
  BY <1>2, <1>3, <1>4 DEF FilesInv, NoOrphan, TaskAt, Stored, DocPresent, TaskBecomes
<1> QED
  BY <1>5, <1>6, <1>7, <1>8, <1>9 DEF FilesInv

LEMMA ObjectPut ==
  ASSUME FilesInv, NEW c \in Task, PutObject(c)
  PROVE  FilesInv' /\ DeletionsKept
<1> DEFINE o == [place |-> Here, bytes |-> Compress(task[c].image).bytes]
<1>1. /\ o.place \in Place /\ o.place # "nowhere" /\ o.bytes = Compress(task[c].image).bytes
      /\ o \in [place : Place \cup {"nowhere"}, bytes : {"none", "gzip", "plain"}]
  BY DEF Here, Place, Compress
<1>2. /\ object' = [object EXCEPT ![c] = o] /\ Goto(c, "row") /\ TaskAt(c, "put")
      /\ UNCHANGED <<owner, doc, minio, mishap>>
  BY DEF PutObject
<1> HIDE DEF o
<1>3. /\ object' \in [Task -> [place : Place \cup {"nowhere"}, bytes : {"none", "gzip", "plain"}]]
      /\ object'[c] = o /\ \A d \in Task \ {c} : object'[d] = object[d]
  BY <1>1, <1>2 DEF FilesInv, FilesTyped
<1>4. /\ task' \in [Task -> TaskType] /\ \A b \in Task \ {c} : task'[b] = task[b]
      /\ task'[c].at = "row" /\ task'[c].op = "upload" /\ task'[c].owner \in Owner
      /\ task'[c].image = task[c].image
  BY <1>2, GotoWritten DEF FilesInv, TasksKnown, TaskAt
<1>5. ~HasRow(c)
  BY <1>2 DEF FilesInv, UploadsInOrder, TaskAt
<1>6. DeletionsKept
  BY <1>2, <1>4 DEF DeletionsKept, FilesInv, TasksKnown, TaskAt
<1>7. FilesTyped'
  BY <1>2, <1>3, <1>4 DEF FilesInv, FilesTyped
<1>8. TasksKnown'
  BY <1>2, <1>4 DEF FilesInv, TasksKnown, TaskAt, HasRow
<1>9. UploadsInOrder'
  BY <1>1, <1>2, <1>3, <1>4, <1>5
  DEF FilesInv, UploadsInOrder, TaskAt, Stored, HasRow
<1>10. RowsDescribeObjects' /\ RowsKeepObjects'
  BY <1>2, <1>3, <1>5, <1>6, DeletionsRemembered
  DEF FilesInv, RowsDescribeObjects, RowsKeepObjects, Stored, HasRow
<1>11. NoOrphan'
  BY <1>2, <1>3, <1>4, <1>5
  DEF FilesInv, NoOrphan, TasksKnown, TaskAt, Stored, DocPresent, HasRow
<1> QED
  BY <1>6, <1>7, <1>8, <1>9, <1>10, <1>11 DEF FilesInv

\* A task that ends without writing, with an answer or not.
LEMMA TaskEnded ==
  ASSUME FilesInv, UNCHANGED <<owner, doc, object>>, minio' \in BOOLEAN, mishap' \in BOOLEAN,
         mishap => mishap', task' \in [Task -> TaskType],
         \A c \in Task : \/ task'[c] = task[c]
                         \/ /\ task'[c].at = "done" /\ task'[c].op = task[c].op
                            /\ task'[c].doc = task[c].doc
                            /\ TaskAt(c, "row") => mishap'
                            /\ ~TaskAt(c, "new")
  PROVE  FilesInv' /\ DeletionsKept
<1>1. DeletionsKept
  BY DEF DeletionsKept
<1>2. FilesTyped'
  BY DEF FilesInv, FilesTyped
<1>3. TasksKnown' /\ UploadsInOrder'
  BY DEF FilesInv, TasksKnown, UploadsInOrder, TaskAt, Stored, HasRow
<1>4. RowsDescribeObjects' /\ RowsKeepObjects'
  BY <1>1, DeletionsRemembered
  DEF FilesInv, RowsDescribeObjects, RowsKeepObjects, Stored, HasRow
<1>5. NoOrphan'
  BY DEF FilesInv, NoOrphan, TaskAt, Stored, DocPresent
<1> QED
  BY <1>1, <1>2, <1>3, <1>4, <1>5 DEF FilesInv

LEMMA RowCreated ==
  ASSUME FilesInv, NEW c \in Task, CreateRow(c)
  PROVE  FilesInv' /\ DeletionsKept
<1>1. /\ TaskBecomes(c, Over(c)) /\ TaskAt(c, "row") /\ UNCHANGED <<owner, object, minio>>
  BY OverType, TaskWritten DEF CreateRow, Finish, FilesInv
<1>2. CASE mishap' = TRUE /\ UNCHANGED doc
  BY <1>1, <1>2, OverType, TaskEnded DEF TaskBecomes, FilesInv, FilesTyped, TaskAt
<1> DEFINE written == [state |-> "present", owner |-> task[c].owner, place |-> object[c].place,
                       algo |-> Compress(task[c].image).algo, version |-> task[c].version]
<1>3. CASE doc' = [doc EXCEPT ![c] = written] /\ UNCHANGED mishap
  <2>1. /\ task[c].owner \in Owner /\ Stored(c) /\ task[c].op = "upload"
        /\ object[c].bytes = Compress(task[c].image).bytes /\ ~HasRow(c)
    BY <1>1 DEF FilesInv, TasksKnown, UploadsInOrder, TaskAt
  <2>2. object[c].place \in Place /\ task[c].version \in Nat
    BY <2>1 DEF FilesInv, FilesTyped, TaskType, Stored
  <2>3. /\ written \in DocRow /\ written.state = "present" /\ written.place = object[c].place
        /\ written.algo = Compress(task[c].image).algo
    BY <2>1, <2>2 DEF DocRow, Compress
  <2> HIDE DEF written
  <2>4. /\ doc' \in [Task -> DocRow] /\ doc'[c] = written
        /\ \A d \in Task \ {c} : doc'[d] = doc[d]
    BY <1>3, <2>3 DEF FilesInv, FilesTyped
  <2>5. DeletionsKept
    BY <1>1, OverType DEF DeletionsKept, TaskBecomes, FilesInv
  <2>6. FilesTyped'
    BY <1>1, <1>3, <2>4 DEF FilesInv, FilesTyped, TaskBecomes
  <2>7. task'[c].at = "done" /\ task'[c].op = "upload"
    BY <1>1, <2>1, OverType DEF TaskBecomes, FilesInv
  <2>8. TasksKnown'
    BY <1>1, <2>3, <2>4, <2>7 DEF FilesInv, TasksKnown, TaskAt, HasRow, TaskBecomes
  <2>9. UploadsInOrder'
    BY <1>1, <2>4, <2>7 DEF FilesInv, UploadsInOrder, TaskAt, Stored, HasRow, TaskBecomes
  <2>10. Decompress(object[c].bytes, written.algo) = "plain"
    BY <2>1, <2>3 DEF Decompress, Compress
  <2>11. RowsDescribeObjects'
    BY <1>1, <2>3, <2>4, <2>10 DEF FilesInv, RowsDescribeObjects, Stored, HasRow
  <2>12. RowsKeepObjects'
    BY <1>1, <2>1, <2>4, <2>5, DeletionsRemembered DEF FilesInv, RowsKeepObjects, Stored, HasRow
  <2>13. NoOrphan'
    BY <1>1, <1>3, <2>3, <2>4, <2>7
    DEF FilesInv, NoOrphan, TaskAt, Stored, DocPresent, TaskBecomes
  <2> QED
    BY <2>5, <2>6, <2>8, <2>9, <2>11, <2>12, <2>13 DEF FilesInv
<1> QED
  BY <1>2, <1>3 DEF CreateRow

LEMMA ObjectRemoved ==
  ASSUME FilesInv, NEW c \in Task, RemoveStoredObject(c)
  PROVE  FilesInv' /\ DeletionsKept
<1>1. PICK d \in Task :
         d = task[c].doc /\ HasRow(d) /\ task[c].op = "delete" /\ TaskAt(c, "unlink")
  BY DEF RemoveStoredObject, FilesInv, TasksKnown, TaskAt
<1>2. /\ object' = IF Reachable(d) THEN [object EXCEPT ![d] = NoObject] ELSE object
      /\ Goto(c, "drop") /\ mishap' = (mishap \/ ~Reachable(d)) /\ UNCHANGED <<owner, doc, minio>>
  BY <1>1 DEF RemoveStoredObject
<1>3. /\ task' \in [Task -> TaskType] /\ \A b \in Task \ {c} : task'[b] = task[b]
      /\ task'[c].at = "drop" /\ task'[c].op = "delete" /\ task'[c].doc = d
  BY <1>1, <1>2, GotoWritten DEF FilesInv
<1>4. TaskAt(d, "done") /\ d # c
  BY <1>1 DEF FilesInv, UploadsInOrder, TaskAt
<1>5. /\ object' \in [Task -> [place : Place \cup {"nowhere"}, bytes : {"none", "gzip", "plain"}]]
      /\ \A b \in Task : object'[b] = object[b] \/ (b = d /\ object'[b].place = "nowhere")
      /\ Reachable(d) => object'[d].place = "nowhere"
  BY <1>1, <1>2 DEF FilesInv, FilesTyped, NoObject
<1>6. DeletionsKept
  BY <1>1, <1>3 DEF DeletionsKept
<1>7. FilesTyped'
  BY <1>2, <1>3, <1>5 DEF FilesInv, FilesTyped
<1>8. TasksKnown'
  BY <1>1, <1>2, <1>3 DEF FilesInv, TasksKnown, TaskAt, HasRow
<1>9. UploadsInOrder'
  BY <1>1, <1>2, <1>3, <1>4, <1>5
  DEF FilesInv, UploadsInOrder, TaskAt, Stored, HasRow
<1>10. RowsDescribeObjects'
  BY <1>2, <1>5 DEF FilesInv, RowsDescribeObjects, Stored, HasRow
<1>11. RowsKeepObjects'
  <2>1. DeletionBegun(d)'
    BY <1>3 DEF DeletionBegun
  <2> QED
    BY <1>2, <1>5, <1>6, <2>1, DeletionsRemembered DEF FilesInv, RowsKeepObjects, Stored, HasRow
<1>12. NoOrphan'
  <2> SUFFICES ASSUME ~mishap'
               PROVE  /\ \A b \in Task : Stored(b)' => DocPresent(b)' \/ TaskAt(b, "row")'
                      /\ \A b \in Task : TaskAt(b, "drop")' => ~Stored(task[b].doc)'
    BY DEF NoOrphan
  <2>1. ~mishap /\ object'[d].place = "nowhere"
    BY <1>2, <1>5 DEF FilesInv, FilesTyped
  <2>2. ASSUME NEW b \in Task, TaskAt(b, "drop")' PROVE object'[task'[b].doc].place = "nowhere"
    BY <1>3, <1>5, <2>1, <2>2
    DEF FilesInv, NoOrphan, TasksKnown, TaskAt, Stored
  <2> QED
    BY <1>1, <1>2, <1>3, <1>5, <2>1, <2>2
    DEF FilesInv, NoOrphan, TaskAt, Stored, DocPresent
<1> QED
  BY <1>6, <1>7, <1>8, <1>9, <1>10, <1>11, <1>12 DEF FilesInv

LEMMA RowDeleted ==
  ASSUME FilesInv, NEW c \in Task, DeleteRow(c)
  PROVE  FilesInv' /\ DeletionsKept
<1> DEFINE d == task[c].doc
<1>1. d \in Task /\ HasRow(d) /\ task[c].op = "delete" /\ TaskAt(c, "drop")
  BY DEF DeleteRow, FilesInv, TasksKnown, TaskAt
<1>2. /\ doc' = [doc EXCEPT ![d].state = "gone"] /\ TaskBecomes(c, Over(c))
      /\ UNCHANGED <<owner, object, minio, mishap>>
  BY OverType, TaskWritten DEF DeleteRow, Finish, FilesInv
<1>3. task'[c].at = "done" /\ task'[c].op = "delete" /\ task'[c].doc = d
  BY <1>1, <1>2, OverType DEF TaskBecomes, FilesInv
<1>4. ~mishap => ~Stored(d)
  BY <1>1 DEF FilesInv, NoOrphan
<1> HIDE DEF d
<1>5. /\ doc' \in [Task -> DocRow] /\ doc'[d].state = "gone"
      /\ doc'[d].place = doc[d].place /\ doc'[d].algo = doc[d].algo
      /\ \A b \in Task \ {d} : doc'[b] = doc[b]
  <2> DEFINE written == [doc[d] EXCEPT !.state = "gone"]
  <2>1. doc[d] \in DocRow /\ doc' = [doc EXCEPT ![d] = written]
    BY <1>1, <1>2 DEF FilesInv, FilesTyped
  <2>2. /\ written \in DocRow /\ written.state = "gone"
        /\ written.place = doc[d].place /\ written.algo = doc[d].algo
    BY <2>1 DEF DocRow
  <2> HIDE DEF written
  <2> QED
    BY <1>1, <2>1, <2>2 DEF FilesInv, FilesTyped
<1>6. \A b \in Task : HasRow(b)' <=> HasRow(b)
  BY <1>1, <1>5 DEF HasRow
<1>7. DeletionsKept
  BY <1>1, <1>2, <1>3 DEF DeletionsKept, TaskBecomes, d
<1>8. FilesTyped'
  BY <1>2, <1>5 DEF FilesInv, FilesTyped, TaskBecomes
<1>9. TasksKnown' /\ UploadsInOrder'
  BY <1>1, <1>2, <1>3, <1>6
  DEF FilesInv, TasksKnown, UploadsInOrder, TaskAt, Stored, TaskBecomes
<1>10. RowsDescribeObjects' /\ RowsKeepObjects'
  BY <1>1, <1>2, <1>5, <1>6, <1>7, DeletionsRemembered
  DEF FilesInv, RowsDescribeObjects, RowsKeepObjects, Stored
<1>11. NoOrphan'
  BY <1>1, <1>2, <1>3, <1>4, <1>5
  DEF FilesInv, NoOrphan, TaskAt, Stored, DocPresent, TaskBecomes
<1> QED
  BY <1>7, <1>8, <1>9, <1>10, <1>11 DEF FilesInv

\* The owners and the state of the process are no matter of the invariant.
LEMMA OwnerRemoved ==
  ASSUME FilesInv, NEW o \in Owner, RemoveOwner(o)
  PROVE  FilesInv' /\ DeletionsKept
<1>1. UNCHANGED <<doc, object, minio, task, mishap>>
  BY DEF RemoveOwner
<1>2. owner' \in [Owner -> [present : BOOLEAN, admits : BOOLEAN]]
  <2> DEFINE o1 == [owner[o] EXCEPT !.present = FALSE]
  <2>1. o1 \in [present : BOOLEAN, admits : BOOLEAN] /\ owner' = [owner EXCEPT ![o] = o1]
    BY DEF RemoveOwner, FilesInv, FilesTyped
  <2> HIDE DEF o1
  <2> QED
    BY <2>1 DEF FilesInv, FilesTyped
<1> QED
  BY <1>1, <1>2 DEF FilesInv, FilesTyped, TasksKnown, UploadsInOrder, RowsDescribeObjects,
     RowsKeepObjects, NoOrphan, DeletionsKept, TaskAt, Stored, HasRow, DocPresent, DeletionBegun

\* The thirteen handlers that begin are uploads, deletions and downloads.
LEMMA BeginsAreOfThreeKinds ==
  ASSUME FilesInv, NEW c \in Task, FileBegin(c)
  PROVE  \/ \E C \in SUBSET Task, o \in Owner, image \in BOOLEAN, v \in Nat :
               BeginUpload(C, o, image, v)
         \/ \E d \in Task : Delete(c, d) \/ Download(c, d)
<1>1. {c} \in SUBSET Task /\ 1 \in Nat /\ TRUE \in BOOLEAN
  OBVIOUS
<1>2. CASE \E o \in Owner, image \in BOOLEAN : BeginUpload({c}, o, image, 1)
  BY <1>1, <1>2
<1>3. ASSUME NEW d \in Task, NEW image \in BOOLEAN, Replace(c, d, image), doc[d].owner \in Owner
      PROVE  \E o \in Owner, v \in Nat : BeginUpload({c}, o, image, v)
  <2>1. doc[d].version + 1 \in Nat
    BY DEF FilesInv, FilesTyped, DocRow
  <2> QED
    BY <1>3, <2>1 DEF Replace
<1>4. CASE \E d \in Task, image \in BOOLEAN : doc[d].owner \in Owner /\ Replace(c, d, image)
  BY <1>1, <1>3, <1>4
<1>5. CASE \E d \in Task : Delete(c, d) \/ Download(c, d)
  BY <1>5
<1> QED
  BY <1>1, <1>2, <1>4, <1>5 DEF FileBegin, Owner,
     UploadInvoiceDocument, UploadFiscalCard, UploadBatDocument, ReplaceInvoiceDocument,
     ReplaceFiscalCard, ReplaceBatDocument, ReplaceImage, DeleteInvoiceDocument,
     DeleteFiscalCard, DeleteBatDocument, DeleteImage, DownloadInvoiceDocument,
     DownloadFiscalCard, DownloadBatDocument, DownloadImage

\* What a download answers, from what it knows of its document.
LEMMA FetchAnswers ==
  ASSUME FilesInv, NEW c \in Task, Fetch(c)
  PROVE  /\ TaskBecomes(c, task'[c]) /\ FilesUnchanged /\ TaskAt(c, "fetch")
         /\ task'[c].at = "done" /\ task'[c].op = task[c].op /\ task'[c].doc = task[c].doc
         /\ \/ task'[c].answer = "plain"
            \/ /\ task'[c].answer = "missing"
               /\ DeletionBegun(task[c].doc) \/ (doc[task[c].doc].place = "minio" /\ ~minio)
<1> DEFINE d == task[c].doc
           here == Reachable(d) /\ object[d].place = doc[d].place
           answer == IF here THEN Decompress(object[d].bytes, doc[d].algo) ELSE "missing"
           m == [Over(c) EXCEPT !.answer = answer]
<1>1. d \in Task /\ HasRow(d) /\ TaskAt(c, "fetch")
  BY DEF Fetch, FilesInv, TasksKnown
<1>2. doc[d].place \in Place /\ "nowhere" \notin Place
  BY <1>1 DEF FilesInv, FilesTyped, DocRow, Place
<1>3. here => answer = "plain"
  BY <1>1, <1>2 DEF FilesInv, RowsDescribeObjects, Stored
<1>4. ~here => answer = "missing" /\ (DeletionBegun(d) \/ (doc[d].place = "minio" /\ ~minio))
  BY <1>1, <1>2 DEF FilesInv, RowsKeepObjects, RowsDescribeObjects, Reachable, Place
<1>5. task' = [task EXCEPT ![c] = m] /\ FilesUnchanged
  BY DEF Fetch
<1> HIDE DEF answer, here
<1>6. /\ m \in TaskType /\ m.at = "done" /\ m.op = task[c].op /\ m.doc = d
      /\ m.answer = answer
  <2>1. answer \in {"plain", "missing"} /\ Over(c) \in TaskType
    BY <1>3, <1>4, OverType DEF FilesInv
  <2> QED
    BY <2>1, OverType DEF FilesInv, TaskType
<1> HIDE DEF m
<1>7. TaskBecomes(c, m)
  BY <1>5, <1>6, TaskWritten DEF FilesInv
<1> QED
  BY <1>1, <1>3, <1>4, <1>5, <1>6, <1>7 DEF TaskBecomes

LEMMA StepOfTask ==
  ASSUME FilesInv, NEW c \in Task, FileStep(c)
  PROVE  FilesInv' /\ DeletionsKept
<1>1. ASSUME Fetch(c) PROVE FilesInv' /\ DeletionsKept
  <2>1. /\ task' \in [Task -> TaskType] /\ \A b \in Task \ {c} : task'[b] = task[b]
        /\ task'[c].at = "done" /\ task'[c].op = task[c].op /\ task'[c].doc = task[c].doc
        /\ TaskAt(c, "fetch") /\ UNCHANGED <<owner, doc, object, minio, mishap>>
    BY <1>1, FetchAnswers DEF TaskBecomes, FilesUnchanged
  <2>2. minio' \in BOOLEAN /\ mishap' \in BOOLEAN /\ (mishap => mishap')
    BY <2>1 DEF FilesInv, FilesTyped
  <2> QED
    BY <2>1, <2>2, TaskEnded DEF TaskAt
<1>2. ASSUME Fail(c) PROVE FilesInv' /\ DeletionsKept
  <2>1. TaskBecomes(c, Over(c)) /\ UNCHANGED <<owner, doc, object, minio>> /\ mishap' = TRUE
    BY <1>2, OverType, TaskWritten DEF Fail, Finish, FilesInv
  <2>2. ~TaskAt(c, "new")
    BY <1>2 DEF Fail, Running
  <2>3. minio' \in BOOLEAN /\ mishap' \in BOOLEAN
    BY <2>1 DEF FilesInv, FilesTyped
  <2> QED
    BY <2>1, <2>2, <2>3, OverType, TaskEnded DEF TaskBecomes, FilesInv
<1> QED
  BY <1>1, <1>2, ObjectPut, RowCreated, ObjectRemoved, RowDeleted DEF FileStep

LEMMA StepIsLocal ==
  ASSUME FilesInv, NEW c \in Task, FileStep(c)
  PROVE  \A b \in Task \ {c} : task'[b] = task[b]
<1>1. ASSUME NEW at, Goto(c, at) PROVE \A b \in Task \ {c} : task'[b] = task[b]
  BY <1>1 DEF Goto, FilesInv, FilesTyped
<1>2. ASSUME Finish(c) PROVE \A b \in Task \ {c} : task'[b] = task[b]
  BY <1>2 DEF Finish, FilesInv, FilesTyped
<1>3. ASSUME Fetch(c) PROVE \A b \in Task \ {c} : task'[b] = task[b]
  BY <1>3, FetchAnswers DEF TaskBecomes
<1> QED
  BY <1>1, <1>2, <1>3 DEF FileStep, PutObject, CreateRow, RemoveStoredObject, DeleteRow, Fail

LEMMA RestartKeeps ==
  ASSUME FilesInv, Restart
  PROVE  FilesInv' /\ DeletionsKept
<1>1. /\ task' = [c \in Task |-> IF Running(c) THEN Over(c) ELSE task[c]]
      /\ minio' \in BOOLEAN /\ mishap' = TRUE /\ UNCHANGED <<owner, doc, object>>
  BY DEF Restart
<1>2. /\ task' \in [Task -> TaskType]
      /\ \A c \in Task : task'[c] = task[c] \/ (task'[c] = Over(c) /\ Running(c))
  BY <1>1, OverType DEF FilesInv, FilesTyped
<1> QED
  BY <1>1, <1>2, OverType, TaskEnded DEF FilesInv, Running

\* Each step of the specification is a step on the sheets and one on the files.
LEMMA StepParts ==
  ASSUME FilesInv, [FilesNext]_<<sheetVars, fileVars>>
  PROVE  /\ SheetStep
         /\ \/ \E C \in SUBSET Task, o \in Owner, image \in BOOLEAN, v \in Nat :
                  BeginUpload(C, o, image, v)
            \/ \E c, d \in Task : Delete(c, d) \/ Download(c, d)
            \/ \E c \in Task : FileStep(c)
            \/ \E o \in Owner : RemoveOwner(o)
            \/ Restart
            \/ UNCHANGED fileVars
<1>1. CASE \E c \in Task : (FileBegin(c) \/ FileStep(c)) /\ UNCHANGED sheetVars
  BY <1>1, BeginsAreOfThreeKinds DEF SheetStep
<1>2. CASE \E C \in SUBSET Task, o \in Product : UploadImages(C, o) /\ UNCHANGED sheetVars
  BY <1>2 DEF SheetStep, UploadImages, Owner
<1>3. CASE \E o \in Owner : RemoveOwner(o) /\ UNCHANGED sheetVars
  BY <1>3 DEF SheetStep
<1>4. CASE Restart
  BY <1>4 DEF SheetStep, Restart
<1>5. CASE \E c \in Task, p \in Product :
             Unstarted(c) /\ owner[p].present /\ ReadSheet(c, p) /\ UNCHANGED fileVars
  BY <1>5 DEF SheetStep
<1>6. CASE \E c \in Task :
             /\ \/ At(c, "read") /\ SaveSheet(c, owner[ProductOf(c)].present)
                \/ LaterSave(c)
             /\ UNCHANGED fileVars
  <2>1. PICK c \in Task :
          /\ \/ At(c, "read") /\ SaveSheet(c, owner[ProductOf(c)].present)
             \/ LaterSave(c)
          /\ UNCHANGED fileVars
    BY <1>6
  <2>2. CASE LaterSave(c)
    BY <2>1, <2>2 DEF SheetStep
  <2>3. CASE SaveSheet(c, owner[ProductOf(c)].present)
    <3>1. SaveSheet(c, TRUE) \/ SaveSheet(c, FALSE)
      BY <2>3 DEF SaveSheet
    <3> QED
      BY <2>1, <3>1 DEF SheetStep
  <2> QED
    BY <2>1, <2>2, <2>3
<1>7. CASE UNCHANGED <<sheetVars, fileVars>>
  BY <1>7 DEF SheetStep
<1> QED
  BY <1>1, <1>2, <1>3, <1>4, <1>5, <1>6, <1>7 DEF FilesNext

LEMMA InvStep ==
  SheetsInv /\ FilesInv /\ [FilesNext]_<<sheetVars, fileVars>> => SheetsInv' /\ FilesInv'
<1> SUFFICES ASSUME SheetsInv, FilesInv, [FilesNext]_<<sheetVars, fileVars>>
             PROVE  SheetsInv' /\ FilesInv'
  OBVIOUS
<1>1. SheetsInv'
  BY StepParts, SheetsInvStep
<1>2. CASE UNCHANGED fileVars
  <2>1. UNCHANGED <<owner, doc, object, minio, task, mishap>>
    BY <1>2 DEF fileVars
  <2>2. /\ task' \in [Task -> TaskType] /\ \A c \in Task : task'[c] = task[c]
        /\ minio' \in BOOLEAN /\ mishap' \in BOOLEAN /\ (mishap => mishap')
    BY <2>1 DEF FilesInv, FilesTyped
  <2>3. UNCHANGED <<owner, doc, object>>
    BY <2>1
  <2> QED
    BY <1>1, <2>2, <2>3, TaskEnded
<1> QED
  BY <1>1, <1>2, StepParts, UploadBegun, TaskBegunOn, StepOfTask, OwnerRemoved, RestartKeeps

LEMMA InvAlways == FilesSpec => [](SheetsInv /\ FilesInv)
<1>1. FilesInit => SheetsInv /\ FilesInv
  BY SheetsInvInit, FilesInvInit DEF FilesInit
<1> QED
  BY <1>1, InvStep, PTL DEF FilesSpec

-----------------------------------------------------------------------------
(* Theorems.                                                               *)

\* Sheets, rows, objects and the memory of the tasks keep their types.
THEOREM FileTypesAreKept == FilesSpec => []FilesTypeOK
<1>1. SheetsInv /\ FilesInv => FilesTypeOK
  BY DEF SheetsInv, SheetsTyped, FilesInv, FilesTyped, FilesTypeOK, TaskType
<1> QED
  BY <1>1, InvAlways, PTL

\* However the saves of a product overlap, abort or are rolled back by a restart,
\* a sheet holds the elements of the save that wrote its row, and no others.
THEOREM SheetsAreOfOneSave == FilesSpec => []SheetOfOneSave
<1>1. SheetsInv => SheetOfOneSave
  BY DEF SheetsInv, ElementsOfOneSave, SheetOfOneSave
<1> QED
  BY <1>1, InvAlways, PTL

\* A listed document has its object where its row says, until a deletion of this
\* document has begun: no replacement, failure or restart takes it away.
THEOREM ListedDocumentsAreStored == FilesSpec => []ListedMeansStored
<1>1. FilesInv => ListedMeansStored
  BY DEF FilesInv, RowsKeepObjects, RowsDescribeObjects, ListedMeansStored, DocPresent,
     HasRow, Stored
<1> QED
  BY <1>1, InvAlways, PTL

\* Without a failure the finished tasks leave no object without a row.
THEOREM NoObjectIsLeftOver == FilesSpec => []NothingLeftOver
<1>1. FilesInv => NothingLeftOver
  BY DEF FilesInv, NoOrphan, NothingLeftOver, Stored, Running, TaskAt
<1> QED
  BY <1>1, InvAlways, PTL

\* A download answers with the bytes that were sent; otherwise with nothing, because
\* of a deletion or of the store that this process does not use.
THEOREM DownloadsGiveTheOriginal == FilesSpec => DownloadsAreOriginal
<1> DEFINE Answered ==
      \A c \in Task : task[c].at = "fetch" /\ task'[c].answer # "none" =>
          \/ task'[c].answer = "plain"
          \/ /\ task'[c].answer = "missing"
             /\ DeletionBegun(task[c].doc) \/ (doc[task[c].doc].place = "minio" /\ ~minio)
<1>1. ASSUME FilesInv, FilesNext, NEW c \in Task, TaskAt(c, "fetch"), task'[c].answer # "none"
      PROVE  Fetch(c)
  <2>1. task[c].answer = "none" /\ task'[c] # task[c]
    BY <1>1 DEF FilesInv, TasksKnown
  <2>2. task'[c] # Over(c)
    BY <1>1, OverType DEF FilesInv
  <2>3. ASSUME NEW b \in Task, FileStep(b) PROVE Fetch(c)
    <3>1. c = b
      BY <1>1, <2>1, <2>3, StepIsLocal
    <3> QED
      BY <1>1, <2>2, <2>3, <3>1 DEF FileStep, PutObject, CreateRow, RemoveStoredObject,
         DeleteRow, Fail, Finish, TaskAt, FilesInv, FilesTyped
  <2>4. ASSUME NEW C \in SUBSET Task, NEW o \in Owner, NEW image \in BOOLEAN, NEW v \in Nat,
               BeginUpload(C, o, image, v)
        PROVE  FALSE
    BY <1>1, <2>1, <2>4 DEF BeginUpload, Unstarted, TaskAt
  <2>5. ASSUME NEW b \in Task, NEW d \in Task, Delete(b, d) \/ Download(b, d) PROVE FALSE
    BY <1>1, <2>1, <2>5 DEF Delete, Download, BeginOn, Unstarted, TaskAt, FilesInv, FilesTyped
  <2>6. CASE Restart
    BY <2>1, <2>2, <2>6 DEF Restart
  <2>7. CASE \E o \in Owner : RemoveOwner(o)
    BY <2>1, <2>7 DEF RemoveOwner
  <2>8. CASE UNCHANGED fileVars
    BY <2>1, <2>8 DEF fileVars
  <2> QED
    BY <1>1, <2>3, <2>4, <2>5, <2>6, <2>7, <2>8, StepParts
<1>2. FilesInv /\ [FilesNext]_<<sheetVars, fileVars>> => [Answered]_<<sheetVars, fileVars>>
  <2> SUFFICES ASSUME FilesInv, FilesNext, NEW c \in Task,
                      task[c].at = "fetch", task'[c].answer # "none"
               PROVE  \/ task'[c].answer = "plain"
                      \/ /\ task'[c].answer = "missing"
                         /\ \/ DeletionBegun(task[c].doc)
                            \/ doc[task[c].doc].place = "minio" /\ ~minio
    OBVIOUS
  <2> QED
    BY <1>1, FetchAnswers DEF TaskAt
<1>3. [][Answered]_<<sheetVars, fileVars>> => DownloadsAreOriginal
  BY PTL DEF DownloadsAreOriginal
<1> QED
  BY <1>2, <1>3, InvAlways, PTL DEF FilesSpec
===============================================================================

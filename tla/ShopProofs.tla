------------------------------ MODULE ShopProofs ------------------------------
(***************************************************************************)
(* Proofs about Catalogue and Shop, for any products, categories, shared   *)
(* catalogues, bounds and number of overlapping calls.                     *)
(***************************************************************************)
EXTENDS Shop, FiniteSetTheorems, TLAPS

Drawing == {"draw", "probe", "insert"}

\* What a call remembers, by what it is doing.
MemoryKnown ==
  \A c \in Call :
    /\ call[c].pc \in Drawing => /\ call[c].category \in Category /\ call[c].ref \in Ref
                                 /\ call[c].owner \in Owner
    /\ call[c].pc = "edit" => call[c].product \in Product /\ call[c].category \in Category
    /\ call[c].pc \in {"fill", "drop", "view"} => call[c].share \in Share
    /\ call[c].pc = "share" => call[c].share \in Share \cup {None}

CountersStart == \A k \in Category : category[k].next >= 1

TypeInv == CatalogueTypeOK /\ MemoryKnown /\ CountersStart

\* The memories after a step: c's is m, the others are kept.
CallBecomes(c, m) ==
  /\ call' \in [Call -> Memory]
  /\ call'[c] = m
  /\ \A d \in Call \ {c} : call'[d] = call[d]

Released(c) ==
  \A k \in Category : locked'[k] = IF locked[k] = c THEN NoCall ELSE locked[k]

LEMMA IdleType == Idle \in Memory /\ Idle.pc = "idle" /\ Idle.tries = 0
  BY DEF Idle, Memory

LEMMA BeginEffect ==
  ASSUME TypeInv, NEW c \in Call, NEW m \in Memory, Begin(c, m)
  PROVE  /\ CallBecomes(c, m) /\ call[c].pc = "idle"
         /\ begun' \in 0 .. MaxCalls /\ begun' = begun + 1 /\ begun' <= MaxCalls
<1>1. begun \in 0 .. MaxCalls /\ MaxCalls \in Nat
  BY CatalogueAssumption DEF TypeInv, CatalogueTypeOK
<1>2. CallBecomes(c, m)
  BY DEF Begin, CallBecomes, TypeInv, CatalogueTypeOK
<1> QED
  BY <1>1, <1>2 DEF Begin

LEMMA BecomeEffect ==
  ASSUME TypeInv, NEW c \in Call, NEW m \in Memory, Become(c, m)
  PROVE  CallBecomes(c, m) /\ UNCHANGED begun
  BY DEF Become, CallBecomes, TypeInv, CatalogueTypeOK

LEMMA EndEffect ==
  ASSUME TypeInv, NEW c \in Call, End(c)
  PROVE  /\ CallBecomes(c, Idle) /\ UNCHANGED begun /\ Released(c)
         /\ locked' \in [Category -> Call \cup {NoCall}]
  BY IdleType, BecomeEffect DEF End, Release, Released, TypeInv, CatalogueTypeOK

LEMMA MemoryKept ==
  ASSUME TypeInv, NEW c \in Call, NEW m \in Memory, CallBecomes(c, m),
         m.pc \in Drawing => m.category \in Category /\ m.ref \in Ref /\ m.owner \in Owner,
         m.pc = "edit" => m.product \in Product /\ m.category \in Category,
         m.pc \in {"fill", "drop", "view"} => m.share \in Share,
         m.pc = "share" => m.share \in Share \cup {None}
  PROVE  MemoryKnown'
<1> SUFFICES ASSUME NEW d \in Call
             PROVE  /\ call'[d].pc \in Drawing => /\ call'[d].category \in Category /\ call'[d].ref \in Ref
                                                  /\ call'[d].owner \in Owner
                    /\ call'[d].pc = "edit" => call'[d].product \in Product /\ call'[d].category \in Category
                    /\ call'[d].pc \in {"fill", "drop", "view"} => call'[d].share \in Share
                    /\ call'[d].pc = "share" => call'[d].share \in Share \cup {None}
  BY DEF MemoryKnown
<1>1. CASE d = c
  BY <1>1 DEF CallBecomes
<1>2. CASE d # c
  <2>1. call'[d] = call[d]
    BY <1>2 DEF CallBecomes
  <2> QED
    BY <2>1 DEF TypeInv, MemoryKnown
<1> QED
  BY <1>1, <1>2

LEMMA IdleKept ==
  ASSUME TypeInv, NEW c \in Call, CallBecomes(c, Idle)
  PROVE  MemoryKnown'
  BY IdleType, MemoryKept DEF Drawing

LEMMA CountersKept ==
  ASSUME CountersStart, \A k \in Category : category'[k].next >= category[k].next,
         \A k \in Category : category[k].next \in Nat /\ category'[k].next \in Nat
  PROVE  CountersStart'
  BY DEF CountersStart

LEMMA SingleEffect ==
  ASSUME TypeInv, Single
  PROVE  /\ UNCHANGED call /\ begun' = begun + 1
         /\ begun' \in 0 .. MaxCalls /\ begun' <= MaxCalls
<1>1. begun \in 0 .. MaxCalls /\ MaxCalls \in Nat
  BY CatalogueAssumption DEF TypeInv, CatalogueTypeOK
<1> QED
  BY <1>1 DEF Single

-----------------------------------------------------------------------------
(* What the steps of a creation change.                                    *)

LEMMA BeginCreateEffect ==
  ASSUME TypeInv, NEW c \in Call, NEW k \in Category, NEW n \in 0 .. MaxNumber,
         NEW owner \in Owner, BeginCreate(c, k, n, owner)
  PROVE  \E m \in Memory :
           /\ CallBecomes(c, m) /\ m.category = k /\ m.ref \in Ref /\ m.owner \in Owner
           /\ call[c].pc = "idle"
           /\ begun' \in 0 .. MaxCalls /\ begun' = begun + 1
           /\ \/ m.pc = "draw" /\ typed' = typed
              \/ m.pc = "insert" /\ typed' = typed \cup {m.ref}
           /\ UNCHANGED <<category, locked, product, share, drawn, peak>>
<1> DEFINE ref == [prefix |-> category[k].prefix, number |-> IF n = 0 THEN 1 ELSE n]
           m == [Idle EXCEPT !.pc = IF n = 0 THEN "draw" ELSE "insert",
                             !.category = k, !.ref = ref, !.owner = owner]
<1>1. category[k].prefix \in Prefix
  BY DEF TypeInv, CatalogueTypeOK, CategoryRow
<1>2. (IF n = 0 THEN 1 ELSE n) \in 1 .. MaxNumber
  BY CatalogueAssumption
<1>3. ref \in Ref
  BY <1>1, <1>2 DEF Ref
<1> HIDE DEF ref
<1>4. /\ m \in Memory /\ m.category = k /\ m.ref = ref /\ m.owner = owner
      /\ m.pc = (IF n = 0 THEN "draw" ELSE "insert")
  BY <1>3, IdleType DEF Idle, Memory
<1>5. /\ Begin(c, m)
      /\ typed' = IF n = 0 THEN typed ELSE typed \cup {ref}
      /\ UNCHANGED <<category, locked, product, share, drawn, peak>>
  BY DEF BeginCreate, ref
<1> HIDE DEF m
<1>6. CallBecomes(c, m) /\ call[c].pc = "idle" /\ begun' \in 0 .. MaxCalls /\ begun' = begun + 1
  BY <1>4, <1>5, BeginEffect
<1> QED
  BY <1>3, <1>4, <1>5, <1>6

LEMMA DrawEffect ==
  ASSUME TypeInv, NEW c \in Call, Draw(c)
  PROVE  LET k == call[c].category IN
         /\ k \in Category /\ call[c].pc = "draw" /\ locked[k] \in {NoCall, c}
         /\ locked' = [locked EXCEPT ![k] = c]
         /\ \E m \in Memory :
              /\ CallBecomes(c, m) /\ m.pc = "probe" /\ m.category = k
              /\ m.ref \in Ref /\ m.ref.number = Number(c, k) /\ m.owner = call[c].owner
         /\ UNCHANGED <<begun, category, product, share, typed, drawn, peak>>
<1> DEFINE k == call[c].category
           m == [call[c] EXCEPT !.pc = "probe", !.ref.number = Number(c, k), !.tries = @ + 1]
           ref == [call[c].ref EXCEPT !.number = Number(c, k)]
<1>1. /\ call[c].pc = "draw" /\ k \in Category /\ call[c].ref \in Ref /\ call[c] \in Memory
  BY DEF Draw, TypeInv, CatalogueTypeOK, MemoryKnown, Drawing
<1>2. Number(c, k) \in 1 .. MaxNumber
  <2>1. category[k].next \in Nat /\ category[k].next >= 1
    BY <1>1 DEF TypeInv, CatalogueTypeOK, CategoryRow, CountersStart
  <2>2. call[c].ref.number \in 1 .. MaxNumber
    BY <1>1 DEF Ref
  <2>3. Number(c, k) <= MaxNumber
    BY DEF Draw
  <2> QED
    BY <2>1, <2>2, <2>3, CatalogueAssumption DEF Number
<1>3. ref \in Ref /\ ref.number = Number(c, k)
  BY <1>1, <1>2 DEF Ref
<1>4. call[c].tries + 1 \in Nat
  BY <1>1 DEF Memory
<1>5. /\ m \in Memory /\ m.pc = "probe" /\ m.category = k /\ m.ref = ref
      /\ m.owner = call[c].owner
  <2>1. m = [call[c] EXCEPT !.pc = "probe", !.ref = ref, !.tries = call[c].tries + 1]
    BY <1>1 DEF Memory
  <2> HIDE DEF ref, m
  <2> QED
    BY <1>1, <1>3, <1>4, <2>1 DEF Memory
<1>6. /\ Become(c, m) /\ locked' = [locked EXCEPT ![k] = c] /\ locked[k] \in {NoCall, c}
      /\ UNCHANGED <<category, product, share, typed, drawn, peak>>
  BY DEF Draw, MayLock
<1> HIDE DEF m, ref
<1> QED
  BY <1>1, <1>3, <1>5, <1>6, BecomeEffect

LEMMA ProbeEffect ==
  ASSUME TypeInv, NEW c \in Call, Probe(c)
  PROVE  /\ call[c].pc = "probe"
         /\ \E m \in Memory :
              /\ CallBecomes(c, m) /\ m.category = call[c].category /\ m.ref = call[c].ref
              /\ m.owner = call[c].owner
              /\ m.pc = IF CandidateIsFree(c) THEN "insert" ELSE "draw"
         /\ UNCHANGED <<begun, category, locked, product, share, typed, drawn, peak>>
<1> DEFINE m == [call[c] EXCEPT !.pc = IF CandidateIsFree(c) THEN "insert" ELSE "draw"]
<1>1. call[c].pc = "probe" /\ call[c] \in Memory
  BY DEF Probe, TypeInv, CatalogueTypeOK
<1>2. /\ m \in Memory /\ m.category = call[c].category /\ m.ref = call[c].ref
      /\ m.owner = call[c].owner
      /\ m.pc = IF CandidateIsFree(c) THEN "insert" ELSE "draw"
  BY <1>1 DEF Memory
<1>3. Become(c, m) /\ UNCHANGED <<category, locked, product, share, typed, drawn, peak>>
  BY DEF Probe
<1> HIDE DEF m
<1> QED
  BY <1>1, <1>2, <1>3, BecomeEffect

LEMMA InsertEffect ==
  ASSUME TypeInv, NEW c \in Call, NEW p \in Product, Insert(c, p)
  PROVE  LET k == call[c].category
             m == call[c] IN
         /\ k \in Category /\ m.pc = "insert" /\ m.ref \in Ref /\ m.owner \in Owner
         /\ product' = [product EXCEPT ![p] =
              [state |-> "present", category |-> k, ref |-> m.ref, owner |-> m.owner]]
         /\ category' \in [Category -> CategoryRow]
         /\ category'[k].next = CounterAfter(c, k)
         /\ \A j \in Category \ {k} : category'[j].next = category[j].next
         /\ drawn' = IF locked[k] = c THEN drawn \cup {<<k, m.ref>>} ELSE drawn
         /\ CallBecomes(c, Idle) /\ Released(c) /\ locked' \in [Category -> Call \cup {NoCall}]
         /\ UNCHANGED <<begun, share, typed, peak>>
<1> DEFINE k == call[c].category
           m == call[c]
<1>1. k \in Category /\ m.pc = "insert" /\ m.ref \in Ref /\ m.owner \in Owner
  BY DEF Insert, TypeInv, MemoryKnown, Drawing
<1>2. category' = [category EXCEPT ![k].next = CounterAfter(c, k)]
  BY DEF Insert
<1>3. CounterAfter(c, k) \in Nat
  <2>1. category[k].next \in Nat
    BY <1>1 DEF TypeInv, CatalogueTypeOK, CategoryRow
  <2>2. m.ref.number \in Nat
    BY <1>1, CatalogueAssumption DEF Ref
  <2> QED
    BY <2>1, <2>2 DEF CounterAfter
<1>4. category' \in [Category -> CategoryRow] /\ category'[k].next = CounterAfter(c, k)
  BY <1>1, <1>2, <1>3 DEF TypeInv, CatalogueTypeOK, CategoryRow
<1>5. \A j \in Category \ {k} : category'[j].next = category[j].next
  BY <1>2 DEF TypeInv, CatalogueTypeOK
<1> QED
  BY <1>1, <1>4, <1>5, EndEffect DEF Insert

-----------------------------------------------------------------------------
(* What the other calls change.                                            *)

LEMMA ReadEditEffect ==
  ASSUME TypeInv, NEW c \in Call, NEW p \in Product, NEW k \in Category,
         NEW ref \in Ref \cup {NoRef}, NEW owner \in Owner \cup {None},
         ReadEdit(c, p, k, ref, owner)
  PROVE  \E m \in Memory :
           /\ CallBecomes(c, m) /\ m.pc = "edit" /\ m.product = p /\ m.category = k /\ m.ref = ref
           /\ call[c].pc = "idle" /\ begun' \in 0 .. MaxCalls /\ begun' = begun + 1
           /\ typed' = IF ref = NoRef THEN typed ELSE typed \cup {ref}
           /\ UNCHANGED <<category, locked, product, share, drawn, peak>>
<1> DEFINE m == [Idle EXCEPT !.pc = "edit", !.product = p, !.category = k,
                             !.ref = ref, !.owner = owner]
<1>1. m \in Memory /\ m.pc = "edit" /\ m.product = p /\ m.category = k /\ m.ref = ref
  BY IdleType DEF Idle, Memory
<1>2. /\ Begin(c, m) /\ typed' = IF ref = NoRef THEN typed ELSE typed \cup {ref}
      /\ UNCHANGED <<category, locked, product, share, drawn, peak>>
  BY DEF ReadEdit
<1> HIDE DEF m
<1> QED
  BY <1>1, <1>2, BeginEffect

LEMMA WriteEditEffect ==
  ASSUME TypeInv, NEW c \in Call, WriteEdit(c)
  PROVE  LET m == call[c] IN
         /\ m.pc = "edit" /\ product' \in [Product -> ProductRow]
         /\ \A p \in Product : \/ product'[p].ref = product[p].ref
                               \/ m.ref # NoRef /\ product'[p].ref = m.ref
         /\ CallBecomes(c, Idle) /\ Released(c) /\ locked' \in [Category -> Call \cup {NoCall}]
         /\ UNCHANGED <<begun, category, share, typed, drawn, peak>>
<1> DEFINE m == call[c]
           p == m.product
           a == [product[p] EXCEPT !.category = m.category]
           b == [a EXCEPT !.ref = IF m.ref = NoRef THEN product[p].ref ELSE m.ref]
           d == [b EXCEPT !.owner = IF m.owner = None THEN product[p].owner ELSE m.owner]
<1>1. m.pc = "edit" /\ p \in Product /\ m.category \in Category /\ m \in Memory
  BY DEF WriteEdit, TypeInv, CatalogueTypeOK, MemoryKnown
<1>2. product[p] \in ProductRow
  BY <1>1 DEF TypeInv, CatalogueTypeOK
<1>3. a \in ProductRow /\ a.ref = product[p].ref /\ a.owner = product[p].owner
  BY <1>1, <1>2 DEF ProductRow
<1>4. product' = [product EXCEPT ![p] = d]
  BY <1>1, <1>2 DEF WriteEdit, TypeInv, CatalogueTypeOK, ProductRow
<1>5. /\ b \in ProductRow /\ b.owner = product[p].owner
      /\ b.ref = IF m.ref = NoRef THEN product[p].ref ELSE m.ref
  BY <1>1, <1>2, <1>3 DEF ProductRow, Memory
<1>6. d \in ProductRow /\ d.ref = b.ref
  BY <1>1, <1>2, <1>5 DEF ProductRow, Memory
<1> HIDE DEF a, b, d
<1>7. product' \in [Product -> ProductRow]
  BY <1>1, <1>4, <1>6 DEF TypeInv, CatalogueTypeOK
<1>8. \A q \in Product : product'[q].ref = product[q].ref \/ (m.ref # NoRef /\ product'[q].ref = m.ref)
  BY <1>1, <1>4, <1>5, <1>6 DEF TypeInv, CatalogueTypeOK
<1> QED
  BY <1>1, <1>7, <1>8, EndEffect DEF WriteEdit

\* A call on a shared catalogue begins: it reads, and remembers what it is about.
LEMMA ShareReadEffect ==
  ASSUME TypeInv, NEW c \in Call,
         \/ \E s \in Share \cup {None}, ps \in SUBSET Product : ReadShare(c, s, ps)
         \/ \E s \in Share : ReadDrop(c, s) \/ ReadView(c, s)
  PROVE  \E m \in Memory :
           /\ CallBecomes(c, m) /\ call[c].pc = "idle"
           /\ begun' \in 0 .. MaxCalls /\ begun' = begun + 1 /\ begun' <= MaxCalls
           /\ \/ m.pc = "share" /\ m.share \in Share \cup {None}
              \/ m.pc = "drop" /\ m.share \in Share
              \/ /\ m.pc = "view" /\ m.share \in Share
                 /\ share[m.share].state = "ACTIVE" /\ LimitAllows(m.share)
                 /\ m.products = PublicProducts(m.share)
           /\ UNCHANGED <<category, locked, product, share, typed, drawn, peak>>
<1>1. ASSUME NEW s \in Share \cup {None}, NEW ps \in SUBSET Product, ReadShare(c, s, ps)
      PROVE  \E m \in Memory :
               /\ Begin(c, m) /\ m.pc = "share" /\ m.share \in Share \cup {None}
               /\ UNCHANGED <<category, locked, product, share, typed, drawn, peak>>
  <2> DEFINE m == [Idle EXCEPT !.pc = "share", !.share = s, !.products = ps]
  <2>1. m \in Memory /\ m.pc = "share" /\ m.share = s
    BY IdleType DEF Idle, Memory
  <2>2. Begin(c, m) /\ UNCHANGED <<category, locked, product, share, typed, drawn, peak>>
    BY <1>1 DEF ReadShare
  <2> HIDE DEF m
  <2> QED
    BY <2>1, <2>2
<1>2. ASSUME NEW s \in Share, ReadDrop(c, s)
      PROVE  \E m \in Memory :
               /\ Begin(c, m) /\ m.pc = "drop" /\ m.share \in Share
               /\ UNCHANGED <<category, locked, product, share, typed, drawn, peak>>
  <2> DEFINE m == [Idle EXCEPT !.pc = "drop", !.share = s]
  <2>1. m \in Memory /\ m.pc = "drop" /\ m.share = s
    BY IdleType DEF Idle, Memory
  <2>2. Begin(c, m) /\ UNCHANGED <<category, locked, product, share, typed, drawn, peak>>
    BY <1>2 DEF ReadDrop
  <2> HIDE DEF m
  <2> QED
    BY <2>1, <2>2
<1>3. ASSUME NEW s \in Share, ReadView(c, s)
      PROVE  \E m \in Memory :
               /\ Begin(c, m) /\ m.pc = "view" /\ m.share \in Share
               /\ share[m.share].state = "ACTIVE" /\ LimitAllows(m.share)
               /\ m.products = PublicProducts(m.share)
               /\ UNCHANGED <<category, locked, product, share, typed, drawn, peak>>
  <2> DEFINE m == [Idle EXCEPT !.pc = "view", !.share = s, !.products = PublicProducts(s)]
  <2>0. PublicProducts(s) \in SUBSET Product
    BY DEF PublicProducts, TypeInv, CatalogueTypeOK, ShareRow
  <2>1. /\ m \in Memory /\ m.pc = "view" /\ m.share = s /\ m.products = PublicProducts(s)
    BY <2>0, IdleType DEF Idle, Memory
  <2>2. /\ Begin(c, m) /\ share[s].state = "ACTIVE" /\ LimitAllows(s)
        /\ UNCHANGED <<category, locked, product, share, typed, drawn, peak>>
    BY <1>3 DEF ReadView
  <2> HIDE DEF m
  <2> QED
    BY <2>1, <2>2
<1> QED
  BY <1>1, <1>2, <1>3, BeginEffect

\* The writes of the calls on a shared catalogue: only a new view adds to the
\* count, and the largest limit only grows.
ShareKept(s) ==
  /\ share'[s].views <= share[s].views
  /\ Shown(s)' => IF share'[s].limit = NoLimit THEN peak'[s] >= MaxCalls
                  ELSE peak'[s] >= share'[s].limit
  /\ peak'[s] >= peak[s]

\* A limit that is shown is at most the largest one there has been.
PeakInv ==
  \A s \in Share : Shown(s) =>
    IF share[s].limit = NoLimit THEN peak[s] >= MaxCalls ELSE peak[s] >= share[s].limit

LEMMA PeakEffect ==
  ASSUME TypeInv, NEW s \in Share, NEW l \in Limit \cup {NoLimit}, Peak(s, l)
  PROVE  /\ peak' \in [Share -> Nat]
         /\ peak'[s] >= peak[s] /\ \A t \in Share \ {s} : peak'[t] = peak[t]
         /\ IF l = NoLimit THEN peak'[s] >= MaxCalls ELSE peak'[s] >= l
<1> DEFINE bound == IF l = NoLimit THEN MaxCalls ELSE l
           new == IF bound > peak[s] THEN bound ELSE peak[s]
<1>1. bound \in Nat /\ peak[s] \in Nat /\ peak \in [Share -> Nat]
  BY CatalogueAssumption DEF TypeInv, CatalogueTypeOK
<1>2. peak' = [peak EXCEPT ![s] = new]
  BY DEF Peak
<1> HIDE DEF bound
<1>3. new \in Nat /\ new >= bound /\ new >= peak[s]
  BY <1>1
<1> HIDE DEF new
<1>4. peak' \in [Share -> Nat] /\ peak'[s] = new /\ \A t \in Share \ {s} : peak'[t] = peak[t]
  BY <1>1, <1>2, <1>3
<1> QED
  BY <1>3, <1>4 DEF bound

\* A row of a shared catalogue is written, with the largest limit it has had.
LEMMA ShareRowWritten ==
  ASSUME TypeInv, PeakInv, NEW s \in Share, NEW row \in ShareRow,
         share' = [share EXCEPT ![s] = row], row.views <= share[s].views,
         \/ UNCHANGED peak /\ (row.state \in {"ACTIVE", "CLOSED"} => Shown(s) /\ row.limit = share[s].limit)
         \/ Peak(s, row.limit)
  PROVE  share' \in [Share -> ShareRow] /\ peak' \in [Share -> Nat] /\ \A t \in Share : ShareKept(t)
<1>1. /\ share' \in [Share -> ShareRow] /\ share'[s] = row
      /\ \A t \in Share \ {s} : share'[t] = share[t]
  BY DEF TypeInv, CatalogueTypeOK
<1>2. row.limit \in Limit \cup {NoLimit}
  BY DEF ShareRow
<1>3. \A t \in Share : share[t].views \in Nat /\ peak[t] \in Nat
  BY DEF TypeInv, CatalogueTypeOK, ShareRow
<1>4. CASE UNCHANGED peak /\ (row.state \in {"ACTIVE", "CLOSED"} => Shown(s) /\ row.limit = share[s].limit)
  BY <1>1, <1>3, <1>4 DEF ShareKept, PeakInv, Shown, TypeInv, CatalogueTypeOK
<1>5. CASE Peak(s, row.limit)
  <2>1. /\ peak' \in [Share -> Nat]
        /\ peak'[s] >= peak[s] /\ \A t \in Share \ {s} : peak'[t] = peak[t]
        /\ IF row.limit = NoLimit THEN peak'[s] >= MaxCalls ELSE peak'[s] >= row.limit
    BY <1>2, <1>5, PeakEffect
  <2> QED
    BY <1>1, <1>3, <2>1 DEF ShareKept, PeakInv, Shown
<1> QED
  BY <1>4, <1>5

LEMMA ShareWriteEffect ==
  ASSUME TypeInv, PeakInv, NEW c \in Call,
         \/ WriteReplacement(c)
         \/ \E s \in Share, l \in Limit \cup {NoLimit} : WriteShare(c, s, l)
         \/ WriteDrop(c)
  PROVE  /\ call[c].pc \in {"share", "fill", "drop"}
         /\ CallBecomes(c, Idle) /\ Released(c) /\ locked' \in [Category -> Call \cup {NoCall}]
         /\ share' \in [Share -> ShareRow] /\ peak' \in [Share -> Nat]
         /\ \A t \in Share : ShareKept(t)
         /\ UNCHANGED <<begun, category, product, typed, drawn>>
<1> DEFINE m == call[c]
<1>0. m \in Memory
  BY DEF TypeInv, CatalogueTypeOK
<1>1. CASE WriteReplacement(c)
  <2> DEFINE s == m.share
             products == Survivors(c) \cup m.products
             unseen == share[s].unseen \cup (Filling(s) \X m.products)
             filled == [share[s] EXCEPT !.products = products]
             row == [filled EXCEPT !.unseen = unseen]
  <2>1. m.pc = "fill" /\ s \in Share /\ Shown(s)
    BY <1>1 DEF WriteReplacement, TypeInv, MemoryKnown
  <2>2. /\ row \in ShareRow /\ row.state = share[s].state /\ row.limit = share[s].limit
        /\ row.views = share[s].views /\ row.views \in Nat
    <3>1. m.products \in SUBSET Product /\ Filling(s) \in SUBSET Call
      BY <1>0 DEF Memory, Filling
    <3>2. share[s] \in ShareRow
      BY <2>1 DEF TypeInv, CatalogueTypeOK
    <3>3. products \in SUBSET Product /\ unseen \in SUBSET (Call \X Product)
      BY <3>1, <3>2 DEF ShareRow, Survivors
    <3> HIDE DEF products, unseen
    <3> QED
      BY <3>2, <3>3 DEF ShareRow
  <2>3. share' = [share EXCEPT ![s] = row] /\ UNCHANGED peak
    BY <1>1 DEF WriteReplacement
  <2> HIDE DEF row
  <2>4. row.views <= share[s].views
    BY <2>2
  <2>5. share' \in [Share -> ShareRow] /\ peak' \in [Share -> Nat] /\ \A t \in Share : ShareKept(t)
    BY <2>1, <2>2, <2>3, <2>4, ShareRowWritten
  <2> QED
    BY <1>1, <2>1, <2>5, EndEffect DEF WriteReplacement
<1>2. ASSUME NEW s \in Share, NEW l \in Limit \cup {NoLimit}, WriteShare(c, s, l)
      PROVE  /\ m.pc = "share" /\ End(c) /\ UNCHANGED <<category, product, typed, drawn>>
             /\ share' \in [Share -> ShareRow] /\ peak' \in [Share -> Nat]
             /\ \A t \in Share : ShareKept(t)
  <2> DEFINE row == [state |-> "ACTIVE", products |-> m.products, limit |-> l, views |-> 0,
                     unseen |-> {}]
  <2>1. row \in ShareRow /\ row.limit = l /\ row.views = 0
    BY <1>0 DEF ShareRow, Memory
  <2>2. share' = [share EXCEPT ![s] = row] /\ Peak(s, l)
    BY <1>2 DEF WriteShare
  <2> HIDE DEF row
  <2>3. row.views <= share[s].views
    BY <2>1 DEF TypeInv, CatalogueTypeOK, ShareRow
  <2>4. share' \in [Share -> ShareRow] /\ peak' \in [Share -> Nat] /\ \A t \in Share : ShareKept(t)
    BY <2>1, <2>2, <2>3, ShareRowWritten
  <2> QED
    BY <1>2, <2>4 DEF WriteShare
<1>3. CASE WriteDrop(c)
  <2> DEFINE s == m.share
             row == NoShare("gone")
  <2>1. m.pc = "drop" /\ s \in Share
    BY <1>3 DEF WriteDrop, TypeInv, MemoryKnown
  <2>2. row \in ShareRow /\ row.state = "gone" /\ row.views = 0
    BY DEF NoShare, ShareRow
  <2>3. share' = [share EXCEPT ![s] = row] /\ UNCHANGED peak
    BY <1>3 DEF WriteDrop
  <2> HIDE DEF row
  <2>4. row.views <= share[s].views
    BY <2>1, <2>2 DEF TypeInv, CatalogueTypeOK, ShareRow
  <2>5. share' \in [Share -> ShareRow] /\ peak' \in [Share -> Nat] /\ \A t \in Share : ShareKept(t)
    BY <2>1, <2>2, <2>3, <2>4, ShareRowWritten
  <2> QED
    BY <1>3, <2>1, <2>5, EndEffect DEF WriteDrop
<1> QED
  BY <1>1, <1>2, <1>3, EndEffect

\* A replacement deletes what it sees: only its memory and the row's unseen change.
LEMMA WipeEffect ==
  ASSUME TypeInv, PeakInv, NEW c \in Call, WipeShare(c)
  PROVE  /\ call[c].pc = "share"
         /\ \E m \in Memory : CallBecomes(c, m) /\ m.pc = "fill" /\ m.share \in Share
         /\ share' \in [Share -> ShareRow] /\ peak' \in [Share -> Nat]
         /\ \A t \in Share : ShareKept(t)
         /\ UNCHANGED <<begun, category, locked, product, typed, drawn>>
<1> DEFINE s == call[c].share
           m == [call[c] EXCEPT !.pc = "fill"]
           unseen == {x \in share[s].unseen : x[1] # c}
           row == [share[s] EXCEPT !.unseen = unseen]
<1>1. call[c].pc = "share" /\ s \in Share /\ Shown(s) /\ call[c] \in Memory
  BY DEF WipeShare, TypeInv, MemoryKnown, CatalogueTypeOK
<1>2. m \in Memory /\ m.pc = "fill" /\ m.share = s
  BY <1>1 DEF Memory
<1>3. share[s] \in ShareRow
  BY <1>1 DEF TypeInv, CatalogueTypeOK
<1>4. /\ row \in ShareRow /\ row.state = share[s].state /\ row.limit = share[s].limit
      /\ row.views = share[s].views /\ row.views \in Nat
  <2>1. unseen \in SUBSET (Call \X Product)
    BY <1>3 DEF ShareRow
  <2> HIDE DEF unseen
  <2> QED
    BY <1>3, <2>1 DEF ShareRow
<1>5. /\ share' = [share EXCEPT ![s] = row]
      /\ Become(c, m)
      /\ UNCHANGED <<category, locked, product, typed, drawn, peak>>
  BY DEF WipeShare
<1> HIDE DEF row, m
<1>6. row.views <= share[s].views
  BY <1>4
<1>7. share' \in [Share -> ShareRow] /\ peak' \in [Share -> Nat] /\ \A t \in Share : ShareKept(t)
  BY <1>1, <1>4, <1>5, <1>6, ShareRowWritten
<1>8. CallBecomes(c, m) /\ UNCHANGED begun
  BY <1>2, <1>5, BecomeEffect
<1> QED
  BY <1>1, <1>2, <1>5, <1>7, <1>8

LEMMA CountViewEffect ==
  ASSUME TypeInv, NEW c \in Call, CountView(c)
  PROVE  LET s == call[c].share IN
         /\ call[c].pc = "view" /\ s \in Share
         /\ CallBecomes(c, Idle) /\ Released(c) /\ locked' \in [Category -> Call \cup {NoCall}]
         /\ share' \in [Share -> ShareRow]
         /\ share'[s].views = share[s].views + 1
         /\ \A t \in Share \ {s} : share'[t].views = share[t].views
         /\ \A t \in Share : share'[t].state = share[t].state /\ share'[t].limit = share[t].limit
         /\ UNCHANGED <<begun, category, product, typed, drawn, peak>>
<1> DEFINE s == call[c].share
           row == [share[s] EXCEPT !.views = share[s].views + 1]
<1>1. call[c].pc = "view" /\ s \in Share
  BY DEF CountView, TypeInv, MemoryKnown
<1>2. /\ row \in ShareRow /\ row.state = share[s].state /\ row.limit = share[s].limit
      /\ row.views = share[s].views + 1
  BY <1>1 DEF TypeInv, CatalogueTypeOK, ShareRow
<1>3. share' = [share EXCEPT ![s] = row]
  BY <1>1 DEF CountView, TypeInv, CatalogueTypeOK
<1> HIDE DEF row
<1>4. /\ share' \in [Share -> ShareRow] /\ share'[s] = row
      /\ \A t \in Share \ {s} : share'[t] = share[t]
  BY <1>1, <1>2, <1>3 DEF TypeInv, CatalogueTypeOK
<1>5. \A t \in Share : share'[t].state = share[t].state /\ share'[t].limit = share[t].limit
  BY <1>2, <1>4
<1>6. CallBecomes(c, Idle) /\ Released(c) /\ locked' \in [Category -> Call \cup {NoCall}] /\ UNCHANGED begun
  BY EndEffect DEF CountView
<1> QED
  BY <1>1, <1>2, <1>4, <1>5, <1>6 DEF CountView

\* A catalogue is edited by the staff.
LEMMA ShareEditEffect ==
  ASSUME TypeInv, PeakInv, NEW s \in Share,
         \/ \E status \in {"ACTIVE", "CLOSED"}, l \in Limit \cup {NoLimit} : EditShare(s, status, l)
         \/ \E p \in Product : RemoveFromShare(s, p)
  PROVE  /\ share' \in [Share -> ShareRow] /\ peak' \in [Share -> Nat]
         /\ \A t \in Share : ShareKept(t)
         /\ Single /\ UNCHANGED <<category, locked, product, typed, drawn>>
<1>0. share[s] \in ShareRow /\ share \in [Share -> ShareRow] /\ share[s].views \in Nat
  BY DEF TypeInv, CatalogueTypeOK, ShareRow
<1>1. ASSUME NEW status \in {"ACTIVE", "CLOSED"}, NEW l \in Limit \cup {NoLimit},
             EditShare(s, status, l)
      PROVE  share' \in [Share -> ShareRow] /\ peak' \in [Share -> Nat] /\ \A t \in Share : ShareKept(t)
  <2> DEFINE a == [share[s] EXCEPT !.state = status]
             row == [a EXCEPT !.limit = l]
  <2>1. a \in ShareRow /\ a.views = share[s].views
    BY <1>0 DEF ShareRow
  <2>2. share' = [share EXCEPT ![s] = row]
    BY <1>0, <1>1 DEF EditShare, ShareRow
  <2> HIDE DEF a
  <2>3. row \in ShareRow /\ row.limit = l /\ row.views = share[s].views
    BY <2>1 DEF ShareRow
  <2> HIDE DEF row
  <2>4. row.views <= share[s].views
    BY <1>0, <2>3
  <2>5. Peak(s, row.limit)
    <3>1. Peak(s, l)
      BY <1>1 DEF EditShare
    <3> QED
      BY <2>3, <3>1
  <2> QED
    BY <2>2, <2>3, <2>4, <2>5, ShareRowWritten
<1>2. ASSUME NEW p \in Product, RemoveFromShare(s, p)
      PROVE  share' \in [Share -> ShareRow] /\ peak' \in [Share -> Nat] /\ \A t \in Share : ShareKept(t)
  <2> DEFINE row == [share[s] EXCEPT !.products = @ \ {p}]
  <2>1. /\ row \in ShareRow /\ row.state = share[s].state /\ row.limit = share[s].limit
        /\ row.views = share[s].views
    BY <1>0 DEF ShareRow
  <2>2. share' = [share EXCEPT ![s] = row] /\ UNCHANGED peak
    BY <1>0, <1>2 DEF RemoveFromShare
  <2> HIDE DEF row
  <2>3. row.views <= share[s].views /\ (row.state \in {"ACTIVE", "CLOSED"} => Shown(s))
    BY <1>0, <2>1 DEF Shown
  <2> QED
    BY <2>1, <2>2, <2>3, ShareRowWritten
<1> QED
  BY <1>1, <1>2 DEF EditShare, RemoveFromShare

\* Products and categories are edited by calls of one statement.
LEMMA RemoveProductEffect ==
  ASSUME TypeInv, NEW p \in Product, RemoveProduct(p)
  PROVE  /\ product' \in [Product -> ProductRow]
         /\ \A q \in Product : product'[q].ref = product[q].ref \/ product'[q].ref = NoRef
         /\ Single /\ UNCHANGED <<category, locked, share, typed, drawn, peak>>
<1>1. Blank("gone") \in ProductRow /\ Blank("gone").ref = NoRef
  BY DEF Blank, ProductRow
<1>2. product' = [product EXCEPT ![p] = Blank("gone")]
  BY DEF RemoveProduct
<1> QED
  BY <1>1, <1>2 DEF RemoveProduct, TypeInv, CatalogueTypeOK

LEMMA CategoryEditEffect ==
  ASSUME TypeInv, NEW k \in Category,
         RemoveCategory(k) \/ \E x \in Prefix : EditCategory(k, x)
  PROVE  /\ category' \in [Category -> CategoryRow]
         /\ \A j \in Category : category'[j].next = category[j].next
         /\ Single /\ UNCHANGED <<locked, product, share, typed, drawn, peak>>
<1>1. category \in [Category -> CategoryRow] /\ category[k] \in CategoryRow
  BY DEF TypeInv, CatalogueTypeOK
<1>2. CASE RemoveCategory(k)
  BY <1>1, <1>2 DEF RemoveCategory, CategoryRow
<1>3. ASSUME NEW x \in Prefix, EditCategory(k, x)
      PROVE  /\ category' \in [Category -> CategoryRow]
             /\ \A j \in Category : category'[j].next = category[j].next
             /\ Single /\ UNCHANGED <<locked, product, share, typed, drawn, peak>>
  BY <1>1, <1>3 DEF EditCategory, CategoryRow
<1> QED
  BY <1>2, <1>3

LEMMA AbortEffect ==
  ASSUME TypeInv, NEW c \in Call, Abort(c)
  PROVE  /\ CallBecomes(c, Idle) /\ Released(c) /\ locked' \in [Category -> Call \cup {NoCall}]
         /\ UNCHANGED <<begun, category, product, share, typed, drawn, peak>>
  BY EndEffect DEF Abort

-----------------------------------------------------------------------------
(* Types                                                                   *)

LEMMA Initially ==
  ASSUME CatalogueInit
  PROVE  TypeInv /\ PeakInv
<1>1. PICK x \in Prefix :
        category = [k \in Category |-> [state |-> "present", prefix |-> x, next |-> 1]]
  BY DEF CatalogueInit
<1>2. category \in [Category -> CategoryRow] /\ CountersStart
      /\ \A k \in Category : category[k].prefix = x
  BY <1>1 DEF CategoryRow, CountersStart
<1>3. PICK p \in Product, k \in Category, n \in 1 .. MaxNumber :
        LET ref == [prefix |-> category[k].prefix, number |-> n] IN
        /\ product = [q \in Product |->
              IF q = p THEN [state |-> "present", category |-> k, ref |-> ref, owner |-> Company]
              ELSE Blank("none")]
        /\ typed = {ref}
  BY DEF CatalogueInit
<1>4. product \in [Product -> ProductRow] /\ typed \subseteq Ref
  <2> DEFINE ref == [prefix |-> category[k].prefix, number |-> n]
  <2>1. ref \in Ref
    BY <1>2, <1>3 DEF Ref
  <2>2. /\ typed = {ref}
        /\ product = [q \in Product |->
              IF q = p THEN [state |-> "present", category |-> k, ref |-> ref, owner |-> Company]
              ELSE Blank("none")]
    BY <1>3
  <2> HIDE DEF ref
  <2>3. [state |-> "present", category |-> k, ref |-> ref, owner |-> Company] \in ProductRow
    BY <2>1, <1>3 DEF ProductRow, Owner
  <2>4. Blank("none") \in ProductRow
    BY DEF Blank, ProductRow
  <2> QED
    BY <2>1, <2>2, <2>3, <2>4
<1>5. PICK s \in Share, l \in Limit \cup {NoLimit} :
        /\ share = [t \in Share |->
              IF t = s THEN [NoShare("ACTIVE") EXCEPT !.limit = l] ELSE NoShare("none")]
        /\ peak = [t \in Share |-> IF t # s THEN 0 ELSE IF l = NoLimit THEN MaxCalls ELSE l]
  BY DEF CatalogueInit
<1>6. share \in [Share -> ShareRow] /\ peak \in [Share -> Nat] /\ PeakInv
  <2> DEFINE row == [NoShare("ACTIVE") EXCEPT !.limit = l]
  <2>1. row \in ShareRow /\ row.limit = l
    BY DEF NoShare, ShareRow
  <2>2. NoShare("none") \in ShareRow /\ NoShare("none").state = "none"
    BY DEF NoShare, ShareRow
  <2>3. share = [t \in Share |-> IF t = s THEN row ELSE NoShare("none")]
    BY <1>5
  <2> HIDE DEF row
  <2>4. peak \in [Share -> Nat]
    BY <1>5, CatalogueAssumption
  <2>5. (IF l = NoLimit THEN peak[s] >= MaxCalls ELSE peak[s] >= l)
    BY <1>5, CatalogueAssumption
  <2>6. PeakInv
    BY <2>1, <2>2, <2>3, <2>5 DEF PeakInv, Shown
  <2> QED
    BY <2>1, <2>2, <2>3, <2>4, <2>6
<1>7. call \in [Call -> Memory] /\ MemoryKnown
  BY IdleType DEF CatalogueInit, MemoryKnown, Drawing
<1>8. /\ locked \in [Category -> Call \cup {NoCall}] /\ begun \in 0 .. MaxCalls
      /\ drawn \subseteq Category \X Ref
  BY CatalogueAssumption DEF CatalogueInit
<1> QED
  BY <1>2, <1>4, <1>6, <1>7, <1>8 DEF TypeInv, CatalogueTypeOK

LEMMA PeakKept ==
  ASSUME TypeInv, PeakInv,
         (\A t \in Share : ShareKept(t)) \/ UNCHANGED <<share, peak>>
  PROVE  PeakInv'
<1>1. CASE \A t \in Share : ShareKept(t)
  BY <1>1 DEF PeakInv, ShareKept
<1>2. CASE UNCHANGED <<share, peak>>
  BY <1>2 DEF PeakInv, Shown
<1> QED
  BY <1>1, <1>2

\* Steps of the catalogue keep the types and the memories of largest limits.
LEMMA TypeStep ==
  ASSUME TypeInv, PeakInv, CatalogueNext
  PROVE  TypeInv' /\ PeakInv'
<1>0. \A k \in Category : category[k].next \in Nat
  BY DEF TypeInv, CatalogueTypeOK, CategoryRow
<1>1. ASSUME NEW c \in Call, NEW k \in Category, NEW owner \in Owner, NEW n \in 0 .. MaxNumber,
             BeginCreate(c, k, n, owner)
      PROVE  TypeInv' /\ PeakInv'
  <2>1. PICK m \in Memory :
           /\ CallBecomes(c, m) /\ m.category = k /\ m.ref \in Ref /\ m.owner \in Owner
           /\ begun' \in 0 .. MaxCalls /\ m.pc \in Drawing
           /\ typed' = typed \/ typed' = typed \cup {m.ref}
           /\ UNCHANGED <<category, locked, product, share, drawn, peak>>
    BY <1>1, BeginCreateEffect DEF Drawing
  <2>2. MemoryKnown'
    BY <2>1, MemoryKept DEF Drawing
  <2> QED
    BY <2>1, <2>2, PeakKept DEF TypeInv, CatalogueTypeOK, CountersStart, CallBecomes
<1>2. ASSUME NEW c \in Call, Draw(c)
      PROVE  TypeInv' /\ PeakInv'
  <2>1. PICK m \in Memory :
           /\ CallBecomes(c, m) /\ m.pc = "probe" /\ m.category = call[c].category
           /\ m.ref \in Ref /\ m.owner = call[c].owner
    BY <1>2, DrawEffect
  <2>2. /\ call[c].category \in Category /\ call[c].pc = "draw"
        /\ locked' = [locked EXCEPT ![call[c].category] = c]
        /\ UNCHANGED <<begun, category, product, share, typed, drawn, peak>>
    BY <1>2, DrawEffect
  <2>3. call[c].owner \in Owner
    BY <2>2 DEF TypeInv, MemoryKnown, Drawing
  <2>4. MemoryKnown'
    BY <2>1, <2>2, <2>3, MemoryKept DEF Drawing
  <2>5. locked' \in [Category -> Call \cup {NoCall}]
    BY <2>2 DEF TypeInv, CatalogueTypeOK
  <2> QED
    BY <2>1, <2>2, <2>4, <2>5, PeakKept DEF TypeInv, CatalogueTypeOK, CountersStart, CallBecomes
<1>3. ASSUME NEW c \in Call, Probe(c)
      PROVE  TypeInv' /\ PeakInv'
  <2>1. PICK m \in Memory :
           /\ CallBecomes(c, m) /\ m.pc \in Drawing /\ m.category = call[c].category
           /\ m.ref = call[c].ref /\ m.owner = call[c].owner
    BY <1>3, ProbeEffect DEF Drawing
  <2>2. /\ call[c].pc = "probe"
        /\ UNCHANGED <<begun, category, locked, product, share, typed, drawn, peak>>
    BY <1>3, ProbeEffect
  <2>3. call[c].category \in Category /\ call[c].ref \in Ref /\ call[c].owner \in Owner
    BY <2>2 DEF TypeInv, MemoryKnown, Drawing
  <2>4. MemoryKnown'
    BY <2>1, <2>3, MemoryKept DEF Drawing
  <2> QED
    BY <2>1, <2>2, <2>4, PeakKept DEF TypeInv, CatalogueTypeOK, CountersStart, CallBecomes
<1>4. ASSUME NEW c \in Call, NEW p \in Product, Insert(c, p)
      PROVE  TypeInv' /\ PeakInv'
  <2> DEFINE k == call[c].category
             m == call[c]
  <2>1. /\ k \in Category /\ m.ref \in Ref /\ m.owner \in Owner
        /\ product' = [product EXCEPT ![p] =
              [state |-> "present", category |-> k, ref |-> m.ref, owner |-> m.owner]]
        /\ category' \in [Category -> CategoryRow]
        /\ category'[k].next = CounterAfter(c, k)
        /\ \A j \in Category \ {k} : category'[j].next = category[j].next
        /\ drawn' = IF locked[k] = c THEN drawn \cup {<<k, m.ref>>} ELSE drawn
        /\ CallBecomes(c, Idle) /\ locked' \in [Category -> Call \cup {NoCall}]
        /\ UNCHANGED <<begun, share, typed, peak>>
    BY <1>4, InsertEffect
  <2>2. [state |-> "present", category |-> k, ref |-> m.ref, owner |-> m.owner] \in ProductRow
    BY <2>1 DEF ProductRow
  <2>3. product' \in [Product -> ProductRow]
    BY <2>1, <2>2 DEF TypeInv, CatalogueTypeOK
  <2>4. drawn' \subseteq Category \X Ref
    BY <2>1 DEF TypeInv, CatalogueTypeOK
  <2>5. category'[k].next >= 1
    <3>1. m.ref.number >= 1 /\ m.ref.number \in Nat
      BY <2>1 DEF Ref
    <3>2. category[k].next >= 1
      BY <2>1 DEF TypeInv, CountersStart
    <3> QED
      BY <1>0, <2>1, <3>1, <3>2 DEF CounterAfter
  <2>6. CountersStart'
    BY <2>1, <2>5 DEF TypeInv, CountersStart
  <2>7. MemoryKnown' /\ PeakInv'
    BY <2>1, IdleKept, PeakKept
  <2> QED
    BY <2>1, <2>3, <2>4, <2>6, <2>7 DEF TypeInv, CatalogueTypeOK, CallBecomes
<1>5. ASSUME NEW c \in Call, NEW p \in Product, NEW k \in Category,
             NEW ref \in Ref \cup {NoRef}, NEW owner \in Owner \cup {None},
             ReadEdit(c, p, k, ref, owner)
      PROVE  TypeInv' /\ PeakInv'
  <2>1. PICK m \in Memory :
           /\ CallBecomes(c, m) /\ m.pc = "edit" /\ m.product = p /\ m.category = k
           /\ begun' \in 0 .. MaxCalls
           /\ typed' = IF ref = NoRef THEN typed ELSE typed \cup {ref}
           /\ UNCHANGED <<category, locked, product, share, drawn, peak>>
    BY <1>5, ReadEditEffect
  <2>2. MemoryKnown'
    BY <2>1, MemoryKept DEF Drawing
  <2>3. typed' \subseteq Ref
    BY <2>1 DEF TypeInv, CatalogueTypeOK
  <2> QED
    BY <2>1, <2>2, <2>3, PeakKept DEF TypeInv, CatalogueTypeOK, CountersStart, CallBecomes
<1>6. ASSUME NEW c \in Call, WriteEdit(c)
      PROVE  TypeInv' /\ PeakInv'
  <2>1. /\ product' \in [Product -> ProductRow]
        /\ CallBecomes(c, Idle) /\ locked' \in [Category -> Call \cup {NoCall}]
        /\ UNCHANGED <<begun, category, share, typed, drawn, peak>>
    BY <1>6, WriteEditEffect
  <2> QED
    BY <2>1, IdleKept, PeakKept DEF TypeInv, CatalogueTypeOK, CountersStart, CallBecomes
<1>7. ASSUME NEW c \in Call,
             \/ \E s \in Share \cup {None}, ps \in SUBSET Product : ReadShare(c, s, ps)
             \/ \E s \in Share : ReadDrop(c, s) \/ ReadView(c, s)
      PROVE  TypeInv' /\ PeakInv'
  <2>1. PICK m \in Memory :
           /\ CallBecomes(c, m) /\ begun' \in 0 .. MaxCalls
           /\ \/ m.pc = "share" /\ m.share \in Share \cup {None}
              \/ m.pc \in {"drop", "view"} /\ m.share \in Share
           /\ UNCHANGED <<category, locked, product, share, typed, drawn, peak>>
    BY <1>7, ShareReadEffect
  <2>2. MemoryKnown'
    BY <2>1, MemoryKept DEF Drawing
  <2> QED
    BY <2>1, <2>2, PeakKept DEF TypeInv, CatalogueTypeOK, CountersStart, CallBecomes
<1>8. ASSUME NEW c \in Call,
             \/ WriteReplacement(c)
             \/ \E s \in Share, l \in Limit \cup {NoLimit} : WriteShare(c, s, l)
             \/ WriteDrop(c)
      PROVE  TypeInv' /\ PeakInv'
  <2>1. /\ CallBecomes(c, Idle) /\ locked' \in [Category -> Call \cup {NoCall}]
        /\ share' \in [Share -> ShareRow] /\ peak' \in [Share -> Nat]
        /\ \A t \in Share : ShareKept(t)
        /\ UNCHANGED <<begun, category, product, typed, drawn>>
    BY <1>8, ShareWriteEffect
  <2> QED
    BY <2>1, IdleKept, PeakKept DEF TypeInv, CatalogueTypeOK, CountersStart, CallBecomes
<1>14. ASSUME NEW c \in Call, WipeShare(c)
       PROVE  TypeInv' /\ PeakInv'
  <2>1. PICK m \in Memory : CallBecomes(c, m) /\ m.pc = "fill" /\ m.share \in Share
    BY <1>14, WipeEffect
  <2>2. /\ share' \in [Share -> ShareRow] /\ peak' \in [Share -> Nat]
        /\ \A t \in Share : ShareKept(t)
        /\ UNCHANGED <<begun, category, locked, product, typed, drawn>>
    BY <1>14, WipeEffect
  <2>3. MemoryKnown'
    BY <2>1, MemoryKept DEF Drawing
  <2> QED
    BY <2>1, <2>2, <2>3, PeakKept DEF TypeInv, CatalogueTypeOK, CountersStart, CallBecomes
<1>9. ASSUME NEW c \in Call, CountView(c)
      PROVE  TypeInv' /\ PeakInv'
  <2>1. /\ CallBecomes(c, Idle) /\ locked' \in [Category -> Call \cup {NoCall}]
        /\ share' \in [Share -> ShareRow]
        /\ \A t \in Share : share'[t].state = share[t].state /\ share'[t].limit = share[t].limit
        /\ UNCHANGED <<begun, category, product, typed, drawn, peak>>
    BY <1>9, CountViewEffect
  <2>2. PeakInv'
    BY <2>1 DEF PeakInv, Shown
  <2> QED
    BY <2>1, <2>2, IdleKept DEF TypeInv, CatalogueTypeOK, CountersStart, CallBecomes
<1>10. ASSUME NEW c \in Call, Abort(c)
       PROVE  TypeInv' /\ PeakInv'
  BY <1>10, AbortEffect, IdleKept, PeakKept DEF TypeInv, CatalogueTypeOK, CountersStart, CallBecomes
<1>11. ASSUME NEW p \in Product, RemoveProduct(p)
       PROVE  TypeInv' /\ PeakInv'
  <2>1. /\ product' \in [Product -> ProductRow] /\ UNCHANGED call /\ begun' \in 0 .. MaxCalls
        /\ UNCHANGED <<category, locked, share, typed, drawn, peak>>
    BY <1>11, RemoveProductEffect, SingleEffect
  <2> QED
    BY <2>1, PeakKept DEF TypeInv, CatalogueTypeOK, CountersStart, MemoryKnown
<1>12. ASSUME NEW k \in Category, RemoveCategory(k) \/ \E x \in Prefix : EditCategory(k, x)
       PROVE  TypeInv' /\ PeakInv'
  <2>1. /\ category' \in [Category -> CategoryRow]
        /\ \A j \in Category : category'[j].next = category[j].next
        /\ UNCHANGED call /\ begun' \in 0 .. MaxCalls
        /\ UNCHANGED <<locked, product, share, typed, drawn, peak>>
    BY <1>12, CategoryEditEffect, SingleEffect
  <2> QED
    BY <2>1, PeakKept DEF TypeInv, CatalogueTypeOK, CountersStart, MemoryKnown
<1>13. ASSUME NEW s \in Share,
              \/ \E status \in {"ACTIVE", "CLOSED"}, l \in Limit \cup {NoLimit} : EditShare(s, status, l)
              \/ \E p \in Product : RemoveFromShare(s, p)
       PROVE  TypeInv' /\ PeakInv'
  <2>1. /\ share' \in [Share -> ShareRow] /\ peak' \in [Share -> Nat]
        /\ \A t \in Share : ShareKept(t)
        /\ UNCHANGED call /\ begun' \in 0 .. MaxCalls
        /\ UNCHANGED <<category, locked, product, typed, drawn>>
    BY <1>13, ShareEditEffect, SingleEffect
  <2> QED
    BY <2>1, PeakKept DEF TypeInv, CatalogueTypeOK, CountersStart, MemoryKnown
<1> QED
  BY <1>1, <1>2, <1>3, <1>4, <1>5, <1>6, <1>7, <1>8, <1>9, <1>10, <1>11, <1>12, <1>13, <1>14
     DEF CatalogueNext, ProductStep, ShareStep

-----------------------------------------------------------------------------
(* The counters of references                                              *)

\* The transaction that holds a counter has drawn the last number from it.
LockHeld ==
  \A k \in Category : locked[k] # NoCall =>
    LET m == call[locked[k]] IN
    m.pc \in Drawing /\ m.category = k /\ m.ref.number >= category[k].next

\* A reference about to be written was drawn under the lock, or typed.
Sourced(c) ==
  LET m == call[c] IN
  /\ m.pc = "probe" => locked[m.category] = c
  /\ m.pc = "insert" /\ locked[m.category] # c => m.ref \in typed
  /\ m.pc = "edit" /\ m.ref # NoRef => m.ref \in typed

FreeWhenDrawn(c) ==
  \A p \in Product :
    LET m == call[c] IN
    m.pc = "insert" /\ locked[m.category] = c /\ product[p].ref = m.ref
      => m.ref \in typed \/ \E k \in Category \ {m.category} : <<k, m.ref>> \in drawn

RefInv ==
  LockHeld /\ (\A c \in Call : Sourced(c) /\ FreeWhenDrawn(c)) /\ CounterPassesDrawn

LEMMA NoRefIsNoRef == NoRef \notin Ref
  BY CatalogueAssumption DEF NoRef, Ref

\* A step of c that leaves the locks of others, and the counters they hold, alone.
LEMMA OneCallStep ==
  ASSUME TypeInv, TypeInv', RefInv, NEW c \in Call, NEW m \in Memory, CallBecomes(c, m),
         \A k \in Category : locked'[k] = locked[k]
                             \/ {locked[k], locked'[k]} \subseteq {NoCall, c},
         \A k \in Category : locked'[k] = c =>
            m.pc \in Drawing /\ m.category = k /\ m.ref.number >= category'[k].next,
         \A k \in Category : /\ category'[k].next >= category[k].next
                             /\ category'[k].next = category[k].next \/ locked[k] = c,
         typed \subseteq typed', drawn \subseteq drawn',
         \A d \in drawn' \ drawn : d[2].number < category'[d[1]].next,
         \A p \in Product : \/ product'[p].ref \in {product[p].ref, NoRef} \cup typed'
                            \/ \E k \in Category : locked[k] = c /\ <<k, product'[p].ref>> \in drawn',
         Sourced(c)', FreeWhenDrawn(c)'
  PROVE  RefInv'
<1>0. /\ locked \in [Category -> Call \cup {NoCall}] /\ locked' \in [Category -> Call \cup {NoCall}]
      /\ NoCall \notin Call
      /\ drawn \subseteq Category \X Ref
      /\ \A k \in Category : category[k].next \in Nat /\ category'[k].next \in Nat
      /\ \A r \in Ref : r.number \in Nat
  BY CatalogueAssumption DEF TypeInv, CatalogueTypeOK, CategoryRow, Ref
<1>1. \A d \in Call \ {c}, k \in Category : locked'[k] = d <=> locked[k] = d
  BY <1>0
<1>2. LockHeld'
  <2> SUFFICES ASSUME NEW k \in Category, locked'[k] # NoCall
               PROVE  /\ call'[locked'[k]].pc \in Drawing /\ call'[locked'[k]].category = k
                      /\ call'[locked'[k]].ref.number >= category'[k].next
    BY DEF LockHeld
  <2>1. CASE locked'[k] = c
    BY <2>1 DEF CallBecomes
  <2>2. CASE locked'[k] # c
    <3>1. locked'[k] \in Call \ {c} /\ locked[k] = locked'[k]
      BY <1>0, <2>2
    <3>2. call'[locked'[k]] = call[locked[k]] /\ category'[k].next = category[k].next
      BY <3>1 DEF CallBecomes
    <3> QED
      BY <1>0, <3>1, <3>2 DEF RefInv, LockHeld
  <2> QED
    BY <2>1, <2>2
<1>3. ASSUME NEW d \in Call
      PROVE  Sourced(d)' /\ FreeWhenDrawn(d)'
  <2>1. CASE d = c
    BY <2>1
  <2>2. CASE d # c
    <3>1. call'[d] = call[d] /\ call[d] \in Memory
      BY <2>2 DEF CallBecomes, TypeInv, CatalogueTypeOK
    <3>2. call[d].pc \in Drawing => call[d].category \in Category /\ call[d].ref \in Ref
      BY DEF TypeInv, MemoryKnown
    <3>3. call[d].pc \in Drawing => (locked'[call[d].category] = d <=> locked[call[d].category] = d)
      BY <1>1, <2>2, <3>2
    <3>4. Sourced(d) /\ FreeWhenDrawn(d)
      BY DEF RefInv
    <3>5. Sourced(d)'
      BY <3>1, <3>3, <3>4 DEF Sourced, Drawing
    <3>6. FreeWhenDrawn(d)'
      <4> SUFFICES ASSUME NEW p \in Product, call[d].pc = "insert", locked'[call[d].category] = d,
                          product'[p].ref = call[d].ref
                   PROVE  \/ call[d].ref \in typed'
                          \/ \E k \in Category \ {call[d].category} : <<k, call[d].ref>> \in drawn'
        BY <3>1 DEF FreeWhenDrawn
      <4>1. call[d].ref # NoRef /\ locked[call[d].category] = d
        BY <3>2, <3>3, NoRefIsNoRef DEF Drawing
      <4>2. CASE product'[p].ref = product[p].ref
        BY <3>4, <4>1, <4>2 DEF FreeWhenDrawn
      <4>3. CASE product'[p].ref \in typed'
        BY <4>3
      <4>4. ASSUME NEW k \in Category, locked[k] = c, <<k, product'[p].ref>> \in drawn'
            PROVE  \E j \in Category \ {call[d].category} : <<j, call[d].ref>> \in drawn'
        BY <2>2, <4>1, <4>4
      <4> QED
        BY <4>1, <4>2, <4>3, <4>4
    <3> QED
      BY <3>5, <3>6
  <2> QED
    BY <2>1, <2>2
<1>4. CounterPassesDrawn'
  <2> SUFFICES ASSUME NEW d \in drawn'
               PROVE  d[2].number < category'[d[1]].next
    BY DEF CounterPassesDrawn
  <2>1. CASE d \in drawn
    <3>1. d[1] \in Category /\ d[2] \in Ref
      BY <1>0, <2>1
    <3>2. d[2].number < category[d[1]].next
      BY <2>1 DEF RefInv, CounterPassesDrawn
    <3>3. category'[d[1]].next >= category[d[1]].next
      BY <3>1
    <3>4. category[d[1]].next \in Nat /\ category'[d[1]].next \in Nat /\ d[2].number \in Nat
      BY <1>0, <3>1
    <3> QED
      BY <3>2, <3>3, <3>4
  <2>2. CASE d \notin drawn
    BY <2>2
  <2> QED
    BY <2>1, <2>2
<1> QED
  BY <1>2, <1>3, <1>4 DEF RefInv

\* A step of no call in progress.
LEMMA NoCallStep ==
  ASSUME TypeInv, RefInv, UNCHANGED <<call, locked, typed, drawn>>,
         \A k \in Category : category'[k].next = category[k].next,
         \A p \in Product : product'[p].ref \in {product[p].ref, NoRef}
  PROVE  RefInv'
<1>1. LockHeld'
  BY DEF RefInv, LockHeld
<1>2. ASSUME NEW c \in Call
      PROVE  Sourced(c)' /\ FreeWhenDrawn(c)'
  <2>1. call[c].pc = "insert" => call[c].ref # NoRef
    BY NoRefIsNoRef DEF TypeInv, MemoryKnown, Drawing
  <2> QED
    BY <2>1 DEF RefInv, Sourced, FreeWhenDrawn
<1>3. CounterPassesDrawn'
  BY DEF RefInv, CounterPassesDrawn, TypeInv, CatalogueTypeOK
<1> QED
  BY <1>1, <1>2, <1>3 DEF RefInv

\* A step that ends the call, or keeps it away from counters.
LEMMA AwayStep ==
  ASSUME TypeInv, TypeInv', RefInv, NEW c \in Call, NEW m \in Memory, CallBecomes(c, m),
         m.pc \in {"idle", "share", "fill", "drop", "view"},
         \/ Released(c)
         \/ call[c].pc \in {"idle", "share"} /\ UNCHANGED locked,
         UNCHANGED <<category, typed, drawn>>,
         \A p \in Product : product'[p].ref \in {product[p].ref, NoRef} \cup typed
  PROVE  RefInv'
<1>1. \A k \in Category : category[k].next \in Nat
  BY DEF TypeInv, CatalogueTypeOK, CategoryRow
<1>2. ASSUME NEW k \in Category
      PROVE  locked'[k] # c
  <2>1. NoCall # c
    BY CatalogueAssumption
  <2>2. CASE Released(c)
    BY <2>1, <2>2 DEF Released
  <2>3. CASE call[c].pc \in {"idle", "share"} /\ UNCHANGED locked
    <3>1. locked[k] = c => call[c].pc \in Drawing
      BY <2>1 DEF RefInv, LockHeld
    <3> QED
      BY <2>3, <3>1 DEF Drawing
  <2> QED
    BY <2>2, <2>3
<1>3. \A k \in Category : locked'[k] = locked[k]
                          \/ {locked[k], locked'[k]} \subseteq {NoCall, c}
  BY DEF Released
<1>4. call'[c].pc \in {"idle", "share", "fill", "drop", "view"}
  BY DEF CallBecomes
<1>5. Sourced(c)' /\ FreeWhenDrawn(c)'
  BY <1>4 DEF Sourced, FreeWhenDrawn
<1> QED
  BY <1>1, <1>2, <1>3, <1>5, OneCallStep

\* Steps of the catalogue keep the counters ahead of what was drawn from them.
LEMMA RefStep ==
  ASSUME TypeInv, TypeInv', PeakInv, RefInv, CatalogueNext
  PROVE  RefInv'
<1>0. /\ \A k \in Category : category[k].next \in Nat
      /\ \A r \in Ref : r.number \in Nat
  BY CatalogueAssumption DEF TypeInv, CatalogueTypeOK, CategoryRow, Ref
<1>1. ASSUME NEW c \in Call, NEW k \in Category, NEW owner \in Owner, NEW n \in 0 .. MaxNumber,
             BeginCreate(c, k, n, owner)
      PROVE  RefInv'
  <2>1. PICK m \in Memory :
           /\ CallBecomes(c, m) /\ m.category = k /\ m.ref \in Ref
           /\ call[c].pc = "idle"
           /\ \/ m.pc = "draw" /\ typed' = typed
              \/ m.pc = "insert" /\ typed' = typed \cup {m.ref}
           /\ UNCHANGED <<category, locked, product, drawn>>
    BY <1>1, BeginCreateEffect
  <2>2. \A j \in Category : locked[j] # c
    BY <2>1, CatalogueAssumption DEF RefInv, LockHeld, Drawing
  <2>3. call'[c] = m
    BY <2>1 DEF CallBecomes
  <2>4. Sourced(c)' /\ FreeWhenDrawn(c)'
    BY <2>1, <2>2, <2>3 DEF Sourced, FreeWhenDrawn
  <2> QED
    BY <1>0, <2>1, <2>2, <2>4, OneCallStep
<1>2. ASSUME NEW c \in Call, Draw(c)
      PROVE  RefInv'
  <2> DEFINE k == call[c].category
  <2>1. PICK m \in Memory :
           /\ CallBecomes(c, m) /\ m.pc = "probe" /\ m.category = k
           /\ m.ref \in Ref /\ m.ref.number = Number(c, k)
    BY <1>2, DrawEffect
  <2>2. /\ k \in Category /\ locked[k] \in {NoCall, c}
        /\ locked' = [locked EXCEPT ![k] = c]
        /\ UNCHANGED <<category, product, typed, drawn>>
    BY <1>2, DrawEffect
  <2>3. locked'[k] = c /\ \A j \in Category \ {k} : locked'[j] = locked[j]
    BY <2>2 DEF TypeInv, CatalogueTypeOK
  <2>4. Number(c, k) >= category[k].next
    <3>1. CASE locked[k] = c
      <4>1. call[c].ref.number >= category[k].next /\ call[c].ref \in Ref
        BY <2>2, <3>1, CatalogueAssumption DEF RefInv, LockHeld, TypeInv, MemoryKnown
      <4> QED
        BY <1>0, <2>2, <3>1, <4>1 DEF Number
    <3>2. CASE locked[k] # c
      BY <1>0, <2>2, <3>2 DEF Number
    <3> QED
      BY <3>1, <3>2
  <2>5. \A j \in Category : locked'[j] = c => j = k
    BY <1>2, <2>2, <2>3, CatalogueAssumption DEF RefInv, LockHeld
  <2>6. \A j \in Category : locked'[j] = locked[j] \/ {locked[j], locked'[j]} \subseteq {NoCall, c}
    BY <2>2, <2>3
  <2>7. call'[c] = m
    BY <2>1 DEF CallBecomes
  <2>8. Sourced(c)' /\ FreeWhenDrawn(c)'
    BY <2>1, <2>3, <2>7 DEF Sourced, FreeWhenDrawn
  <2>9. \A j \in Category : locked'[j] = c =>
          m.pc \in Drawing /\ m.category = j /\ m.ref.number >= category'[j].next
    BY <2>1, <2>2, <2>4, <2>5 DEF Drawing
  <2> HIDE DEF k
  <2> QED
    BY <1>0, <2>1, <2>2, <2>6, <2>8, <2>9, OneCallStep
<1>3. ASSUME NEW c \in Call, Probe(c)
      PROVE  RefInv'
  <2>1. PICK m \in Memory :
           /\ CallBecomes(c, m) /\ m.category = call[c].category /\ m.ref = call[c].ref
           /\ m.pc = IF CandidateIsFree(c) THEN "insert" ELSE "draw"
    BY <1>3, ProbeEffect
  <2>2. /\ call[c].pc = "probe"
        /\ UNCHANGED <<category, locked, product, typed, drawn>>
    BY <1>3, ProbeEffect
  <2>3. locked[m.category] = c
    BY <2>1, <2>2 DEF RefInv, Sourced
  <2>4. call'[c] = m
    BY <2>1 DEF CallBecomes
  <2>5. Sourced(c)'
    BY <2>1, <2>2, <2>3, <2>4 DEF Sourced
  <2>6. FreeWhenDrawn(c)'
    <3>1. CandidateIsFree(c) => \A p \in Product : product[p].ref # call[c].ref
      BY CatalogueAssumption DEF CandidateIsFree, RefIsFree
    <3> QED
      BY <2>1, <2>2, <2>4, <3>1 DEF FreeWhenDrawn
  <2>7. \A j \in Category : locked'[j] = c =>
          m.pc \in Drawing /\ m.category = j /\ m.ref.number >= category'[j].next
    BY <2>1, <2>2, CatalogueAssumption DEF RefInv, LockHeld, Drawing
  <2> QED
    BY <1>0, <2>1, <2>2, <2>5, <2>6, <2>7, OneCallStep
<1>4. ASSUME NEW c \in Call, NEW p \in Product, Insert(c, p)
      PROVE  RefInv'
  <2> DEFINE k == call[c].category
             m == call[c]
  <2>1. /\ k \in Category /\ m.pc = "insert" /\ m.ref \in Ref
        /\ product' = [product EXCEPT ![p] =
              [state |-> "present", category |-> k, ref |-> m.ref, owner |-> m.owner]]
        /\ category'[k].next = CounterAfter(c, k)
        /\ \A j \in Category \ {k} : category'[j].next = category[j].next
        /\ drawn' = IF locked[k] = c THEN drawn \cup {<<k, m.ref>>} ELSE drawn
        /\ CallBecomes(c, Idle) /\ Released(c) /\ UNCHANGED typed
    BY <1>4, InsertEffect
  <2>2. /\ \A j \in Category : category'[j].next >= category[j].next
        /\ \A j \in Category : category'[j].next = category[j].next \/ locked[j] = c
        /\ locked[k] = c => category'[k].next = m.ref.number + 1
    <3>1. locked[k] = c => m.ref.number >= category[k].next
      BY <2>1, CatalogueAssumption DEF RefInv, LockHeld
    <3>2. locked[k] = c => category'[k].next = m.ref.number + 1
      BY <2>1 DEF CounterAfter
    <3>3. locked[k] # c => category'[k].next = category[k].next
      BY <2>1 DEF CounterAfter
    <3>4. category[k].next \in Nat /\ m.ref.number \in Nat
      BY <1>0, <2>1
    <3>5. category'[k].next >= category[k].next
      BY <3>1, <3>2, <3>3, <3>4
    <3> QED
      BY <1>0, <2>1, <3>2, <3>3, <3>5
  <2>3. \A d \in drawn' \ drawn : d[2].number < category'[d[1]].next
    <3> SUFFICES ASSUME NEW d \in drawn' \ drawn
                 PROVE  d[2].number < category'[d[1]].next
      OBVIOUS
    <3>1. locked[k] = c /\ d = <<k, m.ref>>
      BY <2>1
    <3>2. d[1] = k /\ d[2] = m.ref /\ m.ref.number \in Nat
      BY <1>0, <2>1, <3>1
    <3> QED
      BY <2>2, <3>1, <3>2
  <2>4. /\ product'[p].ref = m.ref
        /\ \A q \in Product \ {p} : product'[q].ref = product[q].ref
    BY <2>1 DEF TypeInv, CatalogueTypeOK
  <2>5. (locked[k] = c /\ <<k, m.ref>> \in drawn') \/ m.ref \in typed'
    BY <2>1 DEF RefInv, Sourced
  <2>6. \A q \in Product : \/ product'[q].ref \in {product[q].ref, NoRef} \cup typed'
                           \/ \E j \in Category : locked[j] = c /\ <<j, product'[q].ref>> \in drawn'
    BY <2>1, <2>4, <2>5
  <2>7. \A j \in Category : locked'[j] # c
    BY <2>1, CatalogueAssumption DEF Released
  <2>8. \A j \in Category : locked'[j] = locked[j] \/ {locked[j], locked'[j]} \subseteq {NoCall, c}
    BY <2>1 DEF Released
  <2>9. call'[c].pc = "idle"
    BY <2>1, IdleType DEF CallBecomes
  <2>10. Sourced(c)' /\ FreeWhenDrawn(c)'
    BY <2>9 DEF Sourced, FreeWhenDrawn
  <2>11. drawn \subseteq drawn' /\ typed \subseteq typed'
    BY <2>1
  <2> HIDE DEF k, m
  <2> QED
    BY <2>1, <2>2, <2>3, <2>6, <2>7, <2>8, <2>10, <2>11, IdleType, OneCallStep
<1>5. ASSUME NEW c \in Call, NEW p \in Product, NEW k \in Category,
             NEW ref \in Ref \cup {NoRef}, NEW owner \in Owner \cup {None},
             ReadEdit(c, p, k, ref, owner)
      PROVE  RefInv'
  <2>1. PICK m \in Memory :
           /\ CallBecomes(c, m) /\ m.pc = "edit" /\ m.ref = ref /\ call[c].pc = "idle"
           /\ typed' = IF ref = NoRef THEN typed ELSE typed \cup {ref}
           /\ UNCHANGED <<category, locked, product, drawn>>
    BY <1>5, ReadEditEffect
  <2>2. \A j \in Category : locked'[j] # c
    BY <2>1, CatalogueAssumption DEF RefInv, LockHeld, Drawing
  <2>3. call'[c] = m
    BY <2>1 DEF CallBecomes
  <2>4. Sourced(c)' /\ FreeWhenDrawn(c)'
    BY <2>1, <2>3 DEF Sourced, FreeWhenDrawn
  <2>5. typed \subseteq typed'
    BY <2>1
  <2> QED
    BY <1>0, <2>1, <2>2, <2>4, <2>5, OneCallStep
<1>6. ASSUME NEW c \in Call, WriteEdit(c)
      PROVE  RefInv'
  <2>1. /\ call[c].pc = "edit" /\ CallBecomes(c, Idle) /\ Released(c)
        /\ \A p \in Product : \/ product'[p].ref = product[p].ref
                              \/ call[c].ref # NoRef /\ product'[p].ref = call[c].ref
        /\ UNCHANGED <<category, typed, drawn>>
    BY <1>6, WriteEditEffect
  <2>2. call[c].ref # NoRef => call[c].ref \in typed
    BY <2>1 DEF RefInv, Sourced
  <2>3. \A p \in Product : product'[p].ref \in {product[p].ref, NoRef} \cup typed
    BY <2>1, <2>2
  <2> QED
    BY <2>1, <2>3, IdleType, AwayStep
<1>7. ASSUME NEW c \in Call,
             \/ \E s \in Share \cup {None}, ps \in SUBSET Product : ReadShare(c, s, ps)
             \/ \E s \in Share : ReadDrop(c, s) \/ ReadView(c, s)
      PROVE  RefInv'
  <2>1. PICK m \in Memory :
           /\ CallBecomes(c, m) /\ call[c].pc = "idle" /\ m.pc \in {"share", "drop", "view"}
           /\ UNCHANGED <<category, locked, product, typed, drawn>>
    BY <1>7, ShareReadEffect
  <2> QED
    BY <2>1, AwayStep
<1>8. ASSUME NEW c \in Call,
             \/ WriteReplacement(c)
             \/ \E s \in Share, l \in Limit \cup {NoLimit} : WriteShare(c, s, l)
             \/ WriteDrop(c)
      PROVE  RefInv'
  <2>1. /\ CallBecomes(c, Idle) /\ Released(c)
        /\ UNCHANGED <<category, product, typed, drawn>>
    BY <1>8, ShareWriteEffect
  <2> QED
    BY <2>1, IdleType, AwayStep
<1>13. ASSUME NEW c \in Call, WipeShare(c)
       PROVE  RefInv'
  <2>1. PICK m \in Memory : CallBecomes(c, m) /\ m.pc = "fill"
    BY <1>13, WipeEffect
  <2>2. call[c].pc = "share" /\ UNCHANGED <<category, locked, product, typed, drawn>>
    BY <1>13, WipeEffect
  <2> QED
    BY <2>1, <2>2, AwayStep
<1>9. ASSUME NEW c \in Call, CountView(c) \/ Abort(c)
      PROVE  RefInv'
  <2>1. /\ CallBecomes(c, Idle) /\ Released(c)
        /\ UNCHANGED <<category, product, typed, drawn>>
    BY <1>9, CountViewEffect, AbortEffect
  <2> QED
    BY <2>1, IdleType, AwayStep
<1>10. ASSUME NEW p \in Product, RemoveProduct(p)
       PROVE  RefInv'
  BY <1>10, RemoveProductEffect, SingleEffect, NoCallStep
<1>11. ASSUME NEW k \in Category, RemoveCategory(k) \/ \E x \in Prefix : EditCategory(k, x)
       PROVE  RefInv'
  BY <1>11, CategoryEditEffect, SingleEffect, NoCallStep
<1>12. ASSUME NEW s \in Share,
              \/ \E status \in {"ACTIVE", "CLOSED"}, l \in Limit \cup {NoLimit} : EditShare(s, status, l)
              \/ \E p \in Product : RemoveFromShare(s, p)
       PROVE  RefInv'
  BY <1>12, ShareEditEffect, SingleEffect, NoCallStep
<1> QED
  BY <1>1, <1>2, <1>3, <1>4, <1>5, <1>6, <1>7, <1>8, <1>9, <1>10, <1>11, <1>12, <1>13
     DEF CatalogueNext, ProductStep, ShareStep

-----------------------------------------------------------------------------
(* Views                                                                   *)

Inflight(s) == {c \in Call : call[c].pc = "view" /\ call[c].share = s}

\* A view is counted once, by the call that was allowed it: while it is on its way
\* it takes a place among the calls begun and among those that overlap.
ViewInv ==
  \A s \in Share :
    /\ share[s].views + Cardinality(Inflight(s)) <= peak[s] + Cardinality(Call) - 1
    /\ share[s].views + Cardinality(Inflight(s)) <= begun

LEMMA InflightNumbers ==
  ASSUME TypeInv, IsFiniteSet(Call), Call # {}, NEW s \in Share
  PROVE  /\ IsFiniteSet(Inflight(s)) /\ Cardinality(Inflight(s)) \in Nat
         /\ Cardinality(Inflight(s)) <= Cardinality(Call)
         /\ Cardinality(Call) \in Nat /\ Cardinality(Call) >= 1
         /\ share[s].views \in Nat /\ peak[s] \in Nat /\ begun \in Nat
<1>1. Inflight(s) \in SUBSET Call
  BY DEF Inflight
<1>2. Cardinality(Call) \in Nat /\ Cardinality(Call) # 0
  BY FS_EmptySet, FS_CardinalityType
<1>3. IsFiniteSet(Inflight(s)) /\ Cardinality(Inflight(s)) <= Cardinality(Call)
  BY <1>1, FS_Subset
<1>4. share[s].views \in Nat /\ peak[s] \in Nat /\ begun \in Nat
  BY CatalogueAssumption DEF TypeInv, CatalogueTypeOK, ShareRow
<1> QED
  BY <1>2, <1>3, <1>4, FS_CardinalityType

\* A step that begins no view: the views on their way are those that were, or fewer.
LEMMA NoNewView ==
  ASSUME TypeInv, TypeInv', IsFiniteSet(Call), Call # {}, ViewInv,
         UNCHANGED call \/ \E c \in Call, m \in Memory : CallBecomes(c, m) /\ m.pc # "view",
         begun' >= begun,
         \A t \in Share : share'[t].views <= share[t].views /\ peak'[t] >= peak[t]
  PROVE  ViewInv'
<1> SUFFICES ASSUME NEW s \in Share
             PROVE  /\ share'[s].views + Cardinality(Inflight(s)') <= peak'[s] + Cardinality(Call) - 1
                    /\ share'[s].views + Cardinality(Inflight(s)') <= begun'
  BY DEF ViewInv
<1>1. Inflight(s)' \in SUBSET Inflight(s)
  BY DEF Inflight, CallBecomes
<1>2. /\ IsFiniteSet(Inflight(s)) /\ Cardinality(Inflight(s)) \in Nat
      /\ Cardinality(Call) \in Nat
      /\ share[s].views \in Nat /\ peak[s] \in Nat /\ begun \in Nat
  BY InflightNumbers
<1>3. share'[s].views \in Nat /\ peak'[s] \in Nat /\ begun' \in Nat
  BY CatalogueAssumption DEF TypeInv, CatalogueTypeOK, ShareRow
<1>4. Cardinality(Inflight(s)') <= Cardinality(Inflight(s)) /\ IsFiniteSet(Inflight(s)')
  BY <1>1, <1>2, FS_Subset
<1>5. Cardinality(Inflight(s)') \in Nat
  BY <1>4, FS_CardinalityType
<1> QED
  BY <1>2, <1>3, <1>4, <1>5 DEF ViewInv

\* The read that allows a view, and the statement that counts it.
LEMMA ViewBegins ==
  ASSUME TypeInv, PeakInv, IsFiniteSet(Call), Call # {}, ViewInv,
         NEW c \in Call, NEW m \in Memory, CallBecomes(c, m), call[c].pc = "idle",
         m.pc = "view", m.share \in Share,
         share[m.share].state = "ACTIVE", LimitAllows(m.share),
         begun' = begun + 1, begun' <= MaxCalls, UNCHANGED <<share, peak>>
  PROVE  ViewInv'
<1> SUFFICES ASSUME NEW s \in Share
             PROVE  /\ share[s].views + Cardinality(Inflight(s)') <= peak[s] + Cardinality(Call) - 1
                    /\ share[s].views + Cardinality(Inflight(s)') <= begun'
  BY DEF ViewInv
<1>1. /\ IsFiniteSet(Inflight(s)) /\ Cardinality(Inflight(s)) \in Nat
      /\ Cardinality(Call) \in Nat /\ Cardinality(Call) >= 1
      /\ share[s].views \in Nat /\ peak[s] \in Nat /\ begun \in Nat
  BY InflightNumbers
<1>2. /\ share[s].views + Cardinality(Inflight(s)) <= peak[s] + Cardinality(Call) - 1
      /\ share[s].views + Cardinality(Inflight(s)) <= begun
  BY DEF ViewInv
<1>3. CASE s # m.share
  <2>1. Inflight(s)' = Inflight(s)
    BY <1>3 DEF Inflight, CallBecomes
  <2> QED
    BY <1>1, <1>2, <2>1
<1>4. CASE s = m.share
  <2>1. Inflight(s)' = Inflight(s) \cup {c} /\ c \notin Inflight(s)
    BY <1>4 DEF Inflight, CallBecomes
  <2>2. Cardinality(Inflight(s)') = Cardinality(Inflight(s)) + 1
    <3>1. Cardinality(Inflight(s) \cup {c}) =
            IF c \in Inflight(s) THEN Cardinality(Inflight(s)) ELSE Cardinality(Inflight(s)) + 1
      BY <1>1, FS_AddElement
    <3> QED
      BY <2>1, <3>1
  <2>3. Cardinality(Inflight(s)') <= Cardinality(Call)
    <3>1. Inflight(s)' \in SUBSET Call
      BY DEF Inflight
    <3> QED
      BY <3>1, FS_Subset
  <2>4. CASE share[s].limit = NoLimit
    <3>1. peak[s] >= MaxCalls /\ MaxCalls \in Nat
      BY <1>4, <2>4, CatalogueAssumption DEF PeakInv, Shown
    <3> QED
      BY <1>1, <1>2, <2>2, <3>1
  <2>5. CASE share[s].limit # NoLimit
    <3>1. share[s].limit \in Nat
      BY <2>5, CatalogueAssumption DEF TypeInv, CatalogueTypeOK, ShareRow
    <3>2. share[s].views < share[s].limit /\ peak[s] >= share[s].limit
      BY <1>4, <2>5 DEF LimitAllows, PeakInv, Shown
    <3> QED
      BY <1>1, <1>2, <2>2, <2>3, <3>1, <3>2
  <2> QED
    BY <2>4, <2>5
<1> QED
  BY <1>3, <1>4

LEMMA ViewCounted ==
  ASSUME TypeInv, IsFiniteSet(Call), Call # {}, ViewInv, NEW c \in Call, CountView(c)
  PROVE  ViewInv'
<1> SUFFICES ASSUME NEW s \in Share
             PROVE  /\ share'[s].views + Cardinality(Inflight(s)') <= peak[s] + Cardinality(Call) - 1
                    /\ share'[s].views + Cardinality(Inflight(s)') <= begun
  BY CountViewEffect DEF ViewInv
<1>1. /\ IsFiniteSet(Inflight(s)) /\ Cardinality(Inflight(s)) \in Nat
      /\ Cardinality(Call) \in Nat
      /\ share[s].views \in Nat /\ peak[s] \in Nat /\ begun \in Nat
  BY InflightNumbers
<1>2. /\ share[s].views + Cardinality(Inflight(s)) <= peak[s] + Cardinality(Call) - 1
      /\ share[s].views + Cardinality(Inflight(s)) <= begun
  BY DEF ViewInv
<1>3. /\ call[c].pc = "view" /\ CallBecomes(c, Idle)
      /\ share'[call[c].share].views = share[call[c].share].views + 1
      /\ \A t \in Share \ {call[c].share} : share'[t].views = share[t].views
  BY CountViewEffect
<1>4. CASE s # call[c].share
  <2>1. Inflight(s)' = Inflight(s)
    BY <1>3, <1>4, IdleType DEF Inflight, CallBecomes
  <2> QED
    BY <1>2, <1>3, <1>4, <2>1
<1>5. CASE s = call[c].share
  <2>1. Inflight(s)' = Inflight(s) \ {c} /\ c \in Inflight(s)
    BY <1>3, <1>5, IdleType DEF Inflight, CallBecomes
  <2>2. Cardinality(Inflight(s)') = Cardinality(Inflight(s)) - 1
    BY <1>1, <2>1, FS_RemoveElement
  <2> QED
    BY <1>1, <1>2, <1>3, <1>5, <2>2
<1> QED
  BY <1>4, <1>5

\* Every other step of the catalogue, as the views see it.
LEMMA OtherSteps ==
  ASSUME TypeInv, PeakInv, CatalogueNext,
         \A c \in Call : ~CountView(c) /\ \A s \in Share : ~ReadView(c, s)
  PROVE  /\ UNCHANGED call \/ \E c \in Call, m \in Memory : CallBecomes(c, m) /\ m.pc # "view"
         /\ begun' >= begun
         /\ \A t \in Share : share'[t].views <= share[t].views /\ peak'[t] >= peak[t]
<1>0. /\ begun \in Nat
      /\ \A t \in Share : share[t].views \in Nat /\ peak[t] \in Nat
  BY CatalogueAssumption DEF TypeInv, CatalogueTypeOK, ShareRow
<1>1. ASSUME NEW c \in Call, ProductStep(c)
      PROVE  /\ \E m \in Memory : CallBecomes(c, m) /\ m.pc # "view"
             /\ begun' >= begun /\ UNCHANGED <<share, peak>>
  <2>1. ASSUME NEW k \in Category, NEW owner \in Owner, NEW n \in 0 .. MaxNumber,
               BeginCreate(c, k, n, owner)
        PROVE  /\ \E m \in Memory : CallBecomes(c, m) /\ m.pc # "view"
               /\ begun' >= begun /\ UNCHANGED <<share, peak>>
    BY <1>0, <2>1, BeginCreateEffect
  <2>2. CASE Draw(c)
    BY <1>0, <2>2, DrawEffect
  <2>3. CASE Probe(c)
    BY <1>0, <2>3, ProbeEffect
  <2>4. ASSUME NEW p \in Product, Insert(c, p)
        PROVE  /\ \E m \in Memory : CallBecomes(c, m) /\ m.pc # "view"
               /\ begun' >= begun /\ UNCHANGED <<share, peak>>
    BY <1>0, <2>4, InsertEffect, IdleType
  <2>5. ASSUME NEW p \in Product, NEW k \in Category, NEW ref \in Ref \cup {NoRef},
               NEW owner \in Owner \cup {None}, ReadEdit(c, p, k, ref, owner)
        PROVE  /\ \E m \in Memory : CallBecomes(c, m) /\ m.pc # "view"
               /\ begun' >= begun /\ UNCHANGED <<share, peak>>
    BY <1>0, <2>5, ReadEditEffect
  <2>6. CASE WriteEdit(c)
    BY <1>0, <2>6, WriteEditEffect, IdleType
  <2> QED
    BY <1>1, <2>1, <2>2, <2>3, <2>4, <2>5, <2>6 DEF ProductStep
<1>2. ASSUME NEW c \in Call, NEW s \in Share \cup {None}, NEW ps \in SUBSET Product,
             ReadShare(c, s, ps)
      PROVE  /\ \E m \in Memory : CallBecomes(c, m) /\ m.pc # "view"
             /\ begun' >= begun /\ UNCHANGED <<share, peak>>
  <2> DEFINE m == [Idle EXCEPT !.pc = "share", !.share = s, !.products = ps]
  <2>1. m \in Memory /\ m.pc = "share"
    BY IdleType DEF Idle, Memory
  <2>2. Begin(c, m) /\ UNCHANGED <<share, peak>>
    BY <1>2 DEF ReadShare
  <2> HIDE DEF m
  <2> QED
    BY <1>0, <2>1, <2>2, BeginEffect
<1>3. ASSUME NEW c \in Call, NEW s \in Share, ReadDrop(c, s)
      PROVE  /\ \E m \in Memory : CallBecomes(c, m) /\ m.pc # "view"
             /\ begun' >= begun /\ UNCHANGED <<share, peak>>
  <2> DEFINE m == [Idle EXCEPT !.pc = "drop", !.share = s]
  <2>1. m \in Memory /\ m.pc = "drop"
    BY IdleType DEF Idle, Memory
  <2>2. Begin(c, m) /\ UNCHANGED <<share, peak>>
    BY <1>3 DEF ReadDrop
  <2> HIDE DEF m
  <2> QED
    BY <1>0, <2>1, <2>2, BeginEffect
<1>4. ASSUME NEW c \in Call,
             \/ WriteReplacement(c)
             \/ \E s \in Share, l \in Limit \cup {NoLimit} : WriteShare(c, s, l)
             \/ WriteDrop(c)
      PROVE  /\ \E m \in Memory : CallBecomes(c, m) /\ m.pc # "view"
             /\ begun' >= begun /\ \A t \in Share : ShareKept(t)
  BY <1>0, <1>4, ShareWriteEffect, IdleType
<1>13. ASSUME NEW c \in Call, WipeShare(c)
       PROVE  /\ \E m \in Memory : CallBecomes(c, m) /\ m.pc # "view"
              /\ begun' >= begun /\ \A t \in Share : ShareKept(t)
  BY <1>0, <1>13, WipeEffect
<1>5. ASSUME NEW c \in Call, Abort(c)
      PROVE  /\ \E m \in Memory : CallBecomes(c, m) /\ m.pc # "view"
             /\ begun' >= begun /\ UNCHANGED <<share, peak>>
  BY <1>0, <1>5, AbortEffect, IdleType
<1>6. ASSUME NEW p \in Product, RemoveProduct(p)
      PROVE  UNCHANGED call /\ begun' >= begun /\ UNCHANGED <<share, peak>>
  BY <1>0, <1>6, RemoveProductEffect, SingleEffect
<1>7. ASSUME NEW k \in Category, RemoveCategory(k) \/ \E x \in Prefix : EditCategory(k, x)
      PROVE  UNCHANGED call /\ begun' >= begun /\ UNCHANGED <<share, peak>>
  BY <1>0, <1>7, CategoryEditEffect, SingleEffect
<1>8. ASSUME NEW s \in Share,
             \/ \E status \in {"ACTIVE", "CLOSED"}, l \in Limit \cup {NoLimit} : EditShare(s, status, l)
             \/ \E p \in Product : RemoveFromShare(s, p)
      PROVE  UNCHANGED call /\ begun' >= begun /\ \A t \in Share : ShareKept(t)
  BY <1>0, <1>8, ShareEditEffect, SingleEffect
<1>9. (UNCHANGED <<share, peak>> \/ \A t \in Share : ShareKept(t))
        => \A t \in Share : share'[t].views <= share[t].views /\ peak'[t] >= peak[t]
  BY <1>0 DEF ShareKept
<1>10. CASE \E c \in Call : ProductStep(c) \/ Abort(c)
  BY <1>1, <1>5, <1>9, <1>10
<1>11. CASE \E c \in Call : ShareStep(c)
  BY <1>2, <1>3, <1>4, <1>9, <1>11, <1>13 DEF ShareStep
<1>12. CASE ~\E c \in Call : ProductStep(c) \/ ShareStep(c) \/ Abort(c)
  BY <1>6, <1>7, <1>8, <1>9, <1>12 DEF CatalogueNext
<1> QED
  BY <1>10, <1>11, <1>12

LEMMA ViewReadEffect ==
  ASSUME TypeInv, NEW c \in Call, NEW s \in Share, ReadView(c, s)
  PROVE  \E m \in Memory :
           /\ CallBecomes(c, m) /\ call[c].pc = "idle" /\ m.pc = "view" /\ m.share \in Share
           /\ share[m.share].state = "ACTIVE" /\ LimitAllows(m.share)
           /\ m.products = PublicProducts(m.share)
           /\ begun' = begun + 1 /\ begun' <= MaxCalls /\ UNCHANGED <<share, peak>>
<1> DEFINE m == [Idle EXCEPT !.pc = "view", !.share = s, !.products = PublicProducts(s)]
<1>1. PublicProducts(s) \in SUBSET Product
  BY DEF PublicProducts, TypeInv, CatalogueTypeOK, ShareRow
<1>2. /\ m \in Memory /\ m.pc = "view" /\ m.share = s /\ m.products = PublicProducts(s)
  BY <1>1, IdleType DEF Idle, Memory
<1>3. /\ Begin(c, m) /\ share[s].state = "ACTIVE" /\ LimitAllows(s) /\ UNCHANGED <<share, peak>>
  BY DEF ReadView
<1> HIDE DEF m
<1> QED
  BY <1>2, <1>3, BeginEffect

LEMMA ViewStep ==
  ASSUME TypeInv, TypeInv', PeakInv, IsFiniteSet(Call), Call # {}, ViewInv, CatalogueNext
  PROVE  ViewInv'
<1>1. ASSUME NEW c \in Call, CountView(c)
      PROVE  ViewInv'
  BY <1>1, ViewCounted
<1>2. ASSUME NEW c \in Call, NEW s \in Share, ReadView(c, s)
      PROVE  ViewInv'
  BY <1>2, ViewReadEffect, ViewBegins
<1>3. CASE \A c \in Call : ~CountView(c) /\ \A s \in Share : ~ReadView(c, s)
  BY <1>3, OtherSteps, NoNewView
<1> QED
  BY <1>1, <1>2, <1>3

-----------------------------------------------------------------------------
(* The catalogue under its prices                                          *)

\* Prices never touch what the catalogue is proved about.
LEMMA ShopSteps ==
  ASSUME TypeInv, [ShopNext]_shopVars
  PROVE  \/ CatalogueNext
         \/ /\ begun' \in 0 .. MaxCalls /\ begun' >= begun /\ UNCHANGED call
            /\ UNCHANGED <<category, locked, product, share, typed, drawn, peak>>
<1>1. begun \in 0 .. MaxCalls /\ begun >= begun
  BY CatalogueAssumption DEF TypeInv, CatalogueTypeOK
<1>2. CASE PriceEdit /\ Single /\ UNCHANGED <<category, locked, product, share, typed, drawn, peak>>
  BY <1>1, <1>2, CatalogueAssumption, SingleEffect
<1>3. CASE UNCHANGED shopVars
  BY <1>1, <1>3 DEF shopVars, catalogueVars
<1> QED
  BY <1>2, <1>3 DEF ShopNext

LEMMA TypeShopStep ==
  ASSUME TypeInv, PeakInv, [ShopNext]_shopVars
  PROVE  TypeInv' /\ PeakInv'
<1>1. CASE CatalogueNext
  BY <1>1, TypeStep
<1>2. CASE /\ begun' \in 0 .. MaxCalls /\ begun' >= begun /\ UNCHANGED call
           /\ UNCHANGED <<category, locked, product, share, typed, drawn, peak>>
  BY <1>2, PeakKept DEF TypeInv, CatalogueTypeOK, CountersStart, MemoryKnown
<1> QED
  BY <1>1, <1>2, ShopSteps

LEMMA TypesAlways == ShopSpec => [](TypeInv /\ PeakInv)
<1>1. ShopInit => TypeInv /\ PeakInv
  BY Initially DEF ShopInit
<1>2. TypeInv /\ PeakInv /\ [ShopNext]_shopVars => (TypeInv /\ PeakInv)'
  BY TypeShopStep
<1> QED
  BY <1>1, <1>2, PTL DEF ShopSpec

LEMMA RefsAlways == ShopSpec => []RefInv
<1>1. ShopInit => RefInv
  <2> SUFFICES ASSUME CatalogueInit
               PROVE  RefInv
    BY DEF ShopInit
  <2>1. \A c \in Call : call[c].pc = "idle"
    BY IdleType DEF CatalogueInit
  <2>2. (\A k \in Category : locked[k] = NoCall) /\ drawn = {}
    BY DEF CatalogueInit
  <2> QED
    BY <2>1, <2>2 DEF RefInv, LockHeld, Sourced, FreeWhenDrawn, CounterPassesDrawn
<1>2. /\ TypeInv /\ PeakInv /\ RefInv /\ [ShopNext]_shopVars
      /\ TypeInv'
      => RefInv'
  <2> SUFFICES ASSUME TypeInv, PeakInv, RefInv, [ShopNext]_shopVars, TypeInv'
               PROVE  RefInv'
    OBVIOUS
  <2>1. CASE CatalogueNext
    BY <2>1, RefStep
  <2>2. CASE UNCHANGED <<category, locked, product, share, typed, drawn, peak>> /\ UNCHANGED call
    BY <2>2, NoCallStep
  <2> QED
    BY <2>1, <2>2, ShopSteps
<1> QED
  BY <1>1, <1>2, TypesAlways, PTL DEF ShopSpec

\* The counter of a category is ahead of every reference it has given, for any
\* number of overlapping creations, collisions and roll-backs: the increment locks
\* the row, and the insertion commits the last number of the transaction.
THEOREM CountersStayAhead == ShopSpec => []CounterPassesDrawn
<1>1. RefInv => CounterPassesDrawn
  BY DEF RefInv
<1> QED
  BY <1>1, RefsAlways, PTL

\* A drawn reference that is taken between the probe and the insertion was typed by
\* hand or drawn by a category of the same prefix.
THEOREM CollisionsHaveASource == ShopSpec => []DrawnRefIsFree
<1>1. RefInv => DrawnRefIsFree
  BY DEF RefInv, FreeWhenDrawn, DrawnRefIsFree
<1> QED
  BY <1>1, RefsAlways, PTL

\* The views of a shared catalogue pass its largest limit by fewer than there are
\* calls at a time: every call checks the limit before it counts its view.
THEOREM ViewsPassTheLimitByCalls ==
  ASSUME IsFiniteSet(Call), Call # {}
  PROVE  ShopSpec => []ViewsNearLimit
<1>1. ShopInit => ViewInv
  <2> SUFFICES ASSUME CatalogueInit, NEW s \in Share
               PROVE  /\ share[s].views + Cardinality(Inflight(s)) <= peak[s] + Cardinality(Call) - 1
                      /\ share[s].views + Cardinality(Inflight(s)) <= begun
    BY DEF ShopInit, ViewInv
  <2>1. Inflight(s) = {}
    BY IdleType DEF CatalogueInit, Inflight
  <2>2. Cardinality(Inflight(s)) = 0
    BY <2>1, FS_EmptySet
  <2>3. share[s].views = 0 /\ begun = 0
    BY DEF CatalogueInit, NoShare
  <2>4. Cardinality(Call) \in Nat /\ Cardinality(Call) >= 1 /\ peak[s] \in Nat
    BY Initially, InflightNumbers
  <2> QED
    BY <2>2, <2>3, <2>4
<1>2. TypeInv /\ PeakInv /\ TypeInv' /\ ViewInv /\ [ShopNext]_shopVars => ViewInv'
  <2> SUFFICES ASSUME TypeInv, PeakInv, TypeInv', ViewInv, [ShopNext]_shopVars
               PROVE  ViewInv'
    OBVIOUS
  <2>1. CASE CatalogueNext
    BY <2>1, ViewStep
  <2>2. CASE UNCHANGED <<category, locked, product, share, typed, drawn, peak>>
             /\ UNCHANGED call /\ begun' >= begun
    <3>1. \A t \in Share : share'[t].views <= share[t].views /\ peak'[t] >= peak[t]
      BY <2>2 DEF TypeInv, CatalogueTypeOK, ShareRow
    <3> QED
      BY <2>2, <3>1, NoNewView
  <2> QED
    BY <2>1, <2>2, ShopSteps
<1>3. ViewInv => ViewsNearLimit
  <2> SUFFICES ASSUME ViewInv, NEW s \in Share
               PROVE  share[s].views + Cardinality({c \in Call : call[c].pc = "view" /\ call[c].share = s})
                        <= peak[s] + Cardinality(Call) - 1
    BY DEF ViewsNearLimit
  <2> QED
    BY DEF ViewInv, Inflight
<1> QED
  BY <1>1, <1>2, <1>3, TypesAlways, PTL DEF ShopSpec

\* Whoever opens a shared catalogue sees products of the company only, whatever
\* products changed hands since they were put in it.
THEOREM PublicSeesNoModel == ShopSpec => PublicSeesCompanyProducts
<1> DEFINE Seen == \A c \in Call : call[c].pc = "idle" /\ call'[c].pc = "view"
                     => \A p \in call'[c].products : product[p].owner = Company
<1>1. TypeInv /\ PeakInv /\ [ShopNext]_shopVars => [Seen]_catalogueVars
  <2> SUFFICES ASSUME TypeInv, PeakInv, [ShopNext]_shopVars, NEW d \in Call,
                      call[d].pc = "idle", call'[d].pc = "view"
               PROVE  \A p \in call'[d].products : product[p].owner = Company
    BY DEF Seen
  <2>1. CatalogueNext
    BY ShopSteps
  <2>2. ASSUME NEW c \in Call, NEW s \in Share, ReadView(c, s)
        PROVE  \A p \in call'[d].products : product[p].owner = Company
    <3>1. PICK m \in Memory :
            /\ CallBecomes(c, m) /\ m.share \in Share /\ m.products = PublicProducts(m.share)
      BY <2>2, ViewReadEffect
    <3>2. d = c
      BY <3>1 DEF CallBecomes
    <3> QED
      BY <3>1, <3>2 DEF CallBecomes, PublicProducts
  <2>3. ASSUME NEW c \in Call, CountView(c)
        PROVE  FALSE
    BY <2>3, CountViewEffect, IdleType DEF CallBecomes
  <2>4. CASE \A c \in Call : ~CountView(c) /\ \A s \in Share : ~ReadView(c, s)
    <3>1. UNCHANGED call \/ \E c \in Call, m \in Memory : CallBecomes(c, m) /\ m.pc # "view"
      BY <2>1, <2>4, OtherSteps
    <3> QED
      BY <3>1 DEF CallBecomes
  <2> QED
    BY <2>2, <2>3, <2>4
<1>2. PublicSeesCompanyProducts <=> [][Seen]_catalogueVars
  BY DEF PublicSeesCompanyProducts
<1> HIDE DEF Seen
<1> QED
  BY <1>1, <1>2, TypesAlways, PTL DEF ShopSpec

-----------------------------------------------------------------------------
(* Prices                                                                  *)

PricesTyped ==
  /\ clientType \in [Client -> Type]
  /\ base \in [Product -> Price]
  /\ variant \in [Variant -> VariantRow]
  /\ agreed \in [Client \X Variant -> Price \cup {NoPrice}]

LEMMA PricesInit ==
  ASSUME ShopInit
  PROVE  PricesTyped
<1>1. NoVariant("none") \in VariantRow
  BY DEF NoVariant, VariantRow
<1>2. base \in [Product -> Price]
  BY DEF ShopInit
<1> QED
  BY <1>1, <1>2 DEF ShopInit, PricesTyped

\* Edits of prices keep the types of the rows; the catalogue leaves them alone.
LEMMA PricesStep ==
  ASSUME PricesTyped, [ShopNext]_shopVars
  PROVE  PricesTyped'
<1>1. CASE UNCHANGED priceVars
  BY <1>1 DEF priceVars, PricesTyped
<1>2. ASSUME NEW p \in Product, NEW b \in Price, EditBase(p, b)
      PROVE  PricesTyped'
  BY <1>2 DEF EditBase, PricesTyped
<1>3. ASSUME NEW p \in Product, NEW v \in Variant, NEW o \in Price \cup {NoPrice},
             ReplaceVariants(p, v, o)
      PROVE  PricesTyped'
  <2>1. NoVariant("gone") \in VariantRow /\ [state |-> "present", product |-> p, override |-> o] \in VariantRow
    BY DEF NoVariant, VariantRow
  <2>2. variant' \in [Variant -> VariantRow]
    BY <1>3, <2>1 DEF ReplaceVariants, PricesTyped
  <2>3. agreed' \in [Client \X Variant -> Price \cup {NoPrice}]
    BY <1>3 DEF ReplaceVariants, PricesTyped
  <2> QED
    BY <1>3, <2>2, <2>3 DEF ReplaceVariants, PricesTyped
<1>4. ASSUME NEW cl \in Client, NEW type \in Type, EditClient(cl, type)
      PROVE  PricesTyped'
  BY <1>4 DEF EditClient, PricesTyped
<1>5. ASSUME NEW cl \in Client, NEW v \in Variant, RemoveAgreement(cl, v)
      PROVE  PricesTyped'
  BY <1>5 DEF RemoveAgreement, PricesTyped
<1>6. ASSUME NEW cl \in Client, NEW v \in Variant, NEW price \in Price, UpsertAgreement(cl, v, price)
      PROVE  PricesTyped'
  BY <1>6 DEF UpsertAgreement, PricesTyped
<1>7. [ShopNext]_shopVars => UNCHANGED priceVars \/ PriceEdit
  BY DEF ShopNext, shopVars
<1> QED
  BY <1>1, <1>2, <1>3, <1>4, <1>5, <1>6, <1>7 DEF PriceEdit

LEMMA PricesAlways == ShopSpec => []PricesTyped
<1>1. ShopInit => PricesTyped
  BY PricesInit
<1>2. PricesTyped /\ [ShopNext]_shopVars => PricesTyped'
  BY PricesStep
<1> QED
  BY <1>1, <1>2, PTL DEF ShopSpec

\* Rows, memories, counters and prices keep their types under every interleaving.
THEOREM TypeCorrect == ShopSpec => []ShopTypeOK
<1>1. TypeInv /\ PricesTyped => ShopTypeOK
  BY DEF TypeInv, PricesTyped, ShopTypeOK
<1> QED
  BY <1>1, TypesAlways, PricesAlways, PTL

\* The quotation and the line of an order give one price, or both ask for a price
\* by hand, for every history of prices, agreements and client types.
THEOREM QuotesAreKept == ShopSpec => []QuoteAgreesWithOrder
<1>1. PricesTyped => QuoteAgreesWithOrder
  <2> SUFFICES ASSUME PricesTyped, NEW cl \in Client, NEW v \in Variant,
                      Usable(variant[v].product, cl)
               PROVE  OrderLine(cl, clientType[cl], variant[v].product, v, NoPrice) = Quote(cl, v)[2]
    BY DEF QuoteAgreesWithOrder
  <2> DEFINE p == variant[v].product
  <2>0. v # None
    BY PriceAssumption
  <2>1. OrderLine(cl, clientType[cl], p, v, NoPrice) = LinePrice(cl, clientType[cl], p, v, NoPrice)
    BY DEF OrderLine
  <2>2. CASE clientType[cl] = "B2C"
    <3>1. LinePrice(cl, clientType[cl], p, v, NoPrice) = LineCatalogPrice(p, v)
      BY <2>2 DEF LinePrice
    <3>2. LineCatalogPrice(p, v) = CatalogPrice(v)
      BY <2>0 DEF LineCatalogPrice, CatalogPrice
    <3>3. Quote(cl, v) = <<"CATALOG", CatalogPrice(v)>>
      BY <2>2 DEF Quote
    <3> QED
      BY <2>1, <3>1, <3>2, <3>3
  <2>3. CASE clientType[cl] = "B2B"
    <3>1. LinePrice(cl, clientType[cl], p, v, NoPrice) = agreed[<<cl, v>>]
      BY <2>0, <2>3 DEF LinePrice
    <3>2. Quote(cl, v)[2] = agreed[<<cl, v>>]
      BY <2>3 DEF Quote
    <3> QED
      BY <2>1, <3>1, <3>2
  <2> QED
    BY <2>2, <2>3 DEF PricesTyped, Type
<1> QED
  BY <1>1, PricesAlways, PTL
===============================================================================

--------------------------- MODULE MaterialsProofs ---------------------------
(***************************************************************************)
(* Proofs about Materials, for any components, orders, purchases, bills of *)
(* materials, scan orders and number of concurrent calls.                  *)
(***************************************************************************)
EXTENDS Materials, Sums

LEMMA NeededIsNat ==
  ASSUME NEW o \in Order, NEW l \in Line
  PROVE  Needed(o, l) \in Nat
<1>1. l.qty \in Nat
  BY ComponentsAssumption DEF Line
<1>2. OrderQty[o] \in Nat
  BY ComponentsAssumption
<1> HIDE DEF Line
<1> QED
  BY <1>1, <1>2 DEF Needed

LEMMA LineComponent ==
  ASSUME NEW l \in Line
  PROVE  l.component \in Component /\ l.qty \in Nat
  BY ComponentsAssumption DEF Line

\* Where a call is tells what its document is.
DocKnown ==
  \A r \in Request :
    /\ pc[r] = "claim" => doc[r] \in Purchase
    /\ pc[r] = "check" => doc[r] \in Order
    /\ pc[r] \in {"rows", "write"} => doc[r] \in Order \cup Purchase

TypeInv == TypeOK /\ DocKnown

-----------------------------------------------------------------------------
LEMMA TypeInvInit == Init => TypeInv
<1> SUFFICES ASSUME Init PROVE TypeInv
  OBVIOUS
<1> USE ComponentsAssumption DEF Init
<1>1. TypeOK
  BY DEF TypeOK, OrderStatus, PurchaseStatus, NoChange
<1>2. DocKnown
  BY DEF DocKnown
<1> QED
  BY <1>1, <1>2 DEF TypeInv

\* A transaction that ends leaves calls and locks well typed.
LEMMA FinishType ==
  ASSUME TypeInv, NEW r \in Request, NEW answer \in Answered, Finish(r, answer),
         lines' \in [Request -> SUBSET Line]
  PROVE  /\ DocKnown'
         /\ rowLock' \in [Component -> Request \cup {None}]
         /\ purchaseLock' \in [Purchase -> Request \cup {None}]
         /\ pc' \in [Request -> {"new"} \cup Running \cup Answered]
         /\ doc' \in [Request -> Order \cup Purchase \cup {None}]
         /\ seen' \in [Request -> OrderStatus]
         /\ todo' \in [Request -> SUBSET Line]
         /\ wanted' \in [Request -> SUBSET Component]
         /\ plan' \in [Request -> ScanPlan]
         /\ delta' \in [Request -> [Component -> Int]]
<1>1. DocKnown'
  BY DEF Finish, TypeInv, TypeOK, DocKnown, Answered
<1>2. NoChange \in [Component -> Int]
  BY DEF NoChange
<1> QED
  BY <1>1, <1>2 DEF Finish, TypeInv, TypeOK

LEMMA RollbackType ==
  ASSUME TypeInv, NEW r \in Request, NEW answer \in Answered, Rollback(r, answer)
  PROVE  TypeInv'
<1>1. lines' \in [Request -> SUBSET Line]
  BY DEF Rollback, TypeInv, TypeOK
<1> QED
  BY <1>1, FinishType DEF Rollback, database, TypeInv, TypeOK

LEMMA RefuseType ==
  ASSUME TypeInv, NEW r \in Request, NEW d \in Order \cup Purchase, Refuse(r, d)
  PROVE  TypeInv'
  BY DEF Refuse, database, locks, TypeInv, TypeOK, DocKnown, Answered

LEMMA ApplyType ==
  ASSUME TypeOK, NEW r \in Request
  PROVE  Apply(r) \in [Component -> Int]
  BY DEF TypeOK, Apply

LEMMA ConsumptionType ==
  ASSUME TypeInv, NEW r \in Request, Consumption(r)
  PROVE  TypeInv'
<1> USE DEF TypeInv
<1>1. ASSUME NEW o \in Order, StartConsume(r, o) PROVE TypeInv'
  <2>1. CASE Refuse(r, o)
    BY <2>1, RefuseType
  <2>2. CASE ~Refuse(r, o)
    <3>1. BomOf(o) \in SUBSET Line /\ ComponentsOf(BomOf(o)) \in SUBSET Component
      BY LineComponent DEF BomOf, ComponentsOf, TypeOK, Line
    <3>2. DocKnown'
      BY <1>1, <2>2 DEF StartConsume, TypeOK, DocKnown
    <3>3. /\ pc' = [pc EXCEPT ![r] = "rows"]
          /\ doc' = [doc EXCEPT ![r] = o]
          /\ seen' = [seen EXCEPT ![r] = orderStatus[o]]
          /\ lines' = [lines EXCEPT ![r] = BomOf(o)]
          /\ todo' = [todo EXCEPT ![r] = BomOf(o)]
          /\ wanted' = [wanted EXCEPT ![r] = ComponentsOf(BomOf(o))]
          /\ UNCHANGED <<stock, present, bom, orderStatus, consumed, purchaseStatus,
                         rowLock, purchaseLock, plan, delta>>
      BY <1>1, <2>2 DEF StartConsume, database, locks
    <3> QED
      BY <3>1, <3>2, <3>3 DEF TypeOK, Running
  <2> QED
    BY <2>1, <2>2
<1>2. ASSUME CheckShortages(r) PROVE TypeInv'
  <2>1. CASE Rollback(r, "rejected")
    BY <2>1, RollbackType DEF Answered
  <2>2. CASE ~Rollback(r, "rejected")
    BY <1>2, <2>2 DEF CheckShortages, database, locks, TypeOK, DocKnown, Running
  <2> QED
    BY <2>1, <2>2
<1>3. ASSUME NEW l \in todo[r], DebitLine(r, l) PROVE TypeInv'
  <2>1. l \in Line
    BY DEF TypeOK
  <2>2. doc[r] \in Order /\ l.component \in Component /\ Needed(doc[r], l) \in Nat
    BY <1>3, <2>1, LineComponent, NeededIsNat DEF DebitLine
  <2>3. delta' \in [Request -> [Component -> Int]]
    BY <1>3, <2>2 DEF DebitLine, TypeOK
  <2> QED
    BY <1>3, <2>3 DEF DebitLine, database, locks, TypeOK, DocKnown
<1>4. ASSUME CommitConsume(r) PROVE TypeInv'
  <2>1. lines' \in [Request -> SUBSET Line] /\ Finish(r, "ok") /\ "ok" \in Answered
    BY <1>4 DEF CommitConsume, TypeOK, Answered
  <2>2. /\ stock' \in [Component -> Int]
        /\ consumed' \in [Order -> BOOLEAN]
        /\ orderStatus' \in [Order -> OrderStatus]
    BY <1>4, ApplyType DEF CommitConsume, TypeOK, OrderStatus
  <2> QED
    BY <1>4, <2>1, <2>2, FinishType DEF CommitConsume, TypeOK
<1> QED
  BY <1>1, <1>2, <1>3, <1>4 DEF Consumption

LEMMA ReceptionType ==
  ASSUME TypeInv, NEW r \in Request, Reception(r)
  PROVE  TypeInv'
<1> USE DEF TypeInv
<1>1. ASSUME NEW p \in Purchase, StartReceive(r, p) PROVE TypeInv'
  <2>1. CASE Refuse(r, p)
    BY <2>1, RefuseType
  <2>2. CASE ~Refuse(r, p)
    <3>1. StockLinesOf(p) \in SUBSET Line
      BY DEF StockLinesOf, Line
    <3>2. DocKnown'
      BY <1>1, <2>2 DEF StartReceive, TypeOK, DocKnown
    <3>3. /\ pc' = [pc EXCEPT ![r] = "claim"]
          /\ doc' = [doc EXCEPT ![r] = p]
          /\ lines' = [lines EXCEPT ![r] = StockLinesOf(p)]
          /\ todo' = [todo EXCEPT ![r] = StockLinesOf(p)]
          /\ UNCHANGED <<stock, present, bom, orderStatus, consumed, purchaseStatus,
                         rowLock, purchaseLock, seen, wanted, plan, delta>>
      BY <1>1, <2>2 DEF StartReceive, database, locks
    <3> QED
      BY <3>1, <3>2, <3>3 DEF TypeOK, Running
  <2> QED
    BY <2>1, <2>2
<1>2. ASSUME ClaimPurchase(r) PROVE TypeInv'
  <2>1. CASE Rollback(r, "rejected")
    BY <2>1, RollbackType DEF Answered
  <2>2. CASE ~Rollback(r, "rejected")
    <3>1. doc[r] \in Purchase /\ ComponentsOf(lines[r]) \in SUBSET Component
      BY <1>2, LineComponent DEF ClaimPurchase, DocKnown, ComponentsOf, TypeOK
    <3>2. DocKnown'
      BY <1>2, <2>2, <3>1 DEF ClaimPurchase, TypeOK, DocKnown
    <3>3. /\ pc' = [pc EXCEPT ![r] = "rows"]
          /\ purchaseLock' = [purchaseLock EXCEPT ![doc[r]] = r]
          /\ wanted' = [wanted EXCEPT ![r] = ComponentsOf(lines[r])]
          /\ UNCHANGED <<stock, present, bom, orderStatus, consumed, purchaseStatus,
                         rowLock, doc, seen, lines, todo, plan, delta>>
      BY <1>2, <2>2 DEF ClaimPurchase, database
    <3> QED
      BY <3>1, <3>2, <3>3 DEF TypeOK, Running
  <2> QED
    BY <2>1, <2>2
<1>3. ASSUME NEW l \in todo[r], CreditLine(r, l) PROVE TypeInv'
  <2>1. CASE Rollback(r, "rejected")
    BY <2>1, RollbackType DEF Answered
  <2>2. CASE ~Rollback(r, "rejected")
    <3>1. l.component \in Component /\ l.qty \in Nat
      BY LineComponent DEF TypeOK
    <3>2. delta' \in [Request -> [Component -> Int]]
      <4>1. delta' = [delta EXCEPT ![r][l.component] = @ + l.qty]
        BY <1>3, <2>2 DEF CreditLine
      <4>2. delta[r][l.component] + l.qty \in Int
        BY <3>1 DEF TypeOK
      <4> QED
        BY <3>1, <4>1, <4>2 DEF TypeOK
    <3>3. /\ todo' = [todo EXCEPT ![r] = @ \ {l}]
          /\ UNCHANGED <<database, locks, pc, doc, seen, lines, wanted, plan>>
      BY <1>3, <2>2 DEF CreditLine
    <3> QED
      BY <3>2, <3>3 DEF database, locks, TypeOK, DocKnown
  <2> QED
    BY <2>1, <2>2
<1>4. ASSUME CommitReceive(r) PROVE TypeInv'
  <2>1. lines' \in [Request -> SUBSET Line] /\ Finish(r, "ok") /\ "ok" \in Answered
    BY <1>4 DEF CommitReceive, TypeOK, Answered
  <2>2. /\ stock' \in [Component -> Int]
        /\ purchaseStatus' \in [Purchase -> PurchaseStatus]
    BY <1>4, ApplyType DEF CommitReceive, TypeOK, PurchaseStatus
  <2> QED
    BY <1>4, <2>1, <2>2, FinishType DEF CommitReceive, TypeOK
<1> QED
  BY <1>1, <1>2, <1>3, <1>4 DEF Reception

LEMMA LockingType ==
  ASSUME TypeInv, NEW r \in Request, Locking(r) \/ Abort(r)
  PROVE  TypeInv'
<1> USE DEF TypeInv
<1>1. ASSUME NEW c \in Component, LockRow(r, c) PROVE TypeInv'
  BY <1>1 DEF LockRow, database, TypeOK, DocKnown
<1>2. ASSUME AllRowsLocked(r) PROVE TypeInv'
  <2>1. DocKnown'
    BY <1>2 DEF AllRowsLocked, TypeOK, DocKnown
  <2> QED
    BY <1>2, <2>1 DEF AllRowsLocked, database, locks, TypeOK, Running
<1>3. ASSUME DeadlockVictim(r) \/ Abort(r) PROVE TypeInv'
  BY <1>3, RollbackType DEF DeadlockVictim, Abort, Answered
<1> QED
  BY <1>1, <1>2, <1>3 DEF Locking

LEMMA EditedType ==
  ASSUME TypeInv, NEW r \in Request, NEW answer \in {"edited", "reopened"},
         NEW d \in Order \cup Purchase \cup {None}, Edited(r, answer, d),
         stock' \in [Component -> Int], present' \subseteq Component, bom' \subseteq BomLine,
         orderStatus' \in [Order -> OrderStatus], consumed' = consumed,
         purchaseStatus' \in [Purchase -> PurchaseStatus]
  PROVE  TypeInv'
  BY DEF Edited, locks, TypeInv, TypeOK, DocKnown, Answered

LEMMA EditType ==
  ASSUME TypeInv, NEW r \in Request, Edit(r)
  PROVE  TypeInv'
<1> USE ComponentsAssumption DEF TypeInv
<1>1. ASSUME NEW c \in Component, EditStock(r, c) PROVE TypeInv'
  <2>1. stock' \in [Component -> Int]
    BY <1>1 DEF EditStock, TypeOK
  <2> QED
    BY <1>1, <2>1, EditedType DEF EditStock, TypeOK
<1>2. ASSUME NEW c \in Component, RemoveComponent(r, c) PROVE TypeInv'
  BY <1>2, EditedType DEF RemoveComponent, TypeOK
<1>3. ASSUME NEW l \in BomLine, CreateBomItem(r, l) \/ RemoveBomItem(r, l) PROVE TypeInv'
  BY <1>3, EditedType DEF CreateBomItem, RemoveBomItem, TypeOK
<1>4. ASSUME NEW old \in BomLine, NEW new \in BomLine, UpdateBomItem(r, old, new) PROVE TypeInv'
  BY <1>4, EditedType DEF UpdateBomItem, TypeOK
<1>5. ASSUME NEW o \in Order, EditOrder(r, o) PROVE TypeInv'
  <2>1. PICK s \in OrderStatus : orderStatus' = [orderStatus EXCEPT ![o] = s]
    BY <1>5 DEF EditOrder
  <2>2. orderStatus' \in [Order -> OrderStatus]
    BY <2>1 DEF TypeOK
  <2> QED
    BY <1>5, <2>2, EditedType DEF EditOrder, TypeOK
<1>6. ASSUME NEW p \in Purchase, EditPurchase(r, p) PROVE TypeInv'
  <2>1. PICK s \in PurchaseStatus :
          /\ purchaseStatus' = [purchaseStatus EXCEPT ![p] = s]
          /\ Edited(r, IF purchaseStatus[p] # "OPEN" /\ s = "OPEN"
                       THEN "reopened" ELSE "edited", p)
    BY <1>6 DEF EditPurchase
  <2>2. purchaseStatus' \in [Purchase -> PurchaseStatus]
    BY <2>1 DEF TypeOK
  <2>3. PICK answer \in {"edited", "reopened"} : Edited(r, answer, p)
    BY <2>1
  <2> QED
    BY <1>6, <2>2, <2>3, EditedType DEF EditPurchase, TypeOK
<1> QED
  BY <1>1, <1>2, <1>3, <1>4, <1>5, <1>6 DEF Edit

LEMMA TypeInvStep == TypeInv /\ [Next]_vars => TypeInv'
<1>1. TypeInv /\ UNCHANGED vars => TypeInv'
  BY DEF TypeInv, TypeOK, DocKnown, vars, database, locks, calls
<1> QED
  BY <1>1, ConsumptionType, ReceptionType, LockingType, EditType DEF Next

LEMMA TypeInvAlways == Spec => []TypeInv
  BY TypeInvInit, TypeInvStep, PTL DEF Spec

\* The rows, the locks and the memory of the calls keep their types (opening, a
\* history variable, apart: it is a sum).
THEOREM TypeCorrect == Spec => []TypeOK
<1>1. TypeInv => TypeOK
  BY DEF TypeInv
<1> QED
  BY <1>1, TypeInvAlways, PTL

-----------------------------------------------------------------------------
(* The claim of markReceived.                                              *)

\* Past its claim, a reception holds the row of its purchase order, which is
\* therefore still open.
ClaimHeld ==
  \A r \in Request : pc[r] \in {"rows", "write"} /\ doc[r] \in Purchase =>
    purchaseLock[doc[r]] = r /\ purchaseStatus[doc[r]] = "OPEN"

\* The end of a transaction frees nobody else's claim.
LEMMA ClaimFinish ==
  ASSUME TypeInv, ClaimHeld, NEW r \in Request, NEW answer \in Answered, Finish(r, answer),
         \A p \in Purchase : purchaseStatus'[p] = purchaseStatus[p] \/ purchaseLock[p] = r
  PROVE  ClaimHeld'
<1> SUFFICES ASSUME NEW q \in Request, pc'[q] \in {"rows", "write"}, doc'[q] \in Purchase
             PROVE  purchaseLock'[doc'[q]] = q /\ purchaseStatus'[doc'[q]] = "OPEN"
  BY DEF ClaimHeld
<1>1. q # r /\ pc'[q] = pc[q] /\ doc'[q] = doc[q]
  BY DEF Finish, TypeInv, TypeOK, Answered
<1>2. purchaseLock[doc[q]] = q /\ purchaseStatus[doc[q]] = "OPEN"
  BY <1>1 DEF ClaimHeld
<1> QED
  BY <1>1, <1>2 DEF Finish

LEMMA ClaimQuiet ==
  ASSUME ClaimHeld, UNCHANGED <<purchaseLock, purchaseStatus>>,
         \A q \in Request : pc'[q] \in {"rows", "write"} /\ doc'[q] \in Purchase =>
           pc[q] \in {"rows", "write"} /\ doc'[q] = doc[q]
  PROVE  ClaimHeld'
  BY DEF ClaimHeld

LEMMA ClaimRollback ==
  ASSUME TypeInv, ClaimHeld, NEW r \in Request, NEW answer \in Answered, Rollback(r, answer)
  PROVE  ClaimHeld'
  BY ClaimFinish DEF Rollback, database

LEMMA ClaimStep == TypeInv /\ ClaimHeld /\ [Next]_vars => ClaimHeld'
<1> SUFFICES ASSUME TypeInv, ClaimHeld, [Next]_vars PROVE ClaimHeld'
  OBVIOUS
<1> USE ComponentsAssumption
<1>1. ASSUME NEW r \in Request, NEW answer \in Answered, Rollback(r, answer) PROVE ClaimHeld'
  BY <1>1, ClaimRollback
<1>2. ASSUME NEW r \in Request, Consumption(r) PROVE ClaimHeld'
  <2>1. CASE \E o \in Order : StartConsume(r, o)
    BY <2>1, ClaimQuiet DEF StartConsume, Refuse, database, locks, TypeInv, TypeOK
  <2>2. CASE CheckShortages(r)
    <3>1. doc[r] \in Order
      BY <2>2 DEF CheckShortages, TypeInv, DocKnown
    <3> QED
      BY <1>1, <2>2, <3>1, ClaimQuiet DEF CheckShortages, database, locks, Answered, TypeInv, TypeOK
  <2>3. CASE \E l \in todo[r] : DebitLine(r, l)
    BY <2>3, ClaimQuiet DEF DebitLine, database, locks
  <2>4. CASE CommitConsume(r)
    BY <2>4, ClaimFinish DEF CommitConsume, Answered
  <2> QED
    BY <1>2, <2>1, <2>2, <2>3, <2>4 DEF Consumption
<1>3. ASSUME NEW r \in Request, Reception(r) PROVE ClaimHeld'
  <2>1. CASE \E p \in Purchase : StartReceive(r, p)
    BY <2>1, ClaimQuiet DEF StartReceive, Refuse, database, locks, TypeInv, TypeOK
  <2>2. CASE ClaimPurchase(r)
    <3>1. CASE Rollback(r, "rejected")
      BY <1>1, <3>1 DEF Answered
    <3>2. CASE ~Rollback(r, "rejected")
      <4>1. doc[r] \in Purchase
        BY <2>2 DEF ClaimPurchase, TypeInv, DocKnown
      <4>2. /\ purchaseLock[doc[r]] = None /\ purchaseStatus[doc[r]] = "OPEN"
            /\ purchaseLock' = [purchaseLock EXCEPT ![doc[r]] = r]
            /\ pc' = [pc EXCEPT ![r] = "rows"]
            /\ UNCHANGED <<purchaseStatus, doc>>
        BY <2>2, <3>2 DEF ClaimPurchase, StillOpen, database
      <4> QED
        BY <4>1, <4>2 DEF ClaimHeld, TypeInv, TypeOK
    <3> QED
      BY <3>1, <3>2
  <2>3. CASE \E l \in todo[r] : CreditLine(r, l)
    BY <1>1, <2>3, ClaimQuiet DEF CreditLine, database, locks, Answered
  <2>4. CASE CommitReceive(r)
    <3>1. doc[r] \in Purchase /\ purchaseLock[doc[r]] = r
      BY <2>4 DEF CommitReceive, ClaimHeld
    <3>2. \A p \in Purchase : purchaseStatus'[p] = purchaseStatus[p] \/ purchaseLock[p] = r
      BY <2>4, <3>1 DEF CommitReceive, TypeInv, TypeOK
    <3> QED
      BY <2>4, <3>2, ClaimFinish DEF CommitReceive, Answered
  <2> QED
    BY <1>3, <2>1, <2>2, <2>3, <2>4 DEF Reception
<1>4. ASSUME NEW r \in Request, Locking(r) \/ Abort(r) PROVE ClaimHeld'
  <2>1. CASE \E c \in Component : LockRow(r, c)
    BY <2>1, ClaimQuiet DEF LockRow, database
  <2>2. CASE AllRowsLocked(r)
    BY <2>2, ClaimQuiet DEF AllRowsLocked, database, locks, TypeInv, TypeOK
  <2>3. CASE DeadlockVictim(r) \/ Abort(r)
    BY <1>1, <2>3 DEF DeadlockVictim, Abort, Answered
  <2> QED
    BY <1>4, <2>1, <2>2, <2>3 DEF Locking
<1>5. ASSUME NEW r \in Request, Edit(r) PROVE ClaimHeld'
  <2>1. PICK answer \in {"edited", "reopened"}, d \in Order \cup Purchase \cup {None} :
          Edited(r, answer, d)
    BY <1>5 DEF Edit, EditStock, RemoveComponent, CreateBomItem, UpdateBomItem, RemoveBomItem,
       EditOrder, EditPurchase
  <2>2. \A p \in Purchase : purchaseStatus'[p] = purchaseStatus[p] \/ purchaseLock[p] = None
    BY <1>5 DEF Edit, EditStock, RemoveComponent, CreateBomItem, UpdateBomItem, RemoveBomItem,
       EditOrder, EditPurchase, TypeInv, TypeOK
  <2> QED
    BY <2>1, <2>2 DEF Edited, locks, ClaimHeld, TypeInv, TypeOK
<1>6. CASE UNCHANGED vars
  BY <1>6 DEF vars, database, locks, calls, ClaimHeld
<1> QED
  BY <1>2, <1>3, <1>4, <1>5, <1>6 DEF Next

\* A reception that commits finds its purchase order open: the conditional claim
\* takes the row, so neither another reception nor a PATCH can come between.
THEOREM OpenWhenReceived == Spec => ReceivesAnOpenPurchase
<1>1. Init => ClaimHeld
  BY DEF Init, ClaimHeld
<1>2. ClaimHeld =>
        [\A r \in Request :
           (doc[r] \in Purchase /\ pc[r] = "write" /\ pc'[r] = "ok")
             => purchaseStatus[doc[r]] = "OPEN"]_vars
  BY DEF ClaimHeld
<1> QED
  BY <1>1, <1>2, TypeInvAlways, ClaimStep, PTL DEF Spec, ReceivesAnOpenPurchase
-----------------------------------------------------------------------------
(* The row locks, and what a transaction has not committed yet.            *)

Locking3 == {"rows", "check", "write"}

\* A row is locked only by a transaction in progress.
LocksHeld ==
  \A r \in Request : pc[r] \notin Locking3 => \A c \in Component : rowLock[c] # r

\* A transaction changes only components whose row it holds, and only at the end.
ChangesHeld ==
  \A r \in Request : \A c \in Component :
    delta[r][c] # 0 => pc[r] = "write" /\ rowLock[c] = r

\* What is left to write was read, and a debit left to do has its row.
TodoRead == \A r \in Request : todo[r] \subseteq lines[r]

DebitsHeld ==
  \A r \in Request : pc[r] = "write" /\ doc[r] \in Order =>
    \A l \in todo[r] : rowLock[l.component] = r

LockInv == LocksHeld /\ ChangesHeld /\ TodoRead /\ DebitsHeld

LEMMA LockFinish ==
  ASSUME TypeInv, LockInv, NEW r \in Request, NEW answer \in Answered, Finish(r, answer),
         \A q \in Request \ {r} : lines'[q] = lines[q]
  PROVE  LockInv'
<1> USE DEF LockInv
<1>1. ASSUME NEW q \in Request \ {r}
      PROVE  /\ pc'[q] = pc[q] /\ doc'[q] = doc[q] /\ todo'[q] = todo[q] /\ delta'[q] = delta[q]
             /\ \A c \in Component : rowLock'[c] = q <=> rowLock[c] = q
  BY ComponentsAssumption DEF Finish, TypeInv, TypeOK
<1>2. /\ pc'[r] = answer /\ todo'[r] = {} /\ delta'[r] = NoChange
      /\ \A c \in Component : rowLock'[c] # r
  BY ComponentsAssumption DEF Finish, TypeInv, TypeOK
<1>3. LocksHeld'
  BY <1>1, <1>2 DEF LocksHeld
<1>4. ChangesHeld'
  BY <1>1, <1>2 DEF ChangesHeld, NoChange
<1>5. TodoRead'
  BY <1>1, <1>2 DEF TodoRead
<1>6. DebitsHeld'
  <2> SUFFICES ASSUME NEW q \in Request, pc'[q] = "write", doc'[q] \in Order, NEW l \in todo'[q]
               PROVE  rowLock'[l.component] = q
    BY DEF DebitsHeld
  <2>1. q # r
    BY <1>2
  <2>2. l \in todo[q] /\ pc[q] = "write" /\ doc[q] \in Order
    BY <1>1, <2>1
  <2>3. l.component \in Component /\ rowLock[l.component] = q
    BY <2>2, LineComponent DEF DebitsHeld, TypeInv, TypeOK
  <2> QED
    BY <1>1, <2>1, <2>3
<1> QED
  BY <1>3, <1>4, <1>5, <1>6

LEMMA LockRollback ==
  ASSUME TypeInv, LockInv, NEW r \in Request, NEW answer \in Answered, Rollback(r, answer)
  PROVE  LockInv'
<1>1. \A q \in Request \ {r} : lines'[q] = lines[q]
  BY DEF Rollback, TypeInv, TypeOK
<1> QED
  BY <1>1, LockFinish DEF Rollback

\* A call that begins holds nothing, so it may set lines and todo at will.
LEMMA LockBegin ==
  ASSUME TypeInv, LockInv, NEW r \in Request, UNCHANGED <<rowLock, delta>>,
         pc[r] \notin Locking3, pc'[r] # "write", todo'[r] \subseteq lines'[r],
         \A q \in Request \ {r} : /\ pc'[q] = pc[q] /\ doc'[q] = doc[q]
                                /\ lines'[q] = lines[q] /\ todo'[q] = todo[q]
  PROVE  LockInv'
  BY DEF LockInv, LocksHeld, ChangesHeld, TodoRead, DebitsHeld, Locking3

\* A call that moves on without touching rows: only a check passed makes it debit.
LEMMA LockMove ==
  ASSUME TypeInv, LockInv, NEW r \in Request, UNCHANGED <<rowLock, delta, doc, lines, todo>>,
         NEW label \in Locking3, pc' = [pc EXCEPT ![r] = label], pc[r] # "write",
         (label = "write" /\ doc[r] \in Order) =>
           \A l \in lines[r] : rowLock[l.component] = r
  PROVE  LockInv'
  BY DEF LockInv, LocksHeld, ChangesHeld, TodoRead, DebitsHeld, TypeInv, TypeOK

LEMMA LockStep == TypeInv /\ LockInv /\ [Next]_vars => LockInv'
<1> SUFFICES ASSUME TypeInv, LockInv, [Next]_vars PROVE LockInv'
  OBVIOUS
<1> USE ComponentsAssumption
<1>0. ASSUME NEW r \in Request, NEW answer \in Answered, Rollback(r, answer) PROVE LockInv'
  BY <1>0, LockRollback
<1>1. ASSUME NEW r \in Request, NEW o \in Order, StartConsume(r, o) PROVE LockInv'
  <2>1. todo[r] \subseteq lines[r]
    BY DEF LockInv, TodoRead
  <2>2. /\ pc[r] \notin Locking3 /\ pc'[r] # "write" /\ UNCHANGED <<rowLock, delta>>
        /\ \A q \in Request \ {r} : /\ pc'[q] = pc[q] /\ doc'[q] = doc[q]
                                 /\ lines'[q] = lines[q] /\ todo'[q] = todo[q]
    BY <1>1 DEF StartConsume, MayStart, Refuse, locks, Locking3, TypeInv, TypeOK
  <2>3. todo'[r] \subseteq lines'[r]
    BY <1>1, <2>1 DEF StartConsume, Refuse, TypeInv, TypeOK
  <2> QED
    BY <2>2, <2>3, LockBegin
<1>2. ASSUME NEW r \in Request, CheckShortages(r) PROVE LockInv'
  <2>1. CASE Rollback(r, "rejected")
    BY <1>0, <2>1 DEF Answered
  <2>2. CASE ~Rollback(r, "rejected")
    <3>1. /\ \A l \in lines[r] : rowLock[l.component] = r
          /\ pc[r] = "check" /\ pc' = [pc EXCEPT ![r] = "write"]
          /\ UNCHANGED <<rowLock, delta, doc, lines, todo>>
      BY <1>2, <2>2 DEF CheckShortages, EnoughFor, Held, locks
    <3> QED
      BY <3>1, LockMove DEF Locking3
  <2> QED
    BY <2>1, <2>2
<1>3. ASSUME NEW r \in Request, NEW l \in todo[r], DebitLine(r, l) PROVE LockInv'
  <2>1. pc[r] = "write" /\ rowLock[l.component] = r
    BY <1>3 DEF DebitLine, LockInv, DebitsHeld
  <2>0. l.component \in Component
    BY LineComponent DEF TypeInv, TypeOK
  <2>2. /\ delta' = [delta EXCEPT ![r][l.component] = @ - Needed(doc[r], l)]
        /\ todo' = [todo EXCEPT ![r] = @ \ {l}]
        /\ UNCHANGED <<rowLock, pc, doc, lines>>
    BY <1>3 DEF DebitLine, locks
  <2>3. LocksHeld' /\ TodoRead' /\ DebitsHeld'
    BY <2>2 DEF LockInv, LocksHeld, TodoRead, DebitsHeld, TypeInv, TypeOK
  <2>4. ChangesHeld'
    BY <2>0, <2>1, <2>2 DEF LockInv, ChangesHeld, TypeInv, TypeOK
  <2> QED
    BY <2>3, <2>4 DEF LockInv
<1>4. ASSUME NEW r \in Request, CommitConsume(r) PROVE LockInv'
  BY <1>4, LockFinish DEF CommitConsume, Answered
<1>5. ASSUME NEW r \in Request, NEW p \in Purchase, StartReceive(r, p) PROVE LockInv'
  <2>1. todo[r] \subseteq lines[r]
    BY DEF LockInv, TodoRead
  <2>2. /\ pc[r] \notin Locking3 /\ pc'[r] # "write" /\ UNCHANGED <<rowLock, delta>>
        /\ \A q \in Request \ {r} : /\ pc'[q] = pc[q] /\ doc'[q] = doc[q]
                                 /\ lines'[q] = lines[q] /\ todo'[q] = todo[q]
    BY <1>5 DEF StartReceive, MayStart, Refuse, locks, Locking3, TypeInv, TypeOK
  <2>3. todo'[r] \subseteq lines'[r]
    BY <1>5, <2>1 DEF StartReceive, Refuse, TypeInv, TypeOK
  <2> QED
    BY <2>2, <2>3, LockBegin
<1>6. ASSUME NEW r \in Request, ClaimPurchase(r) PROVE LockInv'
  <2>1. CASE Rollback(r, "rejected")
    BY <1>0, <2>1 DEF Answered
  <2>2. CASE ~Rollback(r, "rejected")
    BY <1>6, <2>2, LockMove DEF ClaimPurchase, database, Locking3
  <2> QED
    BY <2>1, <2>2
<1>7. ASSUME NEW r \in Request, NEW l \in todo[r], CreditLine(r, l) PROVE LockInv'
  <2>1. CASE Rollback(r, "rejected")
    BY <1>0, <2>1 DEF Answered
  <2>2. CASE ~Rollback(r, "rejected")
    <3>1. /\ pc[r] = "write" /\ doc[r] \in Purchase /\ rowLock[l.component] = r
          /\ delta' = [delta EXCEPT ![r][l.component] = @ + l.qty]
          /\ todo' = [todo EXCEPT ![r] = @ \ {l}]
          /\ UNCHANGED <<rowLock, pc, doc, lines>>
      BY <1>7, <2>2 DEF CreditLine, Held, locks
    <3> QED
      BY <3>1 DEF LockInv, LocksHeld, ChangesHeld, TodoRead, DebitsHeld, TypeInv, TypeOK
  <2> QED
    BY <2>1, <2>2
<1>8. ASSUME NEW r \in Request, CommitReceive(r) PROVE LockInv'
  BY <1>8, LockFinish DEF CommitReceive, Answered
<1>9. ASSUME NEW r \in Request, NEW c \in Component, LockRow(r, c) PROVE LockInv'
  <2>1. /\ pc[r] = "rows" /\ rowLock[c] = None
        /\ \E t \in {r, None} : rowLock' = [rowLock EXCEPT ![c] = t]
        /\ UNCHANGED <<pc, doc, lines, todo, delta>>
    BY <1>9 DEF LockRow
  <2> QED
    BY <2>1 DEF LockInv, LocksHeld, ChangesHeld, TodoRead, DebitsHeld, Locking3, TypeInv, TypeOK
<1>10. ASSUME NEW r \in Request, AllRowsLocked(r) PROVE LockInv'
  <2>1. PICK label \in Locking3 :
          pc' = [pc EXCEPT ![r] = label] /\ (label = "write" => doc[r] \notin Order)
    BY <1>10 DEF AllRowsLocked, Locking3
  <2> QED
    BY <1>10, <2>1, LockMove DEF AllRowsLocked, database, locks
<1>11. ASSUME NEW r \in Request, DeadlockVictim(r) \/ Abort(r) PROVE LockInv'
  BY <1>0, <1>11 DEF DeadlockVictim, Abort, Answered
<1>12. ASSUME NEW r \in Request, Edit(r) PROVE LockInv'
  <2>1. MayStart(r)
    BY <1>12 DEF Edit, EditStock, RemoveComponent, CreateBomItem, UpdateBomItem, RemoveBomItem,
       EditOrder, EditPurchase
  <2>2. PICK answer \in {"edited", "reopened"}, d \in Order \cup Purchase \cup {None} :
          Edited(r, answer, d)
    BY <1>12 DEF Edit, EditStock, RemoveComponent, CreateBomItem, UpdateBomItem, RemoveBomItem,
       EditOrder, EditPurchase
  <2>3. todo[r] \subseteq lines[r]
    BY DEF LockInv, TodoRead
  <2> QED
    BY <2>1, <2>2, <2>3, LockBegin DEF Edited, MayStart, locks, Locking3, TypeInv, TypeOK
<1>13. CASE UNCHANGED vars
  BY <1>13 DEF vars, database, locks, calls, LockInv, LocksHeld, ChangesHeld, TodoRead, DebitsHeld
<1> QED
  BY <1>1, <1>2, <1>3, <1>4, <1>5, <1>6, <1>7, <1>8, <1>9, <1>10, <1>11, <1>12, <1>13
  DEF Next, Consumption, Reception, Locking

LEMMA LockInvInit == Init => LockInv
  BY ComponentsAssumption
  DEF Init, LockInv, LocksHeld, ChangesHeld, TodoRead, DebitsHeld, NoChange

-----------------------------------------------------------------------------
(* No component goes below zero while a bill names each component once.    *)

OneLinePerComponent ==
  \A l, m \in bom : l.product = m.product /\ l.component = m.component => l = m

\* The same of the lines a consumption has read.
OneLineEach ==
  \A r \in Request : pc[r] \in Locking3 /\ doc[r] \in Order =>
    \A l, m \in lines[r] : l.component = m.component => l = m

\* A debit left to do finds its component untouched and sufficient.
Affordable ==
  \A r \in Request : pc[r] = "write" /\ doc[r] \in Order =>
    \A l \in todo[r] :
      delta[r][l.component] = 0 /\ stock[l.component] >= Needed(doc[r], l)

\* What a transaction would commit now is not negative.
Solvent ==
  \A r \in Request : pc[r] = "write" =>
    \A c \in Component : stock[c] + delta[r][c] >= 0

StockInv == OneLineEach /\ Affordable /\ Solvent /\ NonNegativeStock

\* A step of r that writes stock only where r has the row, or where nobody has.
LEMMA StockOthers ==
  ASSUME TypeInv, TypeInv', LockInv, StockInv, NEW r \in Request,
         \A c \in Component : stock'[c] = stock[c] \/ (rowLock[c] \in {r, None} /\ stock'[c] >= 0),
         \A q \in Request \ {r} : /\ pc'[q] = pc[q] /\ doc'[q] = doc[q] /\ delta'[q] = delta[q]
                                /\ lines'[q] = lines[q] /\ todo'[q] = todo[q],
         pc'[r] \notin Locking3
  PROVE  StockInv'
<1> USE ComponentsAssumption
<1>1. NonNegativeStock'
  BY DEF StockInv, NonNegativeStock
<1>2. OneLineEach'
  BY DEF StockInv, OneLineEach
<1>3. ASSUME NEW q \in Request, pc'[q] = "write", doc'[q] \in Order, NEW l \in todo'[q]
      PROVE  delta'[q][l.component] = 0 /\ stock'[l.component] >= Needed(doc'[q], l)
  <2>1. q # r /\ pc[q] = "write" /\ doc[q] \in Order /\ l \in todo[q] /\ l.component \in Component
    BY <1>3, LineComponent DEF Locking3, TypeInv, TypeOK
  <2>2. rowLock[l.component] = q
    BY <2>1 DEF LockInv, DebitsHeld
  <2>3. stock'[l.component] = stock[l.component]
    BY <2>1, <2>2
  <2> QED
    BY <2>1, <2>3 DEF StockInv, Affordable, Needed
<1>4. ASSUME NEW q \in Request, pc'[q] = "write", NEW c \in Component
      PROVE  stock'[c] + delta'[q][c] >= 0
  <2>1. q # r /\ pc[q] = "write" /\ delta'[q] = delta[q]
    BY <1>4 DEF Locking3
  <2>2. stock[c] + delta[q][c] >= 0
    BY <2>1 DEF StockInv, Solvent
  <2>3. CASE stock'[c] = stock[c]
    BY <2>1, <2>2, <2>3
  <2>4. CASE rowLock[c] \in {r, None} /\ stock'[c] >= 0
    <3>1. delta[q][c] = 0
      BY <2>1, <2>4 DEF LockInv, ChangesHeld
    <3> QED
      BY <2>1, <2>4, <3>1 DEF TypeInv, TypeOK
  <2> QED
    BY <2>3, <2>4
<1> QED
  BY <1>1, <1>2, <1>3, <1>4 DEF StockInv, Affordable, Solvent

\* A call that moves on, or begins, with no stock, change or line touched.
LEMMA StockQuiet ==
  ASSUME TypeInv, StockInv, UNCHANGED <<stock, delta>>,
         \A q \in Request :
           /\ pc'[q] = "write" => pc[q] = "write" \/ (doc'[q] \notin Order /\ delta[q] = NoChange)
           /\ pc'[q] \in Locking3 /\ doc'[q] \in Order =>
                /\ pc[q] \in Locking3 /\ doc'[q] = doc[q]
                /\ lines'[q] = lines[q] /\ todo'[q] = todo[q]
  PROVE  StockInv'
<1>1. NonNegativeStock' /\ OneLineEach'
  BY DEF StockInv, NonNegativeStock, OneLineEach
<1>2. Affordable'
  <2> SUFFICES ASSUME NEW q \in Request, pc'[q] = "write", doc'[q] \in Order, NEW l \in todo'[q]
               PROVE  delta'[q][l.component] = 0 /\ stock'[l.component] >= Needed(doc'[q], l)
    BY DEF Affordable
  <2>1. pc[q] = "write" /\ doc'[q] = doc[q] /\ todo'[q] = todo[q]
    BY DEF Locking3
  <2> QED
    BY <2>1 DEF StockInv, Affordable, Needed
<1>3. Solvent'
  <2> SUFFICES ASSUME NEW q \in Request, pc'[q] = "write", NEW c \in Component
               PROVE  stock[c] + delta[q][c] >= 0
    BY DEF Solvent
  <2>1. CASE pc[q] = "write"
    BY <2>1 DEF StockInv, Solvent
  <2>2. CASE delta[q] = NoChange
    BY <2>2 DEF StockInv, NonNegativeStock, NoChange, TypeInv, TypeOK
  <2> QED
    BY <2>1, <2>2
<1> QED
  BY <1>1, <1>2, <1>3 DEF StockInv

LEMMA StockCommit ==
  ASSUME TypeInv, TypeInv', LockInv, StockInv, NEW r \in Request, pc[r] = "write",
         stock' = Apply(r), Finish(r, "ok"), UNCHANGED lines
  PROVE  StockInv'
<1>1. ASSUME NEW c \in Component
      PROVE  stock'[c] = stock[c] \/ (rowLock[c] \in {r, None} /\ stock'[c] >= 0)
  <2>1. stock'[c] = stock[c] + delta[r][c] /\ stock'[c] >= 0
    BY DEF Apply, StockInv, Solvent
  <2>2. CASE delta[r][c] = 0
    BY <2>1, <2>2 DEF TypeInv, TypeOK
  <2>3. CASE delta[r][c] # 0
    BY <2>1, <2>3 DEF LockInv, ChangesHeld
  <2> QED
    BY <2>2, <2>3
<1>2. pc'[r] \notin Locking3
  BY DEF Finish, Locking3, TypeInv, TypeOK
<1>3. \A q \in Request \ {r} : /\ pc'[q] = pc[q] /\ doc'[q] = doc[q] /\ delta'[q] = delta[q]
                            /\ lines'[q] = lines[q] /\ todo'[q] = todo[q]
  BY DEF Finish, TypeInv, TypeOK
<1> QED
  BY <1>1, <1>2, <1>3, StockOthers

LEMMA StockRollback ==
  ASSUME TypeInv, TypeInv', LockInv, StockInv, NEW r \in Request, NEW answer \in Answered,
         Rollback(r, answer)
  PROVE  StockInv'
<1>1. pc'[r] \notin Locking3 /\ stock' = stock
  BY DEF Rollback, Finish, database, Answered, Locking3, TypeInv, TypeOK
<1>2. \A q \in Request \ {r} : /\ pc'[q] = pc[q] /\ doc'[q] = doc[q] /\ delta'[q] = delta[q]
                            /\ lines'[q] = lines[q] /\ todo'[q] = todo[q]
  BY DEF Rollback, Finish, TypeInv, TypeOK
<1> QED
  BY <1>1, <1>2, StockOthers

LEMMA StockStep ==
  TypeInv /\ LockInv /\ StockInv /\ OneLinePerComponent /\ [Next]_vars => StockInv'
<1> SUFFICES ASSUME TypeInv, LockInv, StockInv, OneLinePerComponent, [Next]_vars
             PROVE  StockInv'
  OBVIOUS
<1> USE ComponentsAssumption
<1>a. TypeInv'
  BY TypeInvStep
<1>b. \A q \in Request : pc[q] # "write" => delta[q] = NoChange
  BY DEF LockInv, ChangesHeld, NoChange, TypeInv, TypeOK
<1>0. ASSUME NEW r \in Request, NEW answer \in Answered, Rollback(r, answer) PROVE StockInv'
  BY <1>0, <1>a, StockRollback
<1>1. ASSUME NEW r \in Request, NEW o \in Order, StartConsume(r, o) PROVE StockInv'
  <2>1. CASE Refuse(r, o)
    BY <2>1, StockQuiet DEF Refuse, database, Locking3, TypeInv, TypeOK
  <2>2. CASE ~Refuse(r, o)
    <3>1. /\ pc' = [pc EXCEPT ![r] = "rows"]
          /\ doc' = [doc EXCEPT ![r] = o]
          /\ lines' = [lines EXCEPT ![r] = BomOf(o)]
          /\ todo' = [todo EXCEPT ![r] = BomOf(o)]
          /\ UNCHANGED <<stock, delta>>
      BY <1>1, <2>2 DEF StartConsume, database
    <3>2. \A l, m \in BomOf(o) : l.component = m.component => l = m
      BY DEF OneLinePerComponent, BomOf
    <3>3. OneLineEach'
      BY <3>1, <3>2 DEF StockInv, OneLineEach, TypeInv, TypeOK
    <3>4. NonNegativeStock' /\ Solvent'
      BY <3>1 DEF StockInv, NonNegativeStock, Solvent, TypeInv, TypeOK
    <3>5. Affordable'
      BY <3>1 DEF StockInv, Affordable, Needed, TypeInv, TypeOK
    <3> QED
      BY <3>3, <3>4, <3>5 DEF StockInv
  <2> QED
    BY <2>1, <2>2
<1>2. ASSUME NEW r \in Request, CheckShortages(r) PROVE StockInv'
  <2>1. CASE Rollback(r, "rejected")
    BY <1>0, <2>1 DEF Answered
  <2>2. CASE ~Rollback(r, "rejected")
    <3>1. /\ \A l \in lines[r] : stock[l.component] >= Needed(doc[r], l)
          /\ pc[r] = "check" /\ pc' = [pc EXCEPT ![r] = "write"]
          /\ UNCHANGED <<stock, delta, doc, lines, todo>>
      BY <1>2, <2>2 DEF CheckShortages, EnoughFor, database
    <3>2. OneLineEach' /\ NonNegativeStock'
      BY <3>1 DEF StockInv, OneLineEach, NonNegativeStock, Locking3, TypeInv, TypeOK
    <3>3. Solvent'
      BY <1>b, <3>1 DEF StockInv, Solvent, NonNegativeStock, NoChange, TypeInv, TypeOK
    <3>4. ASSUME NEW q \in Request, pc'[q] = "write", doc'[q] \in Order, NEW l \in todo'[q]
          PROVE  delta'[q][l.component] = 0 /\ stock'[l.component] >= Needed(doc'[q], l)
      <4>1. l \in todo[q] /\ doc[q] \in Order /\ l.component \in Component
        BY <3>1, <3>4, LineComponent DEF TypeInv, TypeOK
      <4>2. CASE q = r
        BY <1>b, <3>1, <4>1, <4>2 DEF LockInv, TodoRead, NoChange, Needed
      <4>3. CASE q # r
        BY <3>1, <3>4, <4>1, <4>3 DEF StockInv, Affordable, Needed, TypeInv, TypeOK
      <4> QED
        BY <4>2, <4>3
    <3> QED
      BY <3>2, <3>3, <3>4 DEF StockInv, Affordable
  <2> QED
    BY <2>1, <2>2
<1>3. ASSUME NEW r \in Request, NEW l \in todo[r], DebitLine(r, l) PROVE StockInv'
  <2> DEFINE k == l.component
             n == Needed(doc[r], l)
  <2>1. pc[r] = "write" /\ doc[r] \in Order /\ l \in Line /\ k \in Component /\ l \in lines[r]
    BY <1>3, LineComponent DEF DebitLine, LockInv, TodoRead, TypeInv, TypeOK
  <2>2. n \in Nat /\ delta[r][k] = 0 /\ stock[k] >= n /\ stock[k] \in Int
    BY <2>1, NeededIsNat DEF StockInv, Affordable, TypeInv, TypeOK
  <2>3. /\ delta' = [delta EXCEPT ![r][k] = 0 - n]
        /\ todo' = [todo EXCEPT ![r] = @ \ {l}]
        /\ UNCHANGED <<stock, pc, doc, lines>>
    BY <1>3, <2>2 DEF DebitLine, database
  <2> HIDE DEF k, n
  <2>4. OneLineEach' /\ NonNegativeStock'
    BY <2>3 DEF StockInv, OneLineEach, NonNegativeStock
  <2>5. Solvent'
    BY <2>1, <2>2, <2>3 DEF StockInv, Solvent, TypeInv, TypeOK
  <2>6. ASSUME NEW q \in Request, pc'[q] = "write", doc'[q] \in Order, NEW m \in todo'[q]
        PROVE  delta'[q][m.component] = 0 /\ stock'[m.component] >= Needed(doc'[q], m)
    <3>1. /\ pc[q] = "write" /\ doc[q] \in Order /\ m \in todo[q] /\ m.component \in Component
          /\ m \in lines[q] /\ (q = r => m # l)
      BY <2>3, <2>6, LineComponent DEF LockInv, TodoRead, TypeInv, TypeOK
    <3>2. delta[q][m.component] = 0 /\ stock[m.component] >= Needed(doc[q], m)
      BY <3>1 DEF StockInv, Affordable
    <3>3. q = r => m.component # k
      BY <2>1, <3>1 DEF StockInv, OneLineEach, Locking3, k
    <3>4. delta'[q][m.component] = delta[q][m.component]
      BY <2>1, <2>3, <3>1, <3>3 DEF TypeInv, TypeOK
    <3> QED
      BY <2>3, <3>2, <3>4 DEF Needed
  <2> QED
    BY <2>4, <2>5, <2>6 DEF StockInv, Affordable
<1>4. ASSUME NEW r \in Request, CommitConsume(r) \/ CommitReceive(r) PROVE StockInv'
  BY <1>4, <1>a, StockCommit DEF CommitConsume, CommitReceive
<1>5. ASSUME NEW r \in Request, NEW p \in Purchase, StartReceive(r, p) PROVE StockInv'
  BY <1>5, StockQuiet DEF StartReceive, Refuse, database, Locking3, TypeInv, TypeOK
<1>6. ASSUME NEW r \in Request, ClaimPurchase(r) PROVE StockInv'
  <2>1. CASE Rollback(r, "rejected")
    BY <1>0, <2>1 DEF Answered
  <2>2. CASE ~Rollback(r, "rejected")
    <3>1. doc[r] \in Purchase
      BY <1>6 DEF ClaimPurchase, TypeInv, DocKnown
    <3> QED
      BY <1>6, <2>2, <3>1, StockQuiet DEF ClaimPurchase, database, Locking3, TypeInv, TypeOK
  <2> QED
    BY <2>1, <2>2
<1>7. ASSUME NEW r \in Request, NEW l \in todo[r], CreditLine(r, l) PROVE StockInv'
  <2>1. CASE Rollback(r, "rejected")
    BY <1>0, <2>1 DEF Answered
  <2>2. CASE ~Rollback(r, "rejected")
    <3> DEFINE k == l.component
               n == l.qty
    <3>1. k \in Component /\ n \in Nat /\ delta[r][k] \in Int /\ stock[k] \in Int
      BY LineComponent DEF TypeInv, TypeOK
    <3>2. /\ pc[r] = "write" /\ doc[r] \in Purchase
          /\ delta' = [delta EXCEPT ![r][k] = delta[r][k] + n]
          /\ todo' = [todo EXCEPT ![r] = @ \ {l}]
          /\ UNCHANGED <<stock, pc, doc, lines>>
      BY <1>7, <2>2 DEF CreditLine, database
    <3> HIDE DEF k, n
    <3>3. OneLineEach' /\ NonNegativeStock'
      BY <3>2 DEF StockInv, OneLineEach, NonNegativeStock
    <3>4. Solvent'
      BY <3>1, <3>2 DEF StockInv, Solvent, TypeInv, TypeOK
    <3>5. Affordable'
      BY <3>2 DEF StockInv, Affordable, Needed, TypeInv, TypeOK
    <3> QED
      BY <3>3, <3>4, <3>5 DEF StockInv
  <2> QED
    BY <2>1, <2>2
<1>8. ASSUME NEW r \in Request, NEW c \in Component, LockRow(r, c) PROVE StockInv'
  BY <1>8, StockQuiet DEF LockRow, database
<1>9. ASSUME NEW r \in Request, AllRowsLocked(r) PROVE StockInv'
  BY <1>9, <1>b, StockQuiet DEF AllRowsLocked, database, locks, Locking3, TypeInv, TypeOK
<1>10. ASSUME NEW r \in Request, DeadlockVictim(r) \/ Abort(r) PROVE StockInv'
  BY <1>0, <1>10 DEF DeadlockVictim, Abort, Answered
<1>11. ASSUME NEW r \in Request, Edit(r) PROVE StockInv'
  <2>1. PICK answer \in {"edited", "reopened"}, d \in Order \cup Purchase \cup {None} :
          Edited(r, answer, d)
    BY <1>11 DEF Edit, EditStock, RemoveComponent, CreateBomItem, UpdateBomItem, RemoveBomItem,
       EditOrder, EditPurchase
  <2>2. \A c \in Component : stock'[c] = stock[c] \/ (rowLock[c] = None /\ stock'[c] >= 0)
    BY <1>11 DEF Edit, EditStock, RemoveComponent, CreateBomItem, UpdateBomItem, RemoveBomItem,
       EditOrder, EditPurchase, TypeInv, TypeOK
  <2>3. /\ pc'[r] \notin Locking3
        /\ \A q \in Request \ {r} : /\ pc'[q] = pc[q] /\ doc'[q] = doc[q] /\ delta'[q] = delta[q]
                                 /\ lines'[q] = lines[q] /\ todo'[q] = todo[q]
    BY <2>1 DEF Edited, Locking3, TypeInv, TypeOK
  <2> QED
    BY <1>a, <2>2, <2>3, StockOthers
<1>12. CASE UNCHANGED vars
  BY <1>12, StockQuiet DEF vars, database, locks, calls
<1> QED
  BY <1>1, <1>2, <1>3, <1>4, <1>5, <1>6, <1>7, <1>8, <1>9, <1>10, <1>11, <1>12
  DEF Next, Consumption, Reception, Locking

\* Under the row locks no interleaving of consumptions, receptions and edits takes
\* a component below zero, as long as no bill of materials names one twice.
THEOREM StockNeverNegative == Spec /\ []OneLinePerComponent => []NonNegativeStock
<1>1. Init => StockInv
  BY ComponentsAssumption
  DEF Init, StockInv, OneLineEach, Affordable, Solvent, NonNegativeStock, Locking3, NoChange
<1>2. StockInv => NonNegativeStock
  BY DEF StockInv
<1>3. Spec => []LockInv
  BY LockInvInit, LockStep, TypeInvAlways, PTL DEF Spec
<1> QED
  BY <1>1, <1>2, <1>3, TypeInvAlways, StockStep, PTL DEF Spec

-----------------------------------------------------------------------------
(* How often a document moves the stock: the calls that are answered, for   *)
(* a finite number of calls.                                               *)

Answer(label, d) == {r \in Request : pc[r] = label /\ doc[r] = d}

-----------------------------------------------------------------------------
(* Receptions, whatever overlaps.                                          *)

\* What a step may do to purchase order p: receive it, when it closes it, or
\* else leave its receptions alone; it opens again with one more reopening.
ReceivesOnce(p) ==
  \/ /\ Answer("ok", p)' = Answer("ok", p)
     /\ \/ /\ Answer("reopened", p)' = Answer("reopened", p)
           /\ StillOpen(p)' => StillOpen(p)
        \/ \E r \in Request \ Answer("reopened", p) :
             Answer("reopened", p)' = Answer("reopened", p) \cup {r}
  \/ /\ StillOpen(p) /\ ~StillOpen(p)'
     /\ Answer("reopened", p)' = Answer("reopened", p)
     /\ \E r \in Request \ Answer("ok", p) : Answer("ok", p)' = Answer("ok", p) \cup {r}

\* A step that answers nothing with success or a reopening.
LEMMA ReceivesQuiet ==
  ASSUME NEW p \in Purchase, UNCHANGED purchaseStatus,
         \A q \in Request, label \in {"ok", "reopened"} :
           (pc'[q] = label /\ doc'[q] = p) <=> (pc[q] = label /\ doc[q] = p)
  PROVE  ReceivesOnce(p)
  BY DEF ReceivesOnce, Answer, StillOpen

LEMMA ReceivesRollback ==
  ASSUME TypeInv, NEW p \in Purchase, NEW r \in Request, pc[r] \in Running,
         NEW answer \in {"rejected", "aborted"}, Rollback(r, answer)
  PROVE  ReceivesOnce(p)
<1>1. UNCHANGED <<purchaseStatus, doc>> /\ pc' = [pc EXCEPT ![r] = answer]
  BY DEF Rollback, Finish, database
<1> QED
  BY <1>1, ReceivesQuiet DEF Running, TypeInv, TypeOK

\* A call in progress moves on.
LEMMA ReceivesMove ==
  ASSUME TypeInv, NEW p \in Purchase, NEW r \in Request, pc[r] \in Running,
         NEW label \in Running, pc' = [pc EXCEPT ![r] = label], UNCHANGED <<purchaseStatus, doc>>
  PROVE  ReceivesOnce(p)
  BY ReceivesQuiet DEF Running, TypeInv, TypeOK

\* A new call begins, is refused or edits something else.
LEMMA ReceivesNew ==
  ASSUME TypeInv, NEW p \in Purchase, NEW r \in Request, pc[r] = "new",
         NEW label \in Running \cup {"rejected", "edited"}, NEW d \in Order \cup Purchase \cup {None},
         pc' = [pc EXCEPT ![r] = label], doc' = [doc EXCEPT ![r] = d],
         UNCHANGED purchaseStatus
  PROVE  ReceivesOnce(p)
  BY ReceivesQuiet DEF Running, TypeInv, TypeOK

LEMMA CommitReceives ==
  ASSUME TypeInv, ClaimHeld, NEW p \in Purchase, NEW r \in Request, CommitReceive(r)
  PROVE  ReceivesOnce(p)
<1>1. /\ pc[r] = "write" /\ doc[r] \in Purchase /\ StillOpen(doc[r])
      /\ purchaseStatus' = [purchaseStatus EXCEPT ![doc[r]] = "RECEIVED"]
      /\ pc' = [pc EXCEPT ![r] = "ok"] /\ UNCHANGED doc
  BY DEF CommitReceive, Finish, ClaimHeld, StillOpen
<1>2. Answer("reopened", p)' = Answer("reopened", p)
  BY <1>1 DEF Answer, TypeInv, TypeOK
<1>3. CASE doc[r] = p
  <2>1. Answer("ok", p)' = Answer("ok", p) \cup {r} /\ r \notin Answer("ok", p)
    BY <1>1, <1>3 DEF Answer, TypeInv, TypeOK
  <2>2. StillOpen(p) /\ ~StillOpen(p)'
    BY <1>1, <1>3 DEF StillOpen, TypeInv, TypeOK
  <2> QED
    BY <1>2, <2>1, <2>2 DEF ReceivesOnce
<1>4. CASE doc[r] # p
  <2>1. Answer("ok", p)' = Answer("ok", p)
    BY <1>1, <1>4 DEF Answer, TypeInv, TypeOK
  <2>2. StillOpen(p)' => StillOpen(p)
    BY <1>1, <1>4 DEF StillOpen, TypeInv, TypeOK
  <2> QED
    BY <1>2, <2>1, <2>2 DEF ReceivesOnce
<1> QED
  BY <1>3, <1>4

LEMMA EditReceives ==
  ASSUME TypeInv, NEW p \in Purchase, NEW r \in Request, NEW e \in Purchase, EditPurchase(r, e)
  PROVE  ReceivesOnce(p)
<1>1. PICK s \in PurchaseStatus :
        /\ purchaseStatus' = [purchaseStatus EXCEPT ![e] = s]
        /\ Edited(r, IF purchaseStatus[e] # "OPEN" /\ s = "OPEN"
                     THEN "reopened" ELSE "edited", e)
  BY ComponentsAssumption DEF EditPurchase
<1>2. pc[r] = "new"
  BY DEF EditPurchase, MayStart
<1>3. Answer("ok", p)' = Answer("ok", p)
  BY <1>1, <1>2 DEF Edited, Answer, TypeInv, TypeOK
<1>4. CASE e = p /\ purchaseStatus[e] # "OPEN" /\ s = "OPEN"
  <2>1. Answer("reopened", p)' = Answer("reopened", p) \cup {r} /\ r \notin Answer("reopened", p)
    BY <1>1, <1>2, <1>4 DEF Edited, Answer, TypeInv, TypeOK
  <2> QED
    BY <1>3, <2>1 DEF ReceivesOnce
<1>5. CASE ~(e = p /\ purchaseStatus[e] # "OPEN" /\ s = "OPEN")
  <2>1. Answer("reopened", p)' = Answer("reopened", p)
    BY <1>1, <1>2, <1>5 DEF Edited, Answer, TypeInv, TypeOK
  <2>2. StillOpen(p)' => StillOpen(p)
    BY <1>1, <1>5 DEF StillOpen, TypeInv, TypeOK
  <2> QED
    BY <1>3, <2>1, <2>2 DEF ReceivesOnce
<1> QED
  BY <1>4, <1>5

LEMMA ReceivesStep ==
  ASSUME TypeInv, ClaimHeld, [Next]_vars, NEW p \in Purchase
  PROVE  ReceivesOnce(p)
<1> USE ComponentsAssumption
<1>0. ASSUME NEW r \in Request, NEW answer \in {"rejected", "aborted"}, pc[r] \in Running,
             Rollback(r, answer)
      PROVE  ReceivesOnce(p)
  BY <1>0, ReceivesRollback
<1>1. ASSUME NEW r \in Request, NEW d \in Order \cup Purchase, MayStart(r), Refuse(r, d)
      PROVE  ReceivesOnce(p)
  BY <1>1, ReceivesNew DEF MayStart, Refuse, database
<1>2. ASSUME NEW r \in Request, NEW o \in Order, StartConsume(r, o) PROVE ReceivesOnce(p)
  BY <1>1, <1>2, ReceivesNew DEF StartConsume, MayStart, database, Running
<1>3. ASSUME NEW r \in Request, NEW e \in Purchase, StartReceive(r, e) PROVE ReceivesOnce(p)
  BY <1>1, <1>3, ReceivesNew DEF StartReceive, MayStart, database, Running
<1>4. ASSUME NEW r \in Request, NEW c \in Component, LockRow(r, c)
      PROVE ReceivesOnce(p)
  BY <1>4, ReceivesQuiet DEF LockRow, database
<1>5. ASSUME NEW r \in Request, AllRowsLocked(r) PROVE ReceivesOnce(p)
  BY <1>5, ReceivesMove DEF AllRowsLocked, database, Running
<1>6. ASSUME NEW r \in Request, CheckShortages(r) PROVE ReceivesOnce(p)
  BY <1>0, <1>6, ReceivesMove DEF CheckShortages, database, Running
<1>7. ASSUME NEW r \in Request, ClaimPurchase(r) PROVE ReceivesOnce(p)
  BY <1>0, <1>7, ReceivesMove DEF ClaimPurchase, database, Running
<1>8. ASSUME NEW r \in Request, NEW l \in todo[r], DebitLine(r, l) \/ CreditLine(r, l)
      PROVE  ReceivesOnce(p)
  BY <1>0, <1>8, ReceivesQuiet DEF DebitLine, CreditLine, database, Running
<1>9. ASSUME NEW r \in Request, CommitConsume(r) PROVE ReceivesOnce(p)
  <2>1. /\ pc[r] = "write" /\ doc[r] \in Order /\ pc' = [pc EXCEPT ![r] = "ok"]
        /\ UNCHANGED <<purchaseStatus, doc>>
    BY <1>9 DEF CommitConsume, Finish
  <2>2. doc[r] # p
    BY <2>1
  <2> QED
    BY <2>1, <2>2, ReceivesQuiet DEF TypeInv, TypeOK
<1>10. ASSUME NEW r \in Request, CommitReceive(r) PROVE ReceivesOnce(p)
  BY <1>10, CommitReceives
<1>11. ASSUME NEW r \in Request, DeadlockVictim(r) \/ Abort(r) PROVE ReceivesOnce(p)
  BY <1>0, <1>11 DEF DeadlockVictim, Abort, Running
<1>12. ASSUME NEW r \in Request, Edit(r) PROVE ReceivesOnce(p)
  <2>1. CASE \E e \in Purchase : EditPurchase(r, e)
    BY <2>1, EditReceives
  <2>2. CASE ~\E e \in Purchase : EditPurchase(r, e)
    <3>1. PICK d \in Order \cup {None} :
            pc[r] = "new" /\ Edited(r, "edited", d) /\ UNCHANGED purchaseStatus
      BY <1>12, <2>2 DEF Edit, EditStock, RemoveComponent, CreateBomItem, UpdateBomItem,
         RemoveBomItem, EditOrder, MayStart
    <3> QED
      BY <3>1, ReceivesNew DEF Edited
  <2> QED
    BY <2>1, <2>2
<1>13. CASE UNCHANGED vars
  BY <1>13, ReceivesQuiet DEF vars, database, calls
<1> QED
  BY <1>2, <1>3, <1>4, <1>5, <1>6, <1>7, <1>8, <1>9, <1>10, <1>11, <1>12, <1>13
  DEF Next, Consumption, Reception, Locking

\* An open purchase order has spent no more receptions than it has reopenings.
OpeningSpent ==
  \A p \in Purchase :
    Cardinality(Answer("ok", p))
      <= Cardinality(Answer("reopened", p)) + (IF StillOpen(p) THEN 0 ELSE 1)

LEMMA AnswersCount ==
  ASSUME IsFiniteSet(Request), NEW label, NEW d
  PROVE  /\ IsFiniteSet(Answer(label, d)) /\ Cardinality(Answer(label, d)) \in Nat
         /\ \A r \in Request \ Answer(label, d) :
              Cardinality(Answer(label, d) \cup {r}) = Cardinality(Answer(label, d)) + 1
<1>1. IsFiniteSet(Answer(label, d))
  BY FS_Subset DEF Answer
<1> QED
  BY <1>1, FS_CardinalityType, FS_AddElement

LEMMA OpeningSpentStep ==
  ASSUME IsFiniteSet(Request), TypeInv, ClaimHeld, OpeningSpent, [Next]_vars
  PROVE  OpeningSpent'
<1> SUFFICES ASSUME NEW p \in Purchase
             PROVE  Cardinality(Answer("ok", p)') <=
                      Cardinality(Answer("reopened", p)') + (IF StillOpen(p)' THEN 0 ELSE 1)
  BY DEF OpeningSpent
<1>1. ReceivesOnce(p)
  BY ReceivesStep
<1>2. Cardinality(Answer("ok", p)) <=
        Cardinality(Answer("reopened", p)) + (IF StillOpen(p) THEN 0 ELSE 1)
  BY DEF OpeningSpent
<1>3. /\ Cardinality(Answer("ok", p)) \in Nat
      /\ Cardinality(Answer("reopened", p)) \in Nat
      /\ \A r \in Request \ Answer("ok", p) :
           Cardinality(Answer("ok", p) \cup {r}) = Cardinality(Answer("ok", p)) + 1
      /\ \A r \in Request \ Answer("reopened", p) :
           Cardinality(Answer("reopened", p) \cup {r}) = Cardinality(Answer("reopened", p)) + 1
  BY AnswersCount
<1> QED
  BY <1>1, <1>2, <1>3 DEF ReceivesOnce

\* Whatever calls overlap, a purchase order is received at most once for each time
\* it was open: the claim of markReceived takes it only while it is.
THEOREM ReceivedOnce ==
  ASSUME IsFiniteSet(Request)
  PROVE  Spec => []ReceivedAtMostOncePerOpening
<1>1. Init => ClaimHeld
  BY DEF Init, ClaimHeld
<1>2. Init => OpeningSpent
  <2> SUFFICES ASSUME Init, NEW p \in Purchase
               PROVE  Cardinality(Answer("ok", p)) <=
                        Cardinality(Answer("reopened", p)) + (IF StillOpen(p) THEN 0 ELSE 1)
    BY DEF OpeningSpent
  <2>1. Answer("ok", p) = {} /\ Answer("reopened", p) = {}
    BY DEF Init, Answer
  <2> QED
    BY <2>1, FS_EmptySet
<1>3. TypeInv /\ ClaimHeld /\ OpeningSpent /\ [Next]_vars => OpeningSpent'
  BY OpeningSpentStep
<1>4. OpeningSpent => ReceivedAtMostOncePerOpening
  <2> SUFFICES ASSUME OpeningSpent, NEW p \in Purchase
               PROVE  Cardinality(Answer("ok", p)) <= 1 + Cardinality(Answer("reopened", p))
    BY DEF ReceivedAtMostOncePerOpening, Answer
  <2>1. Cardinality(Answer("ok", p)) \in Nat /\ Cardinality(Answer("reopened", p)) \in Nat
    BY AnswersCount
  <2> QED
    BY <2>1 DEF OpeningSpent
<1> QED
  BY <1>1, <1>2, <1>3, <1>4, TypeInvAlways, ClaimStep, PTL DEF Spec

-----------------------------------------------------------------------------
(* Conservation: what a movement adds to a component is the sum of its     *)
(* lines, written one by one and committed together.                       *)

FiniteBase == IsFiniteSet(Request) /\ IsFiniteSet(Line)

Mine(ls, c) == {l \in ls : l.component = c}
NeedsOf(d) == [l \in Line |-> Needed(d, l)]
QtyOf == [l \in Line |-> l.qty]

\* What lines ls of document d add to component c.
Part(d, ls, c) == IF d \in Order THEN -SumOf(NeedsOf(d), Mine(ls, c))
                                 ELSE SumOf(QtyOf, Mine(ls, c))

MovesOf(d, ls, c) == [r \in Request |-> Part(d[r], ls[r], c)]
Done(p) == {r \in Request : p[r] = "ok"}

\* A transaction has changed each component by the lines it has written.
Accounted ==
  \A r \in Request : pc[r] \in Running =>
    \A c \in Component : delta[r][c] = Part(doc[r], lines[r] \ todo[r], c)

Conserved ==
  /\ opening \in [Component -> Int]
  /\ StockConservation

LEMMA MineIsFinite ==
  ASSUME FiniteBase, NEW ls \in SUBSET Line, NEW c
  PROVE  IsFiniteSet(Mine(ls, c)) /\ Mine(ls, c) \subseteq Line
<1>1. Mine(ls, c) \subseteq Line
  BY DEF Mine
<1> QED
  BY <1>1, FS_Subset DEF FiniteBase

LEMMA TermsAreInt ==
  ASSUME NEW l \in Line
  PROVE  QtyOf[l] = l.qty /\ QtyOf[l] \in Int
  BY LineComponent DEF QtyOf

LEMMA NeedsAreInt ==
  ASSUME NEW d \in Order, NEW l \in Line
  PROVE  NeedsOf(d)[l] = Needed(d, l) /\ NeedsOf(d)[l] \in Int
  BY NeededIsNat DEF NeedsOf

LEMMA PartType ==
  ASSUME FiniteBase, NEW d, NEW ls \in SUBSET Line, NEW c
  PROVE  Part(d, ls, c) \in Int
<1>1. IsFiniteSet(Mine(ls, c)) /\ Mine(ls, c) \subseteq Line
  BY MineIsFinite
<1>2. SumOf(QtyOf, Mine(ls, c)) \in Int
  BY <1>1, TermsAreInt, SumOfType
<1>3. ASSUME d \in Order PROVE SumOf(NeedsOf(d), Mine(ls, c)) \in Int
  BY <1>1, <1>3, NeedsAreInt, SumOfType
<1> QED
  BY <1>2, <1>3 DEF Part

LEMMA PartOfNone ==
  ASSUME NEW d, NEW c
  PROVE  Part(d, {}, c) = 0
<1>1. Mine({}, c) = {}
  BY DEF Mine
<1> QED
  BY <1>1, SumOfNone DEF Part

\* One more line: it counts for its own component, and for no other.
LEMMA PartOfOneMore ==
  ASSUME FiniteBase, NEW d, NEW ls \in SUBSET Line, NEW l \in Line \ ls, NEW c
  PROVE  Part(d, ls \cup {l}, c) =
           IF l.component # c THEN Part(d, ls, c)
           ELSE IF d \in Order THEN Part(d, ls, c) - Needed(d, l)
           ELSE Part(d, ls, c) + l.qty
<1>1. CASE l.component # c
  <2>1. Mine(ls \cup {l}, c) = Mine(ls, c)
    BY <1>1 DEF Mine
  <2> QED
    BY <1>1, <2>1 DEF Part
<1>2. CASE l.component = c
  <2> DEFINE E == Mine(ls \cup {l}, c)
  <2>1. l \in E /\ E \ {l} = Mine(ls, c)
    BY <1>2 DEF Mine
  <2>2. IsFiniteSet(E) /\ E \subseteq Line
    BY MineIsFinite
  <2>3. IsFiniteSet(E \ {l}) /\ E \ {l} \subseteq Line
    BY <2>2, FS_RemoveElement
  <2>4. E = Mine(ls \cup {l}, c)
    OBVIOUS
  <2> HIDE DEF E
  <2>5. CASE d \in Order
    <3>1. SumOf(NeedsOf(d), E) = NeedsOf(d)[l] + SumOf(NeedsOf(d), E \ {l})
      BY <2>1, <2>2, <2>5, NeedsAreInt, SumOfRest
    <3>2. SumOf(NeedsOf(d), E \ {l}) \in Int
      BY <2>3, <2>5, NeedsAreInt, SumOfType
    <3>3. NeedsOf(d)[l] = Needed(d, l) /\ Needed(d, l) \in Int
      BY <2>5, NeedsAreInt
    <3>4. Part(d, ls \cup {l}, c) = -SumOf(NeedsOf(d), E)
      BY <2>4, <2>5 DEF Part
    <3>5. Part(d, ls, c) = -SumOf(NeedsOf(d), E \ {l})
      BY <2>1, <2>5 DEF Part
    <3> QED
      BY <1>2, <2>5, <3>1, <3>2, <3>3, <3>4, <3>5
  <2>6. CASE d \notin Order
    <3>1. SumOf(QtyOf, E) = QtyOf[l] + SumOf(QtyOf, E \ {l})
      BY <2>1, <2>2, TermsAreInt, SumOfRest
    <3>2. SumOf(QtyOf, E \ {l}) \in Int
      BY <2>3, TermsAreInt, SumOfType
    <3>3. QtyOf[l] = l.qty /\ l.qty \in Int
      BY TermsAreInt
    <3>4. Part(d, ls \cup {l}, c) = SumOf(QtyOf, E)
      BY <2>4, <2>6 DEF Part
    <3>5. Part(d, ls, c) = SumOf(QtyOf, E \ {l})
      BY <2>1, <2>6 DEF Part
    <3> QED
      BY <1>2, <2>6, <3>1, <3>2, <3>3, <3>4, <3>5
  <2> QED
    BY <2>5, <2>6
<1> QED
  BY <1>1, <1>2

\* The fold by which the model states a movement is that sum.
LEMMA NeedsFold ==
  ASSUME NEW d, NEW E, IsFiniteSet(E), E \subseteq Line
  PROVE  MapThenSumSet(LAMBDA l : Needed(d, l), E) = SumOf(NeedsOf(d), E)
<1> DEFINE P(k) == k = [s \in SUBSET E |->
                          IF s = {} THEN 0 ELSE Needed(d, Chosen(s)) + k[s \ {Chosen(s)}]]
<1>1. \A k : P(k) <=> SumsOf(NeedsOf(d), E, k)
  <2>1. \A s \in SUBSET E : s # {} => Chosen(s) \in Line
    BY DEF Chosen
  <2>2. \A s \in SUBSET E : s # {} => NeedsOf(d)[Chosen(s)] = Needed(d, Chosen(s))
    BY <2>1 DEF NeedsOf
  <2> QED
    BY <2>2 DEF SumsOf
<1>2. MapThenSumSet(LAMBDA l : Needed(d, l), E) = (CHOOSE k : P(k))[E]
  BY DEF MapThenSumSet, MapThenFoldSet, Chosen
<1> HIDE DEF P
<1>3. \E k : P(k)
  BY <1>1, SumsExist
<1> QED
  BY <1>1, <1>2, <1>3, SumOfIs

LEMMA QtyFold ==
  ASSUME NEW E, IsFiniteSet(E), E \subseteq Line
  PROVE  MapThenSumSet(LAMBDA l : l.qty, E) = SumOf(QtyOf, E)
<1> DEFINE P(k) == k = [s \in SUBSET E |->
                          IF s = {} THEN 0 ELSE Chosen(s).qty + k[s \ {Chosen(s)}]]
<1>1. \A k : P(k) <=> SumsOf(QtyOf, E, k)
  <2>1. \A s \in SUBSET E : s # {} => Chosen(s) \in Line
    BY DEF Chosen
  <2>2. \A s \in SUBSET E : s # {} => QtyOf[Chosen(s)] = Chosen(s).qty
    BY <2>1 DEF QtyOf
  <2> QED
    BY <2>2 DEF SumsOf
<1>2. MapThenSumSet(LAMBDA l : l.qty, E) = (CHOOSE k : P(k))[E]
  BY DEF MapThenSumSet, MapThenFoldSet, Chosen
<1> HIDE DEF P
<1>3. \E k : P(k)
  BY <1>1, SumsExist
<1> QED
  BY <1>1, <1>2, <1>3, SumOfIs

LEMMA MovementIsPart ==
  ASSUME FiniteBase, TypeOK, NEW r \in Request, NEW c
  PROVE  Movement(r, c) = Part(doc[r], lines[r], c)
<1>1. lines[r] \in SUBSET Line
  BY DEF TypeOK
<1>2. IsFiniteSet(Mine(lines[r], c)) /\ Mine(lines[r], c) \subseteq Line
  BY <1>1, MineIsFinite
<1>3. Movement(r, c) =
        IF doc[r] \in Order
        THEN -MapThenSumSet(LAMBDA l : Needed(doc[r], l), Mine(lines[r], c))
        ELSE MapThenSumSet(LAMBDA l : l.qty, Mine(lines[r], c))
  BY DEF Movement, Mine
<1>4. MapThenSumSet(LAMBDA l : Needed(doc[r], l), Mine(lines[r], c))
        = SumOf(NeedsOf(doc[r]), Mine(lines[r], c))
  BY <1>2, NeedsFold
<1>5. MapThenSumSet(LAMBDA l : l.qty, Mine(lines[r], c)) = SumOf(QtyOf, Mine(lines[r], c))
  BY <1>2, QtyFold
<1> QED
  BY <1>3, <1>4, <1>5 DEF Part

LEMMA MovedIsSum ==
  FiniteBase /\ TypeOK =>
    \A c \in Component : Moved(c) = SumOf(MovesOf(doc, lines, c), Done(pc))
<1> SUFFICES ASSUME FiniteBase, TypeOK, NEW c \in Component
             PROVE  Moved(c) = SumOf(MovesOf(doc, lines, c), Done(pc))
  OBVIOUS
<1> DEFINE E == Done(pc)
           M == MovesOf(doc, lines, c)
           P(k) == k = [s \in SUBSET E |->
                          IF s = {} THEN 0 ELSE Movement(Chosen(s), c) + k[s \ {Chosen(s)}]]
<1>1. \A k : P(k) <=> SumsOf(M, E, k)
  <2>1. \A s \in SUBSET E : s # {} => Chosen(s) \in Request
    BY DEF Chosen, Done
  <2>2. \A s \in SUBSET E : s # {} => M[Chosen(s)] = Movement(Chosen(s), c)
    BY <2>1, MovementIsPart DEF MovesOf
  <2> QED
    BY <2>2 DEF SumsOf
<1>2. Moved(c) = (CHOOSE k : P(k))[E]
  BY DEF Moved, MapThenSumSet, MapThenFoldSet, Chosen, Done
<1>3. IsFiniteSet(E)
  BY FS_Subset DEF Done, FiniteBase
<1> HIDE DEF P, E, M
<1>4. \E k : P(k)
  BY <1>1, <1>3, SumsExist
<1>5. Moved(c) = SumOf(M, E)
  BY <1>1, <1>2, <1>3, <1>4, SumOfIs
<1> QED
  BY <1>5 DEF E, M

LEMMA MovedIsSumThen ==
  (FiniteBase /\ TypeOK =>
     \A c \in Component : Moved(c) = SumOf(MovesOf(doc, lines, c), Done(pc)))'
  BY MovedIsSum, PTL

LEMMA MovesAreInt ==
  ASSUME FiniteBase, TypeOK, NEW c
  PROVE  \A r \in Request : /\ MovesOf(doc, lines, c)[r] = Part(doc[r], lines[r], c)
                            /\ MovesOf(doc, lines, c)[r] \in Int
  BY PartType DEF MovesOf, TypeOK

LEMMA DoneFinite ==
  ASSUME FiniteBase, NEW p
  PROVE  IsFiniteSet(Done(p)) /\ Done(p) \subseteq Request
  BY FS_Subset DEF FiniteBase, Done

LEMMA MovedType ==
  ASSUME FiniteBase, TypeOK, NEW c \in Component
  PROVE  Moved(c) \in Int
<1>1. IsFiniteSet(Done(pc)) /\ Done(pc) \subseteq Request
  BY DoneFinite
<1>2. SumOf(MovesOf(doc, lines, c), Done(pc)) \in Int
  BY <1>1, MovesAreInt, SumOfType
<1> QED
  BY <1>2, MovedIsSum

\* As long as no movement is answered or forgotten, they add up to the same.
LEMMA MovedSame ==
  ASSUME FiniteBase, TypeInv, TypeInv', NEW c \in Component,
         \A q \in Request : pc'[q] = "ok" <=> pc[q] = "ok",
         \A q \in Request : pc[q] = "ok" => doc'[q] = doc[q] /\ lines'[q] = lines[q]
  PROVE  Moved(c)' = Moved(c)
<1>1. Done(pc') = Done(pc)
  BY DEF Done
<1>2. IsFiniteSet(Done(pc))
  BY DoneFinite
<1>3. \A q \in Done(pc) : MovesOf(doc', lines', c)[q] = MovesOf(doc, lines, c)[q]
  BY DEF MovesOf, Done
<1>4. SumOf(MovesOf(doc', lines', c), Done(pc)) = SumOf(MovesOf(doc, lines, c), Done(pc))
  BY <1>2, <1>3, SumOfEqual
<1>5. Moved(c) = SumOf(MovesOf(doc, lines, c), Done(pc))
  BY MovedIsSum DEF TypeInv
<1>6. Moved(c)' = SumOf(MovesOf(doc', lines', c), Done(pc'))
  BY MovedIsSumThen DEF TypeInv, FiniteBase
<1> QED
  BY <1>1, <1>4, <1>5, <1>6

\* A movement that is answered adds its own part.
LEMMA MovedOneMore ==
  ASSUME FiniteBase, TypeInv, TypeInv', NEW c \in Component, NEW r \in Request, pc[r] # "ok",
         pc' = [pc EXCEPT ![r] = "ok"], UNCHANGED <<doc, lines>>
  PROVE  Moved(c)' = Part(doc[r], lines[r], c) + Moved(c)
<1> DEFINE M == MovesOf(doc, lines, c)
           D == Done(pc')
<1>1. D \ {r} = Done(pc) /\ r \in D
  BY DEF Done, TypeInv, TypeOK
<1>2. IsFiniteSet(D) /\ D \subseteq Request
  BY DoneFinite
<1>3. \A q \in Request : M[q] \in Int
  BY MovesAreInt DEF TypeInv
<1>4. M[r] = Part(doc[r], lines[r], c)
  BY MovesAreInt DEF TypeInv
<1>5. Moved(c) = SumOf(M, Done(pc))
  BY MovedIsSum DEF TypeInv
<1>6. Moved(c)' = SumOf(MovesOf(doc', lines', c), D)
  BY MovedIsSumThen DEF TypeInv, FiniteBase
<1>7. MovesOf(doc', lines', c) = M
  OBVIOUS
<1> HIDE DEF M, D
<1>8. SumOf(M, D) = M[r] + SumOf(M, D \ {r})
  BY <1>1, <1>2, <1>3, SumOfRest
<1> QED
  BY <1>1, <1>4, <1>5, <1>6, <1>7, <1>8

ConservationInv == Accounted /\ Conserved

\* A step that begins no movement, answers none and writes no line.
LEMMA ConservationQuiet ==
  ASSUME FiniteBase, TypeInv, TypeInv', ConservationInv,
         UNCHANGED <<stock, opening>>, present' \subseteq present,
         \A q \in Request : pc'[q] \in Running =>
           /\ pc[q] \in Running
           /\ doc'[q] = doc[q] /\ lines'[q] = lines[q]
           /\ todo'[q] = todo[q] /\ delta'[q] = delta[q],
         \A q \in Request : pc'[q] = "ok" <=> pc[q] = "ok",
         \A q \in Request : pc[q] = "ok" => doc'[q] = doc[q] /\ lines'[q] = lines[q]
  PROVE  ConservationInv'
<1>1. Accounted'
  <2> SUFFICES ASSUME NEW q \in Request, pc'[q] \in Running, NEW c \in Component
               PROVE  delta'[q][c] = Part(doc'[q], lines'[q] \ todo'[q], c)
    BY DEF Accounted
  <2>1. delta[q][c] = Part(doc[q], lines[q] \ todo[q], c)
    BY DEF ConservationInv, Accounted
  <2> QED
    BY <2>1
<1>2. \A c \in Component : Moved(c)' = Moved(c)
  BY MovedSame
<1>3. Conserved'
  BY <1>2 DEF ConservationInv, Conserved, StockConservation, TypeInv, TypeOK
<1> QED
  BY <1>1, <1>3 DEF ConservationInv

LEMMA ConservationRollback ==
  ASSUME FiniteBase, TypeInv, TypeInv', ConservationInv,
         NEW r \in Request, NEW answer \in {"rejected", "aborted"},
         pc[r] \in Running, Rollback(r, answer)
  PROVE  ConservationInv'
<1>1. /\ pc' = [pc EXCEPT ![r] = answer] /\ doc' = doc
      /\ lines' = [lines EXCEPT ![r] = {}] /\ todo' = [todo EXCEPT ![r] = {}]
      /\ delta' = [delta EXCEPT ![r] = NoChange]
      /\ UNCHANGED <<stock, opening, present>>
  BY DEF Rollback, Finish, database
<1>2. pc'[r] = answer /\ answer \notin Running /\ answer # "ok" /\ pc[r] # "ok"
  BY <1>1 DEF Running, TypeInv, TypeOK
<1>3. \A q \in Request \ {r} :
        /\ pc'[q] = pc[q] /\ doc'[q] = doc[q] /\ lines'[q] = lines[q]
        /\ todo'[q] = todo[q] /\ delta'[q] = delta[q]
  BY <1>1 DEF TypeInv, TypeOK
<1> QED
  BY <1>1, <1>2, <1>3, ConservationQuiet

\* A call is answered without a movement.
LEMMA ConservationNew ==
  ASSUME FiniteBase, TypeInv, TypeInv', ConservationInv,
         NEW r \in Request, pc[r] = "new", NEW label \in {"rejected", "edited", "reopened"},
         pc' = [pc EXCEPT ![r] = label], NEW d, doc' = [doc EXCEPT ![r] = d],
         UNCHANGED <<stock, opening, lines, todo, delta>>, present' \subseteq present
  PROVE  ConservationInv'
<1>1. pc'[r] = label /\ label \notin Running /\ label # "ok" /\ pc[r] # "ok"
  BY DEF Running, TypeInv, TypeOK
<1>2. \A q \in Request \ {r} : pc'[q] = pc[q] /\ doc'[q] = doc[q]
  BY DEF TypeInv, TypeOK
<1> QED
  BY <1>1, <1>2, ConservationQuiet

\* A movement begins with nothing written.
LEMMA ConservationStart ==
  ASSUME FiniteBase, TypeInv, TypeInv', LockInv, ConservationInv,
         NEW r \in Request, pc[r] = "new", NEW label \in Running,
         pc' = [pc EXCEPT ![r] = label], NEW d, doc' = [doc EXCEPT ![r] = d],
         NEW ls, lines' = [lines EXCEPT ![r] = ls], todo' = [todo EXCEPT ![r] = ls],
         UNCHANGED <<stock, opening, present, delta>>
  PROVE  ConservationInv'
<1>1. pc[r] # "ok" /\ pc'[r] = label /\ label # "ok" /\ lines'[r] = ls /\ todo'[r] = ls
  BY DEF Running, TypeInv, TypeOK
<1>2. \A q \in Request \ {r} :
        /\ pc'[q] = pc[q] /\ doc'[q] = doc[q] /\ lines'[q] = lines[q] /\ todo'[q] = todo[q]
  BY DEF TypeInv, TypeOK
<1>3. Accounted'
  <2> SUFFICES ASSUME NEW q \in Request, pc'[q] \in Running, NEW c \in Component
               PROVE  delta[q][c] = Part(doc'[q], lines'[q] \ todo'[q], c)
    BY DEF Accounted
  <2>1. CASE q = r
    <3>1. delta[r][c] = 0
      BY DEF LockInv, ChangesHeld
    <3>2. lines'[r] \ todo'[r] = {}
      BY <1>1
    <3> QED
      BY <2>1, <3>1, <3>2, PartOfNone
  <2>2. CASE q # r
    BY <1>2, <2>2 DEF ConservationInv, Accounted
  <2> QED
    BY <2>1, <2>2
<1>4. \A c \in Component : Moved(c)' = Moved(c)
  BY <1>1, <1>2, MovedSame
<1>5. Conserved'
  BY <1>4 DEF ConservationInv, Conserved, StockConservation, TypeInv, TypeOK
<1> QED
  BY <1>3, <1>5 DEF ConservationInv

\* One more line is written.
LEMMA ConservationLine ==
  ASSUME FiniteBase, TypeInv, TypeInv', LockInv, ConservationInv,
         NEW r \in Request, pc[r] = "write", NEW l \in todo[r], NEW n \in Int,
         n = IF doc[r] \in Order THEN -Needed(doc[r], l) ELSE l.qty,
         delta' = [delta EXCEPT ![r][l.component] = @ + n],
         todo' = [todo EXCEPT ![r] = @ \ {l}],
         UNCHANGED <<stock, opening, present, pc, doc, lines>>
  PROVE  ConservationInv'
<1>1. l \in Line /\ l \in lines[r] /\ lines[r] \in SUBSET Line
  BY DEF LockInv, TodoRead, TypeInv, TypeOK
<1>2. l.component \in Component /\ l.qty \in Int
  BY <1>1, LineComponent
<1>3. \A q \in Request \ {r} : delta'[q] = delta[q] /\ todo'[q] = todo[q]
  BY DEF TypeInv, TypeOK
<1>4. \A c \in Component :
        delta'[r][c] = IF c = l.component THEN delta[r][c] + n ELSE delta[r][c]
  BY <1>2 DEF TypeInv, TypeOK
<1>5. lines'[r] \ todo'[r] = (lines[r] \ todo[r]) \cup {l}
  BY <1>1 DEF TypeInv, TypeOK
<1>6. Accounted'
  <2> SUFFICES ASSUME NEW q \in Request, pc[q] \in Running, NEW c \in Component
               PROVE  delta'[q][c] = Part(doc[q], lines[q] \ todo'[q], c)
    BY DEF Accounted
  <2>1. delta[q][c] = Part(doc[q], lines[q] \ todo[q], c)
    BY DEF ConservationInv, Accounted
  <2>2. CASE q = r
    <3> DEFINE w == lines[r] \ todo[r]
    <3>1. w \in SUBSET Line /\ l \in Line \ w
      BY <1>1
    <3>2. lines[r] \ todo'[r] = w \cup {l}
      BY <1>5
    <3>a. delta[r][c] = Part(doc[r], w, c)
      BY <2>1, <2>2
    <3> HIDE DEF w
    <3>3. Part(doc[r], w \cup {l}, c) =
            IF l.component # c THEN Part(doc[r], w, c)
            ELSE IF doc[r] \in Order THEN Part(doc[r], w, c) - Needed(doc[r], l)
            ELSE Part(doc[r], w, c) + l.qty
      BY <3>1, PartOfOneMore
    <3>4. Part(doc[r], w, c) \in Int
      BY <3>1, PartType
    <3>5. doc[r] \in Order => Needed(doc[r], l) \in Int
      BY <1>1, NeedsAreInt
    <3>6. delta'[r][c] = Part(doc[r], w \cup {l}, c)
      BY <1>2, <1>4, <3>a, <3>3, <3>4, <3>5
    <3> QED
      BY <2>2, <3>2, <3>6
  <2>3. CASE q # r
    BY <1>3, <2>1, <2>3
  <2> QED
    BY <2>2, <2>3
<1>7. \A c \in Component : Moved(c)' = Moved(c)
  BY MovedSame
<1>8. Conserved'
  BY <1>7 DEF ConservationInv, Conserved, StockConservation, TypeInv, TypeOK
<1> QED
  BY <1>6, <1>8 DEF ConservationInv

\* A commit adds to every component what its lines say, all at once.
LEMMA ConservationCommit ==
  ASSUME FiniteBase, TypeInv, TypeInv', ConservationInv,
         NEW r \in Request, pc[r] = "write", todo[r] = {}, Finish(r, "ok"),
         stock' = Apply(r), UNCHANGED <<opening, present, lines>>
  PROVE  ConservationInv'
<1>1. pc' = [pc EXCEPT ![r] = "ok"] /\ doc' = doc
  BY DEF Finish
<1>2. /\ \A q \in Request \ {r} : pc'[q] = pc[q] /\ todo'[q] = todo[q] /\ delta'[q] = delta[q]
      /\ pc'[r] = "ok"
  BY DEF Finish, TypeInv, TypeOK
<1>3. Accounted'
  BY <1>1, <1>2 DEF ConservationInv, Accounted, Running
<1>4. ASSUME NEW c \in present PROVE stock'[c] = opening[c] + Moved(c)'
  <2>1. c \in Component /\ stock[c] \in Int /\ delta[r][c] \in Int
    BY DEF TypeInv, TypeOK
  <2>2. opening[c] \in Int /\ stock[c] = opening[c] + Moved(c)
    BY <2>1 DEF ConservationInv, Conserved, StockConservation
  <2>3. Moved(c)' = Part(doc[r], lines[r], c) + Moved(c)
    BY <1>1, <2>1, MovedOneMore
  <2>4. Moved(c) \in Int
    BY <2>1, MovedType DEF TypeInv
  <2>5. delta[r][c] = Part(doc[r], lines[r], c)
    <3>1. delta[r][c] = Part(doc[r], lines[r] \ todo[r], c)
      BY <2>1 DEF ConservationInv, Accounted, Running
    <3>2. lines[r] \ todo[r] = lines[r]
      OBVIOUS
    <3> QED
      BY <3>1, <3>2
  <2>6. stock'[c] = stock[c] + delta[r][c]
    BY <2>1 DEF Apply
  <2> HIDE DEF Moved
  <2> QED
    BY <2>1, <2>2, <2>3, <2>4, <2>5, <2>6
<1>5. Conserved'
  BY <1>4 DEF ConservationInv, Conserved, StockConservation
<1> QED
  BY <1>3, <1>5 DEF ConservationInv

\* A stock set by hand is what the component counts from; the rest is as it was.
LEMMA ConservationSet ==
  ASSUME FiniteBase, TypeInv, TypeInv', ConservationInv,
         NEW r \in Request, NEW c \in Component, EditStock(r, c)
  PROVE  ConservationInv'
<1> USE ComponentsAssumption
<1>1. PICK q \in StockInput : /\ stock' = [stock EXCEPT ![c] = q]
                              /\ opening' = [opening EXCEPT ![c] = q - Moved(c)]
  BY DEF EditStock
<1>2. /\ pc[r] = "new" /\ pc' = [pc EXCEPT ![r] = "edited"]
      /\ UNCHANGED <<present, lines, todo, delta>> /\ doc' = [doc EXCEPT ![r] = None]
  BY DEF EditStock, MayStart, Edited
<1>3. \A e \in Request \ {r} : pc'[e] = pc[e] /\ doc'[e] = doc[e]
  BY <1>2 DEF TypeInv, TypeOK
<1>4. pc'[r] = "edited" /\ pc[r] # "ok"
  BY <1>2 DEF TypeInv, TypeOK
<1>5. Accounted'
  <2> SUFFICES ASSUME NEW e \in Request, pc'[e] \in Running, NEW d \in Component
               PROVE  delta'[e][d] = Part(doc'[e], lines'[e] \ todo'[e], d)
    BY DEF Accounted
  <2>1. e # r
    BY <1>4 DEF Running
  <2>2. pc'[e] = pc[e] /\ doc'[e] = doc[e]
    BY <1>3, <2>1
  <2>3. delta[e][d] = Part(doc[e], lines[e] \ todo[e], d)
    BY <2>2 DEF ConservationInv, Accounted
  <2> QED
    BY <1>2, <2>2, <2>3
<1>6. \A e \in Component : Moved(e)' = Moved(e)
  BY <1>2, <1>3, <1>4, MovedSame
<1>7. \A e \in Component : Moved(e) \in Int
  BY MovedType DEF TypeInv
<1>8. q \in Int /\ opening \in [Component -> Int] /\ stock \in [Component -> Int]
  BY DEF ConservationInv, Conserved, TypeInv, TypeOK
<1>9. opening' \in [Component -> Int]
  <2>1. q - Moved(c) \in Int
    BY <1>7, <1>8
  <2> QED
    BY <1>1, <1>8, <2>1
<1>10. ASSUME NEW e \in present PROVE stock'[e] = opening'[e] + Moved(e)
  <2>1. e \in Component /\ Moved(e) \in Int
    BY <1>7 DEF TypeInv, TypeOK
  <2>2. CASE e = c
    <3>1. stock'[c] = q /\ opening'[c] = q - Moved(c)
      BY <1>1, <1>8
    <3> HIDE DEF Moved
    <3> QED
      BY <1>8, <2>1, <2>2, <3>1
  <2>3. CASE e # c
    <3>1. stock'[e] = stock[e] /\ opening'[e] = opening[e]
      BY <1>1, <1>8, <2>1, <2>3
    <3> QED
      BY <3>1 DEF ConservationInv, Conserved, StockConservation
  <2> QED
    BY <2>2, <2>3
<1>11. Conserved'
  BY <1>2, <1>6, <1>9, <1>10 DEF Conserved, StockConservation, TypeInv, TypeOK
<1> QED
  BY <1>5, <1>11 DEF ConservationInv

LEMMA ConservationStep ==
  ASSUME FiniteBase, TypeInv, TypeInv', LockInv, ConservationInv, [Next]_vars
  PROVE  ConservationInv'
<1> USE ComponentsAssumption
<1>0. ASSUME NEW r \in Request, NEW answer \in {"rejected", "aborted"}, pc[r] \in Running,
             Rollback(r, answer)
      PROVE  ConservationInv'
  BY <1>0, ConservationRollback
<1>1. ASSUME NEW r \in Request, NEW d, MayStart(r), Refuse(r, d)
      PROVE  ConservationInv'
  BY <1>1, ConservationNew DEF MayStart, Refuse, database
<1>2. ASSUME NEW r \in Request, NEW o \in Order, StartConsume(r, o) PROVE ConservationInv'
  <2>1. CASE Refuse(r, o)
    BY <1>1, <1>2, <2>1 DEF StartConsume
  <2>2. CASE ~Refuse(r, o)
    BY <1>2, <2>2, ConservationStart DEF StartConsume, MayStart, database, Running
  <2> QED
    BY <2>1, <2>2
<1>3. ASSUME NEW r \in Request, NEW p \in Purchase, StartReceive(r, p) PROVE ConservationInv'
  <2>1. CASE Refuse(r, p)
    BY <1>1, <1>3, <2>1 DEF StartReceive
  <2>2. CASE ~Refuse(r, p)
    BY <1>3, <2>2, ConservationStart DEF StartReceive, MayStart, database, Running
  <2> QED
    BY <2>1, <2>2
<1>4. ASSUME NEW r \in Request, NEW c \in Component, LockRow(r, c) PROVE ConservationInv'
  BY <1>4, ConservationQuiet DEF LockRow, database
<1>5. ASSUME NEW r \in Request, NEW label \in Running, pc[r] \in Running,
             pc' = [pc EXCEPT ![r] = label], UNCHANGED <<database, doc, lines, todo, delta>>
      PROVE  ConservationInv'
  <2>1. pc[r] # "ok" /\ pc'[r] = label /\ label # "ok"
    BY <1>5 DEF Running, TypeInv, TypeOK
  <2>2. \A q \in Request \ {r} : pc'[q] = pc[q]
    BY <1>5 DEF TypeInv, TypeOK
  <2> QED
    BY <1>5, <2>1, <2>2, ConservationQuiet DEF database
<1>6. ASSUME NEW r \in Request, AllRowsLocked(r) PROVE ConservationInv'
  BY <1>5, <1>6 DEF AllRowsLocked, Running
<1>7. ASSUME NEW r \in Request, CheckShortages(r) PROVE ConservationInv'
  BY <1>0, <1>5, <1>7 DEF CheckShortages, Running
<1>8. ASSUME NEW r \in Request, ClaimPurchase(r) PROVE ConservationInv'
  BY <1>0, <1>5, <1>8 DEF ClaimPurchase, Running
<1>9. ASSUME NEW r \in Request, NEW l \in todo[r], DebitLine(r, l) PROVE ConservationInv'
  <2>1. Needed(doc[r], l) \in Nat /\ doc[r] \in Order /\ delta[r][l.component] \in Int
    BY <1>9, NeededIsNat, LineComponent DEF DebitLine, TypeInv, TypeOK
  <2>2. delta[r][l.component] - Needed(doc[r], l) = delta[r][l.component] + (-Needed(doc[r], l))
    BY <2>1
  <2> DEFINE n == -Needed(doc[r], l)
  <2>3. delta' = [delta EXCEPT ![r][l.component] = @ + n]
    BY <1>9, <2>2 DEF DebitLine
  <2>4. n \in Int /\ n = IF doc[r] \in Order THEN -Needed(doc[r], l) ELSE l.qty
    BY <2>1
  <2>5. /\ pc[r] = "write" /\ todo' = [todo EXCEPT ![r] = @ \ {l}]
        /\ UNCHANGED <<stock, opening, present, pc, doc, lines>>
    BY <1>9 DEF DebitLine, database
  <2> HIDE DEF n
  <2> QED
    BY <1>9, <2>3, <2>4, <2>5, ConservationLine
<1>10. ASSUME NEW r \in Request, NEW l \in todo[r], CreditLine(r, l) PROVE ConservationInv'
  <2>1. CASE Rollback(r, "rejected")
    BY <1>0, <1>10, <2>1 DEF CreditLine, Running
  <2>2. CASE ~Rollback(r, "rejected")
    <3>1. l.qty \in Int /\ doc[r] \notin Order
      BY <1>10, LineComponent DEF CreditLine, TypeInv, TypeOK
    <3>2. /\ pc[r] = "write" /\ delta' = [delta EXCEPT ![r][l.component] = @ + l.qty]
          /\ todo' = [todo EXCEPT ![r] = @ \ {l}]
          /\ UNCHANGED <<stock, opening, present, pc, doc, lines>>
      BY <1>10, <2>2 DEF CreditLine, database
    <3>3. l.qty = IF doc[r] \in Order THEN -Needed(doc[r], l) ELSE l.qty
      BY <3>1
    <3> QED
      BY <1>10, <3>1, <3>2, <3>3, ConservationLine
  <2> QED
    BY <2>1, <2>2
<1>11. ASSUME NEW r \in Request, CommitConsume(r) \/ CommitReceive(r) PROVE ConservationInv'
  BY <1>11, ConservationCommit DEF CommitConsume, CommitReceive
<1>12. ASSUME NEW r \in Request, DeadlockVictim(r) \/ Abort(r) PROVE ConservationInv'
  BY <1>0, <1>12 DEF DeadlockVictim, Abort, Running
<1>13. ASSUME NEW r \in Request, Edit(r) PROVE ConservationInv'
  <2>1. CASE \E c \in Component : EditStock(r, c)
    BY <2>1, ConservationSet
  <2>2. CASE ~\E c \in Component : EditStock(r, c)
    <3>1. PICK answer \in {"edited", "reopened"}, d \in Order \cup Purchase \cup {None} :
            /\ pc[r] = "new" /\ Edited(r, answer, d)
            /\ UNCHANGED <<stock, opening>> /\ present' \subseteq present
      BY <1>13, <2>2 DEF Edit, RemoveComponent, CreateBomItem, UpdateBomItem, RemoveBomItem,
         EditOrder, EditPurchase, MayStart
    <3> QED
      BY <3>1, ConservationNew DEF Edited
  <2> QED
    BY <2>1, <2>2
<1>14. CASE UNCHANGED vars
  BY <1>14, ConservationQuiet DEF vars, database, calls
<1> QED
  BY <1>2, <1>3, <1>4, <1>6, <1>7, <1>8, <1>9, <1>10, <1>11, <1>12, <1>13, <1>14
  DEF Next, Consumption, Reception, Locking

LEMMA ConservationInit == FiniteBase /\ Init => ConservationInv
<1> SUFFICES ASSUME FiniteBase, Init PROVE ConservationInv
  OBVIOUS
<1>1. TypeOK
  BY TypeInvInit DEF TypeInv
<1>2. Done(pc) = {}
  BY DEF Init, Done
<1>3. \A c \in Component : Moved(c) = 0
  BY <1>1, <1>2, MovedIsSum, SumOfNone
<1>4. /\ stock = opening /\ opening \in [Component -> Nat] /\ present = Component
      /\ pc = [r \in Request |-> "new"]
  BY ComponentsAssumption DEF Init
<1>5. Accounted
  BY <1>4 DEF Accounted, Running
<1>6. Conserved
  BY <1>3, <1>4 DEF Conserved, StockConservation
<1> QED
  BY <1>5, <1>6 DEF ConservationInv

\* However the movements interleave with each other and with the edits, crash or
\* are aborted, the stock of a component is what it was last set to and the lines
\* of the movements answered since, each counted once.
THEOREM StockIsConserved ==
  ASSUME IsFiniteSet(Request), IsFiniteSet(Line)
  PROVE  Spec => []StockConservation
<1>1. FiniteBase
  BY DEF FiniteBase
<1>2. Init => ConservationInv
  BY <1>1, ConservationInit
<1>3. TypeInv /\ TypeInv' /\ LockInv /\ ConservationInv /\ [Next]_vars => ConservationInv'
  BY <1>1, ConservationStep
<1>4. ConservationInv => StockConservation
  BY DEF ConservationInv, Conserved
<1> QED
  BY <1>2, <1>3, <1>4, LockInvInit, LockStep, TypeInvAlways, PTL DEF Spec
=============================================================================

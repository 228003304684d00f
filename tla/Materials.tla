------------------------------ MODULE Materials ------------------------------
(***************************************************************************)
(* The component stock of the workshop and every handler that moves it:    *)
(* the consumption of a production order's materials, the reception of a   *)
(* purchase order, and the edits of components, bill-of-materials lines,   *)
(* production orders and purchase orders that run beside them.             *)
(*                                                                         *)
(* The two stock movements are Prisma interactive transactions on          *)
(* PostgreSQL at READ COMMITTED: a read sees the last committed rows, row  *)
(* locks are kept until the transaction ends, and a throw rolls back.  One *)
(* action is one database round trip; the edits are single statements.     *)
(* A Request is one HTTP call, it is answered once.                        *)
(***************************************************************************)
EXTENDS Integers, FiniteSets, FiniteSetsExt

CONSTANTS
  Component, Order, Purchase, Product,
  OrderProduct,   \* the product each production order makes
  OrderQty,       \* and how many of it
  BomLine,        \* every BOM line that can exist: [id, product, component, qty]
  PurchaseLine,   \* the lines of the purchase orders: [id, purchase, component, qty]
  InitialBom,     \* the BOM lines that exist at first
  InitialStock,   \* the stock each component starts with
  StockInput,     \* the quantities a component edit may set (dto: @Min(0))
  OrderInput,     \* the statuses a production-order edit may set
  PurchaseInput,  \* the statuses a purchase-order edit may set
  ScanPlan,       \* the orders in which SELECT ... FOR UPDATE may visit its
                  \* rows: each plan ranks the components
  Request, None,
  Concurrency     \* bound: calls in progress at the same time

OrderStatus == {"PLANNED", "PREPARATION", "IN_PROGRESS", "COMPLETED", "CANCELLED"}
\* DRAFT, CONFIRMED, IN_TRANSIT and PARTIALLY_RECEIVED are told apart by no
\* handler modelled here: they are OPEN.
PurchaseStatus == {"OPEN", "RECEIVED", "CANCELLED"}
Running  == {"claim", "rows", "check", "write"}
Answered == {"ok", "edited", "reopened", "rejected", "aborted"}
Line == BomLine \cup PurchaseLine

ASSUME ComponentsAssumption ==
  /\ OrderProduct \in [Order -> Product]
  /\ OrderQty \in [Order -> Nat \ {0}]
  /\ BomLine \subseteq [id: STRING, product: Product, component: Component, qty: Nat]
  /\ PurchaseLine \subseteq [id: STRING, purchase: Purchase, component: Component, qty: Nat]
  /\ InitialBom \subseteq BomLine
  /\ InitialStock \in [Component -> Nat]
  /\ StockInput \subseteq Nat
  /\ OrderInput \subseteq OrderStatus
  /\ PurchaseInput \subseteq PurchaseStatus
  /\ ScanPlan \subseteq [Component -> Nat]
  /\ ScanPlan # {}
  /\ None \notin Request \cup Order \cup Purchase
  /\ Order \cap Purchase = {}
  /\ Concurrency \in Nat \ {0}

VARIABLES
  stock, present,             \* Component.stockQty, and the rows that exist
  bom,                        \* the BomItem rows
  orderStatus, consumed,      \* ProductionOrder.status, .materialsConsumedAt # null
  purchaseStatus,             \* PurchaseOrder.status
  rowLock, purchaseLock,      \* the transaction that has each row locked
  pc, doc,                    \* where each call is, and the document it is about
  seen,                       \* the production-order status the call has read
  lines, todo,                \* the lines it has read, those not yet written
  wanted, plan,               \* the rows it still has to lock, and its scan order
  delta,                      \* its uncommitted change of each component's stock
  opening                     \* history: stock set by hand less the movements then

database == <<stock, present, bom, orderStatus, consumed, purchaseStatus, opening>>
locks    == <<rowLock, purchaseLock>>
calls    == <<pc, doc, seen, lines, todo, wanted, plan, delta>>
vars     == <<database, locks, calls>>

NoChange == [c \in Component |-> 0]

Init ==
  /\ stock = InitialStock
  /\ present = Component
  /\ bom = InitialBom
  /\ orderStatus \in [Order -> {"PLANNED", "IN_PROGRESS"}]
  /\ consumed = [o \in Order |-> FALSE]
  /\ purchaseStatus = [p \in Purchase |-> "OPEN"]
  /\ rowLock = [c \in Component |-> None]
  /\ purchaseLock = [p \in Purchase |-> None]
  /\ pc = [r \in Request |-> "new"]
  /\ doc = [r \in Request |-> None]
  /\ seen = [r \in Request |-> "PLANNED"]
  /\ lines = [r \in Request |-> {}]
  /\ todo = [r \in Request |-> {}]
  /\ wanted = [r \in Request |-> {}]
  /\ plan \in [Request -> ScanPlan]
  /\ delta = [r \in Request |-> NoChange]
  /\ opening = InitialStock

-----------------------------------------------------------------------------
(* What the calls read and lock.                                           *)

ComponentsOf(ls) == {l.component : l \in ls}
Needed(o, l) == l.qty * OrderQty[o]
Held(r) == {c \in Component : rowLock[c] = r}
\* The stock as r would leave it.
Apply(r) == [c \in Component |-> stock[c] + delta[r][c]]

MayStart(r) ==
  /\ pc[r] = "new"
  /\ Cardinality({s \in Request : pc[s] \in Running}) < Concurrency

\* Mutant: a transaction that ends and leaves its rows locked.
FinishKeepingRows(r, answer) ==
  /\ pc' = [pc EXCEPT ![r] = answer]
  /\ todo' = [todo EXCEPT ![r] = {}]
  /\ wanted' = [wanted EXCEPT ![r] = {}]
  /\ delta' = [delta EXCEPT ![r] = NoChange]
  /\ UNCHANGED <<locks, doc, seen, plan>>

\* The transaction of r ends: its locks are freed and what it has not committed
\* is dropped.
Finish(r, answer) ==
  /\ pc' = [pc EXCEPT ![r] = answer]
  /\ rowLock' = [c \in Component |-> IF rowLock[c] = r THEN None ELSE rowLock[c]]
  /\ purchaseLock' =
       [p \in Purchase |-> IF purchaseLock[p] = r THEN None ELSE purchaseLock[p]]
  /\ todo' = [todo EXCEPT ![r] = {}]
  /\ wanted' = [wanted EXCEPT ![r] = {}]
  /\ delta' = [delta EXCEPT ![r] = NoChange]
  /\ UNCHANGED <<doc, seen, plan>>

\* Mutant: the loop of stock writes without its transaction.
RollbackKeepingWrites(r, answer) ==
  /\ Finish(r, answer)
  /\ lines' = [lines EXCEPT ![r] = {}]
  /\ stock' = Apply(r)
  /\ UNCHANGED <<present, bom, orderStatus, consumed, purchaseStatus, opening>>

Rollback(r, answer) ==
  /\ Finish(r, answer)
  /\ lines' = [lines EXCEPT ![r] = {}]
  /\ UNCHANGED database

\* A call that is refused before it has written or locked anything.
Refuse(r, d) ==
  /\ pc' = [pc EXCEPT ![r] = "rejected"]
  /\ doc' = [doc EXCEPT ![r] = d]
  /\ UNCHANGED <<database, locks, seen, lines, todo, wanted, plan, delta>>

-----------------------------------------------------------------------------
(* consumeMaterials: debit the BOM of a production order.                  *)

BomOf(o) == {l \in bom : l.product = OrderProduct[o]}

\* Mutant: the idempotence flag is not looked at.
RefusedWithoutFlag(o) == orderStatus[o] = "CANCELLED" \/ BomOf(o) = {}

ConsumptionRefused(o) ==
  \/ orderStatus[o] = "CANCELLED"
  \/ consumed[o]
  \/ BomOf(o) = {}

StartConsume(r, o) ==
  /\ MayStart(r)
  /\ \/ /\ ConsumptionRefused(o)
        /\ Refuse(r, o)
     \/ /\ ~ConsumptionRefused(o)
        /\ pc' = [pc EXCEPT ![r] = "rows"]
        /\ doc' = [doc EXCEPT ![r] = o]
        /\ seen' = [seen EXCEPT ![r] = orderStatus[o]]
        /\ lines' = [lines EXCEPT ![r] = BomOf(o)]
        /\ todo' = [todo EXCEPT ![r] = BomOf(o)]
        /\ wanted' = [wanted EXCEPT ![r] = ComponentsOf(BomOf(o))]
        /\ UNCHANGED <<database, locks, plan, delta>>

\* The row the statement of r visits next.
IsNext(r, c) == c \in wanted[r] /\ \A d \in wanted[r] : plan[r][c] <= plan[r][d]

\* lockComponentsForUpdate: the statement visits its rows in the order of the
\* plan, waits for a row another transaction holds, and skips a deleted one.
LockRow(r, c) ==
  /\ pc[r] = "rows"
  /\ IsNext(r, c)
  /\ rowLock[c] = None
  /\ rowLock' = [rowLock EXCEPT ![c] = IF c \in present THEN r ELSE None]
  /\ wanted' = [wanted EXCEPT ![r] = @ \ {c}]
  /\ UNCHANGED <<database, purchaseLock, pc, doc, seen, lines, todo, plan, delta>>

AllRowsLocked(r) ==
  /\ pc[r] = "rows"
  /\ wanted[r] = {}
  /\ pc' = [pc EXCEPT ![r] = IF doc[r] \in Order THEN "check" ELSE "write"]
  /\ UNCHANGED <<database, locks, doc, seen, lines, todo, wanted, plan, delta>>

\* Mutant: the need of one piece.
EnoughForOne(r, l) == l.component \in Held(r) /\ stock[l.component] >= l.qty

\* Every line is compared with the stock that was read under the lock, line by
\* line: two lines of the same component are not added up.
EnoughFor(r, l) ==
  /\ l.component \in Held(r)
  /\ stock[l.component] >= Needed(doc[r], l)

CheckShortages(r) ==
  /\ pc[r] = "check"
  /\ \/ /\ \A l \in lines[r] : EnoughFor(r, l)
        /\ pc' = [pc EXCEPT ![r] = "write"]
        /\ UNCHANGED <<database, locks, doc, seen, lines, todo, wanted, plan, delta>>
     \/ /\ \E l \in lines[r] : ~EnoughFor(r, l)
        /\ Rollback(r, "rejected")

DebitLine(r, l) ==
  /\ pc[r] = "write" /\ doc[r] \in Order
  /\ l \in todo[r]
  /\ delta' = [delta EXCEPT ![r][l.component] = @ - Needed(doc[r], l)]
  /\ todo' = [todo EXCEPT ![r] = @ \ {l}]
  /\ UNCHANGED <<database, locks, pc, doc, seen, lines, wanted, plan>>

\* The status written is computed from the status read when the call began.
CommitConsume(r) ==
  /\ pc[r] = "write" /\ doc[r] \in Order
  /\ todo[r] = {}
  /\ stock' = Apply(r)
  /\ consumed' = [consumed EXCEPT ![doc[r]] = TRUE]
  /\ orderStatus' = [orderStatus EXCEPT ![doc[r]] =
                       IF seen[r] = "PLANNED" THEN "IN_PROGRESS" ELSE seen[r]]
  /\ Finish(r, "ok")
  /\ UNCHANGED <<present, bom, purchaseStatus, opening, lines>>

-----------------------------------------------------------------------------
(* markReceived: put the lines of a purchase order into stock.             *)

\* A line whose component has been deleted has lost its componentId.
StockLinesOf(p) == {l \in PurchaseLine : l.purchase = p /\ l.component \in present}

StartReceive(r, p) ==
  /\ MayStart(r)
  /\ \/ /\ purchaseStatus[p] # "OPEN"
        /\ Refuse(r, p)
     \/ /\ purchaseStatus[p] = "OPEN"
        /\ pc' = [pc EXCEPT ![r] = "claim"]
        /\ doc' = [doc EXCEPT ![r] = p]
        /\ lines' = [lines EXCEPT ![r] = StockLinesOf(p)]
        /\ todo' = [todo EXCEPT ![r] = StockLinesOf(p)]
        /\ UNCHANGED <<database, locks, seen, wanted, plan, delta>>

\* Mutant: an update by id alone.
AnyStatus(p) == TRUE

StillOpen(p) == purchaseStatus[p] = "OPEN"

\* updateMany ... where status notIn [RECEIVED, CANCELLED]: waits for the row,
\* then tests the status again, in the committed row.
ClaimPurchase(r) ==
  LET p == doc[r] IN
  /\ pc[r] = "claim"
  /\ purchaseLock[p] = None
  /\ \/ /\ StillOpen(p)
        /\ purchaseLock' = [purchaseLock EXCEPT ![p] = r]
        /\ pc' = [pc EXCEPT ![r] = "rows"]
        /\ wanted' = [wanted EXCEPT ![r] = ComponentsOf(lines[r])]
        /\ UNCHANGED <<database, rowLock, doc, seen, lines, todo, plan, delta>>
     \/ /\ ~StillOpen(p)
        /\ Rollback(r, "rejected")

\* A line of a component the lock did not find throws in the middle of the loop.
CreditLine(r, l) ==
  /\ pc[r] = "write" /\ doc[r] \in Purchase
  /\ l \in todo[r]
  /\ \/ /\ l.component \in Held(r)
        /\ delta' = [delta EXCEPT ![r][l.component] = @ + l.qty]
        /\ todo' = [todo EXCEPT ![r] = @ \ {l}]
        /\ UNCHANGED <<database, locks, pc, doc, seen, lines, wanted, plan>>
     \/ /\ l.component \notin Held(r)
        /\ Rollback(r, "rejected")

CommitReceive(r) ==
  /\ pc[r] = "write" /\ doc[r] \in Purchase
  /\ todo[r] = {}
  /\ stock' = Apply(r)
  /\ purchaseStatus' = [purchaseStatus EXCEPT ![doc[r]] = "RECEIVED"]
  /\ Finish(r, "ok")
  /\ UNCHANGED <<present, bom, orderStatus, consumed, opening, lines>>

-----------------------------------------------------------------------------
(* Ends of a transaction the code does not choose.                         *)

\* r waits for the row that is next in its plan and that s has locked.
WaitsFor(r, s) ==
  /\ pc[r] = "rows"
  /\ r # s
  /\ \E c \in Component : IsNext(r, c) /\ rowLock[c] = s

InWaitCycle(r) ==
  \E S \in SUBSET Request :
    /\ r \in S
    /\ \A x \in S : (\E y \in S : WaitsFor(x, y)) /\ (\E y \in S : WaitsFor(y, x))

\* PostgreSQL's deadlock detector aborts one transaction of the cycle.
DeadlockVictim(r) ==
  /\ pc[r] = "rows"
  /\ InWaitCycle(r)
  /\ Rollback(r, "aborted")

\* Prisma's transaction timeout, a lost connection or a crash of the server.
Abort(r) ==
  /\ pc[r] \in Running
  /\ Rollback(r, "aborted")

-----------------------------------------------------------------------------
(* Edits, one statement each.                                              *)

Edited(r, answer, d) ==
  /\ pc' = [pc EXCEPT ![r] = answer]
  /\ doc' = [doc EXCEPT ![r] = d]
  /\ UNCHANGED <<locks, seen, lines, todo, wanted, plan, delta>>

\* What the answered movements have added to component c.
Movement(r, c) ==
  LET mine == {l \in lines[r] : l.component = c} IN
  IF doc[r] \in Order THEN -MapThenSumSet(LAMBDA l : Needed(doc[r], l), mine)
                      ELSE MapThenSumSet(LAMBDA l : l.qty, mine)

Moved(c) == MapThenSumSet(LAMBDA r : Movement(r, c), {r \in Request : pc[r] = "ok"})

\* PATCH /components/:id sets the quantity; the UPDATE waits for the row.
EditStock(r, c) ==
  /\ MayStart(r)
  /\ c \in present /\ rowLock[c] = None
  /\ \E q \in StockInput :
       /\ stock' = [stock EXCEPT ![c] = q]
       /\ opening' = [opening EXCEPT ![c] = q - Moved(c)]
  /\ Edited(r, "edited", None)
  /\ UNCHANGED <<present, bom, orderStatus, consumed, purchaseStatus>>

\* DELETE /components/:id: a BOM line restricts it, a purchase line does not.
RemoveComponent(r, c) ==
  /\ MayStart(r)
  /\ c \in present /\ rowLock[c] = None
  /\ c \notin ComponentsOf(bom)
  /\ present' = present \ {c}
  /\ Edited(r, "edited", None)
  /\ UNCHANGED <<stock, bom, orderStatus, consumed, purchaseStatus, opening>>

\* The foreign key of a new line takes FOR KEY SHARE on the component's row: it
\* waits for a transaction that holds it FOR UPDATE.
Referable(l) == l.component \in present /\ rowLock[l.component] = None

CreateBomItem(r, l) ==
  /\ MayStart(r)
  /\ l \in BomLine \ bom /\ Referable(l)
  /\ bom' = bom \cup {l}
  /\ Edited(r, "edited", None)
  /\ UNCHANGED <<stock, present, orderStatus, consumed, purchaseStatus, opening>>

UpdateBomItem(r, old, new) ==
  /\ MayStart(r)
  /\ old \in bom /\ new \in BomLine \ bom
  /\ old.component = new.component \/ Referable(new)
  /\ bom' = (bom \ {old}) \cup {new}
  /\ Edited(r, "edited", None)
  /\ UNCHANGED <<stock, present, orderStatus, consumed, purchaseStatus, opening>>

RemoveBomItem(r, l) ==
  /\ MayStart(r)
  /\ l \in bom
  /\ bom' = bom \ {l}
  /\ Edited(r, "edited", None)
  /\ UNCHANGED <<stock, present, orderStatus, consumed, purchaseStatus, opening>>

\* PATCH /production-orders/:id and /purchase-orders/:id accept any status.
EditOrder(r, o) ==
  /\ MayStart(r)
  /\ \E s \in OrderInput : orderStatus' = [orderStatus EXCEPT ![o] = s]
  /\ Edited(r, "edited", o)
  /\ UNCHANGED <<stock, present, bom, consumed, purchaseStatus, opening>>

EditPurchase(r, p) ==
  /\ MayStart(r)
  /\ purchaseLock[p] = None
  /\ \E s \in PurchaseInput :
       /\ purchaseStatus' = [purchaseStatus EXCEPT ![p] = s]
       /\ Edited(r, IF purchaseStatus[p] # "OPEN" /\ s = "OPEN"
                    THEN "reopened" ELSE "edited", p)
  /\ UNCHANGED <<stock, present, bom, orderStatus, consumed, opening>>

-----------------------------------------------------------------------------
Consumption(r) ==
  \/ \E o \in Order : StartConsume(r, o)
  \/ CheckShortages(r)
  \/ \E l \in todo[r] : DebitLine(r, l)
  \/ CommitConsume(r)

Reception(r) ==
  \/ \E p \in Purchase : StartReceive(r, p)
  \/ ClaimPurchase(r)
  \/ \E l \in todo[r] : CreditLine(r, l)
  \/ CommitReceive(r)

Locking(r) ==
  \/ \E c \in Component : LockRow(r, c)
  \/ AllRowsLocked(r)
  \/ DeadlockVictim(r)

Edit(r) ==
  \/ \E c \in Component : EditStock(r, c) \/ RemoveComponent(r, c)
  \/ \E l \in BomLine : CreateBomItem(r, l) \/ RemoveBomItem(r, l)
  \/ \E old, new \in BomLine : UpdateBomItem(r, old, new)
  \/ \E o \in Order : EditOrder(r, o)
  \/ \E p \in Purchase : EditPurchase(r, p)

Next == \E r \in Request : Consumption(r) \/ Reception(r) \/ Locking(r) \/ Edit(r) \/ Abort(r)

Spec == Init /\ [][Next]_vars

\* A call that runs keeps running: the event loop resumes it when the database
\* answers, and the database answers a statement that need not wait.
Continues(r) ==
  \/ \E c \in Component : LockRow(r, c)
  \/ AllRowsLocked(r)
  \/ DeadlockVictim(r)
  \/ CheckShortages(r)
  \/ \E l \in todo[r] : DebitLine(r, l) \/ CreditLine(r, l)
  \/ CommitConsume(r)
  \/ ClaimPurchase(r)
  \/ CommitReceive(r)

FairSpec == Spec /\ \A r \in Request : WF_vars(Continues(r))

-----------------------------------------------------------------------------
(* Properties.                                                             *)

TypeOK ==
  /\ stock \in [Component -> Int]
  /\ present \subseteq Component
  /\ bom \subseteq BomLine
  /\ orderStatus \in [Order -> OrderStatus]
  /\ consumed \in [Order -> BOOLEAN]
  /\ purchaseStatus \in [Purchase -> PurchaseStatus]
  /\ rowLock \in [Component -> Request \cup {None}]
  /\ purchaseLock \in [Purchase -> Request \cup {None}]
  /\ pc \in [Request -> {"new"} \cup Running \cup Answered]
  /\ doc \in [Request -> Order \cup Purchase \cup {None}]
  /\ seen \in [Request -> OrderStatus]
  /\ lines \in [Request -> SUBSET Line]
  /\ todo \in [Request -> SUBSET Line]
  /\ wanted \in [Request -> SUBSET Component]
  /\ plan \in [Request -> ScanPlan]
  /\ delta \in [Request -> [Component -> Int]]

\* The stock of a component is what it was last set to, plus every line of the
\* receptions answered since, less every line of the consumptions answered
\* since: a movement enters whole or not at all, however it is interleaved.
StockConservation == \A c \in present : stock[c] = opening[c] + Moved(c)

\* consumeMaterials refuses a shortage under the row locks, so no interleaving
\* takes a component below zero (when no BOM names a component twice).
NonNegativeStock == \A c \in Component : stock[c] >= 0

\* A purchase order enters stock at most once for each time it was open: a
\* repeated or concurrent mark-received adds nothing (the conditional claim).
ReceivedAtMostOncePerOpening ==
  \A p \in Purchase :
    Cardinality({r \in Request : pc[r] = "ok" /\ doc[r] = p})
      <= 1 + Cardinality({r \in Request : pc[r] = "reopened" /\ doc[r] = p})

\* A reception that commits finds its purchase order still open, although it
\* read that status in an earlier statement.
ReceivesAnOpenPurchase ==
  [][\A r \in Request :
       (doc[r] \in Purchase /\ pc[r] = "write" /\ pc'[r] = "ok")
         => purchaseStatus[doc[r]] = "OPEN"]_vars

\* "Consommation BOM (idempotence)": the materials of a production order are
\* debited once, however often the route is called.
DebitedOnce ==
  \A o \in Order : Cardinality({r \in Request : pc[r] = "ok" /\ doc[r] = o}) <= 1

\* Every call that has begun is answered: waits for rows end, because holders
\* finish and cycles of waits are broken.
EveryCallIsAnswered ==
  \A r \in Request : pc[r] \in Running ~> pc[r] \in Answered
=============================================================================

---------------------------- MODULE OrderWorkflow ----------------------------
(***************************************************************************)
(* The life of one sales order: its status and its BAT (the proof the      *)
(* client signs), the production orders and deliveries linked to it, and   *)
(* the status changes that those documents and the final invoice trigger.  *)
(*                                                                         *)
(* Every handler checks a row it has read and writes it unconditionally    *)
(* one round trip later; the triggered status change comes after the       *)
(* commit of its document, and its refusal is swallowed.  The POST and the *)
(* PATCH of an order take any status and check nothing.  Document numbers  *)
(* are left to DocumentReferences.  A Call is a slot in which HTTP calls    *)
(* follow one another: there are as many slots as calls in progress at     *)
(* once, and a refused call leaves no trace.                               *)
(***************************************************************************)
EXTENDS Integers

CONSTANTS
  ProductionOrder, Delivery,
  Full,             \* 100 % of progress
  InitialStatus,    \* statuses a sales order is created with, any of them in the code
  StatusInput,      \* statuses its status route may be asked for, idem
  EditStatus,       \* statuses a PATCH of it may set
  EditBat,          \* values it may give batRequired
  ProgressInput,    \* statuses a progress of a production order may name
  EditOf,           \* statuses its create or its PATCH may set
  EditLink,         \* TRUE: the PATCH may link it to this order, FALSE: to another
  EditDeliveryTo,   \* statuses a create or a PATCH of a delivery may give
  Call, None

SalesStatus == {"QUOTE", "TO_PROCESS", "IN_PRODUCTION", "PREPARING", "SHIPPED",
                "DELIVERED", "INVOICED", "CANCELLED"}
OfStatus == {"PLANNED", "PREPARATION", "IN_PROGRESS", "COMPLETED", "CANCELLED"}
DeliveryStatus == {"PLANNED", "PREPARING", "IN_TRANSIT", "DELIVERED", "FAILED", "RETURNED"}
Shipping == {"IN_TRANSIT", "DELIVERED"}

Transitions ==
  [s \in SalesStatus |->
    CASE s = "QUOTE"         -> {"TO_PROCESS", "CANCELLED"}
      [] s = "TO_PROCESS"    -> {"IN_PRODUCTION", "PREPARING", "INVOICED", "CANCELLED"}
      [] s = "IN_PRODUCTION" -> {"PREPARING", "SHIPPED", "DELIVERED", "INVOICED", "CANCELLED"}
      [] s = "PREPARING"     -> {"SHIPPED", "DELIVERED", "INVOICED", "CANCELLED"}
      [] s = "SHIPPED"       -> {"DELIVERED", "INVOICED", "CANCELLED"}
      [] s = "DELIVERED"     -> {"INVOICED"}
      [] OTHER               -> {}]

Steps == {"follow", "statusWrite", "sendWrite", "approveWrite", "progressWrite",
          "consumeWrite", "qualityWrite", "inspect", "shipWrite"}
Op == {"status", "bat", "createOf", "progress", "consume", "quality",
       "create", "edit", "mark", "invoice"}

ASSUME WorkflowAssumption ==
  /\ Full \in Nat \ {0}
  /\ InitialStatus \subseteq SalesStatus
  /\ StatusInput \subseteq SalesStatus
  /\ EditStatus \subseteq SalesStatus
  /\ EditBat \subseteq BOOLEAN
  /\ ProgressInput \subseteq OfStatus
  /\ EditOf \subseteq OfStatus
  /\ EditLink \subseteq BOOLEAN
  /\ EditDeliveryTo \subseteq DeliveryStatus
  /\ None \notin ProductionOrder \cup Delivery
  /\ ProductionOrder \cap Delivery = {}

VARIABLES
  orderStatus, batRequired, batSent, batApproved,      \* the sales order
  typed,           \* history: its columns that a POST or a PATCH has set unchecked
  ofStatus, linked, progress, consumed, inspected,     \* the production orders
  approved,
  deliveryStatus,                                      \* the deliveries
  call                                                 \* the calls in progress

sales     == <<orderStatus, batRequired, batSent, batApproved, typed>>
workshop  == <<ofStatus, linked, progress, consumed, inspected, approved>>
vars      == <<sales, workshop, deliveryStatus, call>>

\* What a call remembers between two round trips: its next step, its kind, its
\* document, the status and progress it will write, the status it has read, and
\* the production orders its quality check covered.
State ==
  [at: {"idle"} \cup Steps, op: {"none"} \cup Op, on: ProductionOrder \cup Delivery \cup {None},
   want: SalesStatus \cup OfStatus \cup DeliveryStatus \cup {"NONE"}, reach: 0 .. Full,
   seen: OfStatus \cup DeliveryStatus \cup {"NONE"}, vetted: SUBSET ProductionOrder]

Doing(at, op, on, want, reach, seen) ==
  [at |-> at, op |-> op, on |-> on, want |-> want, reach |-> reach, seen |-> seen,
   vetted |-> {}]

Idle == Doing("idle", "none", None, "NONE", 0, "NONE")

Init ==
  /\ orderStatus \in InitialStatus
  /\ batRequired \in BOOLEAN
  /\ typed = {"status"}
  /\ batSent = FALSE
  /\ batApproved = FALSE
  /\ ofStatus = [o \in ProductionOrder |-> "ABSENT"]
  /\ linked = [o \in ProductionOrder |-> FALSE]
  /\ progress = [o \in ProductionOrder |-> 0]
  /\ consumed = [o \in ProductionOrder |-> FALSE]
  /\ inspected = [o \in ProductionOrder |-> FALSE]
  /\ approved = [o \in ProductionOrder |-> FALSE]
  /\ deliveryStatus = [d \in Delivery |-> "ABSENT"]
  /\ call = [r \in Call |-> Idle]

-----------------------------------------------------------------------------
Free(r) == call[r].at = "idle"

Become(r, c) == call' = [call EXCEPT ![r] = c]

\* A call has read what it needs, accepts, and will act at step at.
Begin(r, at, op, on, want) == Free(r) /\ Become(r, Doing(at, op, on, want, 0, "NONE"))

Continue(r, at) == call' = [call EXCEPT ![r].at = at]
End(r) == Become(r, Idle)

-----------------------------------------------------------------------------
(* SalesOrdersService: the status and the BAT.                             *)

\* Mutant: without the BAT.
StatusAllowedByMatrix(s) == s \in Transitions[orderStatus]

StatusAllowed(s) ==
  /\ s \in Transitions[orderStatus]
  /\ (s = "IN_PRODUCTION" /\ batRequired) => batApproved

\* updateStatus, called by its route ...
ReadStatus(r, s) ==
  /\ StatusAllowed(s)
  /\ Begin(r, "statusWrite", "status", None, s)
  /\ UNCHANGED <<sales, workshop, deliveryStatus>>

\* ... or after the commit of another document, which then ignores a refusal.
FollowUp(r) ==
  /\ call[r].at = "follow"
  /\ IF StatusAllowed(call[r].want) THEN Continue(r, "statusWrite") ELSE End(r)
  /\ UNCHANGED <<sales, workshop, deliveryStatus>>

WriteStatus(r) ==
  /\ call[r].at = "statusWrite"
  /\ orderStatus' = call[r].want
  /\ typed' = typed \ {"status"}
  /\ End(r)
  /\ UNCHANGED <<batRequired, batSent, batApproved, workshop, deliveryStatus>>

\* PATCH /sales-orders/:id checks neither the matrix nor the BAT.
EditSalesOrder(r) ==
  /\ Free(r)
  /\ \E s \in EditStatus \cup {None}, b \in EditBat \cup {None} :
       /\ orderStatus' = IF s = None THEN orderStatus ELSE s
       /\ batRequired' = IF b = None THEN batRequired ELSE b
       /\ typed' = typed \cup {c \in {"status"} : s # None}
                        \cup {c \in {"batRequired"} : b = TRUE /\ ~batRequired}
  /\ UNCHANGED <<batSent, batApproved, workshop, deliveryStatus, call>>

ReadSendBat(r) ==
  /\ batRequired
  /\ Begin(r, "sendWrite", "bat", None, "NONE")
  /\ UNCHANGED <<sales, workshop, deliveryStatus>>

WriteSendBat(r) ==
  /\ call[r].at = "sendWrite"
  /\ batSent' = TRUE
  /\ End(r)
  /\ UNCHANGED <<orderStatus, batRequired, batApproved, typed, workshop, deliveryStatus>>

ReadApproveBat(r) ==
  /\ batRequired /\ batSent /\ ~batApproved
  /\ Begin(r, "approveWrite", "bat", None, "NONE")
  /\ UNCHANGED <<sales, workshop, deliveryStatus>>

WriteApproveBat(r) ==
  /\ call[r].at = "approveWrite"
  /\ batApproved' = TRUE
  /\ End(r)
  /\ UNCHANGED <<orderStatus, batRequired, batSent, typed, workshop, deliveryStatus>>

-----------------------------------------------------------------------------
(* ProductionOrdersService.  DELETE /production-orders/:id is no action:    *)
(* the stages every production order is created with restrict it.          *)

CreateProductionOrder(r, o, link) ==
  /\ ofStatus[o] = "ABSENT"
  /\ \E s \in {"PLANNED"} \cup EditOf : ofStatus' = [ofStatus EXCEPT ![o] = s]
  /\ linked' = [linked EXCEPT ![o] = link]
  /\ IF link THEN Begin(r, "follow", "createOf", o, "IN_PRODUCTION")
             ELSE Free(r) /\ UNCHANGED call
  /\ UNCHANGED <<sales, deliveryStatus, progress, consumed, inspected, approved>>

EditProductionOrder(r, o) ==
  /\ Free(r)
  /\ ofStatus[o] # "ABSENT"
  /\ \E s \in EditOf \cup {ofStatus[o]} : ofStatus' = [ofStatus EXCEPT ![o] = s]
  /\ \E l \in EditLink \cup {linked[o]} : linked' = [linked EXCEPT ![o] = l]
  /\ UNCHANGED <<sales, deliveryStatus, progress, consumed, inspected, approved, call>>

\* The body names a status or leaves it to the progress ("NONE": unchanged).
NextOfStatus(p, s) == IF s # "NONE" THEN s ELSE IF p = Full THEN "COMPLETED" ELSE "NONE"

Unlocked(o) == ofStatus[o] \notin {"ABSENT", "COMPLETED", "CANCELLED"}

\* Mutant: the lock of a finished production order is forgotten.
AllowedWhenLocked(o, p, s) ==
  ofStatus[o] # "ABSENT" /\ p >= progress[o] /\ (NextOfStatus(p, s) = "COMPLETED" => p = Full)

ProgressAllowed(o, p, s) ==
  /\ Unlocked(o)
  /\ p >= progress[o]
  /\ NextOfStatus(p, s) = "COMPLETED" => p = Full

ReadProgress(r, o, p, s) ==
  /\ ProgressAllowed(o, p, s)
  /\ Free(r)
  /\ Become(r, Doing("progressWrite", "progress", o, NextOfStatus(p, s), p, ofStatus[o]))
  /\ UNCHANGED <<sales, workshop, deliveryStatus>>

StatusAfter(o, s) == IF s = "NONE" THEN ofStatus[o] ELSE s

WriteProgress(r) ==
  LET c == call[r] IN
  /\ c.at = "progressWrite"
  /\ progress' = [progress EXCEPT ![c.on] = c.reach]
  /\ ofStatus' = [ofStatus EXCEPT ![c.on] = StatusAfter(c.on, c.want)]
  /\ End(r)
  /\ UNCHANGED <<sales, deliveryStatus, linked, consumed, inspected, approved>>

\* consumeMaterials, of which Materials has the stock: it writes back the status
\* it has read, started when that was PLANNED.
ReadConsume(r, o) ==
  /\ ofStatus[o] \notin {"ABSENT", "CANCELLED"} /\ ~consumed[o]
  /\ Free(r)
  /\ Become(r, Doing("consumeWrite", "consume", o,
                     IF ofStatus[o] = "PLANNED" THEN "IN_PROGRESS" ELSE ofStatus[o],
                     0, ofStatus[o]))
  /\ UNCHANGED <<sales, workshop, deliveryStatus>>

WriteConsume(r) ==
  LET c == call[r] IN
  /\ c.at = "consumeWrite"
  /\ consumed' = [consumed EXCEPT ![c.on] = TRUE]
  /\ ofStatus' = [ofStatus EXCEPT ![c.on] = c.want]
  /\ End(r)
  /\ UNCHANGED <<sales, deliveryStatus, linked, progress, inspected, approved>>

\* PATCH .../stages: inspected is what canApproveQualityFromStages then returns.
UpsertStages(r, o) ==
  /\ Free(r)
  /\ ofStatus[o] # "ABSENT"
  /\ \E b \in BOOLEAN : inspected' = [inspected EXCEPT ![o] = b]
  /\ UNCHANGED <<sales, deliveryStatus, ofStatus, linked, progress, consumed, approved, call>>

ReadQuality(r, o) ==
  /\ ofStatus[o] = "COMPLETED" /\ ~approved[o] /\ inspected[o]
  /\ Begin(r, "qualityWrite", "quality", o, "NONE")
  /\ UNCHANGED <<sales, workshop, deliveryStatus>>

WriteQuality(r) ==
  /\ call[r].at = "qualityWrite"
  /\ approved' = [approved EXCEPT ![call[r].on] = TRUE]
  /\ End(r)
  /\ UNCHANGED <<sales, deliveryStatus, ofStatus, linked, progress, consumed, inspected>>

-----------------------------------------------------------------------------
(* DeliveriesService                                                       *)

\* Mutant: only the finished production orders are asked for.
FinishedPending ==
  \E o \in ProductionOrder : ofStatus[o] = "COMPLETED" /\ linked[o] /\ ~approved[o]

\* The production orders of the sales order that are not cancelled.
LiveOrders ==
  {o \in ProductionOrder : ofStatus[o] \notin {"ABSENT", "CANCELLED"} /\ linked[o]}

QualityPending == \E o \in LiveOrders : ~approved[o]

\* create and update ask for the quality check only when the body ships.
BeginDelivery(r, op, d, s) ==
  /\ Begin(r, IF s \in Shipping THEN "inspect" ELSE "shipWrite", op, d, s)
  /\ UNCHANGED <<sales, workshop, deliveryStatus>>

\* A new delivery is one that no call in progress knows.
CreateDelivery(r, d) ==
  /\ deliveryStatus[d] = "ABSENT"
  /\ \A q \in Call : call[q].on # d
  /\ \E s \in {"PLANNED"} \cup EditDeliveryTo : BeginDelivery(r, "create", d, s)

EditDelivery(r, d) ==
  /\ deliveryStatus[d] # "ABSENT"
  /\ \E s \in EditDeliveryTo : BeginDelivery(r, "edit", d, s)

ReadMarkDelivered(r, d) ==
  /\ deliveryStatus[d] # "ABSENT"
  /\ Free(r)
  /\ Become(r, Doing("inspect", "mark", d, "DELIVERED", 0, deliveryStatus[d]))
  /\ UNCHANGED <<sales, workshop, deliveryStatus>>

\* assertQualityApprovedForShipment, then the source status of mark-delivered.
CheckQuality(r) ==
  /\ call[r].at = "inspect"
  /\ IF \/ QualityPending
        \/ call[r].op = "mark" /\ call[r].seen \notin {"PLANNED", "PREPARING", "IN_TRANSIT"}
     THEN End(r)
     ELSE call' = [call EXCEPT ![r].at = "shipWrite", ![r].vetted = LiveOrders]
  /\ UNCHANGED <<sales, workshop, deliveryStatus>>

WriteShipment(r) ==
  LET c == call[r] IN
  /\ c.at = "shipWrite"
  /\ c.op = "create" \/ deliveryStatus[c.on] # "ABSENT"
  /\ deliveryStatus' = [deliveryStatus EXCEPT ![c.on] = c.want]
  /\ IF c.op = "mark"
     THEN Become(r, Doing("follow", "mark", c.on, "DELIVERED", 0, "NONE"))
     ELSE End(r)
  /\ UNCHANGED <<sales, workshop>>

RemoveDelivery(r, d) ==
  /\ Free(r)
  /\ deliveryStatus[d] # "ABSENT"
  /\ deliveryStatus' = [deliveryStatus EXCEPT ![d] = "ABSENT"]
  /\ UNCHANGED <<sales, workshop, call>>

-----------------------------------------------------------------------------
(* InvoicesService: the creation of a FINAL invoice that is neither a      *)
(* draft nor cancelled.                                                    *)
CreateFinalInvoice(r) ==
  /\ Begin(r, "follow", "invoice", None, "INVOICED")
  /\ UNCHANGED <<sales, workshop, deliveryStatus>>

\* A call ends between two of its steps: the server stops, loses the database,
\* or finds that the row it would write has been deleted.
Abort(r) ==
  /\ ~Free(r)
  /\ End(r)
  /\ UNCHANGED <<sales, workshop, deliveryStatus>>

-----------------------------------------------------------------------------
SalesCall(r) ==
  \/ \E s \in StatusInput : ReadStatus(r, s)
  \/ FollowUp(r) \/ WriteStatus(r) \/ EditSalesOrder(r)
  \/ ReadSendBat(r) \/ WriteSendBat(r)
  \/ ReadApproveBat(r) \/ WriteApproveBat(r)

WorkshopCall(r) ==
  \/ \E o \in ProductionOrder :
       \/ \E link \in BOOLEAN : CreateProductionOrder(r, o, link)
       \/ EditProductionOrder(r, o)
       \/ \E p \in 0 .. Full, s \in ProgressInput \cup {"NONE"} : ReadProgress(r, o, p, s)
       \/ ReadConsume(r, o)
       \/ UpsertStages(r, o)
       \/ ReadQuality(r, o)
  \/ WriteProgress(r)
  \/ WriteConsume(r)
  \/ WriteQuality(r)

DeliveryCall(r) ==
  \/ \E d \in Delivery : \/ CreateDelivery(r, d)
                         \/ EditDelivery(r, d)
                         \/ ReadMarkDelivered(r, d)
                         \/ RemoveDelivery(r, d)
  \/ CheckQuality(r)
  \/ WriteShipment(r)

Next ==
  \E r \in Call :
    SalesCall(r) \/ WorkshopCall(r) \/ DeliveryCall(r) \/ CreateFinalInvoice(r) \/ Abort(r)

Spec == Init /\ [][Next]_vars

-----------------------------------------------------------------------------
(* Properties.                                                             *)

TypeOK ==
  /\ orderStatus \in SalesStatus
  /\ batRequired \in BOOLEAN /\ batSent \in BOOLEAN /\ batApproved \in BOOLEAN
  /\ typed \subseteq {"status", "batRequired"}
  /\ ofStatus \in [ProductionOrder -> OfStatus \cup {"ABSENT"}]
  /\ linked \in [ProductionOrder -> BOOLEAN]
  /\ progress \in [ProductionOrder -> 0 .. Full]
  /\ consumed \in [ProductionOrder -> BOOLEAN]
  /\ inspected \in [ProductionOrder -> BOOLEAN]
  /\ approved \in [ProductionOrder -> BOOLEAN]
  /\ deliveryStatus \in [Delivery -> DeliveryStatus \cup {"ABSENT"}]
  /\ call \in [Call -> State]

\* "le passage en IN_PRODUCTION est bloque tant que batApprovedAt = null": calls
\* may overlap in any way and documents trigger launches of their own, yet an
\* order whose BAT is required is in production without an approved BAT only if a
\* POST or PATCH set that status, or a PATCH required the BAT after the creation.
BatGate == orderStatus = "IN_PRODUCTION" /\ batRequired /\ typed = {} => batApproved

\* "Controle qualite requis avant expedition": when a delivery starts to ship,
\* every live production order of the sales order is approved, but for those that
\* became live or linked after the check of the call that ships it.
QualityGate ==
  [][\A d \in Delivery :
       (deliveryStatus[d] \notin Shipping /\ deliveryStatus'[d] \in Shipping)
         => \E r \in Call :
              /\ call[r].at = "shipWrite" /\ call[r].on = d /\ call'[r] # call[r]
              /\ \A o \in LiveOrders : approved[o] \/ o \notin call[r].vetted]_vars

\* "OF verrouille: statut COMPLETED non modifiable": a production order, approved
\* or not, leaves COMPLETED only by a PATCH of it, or by the late write of a
\* progress or of a consumption that had read it before it was completed.
CompletedIsLocked ==
  [][\A o \in ProductionOrder :
       (ofStatus[o] = "COMPLETED" /\ ofStatus'[o] # "COMPLETED")
         => \E r \in Call :
              \/ EditProductionOrder(r, o)
              \/ /\ call[r].at \in {"progressWrite", "consumeWrite"}
                 /\ call[r].on = o /\ call[r].seen # "COMPLETED"
                 /\ call'[r] # call[r]]_vars
=============================================================================

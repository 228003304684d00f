--------------------------- MODULE WorkshopProofs ----------------------------
(***************************************************************************)
(* Proofs about the production of orders.                                  *)
(*                                                                         *)
(* About OrderWorkflow, for any documents, edits and calls.  Every write   *)
(* of this module is decided one round trip before it is made.  A property *)
(* of the written row is therefore proved together with what the calls in  *)
(* progress have checked, and of that only what no other call can undo: an *)
(* approval, which is never withdrawn, and what a call itself remembers.   *)
(*                                                                         *)
(* About ProductionPlanning and WorkshopBoard, for any orders, stages,     *)
(* lengths of a day, edits and requests: the planning of an order covers   *)
(* its days because the segments of its period meet; a page is true of the *)
(* interval between the start of its oldest request and its answer,        *)
(* because of an interval that grows at its end fewer items are late       *)
(* throughout and more are late at some moment, so that what a read has    *)
(* told stays true until the answer is given, and while it is cached.      *)
(***************************************************************************)
EXTENDS OrderWorkflow, WorkshopBoard, Sums

\* What a call is about to write fits the row it is about.
CallKind(c) ==
  /\ c.at \in {"follow", "statusWrite"} => c.want \in SalesStatus
  /\ c.at = "progressWrite" => c.on \in ProductionOrder /\ c.want \in OfStatus \cup {"NONE"}
  /\ c.at = "consumeWrite" => c.on \in ProductionOrder /\ c.want \in OfStatus
  /\ c.at = "qualityWrite" => c.on \in ProductionOrder
  /\ c.at \in {"inspect", "shipWrite"} => /\ c.on \in Delivery
                                          /\ c.want \in DeliveryStatus
                                          /\ c.op = "mark" => c.want = "DELIVERED"

CallsKnown == \A r \in Call : CallKind(call[r])

TypeInv == TypeOK /\ CallsKnown

-----------------------------------------------------------------------------
LEMMA IdleIsState == Idle \in State /\ CallKind(Idle)
  BY WorkflowAssumption DEF Idle, Doing, State, CallKind

\* A step that changes what one slot remembers keeps the type of the calls.
LEMMA OneSlot ==
  ASSUME TypeInv, NEW r \in Call, NEW c \in State, CallKind(c), Become(r, c)
  PROVE  call' \in [Call -> State] /\ CallsKnown'
<1>1. call \in [Call -> State] /\ \A q \in Call : CallKind(call[q])
  BY DEF TypeInv, TypeOK, CallsKnown
<1>2. \A q \in Call : call'[q] = IF q = r THEN c ELSE call[q]
  BY <1>1 DEF Become
<1>3. \A q \in Call : CallKind(call'[q])
  BY <1>1, <1>2
<1> QED
  BY <1>1, <1>3 DEF CallsKnown, Become

LEMMA EndOfCall ==
  ASSUME TypeInv, NEW r \in Call, End(r)
  PROVE  call' \in [Call -> State] /\ CallsKnown'
  BY IdleIsState, OneSlot DEF End

LEMMA DoingIsState ==
  ASSUME NEW at \in Steps, NEW op \in Op,
         NEW on \in ProductionOrder \cup Delivery \cup {None},
         NEW want \in SalesStatus \cup OfStatus \cup DeliveryStatus \cup {"NONE"},
         NEW reach \in 0 .. Full, NEW seen \in OfStatus \cup DeliveryStatus \cup {"NONE"}
  PROVE  Doing(at, op, on, want, reach, seen) \in State
  BY DEF Doing, State

LEMMA ContinuedCall ==
  ASSUME TypeInv, NEW r \in Call, NEW at \in Steps, Continue(r, at),
         CallKind([call[r] EXCEPT !.at = at])
  PROVE  call' \in [Call -> State] /\ CallsKnown'
<1>1. call \in [Call -> State]
  BY DEF TypeInv, TypeOK
<1>2. [call[r] EXCEPT !.at = at] \in State
  BY <1>1 DEF State
<1>3. Become(r, [call[r] EXCEPT !.at = at])
  BY <1>1 DEF Continue, Become
<1> QED
  BY <1>2, <1>3, OneSlot

LEMMA TypeInvInit == Init => TypeInv
<1> SUFFICES ASSUME Init PROVE TypeInv
  OBVIOUS
<1>1. Full \in Nat /\ 0 \in 0 .. Full
  BY WorkflowAssumption
<1>2. call \in [Call -> State]
  BY IdleIsState DEF Init
<1>3. TypeOK
  BY <1>1, <1>2, WorkflowAssumption DEF Init, TypeOK
<1>4. CallsKnown
  BY IdleIsState DEF Init, CallsKnown
<1> QED
  BY <1>3, <1>4 DEF TypeInv

\* What a busy slot says about its row.
LEMMA SlotKnown ==
  ASSUME TypeInv, NEW r \in Call
  PROVE  call[r] \in State /\ CallKind(call[r])
  BY DEF TypeInv, TypeOK, CallsKnown

LEMMA SalesCallType ==
  ASSUME TypeInv, NEW r \in Call, SalesCall(r)
  PROVE  TypeInv'
<1> USE DEF TypeInv, TypeOK
<1>0. call[r] \in State /\ CallKind(call[r])
  BY SlotKnown
<1>z. 0 \in 0 .. Full
  BY WorkflowAssumption
<1>1. ASSUME NEW s \in SalesStatus, ReadStatus(r, s) PROVE TypeInv'
  <2>1. Doing("statusWrite", "status", None, s, 0, "NONE") \in State
    BY <1>z, DoingIsState DEF Steps, Op
  <2>2. CallKind(Doing("statusWrite", "status", None, s, 0, "NONE"))
    BY DEF CallKind, Doing
  <2> QED
    BY <1>1, <2>1, <2>2, OneSlot DEF ReadStatus, Begin, sales, workshop
<1>2. CASE FollowUp(r)
  <2>1. CASE Continue(r, "statusWrite")
    <3>1. CallKind([call[r] EXCEPT !.at = "statusWrite"])
      BY <1>0, <1>2 DEF CallKind, FollowUp, State
    <3>2. call' \in [Call -> State] /\ CallsKnown'
      BY <2>1, <3>1, ContinuedCall DEF Steps
    <3> QED
      BY <1>2, <3>2 DEF FollowUp, sales, workshop
  <2>2. CASE End(r)
    BY <1>2, <2>2, EndOfCall DEF FollowUp, sales, workshop
  <2> QED
    BY <1>2, <2>1, <2>2 DEF FollowUp
<1>3. CASE WriteStatus(r)
  <2>1. call[r].want \in SalesStatus
    BY <1>0, <1>3 DEF CallKind, WriteStatus
  <2> QED
    BY <1>3, <2>1, EndOfCall DEF WriteStatus, workshop
<1>4. CASE EditSalesOrder(r)
  BY <1>4, WorkflowAssumption DEF EditSalesOrder, workshop, CallsKnown
<1>5. CASE ReadSendBat(r)
  <2>1. Doing("sendWrite", "bat", None, "NONE", 0, "NONE") \in State
    BY <1>z, DoingIsState DEF Steps, Op
  <2>2. CallKind(Doing("sendWrite", "bat", None, "NONE", 0, "NONE"))
    BY DEF CallKind, Doing
  <2> QED
    BY <1>5, <2>1, <2>2, OneSlot DEF ReadSendBat, Begin, sales, workshop
<1>6. CASE WriteSendBat(r)
  BY <1>6, EndOfCall DEF WriteSendBat, workshop
<1>7. CASE ReadApproveBat(r)
  <2>1. Doing("approveWrite", "bat", None, "NONE", 0, "NONE") \in State
    BY <1>z, DoingIsState DEF Steps, Op
  <2>2. CallKind(Doing("approveWrite", "bat", None, "NONE", 0, "NONE"))
    BY DEF CallKind, Doing
  <2> QED
    BY <1>7, <2>1, <2>2, OneSlot DEF ReadApproveBat, Begin, sales, workshop
<1>8. CASE WriteApproveBat(r)
  BY <1>8, EndOfCall DEF WriteApproveBat, workshop
<1> QED
  BY <1>1, <1>2, <1>3, <1>4, <1>5, <1>6, <1>7, <1>8, WorkflowAssumption DEF SalesCall

LEMMA WorkshopCallType ==
  ASSUME TypeInv, NEW r \in Call, WorkshopCall(r)
  PROVE  TypeInv'
<1> USE DEF TypeInv, TypeOK
<1>0. call[r] \in State /\ CallKind(call[r])
  BY SlotKnown
<1>z. 0 \in 0 .. Full
  BY WorkflowAssumption
<1>1. ASSUME NEW o \in ProductionOrder, NEW link \in BOOLEAN, CreateProductionOrder(r, o, link)
      PROVE  TypeInv'
  <2>1. call' \in [Call -> State] /\ CallsKnown'
    <3>1. CASE link
      <4>1. Doing("follow", "createOf", o, "IN_PRODUCTION", 0, "NONE") \in State
        BY <1>z, DoingIsState DEF Steps, Op, SalesStatus
      <4>2. CallKind(Doing("follow", "createOf", o, "IN_PRODUCTION", 0, "NONE"))
        BY DEF CallKind, Doing, SalesStatus
      <4> QED
        BY <1>1, <3>1, <4>1, <4>2, OneSlot DEF CreateProductionOrder, Begin
    <3>2. CASE ~link
      BY <1>1, <3>2 DEF CreateProductionOrder, CallsKnown
    <3> QED
      BY <3>1, <3>2
  <2>2. \A s \in {"PLANNED"} \cup EditOf : s \in OfStatus
    BY WorkflowAssumption DEF OfStatus
  <2> QED
    BY <1>1, <2>1, <2>2 DEF CreateProductionOrder, sales
<1>2. ASSUME NEW o \in ProductionOrder, EditProductionOrder(r, o) PROVE TypeInv'
  <2>1. \A s \in EditOf \cup {ofStatus[o]} : s \in OfStatus \cup {"ABSENT"}
    BY WorkflowAssumption
  <2>2. \A l \in EditLink \cup {linked[o]} : l \in BOOLEAN
    BY WorkflowAssumption
  <2>3. ofStatus' \in [ProductionOrder -> OfStatus \cup {"ABSENT"}]
    BY <1>2, <2>1 DEF EditProductionOrder
  <2>4. linked' \in [ProductionOrder -> BOOLEAN]
    BY <1>2, <2>2 DEF EditProductionOrder
  <2> QED
    BY <1>2, <2>3, <2>4 DEF EditProductionOrder, sales, CallsKnown
<1>3. ASSUME NEW o \in ProductionOrder, NEW p \in 0 .. Full, NEW s \in OfStatus \cup {"NONE"},
             ReadProgress(r, o, p, s)
      PROVE  TypeInv'
  <2>1. NextOfStatus(p, s) \in OfStatus \cup {"NONE"}
    BY DEF NextOfStatus, OfStatus
  <2>z. ofStatus[o] \in OfStatus
    BY <1>3 DEF ReadProgress, ProgressAllowed, Unlocked
  <2>2. Doing("progressWrite", "progress", o, NextOfStatus(p, s), p, ofStatus[o]) \in State
    BY <2>1, <2>z, DoingIsState DEF Steps, Op
  <2>3. CallKind(Doing("progressWrite", "progress", o, NextOfStatus(p, s), p, ofStatus[o]))
    BY <2>1 DEF CallKind, Doing
  <2> QED
    BY <1>3, <2>2, <2>3, OneSlot DEF ReadProgress, sales, workshop
<1>4. ASSUME NEW o \in ProductionOrder, ReadConsume(r, o) PROVE TypeInv'
  <2> DEFINE s == IF ofStatus[o] = "PLANNED" THEN "IN_PROGRESS" ELSE ofStatus[o]
  <2>1. s \in OfStatus
    BY <1>4 DEF ReadConsume, OfStatus
  <2> HIDE DEF s
  <2>z. ofStatus[o] \in OfStatus
    BY <1>4 DEF ReadConsume
  <2>2. Doing("consumeWrite", "consume", o, s, 0, ofStatus[o]) \in State
    BY <1>z, <2>1, <2>z, DoingIsState DEF Steps, Op
  <2>3. CallKind(Doing("consumeWrite", "consume", o, s, 0, ofStatus[o]))
    BY <2>1 DEF CallKind, Doing
  <2>4. Become(r, Doing("consumeWrite", "consume", o, s, 0, ofStatus[o]))
    BY <1>4 DEF ReadConsume, s
  <2> QED
    BY <1>4, <2>2, <2>3, <2>4, OneSlot DEF ReadConsume, sales, workshop
<1>5. ASSUME NEW o \in ProductionOrder, UpsertStages(r, o) PROVE TypeInv'
  BY <1>5 DEF UpsertStages, sales, CallsKnown
<1>6. ASSUME NEW o \in ProductionOrder, ReadQuality(r, o) PROVE TypeInv'
  <2>1. Doing("qualityWrite", "quality", o, "NONE", 0, "NONE") \in State
    BY <1>z, DoingIsState DEF Steps, Op
  <2>2. CallKind(Doing("qualityWrite", "quality", o, "NONE", 0, "NONE"))
    BY DEF CallKind, Doing
  <2> QED
    BY <1>6, <2>1, <2>2, OneSlot DEF ReadQuality, Begin, sales, workshop
<1>7. CASE WriteProgress(r)
  <2>1. /\ call[r].on \in ProductionOrder /\ call[r].reach \in 0 .. Full
        /\ call[r].want \in OfStatus \cup {"NONE"}
    BY <1>0, <1>7 DEF CallKind, WriteProgress, State
  <2>2. StatusAfter(call[r].on, call[r].want) \in OfStatus \cup {"ABSENT"}
    BY <2>1 DEF StatusAfter
  <2> QED
    BY <1>7, <2>1, <2>2, EndOfCall DEF WriteProgress, sales
<1>8. CASE WriteConsume(r)
  <2>1. call[r].on \in ProductionOrder /\ call[r].want \in OfStatus
    BY <1>0, <1>8 DEF CallKind, WriteConsume
  <2> QED
    BY <1>8, <2>1, EndOfCall DEF WriteConsume, sales
<1>9. CASE WriteQuality(r)
  BY <1>9, EndOfCall DEF WriteQuality, sales
<1> QED
  BY <1>1, <1>2, <1>3, <1>4, <1>5, <1>6, <1>7, <1>8, <1>9, WorkflowAssumption DEF WorkshopCall

LEMMA DeliveryCallType ==
  ASSUME TypeInv, NEW r \in Call, DeliveryCall(r)
  PROVE  TypeInv'
<1> USE DEF TypeInv, TypeOK
<1>0. call[r] \in State /\ CallKind(call[r])
  BY SlotKnown
<1>z. 0 \in 0 .. Full
  BY WorkflowAssumption
<1>b. ASSUME NEW d \in Delivery, NEW s \in DeliveryStatus, NEW op \in {"create", "edit"},
             BeginDelivery(r, op, d, s)
      PROVE  TypeInv'
  <2> DEFINE at == IF s \in Shipping THEN "inspect" ELSE "shipWrite"
  <2>1. at \in Steps /\ op \in Op
    BY DEF Steps, Op
  <2>2. at # "follow" /\ at \in {"inspect", "shipWrite"}
    OBVIOUS
  <2>3. Become(r, Doing(at, op, d, s, 0, "NONE"))
    BY <1>b DEF BeginDelivery, Begin
  <2> HIDE DEF at
  <2>4. Doing(at, op, d, s, 0, "NONE") \in State
    BY <1>z, <2>1, DoingIsState
  <2>5. CallKind(Doing(at, op, d, s, 0, "NONE"))
    BY <2>2 DEF CallKind, Doing
  <2> QED
    BY <1>b, <2>3, <2>4, <2>5, OneSlot DEF BeginDelivery, sales, workshop
<1>1. ASSUME NEW d \in Delivery, CreateDelivery(r, d) PROVE TypeInv'
  <2>1. PICK s \in {"PLANNED"} \cup EditDeliveryTo : BeginDelivery(r, "create", d, s)
    BY <1>1 DEF CreateDelivery
  <2>2. s \in DeliveryStatus
    BY WorkflowAssumption DEF DeliveryStatus
  <2> QED
    BY <1>b, <2>1, <2>2
<1>2. ASSUME NEW d \in Delivery, EditDelivery(r, d) PROVE TypeInv'
  BY <1>b, <1>2, WorkflowAssumption DEF EditDelivery
<1>3. ASSUME NEW d \in Delivery, ReadMarkDelivered(r, d) PROVE TypeInv'
  <2>1. deliveryStatus[d] \in DeliveryStatus
    BY <1>3 DEF ReadMarkDelivered
  <2>2. Doing("inspect", "mark", d, "DELIVERED", 0, deliveryStatus[d]) \in State
    BY <1>z, <2>1, DoingIsState DEF Steps, Op, DeliveryStatus
  <2>3. CallKind(Doing("inspect", "mark", d, "DELIVERED", 0, deliveryStatus[d]))
    BY DEF CallKind, Doing, DeliveryStatus
  <2> QED
    BY <1>3, <2>2, <2>3, OneSlot DEF ReadMarkDelivered, sales, workshop
<1>4. ASSUME NEW d \in Delivery, RemoveDelivery(r, d) PROVE TypeInv'
  BY <1>4 DEF RemoveDelivery, sales, workshop, CallsKnown
<1>5. CASE CheckQuality(r)
  <2>1. CASE call' = [call EXCEPT ![r].at = "shipWrite", ![r].vetted = LiveOrders]
    <3>0. PICK c : c = [[call[r] EXCEPT !.at = "shipWrite"] EXCEPT !.vetted = LiveOrders]
      OBVIOUS
    <3>1. c \in State /\ CallKind(c)
      <4>1. LiveOrders \in SUBSET ProductionOrder
        BY DEF LiveOrders
      <4> QED
        BY <1>0, <1>5, <3>0, <4>1 DEF CallKind, CheckQuality, State, Steps
    <3>2. call' \in [Call -> State] /\ CallsKnown'
      BY <2>1, <3>0, <3>1, OneSlot DEF Become
    <3> QED
      BY <1>5, <3>2 DEF CheckQuality, sales, workshop
  <2>2. CASE End(r)
    BY <1>5, <2>2, EndOfCall DEF CheckQuality, sales, workshop
  <2> QED
    BY <1>5, <2>1, <2>2 DEF CheckQuality
<1>6. CASE WriteShipment(r)
  <2>1. call[r].on \in Delivery /\ call[r].want \in DeliveryStatus
    BY <1>0, <1>6 DEF CallKind, WriteShipment
  <2>2. call' \in [Call -> State] /\ CallsKnown'
    <3>1. Doing("follow", "mark", call[r].on, "DELIVERED", 0, "NONE") \in State
      BY <1>z, <2>1, DoingIsState DEF Steps, Op, SalesStatus
    <3>2. CallKind(Doing("follow", "mark", call[r].on, "DELIVERED", 0, "NONE"))
      BY DEF CallKind, Doing, SalesStatus
    <3> QED
      BY <1>6, <3>1, <3>2, OneSlot, EndOfCall DEF WriteShipment
  <2> QED
    BY <1>6, <2>1, <2>2 DEF WriteShipment, sales, workshop
<1> QED
  BY <1>1, <1>2, <1>3, <1>4, <1>5, <1>6 DEF DeliveryCall

LEMMA TypeInvStep == TypeInv /\ [Next]_vars => TypeInv'
<1> SUFFICES ASSUME TypeInv, [Next]_vars PROVE TypeInv'
  OBVIOUS
<1>1. ASSUME NEW r \in Call, CreateFinalInvoice(r) PROVE TypeInv'
  <2>1. Doing("follow", "invoice", None, "INVOICED", 0, "NONE") \in State
    BY WorkflowAssumption, DoingIsState DEF Steps, Op, SalesStatus
  <2>2. CallKind(Doing("follow", "invoice", None, "INVOICED", 0, "NONE"))
    BY DEF CallKind, Doing, SalesStatus
  <2> QED
    BY <1>1, <2>1, <2>2, OneSlot
    DEF TypeInv, TypeOK, CreateFinalInvoice, Begin, sales, workshop
<1>2. ASSUME NEW r \in Call, Abort(r) PROVE TypeInv'
  BY <1>2, EndOfCall DEF TypeInv, TypeOK, Abort, sales, workshop
<1>3. CASE UNCHANGED vars
  BY <1>3 DEF TypeInv, TypeOK, vars, sales, workshop, CallsKnown
<1> QED
  BY <1>1, <1>2, <1>3, SalesCallType, WorkshopCallType, DeliveryCallType DEF Next

\* Every row and every memory of a call keeps its type, and a call that is about
\* to write knows a document that it can write and a status that fits it.
THEOREM TypeCorrect == Spec => []TypeOK
<1>1. Spec => []TypeInv
  BY TypeInvInit, TypeInvStep, PTL DEF Spec
<1>2. TypeInv => TypeOK
  BY DEF TypeInv
<1> QED
  BY <1>1, <1>2, PTL

-----------------------------------------------------------------------------
(* The gates, for calls that overlap in any way, with any PATCH.           *)

\* What a call checked before the write it is about to make, and what no other
\* call can undo: approvals are never taken back, and a call remembers what it
\* has read.
Checked(c) ==
  /\ c.at = "statusWrite" /\ c.want = "IN_PRODUCTION" /\ batRequired /\ "batRequired" \notin typed
       => batApproved
  /\ c.at = "progressWrite" => c.seen # "COMPLETED"
  /\ c.at = "consumeWrite" /\ c.seen = "COMPLETED" => c.want = "COMPLETED"
  /\ c.at = "shipWrite" /\ c.want \in Shipping => \A o \in c.vetted : approved[o]

CheckedInv == TypeInv /\ (\A r \in Call : Checked(call[r])) /\ BatGate

\* The columns that the checks rest on only move their way.
Holds ==
  /\ batRequired' /\ "batRequired" \notin typed' => batRequired /\ "batRequired" \notin typed
  /\ batApproved => batApproved'
  /\ \A o \in ProductionOrder : approved[o] => approved'[o]

LEMMA CheckedInit == Init => CheckedInv
<1> SUFFICES ASSUME Init PROVE CheckedInv
  OBVIOUS
<1>1. \A r \in Call : Checked(call[r])
  BY DEF Init, Checked, Idle, Doing
<1>2. BatGate
  BY DEF Init, BatGate
<1> QED
  BY <1>1, <1>2, TypeInvInit DEF CheckedInv

LEMMA CheckedStays ==
  ASSUME NEW c \in State, Checked(c), Holds
  PROVE  Checked(c)'
<1>1. \A o \in c.vetted : o \in ProductionOrder
  BY DEF State
<1> QED
  BY <1>1 DEF Checked, Holds

\* A step that changes what one slot remembers, to something it has checked.
LEMMA CheckedSlot ==
  ASSUME CheckedInv, TypeInv', Holds, BatGate', NEW r \in Call, NEW c, Become(r, c), Checked(c)'
  PROVE  CheckedInv'
<1>1. \A q \in Call : call[q] \in State /\ Checked(call[q])
  BY DEF CheckedInv, TypeInv, TypeOK
<1>2. \A q \in Call : call'[q] = IF q = r THEN c ELSE call[q]
  BY DEF CheckedInv, TypeInv, TypeOK, Become
<1>3. ASSUME NEW q \in Call PROVE Checked(call[q])'
  <2>1. CASE q = r
    BY <1>2, <2>1
  <2>2. CASE q # r
    <3>1. PICK k : k = call[q]
      OBVIOUS
    <3>2. Checked(k)'
      BY <1>1, <3>1, CheckedStays
    <3>3. call'[q] = k
      BY <1>2, <2>2, <3>1
    <3> QED
      BY <3>2, <3>3
  <2> QED
    BY <2>1, <2>2
<1> QED
  BY <1>3 DEF CheckedInv

\* A step that leaves the sales order and the approvals alone.
LEMMA CheckedQuiet ==
  ASSUME CheckedInv, UNCHANGED <<sales, approved>>
  PROVE  Holds /\ BatGate'
  BY DEF Holds, BatGate, CheckedInv, sales

LEMMA CheckedSame ==
  ASSUME CheckedInv, TypeInv', Holds, BatGate', UNCHANGED call
  PROVE  CheckedInv'
<1>1. \A q \in Call : call[q] \in State /\ Checked(call[q])
  BY DEF CheckedInv, TypeInv, TypeOK
<1>2. ASSUME NEW q \in Call PROVE Checked(call[q])'
  <2>1. PICK k : k = call[q]
    OBVIOUS
  <2>2. Checked(k)' /\ call'[q] = k
    BY <1>1, <2>1, CheckedStays
  <2> QED
    BY <2>2
<1> QED
  BY <1>2 DEF CheckedInv

LEMMA IdleIsChecked == Checked(Idle)'
  BY DEF Checked, Idle, Doing

LEMMA CheckedSales ==
  ASSUME CheckedInv, TypeInv', NEW r \in Call, SalesCall(r)
  PROVE  CheckedInv'
<1>0. call \in [Call -> State] /\ TypeInv
  BY DEF CheckedInv, TypeInv, TypeOK
<1>1. ASSUME NEW s \in SalesStatus, ReadStatus(r, s) PROVE CheckedInv'
  <2>1. Checked(Doing("statusWrite", "status", None, s, 0, "NONE"))'
    BY <1>1 DEF ReadStatus, StatusAllowed, Checked, Doing, sales
  <2> QED
    BY <1>1, <2>1, CheckedQuiet, CheckedSlot DEF ReadStatus, Begin, workshop
<1>2. CASE FollowUp(r)
  <2>0. Holds /\ BatGate'
    BY <1>2, CheckedQuiet DEF FollowUp, workshop
  <2>1. CASE StatusAllowed(call[r].want)
    <3>1. PICK c : c = [call[r] EXCEPT !.at = "statusWrite"]
      OBVIOUS
    <3>2. Become(r, c)
      BY <1>0, <1>2, <2>1, <3>1 DEF FollowUp, Continue, Become
    <3>3. c.at = "statusWrite" /\ c.want = call[r].want
      BY <1>0, <3>1 DEF State
    <3>4. Checked(c)'
      BY <1>2, <2>1, <3>3 DEF Checked, StatusAllowed, FollowUp, sales
    <3> QED
      BY <2>0, <3>2, <3>4, CheckedSlot
  <2>2. CASE End(r)
    BY <2>0, <2>2, IdleIsChecked, CheckedSlot DEF End
  <2> QED
    BY <1>2, <2>1, <2>2 DEF FollowUp
<1>3. CASE WriteStatus(r)
  <2>1. Holds
    BY <1>3 DEF WriteStatus, Holds, workshop
  <2>2. BatGate'
    <3>1. Checked(call[r]) /\ call[r].at = "statusWrite"
      BY <1>3 DEF CheckedInv, WriteStatus
    <3>2. ASSUME orderStatus' = "IN_PRODUCTION", batRequired', typed' = {} PROVE batApproved'
      <4>1. call[r].want = "IN_PRODUCTION" /\ batRequired
        BY <1>3, <3>2 DEF WriteStatus
      <4>2. "batRequired" \notin typed
        BY <1>3, <3>2 DEF WriteStatus
      <4> QED
        BY <1>3, <3>1, <4>1, <4>2 DEF Checked, WriteStatus
    <3> QED
      BY <3>2 DEF BatGate
  <2> QED
    BY <1>3, <2>1, <2>2, IdleIsChecked, CheckedSlot DEF WriteStatus, End
<1>4. CASE EditSalesOrder(r)
  <2>1. PICK s \in EditStatus \cup {None}, b \in EditBat \cup {None} :
          /\ orderStatus' = IF s = None THEN orderStatus ELSE s
          /\ batRequired' = IF b = None THEN batRequired ELSE b
          /\ typed' = typed \cup {c \in {"status"} : s # None}
                           \cup {c \in {"batRequired"} : b = TRUE /\ ~batRequired}
    BY <1>4 DEF EditSalesOrder
  <2>2. UNCHANGED <<batApproved, workshop, call>>
    BY <1>4 DEF EditSalesOrder
  <2>3. batRequired' = TRUE /\ "batRequired" \notin typed'
          => batRequired = TRUE /\ "batRequired" \notin typed
    BY <1>0, <2>1, WorkflowAssumption DEF TypeInv, TypeOK
  <2>4. batRequired \in BOOLEAN /\ batRequired' \in BOOLEAN
    BY DEF CheckedInv, TypeInv, TypeOK
  <2>5. Holds
    BY <2>2, <2>3, <2>4 DEF Holds, workshop
  <2>6. BatGate'
    <3>1. ASSUME orderStatus' = "IN_PRODUCTION", batRequired', typed' = {} PROVE batApproved'
      <4>1. typed = {} /\ s = None
        BY <2>1, <3>1
      <4>2. orderStatus = "IN_PRODUCTION" /\ batRequired
        BY <2>1, <2>3, <2>4, <3>1, <4>1
      <4> QED
        BY <2>2, <4>1, <4>2 DEF CheckedInv, BatGate
    <3> QED
      BY <3>1 DEF BatGate
  <2> QED
    BY <2>2, <2>5, <2>6, CheckedSame
<1>5. CASE ReadSendBat(r)
  <2>1. Checked(Doing("sendWrite", "bat", None, "NONE", 0, "NONE"))'
    BY DEF Checked, Doing
  <2> QED
    BY <1>5, <2>1, CheckedQuiet, CheckedSlot DEF ReadSendBat, Begin, workshop
<1>6. CASE WriteSendBat(r)
  <2>1. Holds /\ BatGate'
    BY <1>6 DEF WriteSendBat, Holds, BatGate, CheckedInv, workshop
  <2> QED
    BY <1>6, <2>1, IdleIsChecked, CheckedSlot DEF WriteSendBat, End
<1>7. CASE ReadApproveBat(r)
  <2>1. Checked(Doing("approveWrite", "bat", None, "NONE", 0, "NONE"))'
    BY DEF Checked, Doing
  <2> QED
    BY <1>7, <2>1, CheckedQuiet, CheckedSlot DEF ReadApproveBat, Begin, workshop
<1>8. CASE WriteApproveBat(r)
  <2>1. Holds /\ BatGate'
    BY <1>8 DEF WriteApproveBat, Holds, BatGate, CheckedInv, workshop
  <2> QED
    BY <1>8, <2>1, IdleIsChecked, CheckedSlot DEF WriteApproveBat, End
<1> QED
  BY <1>1, <1>2, <1>3, <1>4, <1>5, <1>6, <1>7, <1>8, WorkflowAssumption DEF SalesCall

LEMMA CheckedWorkshop ==
  ASSUME CheckedInv, TypeInv', NEW r \in Call, WorkshopCall(r)
  PROVE  CheckedInv'
<1>0. call \in [Call -> State] /\ TypeInv
  BY DEF CheckedInv, TypeInv, TypeOK
<1>1. ASSUME NEW o \in ProductionOrder, NEW link \in BOOLEAN, CreateProductionOrder(r, o, link)
      PROVE  CheckedInv'
  <2>0. Holds /\ BatGate'
    BY <1>1, CheckedQuiet DEF CreateProductionOrder
  <2>1. Checked(Doing("follow", "createOf", o, "IN_PRODUCTION", 0, "NONE"))'
    BY DEF Checked, Doing
  <2> QED
    BY <1>1, <2>0, <2>1, CheckedSlot, CheckedSame DEF CreateProductionOrder, Begin
<1>2. ASSUME NEW o \in ProductionOrder, EditProductionOrder(r, o) PROVE CheckedInv'
  BY <1>2, CheckedQuiet, CheckedSame DEF EditProductionOrder
<1>3. ASSUME NEW o \in ProductionOrder, NEW p \in 0 .. Full, NEW s \in OfStatus \cup {"NONE"},
             ReadProgress(r, o, p, s)
      PROVE  CheckedInv'
  <2>1. PICK c : c = Doing("progressWrite", "progress", o, NextOfStatus(p, s), p, ofStatus[o])
    OBVIOUS
  <2>2. c.at = "progressWrite" /\ c.seen # "COMPLETED"
    BY <1>3, <2>1 DEF ReadProgress, ProgressAllowed, Unlocked, Doing
  <2>3. Checked(c)'
    BY <2>2 DEF Checked
  <2> QED
    BY <1>3, <2>1, <2>3, CheckedQuiet, CheckedSlot DEF ReadProgress, workshop
<1>4. ASSUME NEW o \in ProductionOrder, ReadConsume(r, o) PROVE CheckedInv'
  <2>1. PICK c : c = Doing("consumeWrite", "consume", o,
                           IF ofStatus[o] = "PLANNED" THEN "IN_PROGRESS" ELSE ofStatus[o],
                           0, ofStatus[o])
    OBVIOUS
  <2>2. c.at = "consumeWrite" /\ (c.seen = "COMPLETED" => c.want = "COMPLETED")
    BY <2>1 DEF Doing
  <2>3. Checked(c)'
    BY <2>2 DEF Checked
  <2> QED
    BY <1>4, <2>1, <2>3, CheckedQuiet, CheckedSlot DEF ReadConsume, workshop
<1>5. ASSUME NEW o \in ProductionOrder, UpsertStages(r, o) PROVE CheckedInv'
  BY <1>5, CheckedQuiet, CheckedSame DEF UpsertStages
<1>6. ASSUME NEW o \in ProductionOrder, ReadQuality(r, o) PROVE CheckedInv'
  <2>1. Checked(Doing("qualityWrite", "quality", o, "NONE", 0, "NONE"))'
    BY DEF Checked, Doing
  <2> QED
    BY <1>6, <2>1, CheckedQuiet, CheckedSlot DEF ReadQuality, Begin, workshop
<1>7. CASE WriteProgress(r) \/ WriteConsume(r)
  BY <1>7, CheckedQuiet, IdleIsChecked, CheckedSlot DEF WriteProgress, WriteConsume, End
<1>8. CASE WriteQuality(r)
  <2>1. approved' = [approved EXCEPT ![call[r].on] = TRUE] /\ UNCHANGED sales
    BY <1>8 DEF WriteQuality
  <2>2. \A o \in ProductionOrder : approved[o] => approved'[o]
    BY <1>0, <2>1 DEF TypeInv, TypeOK
  <2>3. Holds /\ BatGate'
    BY <2>1, <2>2 DEF Holds, BatGate, CheckedInv, sales
  <2> QED
    BY <1>8, <2>3, IdleIsChecked, CheckedSlot DEF WriteQuality, End
<1> QED
  BY <1>1, <1>2, <1>3, <1>4, <1>5, <1>6, <1>7, <1>8, WorkflowAssumption DEF WorkshopCall

LEMMA CheckedDelivery ==
  ASSUME CheckedInv, TypeInv', NEW r \in Call, DeliveryCall(r)
  PROVE  CheckedInv'
<1>0. call \in [Call -> State] /\ TypeInv
  BY DEF CheckedInv, TypeInv, TypeOK
<1>1. ASSUME NEW op, NEW d, NEW s, BeginDelivery(r, op, d, s) PROVE CheckedInv'
  <2>1. PICK c : c = Doing(IF s \in Shipping THEN "inspect" ELSE "shipWrite", op, d, s, 0, "NONE")
    OBVIOUS
  <2>2. Checked(c)'
    BY <2>1 DEF Checked, Doing
  <2> QED
    BY <1>1, <2>1, <2>2, CheckedQuiet, CheckedSlot DEF BeginDelivery, Begin, workshop
<1>2. ASSUME NEW d \in Delivery, ReadMarkDelivered(r, d) PROVE CheckedInv'
  <2>1. PICK c : c = Doing("inspect", "mark", d, "DELIVERED", 0, deliveryStatus[d])
    OBVIOUS
  <2>2. Checked(c)'
    BY <2>1 DEF Checked, Doing
  <2> QED
    BY <1>2, <2>1, <2>2, CheckedQuiet, CheckedSlot DEF ReadMarkDelivered, workshop
<1>3. ASSUME NEW d \in Delivery, RemoveDelivery(r, d) PROVE CheckedInv'
  BY <1>3, CheckedQuiet, CheckedSame DEF RemoveDelivery, workshop
<1>4. CASE CheckQuality(r)
  <2>0. Holds /\ BatGate'
    BY <1>4, CheckedQuiet DEF CheckQuality, workshop
  <2>1. CASE ~QualityPending /\ call' = [call EXCEPT ![r].at = "shipWrite", ![r].vetted = LiveOrders]
    <3>1. PICK c : c = [[call[r] EXCEPT !.at = "shipWrite"] EXCEPT !.vetted = LiveOrders]
      OBVIOUS
    <3>2. Become(r, c)
      BY <1>0, <2>1, <3>1 DEF Become
    <3>3. c.at = "shipWrite" /\ c.vetted = LiveOrders
      BY <1>0, <3>1 DEF State
    <3>4. \A o \in LiveOrders : approved'[o]
      BY <1>4, <2>1 DEF QualityPending, CheckQuality, workshop
    <3>5. Checked(c)'
      BY <3>3, <3>4 DEF Checked
    <3> QED
      BY <2>0, <3>2, <3>5, CheckedSlot
  <2>2. CASE End(r)
    BY <2>0, <2>2, IdleIsChecked, CheckedSlot DEF End
  <2> QED
    BY <1>4, <2>1, <2>2 DEF CheckQuality
<1>5. CASE WriteShipment(r)
  <2>0. Holds /\ BatGate'
    BY <1>5, CheckedQuiet DEF WriteShipment, workshop
  <2>1. CASE End(r)
    BY <2>0, <2>1, IdleIsChecked, CheckedSlot DEF End
  <2>2. CASE Become(r, Doing("follow", "mark", call[r].on, "DELIVERED", 0, "NONE"))
    <3>1. PICK c : c = Doing("follow", "mark", call[r].on, "DELIVERED", 0, "NONE")
      OBVIOUS
    <3>2. Checked(c)'
      BY <3>1 DEF Checked, Doing
    <3> QED
      BY <2>0, <2>2, <3>1, <3>2, CheckedSlot
  <2> QED
    BY <1>5, <2>1, <2>2 DEF WriteShipment
<1> QED
  BY <1>1, <1>2, <1>3, <1>4, <1>5 DEF DeliveryCall, CreateDelivery, EditDelivery

LEMMA CheckedStep == CheckedInv /\ [Next]_vars => CheckedInv'
<1> SUFFICES ASSUME CheckedInv, [Next]_vars PROVE CheckedInv'
  OBVIOUS
<1>0. TypeInv'
  BY TypeInvStep DEF CheckedInv
<1>1. ASSUME NEW r \in Call, CreateFinalInvoice(r) PROVE CheckedInv'
  <2>1. Checked(Doing("follow", "invoice", None, "INVOICED", 0, "NONE"))'
    BY DEF Checked, Doing
  <2> QED
    BY <1>0, <1>1, <2>1, CheckedQuiet, CheckedSlot DEF CreateFinalInvoice, Begin, workshop
<1>2. ASSUME NEW r \in Call, Abort(r) PROVE CheckedInv'
  BY <1>0, <1>2, CheckedQuiet, IdleIsChecked, CheckedSlot DEF Abort, End, workshop
<1>3. CASE UNCHANGED vars
  BY <1>0, <1>3, CheckedQuiet, CheckedSame DEF vars, workshop
<1> QED
  BY <1>0, <1>1, <1>2, <1>3, CheckedSales, CheckedWorkshop, CheckedDelivery DEF Next

LEMMA CheckedAlways == Spec => []CheckedInv
  BY CheckedInit, CheckedStep, PTL DEF Spec

\* The calls about the sales order touch no other document.
LEMMA SalesCallsAlone ==
  ASSUME NEW r \in Call, SalesCall(r)
  PROVE  UNCHANGED <<workshop, deliveryStatus>>
  BY DEF SalesCall, ReadStatus, FollowUp, WriteStatus, EditSalesOrder, ReadSendBat,
     WriteSendBat, ReadApproveBat, WriteApproveBat

\* However calls and PATCHes overlap, an order that requires a BAT since its
\* creation is launched by a checked route only with an approved BAT: updateStatus
\* checks in one round trip and writes in another, which is safe because no route
\* takes an approval back.
THEOREM BatGateHolds == Spec => []BatGate
<1>1. CheckedInv => BatGate
  BY DEF CheckedInv
<1> QED
  BY <1>1, CheckedAlways, PTL

\* However calls and PATCHes overlap, a delivery starts to ship only when every
\* production order that its check covered, and that still counts, is approved.
THEOREM QualityGateHolds == Spec => QualityGate
<1> DEFINE Gate ==
      \A d \in Delivery :
        (deliveryStatus[d] \notin Shipping /\ deliveryStatus'[d] \in Shipping)
          => \E r \in Call :
               /\ call[r].at = "shipWrite" /\ call[r].on = d /\ call'[r] # call[r]
               /\ \A o \in LiveOrders : approved[o] \/ o \notin call[r].vetted
<1>1. CheckedInv /\ [Next]_vars => [Gate]_vars
  <2> SUFFICES ASSUME CheckedInv, [Next]_vars, NEW d \in Delivery,
                      deliveryStatus[d] \notin Shipping, deliveryStatus'[d] \in Shipping
               PROVE  \E r \in Call :
                        /\ call[r].at = "shipWrite" /\ call[r].on = d /\ call'[r] # call[r]
                        /\ \A o \in LiveOrders : approved[o] \/ o \notin call[r].vetted
    OBVIOUS
  <2>0. TypeInv /\ call \in [Call -> State] /\ deliveryStatus \in [Delivery -> DeliveryStatus \cup {"ABSENT"}]
    BY DEF CheckedInv, TypeInv, TypeOK
  <2>1. PICK r \in Call : WriteShipment(r) \/ \E e \in Delivery : RemoveDelivery(r, e)
    BY SalesCallsAlone
    DEF Next, WorkshopCall, DeliveryCall, CreateProductionOrder, EditProductionOrder, ReadProgress, ReadConsume, UpsertStages,
       ReadQuality, WriteProgress, WriteConsume, WriteQuality, CreateDelivery, EditDelivery,
       BeginDelivery, ReadMarkDelivered, CheckQuality, CreateFinalInvoice, Abort, vars
  <2>2. CASE WriteShipment(r)
    <3>1. call[r].at = "shipWrite" /\ call[r].on = d /\ call[r].want \in Shipping
      BY <2>0, <2>2 DEF WriteShipment
    <3>2. \A o \in LiveOrders : approved[o] \/ o \notin call[r].vetted
      BY <3>1 DEF CheckedInv, Checked
    <3>3. call'[r].at # "shipWrite"
      BY <2>0, <2>2 DEF WriteShipment, End, Become, Idle, Doing
    <3> QED
      BY <3>1, <3>2, <3>3
  <2>3. ASSUME NEW e \in Delivery, RemoveDelivery(r, e) PROVE FALSE
    BY <2>0, <2>3 DEF RemoveDelivery, Shipping
  <2> QED
    BY <2>1, <2>2, <2>3
<1> QED
  BY <1>1, CheckedAlways, PTL DEF Spec, QualityGate

\* However calls and PATCHes overlap, a production order, approved or not, leaves
\* COMPLETED only by a PATCH of it or by a write decided before it was completed.
THEOREM CompletedOrdersAreLocked == Spec => CompletedIsLocked
<1> DEFINE Lock ==
      \A o \in ProductionOrder :
        (ofStatus[o] = "COMPLETED" /\ ofStatus'[o] # "COMPLETED")
          => \E r \in Call :
               \/ EditProductionOrder(r, o)
               \/ /\ call[r].at \in {"progressWrite", "consumeWrite"}
                  /\ call[r].on = o /\ call[r].seen # "COMPLETED"
                  /\ call'[r] # call[r]
<1>1. CheckedInv /\ [Next]_vars => [Lock]_vars
  <2> SUFFICES ASSUME CheckedInv, [Next]_vars, NEW o \in ProductionOrder,
                      ofStatus[o] = "COMPLETED", ofStatus'[o] # "COMPLETED"
               PROVE  \E r \in Call :
                        \/ EditProductionOrder(r, o)
                        \/ /\ call[r].at \in {"progressWrite", "consumeWrite"}
                           /\ call[r].on = o /\ call[r].seen # "COMPLETED"
                           /\ call'[r] # call[r]
    OBVIOUS
  <2>0. /\ call \in [Call -> State] /\ \A q \in Call : Checked(call[q])
        /\ ofStatus \in [ProductionOrder -> OfStatus \cup {"ABSENT"}]
    BY DEF CheckedInv, TypeInv, TypeOK
  <2>1. PICK r \in Call :
          \/ WriteProgress(r) \/ WriteConsume(r)
          \/ \E e \in ProductionOrder :
               EditProductionOrder(r, e) \/ \E link \in BOOLEAN : CreateProductionOrder(r, e, link)
    BY SalesCallsAlone
    DEF Next, WorkshopCall, DeliveryCall, ReadProgress, ReadConsume, UpsertStages, ReadQuality, WriteQuality, CreateDelivery,
       EditDelivery, BeginDelivery, ReadMarkDelivered, RemoveDelivery, CheckQuality,
       WriteShipment, CreateFinalInvoice, Abort, vars, workshop
  <2>2. CASE WriteProgress(r)
    <3>1. call[r].at = "progressWrite" /\ call[r].on = o
      BY <2>0, <2>2 DEF WriteProgress
    <3>2. call'[r].at # "progressWrite"
      BY <2>0, <2>2 DEF WriteProgress, End, Become, Idle, Doing
    <3> QED
      BY <2>0, <3>1, <3>2 DEF Checked
  <2>3. CASE WriteConsume(r)
    <3>1. call[r].at = "consumeWrite" /\ call[r].on = o /\ call[r].want # "COMPLETED"
      BY <2>0, <2>3 DEF WriteConsume
    <3>2. call'[r].at # "consumeWrite"
      BY <2>0, <2>3 DEF WriteConsume, End, Become, Idle, Doing
    <3> QED
      BY <2>0, <3>1, <3>2 DEF Checked
  <2>4. ASSUME NEW e \in ProductionOrder, EditProductionOrder(r, e) PROVE EditProductionOrder(r, o)
    BY <2>0, <2>4 DEF EditProductionOrder
  <2>5. ASSUME NEW e \in ProductionOrder, NEW link \in BOOLEAN, CreateProductionOrder(r, e, link)
        PROVE  FALSE
    BY <2>0, <2>5 DEF CreateProductionOrder
  <2> QED
    BY <2>1, <2>2, <2>3, <2>4, <2>5
<1> QED
  BY <1>1, CheckedAlways, PTL DEF Spec, CompletedIsLocked

-----------------------------------------------------------------------------
(* Whole numbers of days.                                                  *)

LEMMA DivBounds ==
  ASSUME NEW a \in Int, NEW n \in Nat \ {0}
  PROVE  /\ a \div n \in Int
         /\ n * (a \div n) <= a
         /\ a < n * (a \div n) + n
  BY Z3

LEMMA TimesMonotone ==
  ASSUME NEW a \in Int, NEW b \in Int, NEW n \in Nat, a <= b
  PROVE  n * a <= n * b
  BY Z3

LEMMA DivIs ==
  ASSUME NEW a \in Int, NEW n \in Nat \ {0}, NEW q \in Int, n * q <= a, a < n * q + n
  PROVE  a \div n = q
<1> DEFINE d == a \div n
<1>1. d \in Int /\ n * d <= a /\ a < n * d + n
  BY DivBounds
<1> HIDE DEF d
<1>2. CASE d < q
  <2>1. d + 1 \in Int /\ d + 1 <= q
    BY <1>1, <1>2
  <2>2. n * (d + 1) <= n * q
    BY <2>1, TimesMonotone
  <2>3. n * (d + 1) = n * d + n
    BY <1>1
  <2> QED
    BY <1>1, <2>2, <2>3
<1>3. CASE q < d
  <2>1. q + 1 \in Int /\ q + 1 <= d
    BY <1>1, <1>3
  <2>2. n * (q + 1) <= n * d
    BY <1>1, <2>1, TimesMonotone
  <2>3. n * (q + 1) = n * q + n
    OBVIOUS
  <2> QED
    BY <1>1, <2>2, <2>3
<1> QED
  BY <1>1, <1>2, <1>3 DEF d

LEMMA DivMonotone ==
  ASSUME NEW a \in Int, NEW b \in Int, NEW n \in Nat \ {0}, a <= b
  PROVE  a \div n <= b \div n
<1> DEFINE d == a \div n
           e == b \div n
<1>1. /\ d \in Int /\ n * d <= a
      /\ e \in Int /\ b < n * e + n
  BY DivBounds
<1> HIDE DEF d, e
<1>2. CASE e < d
  <2>1. e + 1 \in Int /\ e + 1 <= d
    BY <1>1, <1>2
  <2>2. n * (e + 1) <= n * d
    BY <1>1, <2>1, TimesMonotone
  <2>3. n * (e + 1) = n * e + n
    BY <1>1
  <2> QED
    BY <1>1, <2>2, <2>3
<1> QED
  BY <1>1, <1>2 DEF d, e

\* The days of moments.
LEMMA DayOfMoment ==
  ASSUME NEW t \in Int
  PROVE  /\ DayOf(t) \in Int
         /\ DayStart(DayOf(t)) <= t /\ t <= DayEnd(DayOf(t))
<1>1. DayLength \in Nat \ {0}
  BY PlanningAssumption
<1> DEFINE d == t \div DayLength
<1>2. d \in Int /\ DayLength * d <= t /\ t < DayLength * d + DayLength
  BY <1>1, DivBounds
<1>3. DayOf(t) = d
  BY DEF DayOf
<1> HIDE DEF d
<1>4. DayLength * d = d * DayLength
  BY <1>1, <1>2
<1> QED
  BY <1>1, <1>2, <1>3, <1>4 DEF DayStart, DayEnd

LEMMA DayStartMonotone ==
  ASSUME NEW d \in Int, NEW e \in Int, d <= e
  PROVE  /\ DayStart(d) \in Int /\ DayEnd(d) \in Int /\ DayStart(d) <= DayEnd(d)
         /\ DayStart(d) <= DayStart(e) /\ DayEnd(d) <= DayEnd(e)
<1>1. DayLength \in Nat \ {0}
  BY PlanningAssumption
<1>2. /\ DayLength * d <= DayLength * e
      /\ DayLength * d = d * DayLength /\ DayLength * e = e * DayLength
      /\ d * DayLength \in Int /\ e * DayLength \in Int
  BY <1>1, TimesMonotone
<1> QED
  BY <1>1, <1>2 DEF DayStart, DayEnd

LEMMA DayOfMonotone ==
  ASSUME NEW t \in Int, NEW u \in Int, t <= u
  PROVE  DayOf(t) <= DayOf(u) /\ DayStart(DayOf(t)) <= DayStart(DayOf(u))
<1>1. DayOf(t) <= DayOf(u)
  BY DivMonotone, PlanningAssumption DEF DayOf
<1> QED
  BY <1>1, DayOfMoment, DayStartMonotone

\* A moment is before the end of a day when its day is not after it, and after the
\* beginning when its day is not before it.
LEMMA DayBounds ==
  ASSUME NEW t \in Int, NEW d \in Int
  PROVE  /\ t <= DayEnd(d) <=> DayOf(t) <= d
         /\ DayStart(d) <= t <=> d <= DayOf(t)
<1>1. DayLength \in Nat \ {0}
  BY PlanningAssumption
<1>2. ASSUME NEW k \in Int
      PROVE  DayOf(DayStart(k)) = k /\ DayOf(DayEnd(k)) = k
  <2>1. /\ DayLength * k = k * DayLength /\ k * DayLength \in Int
        /\ k * DayLength + DayLength - 1 \in Int
    BY <1>1
  <2> QED
    BY <1>1, <2>1, DivIs DEF DayOf, DayStart, DayEnd
<1>3. DayOf(t) \in Int /\ DayStart(DayOf(t)) <= t /\ t <= DayEnd(DayOf(t))
  BY DayOfMoment
<1>4. t <= DayEnd(d) => DayOf(t) <= d
  BY <1>2, DayStartMonotone, DayOfMonotone
<1>5. DayOf(t) <= d => t <= DayEnd(d)
  BY <1>3, DayStartMonotone
<1>6. DayStart(d) <= t => d <= DayOf(t)
  BY <1>2, DayStartMonotone, DayOfMonotone
<1>7. d <= DayOf(t) => DayStart(d) <= t
  BY <1>3, DayStartMonotone
<1> QED
  BY <1>4, <1>5, <1>6, <1>7

\* The days of the month are those of its moments.
LEMMA MonthBounds ==
  /\ LastTick \in Int /\ LastTick = DayEnd(LastDay) /\ DayStart(0) = 0
  /\ \A t \in Moment : t \in Int /\ DayOf(t) \in Day
<1>1. DayLength \in Nat \ {0} /\ LastDay \in Nat
  BY PlanningAssumption
<1>2. (LastDay + 1) * DayLength = LastDay * DayLength + DayLength /\ LastDay * DayLength \in Int
      /\ 0 * DayLength = 0
  BY <1>1
<1>3. LastTick \in Int /\ LastTick = DayEnd(LastDay) /\ DayStart(0) = 0
  BY <1>1, <1>2 DEF LastTick, DayEnd, DayStart
<1>4. ASSUME NEW t \in Moment
      PROVE  t \in Int /\ DayOf(t) \in Day
  <2>1. t \in Int /\ DayStart(0) <= t /\ t <= DayEnd(LastDay)
    BY <1>3 DEF Moment
  <2>2. 0 <= DayOf(t) /\ DayOf(t) <= LastDay /\ DayOf(t) \in Int
    BY <1>1, <2>1, DayBounds, DayOfMoment
  <2> QED
    BY <2>1, <2>2 DEF Day
<1> QED
  BY <1>3, <1>4

-----------------------------------------------------------------------------
(* The segments of the period of an order.                                 *)

Boundary(start, end, i) == start + (i * (end - start)) \div StageCount

LEMMA BoundaryIs ==
  ASSUME NEW start \in Moment, NEW end \in Moment, start <= end, NEW i \in 0 .. StageCount
  PROVE  /\ Boundary(start, end, i) \in Moment
         /\ start <= Boundary(start, end, i) /\ Boundary(start, end, i) <= end
         /\ i = 0 => Boundary(start, end, i) = start
         /\ i = StageCount => Boundary(start, end, i) = end
<1> DEFINE m == end - start
           n == StageCount
           b == (i * m) \div n
<1>1. /\ n \in Nat \ {0} /\ start \in Int /\ end \in Int /\ m \in Nat /\ i \in Int /\ m \in Int
      /\ 0 <= i /\ i <= n
  BY PlanningAssumption, MonthBounds DEF Moment
<1> HIDE DEF m, n
<1>2. /\ m * 0 <= m * i /\ m * i <= m * n /\ m * 0 = 0
      /\ m * i = i * m /\ m * n = n * m /\ i * m \in Int /\ n * m \in Int /\ n * 0 = 0
  BY <1>1, TimesMonotone
<1>3. 0 \div n = 0 /\ (n * m) \div n = m
  BY <1>1, <1>2, DivIs
<1>4. 0 \div n <= b /\ b <= (n * m) \div n
  BY <1>1, <1>2, DivMonotone
<1>5. b \in Int /\ 0 <= b /\ b <= m
  BY <1>1, <1>2, <1>3, <1>4, DivBounds
<1>6. /\ i = 0 => b = 0
      /\ i = n => b = m
  BY <1>1, <1>2, <1>3
<1>7. Boundary(start, end, i) = start + b
  BY DEF Boundary, m, n
<1> HIDE DEF b
<1>8. /\ start + b \in Int /\ start <= start + b /\ start + b <= end
      /\ i = 0 => start + b = start
      /\ i = n => start + b = end
  BY <1>1, <1>5, <1>6 DEF m
<1>9. start + b \in Moment
  BY <1>1, <1>8, MonthBounds DEF Moment
<1> QED
  BY <1>7, <1>8, <1>9 DEF n

LEMMA BoundaryMonotone ==
  ASSUME NEW start \in Moment, NEW end \in Moment, start <= end,
         NEW i \in 0 .. StageCount, NEW j \in 0 .. StageCount, i <= j
  PROVE  Boundary(start, end, i) <= Boundary(start, end, j)
<1> DEFINE m == end - start
<1>1. /\ StageCount \in Nat \ {0} /\ start \in Int /\ end \in Int /\ m \in Nat /\ m \in Int
      /\ i \in Int /\ j \in Int
  BY PlanningAssumption, MonthBounds DEF Moment
<1> HIDE DEF m
<1>2. m * i <= m * j /\ m * i = i * m /\ m * j = j * m /\ i * m \in Int /\ j * m \in Int
  BY <1>1, TimesMonotone
<1>3. /\ (i * m) \div StageCount <= (j * m) \div StageCount
      /\ (i * m) \div StageCount \in Int /\ (j * m) \div StageCount \in Int
  BY <1>1, <1>2, DivMonotone, DivBounds
<1> QED
  BY <1>1, <1>3 DEF Boundary, m

LEMMA DistributedDates ==
  ASSUME NEW start \in Moment \cup {Null}, NEW end \in Moment \cup {Null}
  PROVE  /\ DistributeStageDates(start, end) \in [Stage -> Stretch]
         /\ start # Null /\ end # Null /\ start < end =>
              \A i \in Stage : /\ DistributeStageDates(start, end)[i].from = Boundary(start, end, i - 1)
                               /\ DistributeStageDates(start, end)[i].to = Boundary(start, end, i)
<1>1. CASE start # Null /\ end # Null /\ start < end
  <2>1. start \in Moment /\ end \in Moment /\ start \in Int /\ end \in Int /\ ~(end <= start)
        /\ start <= end
    BY <1>1, MonthBounds
  <2>2. DistributeStageDates(start, end) =
          [i \in Stage |-> [from |-> Boundary(start, end, i - 1), to |-> Boundary(start, end, i)]]
    BY <1>1, <2>1 DEF DistributeStageDates, Boundary
  <2>3. \A i \in Stage : i - 1 \in 0 .. StageCount /\ i \in 0 .. StageCount
    BY PlanningAssumption DEF Stage
  <2>4. \A i \in Stage : Boundary(start, end, i - 1) \in Moment /\ Boundary(start, end, i) \in Moment
    BY <2>1, <2>3, BoundaryIs
  <2> QED
    BY <2>2, <2>4 DEF Stretch
<1>2. CASE ~(start # Null /\ end # Null /\ start < end)
  <2>1. DistributeStageDates(start, end) = [i \in Stage |-> [from |-> Null, to |-> Null]]
    <3>1. CASE start = Null \/ end = Null
      BY <3>1 DEF DistributeStageDates
    <3>2. CASE ~(start = Null \/ end = Null)
      <4>1. end <= start
        BY <1>2, <3>2, MonthBounds
      <4> QED
        BY <3>2, <4>1 DEF DistributeStageDates
    <3> QED
      BY <3>1, <3>2
  <2> QED
    BY <1>2, <2>1 DEF Stretch
<1> QED
  BY <1>1, <1>2

-----------------------------------------------------------------------------
(* Types.                                                                  *)

LEMMA PlanningTypeInit == PlanningInit => PlanningTypeOK
  BY PlanningAssumption, MonthBounds, DayStartMonotone
  DEF PlanningInit, PlanningTypeOK, Moment

OrderTable == [Order -> OrderRow \cup {Null}]

\* The rows of orders after one more field of one of them is written.
LEMMA FieldWritten ==
  ASSUME NEW f \in OrderTable, NEW o \in Order, f[o] \in OrderRow
  PROVE  /\ \A v \in OrderStatus :
              [f EXCEPT ![o].status = v] \in OrderTable /\ [f EXCEPT ![o].status = v][o] \in OrderRow
         /\ \A v \in Moment \cup {Null} :
              /\ [f EXCEPT ![o].start = v] \in OrderTable /\ [f EXCEPT ![o].start = v][o] \in OrderRow
              /\ [f EXCEPT ![o].end = v] \in OrderTable /\ [f EXCEPT ![o].end = v][o] \in OrderRow
              /\ \A s \in Stage :
                   /\ [f EXCEPT ![o].plan[s].from = v] \in OrderTable
                   /\ [f EXCEPT ![o].plan[s].from = v][o] \in OrderRow
                   /\ [f EXCEPT ![o].plan[s].to = v] \in OrderTable
                   /\ [f EXCEPT ![o].plan[s].to = v][o] \in OrderRow
<1>1. ASSUME NEW v \in OrderStatus
      PROVE  [f EXCEPT ![o].status = v] \in OrderTable /\ [f EXCEPT ![o].status = v][o] \in OrderRow
  BY DEF OrderTable, OrderRow
<1>2. ASSUME NEW v \in Moment \cup {Null}
      PROVE  /\ [f EXCEPT ![o].start = v] \in OrderTable /\ [f EXCEPT ![o].start = v][o] \in OrderRow
             /\ [f EXCEPT ![o].end = v] \in OrderTable /\ [f EXCEPT ![o].end = v][o] \in OrderRow
  BY DEF OrderTable, OrderRow
<1>3. ASSUME NEW v \in Moment \cup {Null}, NEW s \in Stage
      PROVE  /\ [f EXCEPT ![o].plan[s].from = v] \in OrderTable
             /\ [f EXCEPT ![o].plan[s].from = v][o] \in OrderRow
             /\ [f EXCEPT ![o].plan[s].to = v] \in OrderTable
             /\ [f EXCEPT ![o].plan[s].to = v][o] \in OrderRow
  <2>1. f[o].plan \in [Stage -> Stretch] /\ f[o].plan[s] \in Stretch
    BY DEF OrderRow
  <2> DEFINE p == [f[o].plan EXCEPT ![s].from = v]
             q == [f[o].plan EXCEPT ![s].to = v]
  <2>2. p \in [Stage -> Stretch] /\ q \in [Stage -> Stretch]
    BY <2>1 DEF Stretch
  <2>3. /\ [f EXCEPT ![o].plan[s].from = v] = [f EXCEPT ![o].plan = p]
        /\ [f EXCEPT ![o].plan[s].to = v] = [f EXCEPT ![o].plan = q]
    OBVIOUS
  <2> HIDE DEF p, q
  <2>4. /\ [f EXCEPT ![o].plan = p] \in OrderTable /\ [f EXCEPT ![o].plan = p][o] \in OrderRow
        /\ [f EXCEPT ![o].plan = q] \in OrderTable /\ [f EXCEPT ![o].plan = q][o] \in OrderRow
    BY <2>2 DEF OrderTable, OrderRow
  <2> QED
    BY <2>3, <2>4
<1> QED
  BY <1>1, <1>2, <1>3

LEMMA CreateTypes ==
  ASSUME PlanningTypeOK, NEW o \in Order, NEW dto \in OrderInput, Create(o, dto)
  PROVE  PlanningTypeOK'
<1> DEFINE new == [status |-> dto.status, start |-> dto.start, end |-> dto.end,
                   plan |-> DistributeStageDates(dto.start, dto.end)]
<1>1. /\ dto.status \in OrderStatus
      /\ dto.start \in Moment \cup {Null} /\ dto.end \in Moment \cup {Null}
  BY PlanningAssumption
<1>2. DistributeStageDates(dto.start, dto.end) \in [Stage -> Stretch]
  BY <1>1, DistributedDates
<1>3. new \in OrderRow
  BY <1>1, <1>2 DEF OrderRow
<1>4. order' = [order EXCEPT ![o] = new] /\ UNCHANGED <<now, edits>>
  BY DEF Create
<1> HIDE DEF new
<1> QED
  BY <1>3, <1>4 DEF PlanningTypeOK

LEMMA UpdateTypes ==
  ASSUME PlanningTypeOK, NEW o \in Order, NEW body \in OrderBody, Update(o, body)
  PROVE  PlanningTypeOK'
<1> DEFINE old == order[o]
           status == Patched(old.status, body.status)
           start == Patched(old.start, body.start)
           end == Patched(old.end, body.end)
<1>1. order \in OrderTable /\ old \in OrderRow
  BY DEF Update, PlanningTypeOK, Created, OrderTable
<1>2. /\ body.status \in OrderStatus \cup {Keep}
      /\ body.start \in Moment \cup {Keep} /\ body.end \in Moment \cup {Keep}
  BY PlanningAssumption
<1>3. /\ status \in OrderStatus
      /\ start \in Moment \cup {Null} /\ end \in Moment \cup {Null}
  BY <1>1, <1>2 DEF OrderRow, Patched
<1>4. order' = [order EXCEPT ![o].status = status, ![o].start = start, ![o].end = end]
      /\ now' = now /\ edits' = edits + 1
  BY DEF Update
<1> HIDE DEF status, start, end
<1> DEFINE first == [order EXCEPT ![o].status = status]
           second == [first EXCEPT ![o].start = start]
<1>5. order' = [second EXCEPT ![o].end = end]
  BY <1>4
<1>6. first \in OrderTable /\ first[o] \in OrderRow
  BY <1>1, <1>3, FieldWritten
<1> HIDE DEF first
<1>7. second \in OrderTable /\ second[o] \in OrderRow
  BY <1>3, <1>6, FieldWritten
<1> HIDE DEF second
<1>8. order' \in OrderTable
  BY <1>3, <1>5, <1>7, FieldWritten
<1> QED
  BY <1>4, <1>8 DEF PlanningTypeOK, OrderTable

LEMMA UpsertStageTypes ==
  ASSUME PlanningTypeOK, NEW o \in Order, NEW body \in StageBody, UpsertStage(o, body)
  PROVE  PlanningTypeOK'
<1> DEFINE old == order[o]
           s == body.stage
           from == Patched(old.plan[s].from, body.from)
           to == Patched(old.plan[s].to, body.to)
<1>1. order \in OrderTable /\ old \in OrderRow
  BY DEF UpsertStage, PlanningTypeOK, Created, OrderTable
<1>2. /\ s \in Stage
      /\ body.from \in Moment \cup {Null, Keep} /\ body.to \in Moment \cup {Null, Keep}
  BY PlanningAssumption
<1>3. from \in Moment \cup {Null} /\ to \in Moment \cup {Null}
  BY <1>1, <1>2 DEF OrderRow, Patched, Stretch
<1>4. order' = [order EXCEPT ![o].plan[s].from = from, ![o].plan[s].to = to]
      /\ now' = now /\ edits' = edits + 1
  BY DEF UpsertStage
<1> HIDE DEF s, from, to
<1> DEFINE first == [order EXCEPT ![o].plan[s].from = from]
<1>5. order' = [first EXCEPT ![o].plan[s].to = to]
  BY <1>4
<1>6. first \in OrderTable /\ first[o] \in OrderRow
  BY <1>1, <1>2, <1>3, FieldWritten
<1> HIDE DEF first
<1>7. order' \in OrderTable
  BY <1>2, <1>3, <1>5, <1>6, FieldWritten
<1> QED
  BY <1>4, <1>7 DEF PlanningTypeOK, OrderTable

-----------------------------------------------------------------------------
(* The page of the planning.                                               *)

LEMMA RangeOfDays ==
  ASSUME NEW from \in Day \cup {Null}, NEW to \in Day \cup {Null}
  PROVE  /\ PlanningFrom(from) \in Int /\ PlanningTo(to) \in Int
         /\ EnumerateDays(from, to) \subseteq Day
         /\ \A d \in EnumerateDays(from, to) :
              PlanningFrom(from) <= DayStart(d) /\ DayEnd(d) <= PlanningTo(to)
<1> DEFINE first == IF from = Null THEN 0 ELSE from
           last == IF to = Null THEN LastDay ELSE to
<1>1. first \in Day /\ last \in Day /\ first \in Int /\ last \in Int
  BY PlanningAssumption DEF Day
<1>2. PlanningFrom(from) = DayStart(first) /\ PlanningTo(to) = DayEnd(last)
  BY DEF PlanningFrom, PlanningTo
<1> HIDE DEF first, last
<1>3. /\ DayStart(first) \in Int /\ DayEnd(last) \in Int
      /\ DayStart(first) <= DayEnd(first) /\ DayStart(last) <= DayEnd(last)
      /\ DayStart(last) \in Int /\ DayEnd(first) \in Int
  BY <1>1, DayStartMonotone
<1>4. DayOf(DayStart(first)) = first /\ DayOf(DayEnd(last)) = last
  <2>1. DayOf(DayStart(first)) <= first /\ first <= DayOf(DayStart(first))
    BY <1>1, <1>3, DayBounds
  <2>2. DayOf(DayEnd(last)) <= last /\ last <= DayOf(DayEnd(last))
    BY <1>1, <1>3, DayBounds
  <2> QED
    BY <1>1, <1>3, <2>1, <2>2, DayOfMoment
<1>5. EnumerateDays(from, to) = first .. last
  BY <1>2, <1>4 DEF EnumerateDays
<1>6. first .. last \subseteq Day
  <2>1. LastDay \in Nat /\ 0 <= first /\ last <= LastDay
    BY <1>1, PlanningAssumption DEF Day
  <2> QED
    BY <1>1, <2>1 DEF Day
<1>7. \A d \in first .. last : DayStart(first) <= DayStart(d) /\ DayEnd(d) <= DayEnd(last)
  BY <1>1, DayStartMonotone
<1> QED
  BY <1>2, <1>3, <1>5, <1>6, <1>7

\* A stage that overlaps a day of the page overlaps the range of the page.
LEMMA LoadedOnADay ==
  ASSUME PlanningTypeOK, NEW from \in Day \cup {Null}, NEW to \in Day \cup {Null},
         NEW s \in Stage, NEW d \in EnumerateDays(from, to)
  PROVE  LoadedBy(from, to, s, d) =
           {o \in Created : order[o].status # "CANCELLED"
                            /\ Overlaps(order[o].plan[s], DayStart(d), DayEnd(d))}
<1> SUFFICES ASSUME NEW o \in Created, Overlaps(order[o].plan[s], DayStart(d), DayEnd(d))
             PROVE  Overlaps(order[o].plan[s], PlanningFrom(from), PlanningTo(to))
  BY DEF LoadedBy, InPlanning
<1> DEFINE p == order[o].plan[s]
<1>1. p \in Stretch
  BY DEF PlanningTypeOK, Created, OrderRow
<1>2. d \in Day /\ d \in Int
  BY RangeOfDays, PlanningAssumption DEF Day
<1>3. /\ PlanningFrom(from) \in Int /\ PlanningTo(to) \in Int
      /\ PlanningFrom(from) <= DayStart(d) /\ DayEnd(d) <= PlanningTo(to)
      /\ DayStart(d) \in Int /\ DayEnd(d) \in Int
  BY <1>2, RangeOfDays, DayStartMonotone
<1> HIDE DEF p
<1>4. p.from # Null /\ p.to # Null /\ p.from <= DayEnd(d) /\ p.to >= DayStart(d)
  BY DEF Overlaps, p
<1>5. p.from \in Int /\ p.to \in Int
  BY <1>1, <1>4, MonthBounds DEF Stretch
<1> QED
  BY <1>3, <1>4, <1>5 DEF Overlaps, p

LEMMA DayIsItsRange ==
  ASSUME NEW d \in Day
  PROVE  d \in EnumerateDays(d, d) /\ d \in Int /\ DayOf(DayStart(d)) = d /\ DayOf(DayEnd(d)) = d
<1>1. d \in Int /\ d # Null
  BY PlanningAssumption DEF Day
<1>2. DayStart(d) \in Int /\ DayEnd(d) \in Int /\ DayStart(d) <= DayEnd(d)
  BY <1>1, DayStartMonotone
<1>3. /\ DayOf(DayStart(d)) <= d /\ d <= DayOf(DayStart(d))
      /\ DayOf(DayEnd(d)) <= d /\ d <= DayOf(DayEnd(d))
  BY <1>1, <1>2, DayBounds
<1>4. DayOf(DayStart(d)) = d /\ DayOf(DayEnd(d)) = d
  BY <1>1, <1>2, <1>3, DayOfMoment
<1> QED
  BY <1>1, <1>4 DEF EnumerateDays, PlanningFrom, PlanningTo

LEMMA RangesAgree == PlanningTypeOK => EveryRangeAgrees
<1> SUFFICES ASSUME PlanningTypeOK, NEW from \in Day \cup {Null}, NEW to \in Day \cup {Null},
                    NEW s \in Stage, NEW d \in EnumerateDays(from, to)
             PROVE  Load(from, to)[s][d] = Load(d, d)[s][d]
  BY DEF EveryRangeAgrees
<1>1. d \in Day
  BY RangeOfDays
<1>2. d \in EnumerateDays(d, d)
  BY <1>1, DayIsItsRange
<1>3. LoadedBy(from, to, s, d) = LoadedBy(d, d, s, d)
  <2> DEFINE loaded == {o \in Created : order[o].status # "CANCELLED"
                          /\ Overlaps(order[o].plan[s], DayStart(d), DayEnd(d))}
  <2>1. LoadedBy(from, to, s, d) = loaded
    BY ONLY PlanningTypeOK, from \in Day \cup {Null}, to \in Day \cup {Null}, s \in Stage,
       d \in EnumerateDays(from, to), LoadedOnADay
  <2>2. d \in Day \cup {Null}
    BY <1>1
  <2>3. LoadedBy(d, d, s, d) = loaded
    BY ONLY PlanningTypeOK, <1>2, <2>2, s \in Stage, LoadedOnADay
  <2> QED
    BY <2>1, <2>3
<1>4. Load(from, to)[s][d] = Cardinality(LoadedBy(from, to, s, d))
  BY DEF Load
<1>5. Load(d, d)[s][d] = Cardinality(LoadedBy(d, d, s, d))
  BY <1>2 DEF Load
<1> QED
  BY <1>3, <1>4, <1>5

-----------------------------------------------------------------------------
(* The days an order loads and the days the calendar shows it.             *)

LoadedDays(o, s) == {d \in Day : o \in LoadedBy(Null, Null, s, d)}
ShownOn(o, d) == \E e \in ProductionEvents(d, d) : e.entityId = o

\* The segments meet: each day from the first to the last is in one of them.
LEMMA SegmentsCover ==
  ASSUME NEW start \in Moment, NEW end \in Moment, start <= end,
         NEW d \in Int, DayOf(start) <= d, d <= DayOf(end)
  PROVE  \E i \in Stage : /\ DayOf(Boundary(start, end, i - 1)) <= d
                          /\ d <= DayOf(Boundary(start, end, i))
<1> DEFINE B(i) == Boundary(start, end, i)
           S == {i \in Stage : d <= DayOf(B(i))}
<1>1. StageCount \in Nat \ {0} /\ Stage \subseteq Nat /\ StageCount \in Stage
  BY PlanningAssumption DEF Stage
<1>2. StageCount \in S
  BY <1>1, BoundaryIs
<1>3. S \subseteq Nat
  BY <1>1
<1> HIDE DEF S
<1>4. PICK i \in S : \A k \in S : i <= k
  BY <1>2, <1>3, LeastNatural
<1>5. i \in Stage /\ d <= DayOf(B(i))
  BY DEF S
<1>6. CASE i = 1
  BY <1>1, <1>5, <1>6, BoundaryIs
<1>7. CASE i # 1
  <2>1. i - 1 \in Stage /\ ~(i <= i - 1) /\ i - 1 \in 0 .. StageCount
    BY <1>1, <1>5, <1>7 DEF Stage
  <2>2. ~(d <= DayOf(B(i - 1)))
    BY <1>4, <2>1 DEF S
  <2>3. DayOf(B(i - 1)) \in Int
    BY <2>1, BoundaryIs, MonthBounds, DayOfMoment
  <2> QED
    BY <1>5, <2>2, <2>3
<1> QED
  BY <1>6, <1>7

LEMMA DistributedCovers ==
  ASSUME PlanningTypeOK, Offset \in Nat, NEW o \in Order,
         o \in Created, AsDistributed(o), order[o].status # "CANCELLED"
  PROVE  DaysCovered(o)
<1> DEFINE start == order[o].start
           end == order[o].end
           first == DayOf(start)
           last == DayOf(end)
           B(i) == Boundary(start, end, i)
<1>1. /\ order[o] \in OrderRow /\ start \in Moment /\ end \in Moment
      /\ start # Null /\ end # Null /\ start < end
      /\ start \in Int /\ end \in Int /\ start <= end
  BY MonthBounds DEF PlanningTypeOK, Created, AsDistributed, OrderRow
<1>2. /\ first \in Day /\ last \in Day /\ first \in Int /\ last \in Int /\ first <= last
  BY <1>1, MonthBounds, DayOfMonotone, DayOfMoment
<1>3. ASSUME NEW s \in Stage
      PROVE  /\ order[o].plan[s].from = B(s - 1) /\ order[o].plan[s].to = B(s)
             /\ s - 1 \in 0 .. StageCount /\ s \in 0 .. StageCount
  <2>1. order[o].plan = DistributeStageDates(start, end)
    BY DEF AsDistributed
  <2> QED
    BY <1>1, <2>1, DistributedDates, PlanningAssumption DEF Stage
<1>4. ASSUME NEW s \in Stage
      PROVE  LoadedDays(o, s) = {d \in Day : DayOf(B(s - 1)) <= d /\ d <= DayOf(B(s))}
  <2> SUFFICES ASSUME NEW d \in Day
               PROVE  o \in LoadedBy(Null, Null, s, d)
                        <=> DayOf(B(s - 1)) <= d /\ d <= DayOf(B(s))
    BY DEF LoadedDays
  <2>1. d \in EnumerateDays(Null, Null) /\ d \in Int
    BY DayIsItsRange, PlanningAssumption, MonthBounds
    DEF EnumerateDays, PlanningFrom, PlanningTo, Day
  <2>2. o \in LoadedBy(Null, Null, s, d) <=> Overlaps(order[o].plan[s], DayStart(d), DayEnd(d))
    <3>1. LoadedBy(Null, Null, s, d) =
            {k \in Created : order[k].status # "CANCELLED"
                             /\ Overlaps(order[k].plan[s], DayStart(d), DayEnd(d))}
      <4>1. \A from, to \in Day \cup {Null} : \A k \in EnumerateDays(from, to) :
              LoadedBy(from, to, s, k) =
                {j \in Created : order[j].status # "CANCELLED"
                                 /\ Overlaps(order[j].plan[s], DayStart(k), DayEnd(k))}
        BY LoadedOnADay
      <4>2. Null \in Day \cup {Null}
        OBVIOUS
      <4> QED
        BY ONLY <4>1, <4>2, <2>1, Zenon
    <3> QED
      BY <3>1
  <2>3. /\ B(s - 1) \in Moment /\ B(s) \in Moment
    BY <1>1, <1>3, BoundaryIs
  <2>4. B(s - 1) \in Int /\ B(s) \in Int /\ B(s - 1) # Null /\ B(s) # Null
    BY <2>3, MonthBounds, PlanningAssumption
  <2>5. Overlaps(order[o].plan[s], DayStart(d), DayEnd(d))
          <=> B(s - 1) <= DayEnd(d) /\ DayStart(d) <= B(s)
    BY <1>3, <2>1, <2>4, DayStartMonotone DEF Overlaps
  <2> QED
    BY <2>1, <2>2, <2>4, <2>5, DayBounds
<1>5. UNION {LoadedDays(o, s) : s \in Stage} = first .. last
  <2>1. ASSUME NEW s \in Stage, NEW d \in LoadedDays(o, s)
        PROVE  d \in first .. last
    <3>1. /\ B(s - 1) \in Moment /\ B(s) \in Moment /\ start <= B(s - 1) /\ B(s) <= end
      BY <1>1, <1>3, BoundaryIs
    <3>2. DayOf(B(s - 1)) \in Int /\ DayOf(B(s)) \in Int
          /\ first <= DayOf(B(s - 1)) /\ DayOf(B(s)) <= last
      BY <1>1, <3>1, MonthBounds, DayOfMonotone, DayOfMoment
    <3>3. d \in Int /\ DayOf(B(s - 1)) <= d /\ d <= DayOf(B(s))
      BY <1>4 DEF Day
    <3> QED
      BY <1>2, <3>2, <3>3
  <2>2. ASSUME NEW d \in first .. last
        PROVE  \E s \in Stage : d \in LoadedDays(o, s)
    <3>1. d \in Int /\ first <= d /\ d <= last /\ d \in Day
      BY <1>2, PlanningAssumption DEF Day
    <3>2. PICK s \in Stage : DayOf(B(s - 1)) <= d /\ d <= DayOf(B(s))
      BY <1>1, <3>1, SegmentsCover
    <3> QED
      BY <1>4, <3>1, <3>2
  <2> QED
    BY <2>1, <2>2
<1>6. ASSUME NEW s \in Stage \ {StageCount}
      PROVE  LoadedDays(o, s) \cap LoadedDays(o, s + 1) # {}
  <2>1. s + 1 \in Stage /\ s \in Stage /\ (s + 1) - 1 = s
    BY PlanningAssumption DEF Stage
  <2>2. /\ B(s - 1) \in Moment /\ B(s) \in Moment /\ B(s + 1) \in Moment
        /\ B(s - 1) <= B(s) /\ B(s) <= B(s + 1)
    <3>1. s - 1 \in 0 .. StageCount /\ s \in 0 .. StageCount /\ s + 1 \in 0 .. StageCount
          /\ s - 1 <= s /\ s <= s + 1
      BY <2>1, <1>3 DEF Stage
    <3> QED
      BY <1>1, <3>1, BoundaryIs, BoundaryMonotone
  <2>3. /\ DayOf(B(s)) \in Day /\ DayOf(B(s)) \in Int
        /\ DayOf(B(s - 1)) <= DayOf(B(s)) /\ DayOf(B(s)) <= DayOf(B(s + 1))
        /\ DayOf(B(s)) <= DayOf(B(s))
    BY <2>2, MonthBounds, DayOfMonotone, DayOfMoment
  <2>4. DayOf(B(s)) \in LoadedDays(o, s)
    BY <1>4, <2>1, <2>3
  <2>5. DayOf(B(s)) \in LoadedDays(o, s + 1)
    BY <1>4, <2>1, <2>3
  <2> QED
    BY <2>4, <2>5
<1>7. ASSUME NEW d \in Day
      PROVE  ShownOn(o, d) <=> d \in {first, last}
  <2>1. d \in Int /\ d # Null /\ DayOf(DayStart(d)) = d
    BY DayIsItsRange, PlanningAssumption
  <2>2. LocalDayOf(d) = d
    <3>1. /\ Offset \in Int /\ DayLength \in Nat \ {0} /\ 0 <= Offset /\ Offset < DayLength
          /\ d * DayLength \in Int /\ DayLength * d = d * DayLength
      BY <2>1, PlanningAssumption
    <3> QED
      BY <2>1, <3>1, DivIs DEF LocalDayOf, DayOf, DayStart
  <2>3. CalendarRange(d, d) = DayStart(d) .. DayEnd(d)
    BY <2>1, <2>2, DayStartMonotone DEF CalendarRange
  <2> DEFINE range == DayStart(d) .. DayEnd(d)
             found == {k \in Created : order[k].start \in range \/ order[k].end \in range}
  <2>4. ShownOn(o, d) <=> start \in range \/ end \in range
    <3>1. ProductionEvents(d, d) =
            {[entityId |-> k, date |-> order[k].start] : k \in {k \in found : order[k].start # Null}}
      BY <2>3 DEF ProductionEvents
    <3>2. ShownOn(o, d) => o \in found
      BY <3>1 DEF ShownOn
    <3>3. ASSUME o \in found PROVE ShownOn(o, d)
      <4>1. [entityId |-> o, date |-> start] \in ProductionEvents(d, d)
        BY <1>1, <3>1, <3>3
      <4> QED
        BY <4>1 DEF ShownOn
    <3> QED
      BY <3>2, <3>3
  <2>5. ASSUME NEW t \in Int
        PROVE  t \in range <=> DayOf(t) = d
    <3>1. DayStart(d) \in Int /\ DayEnd(d) \in Int
      BY <2>1, DayStartMonotone
    <3>2. DayOf(t) \in Int
      BY DayOfMoment
    <3>3. /\ t <= DayEnd(d) <=> DayOf(t) <= d
          /\ DayStart(d) <= t <=> d <= DayOf(t)
      BY <2>1, DayBounds
    <3> HIDE DEF range
    <3>4. t \in range <=> DayStart(d) <= t /\ t <= DayEnd(d)
      BY <3>1 DEF range
    <3> QED
      BY <2>1, <3>2, <3>3, <3>4
  <2>6. (start \in range <=> first = d) /\ (end \in range <=> last = d)
    BY <1>1, <2>5
  <2> QED
    BY <2>4, <2>6
<1> QED
  BY <1>5, <1>6, <1>7 DEF DaysCovered, LoadedDays, ShownOn

LEMMA PlanningTypeStep == PlanningTypeOK /\ [BoardNext]_boardVars => PlanningTypeOK'
<1> SUFFICES ASSUME PlanningTypeOK, [BoardNext]_boardVars PROVE PlanningTypeOK'
  OBVIOUS
<1>1. CASE CreateOrder
  BY <1>1, CreateTypes DEF CreateOrder
<1>2. CASE EditOrder
  BY <1>2, UpdateTypes, UpsertStageTypes DEF EditOrder
<1>3. CASE CreateDoc
  BY <1>3 DEF CreateDoc, planningVars, PlanningTypeOK
<1>4. CASE EditDoc
  BY <1>4 DEF EditDoc, PlanningTypeOK
<1>5. ASSUME NEW c \in Request, Page(c) PROVE PlanningTypeOK'
  BY <1>5 DEF Page, GetDashboard, GetQueue, OpenQueue, ReadRows, ReadOverdue, FillQueue,
     ReadBehind, FillDashboard, items, PlanningTypeOK
<1>6. CASE Tick
  <2>1. now < LastTick /\ now' = now + 1 /\ UNCHANGED <<order, edits>>
    BY <1>6 DEF Tick
  <2> QED
    BY <2>1, MonthBounds DEF PlanningTypeOK, Moment
<1>7. CASE Restart
  BY <1>7 DEF Restart, items, PlanningTypeOK
<1>8. CASE UNCHANGED boardVars
  BY <1>8 DEF boardVars, planningVars, PlanningTypeOK
<1> QED
  BY <1>1, <1>2, <1>3, <1>4, <1>5, <1>6, <1>7, <1>8 DEF BoardNext

\* Orders, their stages and the clock keep their types, whatever is created,
\* edited and planned.
THEOREM PlanningIsTyped == BoardSpec => []PlanningTypeOK
<1>1. BoardInit => PlanningTypeOK
  BY PlanningTypeInit DEF BoardInit
<1> QED
  BY <1>1, PlanningTypeStep, PTL DEF BoardSpec

\* Where local time is not behind UTC, each day of an order planned as distributed
\* is covered by its stages, for any number of stages and any length of a day, and
\* the page of a range shows what the pages of its days show.
THEOREM PlanningCovers ==
  ASSUME Offset \in Nat
  PROVE  BoardSpec => PlanningCoversOrders
<1> DEFINE covered == \A o \in Order : o \in Created /\ AsDistributed(o)
                             /\ order[o].status # "CANCELLED" => DaysCovered(o)
<1>1. PlanningTypeOK => EveryRangeAgrees /\ covered
  BY RangesAgree, DistributedCovers
<1>2. PlanningTypeOK' => (EveryRangeAgrees /\ covered)'
  BY <1>1, PTL
<1>3. PlanningTypeOK' => [order' # order =>
          /\ EveryRangeAgrees'
          /\ \A o \in Order :
                (o \in Created /\ AsDistributed(o) /\ order[o].status # "CANCELLED" => DaysCovered(o))'
        ]_planningVars
  BY <1>2
<1> QED
  BY <1>3, PlanningIsTyped, PTL DEF PlanningCoversOrders

-----------------------------------------------------------------------------
(* The histories of the items.                                             *)

BoardTypeOK ==
    /\ PlanningTypeOK
    /\ doc \in [Doc -> DocRow \cup {Null}]
    /\ unedited \in [Item -> Nat] /\ unlate \in [Item -> Nat]

\* Late from the moment t until now, and not edited meanwhile; late at some
\* moment from t until now.
LateSince(i, t) == Late(i, t) /\ unedited[i] > now - t
LateAfter(i, t) == Late(i, now) \/ unlate[i] <= now - t

\* Of an interval that only grows at its end, fewer items are late throughout and
\* more are late at some moment.
Evolves ==
    /\ now \in Int /\ now' \in Int /\ now <= now'
    /\ \A i \in Item, t \in Int : t <= now =>
          /\ LateSince(i, t)' => LateSince(i, t)
          /\ LateAfter(i, t) => LateAfter(i, t)'

LEMMA DueIsMoment ==
  ASSUME BoardTypeOK, NEW i \in Item, IsOpen(i), DueOf(i) # Null
  PROVE  DueOf(i) \in Int
<1>1. CASE i \in Order
  <2>1. order[i] \in OrderRow
    BY <1>1 DEF IsOpen, Row, BoardTypeOK, PlanningTypeOK
  <2> QED
    BY <1>1, <2>1, MonthBounds DEF DueOf, OrderRow
<1>2. CASE i \notin Order
  <2>1. doc[i] \in DocRow
    BY <1>2 DEF IsOpen, Row, BoardTypeOK, Item
  <2> QED
    BY <1>2, <2>1, MonthBounds DEF DueOf, DocRow
<1> QED
  BY <1>1, <1>2

LEMMA StartOfDayIs ==
  ASSUME NEW t \in Int, NEW u \in Int, t <= u
  PROVE  /\ StartOfDay(t) \in Int /\ StartOfDay(t) <= t
         /\ StartOfDay(t) <= StartOfDay(u)
<1>1. DayOf(t) \in Int /\ DayStart(DayOf(t)) <= t
  BY DayOfMoment
<1>2. DayStart(DayOf(t)) \in Int
  BY <1>1, DayStartMonotone
<1> QED
  BY <1>1, <1>2, DayOfMonotone DEF StartOfDay

LEMMA DueBeforeGrows ==
  ASSUME BoardTypeOK, NEW i \in Item, NEW t \in Int, NEW u \in Int, t <= u, DueBefore(i, t)
  PROVE  DueBefore(i, u)
<1>1. DueOf(i) \in Int
  BY DueIsMoment DEF DueBefore
<1> QED
  BY <1>1 DEF DueBefore

LEMMA LateGrows ==
  ASSUME BoardTypeOK, NEW i \in Item, NEW t \in Int, NEW u \in Int, t <= u, Late(i, t)
  PROVE  Late(i, u)
<1>1. StartOfDay(t) \in Int /\ StartOfDay(u) \in Int /\ StartOfDay(t) <= StartOfDay(u)
  BY StartOfDayIs
<1> QED
  BY <1>1, DueBeforeGrows DEF Late

LEMMA HistoriesAre ==
  ASSUME BoardTypeOK
  PROVE  now \in Int /\ \A i \in Item : unedited[i] \in Nat /\ unlate[i] \in Nat
  BY MonthBounds DEF BoardTypeOK, PlanningTypeOK

LEMMA SinceEarlier ==
  ASSUME BoardTypeOK, NEW i \in Item, NEW t \in Int, NEW u \in Int, t <= u
  PROVE  /\ LateSince(i, t) => LateSince(i, u)
         /\ LateAfter(i, u) => LateAfter(i, t)
<1>1. now \in Int /\ unedited[i] \in Int /\ unlate[i] \in Int
  BY HistoriesAre
<1>2. Late(i, t) => Late(i, u)
  BY LateGrows
<1> QED
  BY <1>1, <1>2 DEF LateSince, LateAfter

\* What a count or a row tells at a moment u of the interval.
LEMMA SeenBetween ==
  ASSUME BoardTypeOK, NEW i \in Item, NEW t \in Int, NEW u \in Int, t <= u, u <= now
  PROVE  /\ LateSince(i, t) => Late(i, u)
         /\ Late(i, u) => LateAfter(i, t)
<1>1. now \in Int
  BY HistoriesAre
<1>2. Late(i, t) => Late(i, u)
  BY LateGrows
<1>3. Late(i, u) => Late(i, now)
  BY <1>1, LateGrows
<1> QED
  BY <1>2, <1>3 DEF LateSince, LateAfter

LEMMA RowsStay ==
  ASSUME NEW i \in Item, i \in Order => order'[i] = order[i], i \notin Order => doc'[i] = doc[i],
         NEW t
  PROVE  Late(i, t)' <=> Late(i, t)
  BY DEF Late, DueBefore, IsOpen, Row, DueOf, StartOfDay, DayStart, DayOf

LEMMA NotedEvolves ==
  ASSUME BoardTypeOK, NEW e \in Item, Noted(e), now' = now,
         \A i \in Item \ {e} : (i \in Order => order'[i] = order[i])
                               /\ (i \notin Order => doc'[i] = doc[i])
  PROVE  Evolves
<1>1. now \in Int /\ \A i \in Item : unedited[i] \in Int /\ unlate[i] \in Int
  BY HistoriesAre
<1> SUFFICES ASSUME NEW i \in Item, NEW t \in Int, t <= now
             PROVE  /\ LateSince(i, t)' => LateSince(i, t)
                    /\ LateAfter(i, t) => LateAfter(i, t)'
  BY <1>1 DEF Evolves
<1>2. CASE i = e
  <2>1. unedited'[i] = 0 /\ unlate'[i] = IF Late(i, now) THEN 0 ELSE unlate[i]
    BY <1>2 DEF Noted, BoardTypeOK
  <2>2. ~LateSince(i, t)'
    BY <1>1, <2>1 DEF LateSince
  <2>3. LateAfter(i, t) => unlate'[i] <= now' - t
    BY <1>1, <2>1 DEF LateAfter
  <2> QED
    BY <2>2, <2>3 DEF LateAfter
<1>3. CASE i # e
  <2>1. unedited'[i] = unedited[i] /\ unlate'[i] = unlate[i]
    BY <1>3 DEF Noted, BoardTypeOK
  <2>2. (i \in Order => order'[i] = order[i]) /\ (i \notin Order => doc'[i] = doc[i])
    BY <1>3
  <2>3. (Late(i, t)' <=> Late(i, t)) /\ (Late(i, now)' <=> Late(i, now))
    BY <2>2 DEF Late, DueBefore, IsOpen, Row, DueOf, StartOfDay, DayStart, DayOf
  <2> QED
    BY <2>1, <2>3 DEF LateSince, LateAfter
<1> QED
  BY <1>2, <1>3

LEMMA TickEvolves ==
  ASSUME BoardTypeOK, Tick
  PROVE  Evolves
<1>1. now \in Int /\ \A i \in Item : unedited[i] \in Int /\ unlate[i] \in Int
  BY HistoriesAre
<1>2. now' = now + 1 /\ UNCHANGED <<order, doc>>
  BY DEF Tick
<1> SUFFICES ASSUME NEW i \in Item, NEW t \in Int, t <= now
             PROVE  /\ LateSince(i, t)' => LateSince(i, t)
                    /\ LateAfter(i, t) => LateAfter(i, t)'
  BY <1>1, <1>2 DEF Evolves
<1>3. unedited'[i] = Min({unedited[i] + 1, Old}) /\ unlate'[i] = Min({unlate[i] + 1, Old})
  BY DEF Tick, Aged
<1>4. Old \in Int
  BY BoardAssumption DEF Old
<1>5. unedited'[i] \in Int /\ unedited'[i] <= unedited[i] + 1
  <2>1. unedited[i] + 1 \in Int
    BY <1>1
  <2>2. Min({unedited[i] + 1, Old}) \in Int /\ Min({unedited[i] + 1, Old}) <= unedited[i] + 1
    BY ONLY <2>1, <1>4, MinOfTwo
  <2> QED
    BY <1>3, <2>2
<1>6. unlate'[i] \in Int /\ unlate'[i] <= unlate[i] + 1
  <2>1. unlate[i] + 1 \in Int
    BY <1>1
  <2>2. Min({unlate[i] + 1, Old}) \in Int /\ Min({unlate[i] + 1, Old}) <= unlate[i] + 1
    BY ONLY <2>1, <1>4, MinOfTwo
  <2> QED
    BY <1>3, <2>2
<1>7. Late(i, t)' <=> Late(i, t)
  BY <1>2, RowsStay
<1>8. Late(i, now) => Late(i, now)'
  <2>1. Late(i, now) => Late(i, now + 1)
    BY <1>1, LateGrows
  <2>2. Late(i, now)' <=> Late(i, now + 1)
    BY <1>2 DEF Late, DueBefore, IsOpen, Row, DueOf, StartOfDay, DayStart, DayOf
  <2> QED
    BY <2>1, <2>2
<1>9. LateSince(i, t)' => LateSince(i, t)
  BY <1>1, <1>2, <1>5, <1>7 DEF LateSince
<1>10. LateAfter(i, t) => LateAfter(i, t)'
  BY <1>1, <1>2, <1>6, <1>8 DEF LateAfter
<1> QED
  BY <1>9, <1>10

LEMMA ReadingEvolves ==
  ASSUME BoardTypeOK, UNCHANGED <<now, items>>
  PROVE  Evolves
<1>1. now \in Int
  BY HistoriesAre
<1>2. \A i \in Item, t \in Int :
         (LateSince(i, t)' <=> LateSince(i, t)) /\ (LateAfter(i, t)' <=> LateAfter(i, t))
  BY DEF items, LateSince, LateAfter, Late, DueBefore, IsOpen, Row, DueOf, StartOfDay,
     DayStart, DayOf
<1> QED
  BY <1>1, <1>2 DEF Evolves, items

LEMMA StepEvolves ==
  ASSUME BoardTypeOK, [BoardNext]_boardVars
  PROVE  Evolves
<1>1. CASE CreateOrder
  <2>1. PICK o \in Order, dto \in OrderInput : Create(o, dto) /\ Noted(o) /\ UNCHANGED doc
    BY <1>1 DEF CreateOrder
  <2>2. now' = now /\ o \in Item
    BY <2>1 DEF Create, Item
  <2>3. \A i \in Item \ {o} : (i \in Order => order'[i] = order[i])
                              /\ (i \notin Order => doc'[i] = doc[i])
    BY <2>1 DEF Create, BoardTypeOK, PlanningTypeOK
  <2> QED
    BY <2>1, <2>2, <2>3, NotedEvolves
<1>2. CASE EditOrder
  <2>1. PICK o \in Order : /\ \/ \E body \in OrderBody : Update(o, body)
                              \/ \E body \in StageBody : UpsertStage(o, body)
                           /\ Noted(o) /\ UNCHANGED doc
    BY <1>2 DEF EditOrder
  <2>2. now' = now /\ o \in Item
    BY <2>1 DEF Update, UpsertStage, Item
  <2>3. ASSUME NEW i \in Item \ {o}
        PROVE  (i \in Order => order'[i] = order[i]) /\ (i \notin Order => doc'[i] = doc[i])
    BY <2>1 DEF Update, UpsertStage, BoardTypeOK, PlanningTypeOK
  <2> QED
    BY <2>1, <2>2, <2>3, NotedEvolves
<1>3. CASE CreateDoc
  <2>1. PICK d \in Doc : /\ doc' = [doc EXCEPT ![d] = doc'[d]]
                         /\ Noted(d) /\ UNCHANGED <<now, order>>
    BY <1>3 DEF CreateDoc, planningVars, BoardTypeOK
  <2>2. \A i \in Item \ {d} : (i \in Order => order'[i] = order[i])
                              /\ (i \notin Order => doc'[i] = doc[i])
    BY <2>1 DEF BoardTypeOK, Item
  <2> QED
    BY <2>1, <2>2, NotedEvolves DEF Item
<1>4. CASE EditDoc
  <2>1. PICK d \in Doc : /\ doc' = [doc EXCEPT ![d] = doc'[d]]
                         /\ Noted(d) /\ UNCHANGED <<now, order>>
    BY <1>4 DEF EditDoc, BoardTypeOK
  <2>2. \A i \in Item \ {d} : (i \in Order => order'[i] = order[i])
                              /\ (i \notin Order => doc'[i] = doc[i])
    BY <2>1 DEF BoardTypeOK, Item
  <2> QED
    BY <2>1, <2>2, NotedEvolves DEF Item
<1>5. ASSUME NEW c \in Request, Page(c) PROVE Evolves
  <2>1. UNCHANGED <<now, items>>
    BY <1>5 DEF Page, GetDashboard, GetQueue, OpenQueue, ReadRows, ReadOverdue, FillQueue,
       ReadBehind, FillDashboard
  <2> QED
    BY <2>1, ReadingEvolves
<1>6. CASE Tick
  BY <1>6, TickEvolves
<1>7. CASE Restart
  <2>1. UNCHANGED <<now, items>>
    BY <1>7 DEF Restart
  <2> QED
    BY <2>1, ReadingEvolves
<1>8. CASE UNCHANGED boardVars
  <2>1. UNCHANGED <<now, items>>
    BY <1>8 DEF boardVars, planningVars, items
  <2> QED
    BY <2>1, ReadingEvolves
<1> QED
  BY <1>1, <1>2, <1>3, <1>4, <1>5, <1>6, <1>7, <1>8 DEF BoardNext

-----------------------------------------------------------------------------
(* What a value of the queue tells.                                        *)

LateRows(value) == {r.id : r \in {r \in value.rows : r.overdue}}

\* The number of late items of the lanes counted is that of a set between the items
\* late throughout since t and those late at some moment since.
Counts(value, counted, t) ==
    \E S \in SUBSET Item :
        /\ value.overdue = Cardinality(S)
        /\ \A i \in S : LateAfter(i, t) /\ \E lane \in counted : i \in Of(lane)
        /\ \A lane \in counted : \A i \in Of(lane) : LateSince(i, t) => i \in S

Lists(value, listed, t) ==
    /\ \A i \in LateRows(value) : LateAfter(i, t) /\ \E lane \in listed : i \in Of(lane)
    /\ \A lane \in listed :
          \/ \A i \in Of(lane) : LateSince(i, t) => i \in LateRows(value)
          \/ Cardinality(LateRows(value) \cap Of(lane)) = QueueItemLimit

Tells(value, t) ==
    value \in QueueValue /\ Counts(value, Lane, t) /\ Lists(value, Lane, t)

LEMMA LanesAre ==
  /\ \A lane \in Lane : Of(lane) \subseteq Item /\ IsFiniteSet(Of(lane))
  /\ \A i \in Item : \E lane \in Lane : i \in Of(lane)
  /\ \A lane, other \in Lane : lane # other => Of(lane) \cap Of(other) = {}
<1>1. Of("toProduce") = Order /\ Of("toDeliver") = DeliveryNote /\ Of("toCollect") = Invoice
  BY DEF Of
<1>2. Lane \subseteq {"toProduce", "toDeliver", "toCollect"}
  BY DEF Lane
<1>3. \A lane \in Lane : Of(lane) \subseteq Item
  BY <1>1, <1>2 DEF Item, Doc
<1>4. \A lane \in Lane : IsFiniteSet(Of(lane))
  BY <1>3, BoardAssumption, FS_Subset
<1>5. ASSUME NEW i \in Item PROVE \E lane \in Lane : i \in Of(lane)
  BY <1>1 DEF Item, Doc, Lane
<1>6. \A lane, other \in Lane : lane # other => Of(lane) \cap Of(other) = {}
  BY <1>1, <1>2, BoardAssumption DEF Doc
<1> QED
  BY <1>3, <1>4, <1>5, <1>6

LEMMA ValueStays ==
  ASSUME Evolves, NEW v, NEW lanes \in SUBSET Lane, NEW t \in Int, t <= now
  PROVE  /\ Counts(v, lanes, t) => Counts(v, lanes, t)'
         /\ Lists(v, lanes, t) => Lists(v, lanes, t)'
<1>1. \A i \in Item : (LateSince(i, t)' => LateSince(i, t)) /\ (LateAfter(i, t) => LateAfter(i, t)')
  BY DEF Evolves
<1>2. \A lane \in lanes : Of(lane) \subseteq Item
  BY LanesAre
<1>3. Counts(v, lanes, t) => Counts(v, lanes, t)'
  BY <1>1, <1>2 DEF Counts
<1>4. ASSUME Lists(v, lanes, t) PROVE Lists(v, lanes, t)'
  <2>1. \A i \in LateRows(v) : LateAfter(i, t)' /\ \E lane \in lanes : i \in Of(lane)
    BY <1>1, <1>2, <1>4 DEF Lists
  <2>2. \A lane \in lanes :
          \/ \A i \in Of(lane) : LateSince(i, t)' => i \in LateRows(v)
          \/ Cardinality(LateRows(v) \cap Of(lane)) = QueueItemLimit
    BY <1>1, <1>2, <1>4 DEF Lists
  <2> QED
    BY <2>1, <2>2 DEF Lists, LateRows
<1> QED
  BY <1>3, <1>4

LEMMA TellsStays ==
  ASSUME Evolves, NEW v, NEW t \in Int, t <= now, Tells(v, t)
  PROVE  Tells(v, t)'
  BY ValueStays DEF Tells

LEMMA TellsEarlier ==
  ASSUME BoardTypeOK, NEW v, NEW t \in Int, NEW u \in Int, t <= u, Tells(v, u)
  PROVE  Tells(v, t)
<1>1. \A i \in Item : (LateSince(i, t) => LateSince(i, u)) /\ (LateAfter(i, u) => LateAfter(i, t))
  BY SinceEarlier
<1>2. \A lane \in Lane : Of(lane) \subseteq Item
  BY LanesAre
<1>3. Counts(v, Lane, t)
  BY <1>1, <1>2 DEF Counts, Tells
<1>4. Lists(v, Lane, t)
  <2>1. Lists(v, Lane, u)
    BY DEF Tells
  <2>2. \A i \in LateRows(v) : LateAfter(i, t) /\ \E lane \in Lane : i \in Of(lane)
    BY <1>1, <1>2, <2>1 DEF Lists
  <2>3. \A lane \in Lane :
          \/ \A i \in Of(lane) : LateSince(i, t) => i \in LateRows(v)
          \/ Cardinality(LateRows(v) \cap Of(lane)) = QueueItemLimit
    BY <1>1, <1>2, <2>1 DEF Lists
  <2> QED
    BY <2>2, <2>3 DEF Lists
<1> QED
  BY <1>3, <1>4 DEF Tells

\* A value that tells what happened since t follows the workshop.
LEMMA TellsFollows ==
  ASSUME BoardTypeOK, NEW v, NEW age \in Int, Tells(v, now - age)
  PROVE  QueueFollows(v, age)
<1> DEFINE throughout == {i \in Item : LateThroughout(i, age)}
           lately == {i \in Item : LateLately(i, age)}
<1>1. now \in Int /\ now - age \in Int /\ now - (now - age) = age
  BY HistoriesAre
<1>2. \A i \in Item : (LateThroughout(i, age) => LateSince(i, now - age))
                      /\ (LateAfter(i, now - age) => LateLately(i, age))
  BY <1>1 DEF LateThroughout, LateLately, LateSince, LateAfter
<1>3. PICK S \in SUBSET Item :
        /\ v.overdue = Cardinality(S)
        /\ \A i \in S : LateAfter(i, now - age)
        /\ \A lane \in Lane : \A i \in Of(lane) : LateSince(i, now - age) => i \in S
  BY DEF Tells, Counts
<1>4. throughout \subseteq S /\ S \subseteq lately
  BY <1>2, <1>3, LanesAre
<1>5. Cardinality(throughout) <= v.overdue /\ v.overdue <= Cardinality(lately)
  <2>1. IsFiniteSet(lately) /\ IsFiniteSet(S)
    BY BoardAssumption, FS_Subset
  <2> HIDE DEF throughout, lately
  <2> QED
    BY <1>3, <1>4, <2>1, FS_Subset
<1>6. LateRows(v) \subseteq Item
  BY DEF Tells, LateRows, QueueValue
<1>7. LateRows(v) \subseteq lately
  BY <1>2, <1>6 DEF Tells, Lists
<1>8. \A lane \in Lane :
        \/ throughout \cap Of(lane) \subseteq LateRows(v)
        \/ Cardinality(LateRows(v) \cap Of(lane)) = QueueItemLimit
  BY <1>2 DEF Tells, Lists
<1> HIDE DEF throughout, lately
<1>9. /\ Cardinality(throughout) <= v.overdue /\ v.overdue <= Cardinality(lately)
      /\ LateRows(v) \subseteq lately
      /\ \A lane \in Lane :
            \/ throughout \cap Of(lane) \subseteq LateRows(v)
            \/ Cardinality(LateRows(v) \cap Of(lane)) = QueueItemLimit
  BY <1>5, <1>7, <1>8
<1> QED
  BY <1>9 DEF QueueFollows, LateRows, throughout, lately

\* One lane more is counted.
LEMMA CountsMore ==
  ASSUME BoardTypeOK, NEW v, NEW w, NEW counted \in SUBSET Lane, NEW lane \in Lane \ counted,
         NEW t \in Int, NEW u \in Int, t <= u, u <= now, Counts(v, counted, t),
         w.overdue = v.overdue + Cardinality({i \in Of(lane) : Late(i, u)})
  PROVE  Counts(w, counted \cup {lane}, t)
<1> DEFINE N == {i \in Of(lane) : Late(i, u)}
<1>1. PICK S \in SUBSET Item :
        /\ v.overdue = Cardinality(S)
        /\ \A i \in S : LateAfter(i, t) /\ \E l \in counted : i \in Of(l)
        /\ \A l \in counted : \A i \in Of(l) : LateSince(i, t) => i \in S
  BY DEF Counts
<1>2. N \in SUBSET Item /\ Of(lane) \subseteq Item
  BY LanesAre
<1>3. S \cap N = {}
  BY <1>1, LanesAre
<1>4. \A i \in Of(lane) : (LateSince(i, t) => Late(i, u)) /\ (Late(i, u) => LateAfter(i, t))
  BY <1>2, SeenBetween
<1>5. w.overdue = Cardinality(S \cup N)
  <2> HIDE DEF N
  <2>1. IsFiniteSet(S) /\ IsFiniteSet(N)
    BY <1>2, BoardAssumption, FS_Subset
  <2>2. Cardinality(S) \in Nat /\ Cardinality(N) \in Nat /\ Cardinality({}) = 0
    BY <2>1, FS_CardinalityType, FS_EmptySet
  <2>3. Cardinality(S \cup N) = Cardinality(S) + Cardinality(N) - Cardinality({})
    BY <1>3, <2>1, FS_Union
  <2>4. w.overdue = Cardinality(S) + Cardinality(N)
    BY <1>1 DEF N
  <2> QED
    BY <2>2, <2>3, <2>4
<1>6. \A i \in S \cup N : LateAfter(i, t) /\ \E l \in counted \cup {lane} : i \in Of(l)
  BY <1>1, <1>4
<1>7. \A l \in counted \cup {lane} : \A i \in Of(l) : LateSince(i, t) => i \in S \cup N
  BY <1>1, <1>4
<1>8. S \cup N \in SUBSET Item
  BY <1>2
<1> HIDE DEF N
<1> QED
  BY <1>5, <1>6, <1>7, <1>8 DEF Counts

\* One lane more is listed: its late items come first.
LEMMA FirstAreLate ==
  ASSUME BoardTypeOK, NEW lane \in Lane, NEW u \in Int,
         NEW R \in FirstOf({i \in Of(lane) : IsOpen(i)}, QueueItemLimit),
         NEW i \in Of(lane), Late(i, u), i \notin R
  PROVE  (\A j \in R : Late(j, u)) /\ Cardinality(R) = QueueItemLimit
<1> DEFINE open == {k \in Of(lane) : IsOpen(k)}
<1>1. /\ R \subseteq open /\ i \in open
      /\ Cardinality(R) = Min({QueueItemLimit, Cardinality(open)})
      /\ \A j \in R : ~ComesBefore(i, j)
  BY DEF FirstOf, Late, DueBefore
<1>2. DueOf(i) # Null /\ DueOf(i) \in Int /\ DueOf(i) < StartOfDay(u) /\ StartOfDay(u) \in Int
  BY LanesAre, DueIsMoment, StartOfDayIs DEF Late, DueBefore
<1>3. ASSUME NEW j \in R PROVE Late(j, u)
  <2>1. IsOpen(j) /\ j \in Item /\ DueOf(j) # Null /\ ~(DueOf(i) < DueOf(j))
    BY <1>1, <1>2, LanesAre DEF ComesBefore
  <2>2. DueOf(j) \in Int
    BY <2>1, DueIsMoment
  <2> QED
    BY <1>2, <2>1, <2>2 DEF Late, DueBefore
<1>4. Cardinality(R) = QueueItemLimit
  <2>1. IsFiniteSet(open) /\ IsFiniteSet(R)
    BY <1>1, LanesAre, FS_Subset
  <2> HIDE DEF open
  <2>2. Cardinality(open) \in Int /\ QueueItemLimit \in Int
    BY <2>1, FS_CardinalityType, BoardAssumption
  <2>3. Cardinality(open) # Cardinality(R)
    BY <1>1, <2>1, FS_Subset
  <2>4. Cardinality(R) \in {QueueItemLimit, Cardinality(open)}
    BY <1>1, <2>2, MinOfTwo
  <2> QED
    BY <2>3, <2>4
<1> QED
  BY <1>3, <1>4

LEMMA ListsMore ==
  ASSUME BoardTypeOK, NEW v, NEW w, NEW listed \in SUBSET Lane, NEW lane \in Lane \ listed,
         NEW t \in Int, NEW u \in Int, t <= u, u <= now, Lists(v, listed, t),
         NEW R \in FirstOf({i \in Of(lane) : IsOpen(i)}, QueueItemLimit),
         LateRows(w) = LateRows(v) \cup {i \in R : Late(i, u)}
  PROVE  Lists(w, listed \cup {lane}, t)
<1> DEFINE N == {i \in R : Late(i, u)}
<1>1. R \subseteq Of(lane) /\ Of(lane) \subseteq Item
  BY LanesAre DEF FirstOf
<1>2. \A i \in Of(lane) : (LateSince(i, t) => Late(i, u)) /\ (Late(i, u) => LateAfter(i, t))
  BY <1>1, SeenBetween
<1>3. /\ \A i \in LateRows(v) : LateAfter(i, t) /\ \E l \in listed : i \in Of(l)
      /\ \A l \in listed :
            \/ \A i \in Of(l) : LateSince(i, t) => i \in LateRows(v)
            \/ Cardinality(LateRows(v) \cap Of(l)) = QueueItemLimit
  BY DEF Lists
<1>4. LateRows(w) \cap Of(lane) = N
  BY <1>1, <1>3, LanesAre
<1>5. \A l \in listed : LateRows(w) \cap Of(l) = LateRows(v) \cap Of(l)
  BY <1>1, LanesAre
<1>6. \A i \in LateRows(w) : LateAfter(i, t) /\ \E l \in listed \cup {lane} : i \in Of(l)
  BY <1>1, <1>2, <1>3
<1>7. \/ \A i \in Of(lane) : LateSince(i, t) => i \in LateRows(w)
      \/ Cardinality(LateRows(w) \cap Of(lane)) = QueueItemLimit
  <2> SUFFICES ASSUME NEW i \in Of(lane), LateSince(i, t), i \notin LateRows(w)
               PROVE  Cardinality(LateRows(w) \cap Of(lane)) = QueueItemLimit
    OBVIOUS
  <2>1. Late(i, u) /\ i \notin R
    BY <1>2
  <2>2. (\A j \in R : Late(j, u)) /\ Cardinality(R) = QueueItemLimit
    BY <2>1, FirstAreLate
  <2> QED
    BY <1>4, <2>2
<1>8. ASSUME NEW l \in listed
      PROVE  \/ \A i \in Of(l) : LateSince(i, t) => i \in LateRows(w)
             \/ Cardinality(LateRows(w) \cap Of(l)) = QueueItemLimit
  BY <1>3, <1>5
<1> QED
  BY <1>6, <1>7, <1>8 DEF Lists

-----------------------------------------------------------------------------
(* Requests and cache entries.                                             *)

QueueAge == Ttl + MaxDuration

RequestRow ==
    [route : {"queue", "dashboard"}, started : Int,
     reads : SUBSET ({FromCache, Behind} \cup Queries), today : Int \cup {Null},
     partial : QueueValue, queue : QueueValue \cup {Null}, behind : Order \cup {Null}]

CountedBy(r) == {lane \in Lane : <<lane, "count">> \notin r.reads}
ListedBy(r) == {lane \in Lane : <<lane, "rows">> \notin r.reads}

\* What the reads of a request have told so far happened since it started.
RequestOK(r) ==
    /\ r \in RequestRow
    /\ r.started <= now /\ now - r.started <= MaxDuration
    /\ FromCache \in r.reads =>
          r.partial = EmptyQueue /\ r.reads \cap Queries = {} /\ r.queue = Null
    /\ FromCache \notin r.reads /\ r.queue = Null => r.today # Null
    /\ r.reads \cap Queries # {} => r.today # Null
    /\ r.today # Null =>
          /\ \E u \in Int : r.started <= u /\ u <= now /\ r.today = StartOfDay(u)
          /\ Counts(r.partial, CountedBy(r), r.started)
          /\ Lists(r.partial, ListedBy(r), r.started)
    /\ r.queue # Null => Tells(r.queue, r.started - QueueAge)
    /\ Behind \notin r.reads /\ r.route = "dashboard" =>
          ((\E o \in Order : LateSince(o, r.started)) => r.behind # Null)

QueueEntryOK(e) ==
    /\ e.until \in Int /\ e.until <= now + Ttl
    /\ Tells(e.value, e.until - QueueAge)

BoardEntryOK(e) ==
    /\ e.until \in Int /\ e.until <= now + Ttl
    /\ Tells(e.value.queue, e.until - 2 * QueueAge)
    /\ (\E o \in Order : LateSince(o, e.until - QueueAge)) => e.value.behind # Null

BoardInv ==
    /\ BoardTypeOK
    /\ request = [c \in Request |-> request[c]]
    /\ \A c \in Request : request[c] # Null => RequestOK(request[c])
    /\ queueCache # Null => QueueEntryOK(queueCache)
    /\ boardCache # Null => BoardEntryOK(boardCache)

LEMMA AgesAre ==
  /\ Ttl \in Nat /\ MaxDuration \in Nat /\ QueueAge \in Nat
  /\ QueueAge = Ttl + MaxDuration /\ 2 * QueueAge = 2 * (Ttl + MaxDuration)
  /\ 2 * QueueAge = QueueAge + QueueAge
  BY BoardAssumption DEF QueueAge

LEMMA ReadsAre ==
  /\ FromCache # Behind /\ FromCache \notin Queries /\ Behind \notin Queries
  /\ \A lane, other \in Lane : <<lane, "count">> # <<other, "rows">>
  /\ \A lane \in Lane : <<lane, "count">> \in Queries /\ <<lane, "rows">> \in Queries
  /\ \A lane, other \in Lane : <<lane, "count">> = <<other, "count">> => lane = other
  /\ \A lane, other \in Lane : <<lane, "rows">> = <<other, "rows">> => lane = other
  BY DEF FromCache, Behind, Queries

LEMMA QueueEntryStays ==
  ASSUME Evolves, NEW e, QueueEntryOK(e)
  PROVE  QueueEntryOK(e)'
<1>1. now \in Int /\ now' \in Int /\ now <= now'
  BY DEF Evolves
<1>2. e.until - QueueAge \in Int /\ e.until - QueueAge <= now
  BY <1>1, AgesAre DEF QueueEntryOK
<1>3. Tells(e.value, e.until - QueueAge)'
  BY <1>2, TellsStays DEF QueueEntryOK
<1> QED
  BY <1>1, <1>3, AgesAre DEF QueueEntryOK

LEMMA BoardEntryStays ==
  ASSUME Evolves, NEW e, BoardEntryOK(e)
  PROVE  BoardEntryOK(e)'
<1>1. now \in Int /\ now' \in Int /\ now <= now'
  BY DEF Evolves
<1>2. /\ e.until - 2 * QueueAge \in Int /\ e.until - 2 * QueueAge <= now
      /\ e.until - QueueAge \in Int /\ e.until - QueueAge <= now
  BY <1>1, AgesAre DEF BoardEntryOK
<1>3. Tells(e.value.queue, e.until - 2 * QueueAge)'
  BY <1>2, TellsStays DEF BoardEntryOK
<1>4. \A o \in Order : LateSince(o, e.until - QueueAge)' => LateSince(o, e.until - QueueAge)
  BY <1>2 DEF Evolves, Item
<1>5. (\E o \in Order : LateSince(o, e.until - QueueAge)') => e.value.behind # Null
  BY <1>4 DEF BoardEntryOK
<1>6. e.until \in Int /\ e.until <= now' + Ttl
  BY <1>1, AgesAre DEF BoardEntryOK
<1> QED
  BY <1>3, <1>5, <1>6 DEF BoardEntryOK

LEMMA RequestStays ==
  ASSUME Evolves, NEW r, RequestOK(r), now' - r.started <= MaxDuration
  PROVE  RequestOK(r)'
<1>1. now \in Int /\ now' \in Int /\ now <= now'
  BY DEF Evolves
<1>2. /\ r \in RequestRow /\ r.started \in Int /\ r.started <= now
      /\ CountedBy(r) \in SUBSET Lane /\ ListedBy(r) \in SUBSET Lane
  BY DEF RequestOK, RequestRow, CountedBy, ListedBy
<1>3. r.started <= now' /\ r.started - QueueAge \in Int /\ r.started - QueueAge <= now
  BY <1>1, <1>2, AgesAre
<1>4. r.today # Null =>
        /\ \E u \in Int : r.started <= u /\ u <= now' /\ r.today = StartOfDay(u)
        /\ Counts(r.partial, CountedBy(r), r.started)'
        /\ Lists(r.partial, ListedBy(r), r.started)'
  <2> SUFFICES ASSUME r.today # Null
               PROVE  /\ \E u \in Int : r.started <= u /\ u <= now' /\ r.today = StartOfDay(u)
                      /\ Counts(r.partial, CountedBy(r), r.started)'
                      /\ Lists(r.partial, ListedBy(r), r.started)'
    OBVIOUS
  <2>1. PICK u \in Int : r.started <= u /\ u <= now /\ r.today = StartOfDay(u)
    BY DEF RequestOK
  <2>2. u <= now'
    BY <1>1, <2>1
  <2>3. Counts(r.partial, CountedBy(r), r.started) /\ Lists(r.partial, ListedBy(r), r.started)
    BY DEF RequestOK
  <2>4. /\ Counts(r.partial, CountedBy(r), r.started)'
        /\ Lists(r.partial, ListedBy(r), r.started)'
    BY <1>2, <2>3, ValueStays
  <2> QED
    BY <2>1, <2>2, <2>4
<1>5. r.queue # Null => Tells(r.queue, r.started - QueueAge)'
  BY <1>3, TellsStays DEF RequestOK
<1>6. \A o \in Order : LateSince(o, r.started)' => LateSince(o, r.started)
  BY <1>2 DEF Evolves, Item
<1>7. Behind \notin r.reads /\ r.route = "dashboard" =>
         ((\E o \in Order : LateSince(o, r.started)') => r.behind # Null)
  BY <1>6 DEF RequestOK
<1>8. /\ FromCache \in r.reads =>
            r.partial = EmptyQueue /\ r.reads \cap Queries = {} /\ r.queue = Null
      /\ FromCache \notin r.reads /\ r.queue = Null => r.today # Null
      /\ r.reads \cap Queries # {} => r.today # Null
  BY DEF RequestOK
<1> QED
  BY <1>2, <1>3, <1>4, <1>5, <1>7, <1>8
  DEF RequestOK, CountedBy, ListedBy, StartOfDay, DayStart, DayOf

LEMMA EmptyIs == EmptyQueue \in QueueValue /\ EmptyQueue.overdue = 0 /\ LateRows(EmptyQueue) = {}
  BY DEF EmptyQueue, QueueValue, LateRows

\* A request that begins.
LEMMA NewIsOK ==
  ASSUME BoardTypeOK, NEW route \in {"queue", "dashboard"}, NEW reads,
         FromCache \in reads, reads \subseteq {FromCache, Behind},
         route = "queue" \/ Behind \in reads
  PROVE  RequestOK(NewRequest(route, reads))
<1> DEFINE n == NewRequest(route, reads)
<1>1. /\ n.route = route /\ n.started = now /\ n.reads = reads /\ n.today = Null
      /\ n.partial = EmptyQueue /\ n.queue = Null /\ n.behind = Null
  BY DEF NewRequest
<1>2. n \in RequestRow
  BY EmptyIs, HistoriesAre DEF NewRequest, RequestRow
<1> HIDE DEF n
<1>3. FromCache \in n.reads /\ n.reads \cap Queries = {}
  BY <1>1, ReadsAre
<1>4. now \in Int /\ now - now <= MaxDuration
  BY HistoriesAre, AgesAre
<1>5. Behind \notin n.reads => n.route # "dashboard"
  BY <1>1
<1> QED
  BY <1>1, <1>2, <1>3, <1>4, <1>5 DEF RequestOK, n

\* The queue is taken from its cache.
LEMMA FoundIsOK ==
  ASSUME BoardTypeOK, NEW r, RequestOK(r), FromCache \in r.reads,
         NEW v, Tells(v, now - QueueAge)
  PROVE  RequestOK([r EXCEPT !.queue = v, !.reads = @ \ {FromCache}])
<1> DEFINE n == [r EXCEPT !.queue = v, !.reads = @ \ {FromCache}]
<1>1. r \in RequestRow /\ v \in QueueValue /\ v # Null
  BY BoardAssumption DEF RequestOK, Tells
<1>2. /\ n.route = r.route /\ n.started = r.started /\ n.reads = r.reads \ {FromCache}
      /\ n.today = r.today /\ n.partial = r.partial /\ n.queue = v /\ n.behind = r.behind
      /\ n \in RequestRow
  BY <1>1 DEF RequestRow
<1> HIDE DEF n
<1>3. now \in Int /\ r.started \in Int /\ r.started <= now
  BY <1>1, HistoriesAre DEF RequestOK, RequestRow
<1>4. Tells(n.queue, n.started - QueueAge)
  <2>1. r.started - QueueAge \in Int /\ now - QueueAge \in Int
        /\ r.started - QueueAge <= now - QueueAge
    BY <1>3, AgesAre
  <2> QED
    BY <1>2, <2>1, TellsEarlier
<1>5. FromCache \notin n.reads /\ (Behind \in n.reads <=> Behind \in r.reads)
      /\ n.reads \cap Queries = r.reads \cap Queries
      /\ CountedBy(n) = CountedBy(r) /\ ListedBy(n) = ListedBy(r)
  BY <1>2, ReadsAre DEF CountedBy, ListedBy
<1> QED
  BY <1>1, <1>2, <1>4, <1>5 DEF RequestOK, n

\* The queue is not in its cache: its queries begin.
LEMMA OpenedIsOK ==
  ASSUME BoardTypeOK, NEW r, RequestOK(r), FromCache \in r.reads
  PROVE  RequestOK([r EXCEPT !.today = StartOfDay(now), !.reads = (@ \ {FromCache}) \cup Queries])
<1> DEFINE n == [r EXCEPT !.today = StartOfDay(now), !.reads = (@ \ {FromCache}) \cup Queries]
<1>1. r \in RequestRow /\ now \in Int /\ StartOfDay(now) \in Int /\ Null \notin Int
      /\ r.partial = EmptyQueue /\ r.queue = Null
  BY HistoriesAre, StartOfDayIs, PlanningAssumption DEF RequestOK
<1>2. /\ n.route = r.route /\ n.started = r.started /\ n.reads = (r.reads \ {FromCache}) \cup Queries
      /\ n.today = StartOfDay(now) /\ n.partial = EmptyQueue /\ n.queue = Null
      /\ n.behind = r.behind
  BY <1>1 DEF RequestRow
<1>3. n \in RequestRow
  BY <1>1 DEF RequestRow
<1> HIDE DEF n
<1>4. CountedBy(n) = {} /\ ListedBy(n) = {}
  BY <1>2, ReadsAre DEF CountedBy, ListedBy
<1>5. Counts(n.partial, CountedBy(n), n.started)
  BY <1>2, <1>4, EmptyIs, FS_EmptySet DEF Counts
<1>6. Lists(n.partial, ListedBy(n), n.started)
  BY <1>2, <1>4, EmptyIs DEF Lists
<1>7. FromCache \notin n.reads /\ (Behind \in n.reads <=> Behind \in r.reads)
  BY <1>2, ReadsAre
<1>8. \E u \in Int : n.started <= u /\ u <= now /\ n.today = StartOfDay(u)
  BY <1>1, <1>2 DEF RequestOK
<1> QED
  BY <1>1, <1>2, <1>3, <1>5, <1>6, <1>7, <1>8 DEF RequestOK, n

\* The late items of a lane are counted.
LEMMA CountedIsOK ==
  ASSUME BoardTypeOK, NEW r, RequestOK(r), NEW lane \in Lane, <<lane, "count">> \in r.reads
  PROVE  RequestOK([r EXCEPT !.reads = @ \ {<<lane, "count">>},
                             !.partial.overdue =
                                 @ + Cardinality({i \in Of(lane) : DueBefore(i, r.today)})])
<1> DEFINE N == {i \in Of(lane) : DueBefore(i, r.today)}
           p == [r.partial EXCEPT !.overdue = @ + Cardinality(N)]
           n == [r EXCEPT !.reads = @ \ {<<lane, "count">>}, !.partial = p]
<1>1. r \in RequestRow /\ r.today # Null /\ FromCache \notin r.reads
  BY ReadsAre DEF RequestOK
<1>2. PICK u \in Int : r.started <= u /\ u <= now /\ r.today = StartOfDay(u)
  BY <1>1 DEF RequestOK
<1>3. Cardinality(N) \in Nat
  <2>1. IsFiniteSet(N)
    BY LanesAre, FS_Subset
  <2> QED
    BY <2>1, FS_CardinalityType
<1>4. N = {i \in Of(lane) : Late(i, u)}
  BY <1>2 DEF Late
<1> HIDE DEF N
<1>5. r.partial \in QueueValue
  BY <1>1 DEF RequestRow
<1>6. /\ p \in QueueValue /\ p.overdue = r.partial.overdue + Cardinality(N)
      /\ p.rows = r.partial.rows
  BY <1>3, <1>5 DEF QueueValue
<1> HIDE DEF p
<1>7. /\ n.route = r.route /\ n.started = r.started /\ n.reads = r.reads \ {<<lane, "count">>}
      /\ n.today = r.today /\ n.partial = p /\ n.queue = r.queue
      /\ n.behind = r.behind /\ n \in RequestRow
  BY <1>1, <1>6 DEF RequestRow
<1>8. [r EXCEPT !.reads = @ \ {<<lane, "count">>},
                !.partial.overdue = @ + Cardinality(N)] = n
  BY DEF p
<1> HIDE DEF n
<1>9. CountedBy(n) = CountedBy(r) \cup {lane} /\ lane \notin CountedBy(r)
      /\ CountedBy(r) \in SUBSET Lane
  BY <1>7, ReadsAre DEF CountedBy
<1>10. ListedBy(n) = ListedBy(r)
  BY <1>7, ReadsAre DEF ListedBy
<1>11. Counts(n.partial, CountedBy(n), n.started)
  <2>1. Counts(r.partial, CountedBy(r), r.started) /\ r.started \in Int
    BY <1>1 DEF RequestOK, RequestRow
  <2>2. p.overdue = r.partial.overdue + Cardinality({i \in Of(lane) : Late(i, u)})
    BY <1>4, <1>6
  <2>3. Counts(p, CountedBy(r) \cup {lane}, r.started)
    BY <1>2, <1>9, <2>1, <2>2, CountsMore
  <2> QED
    BY <1>7, <1>9, <2>3
<1>12. Lists(n.partial, ListedBy(n), n.started)
  <2>1. LateRows(p) = LateRows(r.partial)
    BY <1>6 DEF LateRows
  <2>2. Lists(r.partial, ListedBy(r), r.started)
    BY <1>1 DEF RequestOK
  <2> QED
    BY <1>7, <1>10, <2>1, <2>2 DEF Lists
<1>13. FromCache \notin n.reads /\ (Behind \in n.reads <=> Behind \in r.reads)
  BY <1>1, <1>7, ReadsAre
<1>14. RequestOK(n)
  BY <1>1, <1>2, <1>7, <1>11, <1>12, <1>13 DEF RequestOK
<1> QED
  BY <1>8, <1>14 DEF N

\* The first rows of a lane are read.
LEMMA ListedIsOK ==
  ASSUME BoardTypeOK, NEW r, RequestOK(r), NEW lane \in Lane, <<lane, "rows">> \in r.reads,
         NEW R \in FirstOf({i \in Of(lane) : IsOpen(i)}, QueueItemLimit)
  PROVE  RequestOK([r EXCEPT !.reads = @ \ {<<lane, "rows">>},
                             !.partial.rows =
                                 @ \cup {[id |-> i, overdue |-> DueBefore(i, r.today)] : i \in R}])
<1> DEFINE N == {[id |-> i, overdue |-> DueBefore(i, r.today)] : i \in R}
           p == [r.partial EXCEPT !.rows = @ \cup N]
           n == [r EXCEPT !.reads = @ \ {<<lane, "rows">>}, !.partial = p]
<1>1. r \in RequestRow /\ r.today # Null /\ FromCache \notin r.reads
  BY ReadsAre DEF RequestOK
<1>2. PICK u \in Int : r.started <= u /\ u <= now /\ r.today = StartOfDay(u)
  BY <1>1 DEF RequestOK
<1>3. \A i : DueBefore(i, r.today) \in BOOLEAN
  BY DEF DueBefore
<1>4. R \subseteq Item
  BY LanesAre DEF FirstOf
<1>5. N \in SUBSET [id : Item, overdue : BOOLEAN]
  BY <1>3, <1>4
<1>6. {x.id : x \in {x \in N : x.overdue}} = {i \in R : Late(i, u)}
  <2> DEFINE due(i) == DueBefore(i, r.today)
  <2>1. \A i \in R : due(i) \in BOOLEAN /\ (due(i) <=> Late(i, u))
    BY <1>2, <1>3 DEF Late
  <2>2. N = {[id |-> i, overdue |-> due(i)] : i \in R}
    OBVIOUS
  <2> HIDE DEF due, N
  <2>3. ASSUME NEW x \in N, x.overdue
        PROVE  x.id \in {i \in R : Late(i, u)}
    <3>1. PICK i \in R : x = [id |-> i, overdue |-> due(i)]
      BY <2>2
    <3>2. x.id = i /\ x.overdue = due(i)
      BY <3>1
    <3> QED
      BY <2>1, <2>3, <3>2
  <2>4. ASSUME NEW i \in R, Late(i, u)
        PROVE  \E x \in N : x.overdue /\ x.id = i
    <3>1. PICK b \in BOOLEAN : b = due(i)
      BY <2>1
    <3>2. [id |-> i, overdue |-> b] \in N /\ b
      BY <2>1, <2>2, <2>4, <3>1
    <3> DEFINE x == [id |-> i, overdue |-> b]
    <3>3. x.id = i /\ x.overdue = b /\ x \in N
      BY <3>2
    <3> HIDE DEF x
    <3> QED
      BY <3>2, <3>3
  <2> QED
    BY <2>3, <2>4
<1> HIDE DEF N
<1>7. r.partial \in QueueValue
  BY <1>1 DEF RequestRow
<1>8. /\ p \in QueueValue /\ p.overdue = r.partial.overdue
      /\ p.rows = r.partial.rows \cup N
  BY <1>5, <1>7 DEF QueueValue
<1> HIDE DEF p
<1>9. /\ n.route = r.route /\ n.started = r.started /\ n.reads = r.reads \ {<<lane, "rows">>}
      /\ n.today = r.today /\ n.partial = p /\ n.queue = r.queue
      /\ n.behind = r.behind /\ n \in RequestRow
  BY <1>1, <1>8 DEF RequestRow
<1>10. [r EXCEPT !.reads = @ \ {<<lane, "rows">>}, !.partial.rows = @ \cup N] = n
  BY DEF p
<1> HIDE DEF n
<1>11. ListedBy(n) = ListedBy(r) \cup {lane} /\ lane \notin ListedBy(r)
       /\ ListedBy(r) \in SUBSET Lane
  BY <1>9, ReadsAre DEF ListedBy
<1>12. CountedBy(n) = CountedBy(r)
  BY <1>9, ReadsAre DEF CountedBy
<1>13. Lists(n.partial, ListedBy(n), n.started)
  <2>1. Lists(r.partial, ListedBy(r), r.started) /\ r.started \in Int
    BY <1>1 DEF RequestOK, RequestRow
  <2>2. LateRows(p) = LateRows(r.partial) \cup {i \in R : Late(i, u)}
    <3>1. LateRows(p) = LateRows(r.partial) \cup {x.id : x \in {x \in N : x.overdue}}
      BY <1>8 DEF LateRows
    <3> QED
      BY <1>6, <3>1
  <2>3. Lists(p, ListedBy(r) \cup {lane}, r.started)
    BY <1>2, <1>11, <2>1, <2>2, ListsMore
  <2> QED
    BY <1>9, <1>11, <2>3
<1>14. Counts(n.partial, CountedBy(n), n.started)
  <2>1. Counts(r.partial, CountedBy(r), r.started)
    BY <1>1 DEF RequestOK
  <2> QED
    BY <1>8, <1>9, <1>12, <2>1 DEF Counts
<1>15. FromCache \notin n.reads /\ (Behind \in n.reads <=> Behind \in r.reads)
  BY <1>1, <1>9, ReadsAre
<1>16. RequestOK(n)
  BY <1>1, <1>2, <1>9, <1>13, <1>14, <1>15 DEF RequestOK
<1> QED
  BY <1>10, <1>16 DEF N

\* The alert is read.
LEMMA BehindIsOK ==
  ASSUME BoardTypeOK, NEW r, RequestOK(r),
         NEW R \in FirstOf({o \in Order : DueBefore(o, r.started)}, 1),
         NEW behind \in (IF R = {} THEN {Null} ELSE R)
  PROVE  RequestOK([r EXCEPT !.reads = @ \ {Behind}, !.behind = behind])
<1> DEFINE late == {o \in Order : DueBefore(o, r.started)}
           n == [r EXCEPT !.reads = @ \ {Behind}, !.behind = behind]
<1>1. r \in RequestRow /\ R \subseteq late /\ Cardinality(R) = Min({1, Cardinality(late)})
  BY DEF RequestOK, FirstOf
<1>2. behind \in Order \cup {Null} /\ (R # {} => behind # Null)
  BY <1>1, BoardAssumption
<1>3. /\ n.route = r.route /\ n.started = r.started /\ n.reads = r.reads \ {Behind}
      /\ n.today = r.today /\ n.partial = r.partial /\ n.queue = r.queue
      /\ n.behind = behind /\ n \in RequestRow
  BY <1>1, <1>2 DEF RequestRow
<1> HIDE DEF n
<1>4. (\E o \in Order : LateSince(o, r.started)) => behind # Null
  <2> SUFFICES ASSUME NEW o \in Order, LateSince(o, r.started)
               PROVE  R # {}
    BY <1>2
  <2>1. now \in Int /\ r.started \in Int /\ r.started <= now /\ o \in Item
    BY <1>1, HistoriesAre DEF RequestOK, RequestRow, Item
  <2>2. StartOfDay(r.started) \in Int /\ StartOfDay(r.started) <= r.started
    BY <2>1, StartOfDayIs
  <2>3. o \in late
    BY <2>1, <2>2, DueBeforeGrows DEF LateSince, Late
  <2>4. IsFiniteSet(late)
    BY BoardAssumption, FS_Subset DEF Item
  <2> HIDE DEF late
  <2>5. Cardinality(late) \in Int /\ Cardinality(late) # 0
    BY <2>3, <2>4, FS_CardinalityType, FS_EmptySet
  <2>6. Cardinality(R) \in {1, Cardinality(late)}
    <3>1. Min({1, Cardinality(late)}) \in {1, Cardinality(late)}
      BY ONLY <2>5, 1 \in Int, MinOfTwo
    <3> QED
      BY <1>1, <3>1
  <2> QED
    BY <2>5, <2>6, FS_EmptySet
<1>5. /\ FromCache \in n.reads <=> FromCache \in r.reads
      /\ n.reads \cap Queries = r.reads \cap Queries
      /\ CountedBy(n) = CountedBy(r) /\ ListedBy(n) = ListedBy(r)
  BY <1>3, ReadsAre DEF CountedBy, ListedBy
<1> QED
  BY <1>3, <1>4, <1>5 DEF RequestOK, n

\* A request whose queries have all returned knows the queue since it started.
LEMMA FilledTells ==
  ASSUME BoardTypeOK, NEW r, RequestOK(r), r.queue = Null, r.reads \subseteq {Behind}
  PROVE  r.today # Null /\ Tells(r.partial, r.started)
<1>1. FromCache \notin r.reads /\ CountedBy(r) = Lane /\ ListedBy(r) = Lane
  <2>1. FromCache \notin r.reads
    BY ReadsAre
  <2>2. \A lane \in Lane : <<lane, "count">> \notin r.reads /\ <<lane, "rows">> \notin r.reads
    BY ReadsAre
  <2> QED
    BY <2>1, <2>2 DEF CountedBy, ListedBy
<1> QED
  BY <1>1 DEF RequestOK, RequestRow, Tells

LEMMA FilledIsOK ==
  ASSUME BoardTypeOK, NEW r, RequestOK(r), r.queue = Null, r.reads \subseteq {Behind}
  PROVE  RequestOK([r EXCEPT !.queue = r.partial, !.partial = EmptyQueue, !.today = Null])
<1> DEFINE n == [r EXCEPT !.queue = r.partial, !.partial = EmptyQueue, !.today = Null]
<1>1. r \in RequestRow /\ r.partial \in QueueValue /\ Null \notin QueueValue
      /\ EmptyQueue \in QueueValue
  BY EmptyIs, BoardAssumption DEF RequestOK, RequestRow
<1>2. /\ n.route = r.route /\ n.started = r.started /\ n.reads = r.reads
      /\ n.today = Null /\ n.partial = EmptyQueue /\ n.queue = r.partial
      /\ n.behind = r.behind /\ n \in RequestRow
  BY <1>1 DEF RequestRow
<1> HIDE DEF n
<1>3. Tells(r.partial, r.started - QueueAge)
  <2>1. r.started \in Int /\ r.started - QueueAge \in Int /\ r.started - QueueAge <= r.started
    BY <1>1, AgesAre DEF RequestRow
  <2> QED
    BY <2>1, FilledTells, TellsEarlier
<1>4. FromCache \notin n.reads /\ n.reads \cap Queries = {}
  BY <1>2, ReadsAre
<1> QED
  BY <1>1, <1>2, <1>3, <1>4 DEF RequestOK, n

\* What is stored at the end of a request.
LEMMA StoredQueueIsOK ==
  ASSUME BoardTypeOK, NEW r, RequestOK(r), NEW v, Tells(v, r.started)
  PROVE  QueueEntryOK(Stored(v)) /\ Tells(v, now - QueueAge)
<1>1. now \in Int /\ r.started \in Int /\ r.started <= now /\ now - r.started <= MaxDuration
  BY HistoriesAre DEF RequestOK, RequestRow
<1>2. Stored(v).value = v /\ Stored(v).until = now + Ttl
  BY DEF Stored
<1>3. /\ now - QueueAge \in Int /\ now - QueueAge <= r.started
      /\ (now + Ttl) - QueueAge \in Int /\ (now + Ttl) - QueueAge <= r.started
  BY <1>1, AgesAre
<1>4. Tells(v, now - QueueAge) /\ Tells(v, (now + Ttl) - QueueAge)
  BY <1>1, <1>3, TellsEarlier
<1> QED
  BY <1>1, <1>2, <1>4, AgesAre DEF QueueEntryOK

BoardTells(value, queueSince, behindSince) ==
    /\ Tells(value.queue, queueSince)
    /\ (\E o \in Order : LateSince(o, behindSince)) => value.behind # Null

LEMMA StoredBoardIsOK ==
  ASSUME BoardTypeOK, NEW r, RequestOK(r), r.route = "dashboard", r.reads = {}, r.queue # Null,
         NEW v, v = [queue |-> r.queue, behind |-> r.behind]
  PROVE  BoardEntryOK(Stored(v)) /\ BoardTells(v, now - 2 * QueueAge, now - QueueAge)
<1>1. now \in Int /\ r.started \in Int /\ r.started <= now /\ now - r.started <= MaxDuration
  BY HistoriesAre DEF RequestOK, RequestRow
<1>2. Stored(v).value = v /\ Stored(v).until = now + Ttl /\ v.queue = r.queue /\ v.behind = r.behind
  BY DEF Stored
<1>3. /\ Tells(r.queue, r.started - QueueAge)
      /\ (\E o \in Order : LateSince(o, r.started)) => r.behind # Null
  BY DEF RequestOK
<1>4. /\ now - 2 * QueueAge \in Int /\ (now + Ttl) - 2 * QueueAge \in Int
      /\ r.started - QueueAge \in Int
      /\ now - 2 * QueueAge <= r.started - QueueAge
      /\ (now + Ttl) - 2 * QueueAge <= r.started - QueueAge
      /\ now - QueueAge \in Int /\ (now + Ttl) - QueueAge \in Int
      /\ now - QueueAge <= r.started /\ (now + Ttl) - QueueAge <= r.started
  BY <1>1, AgesAre
<1>5. Tells(r.queue, now - 2 * QueueAge) /\ Tells(r.queue, (now + Ttl) - 2 * QueueAge)
  BY <1>3, <1>4, TellsEarlier
<1>6. \A o \in Order : /\ LateSince(o, now - QueueAge) => LateSince(o, r.started)
                       /\ LateSince(o, (now + Ttl) - QueueAge) => LateSince(o, r.started)
  BY <1>1, <1>4, SinceEarlier DEF Item
<1>7. /\ (\E o \in Order : LateSince(o, now - QueueAge)) => r.behind # Null
      /\ (\E o \in Order : LateSince(o, (now + Ttl) - QueueAge)) => r.behind # Null
  BY <1>3, <1>6
<1> QED
  BY <1>1, <1>2, <1>5, <1>7, AgesAre DEF BoardEntryOK, BoardTells

\* What is answered from a live entry.
LEMMA LiveQueueTells ==
  ASSUME BoardTypeOK, NEW e, QueueEntryOK(e), now <= e.until
  PROVE  Tells(e.value, now - QueueAge)
<1>1. /\ now - QueueAge \in Int /\ e.until - QueueAge \in Int
      /\ now - QueueAge <= e.until - QueueAge
  BY HistoriesAre, AgesAre DEF QueueEntryOK
<1> QED
  BY <1>1, TellsEarlier DEF QueueEntryOK

LEMMA LiveBoardTells ==
  ASSUME BoardTypeOK, NEW e, BoardEntryOK(e), now <= e.until
  PROVE  BoardTells(e.value, now - 2 * QueueAge, now - QueueAge)
<1>1. /\ now - 2 * QueueAge \in Int /\ e.until - 2 * QueueAge \in Int
      /\ now - 2 * QueueAge <= e.until - 2 * QueueAge
      /\ now - QueueAge \in Int /\ e.until - QueueAge \in Int
      /\ now - QueueAge <= e.until - QueueAge
  BY HistoriesAre, AgesAre DEF BoardEntryOK
<1>2. Tells(e.value.queue, now - 2 * QueueAge)
  BY <1>1, TellsEarlier DEF BoardEntryOK
<1>3. \A o \in Order : LateSince(o, now - QueueAge) => LateSince(o, e.until - QueueAge)
  BY <1>1, SinceEarlier DEF Item
<1> QED
  BY <1>2, <1>3 DEF BoardEntryOK, BoardTells

\* What a page shows, whatever its route.
ShownTells ==
    shown # Null =>
        IF shown.route = "queue" THEN Tells(shown.value, now - QueueAge)
        ELSE BoardTells(shown.value, now - 2 * QueueAge, now - QueueAge)

LEMMA ShownFollows ==
  ASSUME BoardTypeOK, ShownTells
  PROVE  DashboardFollowsTheWorkshop
<1>1. now \in Int /\ QueueAge \in Int /\ 2 * QueueAge \in Int
      /\ now - QueueAge \in Int /\ now - (now - QueueAge) = QueueAge
  BY HistoriesAre, AgesAre
<1>2. \A o \in Order : LateThroughout(o, QueueAge) => LateSince(o, now - QueueAge)
  BY <1>1 DEF LateThroughout, LateSince
<1>3. CASE shown # Null /\ shown.route = "queue"
  <2>1. PICK v : v = shown.value
    OBVIOUS
  <2>2. QueueFollows(v, QueueAge)
    BY <1>1, <1>3, <2>1, TellsFollows DEF ShownTells
  <2> QED
    BY <1>3, <2>1, <2>2, AgesAre DEF DashboardFollowsTheWorkshop
<1>4. CASE shown # Null /\ shown.route # "queue"
  <2>1. PICK v : v = shown.value
    OBVIOUS
  <2>2. BoardTells(v, now - 2 * QueueAge, now - QueueAge)
    BY <1>4, <2>1 DEF ShownTells
  <2>3. QueueFollows(v.queue, 2 * QueueAge)
    BY <1>1, <2>2, TellsFollows DEF BoardTells
  <2>4. (\E o \in Order : LateThroughout(o, QueueAge)) => v.behind # Null
    BY <1>2, <2>2 DEF BoardTells
  <2> QED
    BY <1>4, <2>1, <2>3, <2>4, AgesAre DEF DashboardFollowsTheWorkshop
<1> QED
  BY <1>3, <1>4 DEF DashboardFollowsTheWorkshop

-----------------------------------------------------------------------------
(* The steps.                                                              *)

\* One read or answer of the request c: it leaves a request, caches and an answer
\* that tell what they should.
Turn(c) ==
    /\ UNCHANGED <<now, items>>
    /\ \E r : request' = [request EXCEPT ![c] = r] /\ (r # Null => RequestOK(r))
    /\ queueCache' # queueCache => QueueEntryOK(queueCache')
    /\ boardCache' # boardCache => BoardEntryOK(boardCache')
    /\ \/ shown' = Null
       \/ shown'.route = "queue" /\ Tells(shown'.value, now - QueueAge)
       \/ shown'.route # "queue" /\ BoardTells(shown'.value, now - 2 * QueueAge, now - QueueAge)

LEMMA PageTurns ==
  ASSUME BoardInv, NEW c \in Request, Page(c)
  PROVE  Turn(c)
<1> DEFINE r == request[c]
<1>1. BoardTypeOK /\ (r # Null => RequestOK(r))
  BY DEF BoardInv
<1>2. CASE GetDashboard(c)
  <2>1. CASE Live(boardCache) /\ Answer(c, "dashboard", boardCache.value)
    <3>1. BoardEntryOK(boardCache) /\ now <= boardCache.until
      BY <2>1 DEF BoardInv, Live
    <3>2. BoardTells(boardCache.value, now - 2 * QueueAge, now - QueueAge)
      BY <1>1, <3>1, LiveBoardTells
    <3>3. shown'.route # "queue" /\ shown'.value = boardCache.value
      BY <2>1 DEF Answer
    <3> QED
      BY <1>2, <2>1, <3>2, <3>3 DEF GetDashboard, Answer, Turn
  <2>2. CASE ~Live(boardCache)
    <3>1. RequestOK(NewRequest("dashboard", {FromCache, Behind}))
      BY <1>1, NewIsOK
    <3> QED
      BY <1>2, <2>2, <3>1 DEF GetDashboard, Turn
  <2> QED
    BY <1>2, <2>1, <2>2 DEF GetDashboard
<1>3. CASE GetQueue(c)
  <2>1. RequestOK(NewRequest("queue", {FromCache}))
    BY <1>1, NewIsOK
  <2> QED
    BY <1>3, <2>1 DEF GetQueue, Turn
<1>4. CASE OpenQueue(c)
  <2>1. r # Null /\ FromCache \in r.reads /\ RequestOK(r)
    BY <1>1, <1>4 DEF OpenQueue, Awaits, Running
  <2>2. CASE Live(queueCache)
    <3>1. QueueEntryOK(queueCache) /\ now <= queueCache.until
      BY <2>2 DEF BoardInv, Live
    <3>2. PICK v : v = queueCache.value
      OBVIOUS
    <3>3. Tells(v, now - QueueAge)
      BY <1>1, <3>1, <3>2, LiveQueueTells
    <3>4. CASE Answer(c, "queue", queueCache.value)
      <4>1. shown'.route = "queue" /\ shown'.value = v
        BY <3>2, <3>4 DEF Answer
      <4> QED
        BY <1>4, <3>3, <3>4, <4>1 DEF OpenQueue, Answer, Turn
    <3>5. CASE ~Answer(c, "queue", queueCache.value)
      <4>1. /\ request' = [request EXCEPT ![c].queue = v, ![c].reads = @ \ {FromCache}]
            /\ shown' = Null
        BY <1>4, <2>2, <3>2, <3>5 DEF OpenQueue
      <4>2. request' = [request EXCEPT ![c] = [r EXCEPT !.queue = v, !.reads = @ \ {FromCache}]]
        BY <4>1
      <4>3. RequestOK([r EXCEPT !.queue = v, !.reads = @ \ {FromCache}])
        BY <1>1, <2>1, <3>3, FoundIsOK
      <4> QED
        BY <1>4, <4>1, <4>2, <4>3 DEF OpenQueue, Turn
    <3> QED
      BY <3>4, <3>5
  <2>3. CASE ~Live(queueCache)
    <3>1. /\ request' = [request EXCEPT ![c].today = StartOfDay(now),
                                        ![c].reads = (@ \ {FromCache}) \cup Queries]
          /\ shown' = Null
      BY <1>4, <2>3 DEF OpenQueue
    <3>2. request' = [request EXCEPT ![c] = [r EXCEPT !.today = StartOfDay(now),
                                                     !.reads = (@ \ {FromCache}) \cup Queries]]
      BY <3>1
    <3>3. RequestOK([r EXCEPT !.today = StartOfDay(now),
                              !.reads = (@ \ {FromCache}) \cup Queries])
      BY <1>1, <2>1, OpenedIsOK
    <3> QED
      BY <1>4, <3>1, <3>2, <3>3 DEF OpenQueue, Turn
  <2> QED
    BY <2>2, <2>3
<1>5. ASSUME NEW lane \in Lane, ReadRows(c, lane) PROVE Turn(c)
  <2>1. r # Null /\ <<lane, "rows">> \in r.reads /\ RequestOK(r)
    BY <1>1, <1>5 DEF ReadRows, Awaits, Running
  <2>2. PICK R \in FirstOf({i \in Of(lane) : IsOpen(i)}, QueueItemLimit) :
          request' = [request EXCEPT
              ![c].reads = @ \ {<<lane, "rows">>},
              ![c].partial.rows =
                  @ \cup {[id |-> i, overdue |-> DueBefore(i, request[c].today)] : i \in R}]
    BY <1>5 DEF ReadRows
  <2> DEFINE n == [r EXCEPT !.reads = @ \ {<<lane, "rows">>},
                            !.partial.rows =
                                @ \cup {[id |-> i, overdue |-> DueBefore(i, r.today)] : i \in R}]
  <2>3. request' = [request EXCEPT ![c] = n]
    BY <2>2
  <2>4. RequestOK(n)
    BY <1>1, <2>1, ListedIsOK
  <2> HIDE DEF n
  <2> QED
    BY <1>5, <2>3, <2>4 DEF ReadRows, Turn
<1>6. ASSUME NEW lane \in Lane, ReadOverdue(c, lane) PROVE Turn(c)
  <2>1. r # Null /\ <<lane, "count">> \in r.reads /\ RequestOK(r)
    BY <1>1, <1>6 DEF ReadOverdue, Awaits, Running
  <2> DEFINE n == [r EXCEPT !.reads = @ \ {<<lane, "count">>},
                            !.partial.overdue =
                                @ + Cardinality({i \in Of(lane) : DueBefore(i, r.today)})]
  <2>2. request' = [request EXCEPT ![c] = n]
    BY <1>6 DEF ReadOverdue
  <2>3. RequestOK(n)
    BY <1>1, <2>1, CountedIsOK
  <2> HIDE DEF n
  <2> QED
    BY <1>6, <2>2, <2>3 DEF ReadOverdue, Turn
<1>7. CASE ReadBehind(c)
  <2>1. r # Null /\ RequestOK(r)
    BY <1>1, <1>7 DEF ReadBehind, Awaits, Running
  <2>2. PICK R \in FirstOf({o \in Order : DueBefore(o, r.started)}, 1) :
          \E behind \in (IF R = {} THEN {Null} ELSE R) :
             request' = [request EXCEPT ![c].reads = @ \ {Behind}, ![c].behind = behind]
    BY <1>7 DEF ReadBehind
  <2>5. PICK behind \in (IF R = {} THEN {Null} ELSE R) :
          request' = [request EXCEPT ![c].reads = @ \ {Behind}, ![c].behind = behind]
    BY <2>2
  <2> DEFINE n == [r EXCEPT !.reads = @ \ {Behind}, !.behind = behind]
  <2>3. request' = [request EXCEPT ![c] = n]
    BY <2>5
  <2>4. RequestOK(n)
    BY <1>1, <2>1, BehindIsOK
  <2> HIDE DEF n
  <2> QED
    BY <1>7, <2>3, <2>4 DEF ReadBehind, Turn
<1>8. CASE FillQueue(c)
  <2>1. r # Null /\ RequestOK(r) /\ r.queue = Null /\ r.reads \subseteq {Behind}
    BY <1>1, <1>8 DEF FillQueue
  <2>2. PICK v : v = r.partial
    OBVIOUS
  <2>3. Tells(v, r.started)
    BY <1>1, <2>1, <2>2, FilledTells
  <2>4. QueueEntryOK(Stored(v)) /\ Tells(v, now - QueueAge)
    BY <1>1, <2>1, <2>3, StoredQueueIsOK
  <2>5. queueCache' = Stored(v) /\ UNCHANGED <<now, items, boardCache>>
    BY <1>8, <2>2 DEF FillQueue
  <2>6. CASE Answer(c, "queue", v)
    <3>1. shown'.route = "queue" /\ shown'.value = v /\ request' = [request EXCEPT ![c] = Null]
      BY <2>6 DEF Answer
    <3> QED
      BY <2>4, <2>5, <3>1 DEF Turn
  <2>7. CASE ~Answer(c, "queue", v)
    <3> DEFINE n == [r EXCEPT !.queue = r.partial, !.partial = EmptyQueue, !.today = Null]
    <3>1. request' = [request EXCEPT ![c] = n] /\ shown' = Null
      BY <1>8, <2>2, <2>7 DEF FillQueue
    <3>2. RequestOK(n)
      BY <1>1, <2>1, FilledIsOK
    <3> HIDE DEF n
    <3> QED
      BY <2>4, <2>5, <3>1, <3>2 DEF Turn
  <2> QED
    BY <2>6, <2>7
<1>9. CASE FillDashboard(c)
  <2>1. r # Null /\ RequestOK(r) /\ r.route = "dashboard" /\ r.reads = {} /\ r.queue # Null
    BY <1>1, <1>9 DEF FillDashboard
  <2>2. PICK v : v = [queue |-> r.queue, behind |-> r.behind]
    OBVIOUS
  <2>3. BoardEntryOK(Stored(v)) /\ BoardTells(v, now - 2 * QueueAge, now - QueueAge)
    BY <1>1, <2>1, <2>2, StoredBoardIsOK
  <2>4. /\ boardCache' = Stored(v) /\ Answer(c, "dashboard", v)
        /\ UNCHANGED <<now, items, queueCache>>
    BY <1>9, <2>2 DEF FillDashboard
  <2>5. shown'.route # "queue" /\ shown'.value = v /\ request' = [request EXCEPT ![c] = Null]
    BY <2>4 DEF Answer
  <2> QED
    BY <2>3, <2>4, <2>5 DEF Turn
<1> QED
  BY <1>2, <1>3, <1>4, <1>5, <1>6, <1>7, <1>8, <1>9 DEF Page

LEMMA TurnShows ==
  ASSUME BoardTypeOK, NEW c, Turn(c)
  PROVE  ShownTells'
<1>1. /\ now' = now /\ now - QueueAge \in Int /\ now - QueueAge <= now
      /\ now - 2 * QueueAge \in Int /\ now - 2 * QueueAge <= now
  BY HistoriesAre, AgesAre DEF Turn
<1>2. UNCHANGED <<now, items>> /\ Evolves
  BY ReadingEvolves DEF Turn
<1>3. PICK v, t, u : v = shown'.value /\ t = now - QueueAge /\ u = now - 2 * QueueAge
  OBVIOUS
<1>4. t = now' - QueueAge /\ u = now' - 2 * QueueAge
  BY <1>1, <1>3
<1>5. Tells(v, t) => Tells(v, t)'
  BY <1>1, <1>2, <1>3, TellsStays
<1>6. BoardTells(v, u, t) => BoardTells(v, u, t)'
  <2> SUFFICES ASSUME BoardTells(v, u, t) PROVE BoardTells(v, u, t)'
    OBVIOUS
  <2>1. Tells(v.queue, u)'
    BY <1>1, <1>2, <1>3, TellsStays DEF BoardTells
  <2>2. \A o \in Order : LateSince(o, t)' => LateSince(o, t)
    BY <1>1, <1>3, <1>2 DEF Evolves, Item
  <2> QED
    BY <2>1, <2>2 DEF BoardTells
<1>7. CASE shown' = Null
  BY <1>7 DEF ShownTells
<1>8. CASE shown'.route = "queue" /\ Tells(shown'.value, now - QueueAge)
  <2>1. Tells(v, t)'
    BY <1>3, <1>5, <1>8
  <2> QED
    BY <1>3, <1>4, <1>8, <2>1 DEF ShownTells
<1>9. CASE shown'.route # "queue" /\ BoardTells(shown'.value, now - 2 * QueueAge, now - QueueAge)
  <2>1. BoardTells(v, u, t)'
    BY <1>3, <1>6, <1>9
  <2> QED
    BY <1>3, <1>4, <1>9, <2>1 DEF ShownTells
<1> QED
  BY <1>7, <1>8, <1>9 DEF Turn

LEMMA TurnKeeps ==
  ASSUME BoardInv, NEW c \in Request, Turn(c), BoardTypeOK'
  PROVE  BoardInv'
<1>1. BoardTypeOK /\ Evolves /\ now' = now
  BY ReadingEvolves DEF BoardInv, Turn
<1>2. PICK n : request' = [request EXCEPT ![c] = n] /\ (n # Null => RequestOK(n))
  BY DEF Turn
<1>3. request = [d \in Request |-> request[d]]
  BY DEF BoardInv
<1>4. request' = [d \in Request |-> request'[d]]
  BY <1>2, <1>3
<1>5. ASSUME NEW d \in Request, request'[d] # Null
      PROVE  RequestOK(request[d])'
  <2>1. PICK r : r = request'[d]
    OBVIOUS
  <2>2. RequestOK(r)
    <3>1. CASE d = c
      BY <1>2, <1>3, <1>5, <2>1, <3>1
    <3>2. CASE d # c
      <4>1. request'[d] = request[d]
        BY <1>2, <1>3, <3>2
      <4> QED
        BY <1>5, <2>1, <4>1 DEF BoardInv
    <3> QED
      BY <3>1, <3>2
  <2>3. now' - r.started <= MaxDuration
    BY <1>1, <2>2 DEF RequestOK
  <2>4. RequestOK(r)'
    BY <1>1, <2>2, <2>3, RequestStays
  <2> QED
    BY <2>1, <2>4
<1>6. ASSUME queueCache' # Null
      PROVE  QueueEntryOK(queueCache)'
  <2>1. PICK e : e = queueCache'
    OBVIOUS
  <2>2. QueueEntryOK(e)
    BY <1>6, <2>1 DEF Turn, BoardInv
  <2>3. QueueEntryOK(e)'
    BY <1>1, <2>2, QueueEntryStays
  <2> QED
    BY <2>1, <2>3
<1>7. ASSUME boardCache' # Null
      PROVE  BoardEntryOK(boardCache)'
  <2>1. PICK e : e = boardCache'
    OBVIOUS
  <2>2. BoardEntryOK(e)
    BY <1>7, <2>1 DEF Turn, BoardInv
  <2>3. BoardEntryOK(e)'
    BY <1>1, <2>2, BoardEntryStays
  <2> QED
    BY <2>1, <2>3
<1> QED
  BY <1>4, <1>5, <1>6, <1>7 DEF BoardInv

\* A step that only drops requests and cache entries.
LEMMA DropKeeps ==
  ASSUME BoardInv, BoardTypeOK', Evolves,
         request' = request \/ request' = [c \in Request |-> Null],
         \A c \in Request : request'[c] # Null => now' - request[c].started <= MaxDuration,
         queueCache' = queueCache \/ queueCache' = Null,
         boardCache' = boardCache \/ boardCache' = Null
  PROVE  BoardInv'
<1>1. request' = [d \in Request |-> request'[d]]
  BY DEF BoardInv
<1>2. ASSUME NEW d \in Request, request'[d] # Null
      PROVE  RequestOK(request[d])'
  <2>1. request' = request
    BY <1>2
  <2>2. PICK r : r = request'[d]
    OBVIOUS
  <2>3. RequestOK(r) /\ now' - r.started <= MaxDuration
    BY <1>2, <2>1, <2>2 DEF BoardInv
  <2>4. RequestOK(r)'
    BY <2>3, RequestStays
  <2> QED
    BY <2>2, <2>4
<1>3. ASSUME queueCache' # Null
      PROVE  QueueEntryOK(queueCache)'
  <2>1. PICK e : e = queueCache'
    OBVIOUS
  <2>2. QueueEntryOK(e)
    BY <1>3, <2>1 DEF BoardInv
  <2>3. QueueEntryOK(e)'
    BY <2>2, QueueEntryStays
  <2> QED
    BY <2>1, <2>3
<1>4. ASSUME boardCache' # Null
      PROVE  BoardEntryOK(boardCache)'
  <2>1. PICK e : e = boardCache'
    OBVIOUS
  <2>2. BoardEntryOK(e)
    BY <1>4, <2>1 DEF BoardInv
  <2>3. BoardEntryOK(e)'
    BY <2>2, BoardEntryStays
  <2> QED
    BY <2>1, <2>3
<1> QED
  BY <1>1, <1>2, <1>3, <1>4 DEF BoardInv

LEMMA RequestsAreShort ==
  ASSUME BoardInv, NEW c \in Request, request[c] # Null
  PROVE  now - request[c].started <= MaxDuration /\ request[c].started \in Int
  BY DEF BoardInv, RequestOK, RequestRow

-----------------------------------------------------------------------------
(* The types of deliveries, invoices and histories.                        *)

LEMMA NotedTypes ==
  ASSUME BoardTypeOK, NEW i \in Item, Noted(i)
  PROVE  unedited' \in [Item -> Nat] /\ unlate' \in [Item -> Nat]
  BY DEF Noted, BoardTypeOK

LEMMA BoardTypeStep == BoardTypeOK /\ [BoardNext]_boardVars => BoardTypeOK'
<1> SUFFICES ASSUME BoardTypeOK, [BoardNext]_boardVars PROVE BoardTypeOK'
  OBVIOUS
<1>1. PlanningTypeOK'
  BY PlanningTypeStep DEF BoardTypeOK
<1>2. CASE CreateOrder
  <2>1. UNCHANGED doc /\ unedited' \in [Item -> Nat] /\ unlate' \in [Item -> Nat]
    BY <1>2, NotedTypes DEF CreateOrder, Item
  <2> QED
    BY <1>1, <2>1 DEF BoardTypeOK
<1>3. CASE EditOrder
  <2>1. UNCHANGED doc /\ unedited' \in [Item -> Nat] /\ unlate' \in [Item -> Nat]
    BY <1>3, NotedTypes DEF EditOrder, Item
  <2> QED
    BY <1>1, <2>1 DEF BoardTypeOK
<1>4. CASE CreateDoc
  <2>1. PICK d \in Doc, dto \in DocInput : doc' = [doc EXCEPT ![d] = dto] /\ Noted(d)
    BY <1>4 DEF CreateDoc
  <2>2. dto \in DocRow
    BY BoardAssumption
  <2>3. doc' \in [Doc -> DocRow \cup {Null}]
    BY <2>1, <2>2 DEF BoardTypeOK
  <2> QED
    BY <1>1, <2>1, <2>3, NotedTypes DEF BoardTypeOK, Item
<1>5. CASE EditDoc
  <2>1. PICK d \in Doc, body \in DocBody :
          /\ doc[d] # Null /\ Noted(d)
          /\ doc' = [doc EXCEPT ![d] = [open |-> body.open, due |-> Patched(@.due, body.due)]]
    BY <1>5 DEF EditDoc
  <2>2. body.open \in BOOLEAN /\ body.due \in Moment \cup {Keep} /\ doc[d] \in DocRow
    BY <2>1, BoardAssumption DEF BoardTypeOK
  <2>3. Patched(doc[d].due, body.due) \in Moment \cup {Null}
    BY <2>2 DEF Patched, DocRow
  <2>4. doc' \in [Doc -> DocRow \cup {Null}]
    BY <2>1, <2>2, <2>3 DEF BoardTypeOK, DocRow
  <2> QED
    BY <1>1, <2>1, <2>4, NotedTypes DEF BoardTypeOK, Item
<1>6. ASSUME NEW c \in Request, Page(c) PROVE BoardTypeOK'
  <2>1. UNCHANGED items
    BY <1>6 DEF Page, GetDashboard, GetQueue, OpenQueue, ReadRows, ReadOverdue, FillQueue,
       ReadBehind, FillDashboard
  <2> QED
    BY <1>1, <2>1 DEF BoardTypeOK, items
<1>7. CASE Tick
  <2>1. UNCHANGED doc /\ unedited' = Aged(unedited) /\ unlate' = Aged(unlate)
    BY <1>7 DEF Tick
  <2>2. Old \in Nat
    BY BoardAssumption DEF Old
  <2>3. ASSUME NEW k \in Nat PROVE Min({k + 1, Old}) \in Nat
    <3>1. k + 1 \in Int /\ Old \in Int
      BY <2>2
    <3>2. Min({k + 1, Old}) \in {k + 1, Old}
      BY ONLY <3>1, MinOfTwo
    <3> QED
      BY <2>2, <3>2
  <2>4. Aged(unedited) \in [Item -> Nat] /\ Aged(unlate) \in [Item -> Nat]
    BY <2>3, HistoriesAre DEF Aged
  <2> QED
    BY <1>1, <2>1, <2>4 DEF BoardTypeOK
<1>8. CASE Restart
  BY <1>1, <1>8 DEF Restart, items, BoardTypeOK
<1>9. CASE UNCHANGED boardVars
  BY <1>1, <1>9 DEF boardVars, BoardTypeOK
<1> QED
  BY <1>2, <1>3, <1>4, <1>5, <1>6, <1>7, <1>8, <1>9 DEF BoardNext

-----------------------------------------------------------------------------
(* The theorem.                                                            *)

LEMMA BoardInvInit == BoardInit => BoardInv /\ ShownTells
<1> SUFFICES ASSUME BoardInit PROVE BoardInv /\ ShownTells
  OBVIOUS
<1>1. PlanningTypeOK
  BY PlanningTypeInit DEF BoardInit
<1>2. Old \in Nat
  BY BoardAssumption DEF Old
<1>3. BoardTypeOK
  BY <1>1, <1>2 DEF BoardInit, BoardTypeOK
<1> QED
  BY <1>3 DEF BoardInit, BoardInv, ShownTells

LEMMA BoardInvStep ==
  BoardInv /\ ShownTells /\ [BoardNext]_boardVars => BoardInv' /\ ShownTells'
<1> SUFFICES ASSUME BoardInv, ShownTells, [BoardNext]_boardVars
             PROVE  BoardInv' /\ ShownTells'
  OBVIOUS
<1>1. BoardTypeOK /\ BoardTypeOK' /\ Evolves
  BY BoardTypeStep, StepEvolves DEF BoardInv
<1>2. ASSUME NEW c \in Request, Page(c) PROVE BoardInv' /\ ShownTells'
  <2>1. Turn(c)
    BY <1>2, PageTurns
  <2> QED
    BY <1>1, <2>1, TurnKeeps, TurnShows
<1>3. CASE CreateOrder \/ EditOrder \/ CreateDoc \/ EditDoc
  <2>1. shown' = Null /\ now' = now /\ UNCHANGED <<queueCache, boardCache, request>>
    BY <1>3 DEF CreateOrder, EditOrder, CreateDoc, EditDoc, Noted, Create, Update, UpsertStage,
       planningVars
  <2>2. \A c \in Request : request'[c] # Null => now' - request[c].started <= MaxDuration
    BY <2>1, RequestsAreShort
  <2> QED
    BY <1>1, <2>1, <2>2, DropKeeps DEF ShownTells
<1>4. CASE Tick
  <2>1. /\ now' = now + 1 /\ shown' = Null /\ request' = request
        /\ \A c \in Running : now - request[c].started < MaxDuration
        /\ queueCache' = queueCache \/ queueCache' = Null
        /\ boardCache' = boardCache \/ boardCache' = Null
    BY <1>4 DEF Tick, Evicted
  <2>2. \A c \in Request : request'[c] # Null => now' - request[c].started <= MaxDuration
    BY <1>1, <2>1, RequestsAreShort, HistoriesAre, AgesAre DEF Running
  <2> QED
    BY <1>1, <2>1, <2>2, DropKeeps DEF ShownTells
<1>5. CASE Restart
  <2>1. /\ shown' = Null /\ request' = [c \in Request |-> Null]
        /\ queueCache' = queueCache \/ queueCache' = Null
        /\ boardCache' = boardCache \/ boardCache' = Null
    BY <1>5 DEF Restart
  <2>2. \A c \in Request : request'[c] # Null => now' - request[c].started <= MaxDuration
    BY <2>1
  <2> QED
    BY <1>1, <2>1, <2>2, DropKeeps DEF ShownTells
<1>6. CASE UNCHANGED boardVars
  <2>1. /\ UNCHANGED <<now, items>> /\ UNCHANGED <<request, queueCache, boardCache, shown>>
    BY <1>6 DEF boardVars, planningVars, items
  <2>2. \A c \in Request : request'[c] # Null => now' - request[c].started <= MaxDuration
    BY <2>1, RequestsAreShort
  <2>3. BoardInv'
    BY <1>1, <2>1, <2>2, DropKeeps
  <2>4. ShownTells'
    BY <2>1 DEF ShownTells, BoardTells, Tells, Counts, Lists, LateSince, LateAfter, Late,
       DueBefore, IsOpen, Row, DueOf, StartOfDay, DayStart, DayOf, items
  <2> QED
    BY <2>3, <2>4
<1> QED
  BY <1>2, <1>3, <1>4, <1>5, <1>6 DEF BoardNext

\* What the queue and the dashboard answer is true of the items late throughout and
\* at some moment of the time their caches and requests span, for any items, limits,
\* times to live and overlaps of reads and edits.
THEOREM DashboardIsFollowed == BoardSpec => []DashboardFollowsTheWorkshop
<1>1. BoardInv /\ ShownTells => DashboardFollowsTheWorkshop
  BY ShownFollows DEF BoardInv
<1> QED
  BY <1>1, BoardInvInit, BoardInvStep, PTL DEF BoardSpec
==============================================================================

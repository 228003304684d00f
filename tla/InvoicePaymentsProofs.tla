------------------------ MODULE InvoicePaymentsProofs ------------------------
(***************************************************************************)
(* Proofs about InvoicePayments, for any invoices, amounts, calls and      *)
(* interleaving of them.                                                   *)
(*                                                                         *)
(* The invoice is written from what a call read long before, so nothing    *)
(* can be proved from the columns alone: the invariant bounds what every   *)
(* call in flight still means to write.                                    *)
(***************************************************************************)
EXTENDS InvoicePayments, FiniteSetTheorems, TLAPS

\* A call in flight is about an invoice.
DocKnown == \A r \in Call : pc[r] \in Running => doc[r] \in Invoice

\* What a payment in flight will write is positive and within the total,
\* because the total cannot change after it has been compared.
InFlightWithinTotal ==
  \A r \in Call : pc[r] \in Paying =>
    amount[r] > 0 /\ seenPaid[r] + amount[r] <= Total[doc[r]]

\* What it has read was backed by payments, and payments are never removed.
InFlightIsBacked ==
  \A r \in Call : pc[r] \in Paying =>
    doc[r] \in marked \/ seenPaid[r] <= booked[doc[r]]

TypeInv == TypeOK /\ DocKnown

AmountInv ==
  /\ TypeInv
  /\ InFlightWithinTotal /\ PaidWithinTotal
  /\ InFlightIsBacked /\ PaidIsBacked

-----------------------------------------------------------------------------
LEMMA TypeInvInit == Init => TypeInv
<1> USE InvoicesAssumption
<1>1. SUFFICES ASSUME Init PROVE TypeInv
  OBVIOUS
<1>2. TypeOK
  BY <1>1 DEF Init, TypeOK, Status, Kind
<1>3. DocKnown
  BY <1>1 DEF Init, DocKnown, Running, Paying
<1> QED
  BY <1>2, <1>3 DEF TypeInv

LEMMA AmountIsNat ==
  ASSUME TypeOK, NEW r \in Call
  PROVE  amount[r] \in Nat
<1>1. amount[r] \in Amount \cup {0}
  BY DEF TypeOK
<1>2. \A a \in Amount : a \in Nat
  BY InvoicesAssumption
<1>3. CASE amount[r] \in Amount
  BY <1>2, <1>3
<1>4. CASE amount[r] = 0
  BY <1>4
<1> QED
  BY <1>1, <1>3, <1>4

LEMMA TypeInvStep == TypeInv /\ [Next]_vars => TypeInv'
<1> USE InvoicesAssumption DEF TypeInv, Goto
<1> SUFFICES ASSUME TypeInv, [Next]_vars PROVE TypeInv'
  OBVIOUS
<1> USE DEF TypeOK, DocKnown, Running, Paying, Answered
<1>1. ASSUME NEW r \in Call, NEW i \in Invoice, NEW a \in Amount, ReadForPayment(r, i, a)
      PROVE  TypeInv'
  BY <1>1 DEF ReadForPayment, MayStart, rows, locks
<1>2. ASSUME NEW r \in Call, OpenCollection(r) PROVE TypeInv'
  BY <1>2 DEF OpenCollection, rows
<1>3. ASSUME NEW r \in Call, WriteInvoice(r) PROVE TypeInv'
  BY <1>3 DEF WriteInvoice, rows
<1>4. ASSUME NEW r \in Call, AuditPayment(r) PROVE TypeInv'
  BY <1>4 DEF AuditPayment, rows, locks
<1>5. ASSUME NEW r \in Call, CommitPayment(r) PROVE TypeInv'
  <2>1. doc[r] \in Invoice
    BY <1>5 DEF CommitPayment
  <2>2. amount[r] \in Nat
    BY AmountIsNat
  <2>3. NewPaid(r) \in Nat /\ booked[doc[r]] + amount[r] \in Nat
    BY <2>1, <2>2 DEF NewPaid
  <2> QED
    BY <1>5, <2>1, <2>3 DEF CommitPayment, Release, Status, FullyPaid
<1>6. ASSUME NEW r \in Call, AbortPayment(r) PROVE TypeInv'
  BY <1>6 DEF AbortPayment, Release, rows
<1>7. ASSUME NEW r \in Call, NEW i \in Invoice, ReadForMark(r, i) PROVE TypeInv'
  BY <1>7 DEF ReadForMark, MayStart, rows, locks
<1>8. ASSUME NEW r \in Call, WriteMark(r) PROVE TypeInv'
  BY <1>8 DEF WriteMark, locks, Status
<1>9. ASSUME NEW r \in Call, NEW i \in Invoice, ReadForEdit(r, i) PROVE TypeInv'
  BY <1>9 DEF ReadForEdit, MayStart, rows, locks
<1>10. ASSUME NEW r \in Call, WriteEdit(r) PROVE TypeInv'
  BY <1>10 DEF WriteEdit, locks
<1>11. CASE UNCHANGED vars
  BY <1>11 DEF vars, rows, locks, calls
<1> QED
  BY <1>1, <1>2, <1>3, <1>4, <1>5, <1>6, <1>7, <1>8, <1>9, <1>10, <1>11
  DEF Next, Payment, Mark, Edit

\* Every column and every memory of a call keeps its type, and a call that is
\* writing knows an invoice that exists.
THEOREM TypeCorrect == Spec => []TypeOK
<1>1. Spec => []TypeInv
  BY TypeInvInit, TypeInvStep, PTL DEF Spec
<1>2. TypeInv => TypeOK
  BY DEF TypeInv
<1> QED
  BY <1>1, <1>2, PTL
-----------------------------------------------------------------------------
LEMMA AmountInvInit == Init => AmountInv
<1> SUFFICES ASSUME Init PROVE AmountInv
  OBVIOUS
<1>1. TypeInv
  BY TypeInvInit
<1>2. InFlightWithinTotal /\ InFlightIsBacked
  BY DEF Init, InFlightWithinTotal, InFlightIsBacked, Paying
<1>3. PaidWithinTotal /\ PaidIsBacked
  BY InvoicesAssumption DEF Init, PaidWithinTotal, PaidIsBacked
<1> QED
  BY <1>1, <1>2, <1>3 DEF AmountInv

\* A step that leaves the columns of the invoices, the documents and the amounts
\* of the calls alone, and starts no payment, keeps the invariant.
LEMMA AmountInvQuiet ==
  ASSUME AmountInv, TypeInv', UNCHANGED <<rows, doc, amount, seenPaid>>,
         \A r \in Call : pc'[r] \in Paying => pc[r] \in Paying
  PROVE  AmountInv'
  BY DEF AmountInv, rows, InFlightWithinTotal, InFlightIsBacked, PaidWithinTotal, PaidIsBacked

LEMMA AmountInvStep == AmountInv /\ [Next]_vars => AmountInv'
<1> USE InvoicesAssumption DEF Goto
<1> SUFFICES ASSUME AmountInv, [Next]_vars PROVE AmountInv'
  OBVIOUS
<1>0. TypeInv /\ TypeInv'
  BY TypeInvStep DEF AmountInv
<1>1. ASSUME NEW r \in Call, NEW i \in Invoice, NEW a \in Amount, ReadForPayment(r, i, a)
      PROVE  AmountInv'
  <2>1. CASE PaymentRefused(i, a) /\ UNCHANGED <<amount, seenPaid>> /\ pc' = [pc EXCEPT ![r] = "rejected"]
    BY <1>0, <1>1, <2>1 DEF ReadForPayment, rows, AmountInv, TypeInv, TypeOK, Paying,
       InFlightWithinTotal, InFlightIsBacked, PaidWithinTotal, PaidIsBacked
  <2>2. CASE /\ ~PaymentRefused(i, a)
             /\ pc' = [pc EXCEPT ![r] = "paying"]
             /\ amount' = [amount EXCEPT ![r] = a]
             /\ seenPaid' = [seenPaid EXCEPT ![r] = paid[i]]
    <3>1. a \in Nat /\ a > 0 /\ paid[i] \in Nat /\ Total[i] \in Nat /\ paid[i] + a <= Total[i]
      BY <1>0, <2>2 DEF PaymentRefused, TypeInv, TypeOK
    <3>2. InFlightWithinTotal'
      BY <1>0, <1>1, <2>2, <3>1
      DEF ReadForPayment, rows, AmountInv, TypeInv, TypeOK, InFlightWithinTotal
    <3>3. InFlightIsBacked'
      BY <1>0, <1>1, <2>2
      DEF ReadForPayment, rows, AmountInv, TypeInv, TypeOK, InFlightIsBacked, PaidIsBacked
    <3> QED
      BY <1>0, <1>1, <3>2, <3>3
      DEF ReadForPayment, rows, AmountInv, PaidWithinTotal, PaidIsBacked
  <2> QED
    BY <1>1, <2>1, <2>2 DEF ReadForPayment
<1>2. ASSUME NEW r \in Call, OpenCollection(r) \/ WriteInvoice(r) \/ AuditPayment(r) \/ AbortPayment(r)
      PROVE  AmountInv'
  <2>1. UNCHANGED <<rows, doc, amount, seenPaid>>
    BY <1>2 DEF OpenCollection, WriteInvoice, AuditPayment, AbortPayment
  <2>2. \A q \in Call : pc'[q] \in Paying => pc[q] \in Paying
    BY <1>0, <1>2 DEF OpenCollection, WriteInvoice, AuditPayment, AbortPayment, Paying, TypeInv, TypeOK
  <2> QED
    BY <1>0, <2>1, <2>2, AmountInvQuiet
<1>3. ASSUME NEW r \in Call, CommitPayment(r) PROVE AmountInv'
  <2> DEFINE i == doc[r]
  <2>1. /\ r \in Call /\ i \in Invoice /\ pc[r] \in Paying
        /\ amount[r] \in Nat /\ seenPaid[r] \in Nat /\ booked[i] \in Nat
    BY AmountIsNat, <1>0, <1>3 DEF CommitPayment, TypeInv, TypeOK, DocKnown, Running, Paying
  <2>2. /\ paid' = [paid EXCEPT ![i] = seenPaid[r] + amount[r]]
        /\ booked' = [booked EXCEPT ![i] = booked[i] + amount[r]]
        /\ UNCHANGED <<doc, amount, seenPaid, marked>>
        /\ pc' = [pc EXCEPT ![r] = "paid"]
    BY <1>3 DEF CommitPayment, NewPaid
  <2>3. \A j \in Invoice : booked'[j] \in Nat /\ booked[j] \in Nat /\ booked[j] <= booked'[j]
    BY <1>0, <2>1, <2>2 DEF TypeInv, TypeOK
  <2>4. InFlightWithinTotal'
    BY <1>0, <2>2 DEF AmountInv, InFlightWithinTotal, TypeInv, TypeOK, Paying
  <2>5. ASSUME NEW q \in Call, pc'[q] \in Paying
        PROVE  doc'[q] \in marked' \/ seenPaid'[q] <= booked'[doc'[q]]
    <3>1. pc[q] \in Paying /\ doc[q] \in Invoice /\ seenPaid[q] \in Nat
      BY <1>0, <2>2, <2>5 DEF TypeInv, TypeOK, DocKnown, Running, Paying
    <3> QED
      BY <2>2, <2>3, <3>1 DEF AmountInv, InFlightIsBacked
  <2>6. PaidWithinTotal'
    <3>1. seenPaid[r] + amount[r] <= Total[i]
      BY <2>1 DEF AmountInv, InFlightWithinTotal
    <3> QED
      BY <1>0, <2>1, <2>2, <3>1 DEF AmountInv, PaidWithinTotal, TypeInv, TypeOK
  <2>7. PaidIsBacked'
    <3>1. i \in marked \/ seenPaid[r] + amount[r] <= booked[i] + amount[r]
      BY <2>1 DEF AmountInv, InFlightIsBacked
    <3> QED
      BY <1>0, <2>1, <2>2, <3>1 DEF AmountInv, PaidIsBacked, TypeInv, TypeOK
  <2> QED
    BY <1>0, <2>4, <2>5, <2>6, <2>7 DEF AmountInv, InFlightIsBacked
<1>4. ASSUME NEW r \in Call, NEW i \in Invoice, ReadForMark(r, i) \/ ReadForEdit(r, i)
      PROVE  AmountInv'
  BY <1>0, <1>4 DEF ReadForMark, ReadForEdit, MayStart, rows, AmountInv, TypeInv, TypeOK, Paying,
     InFlightWithinTotal, InFlightIsBacked, PaidWithinTotal, PaidIsBacked
<1>5. ASSUME NEW r \in Call, WriteMark(r) PROVE AmountInv'
  <2>1. doc[r] \in Invoice
    BY <1>0, <1>5 DEF WriteMark, TypeInv, DocKnown, Running
  <2>2. InFlightWithinTotal' /\ InFlightIsBacked'
    BY <1>0, <1>5 DEF WriteMark, AmountInv, TypeInv, TypeOK, Paying,
       InFlightWithinTotal, InFlightIsBacked
  <2>3. PaidWithinTotal' /\ PaidIsBacked'
    BY <1>0, <1>5, <2>1 DEF WriteMark, AmountInv, TypeInv, TypeOK, PaidWithinTotal, PaidIsBacked
  <2> QED
    BY <1>0, <2>2, <2>3 DEF AmountInv
<1>6. ASSUME NEW r \in Call, WriteEdit(r) PROVE AmountInv'
  BY <1>0, <1>6 DEF WriteEdit, AmountInv, TypeInv, TypeOK, Paying,
     InFlightWithinTotal, InFlightIsBacked, PaidWithinTotal, PaidIsBacked
<1>7. CASE UNCHANGED vars
  BY <1>0, <1>7, AmountInvQuiet DEF vars, calls
<1> QED
  BY <1>1, <1>2, <1>3, <1>4, <1>5, <1>6, <1>7 DEF Next, Payment, Mark, Edit

LEMMA AmountInvAlways == Spec => []AmountInv
  BY AmountInvInit, AmountInvStep, PTL DEF Spec

\* However payments, marks and edits interleave, the amount shown as paid stays
\* within the total (the comparison of recordPayment, whose total is constant).
THEOREM NeverOverpaid == Spec => []PaidWithinTotal
<1>1. AmountInv => PaidWithinTotal
  BY DEF AmountInv
<1> QED
  BY <1>1, AmountInvAlways, PTL

\* An overwritten amount is always a smaller one than was booked: overlapping
\* payments can lose money from what the invoice shows, never add any.
THEOREM NothingInvented == Spec => []PaidIsBacked
<1>1. AmountInv => PaidIsBacked
  BY DEF AmountInv
<1> QED
  BY <1>1, AmountInvAlways, PTL
-----------------------------------------------------------------------------
(* The columns agree, and so does a status that no POST or PATCH set last. *)

LEMMA StatusStep ==
  ASSUME AmountInv, StatusMatchesAmount, [Next]_vars
  PROVE  StatusMatchesAmount'
<1> USE InvoicesAssumption DEF Goto
<1>0. TypeInv /\ TypeInv'
  BY TypeInvStep DEF AmountInv
<1>1. ASSUME UNCHANGED <<status, paid, stamped, typed>> PROVE StatusMatchesAmount'
  BY <1>1 DEF StatusMatchesAmount
<1>2. ASSUME NEW r \in Call, CommitPayment(r) PROVE StatusMatchesAmount'
  <2> DEFINE i == doc[r]
  <2>1. i \in Invoice /\ pc[r] \in Paying /\ seenPaid[r] \in Nat /\ amount[r] \in Nat
    BY AmountIsNat, <1>0, <1>2 DEF CommitPayment, TypeInv, TypeOK, DocKnown, Running, Paying
  <2>2. amount[r] > 0 /\ NewPaid(r) <= Total[i] /\ Total[i] \in Nat /\ NewPaid(r) \in Nat
    BY <2>1 DEF AmountInv, InFlightWithinTotal, NewPaid
  <2>3. 0 < NewPaid(r)
    BY <2>1, <2>2 DEF NewPaid
  <2>4. FullyPaid(r) <=> NewPaid(r) = Total[i]
    BY <2>2 DEF FullyPaid
  <2>5. /\ paid' = [paid EXCEPT ![i] = NewPaid(r)]
        /\ status' = [status EXCEPT ![i] = IF FullyPaid(r) THEN "PAID" ELSE "PARTIALLY_PAID"]
        /\ stamped' = [stamped EXCEPT ![i] = FullyPaid(r)]
        /\ typed' = typed \ {i}
    BY <1>2 DEF CommitPayment
  <2>6. CASE FullyPaid(r)
    BY <1>0, <2>1, <2>4, <2>5, <2>6 DEF StatusMatchesAmount, TypeInv, TypeOK
  <2>7. CASE ~FullyPaid(r)
    <3>1. paid'[i] = NewPaid(r) /\ stamped'[i] = FALSE /\ status'[i] = "PARTIALLY_PAID"
      BY <1>0, <2>1, <2>5, <2>7 DEF TypeInv, TypeOK
    <3>2. NewPaid(r) < Total[i]
      BY <2>2, <2>4, <2>7
    <3>3. ASSUME NEW j \in Invoice, j # i
          PROVE  /\ paid'[j] = paid[j] /\ stamped'[j] = stamped[j] /\ status'[j] = status[j]
                 /\ (j \in typed') <=> (j \in typed)
      BY <1>0, <2>5, <3>3 DEF TypeInv, TypeOK
    <3>4. ASSUME NEW j \in Invoice
          PROVE  /\ stamped'[j] => paid'[j] = Total[j]
                 /\ paid'[j] > 0 => (stamped'[j] <=> paid'[j] = Total[j])
                 /\ j \notin typed' =>
                      \/ status'[j] = "PAID" /\ stamped'[j]
                      \/ status'[j] = "PARTIALLY_PAID" /\ 0 < paid'[j] /\ paid'[j] < Total[j]
      <4>1. CASE j = i
        BY <2>2, <2>3, <3>1, <3>2, <4>1
      <4>2. CASE j # i
        BY <3>3, <4>2 DEF StatusMatchesAmount
      <4> QED
        BY <4>1, <4>2
    <3> QED
      BY <3>4 DEF StatusMatchesAmount
  <2> QED
    BY <2>6, <2>7
<1>3. ASSUME NEW r \in Call, WriteMark(r) PROVE StatusMatchesAmount'
  <2>1. doc[r] \in Invoice
    BY <1>0, <1>3 DEF WriteMark, TypeInv, DocKnown, Running
  <2> QED
    BY <1>0, <1>3, <2>1 DEF WriteMark, StatusMatchesAmount, TypeInv, TypeOK
<1>4. ASSUME NEW r \in Call, WriteEdit(r) PROVE StatusMatchesAmount'
  <2>1. doc[r] \in Invoice /\ UNCHANGED <<paid, stamped>>
    BY <1>0, <1>4 DEF WriteEdit, TypeInv, DocKnown, Running
  <2>2. CASE UNCHANGED <<status, typed>>
    BY <2>1, <2>2, <1>1
  <2>3. CASE /\ \E s \in StatusInput : status' = [status EXCEPT ![doc[r]] = s]
             /\ typed' = typed \cup {doc[r]}
    BY <1>0, <2>1, <2>3 DEF StatusMatchesAmount, TypeInv, TypeOK
  <2> QED
    BY <1>4, <2>2, <2>3 DEF WriteEdit
<1> QED
  BY <1>1, <1>2, <1>3, <1>4
  DEF Next, Payment, Mark, Edit, vars, rows, ReadForPayment, OpenCollection, WriteInvoice,
      AuditPayment, AbortPayment, ReadForMark, ReadForEdit

\* Amount and date of payment agree after any interleaving of payments, marks
\* and PATCHes, whatever status the invoice was created with, and the status
\* agrees with them from the payment or mark that writes it to the next PATCH.
THEOREM ColumnsAgree == Spec => []StatusMatchesAmount
<1>1. Init => StatusMatchesAmount
  BY InvoicesAssumption DEF Init, StatusMatchesAmount
<1>2. AmountInv /\ StatusMatchesAmount /\ [Next]_vars => StatusMatchesAmount'
  BY StatusStep
<1> QED
  BY <1>1, <1>2, AmountInvAlways, PTL DEF Spec
=============================================================================

--------------------------- MODULE InvoicePayments ---------------------------
(***************************************************************************)
(* The collection of an invoice: recordPayment, markPaid (with or without  *)
(* audit) and the PATCH of the invoice, as HTTP calls that interleave at   *)
(* every database round trip.                                              *)
(*                                                                         *)
(* recordPayment reads the invoice outside its transaction and writes an   *)
(* absolute amount inside it.  The transaction is serialised with the      *)
(* other payments of every invoice by the row of the ledger category it    *)
(* upserts, but the read is not.  A Call is one HTTP call.                 *)
(*                                                                         *)
(* The POST that creates an invoice takes any status and any type and      *)
(* stores no amount: the initial states are the invoices it can create.    *)
(***************************************************************************)
EXTENDS Integers, FiniteSets

CONSTANTS
  Invoice,
  Total,         \* totalTtc of each invoice: no route changes it
  Amount,        \* the amounts a payment may have (dto: at least 0.01)
  InitialStatus, \* the statuses an invoice is created with, any of them in the code
  StatusInput,   \* the statuses a PATCH may set
  KindInput,     \* the types a PATCH may set
  Call, None,
  Concurrency    \* bound: calls in progress at the same time

Status == {"DRAFT", "ISSUED", "SENT", "PAID", "PARTIALLY_PAID", "OVERDUE", "CANCELLED"}
\* PROFORMA, DEPOSIT, INTERMEDIATE and FINAL are not told apart by these routes.
Kind == {"INVOICE", "CREDIT_NOTE"}
Paying  == {"paying", "collecting", "written", "audited"}
Running == Paying \cup {"marking", "editing"}
Answered == {"paid", "marked", "edited", "rejected", "aborted"}

ASSUME InvoicesAssumption ==
  /\ Total \in [Invoice -> Nat]
  /\ Amount \subseteq Nat \ {0}
  /\ InitialStatus \subseteq Status
  /\ StatusInput \subseteq Status
  /\ KindInput \subseteq Kind
  /\ None \notin Call
  /\ None \notin Invoice
  /\ Concurrency \in Nat \ {0}

VARIABLES
  kind, status, paid, stamped,  \* Invoice.type, .status, .paidAmount, .paidAt # null
  booked,                       \* the sum of the invoice's InvoicePayment rows
  categoryLock, invoiceLock,    \* the call whose transaction has the row locked
  audits,                       \* calls with an INVOICE_PAYMENT_RECORDED log
  pc, doc, amount,              \* where each call is, its invoice, its amount
  seenPaid, seenKind,           \* what it has read of the invoice
  marked,                       \* history: the invoices declared paid by hand
  typed                         \* history: those whose status was last set by a POST or PATCH

rows  == <<kind, status, paid, stamped, booked, marked, typed>>
locks == <<categoryLock, invoiceLock>>
calls == <<pc, doc, amount, seenPaid, seenKind>>
vars  == <<rows, locks, audits, calls>>

Init ==
  /\ kind \in [Invoice -> Kind]
  /\ status \in [Invoice -> InitialStatus]
  /\ paid = [i \in Invoice |-> 0]
  /\ stamped = [i \in Invoice |-> FALSE]
  /\ booked = [i \in Invoice |-> 0]
  /\ categoryLock = None
  /\ invoiceLock = [i \in Invoice |-> None]
  /\ audits = {}
  /\ pc = [r \in Call |-> "new"]
  /\ doc = [r \in Call |-> None]
  /\ amount = [r \in Call |-> 0]
  /\ seenPaid = [r \in Call |-> 0]
  /\ seenKind = [r \in Call |-> "INVOICE"]
  /\ marked = {}
  /\ typed = Invoice

MayStart(r) ==
  /\ pc[r] = "new"
  /\ Cardinality({s \in Call : pc[s] \in Running}) < Concurrency

Goto(r, label) == pc' = [pc EXCEPT ![r] = label]

-----------------------------------------------------------------------------
(* recordPayment                                                           *)

\* Mutant: the amount is not compared with the rest due.
RefusedByStatusOnly(i, a) == status[i] \in {"PAID", "CANCELLED", "DRAFT"}

PaymentRefused(i, a) ==
  \/ status[i] \in {"PAID", "CANCELLED", "DRAFT"}
  \/ paid[i] + a > Total[i]

ReadForPayment(r, i, a) ==
  /\ MayStart(r)
  /\ doc' = [doc EXCEPT ![r] = i]
  /\ \/ /\ PaymentRefused(i, a)
        /\ Goto(r, "rejected")
        /\ UNCHANGED <<amount, seenPaid>>
     \/ /\ ~PaymentRefused(i, a)
        /\ Goto(r, "paying")
        /\ amount' = [amount EXCEPT ![r] = a]
        /\ seenPaid' = [seenPaid EXCEPT ![r] = paid[i]]
  /\ UNCHANGED <<rows, locks, audits, seenKind>>

\* The transaction inserts the payment, upserts the ledger category (and holds
\* its row from here on) and inserts the ledger entry.
OpenCollection(r) ==
  /\ pc[r] = "paying"
  /\ categoryLock = None
  /\ categoryLock' = r
  /\ Goto(r, "collecting")
  /\ UNCHANGED <<rows, invoiceLock, audits, doc, amount, seenPaid, seenKind>>

\* It updates the invoice, visible to others only when it commits.
WriteInvoice(r) ==
  /\ pc[r] = "collecting"
  /\ invoiceLock[doc[r]] = None
  /\ invoiceLock' = [invoiceLock EXCEPT ![doc[r]] = r]
  /\ Goto(r, "written")
  /\ UNCHANGED <<rows, categoryLock, audits, doc, amount, seenPaid, seenKind>>

\* The audit log uses another connection: it is committed at once.
AuditPayment(r) ==
  /\ pc[r] = "written"
  /\ audits' = audits \cup {r}
  /\ Goto(r, "audited")
  /\ UNCHANGED <<rows, locks, doc, amount, seenPaid, seenKind>>

Release(r) ==
  /\ categoryLock' = IF categoryLock = r THEN None ELSE categoryLock
  /\ invoiceLock' = [i \in Invoice |-> IF invoiceLock[i] = r THEN None ELSE invoiceLock[i]]

\* Mutant: computed as an absolute value and then written as an increment.
NewPaidIncrement(r) == paid[doc[r]] + seenPaid[r] + amount[r]

NewPaid(r) == seenPaid[r] + amount[r]

\* Mutant: strictly more than the total.
MoreThanPaid(r) == NewPaid(r) > Total[doc[r]]

FullyPaid(r) == NewPaid(r) >= Total[doc[r]]

\* Without a user there is no audit: the commit follows either step.
CommitPayment(r) ==
  /\ pc[r] \in {"written", "audited"}
  /\ paid' = [paid EXCEPT ![doc[r]] = NewPaid(r)]
  /\ status' = [status EXCEPT ![doc[r]] = IF FullyPaid(r) THEN "PAID" ELSE "PARTIALLY_PAID"]
  /\ stamped' = [stamped EXCEPT ![doc[r]] = FullyPaid(r)]
  /\ booked' = [booked EXCEPT ![doc[r]] = @ + amount[r]]
  /\ typed' = typed \ {doc[r]}
  /\ Release(r)
  /\ Goto(r, "paid")
  /\ UNCHANGED <<kind, marked, audits, doc, amount, seenPaid, seenKind>>

\* The transaction times out, loses its connection, or the server stops.
AbortPayment(r) ==
  /\ pc[r] \in Paying
  /\ Release(r)
  /\ Goto(r, "aborted")
  /\ UNCHANGED <<rows, audits, doc, amount, seenPaid, seenKind>>

-----------------------------------------------------------------------------
(* markPaid and markPaidWithAudit: no payment and no ledger entry.         *)

MarkRefused(i) ==
  \/ status[i] \in {"PAID", "CANCELLED", "DRAFT"}
  \/ kind[i] = "CREDIT_NOTE"

ReadForMark(r, i) ==
  /\ MayStart(r)
  /\ doc' = [doc EXCEPT ![r] = i]
  /\ Goto(r, IF MarkRefused(i) THEN "rejected" ELSE "marking")
  /\ UNCHANGED <<rows, locks, audits, amount, seenPaid, seenKind>>

WriteMark(r) ==
  LET i == doc[r] IN
  /\ pc[r] = "marking"
  /\ invoiceLock[i] = None
  /\ paid' = [paid EXCEPT ![i] = Total[i]]
  /\ status' = [status EXCEPT ![i] = "PAID"]
  /\ stamped' = [stamped EXCEPT ![i] = TRUE]
  /\ marked' = marked \cup {i}
  /\ typed' = typed \ {i}
  /\ Goto(r, "marked")
  /\ UNCHANGED <<kind, booked, locks, audits, doc, amount, seenPaid, seenKind>>

-----------------------------------------------------------------------------
(* update: a status, or none; the type that was read is written back when  *)
(* the request does not name one.  Neither touches the amount or the date. *)

ReadForEdit(r, i) ==
  /\ MayStart(r)
  /\ doc' = [doc EXCEPT ![r] = i]
  /\ seenKind' = [seenKind EXCEPT ![r] = kind[i]]
  /\ Goto(r, "editing")
  /\ UNCHANGED <<rows, locks, audits, amount, seenPaid>>

WriteEdit(r) ==
  LET i == doc[r] IN
  /\ pc[r] = "editing"
  /\ invoiceLock[i] = None
  /\ \E k \in KindInput \cup {seenKind[r]} : kind' = [kind EXCEPT ![i] = k]
  /\ \/ /\ \E s \in StatusInput : status' = [status EXCEPT ![i] = s]
        /\ typed' = typed \cup {i}
     \/ UNCHANGED <<status, typed>>
  /\ Goto(r, "edited")
  /\ UNCHANGED <<paid, stamped, booked, marked, locks, audits, doc, amount, seenPaid, seenKind>>

-----------------------------------------------------------------------------
Payment(r) ==
  \/ \E i \in Invoice, a \in Amount : ReadForPayment(r, i, a)
  \/ OpenCollection(r)
  \/ WriteInvoice(r)
  \/ AuditPayment(r)
  \/ CommitPayment(r)
  \/ AbortPayment(r)

Mark(r) == (\E i \in Invoice : ReadForMark(r, i)) \/ WriteMark(r)

Edit(r) == (\E i \in Invoice : ReadForEdit(r, i)) \/ WriteEdit(r)

Next == \E r \in Call : Payment(r) \/ Mark(r) \/ Edit(r)

Spec == Init /\ [][Next]_vars

-----------------------------------------------------------------------------
(* Properties.                                                             *)

TypeOK ==
  /\ kind \in [Invoice -> Kind]
  /\ status \in [Invoice -> Status]
  /\ paid \in [Invoice -> Nat]
  /\ stamped \in [Invoice -> BOOLEAN]
  /\ booked \in [Invoice -> Nat]
  /\ categoryLock \in Call \cup {None}
  /\ invoiceLock \in [Invoice -> Call \cup {None}]
  /\ audits \subseteq Call
  /\ pc \in [Call -> {"new"} \cup Running \cup Answered]
  /\ doc \in [Call -> Invoice \cup {None}]
  /\ amount \in [Call -> Amount \cup {0}]
  /\ seenPaid \in [Call -> Nat]
  /\ seenKind \in [Call -> Kind]
  /\ marked \subseteq Invoice
  /\ typed \subseteq Invoice

\* "Le montant encaisse depasse le total TTC" is refused: however calls
\* interleave, the amount shown as paid stays within the total.
PaidWithinTotal == \A i \in Invoice : paid[i] <= Total[i]

\* Overlapping payments overwrite each other's amount, but never invent money:
\* what an invoice not declared paid by hand shows as paid has been booked.
PaidIsBacked == \A i \in Invoice \ marked : paid[i] <= booked[i]

\* "PARTIALLY_PAID si paidAmount < totalTtc, PAID si paidAmount >= totalTtc":
\* whatever overlaps, the amount and the date of payment of an invoice agree,
\* and so does its status unless a POST or a PATCH was the last to set it.
StatusMatchesAmount ==
  \A i \in Invoice :
    /\ stamped[i] => paid[i] = Total[i]
    /\ paid[i] > 0 => (stamped[i] <=> paid[i] = Total[i])
    /\ i \notin typed =>
         \/ status[i] = "PAID" /\ stamped[i]
         \/ status[i] = "PARTIALLY_PAID" /\ 0 < paid[i] /\ paid[i] < Total[i]

\* Calls that do not overlap implement the accounts of the invoices.
Accounts == INSTANCE InvoiceAccount WITH
  Invoice <- Invoice, Total <- Total, paid <- paid, booked <- booked

ImplementsAccounts == Accounts!Spec
=============================================================================

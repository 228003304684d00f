------------------------------- MODULE Treasury -------------------------------
(***************************************************************************)
(* The money of the company: the ledger, the invoices and purchase orders  *)
(* whose payments write in it, the budgets, and what the financial pages   *)
(* compute from them.  Amounts are counted in cents and dates in days.     *)
(*                                                                         *)
(* A payment reads its document, then writes it with the payment and the   *)
(* ledger entry in one transaction, serialised with the others of its kind *)
(* by the row of their ledger category.  A Call is one HTTP request.       *)
(***************************************************************************)
EXTENDS Integers, Sequences, FiniteSets

CONSTANTS
    Invoice, Purchase,      \* the documents
    Total,                  \* totalTtc or totalHt: no route changes it
    Client, Supplier,
    ClientOf, SupplierOf,   \* of each invoice, of each purchase order
    Own,                    \* the codes of the categories users may create
    Amount,                 \* the amounts a payment may have
    ManualEntry,            \* the entries users may write by hand
    BudgetInput,            \* the budgets users may create
    InitialStatus,          \* the statuses an invoice may be created with
    InitialPurchase,        \* the same for a purchase order
    InitialDue,             \* the due dates the documents may be created with
    InitialBudget,          \* the budgets there are from the start
    StatusInput,            \* the statuses a PATCH of an invoice may set
    PurchaseInput,          \* the same for a purchase order
    CreditInput,            \* the sets of invoices that may be credit notes
    LastDay,                \* bound: the dates are 0 .. LastDay
    Recent,                 \* bound: the entries of a client's page (20 in the code)
    Call, None

Document == Invoice \cup Purchase
Day == 0 .. LastDay
DefaultCategory == {"CLIENT_COLLECTION", "SUPPLIER_PAYMENT", "PAYROLL"}
Category == DefaultCategory \cup Own
EntryType == {"INCOME", "EXPENSE", "TRANSFER"}
Entry == [date : Day, type : EntryType, amount : Nat \ {0}, category : Category \cup {None},
          client : Client \cup {None}, supplier : Supplier \cup {None}]
Budget == [direction : {"INCOME", "EXPENSE"}, amount : Nat \ {0}, start : Day, end : Day,
           category : Category \cup {None}, client : Client \cup {None},
           supplier : Supplier \cup {None}]
InvoiceStatus ==
    {"DRAFT", "ISSUED", "SENT", "PARTIALLY_PAID", "OVERDUE", "PAID", "CANCELLED"}
PurchaseStatus ==
    {"DRAFT", "CONFIRMED", "IN_TRANSIT", "PARTIALLY_RECEIVED", "RECEIVED", "CANCELLED"}

ASSUME TreasuryAssumption ==
    /\ Total \in [Document -> Nat]
    /\ ClientOf \in [Invoice -> Client] /\ SupplierOf \in [Purchase -> Supplier]
    /\ Amount \subseteq Nat \ {0}
    /\ InitialDue \subseteq [Document -> Day]
    /\ ManualEntry \subseteq Entry
    /\ BudgetInput \subseteq Budget
    /\ InitialBudget \subseteq {b \in BudgetInput : b.start <= b.end /\ b.category = None}
    /\ InitialStatus \cup StatusInput \subseteq InvoiceStatus
    /\ InitialPurchase \cup PurchaseInput \subseteq PurchaseStatus
    /\ CreditInput \subseteq SUBSET Invoice
    /\ LastDay \in Nat /\ Recent \in Nat
    /\ None \notin Document \cup Client /\ Invoice \cap Purchase = {}

VARIABLES
    ledger,     \* the entries, in the order of their creation
    status,     \* of each document
    paid,       \* paidAmount
    booked,     \* the sum of the rows of payments
    due,        \* dueDate of an invoice, expectedAt of a purchase order
    credit,     \* the invoices whose type is CREDIT_NOTE
    budget,     \* the budgets
    category,   \* the codes of the ledger categories
    today,
    call,       \* the calls
    declared    \* history: the invoices whose status was set by hand

vars == <<ledger, status, paid, booked, due, credit, budget, category, today, call, declared>>

NewCall == [at |-> "new", doc |-> None, amount |-> 0, date |-> 0, seen |-> 0]

\* The documents and a few budgets are there from the start: a document has the
\* status it was created with, whichever it is, and nothing is paid.
Init ==
    /\ ledger = <<>>
    /\ status \in {f \in [Document -> InitialStatus \cup InitialPurchase] :
                     /\ \A i \in Invoice : f[i] \in InitialStatus
                     /\ \A p \in Purchase : f[p] \in InitialPurchase}
    /\ paid = [d \in Document |-> 0]
    /\ booked = [d \in Document |-> 0]
    /\ due \in InitialDue
    /\ credit \in CreditInput
    /\ budget = InitialBudget
    /\ category = {}
    /\ today = 0
    /\ call = [c \in Call |-> NewCall]
    /\ declared = {i \in Invoice : status[i] # "ISSUED"}

New(c) == call[c].at = "new"
Finish(c) == call' = [call EXCEPT ![c] = [NewCall EXCEPT !.at = "done"]]
BooksUnchanged == UNCHANGED <<ledger, paid, booked, category>>
RestUnchanged == UNCHANGED <<due, credit, budget, today>>

-----------------------------------------------------------------------------
(* Payments *)

Refused(d, a) ==
    \/ status[d] = "CANCELLED"
    \/ d \in Invoice /\ status[d] \in {"PAID", "DRAFT"}
    \/ paid[d] + a > Total[d]

\* A refused payment changes nothing.
ReadForPayment(c, d, a, date) ==
    /\ New(c)
    /\ ~Refused(d, a)
    /\ call' = [call EXCEPT ![c] = [at |-> "paying", doc |-> d, amount |-> a,
                                    date |-> date, seen |-> paid[d]]]
    /\ BooksUnchanged /\ RestUnchanged /\ UNCHANGED <<status, declared>>

CollectionEntry(i, a, date) ==
    [date |-> date, type |-> "INCOME", amount |-> a, category |-> "CLIENT_COLLECTION",
     client |-> ClientOf[i], supplier |-> None]

SupplierEntry(p, a, date) ==
    [date |-> date, type |-> "EXPENSE", amount |-> a, category |-> "SUPPLIER_PAYMENT",
     client |-> None, supplier |-> SupplierOf[p]]

\* What a payment writes: NewPaid is computed from the amount it has read.
NewPaid(c) == call[c].seen + call[c].amount
Pay(c, entry) ==
    LET d == call[c].doc IN
    /\ ledger' = Append(ledger, entry)
    /\ category' = category \cup {entry.category}
    /\ paid' = [paid EXCEPT ![d] = NewPaid(c)]
    /\ booked' = [booked EXCEPT ![d] = @ + call[c].amount]
    /\ Finish(c)
    /\ RestUnchanged

Collect(c) ==
    LET i == call[c].doc IN
    /\ call[c].at = "paying" /\ i \in Invoice
    /\ Pay(c, CollectionEntry(i, call[c].amount, call[c].date))
    /\ status' = [status EXCEPT ![i] =
          IF NewPaid(c) >= Total[i] THEN "PAID" ELSE "PARTIALLY_PAID"]
    /\ UNCHANGED declared

\* Mutant: the amount is written as an increment of what is there by then.
PayoutTwice(c) ==
    LET p == call[c].doc IN
    /\ call[c].at = "paying" /\ p \in Purchase
    /\ ledger' = Append(ledger, SupplierEntry(p, call[c].amount, call[c].date))
    /\ category' = category \cup {"SUPPLIER_PAYMENT"}
    /\ paid' = [paid EXCEPT ![p] = @ + NewPaid(c)]
    /\ booked' = [booked EXCEPT ![p] = @ + call[c].amount]
    /\ Finish(c)
    /\ RestUnchanged /\ UNCHANGED <<status, declared>>

Payout(c) ==
    LET p == call[c].doc IN
    /\ call[c].at = "paying" /\ p \in Purchase
    /\ Pay(c, SupplierEntry(p, call[c].amount, call[c].date))
    /\ UNCHANGED <<status, declared>>

\* markPaid, with its read and its write: no payment and no entry.
ReadForMark(c, i) ==
    /\ New(c)
    /\ status[i] \notin {"PAID", "CANCELLED", "DRAFT"}
    /\ i \notin credit
    /\ call' = [call EXCEPT ![c] = [NewCall EXCEPT !.at = "marking", !.doc = i]]
    /\ BooksUnchanged /\ RestUnchanged /\ UNCHANGED <<status, declared>>

WriteMark(c) ==
    LET i == call[c].doc IN
    /\ call[c].at = "marking"
    /\ paid' = [paid EXCEPT ![i] = Total[i]]
    /\ status' = [status EXCEPT ![i] = "PAID"]
    /\ declared' = declared \cup {i}
    /\ Finish(c)
    /\ UNCHANGED <<ledger, booked, category>> /\ RestUnchanged

\* The write fails, or the server stops before it.
Abort(c) ==
    /\ call[c].at \in {"paying", "marking"}
    /\ Finish(c)
    /\ BooksUnchanged /\ RestUnchanged /\ UNCHANGED <<status, declared>>

-----------------------------------------------------------------------------
(* What users write by hand *)

EditInvoice(c, i, s, date, notes) ==
    /\ New(c)
    /\ credit \ {i} = notes \ {i}
    /\ credit' = notes
    /\ status' = [status EXCEPT ![i] = s]
    /\ due' = [due EXCEPT ![i] = date]
    /\ declared' = IF s # status[i] THEN declared \cup {i} ELSE declared
    /\ Finish(c)
    /\ BooksUnchanged /\ UNCHANGED <<budget, today>>

EditPurchase(c, p, s, date) ==
    /\ New(c)
    /\ status' = [status EXCEPT ![p] = s]
    /\ due' = [due EXCEPT ![p] = date]
    /\ Finish(c)
    /\ BooksUnchanged /\ UNCHANGED <<credit, budget, today, declared>>

CreateLedgerEntry(c, e) ==
    /\ New(c)
    /\ e.category \in category \cup {None}
    /\ ledger' = Append(ledger, e)
    /\ Finish(c)
    /\ RestUnchanged /\ UNCHANGED <<status, paid, booked, category, declared>>

CreateBudget(c, b) ==
    /\ New(c)
    /\ b.end >= b.start
    /\ b.category \in category \cup {None}
    /\ budget' = budget \cup {b}
    /\ Finish(c)
    /\ BooksUnchanged /\ UNCHANGED <<status, due, credit, today, declared>>

CreateLedgerCategory(c, k) ==
    /\ New(c)
    /\ k \notin category
    /\ category' = category \cup {k}
    /\ Finish(c)
    /\ RestUnchanged /\ UNCHANGED <<ledger, paid, booked, status, declared>>

\* The pages create the default categories as long as there are fewer
\* categories than defaults.
EnsureDefaultLedgerCategories ==
    /\ Cardinality(category) < Cardinality(DefaultCategory)
    /\ category' = category \cup DefaultCategory
    /\ RestUnchanged /\ UNCHANGED <<ledger, paid, booked, status, declared, call>>

NextDay ==
    /\ today < LastDay
    /\ today' = today + 1
    /\ BooksUnchanged /\ UNCHANGED <<status, due, credit, budget, call, declared>>

-----------------------------------------------------------------------------
Payment(c) ==
    \/ \E d \in Document, a \in Amount, date \in Day : ReadForPayment(c, d, a, date)
    \/ Collect(c)
    \/ Payout(c)
    \/ \E i \in Invoice : ReadForMark(c, i)
    \/ WriteMark(c)
    \/ Abort(c)

Manual(c) ==
    \/ \E i \in Invoice, s \in InvoiceStatus, date \in Day, notes \in CreditInput :
          s \in StatusInput \cup {status[i]} /\ EditInvoice(c, i, s, date, notes)
    \/ \E p \in Purchase, s \in PurchaseStatus, date \in Day :
          s \in PurchaseInput \cup {status[p]} /\ EditPurchase(c, p, s, date)
    \/ \E e \in ManualEntry : CreateLedgerEntry(c, e)
    \/ \E b \in BudgetInput : CreateBudget(c, b)
    \/ \E k \in Own : CreateLedgerCategory(c, k)

Next ==
    \/ \E c \in Call : Payment(c) \/ Manual(c)
    \/ EnsureDefaultLedgerCategories
    \/ NextDay

Spec == Init /\ [][Next]_vars

-----------------------------------------------------------------------------
TypeOK ==
    /\ ledger \in Seq(Entry)
    /\ status \in [Document -> InvoiceStatus \cup PurchaseStatus]
    /\ paid \in [Document -> Nat] /\ booked \in [Document -> Nat]
    /\ due \in [Document -> Day]
    /\ credit \in CreditInput
    /\ budget \subseteq BudgetInput
    /\ category \subseteq Category
    /\ today \in Day
    /\ call \in [Call -> [at : {"new", "paying", "marking", "done"},
                         doc : Document \cup {None}, amount : Amount \cup {0},
                         date : Day, seen : Nat]]
    /\ declared \subseteq Invoice

\* "Le montant decaisse depasse le total achat" is refused: whatever payments of
\* a purchase order overlap, what it shows as paid stays within its total and
\* has been paid (an overlap can make it show less, never more).
SupplierPaidIsBacked ==
    \A p \in Purchase : paid[p] <= booked[p] /\ paid[p] <= Total[p]
===============================================================================

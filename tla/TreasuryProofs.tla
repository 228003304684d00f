---------------------------- MODULE TreasuryProofs ----------------------------
(***************************************************************************)
(* Proofs about Treasury and TreasuryPages, for any documents, amounts,    *)
(* dates and number of overlapping calls.                                  *)
(***************************************************************************)
EXTENDS TreasuryPages, Sums

CallType ==
  [at : {"new", "paying", "marking", "done"}, doc : Document \cup {None},
   amount : Amount \cup {0}, date : Day, seen : Nat]

\* What a call in progress is about.
DocKnown ==
  \A c \in Call :
    /\ call[c].at = "paying" => call[c].doc \in Document /\ call[c].amount \in Amount
    /\ call[c].at = "marking" => call[c].doc \in Invoice

TypeInv == TypeOK /\ DocKnown

-----------------------------------------------------------------------------
(* Types.                                                                  *)

LEMMA CallIsTyped == TypeOK => call \in [Call -> CallType]
  BY DEF TypeOK, CallType

LEMMA NewCallType == NewCall \in CallType
  BY TreasuryAssumption DEF NewCall, CallType, Day

LEMMA TypeInvInit == Init => TypeInv
<1> SUFFICES ASSUME Init PROVE TypeInv
  OBVIOUS
<1>1. call \in [Call -> CallType] /\ \A c \in Call : call[c].at = "new"
  BY NewCallType DEF Init, NewCall
<1>2. status \in [Document -> InvoiceStatus \cup PurchaseStatus]
  BY TreasuryAssumption DEF Init
<1>3. /\ paid \in [Document -> Nat] /\ booked \in [Document -> Nat]
      /\ due \in [Document -> Day] /\ today \in Day /\ ledger \in Seq(Entry)
      /\ credit \in CreditInput /\ budget \subseteq BudgetInput
      /\ category = {} /\ declared \subseteq Invoice
  BY TreasuryAssumption DEF Init, Day
<1>4. TypeOK
  BY <1>1, <1>2, <1>3 DEF TypeOK, CallType
<1>5. DocKnown
  BY <1>1 DEF DocKnown
<1> QED
  BY <1>4, <1>5 DEF TypeInv

LEMMA FinishType ==
  ASSUME TypeInv, NEW c \in Call, Finish(c)
  PROVE  call' \in [Call -> CallType] /\ DocKnown'
<1>1. [NewCall EXCEPT !.at = "done"] \in CallType
  BY NewCallType DEF CallType
<1>2. call' \in [Call -> CallType]
  BY <1>1, CallIsTyped DEF Finish, TypeInv
<1>3. \A b \in Call : call'[b] = call[b] \/ call'[b].at = "done"
  BY CallIsTyped, NewCallType DEF Finish, TypeInv, CallType
<1> QED
  BY <1>2, <1>3 DEF DocKnown, TypeInv

LEMMA EntryTypes ==
  ASSUME NEW a \in Amount, NEW date \in Day
  PROVE  /\ \A i \in Invoice : CollectionEntry(i, a, date) \in Entry
         /\ \A p \in Purchase : SupplierEntry(p, a, date) \in Entry
  BY TreasuryAssumption DEF CollectionEntry, SupplierEntry, Entry, EntryType, Category,
     DefaultCategory

LEMMA PayType ==
  ASSUME TypeInv, NEW c \in Call, call[c].at = "paying", NEW e \in Entry,
         e.category \in Category, Pay(c, e)
  PROVE  /\ ledger' \in Seq(Entry) /\ category' \subseteq Category
         /\ paid' \in [Document -> Nat] /\ booked' \in [Document -> Nat]
         /\ call' \in [Call -> CallType] /\ DocKnown'
         /\ due' \in [Document -> Day] /\ credit' \in CreditInput
         /\ budget' \subseteq BudgetInput /\ today' \in Day
<1>1. call[c] \in CallType
  BY CallIsTyped DEF TypeInv
<1>2. call[c].doc \in Document /\ call[c].amount \in Nat /\ NewPaid(c) \in Nat
  <2>1. call[c].doc \in Document /\ call[c].amount \in Amount
    BY DEF TypeInv, DocKnown
  <2>2. call[c].seen \in Nat
    BY <1>1 DEF CallType
  <2>3. call[c].amount \in Nat
    BY <2>1, TreasuryAssumption
  <2>4. NewPaid(c) \in Nat
    BY <2>2, <2>3 DEF NewPaid
  <2> QED
    BY <2>1, <2>3, <2>4
<1>3. ledger' \in Seq(Entry)
  BY DEF Pay, TypeInv, TypeOK
<1>4. /\ category' = category \cup {e.category}
      /\ paid' = [paid EXCEPT ![call[c].doc] = NewPaid(c)]
      /\ booked' = [booked EXCEPT ![call[c].doc] = @ + call[c].amount]
      /\ Finish(c) /\ UNCHANGED <<due, credit, budget, today>>
  BY DEF Pay, RestUnchanged
<1>5. paid' \in [Document -> Nat] /\ booked' \in [Document -> Nat]
  BY <1>2, <1>4 DEF TypeInv, TypeOK
<1> QED
  BY <1>3, <1>4, <1>5, FinishType DEF TypeInv, TypeOK

LEMMA PaymentType ==
  ASSUME TypeInv, NEW c \in Call, Payment(c)
  PROVE  TypeInv'
<1> USE DEF TypeInv
<1>0. call[c] \in CallType
  BY CallIsTyped
<1>1. ASSUME NEW d \in Document, NEW a \in Amount, NEW date \in Day, ReadForPayment(c, d, a, date)
      PROVE  TypeInv'
  <2> DEFINE read == [at |-> "paying", doc |-> d, amount |-> a, date |-> date, seen |-> paid[d]]
  <2>1. read \in CallType /\ read.at = "paying" /\ read.doc = d /\ read.amount = a
    BY <1>1 DEF CallType, TypeOK
  <2>2. call' = [call EXCEPT ![c] = read]
    BY <1>1 DEF ReadForPayment
  <2> HIDE DEF read
  <2>3. call' \in [Call -> CallType]
    BY <2>1, <2>2, CallIsTyped
  <2>4. DocKnown'
    BY <2>1, <2>2, CallIsTyped DEF DocKnown
  <2> QED
    BY <1>1, <2>3, <2>4 DEF ReadForPayment, BooksUnchanged, RestUnchanged, TypeOK, CallType
<1>2. ASSUME Collect(c) PROVE TypeInv'
  <2> DEFINE i == call[c].doc
             e == CollectionEntry(i, call[c].amount, call[c].date)
  <2>1. call[c].at = "paying" /\ i \in Invoice /\ Pay(c, e) /\ UNCHANGED declared
    BY <1>2 DEF Collect
  <2>2. e \in Entry /\ e.category = "CLIENT_COLLECTION"
    BY <1>0, <2>1, EntryTypes DEF DocKnown, CallType, CollectionEntry
  <2>3. e.category \in Category
    BY <2>2 DEF Category, DefaultCategory
  <2>4. status' \in [Document -> InvoiceStatus \cup PurchaseStatus]
    BY <1>2 DEF Collect, TypeOK, InvoiceStatus
  <2> HIDE DEF e
  <2> QED
    BY <2>1, <2>2, <2>3, <2>4, PayType DEF TypeOK, CallType
<1>3. ASSUME Payout(c) PROVE TypeInv'
  <2> DEFINE p == call[c].doc
             e == SupplierEntry(p, call[c].amount, call[c].date)
  <2>1. /\ call[c].at = "paying" /\ p \in Purchase /\ Pay(c, e)
        /\ UNCHANGED <<status, declared>>
    BY <1>3 DEF Payout
  <2>2. e \in Entry /\ e.category = "SUPPLIER_PAYMENT"
    BY <1>0, <2>1, EntryTypes DEF DocKnown, CallType, SupplierEntry
  <2>3. e.category \in Category
    BY <2>2 DEF Category, DefaultCategory
  <2> HIDE DEF e
  <2> QED
    BY <2>1, <2>2, <2>3, PayType DEF TypeOK, CallType
<1>4. ASSUME NEW i \in Invoice, ReadForMark(c, i) PROVE TypeInv'
  <2> DEFINE read == [NewCall EXCEPT !.at = "marking", !.doc = i]
  <2>1. read \in CallType /\ read.at = "marking" /\ read.doc = i
    BY NewCallType DEF CallType, Document, NewCall
  <2>2. call' = [call EXCEPT ![c] = read]
    BY <1>4 DEF ReadForMark
  <2> HIDE DEF read
  <2>3. call' \in [Call -> CallType]
    BY <2>1, <2>2, CallIsTyped
  <2>4. DocKnown'
    BY <2>1, <2>2, CallIsTyped DEF DocKnown
  <2> QED
    BY <1>4, <2>3, <2>4 DEF ReadForMark, BooksUnchanged, RestUnchanged, TypeOK, CallType
<1>5. ASSUME WriteMark(c) PROVE TypeInv'
  <2>1. call[c].doc \in Invoice
    BY <1>5 DEF WriteMark, DocKnown
  <2>2. /\ paid' = [paid EXCEPT ![call[c].doc] = Total[call[c].doc]]
        /\ status' = [status EXCEPT ![call[c].doc] = "PAID"]
        /\ declared' = declared \cup {call[c].doc} /\ Finish(c)
        /\ UNCHANGED <<ledger, booked, category, due, credit, budget, today>>
    BY <1>5 DEF WriteMark, RestUnchanged
  <2>3. paid' \in [Document -> Nat] /\ status' \in [Document -> InvoiceStatus \cup PurchaseStatus]
    BY <2>1, <2>2, TreasuryAssumption DEF TypeOK, Document, InvoiceStatus
  <2> QED
    BY <2>1, <2>2, <2>3, FinishType DEF TypeOK, CallType
<1>6. ASSUME Abort(c) PROVE TypeInv'
  BY <1>6, FinishType DEF Abort, BooksUnchanged, RestUnchanged, TypeOK, CallType
<1> QED
  BY <1>1, <1>2, <1>3, <1>4, <1>5, <1>6 DEF Payment

LEMMA ManualType ==
  ASSUME TypeInv, NEW c \in Call, Manual(c)
  PROVE  TypeInv'
<1> USE DEF TypeInv
<1>1. ASSUME NEW i \in Invoice, NEW s \in InvoiceStatus, NEW date \in Day,
             NEW notes \in CreditInput, EditInvoice(c, i, s, date, notes)
      PROVE  TypeInv'
  <2>1. status' \in [Document -> InvoiceStatus \cup PurchaseStatus] /\ due' \in [Document -> Day]
    BY <1>1 DEF EditInvoice, TypeOK
  <2>2. declared' \subseteq Invoice
    BY <1>1 DEF EditInvoice, TypeOK
  <2> QED
    BY <1>1, <2>1, <2>2, FinishType DEF EditInvoice, BooksUnchanged, TypeOK, CallType
<1>2. ASSUME NEW p \in Purchase, NEW s \in PurchaseStatus, NEW date \in Day,
             EditPurchase(c, p, s, date)
      PROVE  TypeInv'
  <2>1. status' \in [Document -> InvoiceStatus \cup PurchaseStatus] /\ due' \in [Document -> Day]
    BY <1>2 DEF EditPurchase, TypeOK
  <2> QED
    BY <1>2, <2>1, FinishType DEF EditPurchase, BooksUnchanged, TypeOK, CallType
<1>3. ASSUME NEW e \in ManualEntry, CreateLedgerEntry(c, e) PROVE TypeInv'
  <2>1. ledger' \in Seq(Entry)
    BY <1>3, TreasuryAssumption DEF CreateLedgerEntry, TypeOK
  <2> QED
    BY <1>3, <2>1, FinishType DEF CreateLedgerEntry, RestUnchanged, TypeOK, CallType
<1>4. ASSUME NEW b \in BudgetInput, CreateBudget(c, b) PROVE TypeInv'
  BY <1>4, FinishType DEF CreateBudget, BooksUnchanged, TypeOK, CallType
<1>5. ASSUME NEW k \in Own, CreateLedgerCategory(c, k) PROVE TypeInv'
  BY <1>5, FinishType DEF CreateLedgerCategory, RestUnchanged, TypeOK, CallType, Category
<1> QED
  BY <1>1, <1>2, <1>3, <1>4, <1>5 DEF Manual

LEMMA TypeInvStep == TypeInv /\ [Next]_vars => TypeInv'
<1> SUFFICES ASSUME TypeInv, [Next]_vars PROVE TypeInv'
  OBVIOUS
<1>1. CASE EnsureDefaultLedgerCategories
  BY <1>1 DEF EnsureDefaultLedgerCategories, RestUnchanged, TypeInv, TypeOK, DocKnown, Category
<1>2. CASE NextDay
  BY <1>2, TreasuryAssumption DEF NextDay, BooksUnchanged, TypeInv, TypeOK, DocKnown, Day
<1>3. CASE UNCHANGED vars
  BY <1>3 DEF vars, TypeInv, TypeOK, DocKnown
<1> QED
  BY <1>1, <1>2, <1>3, PaymentType, ManualType DEF Next

LEMMA TypeInvAlways == Spec => []TypeInv
  BY TypeInvInit, TypeInvStep, PTL DEF Spec

\* The ledger, the documents, the budgets and the memory of the calls keep their
\* types: no date leaves the calendar and no paid amount goes below zero.
THEOREM TypeCorrect == Spec => []TypeOK
<1>1. TypeInv => TypeOK
  BY DEF TypeInv
<1> QED
  BY <1>1, TypeInvAlways, PTL

-----------------------------------------------------------------------------
(* Supplier payments.                                                      *)

\* What a payment in flight will write: it has checked it against the total, and
\* what it has read had been paid.
PayoutChecked ==
  \A c \in Call : call[c].at = "paying" /\ call[c].doc \in Purchase =>
    NewPaid(c) <= Total[call[c].doc] /\ call[c].seen <= booked[call[c].doc]

PayoutInv == PayoutChecked /\ SupplierPaidIsBacked

\* A step that pays nothing to a supplier and begins no payment.
LEMMA PayoutQuiet ==
  ASSUME PayoutInv, \A p \in Purchase : paid'[p] = paid[p] /\ booked'[p] = booked[p],
         \A c \in Call : call'[c] = call[c] \/ call'[c].at # "paying"
  PROVE  PayoutInv'
  BY DEF PayoutInv, PayoutChecked, SupplierPaidIsBacked, NewPaid

LEMMA FinishQuiet ==
  ASSUME TypeInv, NEW c \in Call, Finish(c)
  PROVE  \A b \in Call : call'[b] = call[b] \/ call'[b].at # "paying"
  BY CallIsTyped DEF Finish, NewCall, TypeInv

LEMMA PayoutFinish ==
  ASSUME TypeInv, PayoutInv, NEW c \in Call, Finish(c),
         \A p \in Purchase : paid'[p] = paid[p] /\ booked'[p] = booked[p]
  PROVE  PayoutInv'
  BY FinishQuiet, PayoutQuiet

LEMMA ReadPayout ==
  ASSUME TypeInv, PayoutInv, NEW c \in Call, NEW d \in Document, NEW a \in Amount,
         NEW date \in Day, ReadForPayment(c, d, a, date)
  PROVE  PayoutInv'
<1>1. /\ call'[c].at = "paying" /\ call'[c].doc = d /\ call'[c].amount = a
      /\ call'[c].seen = paid[d] /\ paid[d] + a <= Total[d]
      /\ \A b \in Call \ {c} : call'[b] = call[b]
      /\ UNCHANGED <<paid, booked>>
  <2>1. call' = [call EXCEPT ![c] = [at |-> "paying", doc |-> d, amount |-> a,
                                     date |-> date, seen |-> paid[d]]]
    BY DEF ReadForPayment
  <2>2. ~(paid[d] + a > Total[d]) /\ UNCHANGED <<paid, booked>>
    BY DEF ReadForPayment, Refused, BooksUnchanged
  <2>3. paid[d] \in Nat /\ a \in Nat /\ Total[d] \in Nat
    BY TreasuryAssumption DEF TypeInv, TypeOK
  <2> QED
    BY <2>1, <2>2, <2>3, CallIsTyped DEF TypeInv
<1>2. PayoutChecked'
  BY <1>1 DEF PayoutChecked, PayoutInv, SupplierPaidIsBacked, NewPaid
<1> QED
  BY <1>1, <1>2 DEF PayoutInv, SupplierPaidIsBacked

\* The payment of a purchase order writes what it has checked, whatever was paid
\* since: the amount shown may go back, never above what was paid.
LEMMA PayoutWrites ==
  ASSUME TypeInv, PayoutInv, NEW c \in Call, Payout(c)
  PROVE  PayoutInv'
<1> DEFINE p == call[c].doc
<1>1. call[c].at = "paying" /\ p \in Purchase
  BY DEF Payout
<1>2. /\ paid' = [paid EXCEPT ![p] = NewPaid(c)]
      /\ booked' = [booked EXCEPT ![p] = @ + call[c].amount]
      /\ Finish(c)
  BY DEF Payout, Pay
<1>3. /\ NewPaid(c) <= Total[p] /\ call[c].seen <= booked[p]
      /\ NewPaid(c) = call[c].seen + call[c].amount
  BY <1>1 DEF PayoutInv, PayoutChecked, NewPaid
<1>4. /\ \A q \in Purchase : paid[q] \in Nat /\ booked[q] \in Nat /\ q \in Document
      /\ \A b \in Call : call[b].seen \in Nat
      /\ call[c].amount \in Nat
  <2>1. \A b \in Call : call[b].seen \in Nat
    BY CallIsTyped DEF TypeInv, CallType
  <2>2. call[c].amount \in Nat
    BY <1>1, TreasuryAssumption DEF TypeInv, DocKnown
  <2> QED
    BY <2>1, <2>2 DEF TypeInv, TypeOK, Document
<1>5. /\ paid'[p] = NewPaid(c) /\ booked'[p] = booked[p] + call[c].amount
      /\ \A q \in Purchase \ {p} : paid'[q] = paid[q] /\ booked'[q] = booked[q]
  BY <1>1, <1>2, <1>4 DEF TypeInv, TypeOK
<1> HIDE DEF p
<1>6. SupplierPaidIsBacked'
  BY <1>3, <1>4, <1>5 DEF SupplierPaidIsBacked, PayoutInv
<1>7. PayoutChecked'
  <2> SUFFICES ASSUME NEW b \in Call, call'[b].at = "paying", call'[b].doc \in Purchase
               PROVE  NewPaid(b)' <= Total[call'[b].doc] /\ call'[b].seen <= booked'[call'[b].doc]
    BY DEF PayoutChecked
  <2>1. call'[b] = call[b]
    BY <1>2, FinishQuiet
  <2>2. NewPaid(b)' = NewPaid(b)
    BY <2>1 DEF NewPaid
  <2>3. /\ NewPaid(b) <= Total[call[b].doc] /\ call[b].seen <= booked[call[b].doc]
        /\ call[b].doc \in Purchase
    BY <2>1 DEF PayoutInv, PayoutChecked
  <2>4. booked[call[b].doc] <= booked'[call[b].doc]
    BY <1>4, <1>5, <2>3
  <2>5. call[b].seen \in Nat /\ booked[call[b].doc] \in Nat /\ booked'[call[b].doc] \in Nat
    BY <1>4, <1>5, <2>3
  <2> QED
    BY <2>1, <2>2, <2>3, <2>4, <2>5
<1> QED
  BY <1>6, <1>7 DEF PayoutInv

LEMMA PayoutStep == TypeInv /\ PayoutInv /\ [Next]_vars => PayoutInv'
<1> SUFFICES ASSUME TypeInv, PayoutInv, [Next]_vars PROVE PayoutInv'
  OBVIOUS
<1>1. ASSUME NEW c \in Call, Payment(c) PROVE PayoutInv'
  <2>1. CASE \E d \in Document, a \in Amount, date \in Day : ReadForPayment(c, d, a, date)
    BY <2>1, ReadPayout
  <2>2. CASE Collect(c)
    <3>1. /\ call[c].doc \in Invoice /\ Finish(c)
          /\ paid' = [paid EXCEPT ![call[c].doc] = NewPaid(c)]
          /\ booked' = [booked EXCEPT ![call[c].doc] = @ + call[c].amount]
      BY <2>2 DEF Collect, Pay
    <3>2. \A p \in Purchase : p # call[c].doc /\ p \in Document
      BY <3>1, TreasuryAssumption DEF Document
    <3> QED
      BY <3>1, <3>2, PayoutFinish DEF TypeInv, TypeOK
  <2>3. CASE Payout(c)
    BY <2>3, PayoutWrites
  <2>4. CASE \E i \in Invoice : ReadForMark(c, i)
    <3>1. PICK i \in Invoice : call' = [call EXCEPT ![c] = [NewCall EXCEPT !.at = "marking", !.doc = i]]
      BY <2>4 DEF ReadForMark
    <3>2. UNCHANGED <<paid, booked>>
      BY <2>4 DEF ReadForMark, BooksUnchanged
    <3>3. \A b \in Call : call'[b] = call[b] \/ call'[b].at # "paying"
      BY <3>1, CallIsTyped DEF TypeInv, NewCall
    <3> QED
      BY <3>2, <3>3, PayoutQuiet
  <2>5. CASE WriteMark(c)
    <3>1. /\ call[c].doc \in Invoice /\ Finish(c) /\ UNCHANGED booked
          /\ paid' = [paid EXCEPT ![call[c].doc] = Total[call[c].doc]]
      BY <2>5 DEF WriteMark, TypeInv, DocKnown
    <3>2. \A p \in Purchase : p # call[c].doc
      BY <3>1, TreasuryAssumption
    <3> QED
      BY <3>1, <3>2, PayoutFinish DEF TypeInv, TypeOK
  <2>6. CASE Abort(c)
    BY <2>6, PayoutFinish DEF Abort, BooksUnchanged
  <2> QED
    BY <1>1, <2>1, <2>2, <2>3, <2>4, <2>5, <2>6 DEF Payment
<1>2. ASSUME NEW c \in Call, Manual(c) PROVE PayoutInv'
  <2>1. Finish(c) /\ UNCHANGED <<paid, booked>>
    BY <1>2 DEF Manual, EditInvoice, EditPurchase, CreateLedgerEntry, CreateBudget,
       CreateLedgerCategory, BooksUnchanged
  <2> QED
    BY <2>1, PayoutFinish
<1>3. CASE EnsureDefaultLedgerCategories \/ NextDay \/ UNCHANGED vars
  BY <1>3, PayoutQuiet DEF EnsureDefaultLedgerCategories, NextDay, BooksUnchanged, vars
<1> QED
  BY <1>1, <1>2, <1>3 DEF Next

\* However its payments overlap, a purchase order never shows more as paid than
\* its total, nor more than has been paid.
THEOREM SupplierNeverOverpaid == Spec => []SupplierPaidIsBacked
<1>1. Init => PayoutInv
  <2> SUFFICES ASSUME Init PROVE PayoutInv
    OBVIOUS
  <2>1. \A c \in Call : call[c].at = "new"
    BY DEF Init, NewCall
  <2>2. \A p \in Purchase : paid[p] = 0 /\ booked[p] = 0 /\ Total[p] \in Nat
    BY TreasuryAssumption DEF Init, Document
  <2> QED
    BY <2>1, <2>2 DEF PayoutInv, PayoutChecked, SupplierPaidIsBacked
<1>2. PayoutInv => SupplierPaidIsBacked
  BY DEF PayoutInv
<1> QED
  BY <1>1, <1>2, PayoutStep, TypeInvAlways, PTL DEF Spec
-----------------------------------------------------------------------------
(* The sums of the pages.                                                  *)

SignedOf(l) == [i \in DOMAIN l |-> Signed(l[i])]
AmountsOf(l) == [i \in DOMAIN l |-> l[i].amount]
RestWith(p) == [d \in Document |-> Total[d] - p[d]]

LEMMA BalanceIsSum ==
  ASSUME NEW E, IsFiniteSet(E), E \subseteq Entries
  PROVE  ComputeTrackedBalance(E) = SumOf(SignedOf(ledger), E)
<1> DEFINE P(k) == k = [s \in SUBSET E |->
                          IF s = {} THEN 0 ELSE Signed(ledger[Chosen(s)]) + k[s \ {Chosen(s)}]]
<1>1. \A k : P(k) <=> SumsOf(SignedOf(ledger), E, k)
  <2>1. \A s \in SUBSET E : s # {} => Chosen(s) \in DOMAIN ledger
    BY DEF Chosen, Entries
  <2>2. \A s \in SUBSET E : s # {} => SignedOf(ledger)[Chosen(s)] = Signed(ledger[Chosen(s)])
    BY <2>1 DEF SignedOf
  <2> QED
    BY <2>2 DEF SumsOf
<1>2. ComputeTrackedBalance(E) = (CHOOSE k : P(k))[E]
  BY DEF ComputeTrackedBalance, MapThenSumSet, MapThenFoldSet, Chosen
<1> HIDE DEF P
<1>3. \E k : P(k)
  BY <1>1, SumsExist
<1> QED
  BY <1>1, <1>2, <1>3, SumOfIs

LEMMA AmountIsSum ==
  ASSUME NEW E, IsFiniteSet(E), E \subseteq Entries
  PROVE  AmountOf(E) = SumOf(AmountsOf(ledger), E)
<1> DEFINE P(k) == k = [s \in SUBSET E |->
                          IF s = {} THEN 0 ELSE ledger[Chosen(s)].amount + k[s \ {Chosen(s)}]]
<1>1. \A k : P(k) <=> SumsOf(AmountsOf(ledger), E, k)
  <2>1. \A s \in SUBSET E : s # {} => Chosen(s) \in DOMAIN ledger
    BY DEF Chosen, Entries
  <2>2. \A s \in SUBSET E : s # {} => AmountsOf(ledger)[Chosen(s)] = ledger[Chosen(s)].amount
    BY <2>1 DEF AmountsOf
  <2> QED
    BY <2>2 DEF SumsOf
<1>2. AmountOf(E) = (CHOOSE k : P(k))[E]
  BY DEF AmountOf, MapThenSumSet, MapThenFoldSet, Chosen
<1> HIDE DEF P
<1>3. \E k : P(k)
  BY <1>1, SumsExist
<1> QED
  BY <1>1, <1>2, <1>3, SumOfIs

LEMMA RestIsSum ==
  ASSUME NEW D, IsFiniteSet(D), D \subseteq Document
  PROVE  RestOf(D) = SumOf(RestWith(paid), D)
<1> DEFINE P(k) == k = [s \in SUBSET D |->
                          IF s = {} THEN 0 ELSE Rest(Chosen(s)) + k[s \ {Chosen(s)}]]
<1>1. \A k : P(k) <=> SumsOf(RestWith(paid), D, k)
  <2>1. \A s \in SUBSET D : s # {} => Chosen(s) \in Document
    BY DEF Chosen
  <2>2. \A s \in SUBSET D : s # {} => RestWith(paid)[Chosen(s)] = Rest(Chosen(s))
    BY <2>1 DEF RestWith, Rest
  <2> QED
    BY <2>2 DEF SumsOf
<1>2. RestOf(D) = (CHOOSE k : P(k))[D]
  BY DEF RestOf, MapThenSumSet, MapThenFoldSet, Chosen
<1> HIDE DEF P
<1>3. \E k : P(k)
  BY <1>1, SumsExist
<1> QED
  BY <1>1, <1>2, <1>3, SumOfIs

LEMMA FiniteLedger ==
  ASSUME TypeOK
  PROVE  /\ \A E \in SUBSET Entries : IsFiniteSet(E)
         /\ Entries = 1 .. Len(ledger) /\ Len(ledger) \in Nat
         /\ \A i \in Entries : ledger[i] \in Entry
<1>1. Entries = 1 .. Len(ledger) /\ Len(ledger) \in Nat /\ \A i \in Entries : ledger[i] \in Entry
  BY DEF TypeOK, Entries
<1>2. IsFiniteSet(Entries)
  BY <1>1, FS_Interval
<1> QED
  BY <1>1, <1>2, FS_Subset

-----------------------------------------------------------------------------
(* The page of a client.                                                   *)

\* A page of a client that has no more entries than it can show shows them all:
\* what comes after an entry is never the whole.
LEMMA ShortPageShowsAll ==
  ASSUME TypeOK, NEW E \in SUBSET Entries, Cardinality(E) <= Recent
  PROVE  Latest(E) = E
<1> SUFFICES ASSUME NEW j \in E PROVE Cardinality({i \in E : After(i, j)}) < Recent
  BY DEF Latest
<1> DEFINE F == {i \in E : After(i, j)}
<1>1. j \notin F
  BY FiniteLedger DEF After, Entry, Day
<1>2. IsFiniteSet(E)
  BY FiniteLedger
<1>3. F \in SUBSET E /\ F # E
  BY <1>1
<1> HIDE DEF F
<1>4. IsFiniteSet(F) /\ Cardinality(F) <= Cardinality(E) /\ Cardinality(F) # Cardinality(E)
  BY <1>2, <1>3, FS_Subset
<1>5. Cardinality(F) \in Nat /\ Cardinality(E) \in Nat /\ Recent \in Nat
  BY <1>2, <1>4, FS_CardinalityType, TreasuryAssumption
<1>6. Cardinality(F) < Recent
  BY <1>4, <1>5
<1> QED
  BY <1>6 DEF F

\* The page of a client and the overview narrowed to the client show one balance.
THEOREM ClientPagesAgree == Spec => []ClientBalanceAgrees
<1>1. TypeOK => ClientBalanceAgrees
  <2> SUFFICES ASSUME TypeOK, NEW cl \in Client, Cardinality(OfClient(cl)) <= Recent,
                      \A i \in OfClient(cl) : ledger[i].date <= today
               PROVE  ClientBalance(cl) = TrackedBalance(cl, today)
    BY DEF ClientBalanceAgrees
  <2>1. Latest(OfClient(cl)) = OfClient(cl)
    BY ShortPageShowsAll DEF OfClient
  <2>2. {i \in OfClient(cl) : ledger[i].date <= today} = OfClient(cl)
    OBVIOUS
  <2> QED
    BY <2>1, <2>2 DEF ClientBalance, TrackedBalance
<1> QED
  BY <1>1, TypeCorrect, PTL

-----------------------------------------------------------------------------
(* The alerts of the budgets.                                              *)


\* The span of some budgets holds the period of each.
LEMMA RangeHoldsAll ==
  ASSUME NEW B \in SUBSET Budget, NEW b \in B
  PROVE  b.start .. b.end \subseteq RangeOf(B)
<1> DEFINE S == {x.start : x \in B}
           T == {x.end : x \in B}
<1>1. /\ S \subseteq Nat /\ b.start \in S
      /\ T \subseteq Day /\ T \subseteq Nat /\ b.end \in T
  BY DEF Budget, Day
<1> HIDE DEF S, T
<1>2. Min(S) \in S /\ Min(S) <= b.start
  <2>1. \E x \in S : \A y \in S : x <= y
    BY <1>1, LeastNatural
  <2> QED
    BY <1>1, <2>1 DEF Min
<1>3. Max(T) \in T /\ Max(T) >= b.end
  <2> DEFINE U == {LastDay - x : x \in T}
  <2>0. \A x \in T : LastDay - x \in Nat
    BY <1>1, TreasuryAssumption DEF Day
  <2>1. U \subseteq Nat /\ U # {}
    BY <1>1, <2>0
  <2>2. PICK u \in U : \A v \in U : u <= v
    BY <2>1, LeastNatural
  <2>3. PICK x \in T : u = LastDay - x
    BY <2>2
  <2>4. \A y \in T : LastDay - x <= LastDay - y
    BY <2>2, <2>3
  <2>5. \A y \in T : x >= y
    BY <1>1, <2>4, TreasuryAssumption DEF Day
  <2> QED
    BY <1>1, <2>5 DEF Max
<1>4. Min(S) \in Nat /\ Max(T) \in Nat /\ b.start \in Nat /\ b.end \in Nat
  BY <1>1, <1>2, <1>3
<1>5. b.start .. b.end \subseteq Min(S) .. Max(T)
  BY <1>2, <1>3, <1>4
<1> QED
  BY <1>5 DEF RangeOf, S, T

BudgetEntries(b) == {i \in Entries : MatchesBudgetEntry(b, ledger[i])}

LEMMA ListedActualIs ==
  ASSUME TypeOK, NEW B \in SUBSET Budget, NEW b \in B
  PROVE  /\ ListedActual(B, b) = AmountOf(BudgetEntries(b))
         /\ ListedActual(B, b) \in Int
<1>1. \A i \in Entries : ledger[i].date \in Int /\ b.start \in Int /\ b.end \in Int
  BY FiniteLedger DEF Budget, Entry, Day
<1>2. {i \in Entries : ledger[i].date \in RangeOf(B) /\ MatchesBudgetEntry(b, ledger[i])}
        = BudgetEntries(b)
  BY <1>1, RangeHoldsAll DEF BudgetEntries, MatchesBudgetEntry
<1>3. AmountOf(BudgetEntries(b)) = SumOf(AmountsOf(ledger), BudgetEntries(b))
  BY FiniteLedger, AmountIsSum DEF BudgetEntries
<1>4. \A i \in BudgetEntries(b) : AmountsOf(ledger)[i] \in Int
  BY FiniteLedger DEF AmountsOf, BudgetEntries, Entries, Entry
<1>5. SumOf(AmountsOf(ledger), BudgetEntries(b)) \in Int
  <2>1. IsFiniteSet(BudgetEntries(b))
    BY FiniteLedger DEF BudgetEntries
  <2> QED
    BY <1>4, <2>1, SumOfType
<1> QED
  BY <1>2, <1>3, <1>5 DEF ListedActual

\* There are finitely many budgets, and each begins before it ends.
BudgetsRun == IsFiniteSet(budget) /\ \A b \in budget : b.start <= b.end

LEMMA BudgetsStep == BudgetsRun /\ [Next]_vars => BudgetsRun'
<1> SUFFICES ASSUME BudgetsRun, [Next]_vars PROVE BudgetsRun'
  OBVIOUS
<1>1. ASSUME NEW c \in Call, Payment(c) PROVE budget' = budget
  BY <1>1 DEF Payment, ReadForPayment, Collect, Payout, Pay, ReadForMark, WriteMark, Abort,
     RestUnchanged
<1>2. ASSUME NEW c \in Call, NEW b \in BudgetInput, CreateBudget(c, b) PROVE BudgetsRun'
  <2>1. b.end >= b.start /\ budget' = budget \cup {b}
    BY <1>2 DEF CreateBudget
  <2>2. b.start \in Int /\ b.end \in Int
    BY TreasuryAssumption DEF Budget, Day
  <2>3. IsFiniteSet(budget')
    BY <2>1, FS_AddElement DEF BudgetsRun
  <2> QED
    BY <2>1, <2>2, <2>3 DEF BudgetsRun
<1>3. ASSUME NEW c \in Call, Manual(c) PROVE BudgetsRun'
  <2>1. CASE \E b \in BudgetInput : CreateBudget(c, b)
    BY <1>2, <2>1
  <2>2. CASE budget' = budget
    BY <2>2 DEF BudgetsRun
  <2> QED
    BY <1>3, <2>1, <2>2 DEF Manual, EditInvoice, EditPurchase, CreateLedgerEntry,
       CreateLedgerCategory, RestUnchanged
<1>4. CASE EnsureDefaultLedgerCategories \/ NextDay \/ UNCHANGED vars
  BY <1>4 DEF EnsureDefaultLedgerCategories, NextDay, RestUnchanged, vars, BudgetsRun
<1> QED
  BY <1>1, <1>3, <1>4 DEF Next, BudgetsRun

\* An overrun has a rate that is not negative.
LEMMA OverrunRate ==
  ASSUME NEW B, NEW b, Variance(B, b) \in Nat, b.amount \in Nat \ {0}
  PROVE  VarianceRate(B, b) >= 0
<1> DEFINE v == Variance(B, b)
           a == b.amount
<1>1. v \in Nat /\ a \in Nat \ {0}
  OBVIOUS
<1> HIDE DEF v, a
<1>2. 20000 * v + a \in Nat /\ 2 * a \in Nat \ {0}
  BY <1>1
<1>3. \A m \in Nat, n \in Nat \ {0} : m \div n >= 0
  BY Z3
<1>4. (20000 * v + a) \div (2 * a) >= 0
  BY ONLY <1>2, <1>3
<1> QED
  BY <1>4 DEF VarianceRate, v, a

\* The alerts of any period are its overspent expense budgets, by the whole ledger,
\* or the worst of them, and the overview shows the actual amounts of the list
\* (of finitely many budgets at the start).
THEOREM AlertsAreTrue ==
  ASSUME IsFiniteSet(InitialBudget)
  PROVE  Spec => []AlertsFollowTheLedger
<1>1. Init => BudgetsRun
  BY TreasuryAssumption DEF Init, BudgetsRun
<1>2. TypeOK /\ BudgetsRun => AlertsFollowTheLedger
  <2> SUFFICES ASSUME TypeOK, BudgetsRun PROVE AlertsFollowTheLedger
    OBVIOUS
  <2>t. \A b \in budget : /\ b \in Budget /\ b.start \in Nat /\ b.end \in Nat
                          /\ b.amount \in Nat \ {0} /\ b.start <= b.end
    BY TreasuryAssumption DEF TypeOK, Budget, Day, BudgetsRun
  <2>1. ASSUME NEW from \in Day, NEW to \in from .. LastDay,
               NEW overruns, overruns = {b \in budget : /\ b.direction = "EXPENSE"
                                                        /\ b.start .. b.end \cap from .. to # {}
                                                        /\ AmountOf(BudgetEntries(b)) > b.amount},
               NEW messages \in NotifyBudgetAlerts(from, to),
               NEW shown, shown = {n.about : n \in messages}
        PROVE  /\ shown \subseteq overruns
               /\ shown # overruns => Cardinality(shown) = AlertLimit
               /\ \A b \in shown, e \in overruns \ shown :
                     AmountOf(BudgetEntries(b)) - b.amount >= AmountOf(BudgetEntries(e)) - e.amount
    <3> DEFINE B == ListBudgets(from, to)
               items == {b \in B : /\ b.direction = "EXPENSE" /\ Variance(B, b) > 0
                                   /\ VarianceRate(B, b) >= 0
                                   /\ Variance(B, b) >= 0}
    <3>1. from \in Nat /\ to \in Nat /\ from <= to
      BY TreasuryAssumption DEF Day
    <3>2. \A b \in budget : b \in B <=> b.start .. b.end \cap from .. to # {}
      <4> SUFFICES ASSUME NEW b \in budget
                   PROVE  (b.start <= to /\ b.end >= from) <=> b.start .. b.end \cap from .. to # {}
        BY DEF ListBudgets
      <4>0. b.start \in Nat /\ b.end \in Nat /\ b.start <= b.end
        BY <2>t
      <4>1. ASSUME b.start <= to, b.end >= from PROVE b.start .. b.end \cap from .. to # {}
        <5>1. CASE b.start >= from
          <6>1. b.start \in b.start .. b.end /\ b.start \in from .. to
            BY <3>1, <4>0, <4>1, <5>1
          <6> QED
            BY <6>1
        <5>2. CASE b.start < from
          <6>1. from \in b.start .. b.end /\ from \in from .. to
            BY <3>1, <4>0, <4>1, <5>2
          <6> QED
            BY <6>1
        <5> QED
          BY <3>1, <4>0, <5>1, <5>2
      <4>2. ASSUME NEW x \in b.start .. b.end, x \in from .. to PROVE b.start <= to /\ b.end >= from
        BY <3>1, <4>0, <4>2
      <4> QED
        BY <4>1, <4>2
    <3>3. B \in SUBSET Budget /\ B \subseteq budget
      BY <2>t DEF ListBudgets
    <3>4. PICK S : /\ S \in SUBSET items
                   /\ Cardinality(S) = Min({AlertLimit, Cardinality(items)})
                   /\ \A b \in S, e \in items \ S : Variance(B, b) >= Variance(B, e)
                   /\ messages = {[role |-> r, about |-> b] :
                                   r \in {"RESPONSABLE_FINANCIER_STOCKS", "GERANT"}, b \in S}
      <4>1. PICK S \in PreviewBudgetAlerts(from, to, 0, 0, AlertLimit) :
               messages = {[role |-> r, about |-> b] :
                              r \in {"RESPONSABLE_FINANCIER_STOCKS", "GERANT"}, b \in S}
        BY <2>1 DEF NotifyBudgetAlerts
      <4>2. PreviewBudgetAlerts(from, to, 0, 0, AlertLimit) =
              {T \in SUBSET items :
                 /\ Cardinality(T) = Min({AlertLimit, Cardinality(items)})
                 /\ \A b \in T, e \in items \ T : Variance(B, b) >= Variance(B, e)}
        BY DEF PreviewBudgetAlerts
      <4> HIDE DEF B, items
      <4>3. /\ S \in SUBSET items
            /\ Cardinality(S) = Min({AlertLimit, Cardinality(items)})
            /\ \A b \in S, e \in items \ S : Variance(B, b) >= Variance(B, e)
        BY <4>1, <4>2
      <4> QED
        BY <4>1, <4>3
    <3> HIDE DEF B
    <3>5. ASSUME NEW b \in B
          PROVE  /\ Variance(B, b) = AmountOf(BudgetEntries(b)) - b.amount
                 /\ Variance(B, b) \in Int
                 /\ Variance(B, b) > 0 <=> AmountOf(BudgetEntries(b)) > b.amount
                 /\ Variance(B, b) > 0 => Variance(B, b) >= 0 /\ VarianceRate(B, b) >= 0
      <4>1. ListedActual(B, b) = AmountOf(BudgetEntries(b)) /\ ListedActual(B, b) \in Int
        BY <3>3, ListedActualIs
      <4>2. b.amount \in Nat \ {0}
        BY <2>t, <3>3
      <4>3. /\ Variance(B, b) = AmountOf(BudgetEntries(b)) - b.amount
            /\ Variance(B, b) \in Int
            /\ Variance(B, b) > 0 <=> AmountOf(BudgetEntries(b)) > b.amount
        BY <4>1, <4>2 DEF Variance
      <4>4. Variance(B, b) > 0 => Variance(B, b) \in Nat
        BY <4>3
      <4> QED
        BY <4>2, <4>3, <4>4, OverrunRate
    <3>6. items = overruns
      BY <2>1, <3>2, <3>3, <3>5
    <3> HIDE DEF items
    <3>7. shown = S
      <4>1. \A n \in messages : n.about \in S
        BY <3>4
      <4>2. \A b \in S : [role |-> "GERANT", about |-> b] \in messages
        BY <3>4
      <4>3. ASSUME NEW b \in S PROVE \E n \in messages : n.about = b
        <5>1. [role |-> "GERANT", about |-> b].about = b
          OBVIOUS
        <5> QED
          BY <4>2, <5>1
      <4> QED
        BY <2>1, <4>1, <4>3
    <3>8. IsFiniteSet(items) /\ AlertLimit \in Nat
      <4>1. items \subseteq budget
        BY <2>1, <3>6
      <4> QED
        BY <4>1, FS_Subset, PagesAssumption DEF BudgetsRun
    <3>9. S # items => Cardinality(S) = AlertLimit
      BY <3>4, <3>8, KeptOfMany
    <3>10. \A b \in items : b \in B
      BY DEF items
    <3> QED
      BY <3>4, <3>5, <3>6, <3>7, <3>9, <3>10
  <2>2. ASSUME NEW b \in budget, b.client = None, b.supplier = None
        PROVE  OverviewActual(b.start, b.end, None, b) = ListedActual({b}, b)
    <3>1. ListedActual({b}, b) = AmountOf(BudgetEntries(b))
      BY <2>t, ListedActualIs
    <3>2. {i \in PeriodEntries(b.start, b.end, None) : MatchesUndated(b, ledger[i])}
            = BudgetEntries(b)
      BY <2>2 DEF PeriodEntries, OfClient, MatchesUndated, MatchesBudgetEntry, BudgetEntries
    <3> QED
      BY <3>1, <3>2 DEF OverviewActual
  <2> QED
    BY <2>1, <2>2 DEF AlertsFollowTheLedger, BudgetEntries
<1> QED
  BY <1>1, <1>2, BudgetsStep, TypeCorrect, PTL DEF Spec
-----------------------------------------------------------------------------
(* The debts of clients.                                                   *)

\* No document shows more than its total, or a status of another kind.
DocumentsSound ==
  \A d \in Document : /\ paid[d] <= Total[d]
                      /\ d \in Invoice => status[d] \in InvoiceStatus
                      /\ d \in Purchase => status[d] \in PurchaseStatus

\* What a payment in flight will write is within the total, and what it has read
\* of an invoice nobody has settled by hand was collected.
PaymentsSound ==
  \A c \in Call : call[c].at = "paying" =>
    /\ NewPaid(c) <= Total[call[c].doc]
    /\ call[c].doc \in Invoice \ declared => call[c].seen <= booked[call[c].doc]

\* An invoice nobody has touched by hand is awaited until all of it is collected.
DebtsSound ==
  \A i \in Invoice \ declared :
    /\ paid[i] <= booked[i]
    /\ status[i] \in {"ISSUED", "PARTIALLY_PAID", "PAID"}
    /\ status[i] = "PAID" => Total[i] <= booked[i]

DebtInv == DocumentsSound /\ PaymentsSound /\ DebtsSound

\* A step that collects nothing and begins no payment.
LEMMA DebtQuiet ==
  ASSUME TypeInv, DebtInv, declared \subseteq declared',
         \A d \in Document : /\ paid'[d] = paid[d] \/ (d \in declared' /\ paid'[d] = Total[d])
                             /\ booked'[d] = booked[d]
                             /\ d \notin declared' => status'[d] = status[d] \/ d \notin Invoice
                             /\ d \in Invoice => status'[d] \in InvoiceStatus
                             /\ d \in Purchase => status'[d] \in PurchaseStatus,
         \A c \in Call : call'[c] = call[c] \/ call'[c].at # "paying"
  PROVE  DebtInv'
<1>1. \A d \in Document : Total[d] \in Nat /\ paid[d] \in Nat
  BY TreasuryAssumption DEF TypeInv, TypeOK
<1>2. DocumentsSound'
  BY <1>1 DEF DebtInv, DocumentsSound
<1>3. PaymentsSound'
  <2> SUFFICES ASSUME NEW c \in Call, call'[c].at = "paying"
               PROVE  /\ NewPaid(c)' <= Total[call'[c].doc]
                      /\ call'[c].doc \in Invoice \ declared'
                           => call'[c].seen <= booked'[call'[c].doc]
    BY DEF PaymentsSound
  <2>1. call'[c] = call[c] /\ call[c].doc \in Document
    BY DEF TypeInv, DocKnown
  <2>2. NewPaid(c)' = NewPaid(c)
    BY <2>1 DEF NewPaid
  <2> QED
    BY <2>1, <2>2 DEF DebtInv, PaymentsSound
<1>4. DebtsSound'
  <2> SUFFICES ASSUME NEW i \in Invoice \ declared'
               PROVE  /\ paid'[i] <= booked'[i]
                      /\ status'[i] \in {"ISSUED", "PARTIALLY_PAID", "PAID"}
                      /\ status'[i] = "PAID" => Total[i] <= booked'[i]
    BY DEF DebtsSound
  <2>1. i \in Document /\ i \in Invoice \ declared
    BY DEF Document
  <2>2. paid'[i] = paid[i] /\ booked'[i] = booked[i] /\ status'[i] = status[i]
    BY <2>1
  <2> QED
    BY <2>1, <2>2 DEF DebtInv, DebtsSound
<1> QED
  BY <1>2, <1>3, <1>4 DEF DebtInv

LEMMA ReadKeepsDebts ==
  ASSUME TypeInv, DebtInv, NEW c \in Call, NEW d \in Document, NEW a \in Amount,
         NEW date \in Day, ReadForPayment(c, d, a, date)
  PROVE  DebtInv'
<1>1. /\ call'[c].at = "paying" /\ call'[c].doc = d /\ call'[c].amount = a
      /\ call'[c].seen = paid[d] /\ paid[d] + a <= Total[d]
      /\ \A b \in Call \ {c} : call'[b] = call[b]
      /\ UNCHANGED <<paid, booked, status, declared>>
  <2>1. call' = [call EXCEPT ![c] = [at |-> "paying", doc |-> d, amount |-> a,
                                     date |-> date, seen |-> paid[d]]]
    BY DEF ReadForPayment
  <2>2. ~(paid[d] + a > Total[d]) /\ UNCHANGED <<paid, booked, status, declared>>
    BY DEF ReadForPayment, Refused, BooksUnchanged
  <2>3. paid[d] \in Nat /\ a \in Nat /\ Total[d] \in Nat
    BY TreasuryAssumption DEF TypeInv, TypeOK
  <2> QED
    BY <2>1, <2>2, <2>3, CallIsTyped DEF TypeInv
<1>2. PaymentsSound'
  BY <1>1 DEF PaymentsSound, DebtInv, DebtsSound, NewPaid
<1> QED
  BY <1>1, <1>2 DEF DebtInv, DocumentsSound, DebtsSound

\* What a payment writes in the books of its document.
LEMMA PayWrites ==
  ASSUME TypeInv, NEW c \in Call, call[c].at = "paying", NEW e, Pay(c, e)
  PROVE  /\ call[c].doc \in Document /\ call[c].amount \in Nat /\ call[c].seen \in Nat
         /\ NewPaid(c) = call[c].seen + call[c].amount
         /\ paid'[call[c].doc] = NewPaid(c)
         /\ booked'[call[c].doc] = booked[call[c].doc] + call[c].amount
         /\ \A d \in Document \ {call[c].doc} : paid'[d] = paid[d] /\ booked'[d] = booked[d]
         /\ \A d \in Document : booked[d] \in Nat /\ booked'[d] \in Nat /\ booked[d] <= booked'[d]
         /\ \A b \in Call : call'[b] = call[b] \/ call'[b].at # "paying"
<1>1. call[c].doc \in Document /\ call[c].amount \in Nat
  BY TreasuryAssumption DEF TypeInv, DocKnown
<1>2. call[c].seen \in Nat
  BY CallIsTyped DEF TypeInv, CallType
<1>3. /\ paid' = [paid EXCEPT ![call[c].doc] = NewPaid(c)]
      /\ booked' = [booked EXCEPT ![call[c].doc] = @ + call[c].amount]
      /\ Finish(c)
  BY DEF Pay
<1>4. paid \in [Document -> Nat] /\ booked \in [Document -> Nat]
  BY DEF TypeInv, TypeOK
<1>5. \A d \in Document : booked[d] \in Nat /\ booked'[d] \in Nat /\ booked[d] <= booked'[d]
  BY <1>1, <1>3, <1>4
<1>6. \A d \in Document \ {call[c].doc} : paid'[d] = paid[d] /\ booked'[d] = booked[d]
  BY <1>3, <1>4
<1>7. /\ paid'[call[c].doc] = NewPaid(c)
      /\ booked'[call[c].doc] = booked[call[c].doc] + call[c].amount
  BY <1>1, <1>3, <1>4
<1> QED
  BY <1>1, <1>2, <1>3, <1>5, <1>6, <1>7, FinishQuiet DEF NewPaid

\* A payment keeps them, whatever overlapped it: what it writes was collected.
LEMMA PayKeepsDebts ==
  ASSUME TypeInv, DebtInv, NEW c \in Call, Collect(c) \/ Payout(c)
  PROVE  DebtInv'
<1> DEFINE d == call[c].doc
<1>1. /\ call[c].at = "paying" /\ \E e : Pay(c, e)
      /\ UNCHANGED declared
      /\ \A x \in Document \ {d} : status'[x] = status[x]
      /\ d \in Purchase => status'[d] = status[d]
      /\ d \in Invoice => status'[d] = IF NewPaid(c) >= Total[d] THEN "PAID" ELSE "PARTIALLY_PAID"
  <2>1. CASE Collect(c)
    <3>1. /\ call[c].at = "paying" /\ d \in Invoice /\ UNCHANGED declared
          /\ Pay(c, CollectionEntry(d, call[c].amount, call[c].date))
          /\ status' = [status EXCEPT ![d] =
                IF NewPaid(c) >= Total[d] THEN "PAID" ELSE "PARTIALLY_PAID"]
      BY <2>1 DEF Collect
    <3>2. d \notin Purchase /\ d \in Document
      BY <3>1, TreasuryAssumption DEF Document
    <3>3. \E e : Pay(c, e)
      BY <3>1
    <3> HIDE DEF d
    <3> QED
      BY <3>1, <3>2, <3>3 DEF TypeInv, TypeOK
  <2>2. CASE Payout(c)
    <3>1. /\ call[c].at = "paying" /\ d \in Purchase /\ UNCHANGED <<status, declared>>
          /\ Pay(c, SupplierEntry(d, call[c].amount, call[c].date))
      BY <2>2 DEF Payout
    <3>2. d \notin Invoice
      BY <3>1, TreasuryAssumption
    <3>3. \E e : Pay(c, e)
      BY <3>1
    <3> HIDE DEF d
    <3> QED
      BY <3>1, <3>2, <3>3
  <2> QED
    BY <2>1, <2>2
<1>2. /\ d \in Document /\ call[c].amount \in Nat /\ call[c].seen \in Nat
      /\ NewPaid(c) = call[c].seen + call[c].amount
      /\ paid'[d] = NewPaid(c) /\ booked'[d] = booked[d] + call[c].amount
      /\ \A x \in Document \ {d} : paid'[x] = paid[x] /\ booked'[x] = booked[x]
      /\ \A x \in Document : booked[x] \in Nat /\ booked'[x] \in Nat /\ booked[x] <= booked'[x]
      /\ \A b \in Call : call'[b] = call[b] \/ call'[b].at # "paying"
  BY <1>1, PayWrites
<1>3. /\ NewPaid(c) <= Total[d] /\ Total[d] \in Nat
      /\ d \in Invoice \ declared => call[c].seen <= booked[d]
  BY <1>1, <1>2, TreasuryAssumption DEF DebtInv, PaymentsSound
<1> HIDE DEF d
<1>4. DocumentsSound'
  <2> SUFFICES ASSUME NEW x \in Document
               PROVE  /\ paid'[x] <= Total[x]
                      /\ x \in Invoice => status'[x] \in InvoiceStatus
                      /\ x \in Purchase => status'[x] \in PurchaseStatus
    BY DEF DocumentsSound
  <2>1. /\ paid[x] <= Total[x] /\ x \in Invoice => status[x] \in InvoiceStatus
        /\ x \in Purchase => status[x] \in PurchaseStatus
    BY DEF DebtInv, DocumentsSound
  <2>2. paid[x] <= Total[x] /\ (x \in Purchase => status[x] \in PurchaseStatus)
        /\ (x \in Invoice => status[x] \in InvoiceStatus)
    BY DEF DebtInv, DocumentsSound
  <2>3. CASE x = d
    BY <1>1, <1>2, <1>3, <2>2, <2>3 DEF InvoiceStatus
  <2>4. CASE x # d
    BY <1>1, <1>2, <2>2, <2>4
  <2> QED
    BY <2>3, <2>4
<1>5. PaymentsSound'
  <2> SUFFICES ASSUME NEW b \in Call, call'[b].at = "paying"
               PROVE  /\ NewPaid(b)' <= Total[call'[b].doc]
                      /\ call'[b].doc \in Invoice \ declared'
                           => call'[b].seen <= booked'[call'[b].doc]
    BY DEF PaymentsSound
  <2>1. call'[b] = call[b] /\ call[b].doc \in Document /\ call[b].seen \in Nat
    BY <1>2, CallIsTyped DEF TypeInv, DocKnown, CallType
  <2>2. NewPaid(b)' = NewPaid(b)
    BY <2>1 DEF NewPaid
  <2>3. /\ NewPaid(b) <= Total[call[b].doc]
        /\ call[b].doc \in Invoice \ declared => call[b].seen <= booked[call[b].doc]
    BY <2>1 DEF DebtInv, PaymentsSound
  <2>4. booked[call[b].doc] \in Nat /\ booked'[call[b].doc] \in Nat
        /\ booked[call[b].doc] <= booked'[call[b].doc]
    BY <1>2, <2>1
  <2> QED
    BY <1>1, <2>1, <2>2, <2>3, <2>4
<1>6. DebtsSound'
  <2> SUFFICES ASSUME NEW i \in Invoice \ declared'
               PROVE  /\ paid'[i] <= booked'[i]
                      /\ status'[i] \in {"ISSUED", "PARTIALLY_PAID", "PAID"}
                      /\ status'[i] = "PAID" => Total[i] <= booked'[i]
    BY DEF DebtsSound
  <2>1. i \in Document /\ i \in Invoice \ declared
    BY <1>1 DEF Document
  <2>2. CASE i = d
    <3>1. NewPaid(c) <= booked'[d]
      BY <1>2, <1>3, <2>1, <2>2
    <3>2. booked'[d] \in Nat /\ NewPaid(c) \in Nat /\ Total[d] \in Nat
      BY <1>2, <1>3
    <3> QED
      BY <1>1, <1>2, <2>1, <2>2, <3>1, <3>2
  <2>3. CASE i # d
    BY <1>1, <1>2, <2>1, <2>3 DEF DebtInv, DebtsSound
  <2> QED
    BY <2>2, <2>3
<1> QED
  BY <1>4, <1>5, <1>6 DEF DebtInv

LEMMA DebtStep == TypeInv /\ DebtInv /\ [Next]_vars => DebtInv'
<1> SUFFICES ASSUME TypeInv, DebtInv, [Next]_vars PROVE DebtInv'
  OBVIOUS
<1>t. \A d \in Document : /\ d \in Invoice => status[d] \in InvoiceStatus
                          /\ d \in Purchase => status[d] \in PurchaseStatus
  BY DEF DebtInv, DocumentsSound
<1>1. ASSUME NEW c \in Call, Payment(c) PROVE DebtInv'
  <2>1. CASE \E d \in Document, a \in Amount, date \in Day : ReadForPayment(c, d, a, date)
    BY <2>1, ReadKeepsDebts
  <2>2. CASE Collect(c) \/ Payout(c)
    BY <2>2, PayKeepsDebts
  <2>3. CASE \E i \in Invoice : ReadForMark(c, i)
    <3>1. PICK i \in Invoice : call' = [call EXCEPT ![c] = [NewCall EXCEPT !.at = "marking", !.doc = i]]
      BY <2>3 DEF ReadForMark
    <3>2. UNCHANGED <<paid, booked, status, declared>>
      BY <2>3 DEF ReadForMark, BooksUnchanged
    <3>3. \A b \in Call : call'[b] = call[b] \/ call'[b].at # "paying"
      BY <3>1, CallIsTyped DEF TypeInv, NewCall
    <3> QED
      BY <1>t, <3>2, <3>3, DebtQuiet
  <2>4. CASE WriteMark(c)
    <3> DEFINE i == call[c].doc
    <3>1. /\ i \in Invoice /\ Finish(c) /\ UNCHANGED booked
          /\ paid' = [paid EXCEPT ![i] = Total[i]]
          /\ status' = [status EXCEPT ![i] = "PAID"]
          /\ declared' = declared \cup {i}
      BY <2>4 DEF WriteMark, TypeInv, DocKnown
    <3> HIDE DEF i
    <3>2. i \in Document /\ i \notin Purchase
      BY <3>1, TreasuryAssumption DEF Document
    <3>3. \A d \in Document : /\ paid'[d] = paid[d] \/ (d \in declared' /\ paid'[d] = Total[d])
                              /\ d \notin declared' => status'[d] = status[d]
                              /\ status'[d] = IF d = i THEN "PAID" ELSE status[d]
      BY <3>1 DEF TypeInv, TypeOK
    <3>4. \A b \in Call : call'[b] = call[b] \/ call'[b].at # "paying"
      BY <3>1, FinishQuiet
    <3>5. \A d \in Document : /\ d \in Invoice => status'[d] \in InvoiceStatus
                              /\ d \in Purchase => status'[d] \in PurchaseStatus
      BY <1>t, <3>2, <3>3 DEF InvoiceStatus
    <3> QED
      BY <3>1, <3>3, <3>4, <3>5, DebtQuiet
  <2>5. CASE Abort(c)
    BY <1>t, <2>5, FinishQuiet, DebtQuiet DEF Abort, BooksUnchanged
  <2> QED
    BY <1>1, <2>1, <2>2, <2>3, <2>4, <2>5 DEF Payment
<1>2. ASSUME NEW c \in Call, NEW i \in Invoice, NEW s \in InvoiceStatus, NEW date \in Day,
             NEW notes \in CreditInput, EditInvoice(c, i, s, date, notes)
      PROVE  DebtInv'
  <2>1. /\ status' = [status EXCEPT ![i] = s] /\ Finish(c)
        /\ declared' = IF s # status[i] THEN declared \cup {i} ELSE declared
        /\ UNCHANGED <<paid, booked>>
    BY <1>2 DEF EditInvoice, BooksUnchanged
  <2>2. i \notin Purchase
    BY TreasuryAssumption
  <2>3. \A d \in Document : status'[d] = IF d = i THEN s ELSE status[d]
    BY <2>1 DEF TypeInv, TypeOK
  <2>4. \A b \in Call : call'[b] = call[b] \/ call'[b].at # "paying"
    BY <2>1, FinishQuiet
  <2>5. \A d \in Document : /\ d \notin declared' => status'[d] = status[d]
                            /\ d \in Invoice => status'[d] \in InvoiceStatus
                            /\ d \in Purchase => status'[d] \in PurchaseStatus
    BY <1>t, <2>1, <2>2, <2>3
  <2> QED
    BY <2>1, <2>4, <2>5, DebtQuiet
<1>3. ASSUME NEW c \in Call, NEW p \in Purchase, NEW s \in PurchaseStatus, NEW date \in Day,
             EditPurchase(c, p, s, date)
      PROVE  DebtInv'
  <2>1. /\ status' = [status EXCEPT ![p] = s] /\ Finish(c)
        /\ UNCHANGED <<paid, booked, declared>>
    BY <1>3 DEF EditPurchase, BooksUnchanged
  <2>2. p \notin Invoice
    BY TreasuryAssumption
  <2>3. \A d \in Document : status'[d] = IF d = p THEN s ELSE status[d]
    BY <2>1 DEF TypeInv, TypeOK
  <2>4. \A b \in Call : call'[b] = call[b] \/ call'[b].at # "paying"
    BY <2>1, FinishQuiet
  <2>5. \A d \in Document : /\ status'[d] = status[d] \/ d \notin Invoice
                            /\ d \in Invoice => status'[d] \in InvoiceStatus
                            /\ d \in Purchase => status'[d] \in PurchaseStatus
    BY <1>t, <2>2, <2>3
  <2> QED
    BY <2>1, <2>4, <2>5, DebtQuiet
<1>4. ASSUME NEW c \in Call,
             \/ \E e \in ManualEntry : CreateLedgerEntry(c, e)
             \/ \E b \in BudgetInput : CreateBudget(c, b)
             \/ \E k \in Own : CreateLedgerCategory(c, k)
      PROVE  DebtInv'
  <2>1. Finish(c) /\ UNCHANGED <<paid, booked, status, declared>>
    BY <1>4 DEF CreateLedgerEntry, CreateBudget, CreateLedgerCategory, BooksUnchanged
  <2> QED
    BY <1>t, <2>1, FinishQuiet, DebtQuiet
<1>5. ASSUME NEW c \in Call, Manual(c) PROVE DebtInv'
  BY <1>2, <1>3, <1>4, <1>5 DEF Manual
<1>6. CASE EnsureDefaultLedgerCategories \/ NextDay \/ UNCHANGED vars
  BY <1>t, <1>6, DebtQuiet DEF EnsureDefaultLedgerCategories, NextDay, BooksUnchanged, vars
<1> QED
  BY <1>1, <1>5, <1>6 DEF Next

LEMMA DebtInit == Init => DebtInv
<1> SUFFICES ASSUME Init PROVE DebtInv
  OBVIOUS
<1>1. \A c \in Call : call[c].at = "new"
  BY DEF Init, NewCall
<1>2. \A d \in Document : paid[d] = 0 /\ booked[d] = 0 /\ Total[d] \in Nat
  BY TreasuryAssumption DEF Init
<1>3. /\ \A i \in Invoice : status[i] \in InvoiceStatus
      /\ \A p \in Purchase : status[p] \in PurchaseStatus
      /\ \A i \in Invoice \ declared : status[i] = "ISSUED"
  BY TreasuryAssumption DEF Init
<1>4. DocumentsSound
  BY <1>2, <1>3 DEF DocumentsSound
<1>5. DebtsSound
  BY <1>2, <1>3 DEF DebtsSound, Document
<1> QED
  BY <1>1, <1>4, <1>5 DEF DebtInv, PaymentsSound
\* The rest of an awaited invoice is counted with what its client owes.
LEMMA OverdueCounts ==
  ASSUME TypeOK, DebtInv, IsFiniteSet(Document), NEW i \in Invoice,
         due[i] <= today, status[i] \in Awaited
  PROVE  ClientOverdueAmount(ClientOf[i]) >= Rest(i)
<1> DEFINE cl == ClientOf[i]
           D == {x \in {y \in Invoice : ClientOf[y] = cl} : due[x] <= today /\ status[x] \in Awaited}
<1>1. ClientOverdueAmount(cl) = RestOf(D)
  BY DEF ClientOverdueAmount
<1>2. D \subseteq Document /\ i \in D
  BY DEF Document
<1> HIDE DEF D
<1>3. IsFiniteSet(D)
  BY <1>2, FS_Subset
<1>4. \A x \in D : RestWith(paid)[x] = Rest(x) /\ RestWith(paid)[x] \in Nat
  <2> SUFFICES ASSUME NEW x \in D PROVE RestWith(paid)[x] = Rest(x) /\ Rest(x) \in Nat
    OBVIOUS
  <2>1. x \in Document
    BY <1>2
  <2>2. paid[x] \in Nat /\ Total[x] \in Nat /\ paid[x] <= Total[x]
    BY <2>1, TreasuryAssumption DEF TypeOK, DebtInv, DocumentsSound
  <2> QED
    BY <2>1, <2>2 DEF RestWith, Rest
<1>5. RestOf(D) = SumOf(RestWith(paid), D)
  BY <1>2, <1>3, RestIsSum
<1>6. RestWith(paid)[i] <= SumOf(RestWith(paid), D) /\ SumOf(RestWith(paid), D) \in Nat
  BY <1>2, <1>3, <1>4, SumOfNat
<1>7. RestWith(paid)[i] = Rest(i) /\ Rest(i) \in Nat
  BY <1>2, <1>4
<1> QED
  BY <1>1, <1>5, <1>6, <1>7

\* What a page does not show is due no earlier than all that it shows.
LEMMA ShownOrCrowded ==
  ASSUME TypeOK, NEW D \in SUBSET Document, IsFiniteSet(D), NEW limit \in Nat,
         NEW S \in FirstDue(D, limit), NEW i \in D
  PROVE  i \in S \/ Crowded(i, D, limit)
<1> SUFFICES ASSUME i \notin S PROVE Crowded(i, D, limit)
  OBVIOUS
<1> DEFINE F == {j \in D \ {i} : due[j] <= due[i]}
<1>1. /\ S \in SUBSET D /\ Cardinality(S) = Min({limit, Cardinality(D)})
      /\ \A x \in S, j \in D \ S : due[x] <= due[j]
  BY DEF FirstDue
<1>2. Cardinality(S) = limit
  BY <1>1, KeptOfMany
<1>3. S \in SUBSET F /\ F \in SUBSET D
  BY <1>1
<1> HIDE DEF F
<1>4. IsFiniteSet(F) /\ Cardinality(S) <= Cardinality(F)
  BY <1>3, FS_Subset
<1>5. Cardinality(F) >= limit
  <2>1. Cardinality(F) \in Nat
    BY <1>4, FS_CardinalityType
  <2> QED
    BY <1>2, <1>4, <2>1
<1> QED
  BY <1>5 DEF Crowded, F

\* A page that is large enough shows everything.
LEMMA AllAreShown ==
  ASSUME NEW D, IsFiniteSet(D), NEW limit \in Nat, Cardinality(D) <= limit
  PROVE  FirstDue(D, limit) = {D}
<1>1. \A S \in FirstDue(D, limit) : S = D
  <2> SUFFICES ASSUME NEW S \in FirstDue(D, limit) PROVE S = D
    OBVIOUS
  <2>1. S \in SUBSET D /\ Cardinality(S) = Min({limit, Cardinality(D)})
    BY DEF FirstDue
  <2> QED
    BY <2>1, KeptOfMany
<1>2. D \in FirstDue(D, limit)
  <2>1. Cardinality(D) \in Nat
    BY FS_CardinalityType
  <2>2. /\ Min({limit, Cardinality(D)}) \in {limit, Cardinality(D)}
        /\ Min({limit, Cardinality(D)}) <= Cardinality(D)
    BY <2>1, MinOfTwo
  <2>3. Cardinality(D) = Min({limit, Cardinality(D)})
    BY <2>1, <2>2
  <2> QED
    BY <2>3 DEF FirstDue
<1> QED
  BY <1>1, <1>2

\* However payments overlap, no debt of a client is forgotten (of finitely many
\* documents): what is not collected of an invoice that is due is reminded and
\* shown on the board, unless they are full of invoices due no later, and counted
\* on the pages.
THEOREM DebtsAreReminded ==
  ASSUME IsFiniteSet(Document)
  PROVE  Spec => []DebtIsReminded
<1>1. TypeOK /\ DebtInv => DebtIsReminded
  <2> SUFFICES ASSUME TypeOK, DebtInv, NEW i \in Invoice \ (declared \cup credit),
                      due[i] <= today, Total[i] - booked[i] > 0
               PROVE  /\ \A days \in 0 .. today - due[i] :
                            \A messages \in NotifyOverdueReminders(days, Total[i] - booked[i]) :
                               \/ [role |-> "RESPONSABLE_FINANCIER_STOCKS", about |-> {i}] \in messages
                               \/ Crowded(i, ToRemind(days), ReminderLimit)
                      /\ \A items \in ToCollect :
                            \/ \E item \in items :
                                  /\ item.id = i /\ item.amount >= Total[i] - booked[i]
                                  /\ item.overdue <=> due[i] < today
                            \/ Crowded(i, CollectRows, QueueItemLimit)
                      /\ ClientOverdueAmount(ClientOf[i]) >= Total[i] - booked[i]
                      /\ Cardinality(OverdueInvoices(ClientOf[i])) <= OverdueLimit =>
                            OverdueAmounts(ClientOf[i]) = {ClientOverdueAmount(ClientOf[i])}
    BY DEF DebtIsReminded
  <2> DEFINE rest == Total[i] - booked[i]
  <2>1. /\ paid[i] \in Nat /\ booked[i] \in Nat /\ Total[i] \in Nat
        /\ due[i] \in Nat /\ today \in Nat
    BY TreasuryAssumption DEF TypeOK, Document, Day
  <2>2. /\ paid[i] <= booked[i] /\ status[i] \in {"ISSUED", "PARTIALLY_PAID", "PAID"}
        /\ status[i] = "PAID" => Total[i] <= booked[i]
    BY DEF DebtInv, DebtsSound
  <2>3. status[i] \in Awaited
    BY <2>1, <2>2 DEF Awaited
  <2>4. Rest(i) >= rest /\ Rest(i) \in Int /\ rest \in Int
    BY <2>1, <2>2 DEF Rest
  <2>f. /\ \A D \in SUBSET Invoice : D \in SUBSET Document /\ IsFiniteSet(D)
        /\ {ReminderLimit, QueueItemLimit, OverdueLimit} \subseteq Nat
    BY FS_Subset, PagesAssumption DEF Document
  <2>5. ASSUME NEW days \in 0 .. today - due[i], NEW messages \in NotifyOverdueReminders(days, rest)
        PROVE  \/ [role |-> "RESPONSABLE_FINANCIER_STOCKS", about |-> {i}] \in messages
               \/ Crowded(i, ToRemind(days), ReminderLimit)
    <3> HIDE DEF rest
    <3>1. PICK S \in FirstDue(ToRemind(days), ReminderLimit) :
             messages = {[role |-> "RESPONSABLE_FINANCIER_STOCKS", about |-> {x}] :
                             x \in {y \in S : Rest(y) >= rest}}
                        \cup IF {y \in S : Rest(y) >= rest} = {} THEN {}
                             ELSE {[role |-> "GERANT", about |-> {y \in S : Rest(y) >= rest}]}
      BY <2>5 DEF NotifyOverdueReminders, OverdueReminders
    <3>2. i \in ToRemind(days) /\ ToRemind(days) \in SUBSET Invoice
      <4>1. due[i] <= today - days
        BY <2>1
      <4> QED
        BY <2>3, <4>1 DEF ToRemind
    <3>3. i \in S \/ Crowded(i, ToRemind(days), ReminderLimit)
      BY <2>f, <3>2, ShownOrCrowded
    <3> QED
      BY <2>4, <3>1, <3>3
  <2>6. ASSUME NEW items \in ToCollect
        PROVE  \/ \E item \in items :
                     item.id = i /\ item.amount >= rest /\ (item.overdue <=> due[i] < today)
               \/ Crowded(i, CollectRows, QueueItemLimit)
    <3>1. PICK S \in FirstDue(CollectRows, QueueItemLimit) :
             items = {[id |-> x, overdue |-> due[x] < today, amount |-> Max({0, Rest(x)})] : x \in S}
      BY DEF ToCollect
    <3>2. i \in CollectRows /\ CollectRows \in SUBSET Invoice
      BY <2>3 DEF CollectRows, Open
    <3>3. i \in S \/ Crowded(i, CollectRows, QueueItemLimit)
      BY <2>f, <3>2, ShownOrCrowded
    <3>4. Max({0, Rest(i)}) >= rest
      <4>1. \E x \in {0, Rest(i)} : \A y \in {0, Rest(i)} : x >= y
        BY <2>4
      <4>2. Max({0, Rest(i)}) >= Rest(i) /\ Max({0, Rest(i)}) \in Int
        BY <2>4, <4>1 DEF Max
      <4> QED
        BY <2>4, <4>2
    <3>5. ASSUME i \in S
          PROVE  \E item \in items :
                    item.id = i /\ item.amount >= rest /\ (item.overdue <=> due[i] < today)
      <4> DEFINE item == [id |-> i, overdue |-> due[i] < today, amount |-> Max({0, Rest(i)})]
      <4>1. item \in items
        BY <3>1, <3>5
      <4>2. item.id = i /\ item.amount = Max({0, Rest(i)}) /\ (item.overdue <=> due[i] < today)
        OBVIOUS
      <4> HIDE DEF item
      <4> QED
        BY <3>4, <4>1, <4>2
    <3> QED
      BY <3>3, <3>5
  <2>7. ClientOverdueAmount(ClientOf[i]) >= rest
    <3>1. ClientOverdueAmount(ClientOf[i]) >= Rest(i)
      BY <2>3, OverdueCounts
    <3>2. ClientOverdueAmount(ClientOf[i]) \in Int
      <4> DEFINE D == {x \in {y \in Invoice : ClientOf[y] = ClientOf[i]} :
                          due[x] <= today /\ status[x] \in Awaited}
      <4>1. ClientOverdueAmount(ClientOf[i]) = RestOf(D) /\ D \subseteq Document
        BY DEF ClientOverdueAmount, Document
      <4> HIDE DEF D
      <4>2. IsFiniteSet(D)
        BY <4>1, FS_Subset
      <4>3. \A x \in D : RestWith(paid)[x] \in Int
        BY <4>1, TreasuryAssumption DEF RestWith, TypeOK
      <4> QED
        BY <4>1, <4>2, <4>3, RestIsSum, SumOfType
    <3> QED
      BY <2>4, <3>1, <3>2
  <2>8. Cardinality(OverdueInvoices(ClientOf[i])) <= OverdueLimit =>
           OverdueAmounts(ClientOf[i]) = {ClientOverdueAmount(ClientOf[i])}
    <3> SUFFICES ASSUME Cardinality(OverdueInvoices(ClientOf[i])) <= OverdueLimit
                 PROVE  OverdueAmounts(ClientOf[i]) = {ClientOverdueAmount(ClientOf[i])}
      OBVIOUS
    <3>1. ClientOf[i] # None
      BY TreasuryAssumption
    <3>2. OverdueInvoices(ClientOf[i]) =
            {x \in {y \in Invoice : ClientOf[y] = ClientOf[i]} :
                due[x] <= today /\ status[x] \in Awaited}
      BY <3>1 DEF OverdueInvoices
    <3>3. FirstDue(OverdueInvoices(ClientOf[i]), OverdueLimit) = {OverdueInvoices(ClientOf[i])}
      <4>1. OverdueInvoices(ClientOf[i]) \in SUBSET Invoice
        BY DEF OverdueInvoices
      <4> QED
        BY <2>f, <4>1, AllAreShown
    <3>4. RestOf(OverdueInvoices(ClientOf[i])) = ClientOverdueAmount(ClientOf[i])
      BY <3>2 DEF ClientOverdueAmount
    <3> QED
      BY <3>3, <3>4 DEF OverdueAmounts
  <2> QED
    BY <2>5, <2>6, <2>7, <2>8
<1> QED
  BY <1>1, DebtInit, DebtStep, TypeInvAlways, TypeCorrect, PTL DEF Spec
-----------------------------------------------------------------------------
(* The overview that is being read.                                        *)

\* The sums of the pages after a step.
LEMMA BalancesAreSumsNext ==
  (\A E : IsFiniteSet(E) /\ E \subseteq Entries
            => ComputeTrackedBalance(E) = SumOf(SignedOf(ledger), E))'
<1>1. \A E : IsFiniteSet(E) /\ E \subseteq Entries
               => ComputeTrackedBalance(E) = SumOf(SignedOf(ledger), E)
  BY BalanceIsSum
<1> QED
  BY <1>1, PTL

LEMMA BalanceIsSumNext ==
  ASSUME NEW E, IsFiniteSet(E), E \subseteq Entries'
  PROVE  ComputeTrackedBalance(E)' = SumOf(SignedOf(ledger'), E)
  BY BalancesAreSumsNext

LEMMA RestIsSumNext ==
  ASSUME NEW D, IsFiniteSet(D), D \subseteq Document
  PROVE  RestOf(D)' = SumOf(RestWith(paid'), D)
<1>1. \A F : IsFiniteSet(F) /\ F \subseteq Document => RestOf(F) = SumOf(RestWith(paid), F)
  BY RestIsSum
<1>2. (\A F : IsFiniteSet(F) /\ F \subseteq Document => RestOf(F) = SumOf(RestWith(paid), F))'
  BY <1>1, PTL
<1> QED
  BY <1>2

\* The rest of some documents when one of them is paid.
LEMMA RestChanges ==
  ASSUME NEW D, IsFiniteSet(D), D \subseteq Document,
         NEW p \in [Document -> Nat], NEW q \in [Document -> Nat],
         NEW d \in Document, \A x \in Document \ {d} : q[x] = p[x]
  PROVE  /\ SumOf(RestWith(p), D) \in Int
         /\ d \notin D => SumOf(RestWith(q), D) = SumOf(RestWith(p), D)
         /\ d \in D => SumOf(RestWith(q), D) = SumOf(RestWith(p), D) - (q[d] - p[d])
         /\ d \in D => SumOf(RestWith(q), D \ {d}) = SumOf(RestWith(p), D) - (Total[d] - p[d])
<1>1. /\ \A x \in D : RestWith(p)[x] \in Int /\ RestWith(q)[x] \in Int
      /\ \A x \in D \ {d} : RestWith(q)[x] = RestWith(p)[x]
      /\ RestWith(q)[d] = Total[d] - q[d] /\ RestWith(p)[d] = Total[d] - p[d]
  BY TreasuryAssumption DEF RestWith
<1>2. SumOf(RestWith(p), D) \in Int
  BY <1>1, SumOfType
<1>3. CASE d \notin D
  <2>1. \A x \in D : RestWith(q)[x] = RestWith(p)[x]
    BY <1>1, <1>3
  <2> QED
    BY <1>2, <1>3, <2>1, SumOfEqual
<1>4. CASE d \in D
  <2>1. IsFiniteSet(D \ {d})
    BY FS_RemoveElement
  <2>2. SumOf(RestWith(q), D \ {d}) = SumOf(RestWith(p), D \ {d})
    BY <1>1, <2>1, SumOfEqual
  <2>3. SumOf(RestWith(p), D) = RestWith(p)[d] + SumOf(RestWith(p), D \ {d})
    BY <1>1, <1>4, SumOfRest
  <2>4. SumOf(RestWith(q), D) = RestWith(q)[d] + SumOf(RestWith(q), D \ {d})
    BY <1>1, <1>4, SumOfRest
  <2>5. SumOf(RestWith(p), D \ {d}) \in Int
    BY <1>1, <2>1, SumOfType
  <2>6. p[d] \in Nat /\ q[d] \in Nat /\ Total[d] \in Nat
    BY TreasuryAssumption
  <2> QED
    BY <1>1, <1>2, <1>4, <2>2, <2>3, <2>4, <2>5, <2>6
<1> QED
  BY <1>3, <1>4

\* The entries of the tracked balance.
TrackedEntries(n) == {i \in Entries : ledger[i].date <= n}

LEMMA TrackedIsSum ==
  ASSUME TypeOK, NEW n
  PROVE  /\ TrackedEntries(n) \subseteq Entries /\ IsFiniteSet(TrackedEntries(n))
         /\ TrackedBalance(None, n) = SumOf(SignedOf(ledger), TrackedEntries(n))
         /\ TrackedBalance(None, n) \in Int
<1>1. TrackedEntries(n) \subseteq Entries /\ IsFiniteSet(TrackedEntries(n))
  BY FiniteLedger DEF TrackedEntries
<1>2. TrackedBalance(None, n) = ComputeTrackedBalance(TrackedEntries(n))
  BY DEF TrackedBalance, OfClient, TrackedEntries
<1>3. \A i \in TrackedEntries(n) : SignedOf(ledger)[i] \in Int
  <2>1. \A x \in Entry : Signed(x) \in Int
    BY DEF Signed, Entry
  <2> QED
    BY <1>1, <2>1, FiniteLedger DEF SignedOf, Entries
<1>4. SumOf(SignedOf(ledger), TrackedEntries(n)) \in Int
  BY <1>1, <1>3, SumOfType
<1> QED
  BY <1>1, <1>2, <1>4, BalanceIsSum

LEMMA TrackedIsSumNext ==
  ASSUME TypeOK', NEW n, NEW F, F = TrackedEntries(n)'
  PROVE  F \subseteq Entries' /\ TrackedBalance(None, n)' = SumOf(SignedOf(ledger'), F)
<1>1. F \subseteq Entries' /\ F = {i \in Entries' : ledger'[i].date <= n}
  BY DEF TrackedEntries
<1>2. IsFiniteSet(F)
  <2>1. Entries' = 1 .. Len(ledger') /\ Len(ledger') \in Nat
    BY DEF TypeOK, Entries
  <2>2. IsFiniteSet(Entries')
    BY <2>1, FS_Interval
  <2> QED
    BY <1>1, <2>2, FS_Subset
<1>3. {i \in OfClient(None)' : ledger'[i].date <= n} = F
  BY <1>1 DEF OfClient
<1>4. TrackedBalance(None, n)' = ComputeTrackedBalance(F)'
  BY <1>3 DEF TrackedBalance
<1> QED
  BY <1>1, <1>2, <1>4, BalanceIsSumNext

LEMMA TrackedStays ==
  ASSUME TypeOK, TypeOK', ledger' = ledger, NEW n
  PROVE  TrackedBalance(None, n)' = TrackedBalance(None, n)
<1>1. PICK F : F = TrackedEntries(n)
  OBVIOUS
<1>2. F = TrackedEntries(n)'
  BY <1>1 DEF TrackedEntries, Entries
<1>3. TrackedBalance(None, n) = SumOf(SignedOf(ledger), F)
  BY <1>1, TrackedIsSum
<1>4. TrackedBalance(None, n)' = SumOf(SignedOf(ledger'), F)
  BY <1>2, TrackedIsSumNext
<1> QED
  BY <1>3, <1>4

\* An entry of the day or before joins the tracked balance, a later one does not.
LEMMA EntryIsTracked ==
  ASSUME TypeOK, TypeOK', NEW e \in Entry, ledger' = Append(ledger, e), NEW n \in Int
  PROVE  TrackedBalance(None, n)' =
           TrackedBalance(None, n) + IF e.date <= n THEN Signed(e) ELSE 0
<1>1. PICK k, E, F : k = Len(ledger) + 1 /\ E = TrackedEntries(n) /\ F = TrackedEntries(n)'
  OBVIOUS
<1>2. /\ Entries = 1 .. Len(ledger) /\ Len(ledger) \in Nat
      /\ \A i \in Entries : ledger[i] \in Entry
      /\ E \subseteq Entries /\ IsFiniteSet(E)
  BY <1>1, FiniteLedger, TrackedIsSum
<1>3. /\ Entries' = 1 .. k
      /\ \A i \in Entries : ledger'[i] = ledger[i]
      /\ ledger'[k] = e /\ k \in Entries' /\ k \notin Entries
      /\ Entries' = Entries \cup {k}
  BY <1>1, <1>2 DEF Entries, TypeOK
<1>4. F = IF e.date <= n THEN E \cup {k} ELSE E
  BY <1>1, <1>2, <1>3 DEF TrackedEntries
<1>5. /\ TrackedBalance(None, n) = SumOf(SignedOf(ledger), E)
      /\ TrackedBalance(None, n)' = SumOf(SignedOf(ledger'), F)
      /\ TrackedBalance(None, n) \in Int
  BY <1>1, TrackedIsSum, TrackedIsSumNext
<1>6. /\ \A i \in E : SignedOf(ledger')[i] = SignedOf(ledger)[i]
      /\ SignedOf(ledger')[k] = Signed(e)
  BY <1>2, <1>3 DEF SignedOf, Entries
<1>7. SumOf(SignedOf(ledger'), E) = SumOf(SignedOf(ledger), E)
  BY <1>2, <1>6, SumOfEqual
<1>8. Signed(e) \in Int /\ \A i \in E : SignedOf(ledger')[i] \in Int
  <2>1. \A x \in Entry : Signed(x) \in Int
    BY DEF Signed, Entry
  <2> QED
    BY <1>2, <1>3, <1>6, <2>1 DEF SignedOf, Entries
<1>9. CASE e.date <= n
  <2>1. IsFiniteSet(F) /\ k \in F /\ F \ {k} = E
    BY <1>2, <1>3, <1>4, <1>9, FS_AddElement
  <2>2. \A i \in F : SignedOf(ledger')[i] \in Int
    BY <1>4, <1>6, <1>8, <1>9
  <2>3. SumOf(SignedOf(ledger'), F) = SignedOf(ledger')[k] + SumOf(SignedOf(ledger'), F \ {k})
    BY <2>1, <2>2, SumOfRest
  <2>4. SumOf(SignedOf(ledger'), F) = Signed(e) + SumOf(SignedOf(ledger), E)
    BY <1>6, <1>7, <2>1, <2>3
  <2> QED
    BY <1>5, <1>8, <1>9, <2>4
<1>10. CASE ~ (e.date <= n)
  BY <1>4, <1>5, <1>7, <1>10
<1> QED
  BY <1>9, <1>10

\* Every step leaves the ledger or appends one entry.
LEMMA LedgerGrows ==
  ASSUME TypeInv, Next
  PROVE  ledger' = ledger \/ \E e \in Entry : ledger' = Append(ledger, e)
<1>1. ASSUME NEW c \in Call, Collect(c) \/ Payout(c)
      PROVE  \E e \in Entry : ledger' = Append(ledger, e)
  <2>1. /\ call[c].at = "paying"
        /\ \/ /\ call[c].doc \in Invoice
              /\ ledger' = Append(ledger, CollectionEntry(call[c].doc, call[c].amount, call[c].date))
           \/ /\ call[c].doc \in Purchase
              /\ ledger' = Append(ledger, SupplierEntry(call[c].doc, call[c].amount, call[c].date))
    BY <1>1 DEF Collect, Payout, Pay
  <2>2. call[c].amount \in Amount /\ call[c].date \in Day
    <3>1. call[c] \in CallType
      BY CallIsTyped DEF TypeInv
    <3> QED
      BY <2>1, <3>1 DEF TypeInv, DocKnown, CallType
  <2> QED
    BY <2>1, <2>2, EntryTypes
<1>2. ASSUME NEW c \in Call, Payment(c), ~ (Collect(c) \/ Payout(c)) PROVE ledger' = ledger
  BY <1>2 DEF Payment, ReadForPayment, ReadForMark, WriteMark, Abort, BooksUnchanged
<1>3. ASSUME NEW c \in Call, Manual(c)
      PROVE  ledger' = ledger \/ \E e \in Entry : ledger' = Append(ledger, e)
  BY <1>3, TreasuryAssumption DEF Manual, EditInvoice, EditPurchase, CreateLedgerEntry, CreateBudget,
     CreateLedgerCategory, BooksUnchanged
<1>4. CASE EnsureDefaultLedgerCategories \/ NextDay
  BY <1>4 DEF EnsureDefaultLedgerCategories, NextDay, BooksUnchanged
<1> QED
  BY <1>1, <1>2, <1>3, <1>4 DEF Next

\* A step of a call that writes in the ledger is its payment, or an entry by hand.
LEMMA WritesInLedger ==
  ASSUME TypeInv, Next, NEW c \in Call, PaysWhatItRead(c)
  PROVE  Collect(c) \/ Payout(c) \/ \E e \in ManualEntry : CreateLedgerEntry(c, e)
<1>1. ledger' # ledger /\ call'[c] # call[c]
  BY DEF PaysWhatItRead
<1>2. ASSUME NEW b \in Call, Finish(b) PROVE b = c
  <2>1. \A x \in Call \ {b} : call'[x] = call[x]
    BY <1>2, CallIsTyped DEF Finish, TypeInv
  <2> QED
    BY <1>1, <2>1
<1>3. ASSUME NEW b \in Call, Payment(b) PROVE (Collect(b) \/ Payout(b)) /\ Finish(b)
  <2>1. CASE Collect(b) \/ Payout(b)
    BY <2>1 DEF Collect, Payout, Pay
  <2>2. CASE ledger' = ledger
    BY <1>1, <2>2
  <2> QED
    BY <1>3, <2>1, <2>2 DEF Payment, ReadForPayment, ReadForMark, WriteMark, Abort, BooksUnchanged
<1>4. ASSUME NEW b \in Call, Manual(b)
      PROVE  (\E e \in ManualEntry : CreateLedgerEntry(b, e)) /\ Finish(b)
  <2>1. CASE \E e \in ManualEntry : CreateLedgerEntry(b, e)
    BY <2>1 DEF CreateLedgerEntry
  <2>2. CASE ledger' = ledger
    BY <1>1, <2>2
  <2> QED
    BY <1>4, <2>1, <2>2 DEF Manual, EditInvoice, EditPurchase, CreateBudget, CreateLedgerCategory,
       BooksUnchanged, RestUnchanged
<1>5. ~ (EnsureDefaultLedgerCategories \/ NextDay)
  BY <1>1 DEF EnsureDefaultLedgerCategories, NextDay, BooksUnchanged
<1> QED
  BY <1>2, <1>3, <1>4, <1>5 DEF Next

\* What the two kinds of documents still have to bring or to cost.
Commitments(n, h) == {p \in Purchase : Within(p, n, h) /\ status[p] \in Committed}

LEMMA Expectations ==
  ASSUME IsFiniteSet(Document), TypeOK, NEW n, NEW h
  PROVE  /\ UpcomingInvoices(None, n, h) \subseteq Document
         /\ Commitments(n, h) \subseteq Document
         /\ IsFiniteSet(UpcomingInvoices(None, n, h)) /\ IsFiniteSet(Commitments(n, h))
         /\ RestOf(UpcomingInvoices(None, n, h))
              = SumOf(RestWith(paid), UpcomingInvoices(None, n, h))
         /\ PurchaseCommitments(n, h) = SumOf(RestWith(paid), Commitments(n, h))
         /\ RestOf(UpcomingInvoices(None, n, h)) \in Int /\ PurchaseCommitments(n, h) \in Int
<1>1. UpcomingInvoices(None, n, h) \subseteq Document /\ Commitments(n, h) \subseteq Document
  BY DEF UpcomingInvoices, Commitments, Document
<1>2. IsFiniteSet(UpcomingInvoices(None, n, h)) /\ IsFiniteSet(Commitments(n, h))
  BY <1>1, FS_Subset
<1>3. PurchaseCommitments(n, h) = RestOf(Commitments(n, h))
  BY DEF PurchaseCommitments, Commitments
<1>4. \A D \in SUBSET Document : IsFiniteSet(D) => SumOf(RestWith(paid), D) \in Int
  <2>1. \A x \in Document : RestWith(paid)[x] \in Int
    BY TreasuryAssumption DEF RestWith, TypeOK
  <2> QED
    BY <2>1, SumOfType
<1> QED
  BY <1>1, <1>2, <1>3, <1>4, RestIsSum

LEMMA ExpectationsNext ==
  ASSUME IsFiniteSet(Document), NEW n, NEW h,
         NEW V, V = UpcomingInvoices(None, n, h)', NEW W, W = Commitments(n, h)'
  PROVE  /\ V \subseteq Document /\ W \subseteq Document
         /\ RestOf(UpcomingInvoices(None, n, h))' = SumOf(RestWith(paid'), V)
         /\ PurchaseCommitments(n, h)' = SumOf(RestWith(paid'), W)
<1>1. V \subseteq Document /\ W \subseteq Document
  BY DEF UpcomingInvoices, Commitments, Document
<1>2. IsFiniteSet(V) /\ IsFiniteSet(W)
  BY <1>1, FS_Subset
<1>3. RestOf(V)' = SumOf(RestWith(paid'), V) /\ RestOf(W)' = SumOf(RestWith(paid'), W)
  BY <1>1, <1>2, RestIsSumNext
<1>4. RestOf(UpcomingInvoices(None, n, h))' = RestOf(V)'
  OBVIOUS
<1>5. PurchaseCommitments(n, h)' = RestOf(W)'
  BY DEF PurchaseCommitments, Commitments
<1> QED
  BY <1>1, <1>3, <1>4, <1>5

LEMMA ExpectationsStay ==
  ASSUME IsFiniteSet(Document), TypeOK, UNCHANGED <<status, paid, due>>, NEW n, NEW h
  PROVE  /\ RestOf(UpcomingInvoices(None, n, h))' = RestOf(UpcomingInvoices(None, n, h))
         /\ PurchaseCommitments(n, h)' = PurchaseCommitments(n, h)
<1>1. PICK U, C : U = UpcomingInvoices(None, n, h) /\ C = Commitments(n, h)
  OBVIOUS
<1>2. U = UpcomingInvoices(None, n, h)' /\ C = Commitments(n, h)'
  BY <1>1 DEF UpcomingInvoices, Commitments, Within
<1>3. /\ RestOf(UpcomingInvoices(None, n, h)) = SumOf(RestWith(paid), U)
      /\ PurchaseCommitments(n, h) = SumOf(RestWith(paid), C)
  BY <1>1, Expectations
<1>4. /\ RestOf(UpcomingInvoices(None, n, h))' = SumOf(RestWith(paid'), U)
      /\ PurchaseCommitments(n, h)' = SumOf(RestWith(paid'), C)
  BY <1>2, ExpectationsNext
<1> QED
  BY <1>3, <1>4

\* What happens to both sums when a payment is written on top of the amount it
\* has read: one of them loses the amount of the payment, if the document is due
\* within the horizon, and the other keeps what it has.
LEMMA ExpectationIsMet ==
  ASSUME IsFiniteSet(Document), TypeInv, TypeOK', DebtInv, NEW c \in Call, NEW n, NEW h,
         Collect(c) \/ Payout(c), call[c].seen = paid[call[c].doc],
         call[c].doc \in Invoice => status[call[c].doc] \in Awaited
  PROVE  LET a == call[c].amount
             up == RestOf(UpcomingInvoices(None, n, h))
             down == PurchaseCommitments(n, h)
         IN  /\ Collect(c) => up' \in {up, up - a} /\ down' = down
             /\ Payout(c) => up' = up /\ down' \in {down, down - a}
<1> DEFINE d == call[c].doc
           a == call[c].amount
<1>1. PICK U, V, C, W : /\ U = UpcomingInvoices(None, n, h) /\ V = UpcomingInvoices(None, n, h)'
                        /\ C = Commitments(n, h) /\ W = Commitments(n, h)'
  OBVIOUS
<1>2. /\ call[c].at = "paying" /\ (\E e : Pay(c, e))
      /\ due' = due
  BY DEF Collect, Payout, Pay, RestUnchanged
<1>3. /\ d \in Document /\ a \in Nat
      /\ paid'[d] = paid[d] + a
      /\ \A x \in Document \ {d} : paid'[x] = paid[x]
  BY <1>2, PayWrites
<1>4. /\ paid \in [Document -> Nat] /\ paid' \in [Document -> Nat]
      /\ paid'[d] <= Total[d] /\ Total[d] \in Nat
  <2>1. NewPaid(c) <= Total[d] /\ paid'[d] = NewPaid(c)
    BY <1>2, PayWrites DEF DebtInv, PaymentsSound
  <2> QED
    BY <1>3, <2>1, TreasuryAssumption DEF TypeInv, TypeOK
<1>5. /\ U \subseteq Document /\ C \subseteq Document /\ IsFiniteSet(U) /\ IsFiniteSet(C)
      /\ RestOf(UpcomingInvoices(None, n, h)) = SumOf(RestWith(paid), U)
      /\ PurchaseCommitments(n, h) = SumOf(RestWith(paid), C)
  BY <1>1, Expectations DEF TypeInv
<1>6. /\ RestOf(UpcomingInvoices(None, n, h))' = SumOf(RestWith(paid'), V)
      /\ PurchaseCommitments(n, h)' = SumOf(RestWith(paid'), W)
  BY <1>1, ExpectationsNext
<1>7. paid'[d] - paid[d] = a
  BY <1>3, <1>4
<1>8. ASSUME Collect(c)
      PROVE  /\ SumOf(RestWith(paid'), V) \in
                   {SumOf(RestWith(paid), U), SumOf(RestWith(paid), U) - a}
             /\ SumOf(RestWith(paid'), W) = SumOf(RestWith(paid), C)
  <2>1. /\ d \in Invoice /\ d \notin Purchase /\ status[d] \in Awaited
        /\ status' = [status EXCEPT ![d] =
              IF NewPaid(c) >= Total[d] THEN "PAID" ELSE "PARTIALLY_PAID"]
        /\ NewPaid(c) = paid'[d]
    BY <1>2, <1>8, PayWrites, TreasuryAssumption DEF Collect
  <2>2. \A x \in Document : status'[x] = IF x # d THEN status[x]
                            ELSE IF paid'[d] >= Total[d] THEN "PAID" ELSE "PARTIALLY_PAID"
    BY <2>1 DEF TypeInv, TypeOK
  <2> HIDE DEF d, a
  <2>3. d \notin C /\ W = C
    BY <1>1, <1>2, <2>1, <2>2 DEF Commitments, Within, Document
  <2>4. SumOf(RestWith(paid'), C) = SumOf(RestWith(paid), C)
    BY <1>3, <1>4, <1>5, <2>3, RestChanges
  <2>5. CASE d \notin U
    <3>1. ~ Within(d, n, h)
      BY <1>1, <2>1, <2>5 DEF UpcomingInvoices
    <3>2. V = U
      BY <1>1, <1>2, <2>1, <2>2, <3>1 DEF UpcomingInvoices, Within, Document
    <3>3. SumOf(RestWith(paid'), U) = SumOf(RestWith(paid), U)
      BY <1>3, <1>4, <1>5, <2>5, RestChanges
    <3> QED
      BY <2>3, <2>4, <3>2, <3>3
  <2>6. CASE d \in U /\ paid'[d] >= Total[d]
    <3>1. V = U \ {d}
      BY <1>1, <1>2, <2>1, <2>2, <2>6 DEF UpcomingInvoices, Within, Document, Awaited
    <3>2. SumOf(RestWith(paid'), U \ {d}) = SumOf(RestWith(paid), U) - (Total[d] - paid[d])
      BY <1>3, <1>4, <1>5, <2>6, RestChanges
    <3>3. Total[d] - paid[d] = a
      BY <1>3, <1>4, <2>6
    <3> QED
      BY <2>3, <2>4, <3>1, <3>2, <3>3
  <2>7. CASE d \in U /\ ~ (paid'[d] >= Total[d])
    <3>1. V = U
      BY <1>1, <1>2, <2>1, <2>2, <2>7 DEF UpcomingInvoices, Within, Document, Awaited
    <3>2. SumOf(RestWith(paid'), U) = SumOf(RestWith(paid), U) - (paid'[d] - paid[d])
      BY <1>3, <1>4, <1>5, <2>7, RestChanges
    <3> QED
      BY <1>7, <2>3, <2>4, <3>1, <3>2
  <2> QED
    BY <2>5, <2>6, <2>7
<1>9. ASSUME Payout(c)
      PROVE  /\ SumOf(RestWith(paid'), V) = SumOf(RestWith(paid), U)
             /\ SumOf(RestWith(paid'), W) \in
                   {SumOf(RestWith(paid), C), SumOf(RestWith(paid), C) - a}
  <2>1. d \in Purchase /\ d \notin Invoice /\ status' = status
    BY <1>9, TreasuryAssumption DEF Payout
  <2> HIDE DEF d, a
  <2>2. d \notin U /\ V = U /\ W = C
    BY <1>1, <1>2, <2>1 DEF UpcomingInvoices, Commitments, Within
  <2>3. SumOf(RestWith(paid'), U) = SumOf(RestWith(paid), U)
    BY <1>3, <1>4, <1>5, <2>2, RestChanges
  <2>4. CASE d \in C
    <3>1. SumOf(RestWith(paid'), C) = SumOf(RestWith(paid), C) - (paid'[d] - paid[d])
      BY <1>3, <1>4, <1>5, <2>4, RestChanges
    <3> QED
      BY <1>7, <2>2, <2>3, <3>1
  <2>5. CASE d \notin C
    <3>1. SumOf(RestWith(paid'), C) = SumOf(RestWith(paid), C)
      BY <1>3, <1>4, <1>5, <2>5, RestChanges
    <3> QED
      BY <2>2, <2>3, <3>1
  <2> QED
    BY <2>4, <2>5
<1> QED
  BY <1>5, <1>6, <1>8, <1>9

\* What a step adds to the answers of the three queries, in a period in which
\* nothing but payments changes the documents: any of them, taken together, make
\* no more than the entry it writes.
Shift(t, u, k, m) ==
  /\ t \in Int /\ u \in Int /\ k \in Int /\ m \in Nat
  /\ \A x \in {0, t}, y \in {0, u}, z \in {0, k} : x + y + z <= m /\ 0 - (x + y + z) <= m

Written == IF ledger' = ledger THEN 0 ELSE ledger'[Len(ledger')].amount

LEMMA AnswersShift ==
  ASSUME IsFiniteSet(Document), TypeInv, TypeOK', DebtInv, Next, NEW n \in Int, NEW h,
         UNCHANGED <<status, paid, due>> \/ \E c \in Call : PaysWhatItRead(c)
  PROVE  \E t, u, k \in Int :
            /\ Shift(t, u, k, Written)
            /\ TrackedBalance(None, n)' = TrackedBalance(None, n) + t
            /\ RestOf(UpcomingInvoices(None, n, h))' = RestOf(UpcomingInvoices(None, n, h)) + u
            /\ PurchaseCommitments(n, h)' = PurchaseCommitments(n, h) - k
<1>1. /\ TrackedBalance(None, n) \in Int
      /\ RestOf(UpcomingInvoices(None, n, h)) \in Int /\ PurchaseCommitments(n, h) \in Int
      /\ TypeOK
  BY TrackedIsSum, Expectations DEF TypeInv
<1>2. ASSUME NEW e \in Entry, ledger' = Append(ledger, e)
      PROVE  /\ Written = e.amount /\ e.amount \in Nat
             /\ TrackedBalance(None, n)' =
                  TrackedBalance(None, n) + IF e.date <= n THEN Signed(e) ELSE 0
  <2>1. /\ Len(ledger) \in Nat /\ Len(ledger') = Len(ledger) + 1
        /\ ledger'[Len(ledger')] = e /\ ledger' # ledger
    BY <1>2 DEF TypeInv, TypeOK
  <2>2. Written = e.amount /\ e.amount \in Nat
    BY <2>1 DEF Written, Entry
  <2> QED
    BY <1>1, <1>2, <2>2, EntryIsTracked
<1>3. CASE UNCHANGED <<status, paid, due>>
  <2>1. /\ RestOf(UpcomingInvoices(None, n, h))' = RestOf(UpcomingInvoices(None, n, h)) + 0
        /\ PurchaseCommitments(n, h)' = PurchaseCommitments(n, h) - 0
    BY <1>1, <1>3, ExpectationsStay
  <2>2. CASE ledger' = ledger
    <3>1. TrackedBalance(None, n)' = TrackedBalance(None, n) + 0
      BY <1>1, <2>2, TrackedStays
    <3>2. Shift(0, 0, 0, Written)
      BY <2>2 DEF Shift, Written
    <3> QED
      BY <2>1, <3>1, <3>2
  <2>3. CASE ledger' # ledger
    <3>1. PICK e \in Entry : ledger' = Append(ledger, e)
      BY <2>3, LedgerGrows
    <3> DEFINE t == IF e.date <= n THEN Signed(e) ELSE 0
    <3>2. t \in {0, e.amount, 0 - e.amount}
      BY DEF Signed
    <3>3. Written = e.amount /\ e.amount \in Nat /\ TrackedBalance(None, n)' = TrackedBalance(None, n) + t
      BY <1>2, <3>1
    <3> HIDE DEF t
    <3>4. t \in Int /\ Shift(t, 0, 0, Written)
      BY <3>2, <3>3 DEF Shift
    <3> QED
      BY <2>1, <3>3, <3>4
  <2> QED
    BY <2>2, <2>3
<1>4. ASSUME NEW c \in Call, PaysWhatItRead(c), ~ UNCHANGED <<status, paid, due>>
      PROVE  \E t, u, k \in Int :
                /\ Shift(t, u, k, Written)
                /\ TrackedBalance(None, n)' = TrackedBalance(None, n) + t
                /\ RestOf(UpcomingInvoices(None, n, h))' = RestOf(UpcomingInvoices(None, n, h)) + u
                /\ PurchaseCommitments(n, h)' = PurchaseCommitments(n, h) - k
  <2>1. Collect(c) \/ Payout(c)
    <3>1. Collect(c) \/ Payout(c) \/ \E e \in ManualEntry : CreateLedgerEntry(c, e)
      BY <1>4, WritesInLedger
    <3>2. ~ \E e \in ManualEntry : CreateLedgerEntry(c, e)
      BY <1>4 DEF CreateLedgerEntry, RestUnchanged
    <3> QED
      BY <3>1, <3>2
  <2> DEFINE d == call[c].doc
             a == call[c].amount
  <2>2. d \in Document /\ a \in Amount /\ a \in Nat /\ call[c].date \in Day
    <3>1. call[c] \in CallType
      BY CallIsTyped DEF TypeInv
    <3>2. call[c].at = "paying"
      BY <2>1 DEF Collect, Payout
    <3> QED
      BY <3>1, <3>2, TreasuryAssumption DEF TypeInv, DocKnown, CallType
  <2>3. /\ Collect(c) =>
             /\ RestOf(UpcomingInvoices(None, n, h))' \in {RestOf(UpcomingInvoices(None, n, h)),
                                                          RestOf(UpcomingInvoices(None, n, h)) - a}
             /\ PurchaseCommitments(n, h)' = PurchaseCommitments(n, h)
        /\ Payout(c) =>
             /\ RestOf(UpcomingInvoices(None, n, h))' = RestOf(UpcomingInvoices(None, n, h))
             /\ PurchaseCommitments(n, h)' \in {PurchaseCommitments(n, h), PurchaseCommitments(n, h) - a}
    <3>1. call[c].seen = paid[d] /\ (d \in Invoice => status[d] \in Awaited)
      BY <1>4 DEF PaysWhatItRead
    <3> QED
      BY <2>1, <3>1, ExpectationIsMet
  <2>4. CASE Collect(c)
    <3> DEFINE e == CollectionEntry(d, a, call[c].date)
               t == IF e.date <= n THEN a ELSE 0
    <3>1. d \in Invoice /\ ledger' = Append(ledger, e)
      BY <2>4 DEF Collect, Pay
    <3>2. e \in Entry /\ Signed(e) = a /\ e.amount = a
      BY <2>2, <3>1, EntryTypes DEF CollectionEntry, Signed
    <3> HIDE DEF e
    <3>3. Written = a /\ TrackedBalance(None, n)' = TrackedBalance(None, n) + t
      BY <1>2, <3>1, <3>2
    <3>4. t \in {0, a}
      OBVIOUS
    <3> HIDE DEF t, a, d
    <3>5. PICK u \in {0, 0 - a} :
             RestOf(UpcomingInvoices(None, n, h))' = RestOf(UpcomingInvoices(None, n, h)) + u
      BY <1>1, <2>2, <2>3, <2>4
    <3>6. PurchaseCommitments(n, h)' = PurchaseCommitments(n, h) - 0
      BY <1>1, <2>3, <2>4
    <3>7. t \in Int /\ u \in Int /\ Shift(t, u, 0, Written)
      BY <2>2, <3>3, <3>4 DEF Shift
    <3> QED
      BY <3>3, <3>5, <3>6, <3>7
  <2>5. CASE Payout(c)
    <3> DEFINE e == SupplierEntry(d, a, call[c].date)
               t == IF e.date <= n THEN 0 - a ELSE 0
    <3>1. d \in Purchase /\ ledger' = Append(ledger, e)
      BY <2>5 DEF Payout, Pay
    <3>2. e \in Entry /\ Signed(e) = 0 - a /\ e.amount = a
      BY <2>2, <3>1, EntryTypes DEF SupplierEntry, Signed
    <3> HIDE DEF e
    <3>3. Written = a /\ TrackedBalance(None, n)' = TrackedBalance(None, n) + t
      BY <1>2, <3>1, <3>2
    <3>4. t \in {0, 0 - a}
      OBVIOUS
    <3> HIDE DEF t, a, d
    <3>5. PICK k \in {0, a} :
             PurchaseCommitments(n, h)' = PurchaseCommitments(n, h) - k
      BY <1>1, <2>2, <2>3, <2>5
    <3>6. RestOf(UpcomingInvoices(None, n, h))' = RestOf(UpcomingInvoices(None, n, h)) + 0
      BY <1>1, <2>3, <2>5
    <3>7. t \in Int /\ k \in Int /\ Shift(t, 0, k, Written)
      BY <2>2, <3>3, <3>4 DEF Shift
    <3> QED
      BY <3>3, <3>5, <3>6, <3>7
  <2> QED
    BY <2>1, <2>4, <2>5
<1> QED
  BY <1>3, <1>4

OverviewType ==
  [left : SUBSET Query, now : Nat, horizon : Nat, part : [Query -> Int],
   asked : [Query -> Int], moved : Nat, steady : BOOLEAN]

\* What the overview shows for a query, or would show if it were answered now.
Shows(q) == IF q \in overview.left THEN Part(q, overview.now, overview.horizon)
            ELSE overview.part[q]

\* The error a reader would find if the missing answers came now.
Error == (Shows("tracked") + Shows("upcoming") + Shows("commitments"))
         - ProjectedBalance(overview.asked)

OverviewInv ==
  /\ overview \in OverviewType
  /\ overview.steady => Error <= overview.moved /\ 0 - Error <= overview.moved

LEMMA PartType ==
  ASSUME IsFiniteSet(Document), TypeOK, NEW n, NEW h
  PROVE  \A q \in Query : Part(q, n, h) \in Int
<1>1. /\ TrackedBalance(None, n) \in Int /\ RestOf(UpcomingInvoices(None, n, h)) \in Int
      /\ PurchaseCommitments(n, h) \in Int
  BY TrackedIsSum, Expectations
<1> QED
  BY <1>1 DEF Part, Query

LEMMA PartStays ==
  ASSUME IsFiniteSet(Document), TypeOK, UNCHANGED vars, NEW n, NEW h
  PROVE  \A q \in Query : Part(q, n, h)' = Part(q, n, h)
<1>1. TypeOK' /\ UNCHANGED <<ledger, status, paid, due>>
  BY DEF vars, TypeOK
<1>2. /\ TrackedBalance(None, n)' = TrackedBalance(None, n)
      /\ RestOf(UpcomingInvoices(None, n, h))' = RestOf(UpcomingInvoices(None, n, h))
      /\ PurchaseCommitments(n, h)' = PurchaseCommitments(n, h)
  BY <1>1, TrackedStays, ExpectationsStay
<1> QED
  BY <1>2 DEF Part, Query

LEMMA OpenKeepsError ==
  ASSUME IsFiniteSet(Document), TypeOK, NEW horizon \in Horizon, OpenOverview(horizon)
  PROVE  OverviewInv'
<1> DEFINE asked == [q \in Query |-> Part(q, today, horizon)]
<1>1. /\ overview' = [left |-> Query, now |-> today, horizon |-> horizon, part |-> NoPart,
                      asked |-> asked, moved |-> 0, steady |-> TRUE]
      /\ UNCHANGED vars
  BY DEF OpenOverview
<1>2. asked \in [Query -> Int] /\ NoPart \in [Query -> Int]
  BY PartType DEF NoPart
<1>3. today \in Nat /\ horizon \in Nat
  BY PagesAssumption, TreasuryAssumption DEF TypeOK, Day
<1>4. \A q \in Query : Shows(q)' = asked[q] /\ asked[q] \in Int
  <2>1. \A q \in Query : Shows(q)' = Part(q, today, horizon)
    <3> SUFFICES ASSUME NEW q \in Query PROVE Shows(q)' = Part(q, today, horizon)
      OBVIOUS
    <3>1. PICK n : n = today
      OBVIOUS
    <3>2. /\ overview'.left = Query /\ overview'.now = n /\ overview'.horizon = horizon
      BY <1>1, <3>1
    <3>3. Shows(q)' = Part(q, n, horizon)'
      BY <3>2 DEF Shows
    <3> QED
      BY <1>1, <3>1, <3>3, PartStays
  <2> QED
    BY <1>2, <2>1
<1> HIDE DEF asked
<1>5. overview' \in OverviewType
  BY <1>1, <1>2, <1>3 DEF OverviewType
<1>6. Error' = 0
  <2>1. overview'.asked = asked
    BY <1>1
  <2>2. ProjectedBalance(overview.asked)' = asked["tracked"] + asked["upcoming"] + asked["commitments"]
    BY <2>1 DEF ProjectedBalance
  <2>3. \A q \in {"tracked", "upcoming", "commitments"} : Shows(q)' = asked[q] /\ asked[q] \in Int
    BY <1>4 DEF Query
  <2> QED
    BY <2>2, <2>3 DEF Error
<1>7. overview'.moved = 0
  BY <1>1
<1> QED
  BY <1>5, <1>6, <1>7 DEF OverviewInv

LEMMA AnswerKeepsError ==
  ASSUME IsFiniteSet(Document), TypeOK, OverviewInv, NEW q \in Query, AnswerQuery(q)
  PROVE  OverviewInv'
<1>1. PICK n, h : n = overview.now /\ h = overview.horizon
  OBVIOUS
<1>2. /\ q \in overview.left /\ UNCHANGED vars
      /\ overview' = [overview EXCEPT !.left = @ \ {q}, !.part[q] = Part(q, n, h)]
  BY <1>1 DEF AnswerQuery
<1>3. Part(q, n, h) \in Int /\ overview \in OverviewType
  BY PartType DEF OverviewInv
<1>4. /\ overview'.left = overview.left \ {q} /\ overview'.now = n /\ overview'.horizon = h
      /\ overview'.part = [overview.part EXCEPT ![q] = Part(q, n, h)]
      /\ overview'.asked = overview.asked /\ overview'.moved = overview.moved
      /\ overview'.steady = overview.steady
      /\ overview' \in OverviewType
  BY <1>1, <1>2, <1>3 DEF OverviewType
<1>5. \A p \in Query : Shows(p)' = Shows(p)
  <2> SUFFICES ASSUME NEW p \in Query PROVE Shows(p)' = Shows(p)
    OBVIOUS
  <2>1. Part(p, n, h)' = Part(p, n, h)
    BY <1>2, PartStays
  <2>2. overview.part \in [Query -> Int]
    BY <1>3 DEF OverviewType
  <2>3. Shows(p)' = IF p \in overview'.left THEN Part(p, n, h)' ELSE overview'.part[p]
    BY <1>4 DEF Shows
  <2>4. Shows(p) = IF p \in overview.left THEN Part(p, n, h) ELSE overview.part[p]
    BY <1>1 DEF Shows
  <2> QED
    BY <1>2, <1>4, <2>1, <2>2, <2>3, <2>4
<1>6. Error' = Error
  <2>1. ProjectedBalance(overview.asked)' = ProjectedBalance(overview.asked)
    BY <1>4 DEF ProjectedBalance
  <2>2. \A p \in {"tracked", "upcoming", "commitments"} : Shows(p)' = Shows(p)
    BY <1>5 DEF Query
  <2> QED
    BY <2>1, <2>2 DEF Error
<1> QED
  BY <1>4, <1>6 DEF OverviewInv

LEMMA CloseKeepsError ==
  ASSUME CloseOverview
  PROVE  OverviewInv'
<1>1. NoPart \in [Query -> Int]
  BY DEF NoPart
<1>2. overview' = Closed /\ Closed \in OverviewType /\ ~ Closed.steady
  BY <1>1 DEF CloseOverview, Closed, OverviewType
<1> QED
  BY <1>2 DEF OverviewInv

\* A step of the others adds no more to the error than the entry it writes.
LEMMA WatchKeepsError ==
  ASSUME IsFiniteSet(Document), TypeInv, TypeOK', DebtInv, OverviewInv, Next, Watch
  PROVE  OverviewInv'
<1>1. CASE overview' = overview /\ overview.left = {}
  <2>1. \A p : Shows(p)' = Shows(p)
    BY <1>1 DEF Shows
  <2>2. ProjectedBalance(overview.asked)' = ProjectedBalance(overview.asked)
    BY <1>1 DEF ProjectedBalance
  <2>3. Error' = Error
    BY <2>1, <2>2 DEF Error
  <2> QED
    BY <1>1, <2>3 DEF OverviewInv
<1>2. CASE overview.left # {}
  <2>1. PICK n, h : n = overview.now /\ h = overview.horizon
    OBVIOUS
  <2>2. PICK steady : steady = /\ overview.steady
                               /\ \/ UNCHANGED <<status, paid, due>>
                                  \/ \E c \in Call : PaysWhatItRead(c)
    OBVIOUS
  <2>3. overview' = [overview EXCEPT !.moved = @ + Written, !.steady = steady]
    <3>1. overview.moved \in Nat
      BY DEF OverviewInv, OverviewType
    <3>2. (IF ledger' = ledger THEN overview.moved
           ELSE overview.moved + ledger'[Len(ledger')].amount) = overview.moved + Written
      BY <3>1 DEF Written
    <3> QED
      BY <1>2, <2>2, <3>2 DEF Watch
  <2>4. Written \in Nat
    <3>1. ASSUME NEW e \in Entry, ledger' = Append(ledger, e) PROVE ledger'[Len(ledger')].amount \in Nat
      BY <3>1 DEF TypeInv, TypeOK, Entry
    <3> QED
      BY <3>1, LedgerGrows DEF Written
  <2>5. overview \in OverviewType /\ n \in Int /\ steady \in BOOLEAN
    BY <2>1, <2>2 DEF OverviewInv, OverviewType
  <2>6. /\ overview'.left = overview.left /\ overview'.now = n /\ overview'.horizon = h
        /\ overview'.part = overview.part /\ overview'.asked = overview.asked
        /\ overview'.moved = overview.moved + Written /\ overview'.steady = steady
        /\ overview' \in OverviewType
    <3>1. PICK m : m = overview.moved + Written /\ m \in Nat
      BY <2>4, <2>5 DEF OverviewType
    <3>2. overview' = [overview EXCEPT !.moved = m, !.steady = steady]
      BY <2>3, <3>1
    <3>3. /\ overview'.left = overview.left /\ overview'.now = overview.now
          /\ overview'.horizon = overview.horizon
          /\ overview'.part = overview.part /\ overview'.asked = overview.asked
          /\ overview'.moved = m
      BY <2>5, <3>2 DEF OverviewType
    <3>4. overview'.steady = steady
      BY <2>5, <3>2, Zenon DEF OverviewType
    <3>5. overview' \in OverviewType
      BY <2>5, <3>1, <3>2, Zenon DEF OverviewType
    <3> QED
      BY <2>1, <3>1, <3>3, <3>4, <3>5
  <2>7. ASSUME steady PROVE Error' <= overview'.moved /\ 0 - Error' <= overview'.moved
    <3>1. PICK t, u, k \in Int :
             /\ Shift(t, u, k, Written)
             /\ TrackedBalance(None, n)' = TrackedBalance(None, n) + t
             /\ RestOf(UpcomingInvoices(None, n, h))' = RestOf(UpcomingInvoices(None, n, h)) + u
             /\ PurchaseCommitments(n, h)' = PurchaseCommitments(n, h) - k
      BY <2>2, <2>5, <2>7, AnswersShift
    <3>2. /\ TrackedBalance(None, n) \in Int /\ RestOf(UpcomingInvoices(None, n, h)) \in Int
          /\ PurchaseCommitments(n, h) \in Int
      BY TrackedIsSum, Expectations DEF TypeInv
    <3>3. /\ Part("tracked", n, h)' = Part("tracked", n, h) + t
          /\ Part("upcoming", n, h)' = Part("upcoming", n, h) + u
          /\ Part("commitments", n, h)' = Part("commitments", n, h) + k
          /\ Part("tracked", n, h) \in Int /\ Part("upcoming", n, h) \in Int
          /\ Part("commitments", n, h) \in Int
      BY <3>1, <3>2 DEF Part
    <3>4. /\ \A q : Shows(q)' = IF q \in overview.left THEN Part(q, n, h)' ELSE overview.part[q]
          /\ \A q : Shows(q) = IF q \in overview.left THEN Part(q, n, h) ELSE overview.part[q]
      BY <2>1, <2>6 DEF Shows
    <3>5. /\ overview.part["tracked"] \in Int /\ overview.part["upcoming"] \in Int
          /\ overview.part["commitments"] \in Int
          /\ overview.asked["tracked"] \in Int /\ overview.asked["upcoming"] \in Int
          /\ overview.asked["commitments"] \in Int
      BY <2>5 DEF OverviewType, Query
    <3>6. PICK x \in {0, t} : Shows("tracked")' = Shows("tracked") + x /\ Shows("tracked") \in Int
      BY <3>3, <3>4, <3>5
    <3>7. PICK y \in {0, u} : Shows("upcoming")' = Shows("upcoming") + y /\ Shows("upcoming") \in Int
      BY <3>3, <3>4, <3>5
    <3>8. PICK z \in {0, k} :
             Shows("commitments")' = Shows("commitments") + z /\ Shows("commitments") \in Int
      BY <3>3, <3>4, <3>5
    <3>9. /\ x + y + z <= Written /\ 0 - (x + y + z) <= Written
          /\ x \in Int /\ y \in Int /\ z \in Int
      BY <3>1 DEF Shift
    <3>10. /\ ProjectedBalance(overview.asked)' = ProjectedBalance(overview.asked)
           /\ ProjectedBalance(overview.asked) \in Int
      BY <2>6, <3>5 DEF ProjectedBalance
    <3>11. Error' = Error + (x + y + z) /\ Error \in Int
      BY <3>6, <3>7, <3>8, <3>9, <3>10 DEF Error
    <3>12. Error <= overview.moved /\ 0 - Error <= overview.moved /\ overview.moved \in Nat
      BY <2>2, <2>5, <2>7 DEF OverviewInv, OverviewType
    <3>13. overview'.moved = overview.moved + Written
      BY <2>6
    <3> QED
      BY <2>4, <3>9, <3>11, <3>12, <3>13
  <2> QED
    BY <2>6, <2>7 DEF OverviewInv
<1> QED
  BY <1>1, <1>2 DEF Watch

\* Reading an overview writes nothing.
LEMMA PagesOnlyRead == PagesSpec => Spec
<1>1. PagesInit => Init
  BY DEF PagesInit
<1>2. [PagesNext]_allVars => [Next]_vars
  BY DEF PagesNext, allVars, OpenOverview, AnswerQuery, CloseOverview
<1> QED
  BY <1>1, <1>2, PTL DEF PagesSpec, Spec

\* An overview that is read while payments are made is off by no more than what is
\* paid meanwhile (of finitely many documents).
THEOREM OverviewIsClose ==
  ASSUME IsFiniteSet(Document)
  PROVE  PagesSpec => []OverviewError
<1>1. PagesInit => OverviewInv
  <2>1. NoPart \in [Query -> Int]
    BY DEF NoPart
  <2>2. Closed \in OverviewType /\ ~ Closed.steady
    BY <2>1 DEF Closed, OverviewType
  <2> QED
    BY <2>2 DEF PagesInit, OverviewInv
<1>2. TypeInv /\ TypeOK' /\ DebtInv /\ OverviewInv /\ [PagesNext]_allVars => OverviewInv'
  <2> SUFFICES ASSUME TypeInv, TypeOK', DebtInv, OverviewInv, [PagesNext]_allVars
               PROVE  OverviewInv'
    OBVIOUS
  <2>t. TypeOK
    BY DEF TypeInv
  <2>1. CASE Next /\ Watch
    BY <2>1, WatchKeepsError
  <2>2. CASE \E horizon \in Horizon : OpenOverview(horizon)
    BY <2>t, <2>2, OpenKeepsError
  <2>3. CASE \E q \in Query : AnswerQuery(q)
    BY <2>t, <2>3, AnswerKeepsError
  <2>4. CASE CloseOverview
    BY <2>4, CloseKeepsError
  <2>5. CASE UNCHANGED allVars
    <3>1. UNCHANGED <<vars, overview>>
      BY <2>5 DEF allVars
    <3>2. PICK n, h : n = overview.now /\ h = overview.horizon
      OBVIOUS
    <3>3. \A q \in Query : Part(q, n, h)' = Part(q, n, h)
      BY <2>t, <3>1, PartStays
    <3>4. \A q \in Query : Shows(q)' = Shows(q)
      BY <3>1, <3>2, <3>3 DEF Shows
    <3>5. ProjectedBalance(overview.asked)' = ProjectedBalance(overview.asked)
      BY <3>1 DEF ProjectedBalance
    <3>6. Error' = Error
      BY <3>4, <3>5 DEF Error, Query
    <3> QED
      BY <3>1, <3>6 DEF OverviewInv
  <2> QED
    BY <2>1, <2>2, <2>3, <2>4, <2>5 DEF PagesNext
<1>3. OverviewInv => OverviewError
  <2> SUFFICES ASSUME OverviewInv, overview.left = {}, overview.steady
               PROVE  LET error == ProjectedBalance(overview.part) - ProjectedBalance(overview.asked)
                      IN  error <= overview.moved /\ 0 - error <= overview.moved
    BY DEF OverviewError
  <2>1. /\ Shows("tracked") = overview.part["tracked"]
        /\ Shows("upcoming") = overview.part["upcoming"]
        /\ Shows("commitments") = overview.part["commitments"]
    BY DEF Shows
  <2>2. Error = ProjectedBalance(overview.part) - ProjectedBalance(overview.asked)
    BY ONLY <2>1 DEF Error, ProjectedBalance
  <2> QED
    BY <2>2 DEF OverviewInv
<1>4. Spec => []DebtInv
  BY DebtInit, DebtStep, TypeInvAlways, PTL DEF Spec
<1>5. Spec => [](TypeInv /\ TypeOK)
  BY TypeInvAlways, TypeCorrect, PTL
<1> QED
  BY <1>1, <1>2, <1>3, <1>4, <1>5, PagesOnlyRead, PTL DEF PagesSpec
===============================================================================

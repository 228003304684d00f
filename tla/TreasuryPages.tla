----------------------------- MODULE TreasuryPages -----------------------------
(***************************************************************************)
(* What the financial pages, the alerts and the dashboard compute from the *)
(* ledger, the documents and the budgets: the overview of a period, the    *)
(* page of a client, the budgets, the alerts of overruns, the reminders of *)
(* overdue invoices and the board of the dashboard.  They write nothing.   *)
(*                                                                         *)
(* An operator is what one query, or one part of an answer, shows.  The    *)
(* projected balance of the overview takes three queries, which the        *)
(* database answers in any order and with payments in between: they are    *)
(* steps of the overview that is being read.  A due date is the midnight   *)
(* that begins its day, so what is due today is due before now.  Documents *)
(* of the same due date come in any order.                                 *)
(***************************************************************************)
EXTENDS Treasury, FiniteSetsExt

CONSTANTS
    Horizon,            \* the horizons of an overview, in days
    AlertLimit,         \* bound: the budgets of an alert (20 in the code)
    ReminderLimit,      \* bound: the invoices of a reminder (20)
    QueueItemLimit,     \* bound: the rows of a lane of the board (8)
    OverdueLimit        \* bound: the overdue invoices of the overview (10)

ASSUME PagesAssumption ==
    Horizon \cup {AlertLimit, ReminderLimit, QueueItemLimit, OverdueLimit} \subseteq Nat

VARIABLE overview   \* the overview that is being read

Entries == DOMAIN ledger
OfClient(cl) == {i \in Entries : cl = None \/ ledger[i].client = cl}
AmountOf(E) == MapThenSumSet(LAMBDA i : ledger[i].amount, E)
Signed(e) == IF e.type = "INCOME" THEN e.amount
             ELSE IF e.type = "EXPENSE" THEN 0 - e.amount ELSE 0
ComputeTrackedBalance(E) == MapThenSumSet(LAMBDA i : Signed(ledger[i]), E)

\* Statuses of the documents that are still to be paid.
Awaited == {"ISSUED", "SENT", "PARTIALLY_PAID", "OVERDUE"}
Committed == {"CONFIRMED", "IN_TRANSIT", "PARTIALLY_RECEIVED"}
Rest(d) == Total[d] - paid[d]
RestOf(D) == MapThenSumSet(Rest, D)

\* The first documents of D by due date, at most limit of them.
FirstDue(D, limit) ==
    {S \in SUBSET D : /\ Cardinality(S) = Min({limit, Cardinality(D)})
                      /\ \A i \in S, j \in D \ S : due[i] <= due[j]}

-----------------------------------------------------------------------------
(* getOverview at the time now; the client None stands for all of them *)

\* Mutant: the entries of the day are left out.
TrackedBefore(cl, now) == ComputeTrackedBalance({i \in OfClient(cl) : ledger[i].date < now})

TrackedBalance(cl, now) == ComputeTrackedBalance({i \in OfClient(cl) : ledger[i].date <= now})

Within(d, now, horizon) == now < due[d] /\ due[d] <= now + horizon

\* Mutant: an invoice paid in part is no longer expected.
UpcomingUnstarted(cl, now, horizon) ==
    {i \in Invoice : /\ Within(i, now, horizon) /\ status[i] \in Awaited \ {"PARTIALLY_PAID"}
                     /\ cl = None \/ ClientOf[i] = cl}

UpcomingInvoices(cl, now, horizon) ==
    {i \in Invoice : /\ Within(i, now, horizon) /\ status[i] \in Awaited
                     /\ cl = None \/ ClientOf[i] = cl}

\* Not narrowed to the client.
PurchaseCommitments(now, horizon) ==
    RestOf({p \in Purchase : Within(p, now, horizon) /\ status[p] \in Committed})

\* What each of the three queries adds to the projected balance.
Part(q, now, horizon) ==
    CASE q = "tracked" -> TrackedBalance(None, now)
      [] q = "upcoming" -> RestOf(UpcomingInvoices(None, now, horizon))
      [] q = "commitments" -> 0 - PurchaseCommitments(now, horizon)
Query == {"tracked", "upcoming", "commitments"}
ProjectedBalance(part) == part["tracked"] + part["upcoming"] + part["commitments"]

\* What is overdue, and what of it the overview shows.
OverdueInvoices(cl) ==
    {i \in Invoice : /\ due[i] <= today /\ status[i] \in Awaited
                     /\ cl = None \/ ClientOf[i] = cl}
OverdueAmounts(cl) == {RestOf(S) : S \in FirstDue(OverdueInvoices(cl), OverdueLimit)}

PeriodEntries(from, to, cl) ==
    {i \in OfClient(cl) : from <= ledger[i].date /\ ledger[i].date <= to}

\* The entries of the overview are read without their date, client and supplier:
\* no comparison with a missing date is true, no missing client is the one asked.
MatchesUndated(b, e) ==
    /\ e.type = b.direction
    /\ b.category \in {None, e.category}
    /\ b.client = None /\ b.supplier = None

OverviewActual(from, to, cl, b) ==
    AmountOf({i \in PeriodEntries(from, to, cl) : MatchesUndated(b, ledger[i])})

-----------------------------------------------------------------------------
(* getClientSummary *)

After(i, j) == ledger[i].date > ledger[j].date \/ (ledger[i].date = ledger[j].date /\ i > j)
Latest(E) == {j \in E : Cardinality({i \in E : After(i, j)}) < Recent}
ClientBalance(cl) == ComputeTrackedBalance(Latest(OfClient(cl)))

ClientOverdueAmount(cl) ==
    LET invoices == {i \in Invoice : ClientOf[i] = cl}
    IN  RestOf({i \in invoices : due[i] <= today /\ status[i] \in Awaited})

-----------------------------------------------------------------------------
(* The dashboard: the lane "to collect" of its board                       *)

Open == {"DRAFT"} \cup Awaited

CollectRows == {i \in Invoice : status[i] \in Open /\ i \notin credit}

\* The lanes the board may show.
ToCollect ==
    {{[id |-> i, overdue |-> due[i] < today, amount |-> Max({0, Rest(i)})] : i \in S} :
        S \in FirstDue(CollectRows, QueueItemLimit)}

-----------------------------------------------------------------------------
(* The budgets, their alerts and the reminders *)

MatchesBudgetEntry(b, e) ==
    /\ e.type = b.direction
    /\ b.start <= e.date /\ e.date <= b.end
    /\ b.category \in {None, e.category}
    /\ b.client \in {None, e.client}
    /\ b.supplier \in {None, e.supplier}

ListBudgets(from, to) == {b \in budget : b.start <= to /\ b.end >= from}

\* Mutant: the entries are read from the last beginning on.
RangeOfLast(B) == Max({b.start : b \in B}) .. Max({b.end : b \in B})

\* The entries of the whole span of the budgets are read at once.
RangeOf(B) == Min({b.start : b \in B}) .. Max({b.end : b \in B})

ListedActual(B, b) ==
    AmountOf({i \in Entries : ledger[i].date \in RangeOf(B) /\ MatchesBudgetEntry(b, ledger[i])})
Variance(B, b) == ListedActual(B, b) - b.amount

\* In hundredths of a percent, rounded half up.
VarianceRate(B, b) == (20000 * Variance(B, b) + b.amount) \div (2 * b.amount)

\* The items an alert may show: the largest overruns, those of the same size in
\* any order.
PreviewBudgetAlerts(from, to, minRate, minVariance, limit) ==
    LET B == ListBudgets(from, to)
        items == {b \in B : /\ b.direction = "EXPENSE" /\ Variance(B, b) > 0
                            /\ VarianceRate(B, b) >= minRate
                            /\ Variance(B, b) >= minVariance}
    IN  {S \in SUBSET items :
            /\ Cardinality(S) = Min({limit, Cardinality(items)})
            /\ \A b \in S, e \in items \ S : Variance(B, b) >= Variance(B, e)}

NotifyBudgetAlerts(from, to) ==
    {{[role |-> r, about |-> b] : r \in {"RESPONSABLE_FINANCIER_STOCKS", "GERANT"}, b \in S} :
        S \in PreviewBudgetAlerts(from, to, 0, 0, AlertLimit)}

\* Mutant: partly paid invoices are not reminded.
RemindUnstarted(minDays) ==
    {i \in Invoice : due[i] <= today - minDays /\ status[i] \in Awaited \ {"PARTIALLY_PAID"}}

ToRemind(minDays) ==
    {i \in Invoice : due[i] <= today - minDays /\ status[i] \in Awaited}

\* The limit is applied before the least amount.
OverdueReminders(minDays, minAmount, limit) ==
    {{i \in S : Rest(i) >= minAmount} : S \in FirstDue(ToRemind(minDays), limit)}

\* One message for each invoice, and a summary for the manager.
NotifyOverdueReminders(minDays, minAmount) ==
    {{[role |-> "RESPONSABLE_FINANCIER_STOCKS", about |-> {i}] : i \in items}
       \cup IF items = {} THEN {} ELSE {[role |-> "GERANT", about |-> items]} :
     items \in OverdueReminders(minDays, minAmount, ReminderLimit)}

-----------------------------------------------------------------------------
(* The overview that is being read *)

allVars == <<vars, overview>>

NoPart == [q \in Query |-> 0]
Closed == [left |-> {}, now |-> 0, horizon |-> 0, part |-> NoPart,
           asked |-> NoPart, moved |-> 0, steady |-> FALSE]

\* asked, moved and steady are history: what each query would have shown when the
\* overview was asked, the sum of the entries written since, and whether nothing
\* but payments has changed the documents.
OpenOverview(horizon) ==
    /\ overview = Closed
    /\ overview' = [left |-> Query, now |-> today, horizon |-> horizon, part |-> NoPart,
                    asked |-> [q \in Query |-> Part(q, today, horizon)],
                    moved |-> 0, steady |-> TRUE]
    /\ UNCHANGED vars

AnswerQuery(q) ==
    /\ q \in overview.left
    /\ overview' = [overview EXCEPT !.left = @ \ {q},
                                    !.part[q] = Part(q, overview.now, overview.horizon)]
    /\ UNCHANGED vars

CloseOverview ==
    /\ overview # Closed /\ overview.left = {}
    /\ overview' = Closed
    /\ UNCHANGED vars

\* A payment that adds to what is there, of a document that stays awaited.
PaysWhatItRead(c) ==
    LET d == call[c].doc IN
    /\ call'[c] # call[c] /\ ledger' # ledger
    /\ call[c].seen = paid[d]
    /\ d \in Invoice => status[d] \in Awaited

\* A step of the others, seen from the overview that is being read.
Watch ==
    overview' = IF overview.left = {} THEN overview ELSE
        [overview EXCEPT
            !.moved = IF ledger' = ledger THEN @ ELSE @ + ledger'[Len(ledger')].amount,
            !.steady = /\ @
                       /\ \/ UNCHANGED <<status, paid, due>>
                          \/ \E c \in Call : PaysWhatItRead(c)]

PagesInit == Init /\ overview = Closed
PagesNext ==
    \/ Next /\ Watch
    \/ \E horizon \in Horizon : OpenOverview(horizon)
    \/ \E q \in Query : AnswerQuery(q)
    \/ CloseOverview

PagesSpec == PagesInit /\ [][PagesNext]_allVars

-----------------------------------------------------------------------------
(* Properties *)

\* A payment turns an expected amount into an entry of the ledger, and an
\* overview reads the ledger, the invoices and the purchase orders by separate
\* queries: what is paid in between is counted twice or not at all.  But it is
\* off by no more than that: the projected balance it shows differs from the one
\* of the moment it was asked by at most the entries written while it was read,
\* in whatever order the answers came, unless a document was edited, marked as
\* paid, or lost a payment meanwhile.
OverviewError ==
    overview.left = {} /\ overview.steady =>
        LET error == ProjectedBalance(overview.part) - ProjectedBalance(overview.asked)
        IN  error <= overview.moved /\ 0 - error <= overview.moved

\* The page of a client and the overview narrowed to this client show the same
\* balance, as long as the client has no more entries than the page shows and
\* none of them is dated in the future (the page does not look at the date).
ClientBalanceAgrees ==
    \A cl \in Client :
       (/\ Cardinality(OfClient(cl)) <= Recent
        /\ \A i \in OfClient(cl) : ledger[i].date <= today)
       => ClientBalance(cl) = TrackedBalance(cl, today)

\* "Les budgets comparent le reel a partir des ecritures du journal": whichever
\* period is asked, the alerts are the expense budgets of the period on which
\* more was spent than planned according to the entries of the whole ledger, all
\* of them or the worst, as many as an alert shows; and the overview of the
\* period of a budget that is tied to no client and to no supplier shows the
\* actual amount the list of budgets shows.
AlertsFollowTheLedger ==
    /\ \A from \in Day : \A to \in from .. LastDay :
          LET Spent(b) == AmountOf({i \in Entries : MatchesBudgetEntry(b, ledger[i])})
              overruns == {b \in budget : /\ b.direction = "EXPENSE"
                                          /\ b.start .. b.end \cap from .. to # {}
                                          /\ Spent(b) > b.amount}
          IN  \A messages \in NotifyBudgetAlerts(from, to) :
                LET shown == {n.about : n \in messages} IN
                /\ shown \subseteq overruns
                /\ shown # overruns => Cardinality(shown) = AlertLimit
                /\ \A b \in shown, e \in overruns \ shown :
                      Spent(b) - b.amount >= Spent(e) - e.amount
    /\ \A b \in budget : b.client = None /\ b.supplier = None =>
          OverviewActual(b.start, b.end, None, b) = ListedActual({b}, b)

\* As many documents of D as fit on a page are due no later than i.
Crowded(i, D, limit) == Cardinality({j \in D \ {i} : due[j] <= due[i]}) >= limit

\* Overlapping payments may leave an invoice with less than what was collected,
\* but no debt is forgotten: unless its status was set by hand or it is a credit
\* note, an invoice that is due and not collected in full is reminded for at least
\* the rest and the board shows it with at least that amount, unless the page is
\* full of invoices that are due no later; the page of its client counts it; and
\* the overview shows the amount the page shows, when all of them fit.
DebtIsReminded ==
    \A i \in Invoice \ (declared \cup credit) :
       LET rest == Total[i] - booked[i]
           cl == ClientOf[i]
       IN  due[i] <= today /\ rest > 0 =>
              /\ \A days \in 0 .. today - due[i] :
                    \A messages \in NotifyOverdueReminders(days, rest) :
                       \/ [role |-> "RESPONSABLE_FINANCIER_STOCKS", about |-> {i}] \in messages
                       \/ Crowded(i, ToRemind(days), ReminderLimit)
              /\ \A items \in ToCollect :
                    \/ \E item \in items :
                          /\ item.id = i /\ item.amount >= rest
                          /\ item.overdue <=> due[i] < today
                    \/ Crowded(i, CollectRows, QueueItemLimit)
              /\ ClientOverdueAmount(cl) >= rest
              /\ Cardinality(OverdueInvoices(cl)) <= OverdueLimit =>
                    OverdueAmounts(cl) = {ClientOverdueAmount(cl)}
===============================================================================

--------------------------- MODULE ProductionPlanning ---------------------------
(***************************************************************************)
(* The dates of production orders and of their stages: what creating,      *)
(* editing and planning write, and the two pages computed from them: the   *)
(* load of the workshop per stage and day (ProductionOrdersService) and    *)
(* the calendar (DashboardService).                                        *)
(*                                                                         *)
(* Time is counted in ticks of the server's local time, DayLength to a     *)
(* day; day 0 begins at tick 0 and the days of the model are those of one  *)
(* month.  Offset is how far local time is ahead of UTC.  A status is      *)
(* "ACTIVE" for PLANNED, PREPARATION and IN_PROGRESS.                      *)
(***************************************************************************)
EXTENDS Integers, FiniteSets

CONSTANTS
    Order,          \* production orders
    StageCount,     \* PRODUCTION_STAGES_ORDERED.length
    DayLength, LastDay, Offset,
    OrderInput,     \* what an order is created with: [status, start, end], with Null
    OrderBody,      \* the body of a PATCH: [status, start, end], with Keep
    StageBody,      \* what is sent for a stage: [stage, from, to], with Null or Keep
    LastCreation,   \* bound: nothing is created after this moment
    MaxEdits,       \* bound: edits of what is in the workshop
    Null,           \* null, and a query parameter that is not given
    Keep            \* a field missing from a body

Day == 0 .. LastDay
LastTick == (LastDay + 1) * DayLength - 1
Moment == 0 .. LastTick
Stage == 1 .. StageCount
OrderStatus == {"ACTIVE", "COMPLETED", "CANCELLED"}
Stretch == [from : Moment \cup {Null}, to : Moment \cup {Null}]
OrderRow == [status : OrderStatus, start : Moment \cup {Null}, end : Moment \cup {Null},
             plan : [Stage -> Stretch]]

ASSUME PlanningAssumption ==
    /\ StageCount \in Nat \ {0} /\ DayLength \in Nat \ {0} /\ LastDay \in Nat
    /\ Offset \in 1 - DayLength .. DayLength - 1
    /\ LastCreation \in Nat /\ MaxEdits \in Nat
    /\ Null \notin Int /\ Null \notin OrderRow
    /\ OrderInput \subseteq [status : OrderStatus, start : Moment \cup {Null},
                             end : Moment \cup {Null}]
    /\ OrderBody \subseteq [status : OrderStatus \cup {Keep}, start : Moment \cup {Keep},
                            end : Moment \cup {Keep}]
    /\ StageBody \subseteq [stage : Stage, from : Moment \cup {Null, Keep}, to : Moment \cup {Null, Keep}]

VARIABLES
    now,     \* the clock of the server
    order,   \* Order -> OrderRow, Null before it is created
    edits    \* the edits there were

planningVars == <<now, order, edits>>

DayOf(t) == t \div DayLength
DayStart(d) == d * DayLength
DayEnd(d) == DayStart(d) + DayLength - 1

Created == {o \in Order : order[o] # Null}

PlanningInit == now = 0 /\ order = [o \in Order |-> Null] /\ edits = 0

-----------------------------------------------------------------------------
(* What the routes write *)

\* Mutant: each segment ends a tick before the next begins.
DistributeApart(start, end) ==
    [i \in Stage |->
        IF start = Null \/ end = Null THEN [from |-> Null, to |-> Null]
        ELSE IF end <= start THEN [from |-> Null, to |-> Null]
        ELSE [from |-> start + ((i - 1) * (end - start)) \div StageCount,
              to |-> start + (i * (end - start)) \div StageCount - 1]]

\* The period of an order is cut in equal segments, in milliseconds that the
\* dates truncate; an order without a period has stages without dates.
DistributeStageDates(start, end) ==
    [i \in Stage |->
        IF start = Null \/ end = Null THEN [from |-> Null, to |-> Null]
        ELSE IF end <= start THEN [from |-> Null, to |-> Null]
        ELSE [from |-> start + ((i - 1) * (end - start)) \div StageCount,
              to |-> start + (i * (end - start)) \div StageCount]]

Create(o, dto) ==
    /\ order[o] = Null /\ now <= LastCreation
    /\ order' = [order EXCEPT ![o] = [status |-> dto.status, start |-> dto.start,
                                      end |-> dto.end,
                                      plan |-> DistributeStageDates(dto.start, dto.end)]]
    /\ UNCHANGED <<now, edits>>

Patched(old, new) == IF new = Keep THEN old ELSE new

\* PATCH: a date can be changed and not cleared, and the stages keep theirs.  The
\* progress and the consumption of an order write no other statuses than these.
Update(o, body) ==
    /\ o \in Created /\ edits < MaxEdits
    /\ order' = [order EXCEPT ![o].status = Patched(@, body.status),
                              ![o].start = Patched(@, body.start),
                              ![o].end = Patched(@, body.end)]
    /\ edits' = edits + 1
    /\ UNCHANGED now

\* Only dates given together are compared: null clears one, a missing one stays.
UpsertRefused(body) ==
    body.from \notin {Null, Keep} /\ body.to \notin {Null, Keep} /\ body.from > body.to

UpsertStage(o, body) ==
    /\ o \in Created /\ edits < MaxEdits /\ ~UpsertRefused(body)
    /\ order' = [order EXCEPT ![o].plan[body.stage].from = Patched(@, body.from),
                              ![o].plan[body.stage].to = Patched(@, body.to)]
    /\ edits' = edits + 1
    /\ UNCHANGED now

-----------------------------------------------------------------------------
(* GET production-orders/planning *)

\* A date given is a local day; without dates the page is that of the month.
PlanningFrom(from) == IF from = Null THEN DayStart(0) ELSE DayStart(from)
PlanningTo(to) == IF to = Null THEN DayEnd(LastDay) ELSE DayEnd(to)
PlanningRefused(from, to) == PlanningFrom(from) > PlanningTo(to)
EnumerateDays(from, to) == DayOf(PlanningFrom(from)) .. DayOf(PlanningTo(to))

Overlaps(p, from, to) ==
    p.from # Null /\ p.to # Null /\ p.from <= to /\ p.to >= from

InPlanning(o, s, from, to) ==
    /\ order[o].status # "CANCELLED"
    /\ Overlaps(order[o].plan[s], PlanningFrom(from), PlanningTo(to))

\* The orders that count in the load of a stage on a day of the page.
LoadedBy(from, to, s, d) ==
    {o \in Created : /\ InPlanning(o, s, from, to)
                     /\ Overlaps(order[o].plan[s], DayStart(d), DayEnd(d))}
Load(from, to) ==
    [s \in Stage |-> [d \in EnumerateDays(from, to) |-> Cardinality(LoadedBy(from, to, s, d))]]

-----------------------------------------------------------------------------
(* GET dashboard/planning-calendar: its production events *)

\* The date given is read as midnight UTC, then moved to the ends of its local day.
LocalDayOf(d) == DayOf(DayStart(d) + Offset)

\* A range the wrong way round is replaced by the default, as missing dates are.
CalendarRange(from, to) ==
    LET today == DayOf(now)
        first == IF from = Null THEN today - 15 ELSE LocalDayOf(from)
        last == IF to = Null THEN today + 90 ELSE LocalDayOf(to)
    IN  IF DayStart(first) > DayEnd(last) THEN DayStart(today - 15) .. DayEnd(today + 90)
        ELSE DayStart(first) .. DayEnd(last)

\* Orders of every status that begin or end in the range, at their beginning.
ProductionEvents(from, to) ==
    LET range == CalendarRange(from, to)
        found == {o \in Created : order[o].start \in range \/ order[o].end \in range}
    IN  {[entityId |-> o, date |-> order[o].start] : o \in {o \in found : order[o].start # Null}}

-----------------------------------------------------------------------------
\* Orders, stages and the clock keep their types.
PlanningTypeOK ==
    /\ now \in Moment
    /\ order \in [Order -> OrderRow \cup {Null}]
    /\ edits \in Nat

\* An order planned as it was distributed over its dates.
AsDistributed(o) ==
    /\ order[o].start # Null /\ order[o].end # Null /\ order[o].start < order[o].end
    /\ order[o].plan = DistributeStageDates(order[o].start, order[o].end)

EveryRangeAgrees ==
    \A from, to \in Day \cup {Null} : ~PlanningRefused(from, to) =>
        \A s \in Stage, d \in EnumerateDays(from, to) :
            Load(from, to)[s][d] = Load(d, d)[s][d]

DaysCovered(o) ==
    LET days(s) == {d \in Day : o \in LoadedBy(Null, Null, s, d)}
        shown(d) == \E e \in ProductionEvents(d, d) : e.entityId = o
        first == DayOf(order[o].start)
        last == DayOf(order[o].end)
    IN  /\ UNION {days(s) : s \in Stage} = first .. last
        /\ \A s \in Stage \ {StageCount} : days(s) \cap days(s + 1) # {}
        /\ \A d \in Day : shown(d) <=> d \in {first, last}

\* After every write, the page of any range shows the load the page of a single
\* day shows, whatever stages were planned; and an order that is not cancelled
\* and is planned as distributed loads every day from its first to its last and
\* no other, its consecutive stages sharing a day, and the calendar shows it on
\* the first and on the last of these days (getPlanning, distributeStageDates,
\* loadProductionCalendarEvents).
PlanningCoversOrders ==
    [][order' # order =>
          /\ EveryRangeAgrees'
          /\ \A o \in Order :
                (o \in Created /\ AsDistributed(o) /\ order[o].status # "CANCELLED" => DaysCovered(o))'
      ]_planningVars
=================================================================================

----------------------------- MODULE WorkshopBoard -----------------------------
(***************************************************************************)
(* The dashboard and its queue of the workshop (DashboardService), with    *)
(* the two caches they fill: three lanes with due dates, to produce, to    *)
(* deliver and to collect, the number of late items, and the alert of      *)
(* production behind its planning.  The queries of a page run one by one,  *)
(* in any order, while the items of the lanes are edited.                  *)
(*                                                                         *)
(* A delivery or an invoice is what the lanes read of it: whether its      *)
(* status is one of its lane, and its due date.  The dashboard is that of  *)
(* one number of days: each number has a cache entry of its own.           *)
(***************************************************************************)
EXTENDS ProductionPlanning, FiniteSetsExt

CONSTANTS
    DeliveryNote, Invoice,
    DocInput,         \* what a delivery or an invoice is created with: [open, due]
    DocBody,          \* what a later write sets: [open, due], with Keep
    Request,          \* simultaneous requests of the two routes
    QueueItemLimit,   \* QUEUE_ITEM_LIMIT
    Ttl,              \* CACHE_TTL_MS.dashboard, in ticks
    MaxDuration       \* bound: the ticks a request may take

VARIABLES
    doc,          \* Doc -> [open, due], Null before it is created
    unedited,     \* history: ticks since an item was last written, at most Old
    unlate,       \* history: ticks since an edit ended its lateness, at most Old
    queueCache,   \* the entry of the queue, [value : [overdue, rows], until], or Null
    boardCache,   \* the entry of the dashboard, [value : [queue, behind], until], or Null
    request,      \* Request -> [route, started, reads, today, partial, queue, behind]
                  \* or Null
    shown         \* the answer the last step has given, or Null

items == <<order, doc, edits, unedited, unlate>>
boardVars == <<planningVars, doc, unedited, unlate, queueCache, boardCache, request, shown>>

Doc == DeliveryNote \cup Invoice
Item == Order \cup Doc
Of(lane) == CASE lane = "toProduce" -> Order [] lane = "toDeliver" -> DeliveryNote
              [] lane = "toCollect" -> Invoice
DocRow == [open : BOOLEAN, due : Moment \cup {Null}]
QueueValue == [overdue : Nat, rows : SUBSET [id : Item, overdue : BOOLEAN]]
\* A lane whose table is empty reads nothing.
Lane == {lane \in {"toProduce", "toDeliver", "toCollect"} : Of(lane) # {}}

ASSUME BoardAssumption ==
    /\ QueueItemLimit \in Nat \ {0} /\ Ttl \in Nat /\ MaxDuration \in Nat
    /\ DocInput \subseteq DocRow
    /\ DocBody \subseteq [open : BOOLEAN, due : Moment \cup {Keep}]
    /\ Order \cap Doc = {} /\ DeliveryNote \cap Invoice = {} /\ IsFiniteSet(Item)
    /\ Null \notin Order /\ Null \notin QueueValue

Row(i) == IF i \in Order THEN order[i] ELSE doc[i]
DueOf(i) == IF i \in Order THEN order[i].end ELSE doc[i].due
IsOpen(i) == /\ Row(i) # Null
             /\ IF i \in Order THEN order[i].status = "ACTIVE" ELSE doc[i].open
DueBefore(i, t) == IsOpen(i) /\ DueOf(i) # Null /\ DueOf(i) < t

StartOfDay(t) == DayStart(DayOf(t))
Late(i, t) == DueBefore(i, StartOfDay(t))

\* How old the dashboard may be, and a tick more.
Old == 2 * (Ttl + MaxDuration) + 1

BoardInit ==
    /\ PlanningInit
    /\ doc = [d \in Doc |-> Null]
    /\ unedited = [i \in Item |-> Old] /\ unlate = [i \in Item |-> Old]
    /\ queueCache = Null /\ boardCache = Null
    /\ request = [c \in Request |-> Null]
    /\ shown = Null

-----------------------------------------------------------------------------
(* What is written while the pages are read *)

Noted(i) ==
    /\ unedited' = [unedited EXCEPT ![i] = 0]
    /\ unlate' = [unlate EXCEPT ![i] = IF Late(i, now) THEN 0 ELSE @]
    /\ shown' = Null
    /\ UNCHANGED <<queueCache, boardCache, request>>

CreateOrder ==
    \E o \in Order, dto \in OrderInput : Create(o, dto) /\ Noted(o) /\ UNCHANGED doc

EditOrder ==
    \E o \in Order :
        /\ \/ \E body \in OrderBody : Update(o, body)
           \/ \E body \in StageBody : UpsertStage(o, body)
        /\ Noted(o) /\ UNCHANGED doc

CreateDoc ==
    \E d \in Doc, dto \in DocInput :
        /\ doc[d] = Null /\ now <= LastCreation
        /\ doc' = [doc EXCEPT ![d] = dto]
        /\ Noted(d) /\ UNCHANGED planningVars

\* PATCH of a delivery or an invoice, a delivery marked, a payment: the status
\* may leave the lane or come back, the date may be changed and not cleared.
EditDoc ==
    \E d \in Doc, body \in DocBody :
        /\ doc[d] # Null /\ edits < MaxEdits
        /\ doc' = [doc EXCEPT ![d] = [open |-> body.open, due |-> Patched(@.due, body.due)]]
        /\ edits' = edits + 1
        /\ Noted(d) /\ UNCHANGED <<now, order>>

-----------------------------------------------------------------------------
(* The caches *)

Live(entry) == entry # Null /\ now <= entry.until

\* Mutant: the time to live is given in another unit.
StoredTooLong(value) == [value |-> value, until |-> now + 10 * (Ttl + 1)]

Stored(value) == [value |-> value, until |-> now + Ttl]

Answer(c, route, value) ==
    /\ request' = [request EXCEPT ![c] = Null]
    /\ shown' = [route |-> route, value |-> value]

-----------------------------------------------------------------------------
(* The two routes *)

\* The reads a request awaits: the cache of the queue, the alert, and the two
\* queries of each lane.
FromCache == <<"queue", "cache">>
Behind == <<"alerts", "behind">>
Queries == Lane \X {"rows", "count"}

EmptyQueue == [overdue |-> 0, rows |-> {}]
NewRequest(route, reads) ==
    [route |-> route, started |-> now, reads |-> reads, today |-> Null,
     partial |-> EmptyQueue, queue |-> Null, behind |-> Null]

GetDashboard(c) ==
    /\ request[c] = Null
    /\ \/ /\ Live(boardCache)
          /\ Answer(c, "dashboard", boardCache.value)
       \/ /\ ~Live(boardCache)
          /\ request' = [request EXCEPT ![c] = NewRequest("dashboard", {FromCache, Behind})]
          /\ shown' = Null
    /\ UNCHANGED <<now, items, queueCache, boardCache>>

GetQueue(c) ==
    /\ request[c] = Null
    /\ request' = [request EXCEPT ![c] = NewRequest("queue", {FromCache})]
    /\ shown' = Null
    /\ UNCHANGED <<now, items, queueCache, boardCache>>

Running == {c \in Request : request[c] # Null}
Awaits(c, read) == c \in Running /\ read \in request[c].reads

\* The beginning of getWorkshopQueue: its cache, or the day and the queries.
OpenQueue(c) ==
    /\ Awaits(c, FromCache)
    /\ \/ /\ Live(queueCache) /\ request[c].route = "queue"
          /\ Answer(c, "queue", queueCache.value)
       \/ /\ Live(queueCache) /\ request[c].route = "dashboard"
          /\ request' = [request EXCEPT ![c].queue = queueCache.value,
                                        ![c].reads = @ \ {FromCache}]
          /\ shown' = Null
       \/ /\ ~Live(queueCache)
          /\ request' = [request EXCEPT ![c].today = StartOfDay(now),
                                        ![c].reads = (@ \ {FromCache}) \cup Queries]
          /\ shown' = Null
    /\ UNCHANGED <<now, items, queueCache, boardCache>>

\* Due dates in ascending order, those without one last.
ComesBefore(i, j) == DueOf(i) # Null /\ (DueOf(j) = Null \/ DueOf(i) < DueOf(j))
FirstOf(S, n) ==
    {R \in SUBSET S : /\ Cardinality(R) = Min({n, Cardinality(S)})
                      /\ \A i \in R, j \in S \ R : ~ComesBefore(j, i)}

ReadRows(c, lane) ==
    /\ Awaits(c, <<lane, "rows">>)
    /\ \E R \in FirstOf({i \in Of(lane) : IsOpen(i)}, QueueItemLimit) :
          request' = [request EXCEPT
              ![c].reads = @ \ {<<lane, "rows">>},
              ![c].partial.rows =
                  @ \cup {[id |-> i, overdue |-> DueBefore(i, request[c].today)] : i \in R}]
    /\ shown' = Null
    /\ UNCHANGED <<now, items, queueCache, boardCache>>

ReadOverdue(c, lane) ==
    /\ Awaits(c, <<lane, "count">>)
    /\ request' = [request EXCEPT
           ![c].reads = @ \ {<<lane, "count">>},
           ![c].partial.overdue =
               @ + Cardinality({i \in Of(lane) : DueBefore(i, request[c].today)})]
    /\ shown' = Null
    /\ UNCHANGED <<now, items, queueCache, boardCache>>

\* The end of getWorkshopQueue.
FillQueue(c) ==
    /\ request[c] # Null /\ request[c].queue = Null
    /\ request[c].reads \subseteq {Behind}
    /\ queueCache' = Stored(request[c].partial)
    /\ IF request[c].route = "queue" THEN Answer(c, "queue", request[c].partial)
       ELSE /\ request' = [request EXCEPT ![c].queue = request[c].partial,
                                          ![c].partial = EmptyQueue, ![c].today = Null]
            /\ shown' = Null
    /\ UNCHANGED <<now, items, boardCache>>

\* getAlerts: the order whose end was the longest past when the request began.
ReadBehind(c) ==
    /\ Awaits(c, Behind)
    /\ \E R \in FirstOf({o \in Order : DueBefore(o, request[c].started)}, 1) :
          \E behind \in (IF R = {} THEN {Null} ELSE R) :
             request' = [request EXCEPT ![c].reads = @ \ {Behind}, ![c].behind = behind]
    /\ shown' = Null
    /\ UNCHANGED <<now, items, queueCache, boardCache>>

\* The end of getDashboard.
FillDashboard(c) ==
    /\ request[c] # Null /\ request[c].route = "dashboard"
    /\ request[c].reads = {} /\ request[c].queue # Null
    /\ LET value == [queue |-> request[c].queue, behind |-> request[c].behind]
       IN  boardCache' = Stored(value) /\ Answer(c, "dashboard", value)
    /\ UNCHANGED <<now, items, queueCache>>

-----------------------------------------------------------------------------
Aged(history) == [i \in Item |-> Min({history[i] + 1, Old})]
Evicted(entry) == IF entry # Null /\ entry.until <= now THEN Null ELSE entry

\* The clock; it does not outrun a request by more than MaxDuration.
Tick ==
    /\ now < LastTick
    /\ \A c \in Running : now - request[c].started < MaxDuration
    /\ now' = now + 1
    /\ unedited' = Aged(unedited) /\ unlate' = Aged(unlate)
    /\ queueCache' = Evicted(queueCache) /\ boardCache' = Evicted(boardCache)
    /\ shown' = Null
    /\ UNCHANGED <<order, doc, edits, request>>

\* A restart ends the requests; the caches are lost, or kept by Redis.
Restart ==
    /\ Running # {}
    /\ request' = [c \in Request |-> Null]
    /\ \/ queueCache' = Null /\ boardCache' = Null
       \/ UNCHANGED <<queueCache, boardCache>>
    /\ shown' = Null
    /\ UNCHANGED <<now, items>>

Page(c) ==
    \/ GetDashboard(c) \/ GetQueue(c) \/ OpenQueue(c) \/ ReadBehind(c)
    \/ FillQueue(c) \/ FillDashboard(c)
    \/ \E lane \in Lane : ReadRows(c, lane) \/ ReadOverdue(c, lane)

BoardNext ==
    \/ CreateOrder \/ EditOrder \/ CreateDoc \/ EditDoc
    \/ \E c \in Request : Page(c)
    \/ Tick \/ Restart

BoardSpec == BoardInit /\ [][BoardNext]_boardVars

-----------------------------------------------------------------------------
LateThroughout(i, age) == now >= age /\ Late(i, now - age) /\ unedited[i] > age
LateLately(i, age) == Late(i, now) \/ unlate[i] <= age

QueueFollows(value, age) ==
    LET throughout == {i \in Item : LateThroughout(i, age)}
        lately == {i \in Item : LateLately(i, age)}
        late == {r.id : r \in {r \in value.rows : r.overdue}}
    IN  /\ Cardinality(throughout) <= value.overdue /\ value.overdue <= Cardinality(lately)
        /\ late \subseteq lately
        /\ \A lane \in Lane :
              \/ throughout \cap Of(lane) \subseteq late
              \/ Cardinality(late \cap Of(lane)) = QueueItemLimit

\* What the queue and the dashboard answer is no older than their caches and
\* requests together allow: the number of late items is at least that of the items
\* late throughout that time and at most that of the items late at some moment
\* of it, a row is marked late only if its item was, a lane leaves a late item
\* out only when it is full of late ones, and a production order late
\* throughout raises the alert.  The queue may be one entry old; the dashboard
\* caches a queue that may itself come from a cache
\* (getDashboard, getWorkshopQueue, getAlerts).
DashboardFollowsTheWorkshop ==
    shown # Null =>
        IF shown.route = "queue" THEN QueueFollows(shown.value, Ttl + MaxDuration)
        ELSE /\ QueueFollows(shown.value.queue, 2 * (Ttl + MaxDuration))
             /\ (\E o \in Order : LateThroughout(o, Ttl + MaxDuration)) => shown.value.behind # Null
===============================================================================

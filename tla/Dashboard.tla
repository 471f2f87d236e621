----------------------------- MODULE Dashboard -----------------------------
(***************************************************************************)
(* The cards of the desk's dashboard (dashboard.service.ts): numbers and   *)
(* lists taken from many tables, kept in Redis under keys that expire, and *)
(* the end-of-day report, which is made of the same numbers.               *)
(***************************************************************************)
EXTENDS Integers, FiniteSets, Handling

CONSTANTS
    Rows,       \* the rows the cards count; a larger number is a later createdAt
    TableOf,    \* the table of each
    Mixed,      \* what was put together of answers of several moments
    ReportDates, \* dates of reports
    Each, Most, \* limits of the alerts: 8 of a table, 20 in all
    Few,        \* limit of the unassigned clients: 12
    TTL,        \* CACHE_TTL_SECONDS
    MaxChanges, MaxViews    \* bounds: changes of rows, requests

StatesOf == [bookings |-> {"unassigned", "assigned"}, tasks |-> {"open", "urgent"},
             edits |-> {"pending"}, sos |-> {"active"}, drivers |-> {"en_route", "available"},
             items |-> {"todo", "doing", "done"},
             payments |-> {"paid", "cash", "paid today", "cash today"}]
States == {"out"} \cup (UNION {StatesOf[t] : t \in DOMAIN StatesOf})
ASSUME DashboardAssumption ==
    /\ Rows \subseteq Nat /\ IsFiniteSet(Rows)
    /\ TableOf \in [Rows -> DOMAIN StatesOf]
    /\ Each \in Nat /\ Most \in Nat /\ Few \in Nat
    /\ TTL \in Nat \ {0} /\ MaxChanges \in Nat /\ MaxViews \in Nat

VARIABLES
    now,        \* what each row is: "out" when no card counts it
    changes,    \* how many changes there were
    views,      \* how many requests
    card,       \* the payload under each key, or None
    age,        \* ticks since it was set
    calm,       \* history: no row has changed since its computing began
    settled,    \* history: ticks without a change or a call that had seen one
    report,     \* rows of table eod_reports by date
    view        \* the request each handler is serving

cardVars == <<card, age, calm>>
dashboardVars == <<now, changes, views, cardVars, settled, report, view>>

\* The schedule of tomorrow has a key and rows of its own, like today's.
Cards == {"overview", "summary", "alerts", "schedule"}
\* moments is what the rows were at each moment since the call began.
View == [step: {"idle", "read", "set", "insert", "drop", "send"},
         of: Cards \cup {"report"}, day: ReportDates \cup {None}, left: SUBSET Cards]
Opened(step, of, day, moments) ==
    [step |-> step, of |-> of, day |-> day, left |-> {}, moments |-> moments, got |-> None]
NoView == Opened("idle", "report", None, {})

-----------------------------------------------------------------------------
(* What the cards say. A sum of amounts is the number of the rows it sums. *)

In(rows, states) == {r \in Rows : rows[r] \in states}
HowMany(rows, states) == Cardinality(In(rows, states))
Newest(S, n) == {r \in S : Cardinality({s \in S : s > r}) < n}
Earliest(S, n) == {r \in S : Cardinality({s \in S : s < r}) < n}
Table(t) == {r \in Rows : TableOf[r] = t}

\* The answers of all queries; they are sent together, each has its own moment.
Answers(rows) ==
    [activeClients |-> HowMany(rows, StatesOf.bookings),
     unassignedClients |-> HowMany(rows, {"unassigned"}),
     urgentTasks |-> HowMany(rows, {"urgent"}),
     openTasks |-> HowMany(rows, StatesOf.tasks),
     pendingEdits |-> HowMany(rows, StatesOf.edits),
     activeSos |-> HowMany(rows, StatesOf.sos),
     driversInField |-> HowMany(rows, {"en_route"}),
     revenueToday |-> HowMany(rows, {"paid today", "cash today"}),
     revenueTotal |-> HowMany(rows, StatesOf.payments),
     cashTotal |-> HowMany(rows, {"cash", "cash today"}),
     todaysItinerary |-> HowMany(rows, StatesOf.items),
     todaysDone |-> HowMany(rows, {"done"}),
     sosAlerts |-> Newest(In(rows, StatesOf.sos), Each),
     urgentList |-> Newest(In(rows, {"urgent"}), Each),
     editList |-> Newest(In(rows, StatesOf.edits), Each),
     unassigned |-> Earliest(In(rows, {"unassigned"}), Few),
     drivers |-> [r \in Table("drivers") |-> rows[r]],
     items |-> [r \in Table("items") |-> rows[r]]]
Counters == {"activeClients", "unassignedClients", "urgentTasks", "pendingEdits",
             "activeSos", "driversInField", "revenueToday", "revenueTotal", "cashTotal",
             "todaysItinerary"}

\* Math.round of the percentage.
Progress(done, all) == IF all > 0 THEN (200 * done + all) \div (2 * all) ELSE 0
\* computeSummary: an urgent task is in the queue as an open one and again.
Summary(a) ==
    [counts |-> [q \in Counters |-> a[q]],
     itineraryProgress |-> Progress(a.todaysDone, a.todaysItinerary),
     opsQueue |-> a.pendingEdits + a.openTasks + a.urgentTasks]
\* computeUrgentAlerts: the newest of three lists, whatever their severity.
Alerts(a) == Newest(a.sosAlerts \cup a.urgentList \cup a.editList, Most)
Overview(a) == [summary |-> Summary(a), alerts |-> Alerts(a),
                unassigned |-> a.unassigned, drivers |-> a.drivers]
Payload(c, a) == CASE a = Mixed -> Mixed
                   [] c = "overview" -> Overview(a)
                   [] c = "alerts" -> Alerts(a)
                   [] c = "schedule" -> a.items
                   [] OTHER -> Summary(a)
Says(c) == Payload(c, Answers(now))

-----------------------------------------------------------------------------

DashboardInit ==
    /\ now \in [Rows -> States]
    /\ \A r \in Rows : now[r] \in StatesOf[TableOf[r]] \cup {"out"}
    /\ changes = 0 /\ views = 0
    /\ card = [c \in Cards |-> None]
    /\ age = [c \in Cards |-> 0]
    /\ calm = [c \in Cards |-> TRUE]
    /\ settled = 0
    /\ report = [d \in ReportDates |-> None]
    /\ view = [h \in Handlers |-> NoView]

ViewIs(h, call) == view' = [view EXCEPT ![h] = call]
ViewEnds(h) == ViewIs(h, NoView)
Opens(h, call) ==
    /\ view[h] = NoView /\ views < MaxViews
    /\ views' = views + 1
    /\ ViewIs(h, call)
    /\ UNCHANGED <<now, changes, cardVars, settled, report>>
SawChange(h) == view[h].step \in {"read", "set", "insert"} /\ view[h].moments # {now}


\* Any other service writes a row, or the day goes on.
RowChanges(r) ==
    /\ changes < MaxChanges /\ changes' = changes + 1
    /\ \E s \in StatesOf[TableOf[r]] \cup {"out"} :
          now[r] # s /\ now' = [now EXCEPT ![r] = s]
    /\ view' = [h \in Handlers |-> IF view[h].step \notin {"read", "set", "insert"} THEN view[h]
                                  ELSE [view[h] EXCEPT !.moments = @ \cup {now'}]]
    /\ calm' = [c \in Cards |-> card[c] = None]
    /\ settled' = 0
    /\ UNCHANGED <<views, card, age, report>>

\* NeverExpires forgets to.
NeverExpires(c) == FALSE
Expires(c) == age[c] + 1 >= TTL
Tick ==
    /\ card' = [c \in Cards |-> IF Expires(c) THEN None ELSE card[c]]
    /\ age' = [c \in Cards |-> IF card'[c] = None THEN 0 ELSE age[c] + 1]
    /\ calm' = [c \in Cards |-> card'[c] = None \/ calm[c]]
    /\ settled' = IF \E h \in Handlers : SawChange(h) /\ view[h].of # "report" THEN 0
                  ELSE IF settled < TTL THEN settled + 1 ELSE TTL
    /\ UNCHANGED <<now, changes, views, report, view>>

\* A card is served from its key if it is there, or else computed.
OpenCard(h, c) ==
    /\ card[c] = None
    /\ Opens(h, Opened("read", c, None, {now}))

\* createEodReport: the numbers are computed, not taken from a key.
CreateReport(h, d) ==
    /\ report[d] = None
    /\ Opens(h, Opened("read", "report", d, {now}))

\* Each query is answered at some moment of the call. What is put together of several
\* moments is Mixed, one value for all that it can be: nothing is said of it.
Compute(h) ==
    LET call == view[h]
    IN /\ call.step = "read"
       /\ \E got \in {Answers(m) : m \in call.moments}
                    \cup (IF call.moments = {now} THEN {} ELSE {Mixed}) :
             ViewIs(h, [call EXCEPT
                !.step = IF call.of = "report" THEN "insert" ELSE "set",
                !.left = CASE call.of = "report" -> {}
                           [] call.of = "overview" -> Cards \ {"schedule"}
                           [] OTHER -> {call.of},
                !.got = got])
       /\ UNCHANGED <<now, changes, views, cardVars, settled, report>>

\* The keys are set together, in any order.
SetKey(h, c) ==
    LET call == view[h]
    IN /\ call.step = "set" /\ c \in call.left
       /\ card' = [card EXCEPT ![c] = Payload(c, call.got)]
       /\ age' = [age EXCEPT ![c] = 0]
       /\ calm' = [calm EXCEPT ![c] = ~SawChange(h)]
       /\ ViewIs(h, IF call.left = {c} THEN NoView
                    ELSE [call EXCEPT !.left = @ \ {c}])
       /\ UNCHANGED <<now, changes, views, settled, report>>

\* The date is unique: the second of two fails. calm and truth are history.
InsertReport(h) ==
    LET call == view[h]
    IN /\ call.step = "insert"
       /\ IF report[call.day] # None THEN ViewEnds(h) /\ UNCHANGED report
          ELSE /\ report' = [report EXCEPT ![call.day] =
                                [content |-> Payload("summary", call.got),
                                 truth |-> Says("summary"), calm |-> ~SawChange(h),
                                 sent |-> FALSE]]
               /\ ViewIs(h, Opened("drop", "report", None, {}))
       /\ UNCHANGED <<now, changes, views, cardVars, settled>>

\* invalidateDashboardCache, whose only caller this is.
DropKeys(h) ==
    LET dropped == Cards \ {"schedule"}
    IN /\ view[h].step = "drop"
       /\ card' = [c \in Cards |-> IF c \in dropped THEN None ELSE card[c]]
       /\ age' = [c \in Cards |-> IF c \in dropped THEN 0 ELSE age[c]]
       /\ calm' = [c \in Cards |-> c \in dropped \/ calm[c]]
       /\ ViewEnds(h)
       /\ UNCHANGED <<now, changes, views, settled, report>>

\* sendEodReport looks whether it was sent, and then marks it without another look.
SendReport(h, d) ==
    /\ report[d] # None /\ ~report[d].sent
    /\ Opens(h, Opened("send", "report", d, {}))
MarkSent(h) ==
    /\ view[h].step = "send"
    /\ report' = [report EXCEPT ![view[h].day].sent = TRUE]
    /\ ViewEnds(h)
    /\ UNCHANGED <<now, changes, views, cardVars, settled>>

ViewFails(h) ==
    /\ view[h] # NoView
    /\ ViewEnds(h)
    /\ UNCHANGED <<now, changes, views, cardVars, settled, report>>

DashboardNext ==
    \/ \E r \in Rows : RowChanges(r)
    \/ Tick
    \/ \E h \in Handlers :
          \/ \E c \in Cards : OpenCard(h, c) \/ SetKey(h, c)
          \/ \E d \in ReportDates : CreateReport(h, d) \/ SendReport(h, d)
          \/ Compute(h) \/ InsertReport(h) \/ DropKeys(h) \/ MarkSent(h) \/ ViewFails(h)

DashboardSpec == DashboardInit /\ [][DashboardNext]_dashboardVars

-----------------------------------------------------------------------------
(* Properties.                                                             *)

\* The numbers and lists have types of their own; rows, keys and calls have these.
DashboardTypeOK ==
    /\ now \in [Rows -> States]
    /\ changes \in 0 .. MaxChanges /\ views \in 0 .. MaxViews
    /\ DOMAIN card = Cards
    /\ age \in [Cards -> 0 .. TTL - 1]
    /\ calm \in [Cards -> BOOLEAN]
    /\ settled \in 0 .. TTL
    /\ DOMAIN report = ReportDates
    /\ \A h \in Handlers :
          [k \in {"step", "of", "day", "left"} |-> view[h][k]] \in View

\* Nothing that other services write touches the keys: a card may be as old as its key,
\* and longer if its computing lasted. But once the rows have rested for the lifetime of a
\* key, and no call that saw them otherwise is left to set one, every card says what the
\* tables say; and a report says it of the moment when it was made, whatever the keys
\* held, unless a row changed while it was.
DashboardCatchesUp ==
    /\ settled = TTL => \A c \in Cards : card[c] \in {None, Says(c)}
    /\ \A d \in ReportDates : report[d] # None /\ report[d].calm =>
          report[d].content = report[d].truth
=============================================================================

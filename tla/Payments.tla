------------------------------ MODULE Payments ------------------------------
(***************************************************************************)
(* Money on a booking: the payment rows in PostgreSQL, the cached paid sum *)
(* in Redis, the Stripe payment links and the webhook that applies         *)
(* Stripe's events (payments.service.ts, webhooks.service.ts and the paid  *)
(* cache of bookings.service.ts).                                          *)
(*                                                                         *)
(* A request handler runs from one await to the next without interruption, *)
(* so each action is the code between two awaits: one statement on the     *)
(* database, on Redis or at Stripe together with the computation that      *)
(* leads to it.  Handlers interleave at the awaits.  Money in a row is in  *)
(* cents (Decimal(12,2)); an amount in a request body is any positive      *)
(* number and is kept in mills (tenths of a cent), which is as fine as the *)
(* code's tolerance of 0.009.                                              *)
(***************************************************************************)
EXTENDS Integers, FiniteSets

CONSTANTS
    Bookings,       \* bookings that take payments
    PaymentIds,     \* ids of the rows of table payments
    Events,         \* ids of Stripe events
    Requests,       \* request handlers that can be in flight at once
    Totals,         \* values staff may give to booking.totalAmount, in cents
    Asks,           \* amounts a request body may carry, in mills
    MaxCents,       \* the largest amount the column holds
    Unit,           \* cents in one unit of the currency (100 in production)
    MaxFaults,      \* bound: handlers that fail or die with their process
    Miss,           \* Redis has no value
    None            \* no booking, row or event

ASSUME MoneyAssumption ==
    /\ MaxCents \in Nat \ {0}
    /\ Unit \in Nat \ {0}
    /\ Totals \subseteq 0 .. (MaxCents - 1)
    /\ Asks \subseteq 1 .. (10 * MaxCents)
    /\ MaxFaults \in Nat

ASSUME SentinelAssumption ==
    /\ Miss \notin Nat
    /\ None \notin Bookings
    /\ None \notin PaymentIds
    /\ None \notin Events

ASSUME FinitePayments == IsFiniteSet(PaymentIds)

VARIABLES
    total,      \* booking.totalAmount
    peak,       \* history: the largest total a booking has had
    payment,    \* rows of table payments
    cache,      \* Redis key booking:{id}:paid
    links,      \* rows for which a payment link exists at Stripe
    event,      \* events Stripe has emitted
    stored,     \* rows of table stripe_webhook_events
    acked,      \* events answered with a 2xx status
    applied,    \* history: how often an event has updated its row
    job,        \* the request each handler is serving
    faults,     \* handlers lost so far
    raced,      \* history: rows changed between an event's look and its write
    lost,       \* history: events whose handler died before applying them
    stale,      \* history: bookings whose cached sum nobody is left to delete
    behind      \* history: charges whose booking has changed under them

\* What the program keeps, without the history.
state == <<total, peak, payment, cache, links, event, stored, acked, applied,
           job, faults>>

vars == <<total, peak, payment, cache, links, event, stored, acked, applied,
          job, faults, raced, lost, stale, behind>>

Cents == 0 .. MaxCents
Mills == 0 .. (10 * MaxCents)

LinkOps == {"remaining", "deposit", "custom"}
ApiOps == LinkOps \cup {"cash", "read"}
Statuses == {"none", "sent", "opened", "paid", "expired"}
Kinds == {"completed", "expired", "opened", "other"}

Payment == [status: Statuses, booking: Bookings \cup {None}, amount: Cents,
            url: BOOLEAN]
Event == [kind: Kinds \cup {"none"}, row: PaymentIds \cup {None}]
Job == [pc: {"idle", "total", "get", "sum", "set", "deposit", "insert",
             "stripe", "url", "find", "store", "load", "write", "del"},
        op: ApiOps \cup {"webhook", "none"},
        booking: Bookings \cup {None}, ask: Mills, total: Totals \cup {0}, paid: Nat,
        row: PaymentIds \cup {None}, event: Events \cup {None}]

NoPayment == [status |-> "none", booking |-> None, amount |-> 0, url |-> FALSE]
NoEvent == [kind |-> "none", row |-> None]
NoJob == [pc |-> "idle", op |-> "none", booking |-> None, ask |-> 0,
          total |-> 0, paid |-> 0, row |-> None, event |-> None]

StateOK ==
    /\ total \in [Bookings -> Totals]
    /\ peak \in [Bookings -> Totals]
    /\ payment \in [PaymentIds -> Payment]
    /\ cache \in [Bookings -> Nat \cup {Miss}]
    /\ links \subseteq PaymentIds
    /\ event \in [Events -> Event]
    /\ stored \subseteq Events
    /\ acked \subseteq Events
    /\ applied \in [Events -> Nat]
    /\ job \in [Requests -> Job]
    /\ faults \in 0 .. MaxFaults

HistoryOK ==
    /\ raced \subseteq PaymentIds
    /\ lost \subseteq Events
    /\ stale \subseteq Bookings
    /\ behind \subseteq Requests

TypeOK == StateOK /\ HistoryOK

Init ==
    /\ total \in [Bookings -> Totals]
    /\ peak = total
    /\ payment = [p \in PaymentIds |-> NoPayment]
    /\ cache = [b \in Bookings |-> Miss]
    /\ links = {}
    /\ event = [e \in Events |-> NoEvent]
    /\ stored = {}
    /\ acked = {}
    /\ applied = [e \in Events |-> 0]
    /\ job = [r \in Requests |-> NoJob]
    /\ faults = 0
    /\ raced = {}
    /\ lost = {}
    /\ stale = {}
    /\ behind = {}

-----------------------------------------------------------------------------
(* Sums and amounts.                                                       *)

\* The sum of a set of rows, counted cent by cent: a set with one element per
\* cent, whose size the proofs can reason about without induction.
SumOf(S) ==
    Cardinality({c \in S \X (1 .. MaxCents) : c[2] <= payment[c[1]].amount})

PaidRows(b) ==
    {p \in PaymentIds : payment[p].booking = b /\ payment[p].status = "paid"}

PaidSum(b) == SumOf(PaidRows(b))

\* Postgres stores a number in a Decimal(12,2) column to the nearest cent, and
\* Math.round(x * 100) / 100 does the same to a link's amount.
ToCents(mills) == (mills + 5) \div 10

Lesser(x, y) == IF x <= y THEN x ELSE y
Larger(x, y) == IF x >= y THEN x ELSE y

\* getDueAmount, from the total and the paid sum the handler has read.
Due(j) == Larger(0, j.total - j.paid)

\* The deposit of a booking: 30% of its total to the nearest cent, at least one
\* unit, at most what is due.
Deposit(due, t) == Lesser(due, Larger(Unit, (3 * t + 5) \div 10))

\* What the request wants to charge, in mills.
Wanted(j) == IF j.op = "remaining" THEN 10 * Due(j) ELSE j.ask

\* amount - due > 0.009 is refused; FitsUnchecked leaves the refusal out.
FitsUnchecked(j) == TRUE
Fits(j) == Wanted(j) - 10 * Due(j) <= 9

-----------------------------------------------------------------------------
(* Reading what is due: the total, then the paid sum through the cache.    *)

At(r, label) == job[r].pc = label
Idle(r) == At(r, "idle")

Become(r, j) == job' = [job EXCEPT ![r] = j]
Goto(r, label) == Become(r, [job[r] EXCEPT !.pc = label])
Answer(r) == Become(r, NoJob)

\* A row id no row has and no handler is about to use: Postgres draws it.
Unused(p) ==
    /\ payment[p].status = "none"
    /\ \A r \in Requests : job[r].row # p

\* POST /payments/cash and POST /payments/stripe-link.  The modes "remaining"
\* and "deposit" ignore an amount in the body.
Start(r, op, b, ask, p) ==
    /\ Idle(r)
    /\ Unused(p)
    /\ op \in {"remaining", "deposit"} => ask = 0
    /\ op \in {"cash", "custom"} => ask \in Asks
    /\ Become(r, [NoJob EXCEPT !.pc = "total", !.op = op, !.booking = b,
                               !.ask = ask, !.row = p])
    /\ UNCHANGED <<total, peak, payment, cache, links, event, stored, acked,
                   applied, faults>>

\* Any reader of a booking's paid amount: booking lists and details, updates.
StartRead(r, b) ==
    /\ Idle(r)
    /\ Become(r, [NoJob EXCEPT !.pc = "get", !.op = "read", !.booking = b])
    /\ UNCHANGED <<total, peak, payment, cache, links, event, stored, acked,
                   applied, faults>>

ReadTotal(r) ==
    /\ At(r, "total")
    /\ Become(r, [job[r] EXCEPT !.pc = "get", !.total = total[job[r].booking]])
    /\ UNCHANGED <<total, peak, payment, cache, links, event, stored, acked,
                   applied, faults>>

\* Where a handler goes once it knows the paid sum.
AfterPaid(j, paid) ==
    IF j.op = "read" THEN NoJob
    ELSE [j EXCEPT !.paid = paid,
                   !.pc = IF j.op = "deposit" THEN "deposit" ELSE "insert"]

RedisGet(r) ==
    /\ At(r, "get")
    /\ LET hit == cache[job[r].booking]
       IN IF hit = Miss THEN Goto(r, "sum")
                        ELSE Become(r, AfterPaid(job[r], hit))
    /\ UNCHANGED <<total, peak, payment, cache, links, event, stored, acked,
                   applied, faults>>

\* The aggregate over the paid rows of the booking.
Aggregate(r) ==
    /\ At(r, "sum")
    /\ Become(r, [job[r] EXCEPT !.pc = "set", !.paid = PaidSum(job[r].booking)])
    /\ UNCHANGED <<total, peak, payment, cache, links, event, stored, acked,
                   applied, faults>>

RedisSet(r) ==
    /\ At(r, "set")
    /\ cache' = [cache EXCEPT ![job[r].booking] = job[r].paid]
    /\ Become(r, AfterPaid(job[r], job[r].paid))
    /\ UNCHANGED <<total, peak, payment, links, event, stored, acked, applied,
                   faults>>

-----------------------------------------------------------------------------
(* recordCashPayment and createStripeLink, once the due amount is known.   *)

\* NOTHING_DUE or AMOUNT_EXCEEDS_DUE.
Refuse(r) ==
    /\ \/ At(r, "deposit") /\ Due(job[r]) = 0
       \/ At(r, "insert") /\ (Due(job[r]) = 0 \/ ~Fits(job[r]))
    /\ Answer(r)
    /\ UNCHANGED <<total, peak, payment, cache, links, event, stored, acked,
                   applied, faults>>

\* Mode "deposit" reads the booking a second time, after the due amount.
ReadDeposit(r) ==
    /\ At(r, "deposit")
    /\ Due(job[r]) > 0
    /\ Become(r, [job[r] EXCEPT
                    !.pc = "insert",
                    !.ask = 10 * Deposit(Due(job[r]), total[job[r].booking])])
    /\ UNCHANGED <<total, peak, payment, cache, links, event, stored, acked,
                   applied, faults>>

\* The row a request creates: paid at once for cash, sent for a link.
NewRow(j, status) ==
    [status |-> status, booking |-> j.booking, amount |-> ToCents(Wanted(j)),
     url |-> FALSE]

InsertRow(r) ==
    LET j == job[r]
        cash == j.op = "cash"
    IN /\ At(r, "insert")
       /\ Due(j) > 0
       /\ Fits(j)
       /\ payment' = [payment EXCEPT
                        ![j.row] = NewRow(j, IF cash THEN "paid" ELSE "sent")]
       /\ Goto(r, IF cash THEN "del" ELSE "stripe")
       /\ UNCHANGED <<total, peak, cache, links, event, stored, acked, applied,
                      faults>>

\* stripe.paymentLinks.create; a failure here is Abort.
CreateLink(r) ==
    /\ At(r, "stripe")
    /\ links' = links \cup {job[r].row}
    /\ Goto(r, "url")
    /\ UNCHANGED <<total, peak, payment, cache, event, stored, acked, applied,
                   faults>>

SaveUrl(r) ==
    /\ At(r, "url")
    /\ payment' = [payment EXCEPT ![job[r].row].url = TRUE]
    /\ Answer(r)
    /\ UNCHANGED <<total, peak, cache, links, event, stored, acked, applied,
                   faults>>

-----------------------------------------------------------------------------
(* Stripe's events and the webhook.                                        *)

\* Customers use a link as often as they like: a link is never deactivated and
\* each visit is a checkout session of its own.  payment_link.created, a visit
\* and every other event whose type says so is "opened".  "other" events match
\* no payment or no handled type.
Emit(e, kind, p) ==
    /\ event[e] = NoEvent
    /\ p \in links
    /\ event' = [event EXCEPT ![e] = [kind |-> kind, row |-> p]]
    /\ UNCHANGED <<total, peak, payment, cache, links, stored, acked, applied,
                   job, faults>>

\* Stripe delivers an event at least once, in any order, and again until it
\* gets a 2xx.
Deliver(r, e) ==
    /\ Idle(r)
    /\ event[e] # NoEvent
    /\ Become(r, [NoJob EXCEPT !.pc = "find", !.op = "webhook", !.event = e])
    /\ UNCHANGED <<total, peak, payment, cache, links, event, stored, acked,
                   applied, faults>>

Ack(r) == acked' = acked \cup {job[r].event}

\* Without the look-up a duplicate runs into the unique key.
FindEventUnchecked(r) ==
    /\ At(r, "find")
    /\ Goto(r, "store")
    /\ UNCHANGED <<total, peak, payment, cache, links, event, stored, acked,
                   applied, faults>>

\* handleStripeEvent looks the event up and answers a duplicate.
FindEvent(r) ==
    /\ At(r, "find")
    /\ IF job[r].event \in stored
       THEN Ack(r) /\ Answer(r)
       ELSE Goto(r, "store") /\ UNCHANGED acked
    /\ UNCHANGED <<total, peak, payment, cache, links, event, stored, applied,
                   faults>>

\* What follows the insert of the event: the row is found by the metadata.
Resolve(r) ==
    LET ev == event[job[r].event]
    IN IF ev.kind = "other"
       THEN Ack(r) /\ Answer(r)
       ELSE /\ Become(r, [job[r] EXCEPT !.pc = "load", !.row = ev.row,
                                        !.booking = payment[ev.row].booking])
            /\ UNCHANGED acked

\* The insert of the event as an upsert, without the unique key's error.
StoreEventUpsert(r) ==
    /\ At(r, "store")
    /\ stored' = stored \cup {job[r].event}
    /\ Resolve(r)
    /\ UNCHANGED <<total, peak, payment, cache, links, event, applied, faults>>

StoreEvent(r) ==
    /\ At(r, "store")
    /\ job[r].event \notin stored
    /\ stored' = stored \cup {job[r].event}
    /\ Resolve(r)
    /\ UNCHANGED <<total, peak, payment, cache, links, event, applied, faults>>

\* A concurrent delivery has stored the event since: P2002, a 500, no ack.
StoreConflict(r) ==
    /\ At(r, "store")
    /\ job[r].event \in stored
    /\ Answer(r)
    /\ UNCHANGED <<total, peak, payment, cache, links, event, stored, acked,
                   applied, faults>>

\* A visit taken for a payment.
TargetEager(kind) == IF kind \in {"completed", "opened"} THEN "paid" ELSE kind

\* The status an event asks for.
Target(kind) == IF kind = "completed" THEN "paid" ELSE kind

\* No protection of a later status, and too much of it.
IgnoresNothing(status, target) == FALSE
IgnoresLate(status, target) ==
    \/ status = "paid" /\ target # "paid"
    \/ target = "opened" /\ status # "sent"
    \/ status = "expired"

\* applyStripeWebhookStatus: nothing un-pays a row, and only a sent link opens.
Ignores(status, target) ==
    \/ status = "paid" /\ target # "paid"
    \/ target = "opened" /\ status # "sent"

LoadRow(r) ==
    /\ At(r, "load")
    /\ IF Ignores(payment[job[r].row].status, Target(event[job[r].event].kind))
       THEN Ack(r) /\ Answer(r)
       ELSE Goto(r, "write") /\ UNCHANGED acked
    /\ UNCHANGED <<total, peak, payment, cache, links, event, stored, applied,
                   faults>>

\* Without the invalidation of the cached sum that follows a payment.
WriteStatusNoInvalidate(r) ==
    /\ At(r, "write")
    /\ payment' = [payment EXCEPT
                     ![job[r].row].status = Target(event[job[r].event].kind)]
    /\ applied' = [applied EXCEPT ![job[r].event] = @ + 1]
    /\ Ack(r) /\ Answer(r)
    /\ UNCHANGED <<total, peak, cache, links, event, stored, faults>>

\* The update is by id alone: it does not look at the row's status again.
WriteStatus(r) ==
    LET target == Target(event[job[r].event].kind)
    IN /\ At(r, "write")
       /\ payment' = [payment EXCEPT ![job[r].row].status = target]
       /\ applied' = [applied EXCEPT ![job[r].event] = @ + 1]
       /\ IF target = "paid"
          THEN Goto(r, "del") /\ UNCHANGED acked
          ELSE Ack(r) /\ Answer(r)
       /\ UNCHANGED <<total, peak, cache, links, event, stored, faults>>

\* invalidatePaidCache, the last write of a cash payment and of a paid event.
Invalidate(r) ==
    /\ At(r, "del")
    /\ cache' = [cache EXCEPT ![job[r].booking] = Miss]
    /\ IF job[r].op = "webhook" THEN Ack(r) ELSE UNCHANGED acked
    /\ Answer(r)
    /\ UNCHANGED <<total, peak, payment, links, event, stored, applied, faults>>

-----------------------------------------------------------------------------
(* The rest of the system.                                                 *)

\* PATCH /bookings/:id sets the total, whatever has been paid, and answers with
\* the booking's paid amount.
UpdateBooking(r, b, t) ==
    /\ Idle(r)
    /\ t # total[b]
    /\ total' = [total EXCEPT ![b] = t]
    /\ peak' = [peak EXCEPT ![b] = Larger(@, t)]
    /\ Become(r, [NoJob EXCEPT !.pc = "get", !.op = "read", !.booking = b])
    /\ UNCHANGED <<payment, cache, links, event, stored, acked, applied, faults>>

\* The key is set with EX 60.
CacheExpire(b) ==
    /\ cache[b] # Miss
    /\ cache' = [cache EXCEPT ![b] = Miss]
    /\ UNCHANGED <<total, peak, payment, links, event, stored, acked, applied,
                   job, faults>>

\* The handler's process dies, or the call it awaits throws: the request ends
\* with an error and what it has written stays.
Abort(r) ==
    /\ ~Idle(r)
    /\ faults < MaxFaults
    /\ faults' = faults + 1
    /\ Answer(r)
    /\ UNCHANGED <<total, peak, payment, cache, links, event, stored, acked,
                   applied>>

-----------------------------------------------------------------------------

\* The steps of a request once it has started.
Advance(r) ==
    \/ ReadTotal(r) \/ RedisGet(r) \/ Aggregate(r) \/ RedisSet(r)
    \/ Refuse(r) \/ ReadDeposit(r) \/ InsertRow(r) \/ CreateLink(r)
    \/ SaveUrl(r) \/ FindEvent(r) \/ StoreEvent(r) \/ StoreConflict(r)
    \/ LoadRow(r) \/ WriteStatus(r) \/ Invalidate(r)

Serve ==
    \/ \E r \in Requests :
          \/ \E op \in ApiOps \ {"read"}, b \in Bookings, ask \in Asks \cup {0},
                p \in PaymentIds : Start(r, op, b, ask, p)
          \/ \E b \in Bookings : StartRead(r, b)
          \/ \E b \in Bookings, t \in Totals : UpdateBooking(r, b, t)
          \/ \E e \in Events : Deliver(r, e)
          \/ Advance(r)
          \/ Abort(r)
    \/ \E e \in Events, kind \in Kinds, p \in PaymentIds : Emit(e, kind, p)
    \/ \E b \in Bookings : CacheExpire(b)

-----------------------------------------------------------------------------
(* History.  Nothing in the code keeps requests about one booking apart, so *)
(* what follows notes, of each step, whom it has overtaken.  The code reads *)
(* none of it.                                                              *)

\* The handlers that are served on, by this step or another's.
Ends(r) == ~Idle(r) /\ job'[r] = NoJob
Waits(r) == ~Idle(r) /\ job'[r] = job[r]
Dies(r) == faults' # faults /\ Ends(r)

\* An event has looked at the row, and finds it changed when it writes.
NoteRaced ==
    raced' = raced \cup
        {p \in PaymentIds :
            /\ payment'[p].status # payment[p].status
            /\ \E r \in Requests : At(r, "write") /\ job[r].row = p /\ Waits(r)}

\* The event is stored, its handler is gone and the row is as it was.
NoteLost ==
    lost' = lost \cup
        {e \in Events :
            \E r \in Requests : /\ job[r].event = e
                                /\ At(r, "load") \/ At(r, "write")
                                /\ Dies(r)}

\* A request that is about to delete the booking's cached sum, and one that is
\* about to cache the sum it has read.
Sweeping(b) == \E r \in Requests : At(r, "del") /\ job[r].booking = b
Caching(b) == \E r \in Requests : At(r, "set") /\ job[r].booking = b

\* The last call of a request that pays was made too early, or is never made;
\* or a row has left "paid", after which nothing is deleted.  It is over when
\* the key has gone while no reader holds a sum.
NoteStale ==
    stale' = {b \in Bookings :
        /\ \/ b \in stale
           \/ \E r \in Requests : At(r, "del") /\ job[r].booking = b /\ Ends(r)
           \/ ~ (PaidRows(b) \subseteq PaidRows(b)')
        /\ cache'[b] # Miss \/ Caching(b)'}

\* A request that wants to charge finds the booking changed by another one, or
\* takes a sum from Redis that is not to be trusted.
NoteBehind ==
    behind' = {r \in Requests :
        /\ ~Idle(r)
        /\ ~Ends(r)
        /\ \/ r \in behind
           \/ LET b == job[r].booking
              IN /\ job[r].op \in ApiOps
                 /\ \/ Waits(r) /\ total'[b] # total[b]
                    \/ Waits(r) /\ PaidRows(b)' # PaidRows(b)
                    \/ At(r, "get") /\ (b \in stale \/ Sweeping(b))}

Note == NoteRaced /\ NoteLost /\ NoteStale /\ NoteBehind

Next == Serve /\ Note

Spec == Init /\ [][Next]_vars

\* Every request is worked off, and Stripe retries an event until it is acked:
\* the server takes it whenever it takes requests at all, so a handler that is
\* free again and again gets it.
Fairness ==
    /\ \A r \in Requests : WF_state(Advance(r))
    /\ \A e \in Events :
          SF_state(e \notin acked /\ \E r \in Requests : Deliver(r, e))

FairSpec == Spec /\ Fairness

-----------------------------------------------------------------------------
(* Properties of concurrent handlers.                                      *)

\* An event updates its payment at most once, however often Stripe delivers it,
\* however many handlers serve it at once and wherever they die.
AppliedAtMostOnce == \A e \in Events : applied[e] <= 1

\* A row that waits for Stripe becomes paid only through a stored "completed"
\* event of a link that Stripe holds for this row.
StripePaidIsBacked ==
    \A p \in PaymentIds :
        payment[p].status = "paid" /\ p \in links =>
            \E e \in stored : event[e] = [kind |-> "completed", row |-> p]

\* No single row asks for more than the booking has ever cost, but for the cent
\* that the tolerance of 0.009 can round up to.
RowFitsPeakTotal ==
    \A p \in PaymentIds :
        payment[p].status # "none" =>
            payment[p].amount <= peak[payment[p].booking] + 1

\* Stripe's retries of an event come to an end: in the presence of concurrent
\* deliveries and lost handlers each event gets its 2xx.
EventIsAcked ==
    \A e \in Events : (event[e] # NoEvent) ~> (e \in acked)

-----------------------------------------------------------------------------
(* What overlapping requests and lost handlers leave of the promises.      *)

\* Redis holds the sum of the booking's paid rows or nothing, however readers
\* and writers interleave, unless a writer has yet to delete the key, or its
\* deletion was overtaken by a reader or lost with its handler; and then no
\* longer than the key lives.
CacheAgrees ==
    \A b \in Bookings :
        cache[b] \in {Miss, PaidSum(b)} \/ Sweeping(b) \/ b \in stale

\* Once Stripe has been told that an event was received, and will not send it
\* again, its row is paid.
AckedIsPaid ==
    \A e \in acked :
        event[e].kind = "completed" => payment[event[e].row].status = "paid"

\* A completed checkout that Stripe will not send again is paid or about to be:
\* only its own handler's death, or another event of the row between the look
\* and the write, can lose it.
AckedIsApplied ==
    \A e \in acked :
        event[e].kind = "completed" =>
            \/ payment[event[e].row].status = "paid"
            \/ \E r \in Requests :
                  job[r].event = e /\ (At(r, "load") \/ At(r, "write"))
            \/ e \in lost
            \/ event[e].row \in raced

\* Handler r records a cash payment on booking b.
Collects(r, b) ==
    /\ At(r, "insert")
    /\ job[r].op = "cash"
    /\ job[r].booking = b
    /\ job'[r].pc = "del"

\* A cash payment leaves the booking overpaid by a rounded cent at most.
CashFitsDue ==
    [][\A r \in Requests, b \in Bookings :
         Collects(r, b) => PaidSum(b)' <= total[b] + 1]_vars

\* A cash payment overpays its booking by more than a rounded cent only if
\* another request changed the booking's total or paid one of its rows while
\* this one was in flight, or Redis had a sum that was not to be trusted.
CashFits ==
    [][\A r \in Requests \ behind, b \in Bookings :
         Collects(r, b) => PaidSum(b)' <= total[b] + 1]_vars

\* The life of a payment, as the plan states it, whose only exception is a row
\* that two events were applied to at once.
Ledger == INSTANCE PaymentLedger
            WITH status <- [p \in PaymentIds |-> payment[p].status]

LedgerSpec == Ledger!Spec
=============================================================================

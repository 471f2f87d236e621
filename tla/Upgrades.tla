------------------------------ MODULE Upgrades ------------------------------
(***************************************************************************)
(* Edit requests of clients and the VIP desk (edit-requests.service.ts,    *)
(* vip.service.ts): two ways to make a booking VIP and charge it, over the *)
(* booking's total, which staff may edit at any time.                      *)
(*                                                                         *)
(* A statement reads what is committed. A transaction that only writes     *)
(* what it has read before is one step at its commit.                      *)
(***************************************************************************)
EXTENDS Integers

CONSTANTS
    Bookings,
    RequestIds,     \* ids of the rows of table edit_requests
    Handlers,       \* request handlers that can be in flight at once
    Dates,          \* travel dates: arrival and departure together
    Totals,         \* totals that staff set
    Prices,         \* values of setting vip_price
    VipPatches, DatePatches, StatusPatches,     \* what staff PATCH a booking to
    MaxTotal,       \* the largest value of column total_amount
    MaxFaults,      \* bound: handlers that fail or die with their process
    None, Bad       \* no value; a value that is not JSON with dates

ASSUME MoneyAssumption ==
    /\ MaxTotal \in Nat
    /\ Totals \subseteq 0 .. MaxTotal
    /\ Prices \subseteq Nat
ASSUME PatchAssumption ==
    /\ VipPatches \subseteq BOOLEAN
    /\ DatePatches \subseteq Dates
    /\ StatusPatches \subseteq {"active", "completed", "cancelled"}
ASSUME FaultsAssumption == MaxFaults \in Nat
ASSUME NoneAssumption == {None, Bad} \cap Dates = {} /\ None # Bad

VARIABLES
    booking,    \* rows of table bookings
    request,    \* rows of table edit_requests
    price,      \* setting vip_price, or its default
    job,        \* the request each handler is serving
    bases,      \* history: totals each booking had that include no VIP price
    wasVip,     \* history: bookings that have been VIP
    approved,   \* history: requests that were approved
    desk,       \* history: requests pending when the desk activated their booking
    faults

vars == <<booking, request, price, job, bases, wasVip, approved, desk, faults>>
tables == <<booking, request, price, bases, wasVip, approved, desk>>

\* The other types are approved like a date change that names no dates.
Asks == [type: {"date_change"}, value: Dates \cup {None, Bad}]
        \cup [type: {"vip_upgrade"}, value: {None}]

Booking == [vip: BOOLEAN, total: 0 .. MaxTotal, dates: Dates,
            status: {"active", "completed", "cancelled"}]
EditRequest == [status: {"none", "pending", "approved", "rejected"},
                booking: Bookings \cup {None}, ask: Asks \cup {None}]
Job == [pc: {"idle", "guard", "read", "price", "write", "close",
             "check", "find", "insert"},
        op: {"none", "approve", "reject", "activate", "upgrade", "create"},
        booking: Bookings \cup {None}, request: RequestIds \cup {None},
        ask: Asks \cup {None},
        upgrade: BOOLEAN, total: Nat]

NoRequest == [status |-> "none", booking |-> None, ask |-> None]
NoJob == [pc |-> "idle", op |-> "none", booking |-> None, request |-> None,
          ask |-> None, upgrade |-> FALSE, total |-> 0]
VipAsk == [type |-> "vip_upgrade", value |-> None]

TypeOK ==
    /\ booking \in [Bookings -> Booking]
    /\ request \in [RequestIds -> EditRequest]
    /\ price \in Prices
    /\ job \in [Handlers -> Job]
    /\ bases \in [Bookings -> SUBSET Nat]
    /\ wasVip \subseteq Bookings
    /\ approved \subseteq RequestIds
    /\ desk \subseteq RequestIds
    /\ faults \in 0 .. MaxFaults

Init ==
    /\ booking \in [Bookings -> [vip: {FALSE}, total: Totals, dates: Dates,
                                 status: {"active"}]]
    /\ request = [q \in RequestIds |-> NoRequest]
    /\ price \in Prices
    /\ job = [r \in Handlers |-> NoJob]
    /\ bases = [b \in Bookings |-> {booking[b].total}]
    /\ wasVip = {}
    /\ approved = {}
    /\ desk = {}
    /\ faults = 0

-----------------------------------------------------------------------------

At(r, op, pc) == job[r].op = op /\ job[r].pc = pc
Idle(r) == job[r].pc = "idle"
Become(r, j) == job' = [job EXCEPT ![r] = j] /\ UNCHANGED faults
Goto(r, pc) == Become(r, [job[r] EXCEPT !.pc = pc])
Answer(r) == Become(r, NoJob)

PendingVip(b) == {q \in RequestIds : /\ request[q].booking = b
                                     /\ request[q].status = "pending"
                                     /\ request[q].ask.type = "vip_upgrade"}

-----------------------------------------------------------------------------
(* Requests.                                                               *)

Begin(r, j) == Idle(r) /\ Become(r, j) /\ UNCHANGED tables

\* A reviewer opens an edit request.
Review(r, op, q) ==
    /\ op \in {"approve", "reject"}
    /\ request[q].status # "none"
    /\ Begin(r, [NoJob EXCEPT !.op = op, !.pc = "guard", !.request = q,
                              !.booking = request[q].booking])

Activate(r, b) ==
    Begin(r, [NoJob EXCEPT !.op = "activate", !.pc = "read", !.booking = b])

\* An id that no row has or is going to have.
Unused(q) == request[q].status = "none" /\ \A r \in Handlers : job[r].request # q

\* The client's edit request, and his VIP request, which looks twice first. (The
\* route for one booking also wants it active; it is a case of Create.)
Create(r, b, ask, q) ==
    /\ Unused(q)
    /\ Begin(r, [NoJob EXCEPT !.op = "create", !.pc = "find", !.booking = b,
                              !.request = q, !.ask = ask])
RequestUpgrade(r, b, q) ==
    /\ Unused(q)
    /\ Begin(r, [NoJob EXCEPT !.op = "upgrade", !.pc = "guard", !.booking = b,
                              !.request = q, !.ask = VipAsk])

-----------------------------------------------------------------------------
(* Creating an edit request.                                               *)

UpgradeGuard(r) ==
    LET b == job[r].booking
    IN /\ At(r, "upgrade", "guard")
       /\ IF booking[b].status = "active" /\ ~booking[b].vip
          THEN Goto(r, "check") ELSE Answer(r)
       /\ UNCHANGED tables

CheckPending(r) ==
    /\ job[r].pc = "check"
    /\ IF PendingVip(job[r].booking) = {} THEN Goto(r, "find") ELSE Answer(r)
    /\ UNCHANGED tables

FindBooking(r) ==
    /\ job[r].pc = "find"
    /\ IF booking[job[r].booking].status \in {"active", "completed"}
       THEN Goto(r, "insert") ELSE Answer(r)
    /\ UNCHANGED tables

Insert(r) ==
    /\ job[r].pc = "insert"
    /\ request' = [request EXCEPT ![job[r].request] =
                      [status |-> "pending", booking |-> job[r].booking,
                       ask |-> job[r].ask]]
    /\ Answer(r)
    /\ UNCHANGED <<booking, price, bases, wasVip, approved, desk>>

-----------------------------------------------------------------------------
(* Reviewing one.                                                          *)

\* A date change to some dates.
Redate(bk, ask) ==
    IF ask.type = "date_change" /\ ask.value \in Dates
    THEN [bk EXCEPT !.dates = ask.value] ELSE bk

\* The status is checked outside the transaction; ReviewGuardApplies changes the
\* dates here already.
ReviewGuardApplies(r) ==
    LET q == job[r].request
        b == job[r].booking
    IN /\ job[r].op \in {"approve", "reject"} /\ job[r].pc = "guard"
       /\ request[q].status = "pending"
       /\ booking' = [booking EXCEPT ![b] = Redate(@, request[q].ask)]
       /\ Goto(r, IF job[r].op = "approve" /\ request[q].ask.type = "vip_upgrade"
                  THEN "read" ELSE "write")
       /\ UNCHANGED <<request, price, bases, wasVip, approved, desk>>
ReviewGuard(r) ==
    LET q == job[r].request
    IN /\ job[r].op \in {"approve", "reject"} /\ job[r].pc = "guard"
       /\ IF request[q].status # "pending" THEN Answer(r)
          ELSE Goto(r, IF job[r].op = "approve" /\ request[q].ask.type = "vip_upgrade"
                       THEN "read" ELSE "write")
       /\ UNCHANGED tables

RejectWrite(r) ==
    /\ At(r, "reject", "write")
    /\ request' = [request EXCEPT ![job[r].request].status = "rejected"]
    /\ Answer(r)
    /\ UNCHANGED <<booking, price, bases, wasVip, approved, desk>>

\* Approving for a VIP booking changes the request alone, activating one is
\* refused; AlreadyVipUnchecked takes every booking for an ordinary one.
AlreadyVipUnchecked(b) == FALSE
AlreadyVip(b) == booking[b].vip

ReadBooking(r) ==
    LET b == job[r].booking
    IN /\ job[r].pc = "read"
       /\ IF AlreadyVip(b)
          THEN IF job[r].op = "approve" THEN Goto(r, "write") ELSE Answer(r)
          ELSE Become(r, [job[r] EXCEPT !.pc = "price", !.upgrade = TRUE,
                                        !.total = booking[b].total])
       /\ UNCHANGED tables

\* The price, by a connection of its own, and the new total.
ReadPrice(r) ==
    /\ job[r].pc = "price"
    /\ Become(r, [job[r] EXCEPT !.pc = "write", !.total = @ + price])
    /\ UNCHANGED tables

\* What the column cannot hold is an error of the UPDATE; OverflowsNever leaves
\* it to the column.
OverflowsNever(j) == FALSE
Overflows(j) == j.upgrade /\ j.total > MaxTotal

\* The booking as VIP; UpgradedTotal forgets the flag.
UpgradedTotal(bk, j) == [bk EXCEPT !.total = j.total]
Upgraded(bk, j) == [bk EXCEPT !.vip = TRUE, !.total = j.total]

\* The transaction's writes; a value that is not JSON rolls it back.
ApproveWrite(r) ==
    LET q == job[r].request
        b == job[r].booking
    IN /\ At(r, "approve", "write")
       /\ ~Overflows(job[r])
       /\ request[q].ask.value # Bad
       /\ booking' = [booking EXCEPT ![b] =
                         IF job[r].upgrade THEN Upgraded(@, job[r])
                         ELSE Redate(@, request[q].ask)]
       /\ request' = [request EXCEPT ![q].status = "approved"]
       /\ approved' = approved \cup {q}
       /\ wasVip' = {c \in Bookings : c \in wasVip \/ booking'[c].vip}
       /\ Answer(r)
       /\ UNCHANGED <<price, bases, desk>>

\* An UPDATE that fails, in a transaction or alone, changes nothing.
WriteFails(r) ==
    /\ job[r].pc = "write"
    /\ \/ Overflows(job[r])
       \/ job[r].op = "approve" /\ request[job[r].request].ask.value = Bad
    /\ Answer(r)
    /\ UNCHANGED tables

-----------------------------------------------------------------------------
(* The VIP desk.                                                           *)

\* One statement; the pending requests are closed by another one.
ActivateWrite(r) ==
    LET b == job[r].booking
    IN /\ At(r, "activate", "write")
       /\ ~Overflows(job[r])
       /\ booking' = [booking EXCEPT ![b] = Upgraded(@, job[r])]
       /\ wasVip' = {c \in Bookings : c \in wasVip \/ booking'[c].vip}
       /\ desk' = desk \cup PendingVip(b)
       /\ Goto(r, "close")
       /\ UNCHANGED <<request, price, bases, approved>>

\* The requests that the desk closes; ClosedFirst takes one of them.
ClosedFirst(b) ==
    IF PendingVip(b) = {} THEN {} ELSE {CHOOSE q \in PendingVip(b) : TRUE}
Closed(b) == PendingVip(b)

CloseRequests(r) ==
    LET closed == Closed(job[r].booking)
    IN /\ job[r].pc = "close"
       /\ request' = [q \in RequestIds |->
                        IF q \in closed THEN [request[q] EXCEPT !.status = "approved"]
                        ELSE request[q]]
       /\ approved' = approved \cup closed
       /\ Answer(r)
       /\ UNCHANGED <<booking, price, bases, wasVip, desk>>

SetPrice(p) ==
    /\ price' = p
    /\ UNCHANGED <<booking, request, job, bases, wasVip, approved, desk, faults>>

\* PATCH /bookings/:id: each field is set or kept. A total that staff set, or
\* leave when they take VIP away, is the booking's own from then on.
UpdateBooking(b, new) ==
    /\ new \in [vip: VipPatches \cup {booking[b].vip},
                total: Totals \cup {booking[b].total},
                dates: DatePatches \cup {booking[b].dates},
                status: StatusPatches \cup {booking[b].status}]
    /\ booking' = [booking EXCEPT ![b] = new]
    /\ bases' = [bases EXCEPT ![b] =
                    IF new.total # booking[b].total \/ ~new.vip
                    THEN @ \cup {new.total} ELSE @]
    /\ wasVip' = {c \in Bookings : c \in wasVip \/ booking'[c].vip}
    /\ UNCHANGED <<request, price, job, approved, desk, faults>>

\* The handler's process dies or a call throws; an open transaction is rolled
\* back, what is committed stays.
Abort(r) ==
    /\ ~Idle(r)
    /\ faults < MaxFaults
    /\ faults' = faults + 1
    /\ job' = [job EXCEPT ![r] = NoJob]
    /\ UNCHANGED tables

Advance(r) ==
    \/ UpgradeGuard(r) \/ CheckPending(r) \/ FindBooking(r) \/ Insert(r)
    \/ ReviewGuard(r) \/ RejectWrite(r) \/ ReadBooking(r) \/ ReadPrice(r)
    \/ ApproveWrite(r) \/ WriteFails(r) \/ ActivateWrite(r) \/ CloseRequests(r)

Next ==
    \/ \E r \in Handlers :
          \/ \E q \in RequestIds, op \in {"approve", "reject"} : Review(r, op, q)
          \/ \E b \in Bookings : Activate(r, b)
          \/ \E b \in Bookings, q \in RequestIds : RequestUpgrade(r, b, q)
          \/ \E b \in Bookings, ask \in Asks, q \in RequestIds : Create(r, b, ask, q)
          \/ Advance(r)
          \/ Abort(r)
    \/ \E p \in Prices : SetPrice(p)
    \/ \E b \in Bookings, new \in Booking : UpdateBooking(b, new)

Spec == Init /\ [][Next]_vars

-----------------------------------------------------------------------------
(* Properties.                                                             *)

\* A booking pays for VIP once, however approvals, the desk and changes of price
\* and total interleave: its total is one without VIP, or one such plus one price.
ChargedOnce ==
    \A b \in Bookings :
        \/ booking[b].total \in bases[b]
        \/ /\ booking[b].vip
           /\ \E t \in bases[b], p \in Prices : booking[b].total = t + p

\* A client who was told that his upgrade is approved has had a VIP booking.
ApprovedWasVip ==
    \A q \in approved :
        request[q].ask.type = "vip_upgrade" => request[q].booking \in wasVip

\* A booking's dates change only with an approval on record, or by staff.
DatesAreApproved ==
    [][\A b \in Bookings :
          booking'[b].dates # booking[b].dates =>
              \/ booking'[b].dates \in DatePatches
              \/ \E q \in approved' : /\ request[q].booking = b
                                      /\ request[q].ask.type = "date_change"
                                      /\ request[q].ask.value = booking'[b].dates]_vars

\* No upgrade request that was pending at an activation stays pending.
ActivationIsComplete ==
    (\A r \in Handlers : Idle(r)) => \A q \in desk : request[q].status # "pending"

\* The same unless a handler was lost.
DeskClosesRequests == faults = 0 => ActivationIsComplete
=============================================================================

---------------------------- MODULE Assignments ----------------------------
(***************************************************************************)
(* Drivers on bookings: the rows of table driver_assignments, the driver   *)
(* that the itinerary's items name, the driver's own status and the        *)
(* completion of a booking (drivers.service.ts, itineraries.service.ts).   *)
(*                                                                         *)
(* A handler reads its guard, then runs a transaction at READ COMMITTED:   *)
(* each statement sees what is committed, an UPDATE waits for rows that    *)
(* another transaction has written and looks at them again, and the        *)
(* written rows stay locked until the commit.  What a transaction has      *)
(* written is kept in its handler until then, so that losing the handler   *)
(* is the rollback.                                                        *)
(***************************************************************************)
EXTENDS Integers, FiniteSets

CONSTANTS
    Bookings, Drivers,
    Dates,      \* start dates an assignment may have
    Items,      \* ids of the rows of table itinerary_items
    Handlers,   \* request handlers that can be in flight at once
    ByHand,     \* drivers that staff write into an item by hand
    BookingStatuses,    \* statuses that staff give a booking
    OwnStatuses,    \* statuses that a driver gives himself
    MaxStarts,  \* bound: requests that are started
    MaxFaults,  \* bound: handlers that fail or die with their process
    None        \* no booking, no driver

ASSUME BoundsAssumption == MaxStarts \in Nat /\ MaxFaults \in Nat
ASSUME NoneAssumption ==
    None \notin Bookings /\ None \notin Drivers /\ None \notin Items
ASSUME InputsAssumption ==
    /\ ByHand \subseteq Drivers
    /\ BookingStatuses \subseteq {"active", "completed", "cancelled"}
    /\ OwnStatuses \subseteq {"available", "en_route", "resting", "off_duty"}

\* @@unique([bookingId, driverId, startDate]): a row is named by its key.
Keys == Bookings \X Drivers \X Dates
BookingOf(k) == k[1]
DriverOf(k) == k[2]

VARIABLES
    row,        \* rows of table driver_assignments
    item,       \* rows of table itinerary_items
    driver,     \* driver_profiles.status
    booking,    \* bookings.status
    job,        \* the request each handler is serving
    earned,     \* history: what drivers have done to their assignments
    starts, faults,
    crossed,    \* history: bookings whose rows changed behind a guard's back
    contested,  \* history: drivers whose rows did
    torn        \* history: bookings at which a second statement never ran

\* What the program keeps, with the bounds; the rest is history.
state == <<row, item, driver, booking, job, earned, starts, faults>>
tables == <<row, item, driver, booking, earned>>
vars == <<row, item, driver, booking, job, earned, starts, faults,
          crossed, contested, torn>>

OpenStatuses == {"pending", "accepted", "in_progress"}
CommittedStatuses == {"accepted", "in_progress"}
Times == {"accepted", "rejected", "started", "completed"}

Row == [status: OpenStatuses \cup {"none", "rejected", "completed", "cancelled"},
        times: SUBSET Times]
Item == [booking: Bookings \cup {None}, driver: Drivers \cup {None},
         byHand: BOOLEAN]
Ops == {"assign", "accept", "reject", "start", "complete", "unassign", "add"}
Job == [pc: {"idle", "guard", "scan", "cancel", "find", "place", "write",
             "close", "clear", "insert"},
        op: Ops \cup {"none"}, key: Keys \cup {None}, booking: Bookings \cup {None},
        todo: SUBSET Keys, held: SUBSET Keys, found: BOOLEAN,
        id: Items \cup {None}, driver: Drivers \cup {None}]

NoRow == [status |-> "none", times |-> {}]
NoItem == [booking |-> None, driver |-> None, byHand |-> FALSE]
NoJob == [pc |-> "idle", op |-> "none", key |-> None, booking |-> None,
          todo |-> {}, held |-> {}, found |-> FALSE, id |-> None, driver |-> None]

StateOK ==
    /\ row \in [Keys -> Row]
    /\ item \in [Items -> Item]
    /\ driver \in [Drivers -> {"available", "en_route", "resting", "off_duty"}]
    /\ booking \in [Bookings -> {"active", "completed", "cancelled"}]
    /\ job \in [Handlers -> Job]
    /\ earned \subseteq Keys \X {"accepted", "in_progress"}
    /\ starts \in 0 .. MaxStarts
    /\ faults \in 0 .. MaxFaults

HistoryOK ==
    /\ crossed \subseteq Bookings
    /\ contested \subseteq Drivers
    /\ torn \subseteq Bookings

TypeOK == StateOK /\ HistoryOK

Init ==
    /\ row = [k \in Keys |-> NoRow]
    /\ item = [i \in Items |-> NoItem]
    /\ driver = [d \in Drivers |-> "available"]
    /\ booking = [b \in Bookings |-> "active"]
    /\ job = [r \in Handlers |-> NoJob]
    /\ earned = {}
    /\ starts = 0
    /\ faults = 0
    /\ crossed = {}
    /\ contested = {}
    /\ torn = {}

-----------------------------------------------------------------------------

At(r, op, pc) == job[r].op = op /\ job[r].pc = pc
Idle(r) == job[r].pc = "idle"
Become(r, j) == job' = [job EXCEPT ![r] = j] /\ UNCHANGED <<starts, faults>>
Goto(r, pc) == Become(r, [job[r] EXCEPT !.pc = pc])
Answer(r) == Become(r, NoJob)

\* openAssignmentWhere({ bookingId }) and openAssignmentWhere({ driverId });
\* OpenOnPending leaves the committed statuses out.
OpenOnPending(b) == {k \in Keys : BookingOf(k) = b /\ row[k].status = "pending"}
OpenOn(b) == {k \in Keys : BookingOf(k) = b /\ row[k].status \in OpenStatuses}
OpenOf(d) == {k \in Keys : DriverOf(k) = d /\ row[k].status \in OpenStatuses}

\* A transaction of another handler has written row k and not committed.
LockedBy(s, k) == k \in job[s].held
Free(r, k) == \A s \in Handlers \ {r} : ~LockedBy(s, k)

\* COMMIT: k gets the status with its new column, the rows the transaction has
\* cancelled on the way become visible.
Commit(r, k, new) ==
    row' = [j \in Keys |->
              IF j = k THEN new
              ELSE IF j \in job[r].held THEN [row[j] EXCEPT !.status = "cancelled"]
              ELSE row[j]]

\* The status and the column set with it.
Stamped(k, status, time) ==
    [status |-> status, times |-> row[k].times \cup {time}]

-----------------------------------------------------------------------------
(* Requests and their guards.                                              *)

Begin(r, j) ==
    /\ Idle(r)
    /\ starts < MaxStarts
    /\ starts' = starts + 1
    /\ job' = [job EXCEPT ![r] = j]
    /\ UNCHANGED <<tables, faults>>

\* A request about one assignment: staff name a booking, driver and date to
\* assign; the others name the id of a row.
Request(r, op, k) ==
    /\ op \in Ops \ {"add"}
    /\ op # "assign" => row[k].status # "none"
    /\ Begin(r, [NoJob EXCEPT !.op = op, !.pc = "guard", !.key = k])

\* An id that no item has or is going to have.
Unused(i) == item[i] = NoItem /\ \A r \in Handlers : job[r].id # i

RequestItem(r, b, i) ==
    /\ Unused(i)
    /\ Begin(r, [NoJob EXCEPT !.op = "add", !.pc = "guard", !.booking = b, !.id = i])

\* DRIVER_BUSY looks at one open assignment of the driver, whichever the
\* database returns first; BusyUnchecked never refuses.
BusyUnchecked(r, ok) == ok
Busy(r, ok) ==
    LET k == job[r].key
    IN IF ok THEN \/ OpenOf(DriverOf(k)) = {}
                  \/ \E j \in OpenOf(DriverOf(k)) : BookingOf(j) = BookingOf(k)
             ELSE \E j \in OpenOf(DriverOf(k)) : BookingOf(j) # BookingOf(k)

AssignGuard(r) ==
    /\ At(r, "assign", "guard")
    /\ \/ Busy(r, TRUE) /\ Goto(r, "scan")
       \/ Busy(r, FALSE) /\ Answer(r)
    /\ UNCHANGED tables

\* The status a driver's request insists on; NeedsAnyStart starts a trip that
\* has not been accepted.
NeedsAnyStart(op) ==
    CASE op \in {"accept", "reject"} -> {"pending"}
      [] op = "start" -> OpenStatuses
      [] op = "complete" -> {"in_progress"}
      [] OTHER -> {}
Needs(op) ==
    CASE op \in {"accept", "reject"} -> {"pending"}
      [] op = "start" -> {"accepted"}
      [] op = "complete" -> {"in_progress"}
      [] OTHER -> {}

DriverGuard(r) ==
    LET op == job[r].op
    IN /\ op \in {"accept", "reject", "start", "complete"}
       /\ At(r, op, "guard")
       /\ IF row[job[r].key].status \in Needs(op)
          THEN Goto(r, IF op = "accept" THEN "scan" ELSE "write")
          ELSE Answer(r)
       /\ UNCHANGED tables

\* deleteAssignment takes any status and remembers whether it was rejected.
UnassignGuard(r) ==
    /\ At(r, "unassign", "guard")
    /\ Become(r, [job[r] EXCEPT !.pc = "write",
                                !.found = row[job[r].key].status = "rejected"])
    /\ UNCHANGED tables

-----------------------------------------------------------------------------
(* The transactions of createAssignment and acceptMyAssignment.            *)

\* UPDATE ... SET status = 'cancelled' WHERE open: the statement's snapshot.
\* An accepted assignment leaves itself out.
Scan(r) ==
    LET k == job[r].key
        open == OpenOn(BookingOf(k))
    IN /\ job[r].pc = "scan"
       /\ Become(r, [job[r] EXCEPT
                       !.pc = "cancel",
                       !.todo = IF job[r].op = "assign" THEN open ELSE open \ {k}])
       /\ UNCHANGED tables

\* One row of the snapshot: locked, and cancelled if it is still open.
CancelOne(r, k) ==
    /\ job[r].pc = "cancel"
    /\ k \in job[r].todo
    /\ Free(r, k)
    /\ Become(r, [job[r] EXCEPT
                    !.todo = @ \ {k},
                    !.held = IF row[k].status \in OpenStatuses
                             THEN @ \cup {k} ELSE @])
    /\ UNCHANGED tables

CancelDone(r) ==
    /\ job[r].pc = "cancel"
    /\ job[r].todo = {}
    /\ Goto(r, IF job[r].op = "assign" THEN "find" ELSE "write")
    /\ UNCHANGED tables

Find(r) ==
    /\ At(r, "assign", "find")
    /\ Become(r, [job[r] EXCEPT !.pc = "place",
                                !.found = row[job[r].key].status # "none"])
    /\ UNCHANGED tables

\* The row is reset, or inserted, as pending; ProposedKeepingTimes forgets to
\* reset the times.
ProposedKeepingTimes(k) == [status |-> "pending", times |-> row[k].times]
Proposed(k) == [status |-> "pending", times |-> {}]

Place(r) ==
    LET k == job[r].key
    IN /\ At(r, "assign", "place")
       /\ Free(r, k)
       /\ job[r].found \/ row[k].status = "none"
       /\ Commit(r, k, Proposed(k))
       /\ Answer(r)
       /\ UNCHANGED <<item, driver, booking, earned>>

\* P2002, ASSIGNMENT_EXISTS: the row was inserted since; the transaction is
\* rolled back. PlaceConflictStays tries the insert again.
PlaceConflictStays(r) ==
    /\ At(r, "assign", "place")
    /\ ~job[r].found /\ row[job[r].key].status # "none"
    /\ UNCHANGED state
PlaceConflict(r) ==
    /\ At(r, "assign", "place")
    /\ ~job[r].found /\ row[job[r].key].status # "none"
    /\ Answer(r)
    /\ UNCHANGED tables

\* Every item of the booking is stamped with the driver who accepts; StampFree
\* skips those that have a driver.
StampFree(i, k) ==
    IF item[i].booking = BookingOf(k) /\ item[i].driver = None
    THEN [item[i] EXCEPT !.driver = DriverOf(k), !.byHand = FALSE]
    ELSE item[i]
Stamp(i, k) ==
    IF item[i].booking = BookingOf(k)
    THEN [item[i] EXCEPT !.driver = DriverOf(k), !.byHand = FALSE]
    ELSE item[i]

Accept(r) ==
    LET k == job[r].key
    IN /\ At(r, "accept", "write")
       /\ Free(r, k)
       /\ Commit(r, k, Stamped(k, "accepted", "accepted"))
       /\ item' = [i \in Items |-> Stamp(i, k)]
       /\ earned' = earned \cup {<<k, "accepted">>}
       /\ Answer(r)
       /\ UNCHANGED <<driver, booking>>

-----------------------------------------------------------------------------
(* The driver's other steps and the removal of an assignment.  Each update *)
(* goes by id and does not look at the status again.                       *)

Start(r) ==
    LET k == job[r].key
    IN /\ At(r, "start", "write")
       /\ Free(r, k)
       /\ Commit(r, k, Stamped(k, "in_progress", "started"))
       /\ driver' = [driver EXCEPT ![DriverOf(k)] = "en_route"]
       /\ earned' = earned \cup {<<k, "in_progress">>}
       /\ Answer(r)
       /\ UNCHANGED <<item, booking>>

\* The transaction reads the booking with the row and writes it by id.
Complete(r) ==
    LET k == job[r].key
    IN /\ At(r, "complete", "write")
       /\ Free(r, k)
       /\ Become(r, [job[r] EXCEPT !.pc = "close", !.held = {k},
                                   !.found = booking[BookingOf(k)] = "active"])
       /\ UNCHANGED tables

CloseBooking(r) ==
    LET k == job[r].key
    IN /\ job[r].pc = "close"
       /\ Commit(r, k, Stamped(k, "completed", "completed"))
       /\ driver' = [driver EXCEPT ![DriverOf(k)] = "available"]
       /\ booking' = [booking EXCEPT
                        ![BookingOf(k)] = IF job[r].found THEN "completed" ELSE @]
       /\ Answer(r)
       /\ UNCHANGED <<item, earned>>

\* The items are cleared by a statement of its own.
Reject(r) ==
    /\ At(r, "reject", "write")
    /\ Free(r, job[r].key)
    /\ Commit(r, job[r].key, Stamped(job[r].key, "rejected", "rejected"))
    /\ Goto(r, "clear")
    /\ UNCHANGED <<item, driver, booking, earned>>

Unassign(r) ==
    LET k == job[r].key
    IN /\ At(r, "unassign", "write")
       /\ Free(r, k)
       /\ Commit(r, k, [row[k] EXCEPT !.status = "cancelled"])
       /\ IF job[r].found THEN Answer(r) ELSE Goto(r, "clear")
       /\ UNCHANGED <<item, driver, booking, earned>>

\* The driver's stamps are removed; ClearNothing leaves them.
ClearNothing(r) == job[r].pc = "clear" /\ Answer(r) /\ UNCHANGED tables
Clear(r) ==
    LET k == job[r].key
    IN /\ job[r].pc = "clear"
       /\ item' = [i \in Items |->
                     IF item[i].booking = BookingOf(k) /\ item[i].driver = DriverOf(k)
                     THEN [item[i] EXCEPT !.driver = None, !.byHand = FALSE]
                     ELSE item[i]]
       /\ Answer(r)
       /\ UNCHANGED <<row, driver, booking, earned>>

-----------------------------------------------------------------------------
(* The itinerary.                                                          *)

\* createItem without a driver in the body takes a committed one, if any;
\* AddGuardPending takes any open one.
AddGuardPending(r) ==
    LET open == {DriverOf(k) : k \in OpenOn(job[r].booking)}
    IN /\ At(r, "add", "guard")
       /\ \E d \in IF open = {} THEN {None} ELSE open :
             Become(r, [job[r] EXCEPT !.pc = "insert", !.driver = d])
       /\ UNCHANGED tables
AddGuard(r) ==
    LET committed == {DriverOf(k) : k \in {k \in OpenOn(job[r].booking) :
                                             row[k].status \in CommittedStatuses}}
    IN /\ At(r, "add", "guard")
       /\ \E d \in IF committed = {} THEN {None} ELSE committed :
             Become(r, [job[r] EXCEPT !.pc = "insert", !.driver = d])
       /\ UNCHANGED tables

AddItem(r) ==
    /\ At(r, "add", "insert")
    /\ item' = [item EXCEPT ![job[r].id] = [booking |-> job[r].booking,
                                            driver |-> job[r].driver,
                                            byHand |-> FALSE]]
    /\ Answer(r)
    /\ UNCHANGED <<row, driver, booking, earned>>

\* One statement each: staff write a driver into an item, add an item with a
\* driver, or delete it.
StampByHand(i, d) ==
    /\ item[i] # NoItem
    /\ item' = [item EXCEPT ![i] = [@ EXCEPT !.driver = d, !.byHand = TRUE]]
    /\ UNCHANGED <<row, driver, booking, job, earned, starts, faults>>

AddByHand(i, b, d) ==
    /\ Unused(i)
    /\ item' = [item EXCEPT ![i] = [booking |-> b, driver |-> d, byHand |-> TRUE]]
    /\ UNCHANGED <<row, driver, booking, job, earned, starts, faults>>

DeleteItem(i) ==
    /\ item[i] # NoItem
    /\ item' = [item EXCEPT ![i] = NoItem]
    /\ UNCHANGED <<row, driver, booking, job, earned, starts, faults>>

\* COMMIT of an import, which replaces a booking's items by new ones without a
\* driver: those its DELETE has found; one inserted since that statement stays.
Import(b, gone, new) ==
    /\ \A i \in gone : item[i].booking = b
    /\ \A i \in new : Unused(i) \/ i \in gone
    /\ item' = [i \in Items |->
                  IF i \in new THEN [NoItem EXCEPT !.booking = b]
                  ELSE IF i \in gone THEN NoItem
                  ELSE item[i]]
    /\ UNCHANGED <<row, driver, booking, job, earned, starts, faults>>

-----------------------------------------------------------------------------
(* The rest of the system.                                                 *)

\* PATCH /drivers/:id and the driver's own PATCH of his status.
SetStatus(d, status) ==
    /\ driver' = [driver EXCEPT ![d] = status]
    /\ UNCHANGED <<row, item, booking, job, earned, starts, faults>>

\* PATCH /bookings/:id with a status.
SetBooking(b, status) ==
    /\ booking' = [booking EXCEPT ![b] = status]
    /\ UNCHANGED <<row, item, driver, job, earned, starts, faults>>

\* r waits for a row that a transaction of s has written.
Wanted(r) ==
    IF job[r].pc = "cancel" THEN job[r].todo
    ELSE IF job[r].pc = "write" \/ (job[r].pc = "place" /\ job[r].found)
    THEN {job[r].key} ELSE {}
WaitsFor(r, s) == r # s /\ \E k \in Wanted(r) : LockedBy(s, k)

\* PostgreSQL ends a transaction of a cycle of waiting ones.
DeadlockDetected(r) ==
    /\ \E S \in SUBSET Handlers :
          /\ r \in S
          /\ \A q \in S : /\ \E s \in S : WaitsFor(q, s)
                          /\ \E s \in S : WaitsFor(s, q)
    /\ Answer(r)
    /\ UNCHANGED tables

\* The handler's process dies or a call throws: an open transaction is rolled
\* back, what is committed stays.
Abort(r) ==
    /\ ~Idle(r)
    /\ faults < MaxFaults
    /\ faults' = faults + 1
    /\ job' = [job EXCEPT ![r] = NoJob]
    /\ UNCHANGED <<tables, starts>>

Advance(r) ==
    \/ AssignGuard(r) \/ DriverGuard(r) \/ UnassignGuard(r) \/ AddGuard(r)
    \/ Scan(r) \/ CancelDone(r) \/ Find(r) \/ Place(r) \/ PlaceConflict(r)
    \/ Accept(r) \/ Start(r) \/ Complete(r) \/ CloseBooking(r) \/ Reject(r) \/ Unassign(r)
    \/ Clear(r) \/ AddItem(r) \/ DeadlockDetected(r)
    \/ \E k \in Keys : CancelOne(r, k)

Serve ==
    \/ \E r \in Handlers :
          \/ \E op \in Ops, k \in Keys : Request(r, op, k)
          \/ \E b \in Bookings, i \in Items : RequestItem(r, b, i)
          \/ Advance(r)
          \/ Abort(r)
    \/ \E i \in Items : DeleteItem(i) \/ \E d \in ByHand : StampByHand(i, d)
    \/ \E b \in Bookings :
          \/ \E gone \in SUBSET Items, new \in SUBSET Items : Import(b, gone, new)
          \/ \E i \in Items, d \in ByHand : AddByHand(i, b, d)
    \/ \E d \in Drivers, status \in OwnStatuses : SetStatus(d, status)
    \/ \E b \in Bookings, status \in BookingStatuses : SetBooking(b, status)

-----------------------------------------------------------------------------
(* History.  No lock is taken for a guard, and a driver may be assigned to  *)
(* two bookings at once, so what follows notes whom a step overtakes.  The  *)
(* code reads none of it.                                                   *)

\* The booking a request is about.
About(j) == IF j.op = "add" THEN j.booking ELSE BookingOf(j.key)

\* r has looked and not written yet, and this step is another one's.
Waits(r) == job[r].pc \notin {"idle", "guard", "clear"} /\ job'[r] = job[r]

Changed(k) == row'[k] # row[k]

\* A row of the booking changes while r, which has looked at its rows, waits.
NoteCrossed ==
    crossed' = crossed \cup
        {b \in Bookings : /\ \E k \in Keys : BookingOf(k) = b /\ Changed(k)
                          /\ \E r \in Handlers : Waits(r) /\ About(job[r]) = b}

\* A row of the driver changes while r, which is about to write one of his, waits.
NoteContested ==
    contested' = contested \cup
        {d \in Drivers : /\ \E k \in Keys : DriverOf(k) = d /\ Changed(k)
                         /\ \E r \in Handlers : /\ Waits(r)
                                                  /\ job[r].op # "add"
                                                  /\ DriverOf(job[r].key) = d}

\* A declined row is committed and the handler dies before it clears the items.
NoteTorn ==
    torn' = torn \cup
        {b \in Bookings : \E r \in Handlers : /\ job[r].pc = "clear"
                                               /\ BookingOf(job[r].key) = b
                                               /\ faults' # faults /\ job'[r] = NoJob}

Note == NoteCrossed /\ NoteContested /\ NoteTorn

Next == Serve /\ Note

Spec == Init /\ [][Next]_vars

\* A handler that can go on does: Node resumes it when its statement returns,
\* and PostgreSQL ends the statement of a deadlock's victim.
Fairness == \A r \in Handlers : WF_state(Advance(r))

FairSpec == Spec /\ Fairness

-----------------------------------------------------------------------------
(* Properties of concurrent handlers.                                      *)

\* An assignment counts as accepted, under way or completed only by steps of its
\* own driver, whatever staff and the other drivers do at the same time.
StatusIsEarned ==
    \A k \in Keys :
        /\ row[k].status \in CommittedStatuses \cup {"completed"} =>
              <<k, "accepted">> \in earned
        /\ row[k].status \in {"in_progress", "completed"} =>
              <<k, "in_progress">> \in earned

\* The system itself writes a driver into a booking's itinerary only after he
\* has accepted an assignment of this booking.
StampNeedsConsent ==
    \A i \in Items :
        item[i].driver # None /\ ~item[i].byHand =>
            \E k \in Keys : /\ BookingOf(k) = item[i].booking
                            /\ DriverOf(k) = item[i].driver
                            /\ <<k, "accepted">> \in earned

\* No request waits forever for the rows of another one.
RequestsEnd == \A r \in Handlers : ~Idle(r) ~> Idle(r)

-----------------------------------------------------------------------------
(* What overlapping requests and lost handlers leave of the promises.      *)

\* DRIVER_BUSY: a driver has open assignments of one booking at most.
OneBookingPerDriver ==
    \A j, k \in Keys :
        /\ DriverOf(j) = DriverOf(k)
        /\ row[j].status \in OpenStatuses /\ row[k].status \in OpenStatuses
        => BookingOf(j) = BookingOf(k)

\* A driver has open assignments of two bookings only if one of his rows changed
\* while a request that was about to write another, or the same, had looked.
BusyUnlessContested ==
    \A j, k \in Keys :
        /\ DriverOf(j) = DriverOf(k) /\ DriverOf(k) \notin contested
        /\ row[j].status \in OpenStatuses /\ row[k].status \in OpenStatuses
        => BookingOf(j) = BookingOf(k)

\* The time columns a client is shown tell how the status came about, unless the
\* booking's rows changed between the look and the write of one of its requests.
TimesTellTheStory ==
    \A k \in Keys :
        BookingOf(k) \notin crossed =>
            /\ row[k].status = "pending" => row[k].times = {}
            /\ row[k].status = "accepted" => row[k].times = {"accepted"}
            /\ row[k].status = "in_progress" => row[k].times = {"accepted", "started"}

\* While a driver is committed to a booking, its items name no other driver,
\* unless staff wrote one or a request was overtaken: a superseded driver's
\* stamps do not survive an accept.
CommittedOwnsItinerary ==
    \A k \in Keys, i \in Items :
        /\ BookingOf(k) \notin crossed
        /\ row[k].status \in CommittedStatuses
        /\ item[i].booking = BookingOf(k) /\ ~item[i].byHand
        => item[i].driver \in {None, DriverOf(k)}

\* A handler has declined an assignment of d to b and not yet cleared the items.
Clearing(b, d) ==
    \E r \in Handlers : /\ job[r].pc = "clear"
                        /\ BookingOf(job[r].key) = b /\ DriverOf(job[r].key) = d

\* A driver whose assignments of a booking were all declined is not on its
\* itinerary, once the request that declined is through: only its death before
\* the second statement, or a request that was overtaken, leaves him there.
DeclinedLeavesNoStamp ==
    \A b \in Bookings, d \in Drivers :
        /\ b \notin crossed \cup torn
        /\ ~Clearing(b, d)
        /\ \A t \in Dates : row[<<b, d, t>>].status \in {"none", "rejected"}
        /\ \E t \in Dates : row[<<b, d, t>>].status = "rejected"
        => \A i \in Items :
              item[i].booking = b /\ item[i].driver = d => item[i].byHand

\* The life of a booking's assignments, whose only exception is a booking at
\* which a request was overtaken.
Life == INSTANCE AssignmentLife WITH status <- [k \in Keys |-> row[k].status]

LifeSpec == Life!Spec
=============================================================================

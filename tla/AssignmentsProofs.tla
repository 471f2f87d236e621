------------------------- MODULE AssignmentsProofs -------------------------
(***************************************************************************)
(* Proofs about Assignments for every set of bookings, drivers, dates,     *)
(* items and handlers.                                                     *)
(***************************************************************************)
EXTENDS Assignments, TLAPS

-----------------------------------------------------------------------------
(* The inductive invariant.                                                *)

\* d has accepted an assignment of booking b.
Consented(b, d) ==
    \E k \in Keys : BookingOf(k) = b /\ DriverOf(k) = d /\ <<k, "accepted">> \in earned

\* What a request names, and where in the code it can be.
Shape(j) ==
    /\ j.op \in Ops \ {"add"} => j.key \in Keys
    /\ j.op = "add" => j.booking \in Bookings /\ j.id \in Items
    /\ j.pc \in {"scan", "cancel"} => j.op \in {"assign", "accept"}
    /\ j.pc = "close" => j.op = "complete"
    /\ j.pc = "clear" => j.op \in {"reject", "unassign"}

\* What a guard has seen stays earned, although the row may have changed since.
Seen(j) ==
    /\ j.op = "start" /\ j.pc = "write" => <<j.key, "accepted">> \in earned
    /\ j.op = "complete" /\ j.pc \in {"write", "close"} =>
          <<j.key, "accepted">> \in earned /\ <<j.key, "in_progress">> \in earned
    /\ j.op = "add" /\ j.pc = "insert" /\ j.driver # None =>
          Consented(j.booking, j.driver)

JobInv == \A r \in Handlers : Shape(job[r]) /\ Seen(job[r])

IInv == StateOK /\ JobInv /\ StatusIsEarned /\ StampNeedsConsent

\* What a row's status needs to have been earned.
Backed(k, status) ==
    /\ status \in CommittedStatuses \cup {"completed"} => <<k, "accepted">> \in earned
    /\ status \in {"in_progress", "completed"} => <<k, "in_progress">> \in earned

-----------------------------------------------------------------------------
(* Lemmas about what a step writes.                                        *)

LEMMA NoJobFits == NoJob \in Job /\ Shape(NoJob) /\ Seen(NoJob)
<1>1. NoJob \in Job
    BY DEF NoJob, Job, Ops
<1>2. Shape(NoJob) /\ Seen(NoJob)
    BY DEF NoJob, Shape, Seen, Ops
<1>3. QED
    BY <1>1, <1>2

\* The history only grows, so what the other handlers have seen stays true.
LEMMA JobStep ==
    ASSUME StateOK, JobInv, earned \subseteq earned',
           NEW r \in Handlers, NEW j \in Job, Shape(j), Seen(j),
           job' = [job EXCEPT ![r] = j]
    PROVE  job' \in [Handlers -> Job] /\ JobInv'
<1>1. job \in [Handlers -> Job]
    BY DEF StateOK
<1>2. job' \in [Handlers -> Job]
    BY <1>1
<1>3. ASSUME NEW s \in Handlers PROVE (Shape(job[s]) /\ Seen(job[s]))'
    <2>1. CASE s = r
        <3>1. job'[s] = j
            BY <1>1, <2>1
        <3>2. QED
            BY <3>1 DEF Shape, Seen, Consented
    <2>2. CASE s # r
        <3>1. job'[s] = job[s]
            BY <1>1, <2>2
        <3>2. Shape(job[s]) /\ Seen(job[s])
            BY DEF JobInv
        <3>3. QED
            BY <3>1, <3>2 DEF Shape, Seen, Consented
    <2>3. QED
        BY <2>1, <2>2
<1>4. QED
    BY <1>2, <1>3 DEF JobInv, Shape, Seen, Consented

\* A handler moves on and no table changes.
LEMMA MoveStep ==
    ASSUME IInv, UNCHANGED tables,
           NEW r \in Handlers, NEW j \in Job, Shape(j), Seen(j), Become(r, j)
    PROVE  IInv'
<1>1. earned' = earned /\ job' = [job EXCEPT ![r] = j]
    BY DEF tables, Become
<1>2. job' \in [Handlers -> Job] /\ JobInv'
    BY <1>1, JobStep DEF IInv
<1>3. QED
    BY <1>2 DEF IInv, StateOK, StatusIsEarned, StampNeedsConsent, tables, Become

LEMMA AnswerStep ==
    ASSUME IInv, UNCHANGED tables, NEW r \in Handlers, Answer(r)
    PROVE  IInv'
BY MoveStep, NoJobFits DEF Answer

\* A commit gives its own row a backed status and cancels others.
LEMMA CommitStep ==
    ASSUME StateOK, StatusIsEarned, earned \subseteq earned',
           NEW r \in Handlers, NEW k \in Keys, NEW new \in Row, Commit(r, k, new),
           new.status \in CommittedStatuses \cup {"completed"} => <<k, "accepted">> \in earned',
           new.status \in {"in_progress", "completed"} => <<k, "in_progress">> \in earned'
    PROVE  row' \in [Keys -> Row] /\ StatusIsEarned'
<1>1. row \in [Keys -> Row]
    BY DEF StateOK
<1>2. ASSUME NEW j \in Keys
      PROVE  row'[j] \in Row /\ Backed(j, row[j].status)'
    <2>1. CASE j = k
        BY <2>1 DEF Commit, Backed
    <2>2. CASE j # k /\ j \in job[r].held
        <3>1. row'[j] = [row[j] EXCEPT !.status = "cancelled"]
            BY <2>2 DEF Commit
        <3>2. row'[j] \in Row /\ row'[j].status = "cancelled"
            BY <1>1, <3>1 DEF Row
        <3>3. QED
            BY <3>2 DEF Backed, CommittedStatuses
    <2>3. CASE j # k /\ j \notin job[r].held
        <3>1. row'[j] = row[j]
            BY <2>3 DEF Commit
        <3>2. QED
            BY <1>1, <3>1 DEF Backed, StatusIsEarned
    <2>4. QED
        BY <2>1, <2>2, <2>3
<1>3. row' \in [Keys -> Row]
    BY <1>2 DEF Commit
<1>4. QED
    BY <1>2, <1>3 DEF StatusIsEarned, Backed

LEMMA StampedIsRow ==
    ASSUME StateOK, NEW k \in Keys,
           NEW status \in {"accepted", "in_progress", "rejected", "completed"},
           NEW time \in Times
    PROVE  Stamped(k, status, time) \in Row /\ Stamped(k, status, time).status = status
<1>1. row[k] \in Row
    BY DEF StateOK
<1>2. row[k].times \cup {time} \in SUBSET Times
    BY <1>1 DEF Row
<1>3. QED
    BY <1>2 DEF Stamped, Row, OpenStatuses

\* Items that lose their driver, are written by hand, keep what they have, or
\* name one who has accepted.
LEMMA ItemStep ==
    ASSUME StateOK, StampNeedsConsent, earned \subseteq earned',
           item' \in [Items -> Item],
           \A i \in Items : \/ item'[i].driver = None
                            \/ item'[i].byHand
                            \/ item'[i] = item[i]
                            \/ Consented(item[i].booking, item[i].driver)'
    PROVE  StampNeedsConsent'
<1> SUFFICES ASSUME NEW i \in Items, item'[i].driver # None, ~item'[i].byHand
             PROVE  Consented(item[i].booking, item[i].driver)'
    BY DEF StampNeedsConsent, Consented
<1>1. CASE item'[i] = item[i]
    <2>1. Consented(item[i].booking, item[i].driver)
        BY <1>1 DEF StampNeedsConsent, Consented
    <2>2. QED
        BY <1>1, <2>1 DEF Consented
<1>2. CASE Consented(item[i].booking, item[i].driver)'
    BY <1>2
<1>3. QED
    BY <1>1, <1>2

\* Nothing but items changes.
LEMMA EditStep ==
    ASSUME IInv, UNCHANGED <<row, driver, booking, job, earned, starts, faults>>,
           item' \in [Items -> Item],
           \A i \in Items : \/ item'[i].driver = None
                            \/ item'[i].byHand
                            \/ item'[i] = item[i]
    PROVE  IInv'
<1>1. StampNeedsConsent'
    BY ItemStep DEF IInv
<1>2. QED
    BY <1>1 DEF IInv, StateOK, JobInv, Shape, Seen, Consented, StatusIsEarned

-----------------------------------------------------------------------------
(* The initial state and the requests.                                     *)

LEMMA InitHolds == Init => IInv
<1> SUFFICES ASSUME Init PROVE IInv
    OBVIOUS
<1>1. NoRow \in Row /\ NoItem \in Item
    BY DEF NoRow, NoItem, Row, Item
<1>2. StateOK
    BY <1>1, NoJobFits, BoundsAssumption DEF Init, StateOK
<1>3. JobInv
    BY NoJobFits DEF Init, JobInv
<1>4. StatusIsEarned /\ StampNeedsConsent
    BY DEF Init, StatusIsEarned, StampNeedsConsent, NoRow, NoItem, CommittedStatuses
<1>5. QED
    BY <1>2, <1>3, <1>4 DEF IInv

LEMMA BeginStep ==
    ASSUME IInv, NEW r \in Handlers, NEW j \in Job, Shape(j), Seen(j), Begin(r, j)
    PROVE  IInv'
<1>1. earned' = earned /\ job' = [job EXCEPT ![r] = j]
    BY DEF Begin, tables
<1>2. job' \in [Handlers -> Job] /\ JobInv'
    BY <1>1, JobStep DEF IInv
<1>3. starts' \in 0 .. MaxStarts
    BY BoundsAssumption DEF IInv, StateOK, Begin
<1>4. QED
    BY <1>2, <1>3 DEF IInv, StateOK, StatusIsEarned, StampNeedsConsent, Begin, tables

LEMMA RequestStep ==
    ASSUME IInv, NEW r \in Handlers, NEW op \in Ops, NEW k \in Keys, Request(r, op, k)
    PROVE  IInv'
<1> DEFINE j == [NoJob EXCEPT !.op = op, !.pc = "guard", !.key = k]
<1>1. j \in Job /\ j.op = op /\ j.pc = "guard" /\ j.key = k
    BY NoJobFits DEF NoJob, Job
<1>2. op # "add"
    BY DEF Request
<1> HIDE DEF j
<1>3. Shape(j) /\ Seen(j)
    BY <1>1, <1>2 DEF Shape, Seen
<1>4. QED
    BY <1>1, <1>3, BeginStep DEF Request, j

LEMMA RequestItemStep ==
    ASSUME IInv, NEW r \in Handlers, NEW b \in Bookings, NEW i \in Items,
           RequestItem(r, b, i)
    PROVE  IInv'
<1> DEFINE j == [NoJob EXCEPT !.op = "add", !.pc = "guard", !.booking = b, !.id = i]
<1>1. j \in Job /\ j.op = "add" /\ j.pc = "guard" /\ j.booking = b /\ j.id = i
    BY NoJobFits DEF NoJob, Job, Ops
<1> HIDE DEF j
<1>2. Shape(j) /\ Seen(j)
    BY <1>1 DEF Shape, Seen, Ops
<1>3. QED
    BY <1>1, <1>2, BeginStep DEF RequestItem, j

-----------------------------------------------------------------------------
(* Guards and transactions.                                                *)

LEMMA OwnJob ==
    ASSUME IInv, NEW r \in Handlers
    PROVE  job[r] \in Job /\ Shape(job[r]) /\ Seen(job[r])
BY DEF IInv, StateOK, JobInv

LEMMA GuardStep ==
    ASSUME IInv, NEW r \in Handlers, AssignGuard(r)
    PROVE  IInv'
<1>1. CASE Answer(r)
    BY <1>1, AnswerStep DEF AssignGuard
<1>2. CASE Goto(r, "scan")
    <2> DEFINE j == [job[r] EXCEPT !.pc = "scan"]
    <2>1. job[r] \in Job /\ Shape(job[r]) /\ job[r].op = "assign"
        BY OwnJob DEF AssignGuard, At
    <2>2. j \in Job /\ j.op = "assign" /\ j.pc = "scan" /\ j.key = job[r].key
        BY <2>1 DEF Job
    <2> HIDE DEF j
    <2>3. Shape(j) /\ Seen(j)
        BY <2>1, <2>2 DEF Shape, Seen
    <2>4. QED
        BY <1>2, <2>2, <2>3, MoveStep DEF AssignGuard, Goto, j
<1>3. QED
    BY <1>1, <1>2 DEF AssignGuard

\* The row that a driver's request finds is backed; its key stays.
LEMMA DriverGuardStep ==
    ASSUME IInv, NEW r \in Handlers, DriverGuard(r)
    PROVE  IInv'
<1> DEFINE op == job[r].op
           pc == IF op = "accept" THEN "scan" ELSE "write"
           j == [job[r] EXCEPT !.pc = pc]
<1>1. CASE Answer(r)
    BY <1>1, AnswerStep DEF DriverGuard
<1>2. CASE row[job[r].key].status \in Needs(op) /\ Goto(r, pc)
    <2>1. /\ job[r] \in Job /\ Shape(job[r])
          /\ op \in {"accept", "reject", "start", "complete"}
        BY OwnJob DEF DriverGuard
    <2>2. job[r].key \in Keys
        BY <2>1 DEF Shape, Ops
    <2>3. j \in Job /\ j.op = op /\ j.pc = pc /\ j.key = job[r].key
        BY <2>1 DEF Job
    <2>4. Shape(j)
        BY <2>1, <2>2, <2>3 DEF Shape
    <2>5. op = "start" => <<job[r].key, "accepted">> \in earned
        BY <1>2, <2>2 DEF Needs, IInv, StatusIsEarned, CommittedStatuses
    <2>6. op = "complete" => /\ <<job[r].key, "accepted">> \in earned
                             /\ <<job[r].key, "in_progress">> \in earned
        BY <1>2, <2>2 DEF Needs, IInv, StatusIsEarned, CommittedStatuses
    <2>7. Seen(j)
        BY <2>1, <2>3, <2>5, <2>6 DEF Seen
    <2>8. QED
        BY <1>2, <2>3, <2>4, <2>7, MoveStep DEF DriverGuard, Goto
<1>3. QED
    BY <1>1, <1>2 DEF DriverGuard

LEMMA UnassignGuardStep ==
    ASSUME IInv, NEW r \in Handlers, UnassignGuard(r)
    PROVE  IInv'
<1> DEFINE f == row[job[r].key].status = "rejected"
           j == [job[r] EXCEPT !.pc = "write", !.found = f]
<1>1. job[r] \in Job /\ Shape(job[r]) /\ job[r].op = "unassign"
    BY OwnJob DEF UnassignGuard, At
<1>2. f \in BOOLEAN
    OBVIOUS
<1>3. j \in Job /\ j.op = "unassign" /\ j.pc = "write" /\ j.key = job[r].key
    <2> HIDE DEF f
    <2>1. QED
        BY <1>1, <1>2 DEF Job
<1>4. UNCHANGED tables /\ Become(r, j)
    BY DEF UnassignGuard
<1> HIDE DEF j
<1>5. Shape(j) /\ Seen(j)
    BY <1>1, <1>3 DEF Shape, Seen
<1>6. QED
    BY <1>3, <1>4, <1>5, MoveStep

LEMMA ScanStep ==
    ASSUME IInv, NEW r \in Handlers, Scan(r)
    PROVE  IInv'
<1> DEFINE k == job[r].key
           todo == IF job[r].op = "assign" THEN OpenOn(BookingOf(k))
                   ELSE OpenOn(BookingOf(k)) \ {k}
           j == [job[r] EXCEPT !.pc = "cancel", !.todo = todo]
<1>1. job[r] \in Job /\ Shape(job[r]) /\ job[r].op \in {"assign", "accept"}
    BY OwnJob DEF Scan, Shape
<1>2. todo \in SUBSET Keys
    BY DEF OpenOn
<1>3. UNCHANGED tables /\ Become(r, j)
    BY DEF Scan
<1> HIDE DEF todo
<1>4. j \in Job /\ j.op = job[r].op /\ j.pc = "cancel" /\ j.key = job[r].key
    BY <1>1, <1>2 DEF Job
<1> HIDE DEF j
<1>5. Shape(j) /\ Seen(j)
    BY <1>1, <1>4 DEF Shape, Seen
<1>6. QED
    BY <1>3, <1>4, <1>5, MoveStep

LEMMA CancelOneStep ==
    ASSUME IInv, NEW r \in Handlers, NEW k \in Keys, CancelOne(r, k)
    PROVE  IInv'
<1> DEFINE held == IF row[k].status \in OpenStatuses THEN job[r].held \cup {k}
                   ELSE job[r].held
           j == [job[r] EXCEPT !.todo = @ \ {k}, !.held = held]
<1>1. /\ job[r] \in Job /\ Shape(job[r])
      /\ job[r].pc = "cancel" /\ job[r].op \in {"assign", "accept"}
    BY OwnJob DEF CancelOne, Shape
<1>2. held \in SUBSET Keys
    BY <1>1 DEF Job
<1>3. UNCHANGED tables /\ Become(r, j)
    BY DEF CancelOne
<1> HIDE DEF held
<1>4. j \in Job /\ j.op = job[r].op /\ j.pc = "cancel" /\ j.key = job[r].key
    BY <1>1, <1>2 DEF Job
<1> HIDE DEF j
<1>5. Shape(j) /\ Seen(j)
    BY <1>1, <1>4 DEF Shape, Seen
<1>6. QED
    BY <1>3, <1>4, <1>5, MoveStep

LEMMA CancelDoneStep ==
    ASSUME IInv, NEW r \in Handlers, CancelDone(r)
    PROVE  IInv'
<1> DEFINE pc == IF job[r].op = "assign" THEN "find" ELSE "write"
           j == [job[r] EXCEPT !.pc = pc]
<1>1. job[r] \in Job /\ Shape(job[r]) /\ job[r].op \in {"assign", "accept"}
    BY OwnJob DEF CancelDone, Shape
<1>2. j \in Job /\ j.op = job[r].op /\ j.pc = pc /\ j.key = job[r].key
    BY <1>1 DEF Job
<1>3. UNCHANGED tables /\ Become(r, j)
    BY DEF CancelDone, Goto
<1> HIDE DEF j
<1>4. Shape(j) /\ Seen(j)
    BY <1>1, <1>2 DEF Shape, Seen
<1>5. QED
    BY <1>2, <1>3, <1>4, MoveStep

LEMMA FindStep ==
    ASSUME IInv, NEW r \in Handlers, Find(r)
    PROVE  IInv'
<1> DEFINE f == row[job[r].key].status # "none"
           j == [job[r] EXCEPT !.pc = "place", !.found = f]
<1>1. job[r] \in Job /\ Shape(job[r]) /\ job[r].op = "assign"
    BY OwnJob DEF Find, At
<1>2. f \in BOOLEAN
    OBVIOUS
<1>3. j \in Job /\ j.op = "assign" /\ j.pc = "place" /\ j.key = job[r].key
    <2> HIDE DEF f
    <2>1. QED
        BY <1>1, <1>2 DEF Job
<1>4. UNCHANGED tables /\ Become(r, j)
    BY DEF Find
<1> HIDE DEF j
<1>5. Shape(j) /\ Seen(j)
    BY <1>1, <1>3 DEF Shape, Seen
<1>6. QED
    BY <1>3, <1>4, <1>5, MoveStep

-----------------------------------------------------------------------------
(* Commits.                                                                *)

\* A commit whose new row is backed, whose handler goes on soundly and whose
\* other writes are sound, preserves the invariant.
LEMMA CommitHolds ==
    ASSUME IInv, NEW r \in Handlers, NEW k \in Keys, NEW new \in Row,
           Commit(r, k, new),
           new.status \in CommittedStatuses \cup {"completed"} => <<k, "accepted">> \in earned',
           new.status \in {"in_progress", "completed"} => <<k, "in_progress">> \in earned',
           earned \subseteq earned', earned' \subseteq Keys \X {"accepted", "in_progress"},
           NEW j \in Job, Shape(j), Seen(j), Become(r, j),
           item' \in [Items -> Item], StampNeedsConsent',
           driver' \in [Drivers -> {"available", "en_route", "resting", "off_duty"}],
           booking' \in [Bookings -> {"active", "completed", "cancelled"}]
    PROVE  IInv'
<1>1. row' \in [Keys -> Row] /\ StatusIsEarned'
    BY CommitStep DEF IInv
<1>2. job' \in [Handlers -> Job] /\ JobInv'
    BY JobStep DEF IInv, Become
<1>3. starts' \in 0 .. MaxStarts /\ faults' \in 0 .. MaxFaults
    BY DEF IInv, StateOK, Become
<1>4. QED
    BY <1>1, <1>2, <1>3 DEF IInv, StateOK

\* The same when only row changes.
LEMMA RowCommit ==
    ASSUME IInv, NEW r \in Handlers, NEW k \in Keys, NEW new \in Row,
           Commit(r, k, new), new.status \notin CommittedStatuses \cup {"completed"},
           NEW j \in Job, Shape(j), Seen(j), Become(r, j),
           UNCHANGED <<item, driver, booking, earned>>
    PROVE  IInv'
<1>1. new.status \notin {"in_progress", "completed"}
    BY DEF CommittedStatuses
<1>2. StampNeedsConsent'
    BY DEF IInv, StampNeedsConsent
<1>3. QED
    BY <1>1, <1>2, CommitHolds DEF IInv, StateOK

LEMMA PlaceStep ==
    ASSUME IInv, NEW r \in Handlers, Place(r)
    PROVE  IInv'
<1>1. job[r].key \in Keys
    BY OwnJob DEF Place, At, Shape, Ops
<1>2. /\ Proposed(job[r].key) \in Row
      /\ Proposed(job[r].key).status \notin CommittedStatuses \cup {"completed"}
    BY DEF Proposed, Row, OpenStatuses, CommittedStatuses
<1>3. QED
    BY <1>1, <1>2, NoJobFits, RowCommit DEF Place, Answer

LEMMA AcceptStep ==
    ASSUME IInv, NEW r \in Handlers, Accept(r)
    PROVE  IInv'
<1> DEFINE k == job[r].key
           new == Stamped(k, "accepted", "accepted")
<1>1. k \in Keys
    BY OwnJob DEF Accept, At, Shape, Ops
<1>2. new \in Row /\ new.status = "accepted"
    BY <1>1, StampedIsRow DEF IInv, Times
<1>3. earned' = earned \cup {<<k, "accepted">>} /\ item' = [i \in Items |-> Stamp(i, k)]
      /\ Commit(r, k, new) /\ Become(r, NoJob) /\ UNCHANGED <<driver, booking>>
    BY DEF Accept, Answer
<1> HIDE DEF new
<1>4. /\ earned \subseteq earned'
      /\ earned' \subseteq Keys \X {"accepted", "in_progress"}
    BY <1>1, <1>3 DEF IInv, StateOK
<1>5. \A i \in Items : /\ Stamp(i, k) \in Item
                       /\ \/ Stamp(i, k) = item[i]
                          \/ /\ Stamp(i, k).booking = BookingOf(k)
                             /\ Stamp(i, k).driver = DriverOf(k)
    <2> TAKE i \in Items
    <2>1. item[i] \in Item
        BY DEF IInv, StateOK
    <2>2. DriverOf(k) \in Drivers
        BY <1>1 DEF Keys, DriverOf
    <2>3. QED
        BY <2>1, <2>2 DEF Stamp, Item
<1>6. item' \in [Items -> Item]
    BY <1>3, <1>5
<1>7. \A i \in Items : \/ item'[i] = item[i]
                       \/ /\ item'[i].booking = BookingOf(k)
                          /\ item'[i].driver = DriverOf(k)
    BY <1>3, <1>5
<1> HIDE DEF k
<1>8. <<k, "accepted">> \in earned'
    BY <1>3
<1>9. StampNeedsConsent'
    BY <1>1, <1>4, <1>7, <1>8 DEF IInv, StampNeedsConsent
<1>10. QED
    BY <1>1, <1>2, <1>3, <1>4, <1>6, <1>8, <1>9, NoJobFits, CommitHolds
    DEF IInv, StateOK

\* The guard has seen the row accepted.
LEMMA StartStep ==
    ASSUME IInv, NEW r \in Handlers, Start(r)
    PROVE  IInv'
<1> DEFINE k == job[r].key
           new == Stamped(k, "in_progress", "started")
<1>1. k \in Keys /\ <<k, "accepted">> \in earned
    BY OwnJob DEF Start, At, Shape, Ops, Seen
<1>2. new \in Row /\ new.status = "in_progress"
    BY <1>1, StampedIsRow DEF IInv, Times
<1>3. /\ earned' = earned \cup {<<k, "in_progress">>} /\ UNCHANGED <<item, booking>>
      /\ driver' = [driver EXCEPT ![DriverOf(k)] = "en_route"]
      /\ Commit(r, k, new) /\ Become(r, NoJob)
    BY DEF Start, Answer
<1> HIDE DEF new, k
<1>4. earned \subseteq earned' /\ earned' \subseteq Keys \X {"accepted", "in_progress"}
    BY <1>1, <1>3 DEF IInv, StateOK
<1>5. driver' \in [Drivers -> {"available", "en_route", "resting", "off_duty"}]
    BY <1>3 DEF IInv, StateOK
<1>6. StampNeedsConsent'
    BY <1>3, <1>4 DEF IInv, StampNeedsConsent
<1>7. <<k, "accepted">> \in earned' /\ <<k, "in_progress">> \in earned'
    BY <1>1, <1>3
<1>8. item' \in [Items -> Item]
      /\ booking' \in [Bookings -> {"active", "completed", "cancelled"}]
    BY <1>3 DEF IInv, StateOK
<1>9. QED
    BY <1>1, <1>2, <1>3, <1>4, <1>5, <1>6, <1>7, <1>8, NoJobFits, CommitHolds

LEMMA CompleteStep ==
    ASSUME IInv, NEW r \in Handlers, Complete(r)
    PROVE  IInv'
<1> DEFINE k == job[r].key
           f == booking[BookingOf(k)] = "active"
           j == [job[r] EXCEPT !.pc = "close", !.held = {k}, !.found = f]
<1>1. job[r] \in Job /\ job[r].op = "complete"
    BY OwnJob DEF Complete, At
<1>2. /\ k \in Keys
      /\ <<k, "accepted">> \in earned /\ <<k, "in_progress">> \in earned
    BY OwnJob DEF Complete, At, Shape, Ops, Seen
<1>3. UNCHANGED tables /\ Become(r, j)
    BY DEF Complete
<1>4. f \in BOOLEAN
    OBVIOUS
<1> HIDE DEF f
<1>5. j \in Job /\ j.op = "complete" /\ j.pc = "close" /\ j.key = k
    BY <1>1, <1>2, <1>4 DEF Job
<1> HIDE DEF j, k
<1>6. Shape(j) /\ Seen(j)
    BY <1>2, <1>5 DEF Shape, Seen
<1>7. QED
    BY <1>3, <1>5, <1>6, MoveStep

\* The guard has seen the row in progress.
LEMMA CloseBookingStep ==
    ASSUME IInv, NEW r \in Handlers, CloseBooking(r)
    PROVE  IInv'
<1> DEFINE k == job[r].key
           new == Stamped(k, "completed", "completed")
           status == IF job[r].found THEN "completed" ELSE booking[BookingOf(k)]
<1>1. k \in Keys /\ <<k, "accepted">> \in earned /\ <<k, "in_progress">> \in earned
    BY OwnJob DEF CloseBooking, Shape, Ops, Seen
<1>2. new \in Row /\ new.status = "completed"
    BY <1>1, StampedIsRow DEF IInv, Times
<1>3. /\ UNCHANGED <<item, earned>>
      /\ driver' = [driver EXCEPT ![DriverOf(k)] = "available"]
      /\ booking' = [booking EXCEPT ![BookingOf(k)] = status]
      /\ Commit(r, k, new) /\ Become(r, NoJob)
    BY DEF CloseBooking, Answer
<1>4. status \in {"active", "completed", "cancelled"}
    BY <1>1 DEF IInv, StateOK, Keys, BookingOf
<1> HIDE DEF new, k, status
<1>5. driver' \in [Drivers -> {"available", "en_route", "resting", "off_duty"}]
      /\ booking' \in [Bookings -> {"active", "completed", "cancelled"}]
    BY <1>3, <1>4 DEF IInv, StateOK
<1>6. /\ StampNeedsConsent' /\ item' \in [Items -> Item]
      /\ earned \subseteq earned' /\ earned' \subseteq Keys \X {"accepted", "in_progress"}
    BY <1>3 DEF IInv, StateOK, StampNeedsConsent
<1>7. QED
    BY <1>1, <1>2, <1>3, <1>5, <1>6, NoJobFits, CommitHolds

\* The job that goes on to clear the items.
LEMMA ClearingJob ==
    ASSUME NEW j \in Job, Shape(j), j.op \in {"reject", "unassign"}
    PROVE  LET c == [j EXCEPT !.pc = "clear"] IN c \in Job /\ Shape(c) /\ Seen(c)
<1> DEFINE c == [j EXCEPT !.pc = "clear"]
<1>1. c \in Job /\ c.op = j.op /\ c.pc = "clear" /\ c.key = j.key
    BY DEF Job
<1> HIDE DEF c
<1>2. Shape(c) /\ Seen(c)
    BY <1>1 DEF Shape, Seen
<1>3. QED
    BY <1>1, <1>2 DEF c

LEMMA RejectStep ==
    ASSUME IInv, NEW r \in Handlers, Reject(r)
    PROVE  IInv'
<1>1. job[r] \in Job /\ Shape(job[r]) /\ job[r].op = "reject" /\ job[r].key \in Keys
    BY OwnJob DEF Reject, At, Shape, Ops
<1>2. /\ Stamped(job[r].key, "rejected", "rejected") \in Row
      /\ Stamped(job[r].key, "rejected", "rejected").status
            \notin CommittedStatuses \cup {"completed"}
    BY <1>1, StampedIsRow DEF IInv, Times, CommittedStatuses
<1>3. QED
    BY <1>1, <1>2, ClearingJob, RowCommit DEF Reject, Goto

LEMMA UnassignStep ==
    ASSUME IInv, NEW r \in Handlers, Unassign(r)
    PROVE  IInv'
<1> DEFINE new == [row[job[r].key] EXCEPT !.status = "cancelled"]
<1>1. job[r] \in Job /\ Shape(job[r]) /\ job[r].op = "unassign" /\ job[r].key \in Keys
    BY OwnJob DEF Unassign, At, Shape, Ops
<1>2. row[job[r].key] \in Row
    BY <1>1 DEF IInv, StateOK
<1>3. new \in Row /\ new.status \notin CommittedStatuses \cup {"completed"}
    BY <1>2 DEF Row, CommittedStatuses
<1>4. Commit(r, job[r].key, new) /\ UNCHANGED <<item, driver, booking, earned>>
    BY DEF Unassign
<1> HIDE DEF new
<1>5. CASE Answer(r)
    BY <1>1, <1>3, <1>4, <1>5, NoJobFits, RowCommit DEF Answer
<1>6. CASE Goto(r, "clear")
    BY <1>1, <1>3, <1>4, <1>6, ClearingJob, RowCommit DEF Goto
<1>7. QED
    BY <1>5, <1>6 DEF Unassign

-----------------------------------------------------------------------------
(* The itinerary and the rest of the system.                               *)

\* A handler finishes with a write to items.
LEMMA ItemCommit ==
    ASSUME IInv, NEW r \in Handlers, Answer(r), UNCHANGED <<row, driver, booking, earned>>,
           item' \in [Items -> Item], StampNeedsConsent'
    PROVE  IInv'
<1>1. job' \in [Handlers -> Job] /\ JobInv'
    BY NoJobFits, JobStep DEF IInv, Answer, Become
<1>2. QED
    BY <1>1 DEF IInv, StateOK, StatusIsEarned, Answer, Become

LEMMA ClearStep ==
    ASSUME IInv, NEW r \in Handlers, Clear(r)
    PROVE  IInv'
<1> DEFINE k == job[r].key
           cleared(i) == IF item[i].booking = BookingOf(k) /\ item[i].driver = DriverOf(k)
                         THEN [item[i] EXCEPT !.driver = None, !.byHand = FALSE]
                         ELSE item[i]
<1>1. item' = [i \in Items |-> cleared(i)] /\ Answer(r)
      /\ UNCHANGED <<row, driver, booking, earned>>
    BY DEF Clear
<1>2. \A i \in Items : /\ cleared(i) \in Item
                       /\ cleared(i).driver = None \/ cleared(i) = item[i]
    BY DEF IInv, StateOK, Item
<1> HIDE DEF cleared
<1>3. /\ item' \in [Items -> Item]
      /\ \A i \in Items : item'[i].driver = None \/ item'[i] = item[i]
    BY <1>1, <1>2
<1>4. StampNeedsConsent'
    BY <1>1, <1>3, ItemStep DEF IInv
<1>5. QED
    BY <1>1, <1>3, <1>4, ItemCommit

\* The committed driver that createItem reads has accepted.
LEMMA AddGuardStep ==
    ASSUME IInv, NEW r \in Handlers, AddGuard(r)
    PROVE  IInv'
<1>1. job[r] \in Job /\ Shape(job[r]) /\ job[r].op = "add"
    BY OwnJob DEF AddGuard, At
<1>2. PICK d : /\ \/ d = None
                  \/ \E k \in OpenOn(job[r].booking) :
                        row[k].status \in CommittedStatuses /\ d = DriverOf(k)
               /\ Become(r, [job[r] EXCEPT !.pc = "insert", !.driver = d])
    BY DEF AddGuard
<1>3. d \in Drivers \cup {None} /\ (d # None => Consented(job[r].booking, d))
    BY <1>2 DEF OpenOn, IInv, StatusIsEarned, Consented, Keys, DriverOf
<1> DEFINE j == [job[r] EXCEPT !.pc = "insert", !.driver = d]
<1>4. /\ j \in Job /\ j.op = "add" /\ j.pc = "insert" /\ j.driver = d
      /\ j.booking = job[r].booking /\ j.id = job[r].id
    BY <1>1, <1>3 DEF Job
<1>5. UNCHANGED tables /\ Become(r, j)
    BY <1>2 DEF AddGuard
<1> HIDE DEF j
<1>6. Shape(j) /\ Seen(j)
    BY <1>1, <1>3, <1>4 DEF Shape, Seen
<1>7. QED
    BY <1>4, <1>5, <1>6, MoveStep

LEMMA AddItemStep ==
    ASSUME IInv, NEW r \in Handlers, AddItem(r)
    PROVE  IInv'
<1> DEFINE new == [booking |-> job[r].booking, driver |-> job[r].driver, byHand |-> FALSE]
<1>1. /\ job[r] \in Job /\ job[r].id \in Items
      /\ job[r].driver # None => Consented(job[r].booking, job[r].driver)
    BY OwnJob DEF AddItem, At, Shape, Seen
<1>2. new \in Item
    BY <1>1 DEF Job, Item
<1>3. /\ item' = [item EXCEPT ![job[r].id] = new] /\ Answer(r)
      /\ UNCHANGED <<row, driver, booking, earned>>
    BY DEF AddItem
<1>4. new.driver # None => Consented(new.booking, new.driver)
    BY <1>1
<1> HIDE DEF new
<1>5. item' \in [Items -> Item]
    BY <1>1, <1>2, <1>3 DEF IInv, StateOK
<1>6. \A i \in Items : item'[i] = item[i] \/ item'[i] = new
    BY <1>3 DEF IInv, StateOK
<1>7. StampNeedsConsent'
    BY <1>3, <1>4, <1>6 DEF IInv, StampNeedsConsent, Consented
<1>8. QED
    BY <1>3, <1>5, <1>7, ItemCommit

LEMMA StampByHandStep ==
    ASSUME IInv, NEW i \in Items, NEW d \in ByHand, StampByHand(i, d)
    PROVE  IInv'
<1> DEFINE new == [item[i] EXCEPT !.driver = d, !.byHand = TRUE]
<1>1. item' = [item EXCEPT ![i] = new]
    BY DEF StampByHand
<1>2. new \in Item /\ new.byHand
    BY InputsAssumption DEF IInv, StateOK, Item
<1> HIDE DEF new
<1>3. /\ item' \in [Items -> Item]
      /\ \A j \in Items : item'[j].byHand \/ item'[j] = item[j]
    BY <1>1, <1>2 DEF IInv, StateOK
<1>4. QED
    BY <1>3, EditStep DEF StampByHand

LEMMA AddByHandStep ==
    ASSUME IInv, NEW i \in Items, NEW b \in Bookings, NEW d \in ByHand, AddByHand(i, b, d)
    PROVE  IInv'
<1> DEFINE new == [booking |-> b, driver |-> d, byHand |-> TRUE]
<1>1. item' = [item EXCEPT ![i] = new]
    BY DEF AddByHand
<1>2. new \in Item /\ new.byHand
    BY InputsAssumption DEF Item
<1> HIDE DEF new
<1>3. /\ item' \in [Items -> Item]
      /\ \A j \in Items : item'[j].byHand \/ item'[j] = item[j]
    BY <1>1, <1>2 DEF IInv, StateOK
<1>4. QED
    BY <1>3, EditStep DEF AddByHand

LEMMA NoItemFits == NoItem \in Item /\ NoItem.driver = None
BY DEF NoItem, Item

LEMMA DeleteItemStep ==
    ASSUME IInv, NEW i \in Items, DeleteItem(i)
    PROVE  IInv'
<1>1. item' = [item EXCEPT ![i] = NoItem]
    BY DEF DeleteItem
<1>2. /\ item' \in [Items -> Item]
      /\ \A j \in Items : item'[j].driver = None \/ item'[j] = item[j]
    BY <1>1, NoItemFits DEF IInv, StateOK
<1>3. QED
    BY <1>2, EditStep DEF DeleteItem

LEMMA ImportStep ==
    ASSUME IInv, NEW b \in Bookings, NEW gone \in SUBSET Items, NEW S \in SUBSET Items,
           Import(b, gone, S)
    PROVE  IInv'
<1> DEFINE new == [NoItem EXCEPT !.booking = b]
<1>1. new \in Item /\ new.driver = None
    BY DEF NoItem, Item
<1>2. item' = [i \in Items |-> IF i \in S THEN new
                               ELSE IF i \in gone THEN NoItem
                               ELSE item[i]]
    BY DEF Import
<1> HIDE DEF new
<1>3. /\ item' \in [Items -> Item]
      /\ \A j \in Items : item'[j].driver = None \/ item'[j] = item[j]
    BY <1>1, <1>2, NoItemFits DEF IInv, StateOK
<1>4. QED
    BY <1>3, EditStep DEF Import

LEMMA SetStatusStep ==
    ASSUME IInv, NEW d \in Drivers, NEW status \in OwnStatuses, SetStatus(d, status)
    PROVE  IInv'
<1>1. status \in {"available", "en_route", "resting", "off_duty"}
    BY InputsAssumption
<1>2. QED
    BY <1>1 DEF SetStatus, IInv, StateOK, JobInv, Shape, Seen, Consented, StatusIsEarned,
       StampNeedsConsent

LEMMA SetBookingStep ==
    ASSUME IInv, NEW b \in Bookings, NEW status \in BookingStatuses, SetBooking(b, status)
    PROVE  IInv'
<1>1. status \in {"active", "completed", "cancelled"}
    BY InputsAssumption
<1>2. QED
    BY <1>1 DEF SetBooking, IInv, StateOK, JobInv, Shape, Seen, Consented, StatusIsEarned,
       StampNeedsConsent

LEMMA AbortStep ==
    ASSUME IInv, NEW r \in Handlers, Abort(r)
    PROVE  IInv'
<1>1. job' \in [Handlers -> Job] /\ JobInv'
    BY NoJobFits, JobStep DEF IInv, Abort, tables
<1>2. faults' \in 0 .. MaxFaults
    BY BoundsAssumption DEF IInv, StateOK, Abort
<1>3. QED
    BY <1>1, <1>2 DEF IInv, StateOK, StatusIsEarned, StampNeedsConsent, Abort, tables

-----------------------------------------------------------------------------
(* The theorems.                                                           *)

LEMMA AdvanceStep ==
    ASSUME IInv, NEW r \in Handlers, Advance(r)
    PROVE  IInv'
<1>1. PlaceConflict(r) \/ DeadlockDetected(r) => IInv'
    BY AnswerStep DEF PlaceConflict, DeadlockDetected
<1>2. QED
    BY <1>1, GuardStep, DriverGuardStep, UnassignGuardStep, AddGuardStep, ScanStep,
       CancelOneStep, CancelDoneStep, FindStep, PlaceStep, AcceptStep, StartStep,
       CompleteStep, CloseBookingStep, RejectStep, UnassignStep, ClearStep,
       AddItemStep DEF Advance

LEMMA NextHolds == IInv /\ [Next]_vars => IInv'
<1> SUFFICES ASSUME IInv, [Next]_vars PROVE IInv'
    OBVIOUS
<1>1. CASE UNCHANGED vars
    BY <1>1 DEF vars, IInv, StateOK, JobInv, Shape, Seen, Consented, StatusIsEarned,
       StampNeedsConsent
<1>2. CASE Next
    BY <1>2, RequestStep, RequestItemStep, AdvanceStep, AbortStep, DeleteItemStep,
       StampByHandStep, ImportStep, AddByHandStep, SetStatusStep, SetBookingStep
    DEF Next, Serve
<1>3. QED
    BY <1>1, <1>2

\* IInv holds in every reachable state. It adds to the two safety properties what
\* handlers past their guard have seen: that is why a write that goes by id, after
\* the row has changed, still gives it a status its driver has earned.
THEOREM Invariance == Spec => []IInv
BY InitHolds, NextHolds, PTL DEF Spec

\* An assignment is accepted, in progress or completed only if its own driver has
\* accepted, and started, it: startMyAssignment and completeMyAssignment read the
\* status outside their transactions, yet no interleaving skips a driver's step.
THEOREM Earned == Spec => []StatusIsEarned
<1>1. IInv => StatusIsEarned
    BY DEF IInv
<1>2. QED
    BY <1>1, Invariance, PTL

\* acceptMyAssignment and createItem write a driver into an item only if he has
\* accepted an assignment of the item's booking.
THEOREM Consent == Spec => []StampNeedsConsent
<1>1. IInv => StampNeedsConsent
    BY DEF IInv
<1>2. QED
    BY <1>1, Invariance, PTL

-----------------------------------------------------------------------------
(* What the guards of drivers.service.ts, read outside their transactions, *)
(* are worth at the write: all of it, unless history says that the booking *)
(* or the driver was worked on in between.                                 *)

\* A booking at which nobody was overtaken has one open assignment at most.
OneOpenPerBooking ==
    \A j, k \in Keys :
        /\ row[j].status \in OpenStatuses /\ row[k].status \in OpenStatuses
        /\ BookingOf(j) = BookingOf(k) /\ BookingOf(k) \notin crossed
        => j = k

InStage(j, op, pcs) == j.op = op /\ j.pc \in pcs

\* A handler that has looked and not written yet.
Decided(j) == j.pc \notin {"idle", "guard", "clear"}

\* The rows a transaction has written are its booking's and stay as it found them:
\* they are locked.
Locks(j) ==
    /\ j.pc \in {"idle", "guard", "scan"} => j.held = {}
    /\ j.op \notin {"assign", "accept"} /\ j.pc # "close" => j.held = {}
    /\ j.pc = "close" => j.held = {j.key}
    /\ \A h \in j.held : /\ BookingOf(h) = BookingOf(j.key)
                         /\ h # j.key => row[h].status \in OpenStatuses
    /\ j.pc = "cancel" => \A h \in j.todo : BookingOf(h) = BookingOf(j.key)
    /\ j.op \in Ops \ {"assign", "add"} => row[j.key].status # "none"

\* What a handler's guard and scan have found of the booking's rows.
Looked(j) ==
    LET k == j.key
        open == OpenOn(BookingOf(k))
    IN /\ InStage(j, "assign", {"cancel"}) => j.held \cup j.todo = open
       /\ InStage(j, "assign", {"find", "place"}) => j.held = open
       /\ InStage(j, "accept", {"scan", "cancel", "write"}) => row[k].status = "pending"
       /\ InStage(j, "accept", {"cancel"}) => j.held \cup j.todo = open \ {k}
       /\ InStage(j, "accept", {"write"}) => j.held = open \ {k}
       /\ InStage(j, "reject", {"write"}) => row[k].status = "pending"
       /\ InStage(j, "start", {"write"}) => row[k].status = "accepted"
       /\ InStage(j, "complete", {"write", "close"}) => row[k].status = "in_progress"
       /\ InStage(j, "add", {"insert"}) /\ j.driver # None =>
             \E i \in OpenOn(j.booking) :
                row[i].status \in CommittedStatuses /\ DriverOf(i) = j.driver

\* What it has found of the driver's rows.
Knows(j) ==
    LET k == j.key
    IN /\ InStage(j, "assign", {"scan", "cancel", "find", "place"}) =>
             \A i \in OpenOf(DriverOf(k)) : BookingOf(i) = BookingOf(k)
       /\ InStage(j, "accept", {"scan", "cancel", "write"}) =>
             row[k].status \in OpenStatuses
       /\ InStage(j, "start", {"write"}) => row[k].status \in OpenStatuses

Witness(j) ==
    /\ Locks(j)
    /\ About(j) \notin crossed => Looked(j)
    /\ DriverOf(j.key) \notin contested => Knows(j)

Witnessed == \A r \in Handlers : Witness(job[r])

\* No two transactions have written the same row.
Disjoint == \A r, s \in Handlers : r # s => job[r].held \cap job[s].held = {}

Orderly ==
    /\ Witnessed /\ Disjoint
    /\ OneOpenPerBooking /\ BusyUnlessContested
    /\ TimesTellTheStory /\ CommittedOwnsItinerary

SInv == IInv /\ HistoryOK /\ Orderly

\* Nothing is asked of a handler that is through, or that only clears items.
Settled(j) ==
    /\ j.pc \in {"idle", "clear"}
    /\ j.held = {}
    /\ j.op \in Ops \ {"assign", "add"} =>
          j.key \in Keys /\ row[j.key].status # "none"

LEMMA HistoryGrows ==
    ASSUME Note
    PROVE  crossed \subseteq crossed' /\ contested \subseteq contested' /\ torn \subseteq torn'
BY DEF Note, NoteCrossed, NoteContested, NoteTorn

LEMMA HistoryStays ==
    ASSUME HistoryOK, Note
    PROVE  HistoryOK'
BY DEF HistoryOK, Note, NoteCrossed, NoteContested, NoteTorn

\* r takes no row that another transaction has written.
LEMMA DisjointStep ==
    ASSUME SInv, NEW r \in Handlers, NEW j \in Job, job' = [job EXCEPT ![r] = j],
           \A h \in j.held : h \in job[r].held \/ Free(r, h)
    PROVE  Disjoint'
<1>1. job'[r] = j /\ \A s \in Handlers \ {r} : job'[s] = job[s]
    BY DEF SInv, IInv, StateOK
<1>2. \A s \in Handlers \ {r} : j.held \cap job[s].held = {}
    BY DEF Free, LockedBy, SInv, Orderly, Disjoint
<1>3. QED
    BY <1>1, <1>2 DEF SInv, Orderly, Disjoint

\* A handler goes on with what its guard has found while the rows stay; so do
\* the others.
LEMMA QuietWitness ==
    ASSUME SInv, Note, row' = row, NEW r \in Handlers,
           NEW j \in Job, Witness(j), job' = [job EXCEPT ![r] = j]
    PROVE  Witnessed'
<1> SUFFICES ASSUME NEW s \in Handlers PROVE Witness(job[s])'
    BY DEF Witnessed
<1>1. Witness(job'[s])
    BY DEF SInv, IInv, StateOK, Orderly, Witnessed
<1>2. QED
    BY <1>1, HistoryGrows
    DEF Witness, Locks, Looked, Knows, About, InStage, OpenOn, OpenOf

LEMMA RowsStay ==
    ASSUME SInv, Note, row' = row
    PROVE  OneOpenPerBooking' /\ BusyUnlessContested' /\ TimesTellTheStory'
BY HistoryGrows
DEF SInv, Orderly, OneOpenPerBooking, BusyUnlessContested, TimesTellTheStory

\* The same when the items stay, too.
LEMMA QuietStep ==
    ASSUME SInv, Note, UNCHANGED <<row, item>>, NEW r \in Handlers,
           NEW j \in Job, Witness(j), job' = [job EXCEPT ![r] = j],
           \A h \in j.held : h \in job[r].held \/ Free(r, h)
    PROVE  Orderly'
<1>1. Witnessed' /\ Disjoint'
    BY QuietWitness, DisjointStep
<1>2. CommittedOwnsItinerary'
    BY HistoryGrows DEF SInv, Orderly, CommittedOwnsItinerary
<1>3. QED
    BY <1>1, <1>2, RowsStay DEF Orderly

LEMMA NoJobWitness == Settled(NoJob) /\ Witness(NoJob) /\ NoJob.held = {}
BY DEF Settled, Witness, Locks, Looked, Knows, InStage, NoJob, Ops

LEMMA QuietAnswer ==
    ASSUME SInv, Note, UNCHANGED tables, NEW r \in Handlers, Answer(r)
    PROVE  Orderly'
BY QuietStep, NoJobFits, NoJobWitness DEF Answer, Become, tables

-----------------------------------------------------------------------------
(* Steps that write no row.                                                *)

LEMMA QuietRequest ==
    ASSUME SInv, Note, NEW r \in Handlers, NEW op \in Ops, NEW k \in Keys,
           Request(r, op, k)
    PROVE  Orderly'
<1> DEFINE j == [NoJob EXCEPT !.op = op, !.pc = "guard", !.key = k]
<1>1. /\ j \in Job /\ j.op = op /\ j.pc = "guard" /\ j.key = k /\ j.held = {}
      /\ op # "assign" => row[k].status # "none"
    BY NoJobFits DEF NoJob, Job, Request
<1>2. job' = [job EXCEPT ![r] = j] /\ UNCHANGED <<row, item>>
    BY DEF Request, Begin, tables
<1> HIDE DEF j
<1>3. Witness(j)
    BY <1>1 DEF Witness, Locks, Looked, Knows, InStage
<1>4. QED
    BY <1>1, <1>2, <1>3, QuietStep

LEMMA QuietRequestItem ==
    ASSUME SInv, Note, NEW r \in Handlers, NEW b \in Bookings, NEW i \in Items,
           RequestItem(r, b, i)
    PROVE  Orderly'
<1> DEFINE j == [NoJob EXCEPT !.op = "add", !.pc = "guard", !.booking = b, !.id = i]
<1>1. j \in Job /\ j.op = "add" /\ j.pc = "guard" /\ j.held = {}
    BY NoJobFits DEF NoJob, Job, Ops
<1>2. job' = [job EXCEPT ![r] = j] /\ UNCHANGED <<row, item>>
    BY DEF RequestItem, Begin, tables
<1> HIDE DEF j
<1>3. Witness(j)
    BY <1>1 DEF Witness, Locks, Looked, Knows, InStage
<1>4. QED
    BY <1>1, <1>2, <1>3, QuietStep

LEMMA OwnWitness ==
    ASSUME SInv, NEW r \in Handlers
    PROVE  /\ job[r] \in Job /\ Shape(job[r]) /\ Witness(job[r])
           /\ job[r].op \in Ops \ {"add"} => About(job[r]) = BookingOf(job[r].key)
BY OwnJob DEF SInv, Orderly, Witnessed, About

\* The driver the guard lets through has open assignments of this booking only:
\* of one booking he has another assignment in the transaction's own booking.
LEMMA QuietAssignGuard ==
    ASSUME SInv, Note, NEW r \in Handlers, AssignGuard(r)
    PROVE  Orderly'
<1>1. CASE Answer(r)
    BY <1>1, QuietAnswer DEF AssignGuard
<1>2. CASE Busy(r, TRUE) /\ Goto(r, "scan")
    <2> DEFINE j == [job[r] EXCEPT !.pc = "scan"]
               k == job[r].key
    <2>1. /\ job[r] \in Job /\ Shape(job[r]) /\ job[r].op = "assign"
          /\ job[r].held = {} /\ k \in Keys
        BY OwnWitness DEF AssignGuard, At, Witness, Locks, Shape, Ops
    <2>2. /\ j \in Job /\ j.op = "assign" /\ j.pc = "scan" /\ j.key = k
          /\ j.held = {}
        BY <2>1 DEF Job
    <2>3. DriverOf(k) \notin contested =>
             \A i \in OpenOf(DriverOf(k)) : BookingOf(i) = BookingOf(k)
        BY <1>2, <2>1 DEF Busy, OpenOf, SInv, Orderly, BusyUnlessContested
    <2>4. UNCHANGED tables /\ Become(r, j)
        BY <1>2 DEF AssignGuard, Goto
    <2> HIDE DEF j, k
    <2>5. Witness(j)
        BY <2>2, <2>3 DEF Witness, Locks, Looked, Knows, InStage
    <2>6. QED
        BY <2>2, <2>4, <2>5, QuietStep DEF Become, tables
<1>3. QED
    BY <1>1, <1>2 DEF AssignGuard

LEMMA QuietDriverGuard ==
    ASSUME SInv, Note, NEW r \in Handlers, DriverGuard(r)
    PROVE  Orderly'
<1> DEFINE op == job[r].op
           k == job[r].key
           pc == IF op = "accept" THEN "scan" ELSE "write"
           j == [job[r] EXCEPT !.pc = pc]
<1>1. CASE Answer(r)
    BY <1>1, QuietAnswer DEF DriverGuard
<1>2. CASE row[k].status \in Needs(op) /\ Goto(r, pc)
    <2>1. /\ job[r] \in Job /\ job[r].held = {}
          /\ op \in {"accept", "reject", "start", "complete"}
          /\ row[k].status # "none"
        BY OwnWitness DEF DriverGuard, At, Witness, Locks, Ops
    <2>2. /\ j \in Job /\ j.op = op /\ j.pc = pc /\ j.key = k
          /\ j.held = {}
        BY <2>1 DEF Job
    <2>3. UNCHANGED tables /\ Become(r, j)
        BY <1>2 DEF DriverGuard, Goto
    <2>4. /\ op \in {"accept", "reject"} => row[k].status = "pending"
          /\ op = "start" => row[k].status = "accepted"
          /\ op = "complete" => row[k].status = "in_progress"
        BY <1>2 DEF Needs
    <2> HIDE DEF j, k
    <2>5. Witness(j)
        BY <2>1, <2>2, <2>4 DEF Witness, Locks, Looked, Knows, InStage, OpenStatuses
    <2>6. QED
        BY <2>2, <2>3, <2>5, QuietStep DEF Become, tables
<1>3. QED
    BY <1>1, <1>2 DEF DriverGuard

LEMMA QuietUnassignGuard ==
    ASSUME SInv, Note, NEW r \in Handlers, UnassignGuard(r)
    PROVE  Orderly'
<1> DEFINE k == job[r].key
           f == row[k].status = "rejected"
           j == [job[r] EXCEPT !.pc = "write", !.found = f]
<1>1. /\ job[r] \in Job /\ job[r].op = "unassign" /\ job[r].held = {}
      /\ row[k].status # "none" /\ f \in BOOLEAN
    BY OwnWitness DEF UnassignGuard, At, Witness, Locks, Ops
<1>2. UNCHANGED tables /\ Become(r, j)
    BY DEF UnassignGuard
<1> HIDE DEF f, k
<1>3. j \in Job /\ j.op = "unassign" /\ j.pc = "write" /\ j.key = k /\ j.held = {}
    BY <1>1 DEF Job, k
<1> HIDE DEF j
<1>4. Witness(j)
    BY <1>1, <1>3 DEF Witness, Locks, Looked, Knows, InStage
<1>5. QED
    BY <1>2, <1>3, <1>4, QuietStep DEF Become, tables

LEMMA QuietScan ==
    ASSUME SInv, Note, NEW r \in Handlers, Scan(r)
    PROVE  Orderly'
<1> DEFINE k == job[r].key
           todo == IF job[r].op = "assign" THEN OpenOn(BookingOf(k))
                   ELSE OpenOn(BookingOf(k)) \ {k}
           j == [job[r] EXCEPT !.pc = "cancel", !.todo = todo]
<1>1. /\ job[r] \in Job /\ job[r].op \in {"assign", "accept"} /\ job[r].held = {}
      /\ job[r].pc = "scan" /\ Witness(job[r])
    BY OwnWitness DEF Scan, Shape, Witness, Locks
<1>2. todo \in SUBSET Keys /\ \A h \in todo : BookingOf(h) = BookingOf(k)
    BY DEF OpenOn
<1>3. UNCHANGED tables /\ Become(r, j)
    BY DEF Scan
<1>4. /\ job[r].op = "assign" => todo = OpenOn(BookingOf(k))
      /\ job[r].op = "accept" => todo = OpenOn(BookingOf(k)) \ {k}
    OBVIOUS
<1> HIDE DEF todo, k
<1>5. /\ j \in Job /\ j.op = job[r].op /\ j.pc = "cancel" /\ j.key = k
      /\ j.held = {} /\ j.todo = todo
    BY <1>1, <1>2 DEF Job, k
<1> HIDE DEF j
<1>6. Locks(j)
    BY <1>1, <1>2, <1>5 DEF Witness, Locks, k
<1>7. About(j) \notin crossed => Looked(j)
    BY <1>1, <1>4, <1>5 DEF Witness, Looked, About, InStage, k
<1>8. DriverOf(j.key) \notin contested => Knows(j)
    BY <1>1, <1>5 DEF Witness, Knows, InStage, k
<1>9. QED
    BY <1>3, <1>5, <1>6, <1>7, <1>8, QuietStep DEF Become, tables, Witness

\* The rows of the snapshot are still open, so that each is cancelled.
LEMMA QuietCancelOne ==
    ASSUME SInv, Note, NEW r \in Handlers, NEW i \in Keys, CancelOne(r, i)
    PROVE  Orderly'
<1> DEFINE k == job[r].key
           held == IF row[i].status \in OpenStatuses THEN job[r].held \cup {i}
                   ELSE job[r].held
           j == [job[r] EXCEPT !.todo = @ \ {i}, !.held = held]
<1>1. /\ job[r] \in Job /\ job[r].pc = "cancel" /\ i \in job[r].todo
      /\ job[r].op \in {"assign", "accept"} /\ Witness(job[r]) /\ Free(r, i)
    BY OwnWitness DEF CancelOne, Shape
<1>2. About(job[r]) \notin crossed =>
         /\ job[r].op = "assign" => job[r].held \cup job[r].todo = OpenOn(BookingOf(k))
         /\ job[r].op = "accept" =>
               job[r].held \cup job[r].todo = OpenOn(BookingOf(k)) \ {k}
    BY <1>1 DEF Witness, Looked, InStage
<1>3. About(job[r]) \notin crossed => held = job[r].held \cup {i}
    BY <1>1, <1>2 DEF OpenOn
<1>4. UNCHANGED tables /\ Become(r, j)
    BY DEF CancelOne
<1>5. /\ held \in SUBSET Keys /\ job[r].held \subseteq held
      /\ \A h \in held : h \in job[r].held \/ (h = i /\ row[i].status \in OpenStatuses)
    BY <1>1 DEF Job
<1> HIDE DEF held, k
<1>6. /\ j \in Job /\ j.op = job[r].op /\ j.pc = "cancel" /\ j.key = k
      /\ j.held = held /\ j.todo = job[r].todo \ {i} /\ About(j) = About(job[r])
    BY <1>1, <1>5 DEF Job, k, About
<1> HIDE DEF j
<1>7. Locks(j)
    BY <1>1, <1>5, <1>6 DEF Witness, Locks, k
<1>8. About(j) \notin crossed => Looked(j)
    <2> SUFFICES ASSUME About(job[r]) \notin crossed PROVE Looked(j)
        BY <1>6
    <2>1. j.held \cup j.todo = job[r].held \cup job[r].todo
        BY <1>1, <1>3, <1>6
    <2>2. job[r].op = "accept" => row[k].status = "pending"
        BY <1>1 DEF Witness, Looked, InStage, k
    <2>3. QED
        BY <1>1, <1>2, <1>6, <2>1, <2>2 DEF Looked, InStage
<1>9. DriverOf(j.key) \notin contested => Knows(j)
    BY <1>1, <1>6 DEF Witness, Knows, InStage, k
<1>10. QED
    BY <1>1, <1>4, <1>5, <1>6, <1>7, <1>8, <1>9, QuietStep DEF Become, tables, Witness

LEMMA QuietCancelDone ==
    ASSUME SInv, Note, NEW r \in Handlers, CancelDone(r)
    PROVE  Orderly'
<1> DEFINE k == job[r].key
           pc == IF job[r].op = "assign" THEN "find" ELSE "write"
           j == [job[r] EXCEPT !.pc = pc]
<1>1. /\ job[r] \in Job /\ job[r].op \in {"assign", "accept"}
      /\ job[r].pc = "cancel" /\ job[r].todo = {} /\ Witness(job[r])
    BY OwnWitness DEF CancelDone, Shape
<1>2. UNCHANGED tables /\ Become(r, j)
    BY DEF CancelDone, Goto
<1>3. /\ j \in Job /\ j.op = job[r].op /\ j.pc = pc /\ j.key = k
      /\ j.held = job[r].held
    BY <1>1 DEF Job
<1> HIDE DEF j
<1>4. Locks(j)
    BY <1>1, <1>3 DEF Witness, Locks
<1>5. About(j) \notin crossed => Looked(j)
    BY <1>1, <1>3 DEF Witness, Looked, About, InStage
<1>6. DriverOf(j.key) \notin contested => Knows(j)
    BY <1>1, <1>3 DEF Witness, Knows, InStage
<1>7. QED
    BY <1>2, <1>3, <1>4, <1>5, <1>6, QuietStep DEF Become, tables, Witness

LEMMA QuietFind ==
    ASSUME SInv, Note, NEW r \in Handlers, Find(r)
    PROVE  Orderly'
<1> DEFINE k == job[r].key
           f == row[k].status # "none"
           j == [job[r] EXCEPT !.pc = "place", !.found = f]
<1>1. /\ job[r] \in Job /\ job[r].op = "assign" /\ job[r].pc = "find"
      /\ Witness(job[r]) /\ f \in BOOLEAN
    BY OwnWitness DEF Find, At
<1>2. UNCHANGED tables /\ Become(r, j)
    BY DEF Find
<1> HIDE DEF f, k
<1>3. /\ j \in Job /\ j.op = "assign" /\ j.pc = "place" /\ j.key = job[r].key
      /\ j.held = job[r].held
    BY <1>1 DEF Job
<1> HIDE DEF j
<1>4. Locks(j)
    BY <1>1, <1>3 DEF Witness, Locks
<1>5. About(j) \notin crossed => Looked(j)
    BY <1>1, <1>3 DEF Witness, Looked, About, InStage
<1>6. DriverOf(j.key) \notin contested => Knows(j)
    BY <1>1, <1>3 DEF Witness, Knows, InStage
<1>7. QED
    BY <1>2, <1>3, <1>4, <1>5, <1>6, QuietStep DEF Become, tables, Witness

LEMMA QuietComplete ==
    ASSUME SInv, Note, NEW r \in Handlers, Complete(r)
    PROVE  Orderly'
<1> DEFINE k == job[r].key
           f == booking[BookingOf(k)] = "active"
           j == [job[r] EXCEPT !.pc = "close", !.held = {k}, !.found = f]
<1>1. /\ job[r] \in Job /\ job[r].op = "complete" /\ f \in BOOLEAN
      /\ k \in Keys /\ job[r].pc = "write" /\ Witness(job[r]) /\ Free(r, k)
    BY OwnWitness DEF Complete, At, Shape, Ops
<1>2. UNCHANGED tables /\ Become(r, j)
    BY DEF Complete
<1> HIDE DEF f, k
<1>3. j \in Job /\ j.op = "complete" /\ j.pc = "close" /\ j.key = k /\ j.held = {k}
    BY <1>1 DEF Job, k
<1> HIDE DEF j
<1>4. Locks(j)
    BY <1>1, <1>3 DEF Witness, Locks, k, Ops
<1>5. About(j) \notin crossed => Looked(j)
    BY <1>1, <1>3 DEF Witness, Looked, About, InStage, k
<1>6. Knows(j)
    BY <1>3 DEF Knows, InStage
<1>7. QED
    BY <1>1, <1>2, <1>3, <1>4, <1>5, <1>6, QuietStep DEF Become, tables, Witness

LEMMA QuietAddGuard ==
    ASSUME SInv, Note, NEW r \in Handlers, AddGuard(r)
    PROVE  Orderly'
<1>1. PICK d : /\ \/ d = None
                  \/ \E k \in OpenOn(job[r].booking) :
                        row[k].status \in CommittedStatuses /\ d = DriverOf(k)
               /\ Become(r, [job[r] EXCEPT !.pc = "insert", !.driver = d])
    BY DEF AddGuard
<1> DEFINE j == [job[r] EXCEPT !.pc = "insert", !.driver = d]
<1>2. d \in Drivers \cup {None}
    BY <1>1 DEF OpenOn, Keys, DriverOf
<1>3. job[r] \in Job /\ job[r].op = "add" /\ job[r].pc = "guard" /\ job[r].held = {}
    BY OwnWitness DEF AddGuard, At, Witness, Locks
<1>4. /\ j \in Job /\ j.op = "add" /\ j.pc = "insert" /\ j.driver = d
      /\ j.booking = job[r].booking /\ j.held = {}
    BY <1>2, <1>3 DEF Job
<1>5. UNCHANGED tables /\ Become(r, j)
    BY <1>1 DEF AddGuard
<1> HIDE DEF j
<1>6. Witness(j)
    BY <1>1, <1>4 DEF Witness, Locks, Looked, Knows, InStage, Ops
<1>7. QED
    BY <1>4, <1>5, <1>6, QuietStep DEF Become, tables

LEMMA QuietAbort ==
    ASSUME SInv, Note, NEW r \in Handlers, Abort(r)
    PROVE  Orderly'
BY QuietStep, NoJobFits, NoJobWitness DEF Abort, tables

-----------------------------------------------------------------------------
(* Commits.                                                                *)

\* The time columns of one row.
Told(x) ==
    /\ x.status = "pending" => x.times = {}
    /\ x.status = "accepted" => x.times = {"accepted"}
    /\ x.status = "in_progress" => x.times = {"accepted", "started"}

LEMMA CommitWrites ==
    ASSUME SInv, NEW r \in Handlers, NEW k \in Keys, NEW new \in Row, Commit(r, k, new)
    PROVE  /\ row'[k] = new
           /\ \A j \in Keys \ {k} :
                 \/ j \notin job[r].held /\ row'[j] = row[j]
                 \/ j \in job[r].held /\ row'[j].status = "cancelled"
<1>1. row \in [Keys -> Row]
    BY DEF SInv, IInv, StateOK
<1>2. row'[k] = new
    BY DEF Commit
<1>3. ASSUME NEW j \in Keys \ {k}
      PROVE  \/ j \notin job[r].held /\ row'[j] = row[j]
             \/ j \in job[r].held /\ row'[j].status = "cancelled"
    <2>1. row'[j] = IF j \in job[r].held THEN [row[j] EXCEPT !.status = "cancelled"]
                    ELSE row[j]
        BY DEF Commit
    <2>2. [row[j] EXCEPT !.status = "cancelled"].status = "cancelled"
        BY <1>1 DEF Row
    <2>3. QED
        BY <2>1, <2>2
<1>4. QED
    BY <1>2, <1>3

\* A booking whose rows change while a request about it waits is crossed, and so is
\* the driver contested.
LEMMA Overtaken ==
    ASSUME SInv, Note, NEW s \in Handlers, job'[s] = job[s], Decided(job[s]),
           job[s].op \in Ops
    PROVE  /\ About(job[s]) \notin crossed' =>
                 \A n \in Keys : BookingOf(n) = About(job[s]) => row'[n] = row[n]
           /\ job[s].op # "add" /\ DriverOf(job[s].key) \notin contested' =>
                 \A n \in Keys : DriverOf(n) = DriverOf(job[s].key) => row'[n] = row[n]
<1>1. Shape(job[s]) /\ Waits(s)
    BY OwnJob DEF SInv, Waits, Decided
<1>2. /\ About(job[s]) \in Bookings
      /\ job[s].op # "add" => job[s].key \in Keys /\ DriverOf(job[s].key) \in Drivers
    BY <1>1 DEF Shape, About, Keys, BookingOf, DriverOf
<1>3. ASSUME NEW n \in Keys, BookingOf(n) = About(job[s]), row'[n] # row[n]
      PROVE  About(job[s]) \in crossed'
    BY <1>1, <1>2, <1>3 DEF Note, NoteCrossed, Changed
<1>4. ASSUME NEW n \in Keys, job[s].op # "add",
             DriverOf(n) = DriverOf(job[s].key), row'[n] # row[n]
      PROVE  DriverOf(job[s].key) \in contested'
    BY <1>1, <1>2, <1>4 DEF Note, NoteContested, Changed
<1>5. QED
    BY <1>3, <1>4

\* What another handler has found is still so, unless it has been overtaken; what
\* it has written is locked.
LEMMA OthersWitness ==
    ASSUME SInv, Note, NEW r \in Handlers, NEW k \in Keys, NEW new \in Row,
           new.status # "none", Commit(r, k, new), Free(r, k),
           NEW s \in Handlers \ {r}, job'[s] = job[s]
    PROVE  Witness(job[s])'
<1>1. PICK j \in Job : j = job[s] /\ Shape(j) /\ Witness(j)
    BY OwnWitness
<1> SUFFICES Witness(j)'
    BY <1>1 DEF Witness, Locks, Looked, Knows, About, InStage, OpenOn, OpenOf
<1>2. j.held \subseteq Keys /\ k \notin j.held /\ job[r].held \cap j.held = {}
    BY <1>1 DEF Job, Free, LockedBy, SInv, Orderly, Disjoint
<1>3. \A h \in j.held : row'[h] = row[h]
    BY <1>2, CommitWrites
<1>4. \A n \in Keys : row[n].status # "none" => row'[n].status # "none"
    BY CommitWrites
<1>5. j.op \in Ops \ {"add"} => j.key \in Keys
    BY <1>1 DEF Shape
<1>6. Locks(j)'
    BY <1>1, <1>3, <1>4, <1>5 DEF Witness, Locks
<1>7. CASE ~Decided(j) \/ j.op \notin Ops
    BY <1>6, <1>7 DEF Decided, Witness, Looked, Knows, InStage, Ops
<1>8. CASE Decided(j) /\ j.op \in Ops
    <2>1. ASSUME About(j) \notin crossed' PROVE Looked(j)'
        <3>1. \A n \in Keys : BookingOf(n) = About(j) => row'[n] = row[n]
            BY <1>1, <1>8, <2>1, Overtaken
        <3>2. OpenOn(About(j))' = OpenOn(About(j))
            BY <3>1 DEF OpenOn
        <3>3. About(j) \notin crossed /\ Looked(j)
            BY <1>1, <2>1, HistoryGrows DEF Witness
        <3>4. CASE j.op = "add"
            <4>1. \A n \in OpenOn(j.booking) : row'[n] = row[n]
                BY <3>1, <3>4 DEF About, OpenOn
            <4>2. QED
                BY <3>2, <3>3, <3>4, <4>1 DEF Looked, InStage, About
        <3>5. CASE j.op # "add"
            <4>1. row'[j.key] = row[j.key]
                BY <1>5, <1>8, <3>1, <3>5 DEF About
            <4>2. QED
                BY <3>2, <3>3, <3>5, <4>1 DEF Looked, InStage, About
        <3>6. QED
            BY <3>4, <3>5
    <2>2. ASSUME DriverOf(j.key) \notin contested', j.op # "add" PROVE Knows(j)'
        <3>1. \A n \in Keys : DriverOf(n) = DriverOf(j.key) => row'[n] = row[n]
            BY <1>1, <1>8, <2>2, Overtaken
        <3>2. /\ OpenOf(DriverOf(j.key))' = OpenOf(DriverOf(j.key))
              /\ row'[j.key] = row[j.key]
            BY <1>5, <1>8, <2>2, <3>1 DEF OpenOf
        <3>3. DriverOf(j.key) \notin contested /\ Knows(j)
            BY <1>1, <2>2, HistoryGrows DEF Witness
        <3>4. QED
            BY <3>2, <3>3 DEF Knows, InStage
    <2>3. j.op = "add" => Knows(j)'
        BY DEF Knows, InStage
    <2>4. QED
        BY <1>6, <2>1, <2>2, <2>3 DEF Witness, About
<1>9. QED
    BY <1>7, <1>8

\* The handler that commits is through, or only clears items.
LEMMA CommitWitness ==
    ASSUME SInv, Note, NEW r \in Handlers, NEW k \in Keys, NEW new \in Row,
           new.status # "none", Commit(r, k, new), Free(r, k),
           NEW j \in Job, Settled(j), job' = [job EXCEPT ![r] = j]
    PROVE  Witnessed' /\ Disjoint'
<1>1. job \in [Handlers -> Job] /\ job'[r] = j
    BY DEF SInv, IInv, StateOK
<1>2. ASSUME NEW s \in Handlers \ {r} PROVE Witness(job[s])'
    <2>1. job'[s] = job[s]
        BY <1>1
    <2>2. QED
        BY <2>1, OthersWitness
<1>3. Witness(job[r])'
    <2>1. \A n \in Keys : row[n].status # "none" => row'[n].status # "none"
        BY CommitWrites
    <2>2. j.op \in Ops \ {"assign", "add"} => row'[j.key].status # "none"
        BY <2>1 DEF Settled
    <2>3. QED
        BY <1>1, <2>2 DEF Witness, Locks, Looked, Knows, InStage, Settled
<1>4. Disjoint'
    BY DisjointStep DEF Settled
<1>5. QED
    BY <1>2, <1>3, <1>4 DEF Witnessed

LEMMA CommitTimes ==
    ASSUME SInv, Note, NEW r \in Handlers, NEW k \in Keys, NEW new \in Row,
           Commit(r, k, new), BookingOf(k) \notin crossed => Told(new)
    PROVE  TimesTellTheStory'
<1>1. \A j \in Keys : \/ j = k /\ row'[j] = new
                      \/ row'[j] = row[j]
                      \/ row'[j].status = "cancelled"
    BY CommitWrites
<1>2. \A j \in Keys : BookingOf(j) \notin crossed => Told(row[j])
    BY DEF SInv, Orderly, TimesTellTheStory, Told
<1>3. \A j \in Keys : BookingOf(j) \notin crossed => Told(row[j])'
    BY <1>1, <1>2 DEF Told
<1>4. QED
    BY <1>3, HistoryGrows DEF TimesTellTheStory, Told

\* A commit that opens no assignment.
LEMMA NarrowCommit ==
    ASSUME SInv, Note, NEW r \in Handlers, NEW k \in Keys, NEW new \in Row,
           Commit(r, k, new),
           new.status \in OpenStatuses =>
              /\ BookingOf(k) \notin crossed => row[k].status \in OpenStatuses
              /\ DriverOf(k) \notin contested => row[k].status \in OpenStatuses
    PROVE  OneOpenPerBooking' /\ BusyUnlessContested'
<1>1. \A j \in Keys : row'[j].status \in OpenStatuses =>
                         /\ BookingOf(j) \notin crossed => row[j].status \in OpenStatuses
                         /\ DriverOf(j) \notin contested => row[j].status \in OpenStatuses
    BY CommitWrites DEF OpenStatuses
<1>2. QED
    BY <1>1, HistoryGrows DEF SInv, Orderly, OneOpenPerBooking, BusyUnlessContested

\* A commit that commits no driver and writes no item.
LEMMA PlainCommit ==
    ASSUME SInv, Note, NEW r \in Handlers, NEW k \in Keys, NEW new \in Row,
           Commit(r, k, new), item' = item,
           new.status \in CommittedStatuses /\ BookingOf(k) \notin crossed =>
              row[k].status \in CommittedStatuses
    PROVE  CommittedOwnsItinerary'
<1>1. \A j \in Keys :
         row'[j].status \in CommittedStatuses /\ BookingOf(j) \notin crossed =>
            row[j].status \in CommittedStatuses
    BY CommitWrites DEF CommittedStatuses
<1>2. QED
    BY <1>1, HistoryGrows DEF SInv, Orderly, CommittedOwnsItinerary

\* The proposed assignment is the only open one of its booking, and its driver
\* has none of another booking.
LEMMA OrderlyPlace ==
    ASSUME SInv, Note, NEW r \in Handlers, Place(r)
    PROVE  Orderly'
<1> DEFINE k == job[r].key
           new == Proposed(k)
<1>1. /\ k \in Keys /\ Witness(job[r]) /\ job[r].op = "assign" /\ job[r].pc = "place"
      /\ About(job[r]) = BookingOf(k)
    BY OwnWitness DEF Place, At, Shape, Ops
<1>2. new \in Row /\ new.status = "pending" /\ Told(new)
    BY DEF Proposed, Row, OpenStatuses, Told
<1>3. /\ Commit(r, k, new) /\ item' = item /\ job' = [job EXCEPT ![r] = NoJob]
      /\ Free(r, k)
    BY DEF Place, Answer, Become
<1>4. /\ BookingOf(k) \notin crossed => job[r].held = OpenOn(BookingOf(k))
      /\ DriverOf(k) \notin contested =>
            \A i \in OpenOf(DriverOf(k)) : BookingOf(i) = BookingOf(k)
    BY <1>1 DEF Witness, Looked, Knows, InStage
<1> HIDE DEF new, k
<1>5. \A j \in Keys \ {k} : row'[j].status \in OpenStatuses => row'[j] = row[j]
    BY <1>1, <1>2, <1>3, CommitWrites DEF OpenStatuses
<1>6. OneOpenPerBooking'
    <2>1. BookingOf(k) \notin crossed =>
             \A j \in Keys \ {k} :
                row'[j].status \in OpenStatuses => BookingOf(j) # BookingOf(k)
        BY <1>1, <1>2, <1>3, <1>4, CommitWrites DEF OpenOn, OpenStatuses
    <2>2. QED
        BY <1>5, <2>1, HistoryGrows DEF SInv, Orderly, OneOpenPerBooking
<1>7. BusyUnlessContested'
    BY <1>4, <1>5, HistoryGrows DEF SInv, Orderly, BusyUnlessContested, OpenOf
<1>8. TimesTellTheStory' /\ CommittedOwnsItinerary'
    BY <1>1, <1>2, <1>3, CommitTimes, PlainCommit DEF CommittedStatuses
<1>9. Witnessed' /\ Disjoint'
    BY <1>1, <1>2, <1>3, CommitWitness, NoJobFits, NoJobWitness
<1>10. QED
    BY <1>6, <1>7, <1>8, <1>9 DEF Orderly

\* Everybody else's stamp on the booking is replaced, and everybody else's open
\* assignment of the booking is cancelled in the same transaction.
LEMMA OrderlyAccept ==
    ASSUME SInv, Note, NEW r \in Handlers, Accept(r)
    PROVE  Orderly'
<1> DEFINE k == job[r].key
           new == Stamped(k, "accepted", "accepted")
<1>1. /\ k \in Keys /\ Witness(job[r]) /\ job[r].op = "accept" /\ job[r].pc = "write"
      /\ About(job[r]) = BookingOf(k)
    BY OwnWitness DEF Accept, At, Shape, Ops
<1>2. /\ BookingOf(k) \notin crossed =>
            row[k].status = "pending" /\ job[r].held = OpenOn(BookingOf(k)) \ {k}
      /\ DriverOf(k) \notin contested => row[k].status \in OpenStatuses
    BY <1>1 DEF Witness, Looked, Knows, InStage
<1>3. new \in Row /\ new.status = "accepted"
    BY <1>1, StampedIsRow DEF SInv, IInv, Times
<1>4. BookingOf(k) \notin crossed => new.times = {"accepted"}
    BY <1>1, <1>2 DEF Stamped, SInv, Orderly, TimesTellTheStory
<1>5. Commit(r, k, new) /\ job' = [job EXCEPT ![r] = NoJob] /\ Free(r, k)
      /\ item' = [i \in Items |-> Stamp(i, k)]
    BY DEF Accept, Answer, Become
<1>6. \A i \in Items : /\ item'[i].booking = item[i].booking
                       /\ IF item[i].booking = BookingOf(k)
                          THEN item'[i].driver = DriverOf(k)
                          ELSE item'[i] = item[i]
    BY <1>5 DEF Stamp, SInv, IInv, StateOK, Item
<1> HIDE DEF new, k
<1>7. OneOpenPerBooking' /\ BusyUnlessContested'
    BY <1>1, <1>2, <1>3, <1>5, NarrowCommit DEF OpenStatuses
<1>8. TimesTellTheStory'
    BY <1>1, <1>3, <1>4, <1>5, CommitTimes DEF Told
<1>9. \A j \in Keys \ {k} :
         row'[j].status \in CommittedStatuses /\ BookingOf(j) \notin crossed =>
            row'[j] = row[j] /\ BookingOf(j) # BookingOf(k)
    BY <1>1, <1>2, <1>3, <1>5, CommitWrites DEF OpenOn, OpenStatuses, CommittedStatuses
<1>10. CommittedOwnsItinerary'
    <2> SUFFICES ASSUME NEW j \in Keys, NEW i \in Items, BookingOf(j) \notin crossed',
                        row'[j].status \in CommittedStatuses,
                        item'[i].booking = BookingOf(j), ~item'[i].byHand
                 PROVE  item'[i].driver \in {None, DriverOf(j)}
        BY DEF CommittedOwnsItinerary
    <2>1. CASE j = k
        BY <1>6, <2>1
    <2>2. CASE j # k
        BY <1>6, <1>9, <2>2, HistoryGrows DEF SInv, Orderly, CommittedOwnsItinerary
    <2>3. QED
        BY <2>1, <2>2
<1>11. Witnessed' /\ Disjoint'
    BY <1>1, <1>3, <1>5, CommitWitness, NoJobFits, NoJobWitness
<1>12. QED
    BY <1>7, <1>8, <1>10, <1>11 DEF Orderly

\* The commits of a single row.
LEMMA OrderlyCommit ==
    ASSUME SInv, Note, NEW r \in Handlers, NEW k \in Keys, NEW new \in Row,
           new.status # "none", Commit(r, k, new), Free(r, k), item' = item,
           BookingOf(k) \notin crossed =>
              /\ Told(new)
              /\ new.status \in OpenStatuses => row[k].status \in OpenStatuses
              /\ new.status \in CommittedStatuses => row[k].status \in CommittedStatuses,
           DriverOf(k) \notin contested =>
              (new.status \in OpenStatuses => row[k].status \in OpenStatuses),
           NEW j \in Job, Settled(j), job' = [job EXCEPT ![r] = j]
    PROVE  Orderly'
<1>1. Witnessed' /\ Disjoint'
    BY CommitWitness
<1>2. QED
    BY <1>1, NarrowCommit, PlainCommit, CommitTimes DEF Orderly

LEMMA OrderlyStart ==
    ASSUME SInv, Note, NEW r \in Handlers, Start(r)
    PROVE  Orderly'
<1> DEFINE k == job[r].key
           new == Stamped(k, "in_progress", "started")
<1>1. /\ k \in Keys
      /\ BookingOf(k) \notin crossed => row[k].status = "accepted"
      /\ DriverOf(k) \notin contested => row[k].status \in OpenStatuses
    BY OwnWitness DEF Start, At, Shape, Ops, Witness, Looked, Knows, InStage
<1>2. new \in Row /\ new.status = "in_progress"
    BY <1>1, StampedIsRow DEF SInv, IInv, Times
<1>3. BookingOf(k) \notin crossed => new.times = {"accepted", "started"}
    BY <1>1 DEF Stamped, SInv, Orderly, TimesTellTheStory
<1>4. /\ Commit(r, k, new) /\ item' = item /\ job' = [job EXCEPT ![r] = NoJob]
      /\ Free(r, k)
    BY DEF Start, Answer, Become
<1> HIDE DEF new, k
<1>5. BookingOf(k) \notin crossed => Told(new)
    BY <1>2, <1>3 DEF Told
<1>6. QED
    BY <1>1, <1>2, <1>4, <1>5, OrderlyCommit, NoJobFits, NoJobWitness
    DEF OpenStatuses, CommittedStatuses

\* A row that a transaction has written is nobody else's.
LEMMA HeldIsFree ==
    ASSUME SInv, NEW r \in Handlers, NEW k \in job[r].held
    PROVE  Free(r, k)
BY DEF SInv, Orderly, Disjoint, Free, LockedBy

LEMMA OrderlyCloseBooking ==
    ASSUME SInv, Note, NEW r \in Handlers, CloseBooking(r)
    PROVE  Orderly'
<1> DEFINE k == job[r].key
           new == Stamped(k, "completed", "completed")
<1>1. k \in Keys /\ job[r].held = {k}
    BY OwnWitness DEF CloseBooking, Shape, Ops, Witness, Locks
<1>2. new \in Row /\ new.status = "completed"
    BY <1>1, StampedIsRow DEF SInv, IInv, Times
<1>3. Commit(r, k, new) /\ item' = item /\ job' = [job EXCEPT ![r] = NoJob]
    BY DEF CloseBooking, Answer, Become
<1>4. Free(r, k)
    BY <1>1, HeldIsFree
<1> HIDE DEF new, k
<1>5. Told(new) /\ new.status \notin OpenStatuses /\ new.status \notin CommittedStatuses
    BY <1>2 DEF Told, OpenStatuses, CommittedStatuses
<1>6. QED
    BY <1>1, <1>2, <1>3, <1>4, <1>5, OrderlyCommit, NoJobFits, NoJobWitness

LEMMA ClearingSettles ==
    ASSUME NEW j \in Job, Shape(j), j.op \in {"reject", "unassign"}, j.held = {},
           j.key \in Keys,
           row[j.key].status # "none"
    PROVE  LET c == [j EXCEPT !.pc = "clear"] IN c \in Job /\ Settled(c)
BY ClearingJob DEF Job, Settled

LEMMA OrderlyReject ==
    ASSUME SInv, Note, NEW r \in Handlers, Reject(r)
    PROVE  Orderly'
<1> DEFINE k == job[r].key
           new == Stamped(k, "rejected", "rejected")
           c == [job[r] EXCEPT !.pc = "clear"]
<1>1. /\ k \in Keys /\ job[r] \in Job /\ Shape(job[r])
      /\ job[r].op = "reject" /\ job[r].held = {} /\ row[k].status # "none"
    BY OwnWitness DEF Reject, At, Shape, Ops, Witness, Locks
<1>2. new \in Row /\ new.status = "rejected"
    BY <1>1, StampedIsRow DEF SInv, IInv, Times
<1>3. /\ Commit(r, k, new) /\ item' = item /\ job' = [job EXCEPT ![r] = c]
      /\ Free(r, k)
    BY DEF Reject, Goto, Become
<1>4. c \in Job /\ Settled(c)
    BY <1>1, ClearingSettles
<1> HIDE DEF new, k, c
<1>5. Told(new) /\ new.status \notin OpenStatuses /\ new.status \notin CommittedStatuses
    BY <1>2 DEF Told, OpenStatuses, CommittedStatuses
<1>6. QED
    BY <1>1, <1>2, <1>3, <1>4, <1>5, OrderlyCommit

LEMMA OrderlyUnassign ==
    ASSUME SInv, Note, NEW r \in Handlers, Unassign(r)
    PROVE  Orderly'
<1> DEFINE k == job[r].key
           new == [row[k] EXCEPT !.status = "cancelled"]
           c == [job[r] EXCEPT !.pc = "clear"]
<1>1. /\ k \in Keys /\ job[r] \in Job /\ Shape(job[r])
      /\ job[r].op = "unassign" /\ job[r].held = {} /\ row[k].status # "none"
    BY OwnWitness DEF Unassign, At, Shape, Ops, Witness, Locks
<1>2. new \in Row /\ new.status = "cancelled"
    BY <1>1 DEF SInv, IInv, StateOK, Row
<1>3. /\ Commit(r, k, new) /\ item' = item /\ Free(r, k)
      /\ job' = [job EXCEPT ![r] = NoJob] \/ job' = [job EXCEPT ![r] = c]
    BY DEF Unassign, Goto, Answer, Become
<1>4. c \in Job /\ Settled(c)
    BY <1>1, ClearingSettles
<1> HIDE DEF new, k, c
<1>5. Told(new) /\ new.status \notin OpenStatuses /\ new.status \notin CommittedStatuses
    BY <1>2 DEF Told, OpenStatuses, CommittedStatuses
<1>6. CASE job' = [job EXCEPT ![r] = NoJob]
    BY <1>1, <1>2, <1>3, <1>5, <1>6, OrderlyCommit, NoJobFits, NoJobWitness
<1>7. CASE job' = [job EXCEPT ![r] = c]
    BY <1>1, <1>2, <1>3, <1>4, <1>5, <1>7, OrderlyCommit
<1>8. QED
    BY <1>3, <1>6, <1>7

-----------------------------------------------------------------------------
(* Items, and the other steps.                                             *)

\* What staff do to items takes nobody's driver but by hand.
Edited(i) == item'[i].driver = None \/ item'[i].byHand \/ item'[i] = item[i]

LEMMA OwnsAfterEdit ==
    ASSUME SInv, Note, row' = row, \A i \in Items : Edited(i)
    PROVE  CommittedOwnsItinerary'
BY HistoryGrows DEF SInv, Orderly, CommittedOwnsItinerary, Edited

LEMMA OrderlyEdit ==
    ASSUME SInv, Note, row' = row, job' = job, \A i \in Items : Edited(i)
    PROVE  Orderly'
<1>1. Witnessed'
    BY HistoryGrows
    DEF SInv, Orderly, Witnessed, Witness, Locks, Looked, Knows, About, InStage, OpenOn,
        OpenOf
<1>2. Disjoint'
    BY DEF SInv, Orderly, Disjoint
<1>3. QED
    BY <1>1, <1>2, OwnsAfterEdit, RowsStay DEF Orderly

LEMMA StampEdits ==
    ASSUME SInv, NEW i \in Items, NEW d \in ByHand, StampByHand(i, d)
    PROVE  row' = row /\ job' = job /\ \A j \in Items : Edited(j)
<1>1. [item[i] EXCEPT !.driver = d, !.byHand = TRUE].byHand
    BY DEF SInv, IInv, StateOK, Item
<1>2. QED
    BY <1>1 DEF StampByHand, SInv, IInv, StateOK, Edited

LEMMA AddEdits ==
    ASSUME SInv, NEW i \in Items, NEW b \in Bookings, NEW d \in ByHand, AddByHand(i, b, d)
    PROVE  row' = row /\ job' = job /\ \A j \in Items : Edited(j)
BY DEF AddByHand, SInv, IInv, StateOK, Edited

LEMMA DeleteEdits ==
    ASSUME SInv, NEW i \in Items, DeleteItem(i)
    PROVE  row' = row /\ job' = job /\ \A j \in Items : Edited(j)
BY NoItemFits DEF DeleteItem, SInv, IInv, StateOK, Edited

LEMMA ImportEdits ==
    ASSUME SInv, NEW b \in Bookings, NEW gone \in SUBSET Items, NEW S \in SUBSET Items,
           Import(b, gone, S)
    PROVE  row' = row /\ job' = job /\ \A j \in Items : Edited(j)
<1> DEFINE new == [NoItem EXCEPT !.booking = b]
<1>1. new.driver = None
    BY DEF NoItem
<1>2. item' = [i \in Items |-> IF i \in S THEN new
                               ELSE IF i \in gone THEN NoItem
                               ELSE item[i]]
    BY DEF Import
<1> HIDE DEF new
<1>3. QED
    BY <1>1, <1>2, NoItemFits DEF Import, Edited

\* The steps that write neither rows nor jobs, and no driver but by hand.
LEMMA Edits ==
    ASSUME SInv,
           \/ \E i \in Items : DeleteItem(i) \/ \E d \in ByHand : StampByHand(i, d)
           \/ \E b \in Bookings :
                 \/ \E gone \in SUBSET Items, new \in SUBSET Items : Import(b, gone, new)
                 \/ \E i \in Items, d \in ByHand : AddByHand(i, b, d)
           \/ \E d \in Drivers, status \in OwnStatuses : SetStatus(d, status)
           \/ \E b \in Bookings, status \in BookingStatuses : SetBooking(b, status)
           \/ UNCHANGED state
    PROVE  row' = row /\ job' = job /\ \A j \in Items : Edited(j)
<1>1. item' = item => \A j \in Items : Edited(j)
    BY DEF Edited
<1>2. QED
    BY <1>1, StampEdits, AddEdits, DeleteEdits, ImportEdits
    DEF SetStatus, SetBooking, state

LEMMA ClearWrites ==
    ASSUME SInv, NEW r \in Handlers, Clear(r)
    PROVE  \A i \in Items :
              IF /\ item[i].booking = BookingOf(job[r].key)
                 /\ item[i].driver = DriverOf(job[r].key)
              THEN item'[i].driver = None
              ELSE item'[i] = item[i]
BY DEF Clear, SInv, IInv, StateOK, Item

LEMMA OrderlyClear ==
    ASSUME SInv, Note, NEW r \in Handlers, Clear(r)
    PROVE  Orderly'
<1>1. \A i \in Items : Edited(i)
    BY ClearWrites DEF Edited
<1>2. Witnessed' /\ Disjoint'
    BY QuietWitness, DisjointStep, NoJobFits, NoJobWitness DEF Clear, Answer, Become
<1>3. QED
    BY <1>1, <1>2, OwnsAfterEdit, RowsStay DEF Clear, Orderly

\* The driver that createItem has read.
LEMMA AddedDriver ==
    ASSUME SInv, NEW r \in Handlers, AddItem(r)
    PROVE  /\ job[r].booking \notin crossed /\ job[r].driver # None =>
                 \E k \in OpenOn(job[r].booking) :
                    row[k].status \in CommittedStatuses /\ DriverOf(k) = job[r].driver
           /\ \A i \in Items :
                 \/ item'[i] = item[i]
                 \/ item'[i].booking = job[r].booking /\ item'[i].driver = job[r].driver
<1> DEFINE new == [booking |-> job[r].booking, driver |-> job[r].driver, byHand |-> FALSE]
<1>1. Witness(job[r]) /\ job[r].op = "add" /\ job[r].pc = "insert"
    BY OwnWitness DEF AddItem, At
<1>2. job[r].booking \notin crossed /\ job[r].driver # None =>
         \E k \in OpenOn(job[r].booking) :
            row[k].status \in CommittedStatuses /\ DriverOf(k) = job[r].driver
    BY <1>1 DEF Witness, Looked, About, InStage
<1>3. \A i \in Items : item'[i] = item[i] \/ item'[i] = new
    BY DEF AddItem, SInv, IInv, StateOK
<1>4. QED
    BY <1>2, <1>3

\* He is still committed, and nobody else is.
LEMMA OrderlyAddItem ==
    ASSUME SInv, Note, NEW r \in Handlers, AddItem(r)
    PROVE  Orderly'
<1>1. row' = row
    BY DEF AddItem
<1>2. ASSUME NEW k \in Keys, row[k].status \in CommittedStatuses,
             BookingOf(k) = job[r].booking, BookingOf(k) \notin crossed
      PROVE  job[r].driver \in {None, DriverOf(k)}
    BY <1>2, AddedDriver
    DEF OpenOn, OpenStatuses, CommittedStatuses, SInv, Orderly, OneOpenPerBooking
<1>3. CommittedOwnsItinerary'
    BY <1>1, <1>2, AddedDriver, HistoryGrows DEF SInv, Orderly, CommittedOwnsItinerary
<1>4. Witnessed' /\ Disjoint'
    BY QuietWitness, DisjointStep, NoJobFits, NoJobWitness DEF AddItem, Answer, Become
<1>5. QED
    BY <1>1, <1>3, <1>4, RowsStay DEF Orderly

-----------------------------------------------------------------------------
(* The first four promises.                                                *)

LEMMA OrderlyInit ==
    ASSUME Init PROVE Orderly
<1>1. \A k \in Keys : row[k].status = "none"
    BY DEF Init, NoRow
<1>2. Witnessed /\ Disjoint
    BY NoJobWitness DEF Init, Witnessed, Disjoint
<1>3. QED
    BY <1>1, <1>2 DEF Orderly, OneOpenPerBooking, BusyUnlessContested,
       TimesTellTheStory, CommittedOwnsItinerary, OpenStatuses, CommittedStatuses

LEMMA OrderlyAdvance ==
    ASSUME SInv, Note, NEW r \in Handlers, Advance(r)
    PROVE  Orderly'
<1>1. PlaceConflict(r) \/ DeadlockDetected(r) => Orderly'
    BY QuietAnswer DEF PlaceConflict, DeadlockDetected
<1>2. QED
    BY <1>1, QuietAssignGuard, QuietDriverGuard, QuietUnassignGuard, QuietAddGuard,
       QuietScan, QuietCancelOne, QuietCancelDone, QuietFind, OrderlyPlace,
       OrderlyAccept, OrderlyStart, QuietComplete, OrderlyCloseBooking, OrderlyReject,
       OrderlyUnassign, OrderlyClear, OrderlyAddItem DEF Advance

\* Nothing happens, or something does and is noted.
LEMMA Noted ==
    ASSUME [Next]_vars
    PROVE  Note \/ UNCHANGED vars
BY DEF Next

LEMMA OrderlyNext ==
    ASSUME SInv, [Next]_vars
    PROVE  SInv'
<1>1. IInv'
    BY NextHolds DEF SInv
<1>2. CASE UNCHANGED vars
    <2>1. HistoryOK' /\ Orderly'
        BY <1>2 DEF vars, SInv, HistoryOK, Orderly, Witnessed, Witness, Locks, Looked,
           Knows, About, InStage, OpenOn, OpenOf, Disjoint, OneOpenPerBooking,
           BusyUnlessContested, TimesTellTheStory, CommittedOwnsItinerary
    <2>2. QED
        BY <1>1, <2>1 DEF SInv
<1>3. CASE Serve /\ Note
    <2>1. HistoryOK'
        BY <1>3, HistoryStays DEF SInv
    <2>2. ASSUME NEW r \in Handlers,
                 \/ \E op \in Ops, k \in Keys : Request(r, op, k)
                 \/ \E b \in Bookings, i \in Items : RequestItem(r, b, i)
                 \/ Advance(r)
                 \/ Abort(r)
          PROVE  Orderly'
        BY <1>3, <2>2, QuietRequest, QuietRequestItem, OrderlyAdvance, QuietAbort
    <2>3. Orderly'
        BY <1>3, <2>2, Edits, OrderlyEdit DEF Serve
    <2>4. QED
        BY <1>1, <2>1, <2>3 DEF SInv
<1>4. QED
    BY <1>2, <1>3 DEF Next

\* The inductive invariant of the promises below: what each handler's guard and
\* scan have found is so until it writes, or history has noted who changed it. That
\* a booking has one open assignment is what makes the scan of an accept enough.
THEOREM HistoryInvariance == Spec => []SInv
<1>1. Init => SInv
    BY InitHolds, OrderlyInit DEF SInv, Init, HistoryOK
<1>2. SInv /\ [Next]_vars => SInv'
    BY OrderlyNext
<1>3. QED
    BY <1>1, <1>2, PTL DEF Spec

\* Rows, items, handlers, statuses and the history keep their types.
THEOREM TypeCorrect == Spec => []TypeOK
<1>1. SInv => TypeOK
    BY DEF SInv, IInv, TypeOK
<1>2. QED
    BY <1>1, HistoryInvariance, PTL

\* DRIVER_BUSY: although createAssignment looks at one open assignment of the
\* driver, outside its transaction, and drivers' steps go by id, a driver has open
\* assignments of two bookings only if a row of his changed while a request about
\* him waited.
THEOREM DriverBusy == Spec => []BusyUnlessContested
<1>1. SInv => BusyUnlessContested
    BY DEF SInv, Orderly
<1>2. QED
    BY <1>1, HistoryInvariance, PTL

\* createAssignment and acceptMyAssignment close the booking's other open
\* assignments: a booking has two of them only after one of its requests was
\* overtaken.
THEOREM OneDriverPerBooking == Spec => []OneOpenPerBooking
<1>1. SInv => OneOpenPerBooking
    BY DEF SInv, Orderly
<1>2. QED
    BY <1>1, HistoryInvariance, PTL

\* The time columns of an open assignment are those of its status, also when
\* its row is used again for a new proposal.
THEOREM TimesTold == Spec => []TimesTellTheStory
<1>1. SInv => TimesTellTheStory
    BY DEF SInv, Orderly
<1>2. QED
    BY <1>1, HistoryInvariance, PTL

\* What the system stamps on the itinerary of a booking with a committed driver
\* is this driver: the stamp of a superseded one does not survive an accept.
THEOREM StampIsTheDrivers == Spec => []CommittedOwnsItinerary
<1>1. SInv => CommittedOwnsItinerary
    BY DEF SInv, Orderly
<1>2. QED
    BY <1>1, HistoryInvariance, PTL

-----------------------------------------------------------------------------
(* The stamps of a driver who has declined. Reject commits the row before a *)
(* statement of its own clears the items: until then the handler is at it, *)
(* and if it dies the booking is torn.                                     *)

Declined(b, d) ==
    /\ \A t \in Dates : row[<<b, d, t>>].status \in {"none", "rejected"}
    /\ \E t \in Dates : row[<<b, d, t>>].status = "rejected"

Unstamped(b, d) ==
    \A i \in Items : item[i].booking = b /\ item[i].driver = d => item[i].byHand

DeclinedCleared ==
    \A b \in Bookings, d \in Drivers :
        b \notin crossed \cup torn /\ Declined(b, d) => Unstamped(b, d) \/ Clearing(b, d)

DInv == SInv /\ DeclinedCleared

\* The step of one handler.
OthersStay(r) == \A s \in Handlers \ {r} : job'[s] = job[s]

LEMMA BecomeAlone ==
    ASSUME DInv, NEW r \in Handlers, NEW j, job' = [job EXCEPT ![r] = j]
    PROVE  OthersStay(r)
BY DEF OthersStay, DInv, SInv, IInv, StateOK

\* A step declines nobody new, stamps no declined driver and ends no clearing.
LEMMA DeclinedStays ==
    ASSUME DInv, Note,
           \A b \in Bookings, d \in Drivers : b \notin crossed /\ Declined(b, d)' =>
              Declined(b, d) /\ (Unstamped(b, d) => Unstamped(b, d)'),
           NEW r \in Handlers, job[r].pc # "clear", OthersStay(r)
    PROVE  DeclinedCleared'
<1>1. \A b, d : Clearing(b, d) => Clearing(b, d)'
    BY DEF Clearing, OthersStay
<1>2. QED
    BY <1>1, HistoryGrows DEF DInv, DeclinedCleared

\* The same when rows and items stay.
LEMMA QuietDeclined ==
    ASSUME DInv, Note, UNCHANGED <<row, item>>,
           NEW r \in Handlers, job[r].pc # "clear", OthersStay(r)
    PROVE  DeclinedCleared'
<1>1. \A b \in Bookings, d \in Drivers :
         Declined(b, d)' => Declined(b, d) /\ (Unstamped(b, d) => Unstamped(b, d)')
    BY DEF Declined, Unstamped
<1>2. QED
    BY <1>1, DeclinedStays

\* Staff write an item and no row.
LEMMA EditDeclined ==
    ASSUME DInv, Note, row' = row, job' = job, \A i \in Items : Edited(i)
    PROVE  DeclinedCleared'
<1> SUFFICES ASSUME NEW b \in Bookings, NEW d \in Drivers,
                    b \notin crossed' \cup torn', Declined(b, d)'
             PROVE  (Unstamped(b, d) \/ Clearing(b, d))'
    BY DEF DeclinedCleared
<1>1. Unstamped(b, d) \/ Clearing(b, d)
    BY HistoryGrows DEF DInv, DeclinedCleared, Declined
<1>2. CASE Unstamped(b, d)
    BY <1>2, NoneAssumption DEF Unstamped, Edited
<1>3. CASE Clearing(b, d)
    BY <1>3 DEF Clearing
<1>4. QED
    BY <1>1, <1>2, <1>3

\* A pair's rows are declined by a commit only if the commit's own row is
\* rejected and of this pair, or not of this pair at all.
LEMMA CommitDeclined ==
    ASSUME SInv, NEW r \in Handlers, NEW k \in Keys, NEW new \in Row,
           new.status # "none", Commit(r, k, new),
           NEW b \in Bookings, NEW d \in Drivers, Declined(b, d)'
    PROVE  \/ BookingOf(k) = b /\ DriverOf(k) = d /\ new.status = "rejected"
           \/ <<BookingOf(k), DriverOf(k)>> # <<b, d>> /\ Declined(b, d)
<1>1. \A t \in Dates : <<b, d, t>> \in Keys
    BY DEF Keys
<1>2. CASE BookingOf(k) = b /\ DriverOf(k) = d
    <2>1. PICK t \in Dates : k = <<b, d, t>>
        BY <1>2 DEF Keys, BookingOf, DriverOf
    <2>2. row'[k] = new
        BY CommitWrites
    <2>3. new.status \in {"none", "rejected"}
        BY <2>1, <2>2 DEF Declined
    <2>4. QED
        BY <1>2, <2>3
<1>3. CASE <<BookingOf(k), DriverOf(k)>> # <<b, d>>
    <2>1. \A t \in Dates : <<b, d, t>> # k
        BY <1>3 DEF BookingOf, DriverOf
    <2>2. \A t \in Dates : \/ row'[<<b, d, t>>] = row[<<b, d, t>>]
                           \/ row'[<<b, d, t>>].status = "cancelled"
        BY <1>1, <2>1, CommitWrites
    <2>3. Declined(b, d)
        BY <2>2 DEF Declined
    <2>4. QED
        BY <1>3, <2>3
<1>4. QED
    BY <1>2, <1>3

\* A commit that declines nobody, with the items as they were.
LEMMA UndeclinedCommit ==
    ASSUME DInv, Note, NEW r \in Handlers, NEW k \in Keys, NEW new \in Row, item' = item,
           new.status \notin {"none", "rejected"}, Commit(r, k, new),
           job[r].pc # "clear", OthersStay(r)
    PROVE  DeclinedCleared'
<1>1. ASSUME NEW b \in Bookings, NEW d \in Drivers, Declined(b, d)'
      PROVE  Declined(b, d)
    BY <1>1, CommitDeclined DEF DInv
<1>2. \A b \in Bookings, d \in Drivers : Unstamped(b, d) => Unstamped(b, d)'
    BY DEF Unstamped
<1>3. QED
    BY <1>1, <1>2, DeclinedStays

LEMMA DeclinedPlace ==
    ASSUME DInv, Note, NEW r \in Handlers, Place(r)
    PROVE  DeclinedCleared'
<1>1. job[r].key \in Keys /\ job[r].pc # "clear"
    BY OwnJob DEF DInv, SInv, Place, At, Shape, Ops
<1>2. Proposed(job[r].key) \in Row /\ Proposed(job[r].key).status = "pending"
    BY DEF Proposed, Row, OpenStatuses
<1>3. OthersStay(r)
    BY BecomeAlone DEF Place, Answer, Become
<1>4. QED
    BY <1>1, <1>2, <1>3, UndeclinedCommit DEF Place

LEMMA DeclinedStart ==
    ASSUME DInv, Note, NEW r \in Handlers, Start(r)
    PROVE  DeclinedCleared'
<1>1. job[r].key \in Keys /\ job[r].pc # "clear"
    BY OwnJob DEF DInv, SInv, Start, At, Shape, Ops
<1>2. /\ Stamped(job[r].key, "in_progress", "started") \in Row
      /\ Stamped(job[r].key, "in_progress", "started").status = "in_progress"
    BY <1>1, StampedIsRow DEF DInv, SInv, IInv, Times
<1>3. OthersStay(r)
    BY BecomeAlone DEF Start, Answer, Become
<1>4. QED
    BY <1>1, <1>2, <1>3, UndeclinedCommit DEF Start

LEMMA DeclinedCloseBooking ==
    ASSUME DInv, Note, NEW r \in Handlers, CloseBooking(r)
    PROVE  DeclinedCleared'
<1>1. job[r].key \in Keys /\ job[r].pc # "clear"
    BY OwnJob DEF DInv, SInv, CloseBooking, Shape, Ops
<1>2. /\ Stamped(job[r].key, "completed", "completed") \in Row
      /\ Stamped(job[r].key, "completed", "completed").status = "completed"
    BY <1>1, StampedIsRow DEF DInv, SInv, IInv, Times
<1>3. OthersStay(r)
    BY BecomeAlone DEF CloseBooking, Answer, Become
<1>4. QED
    BY <1>1, <1>2, <1>3, UndeclinedCommit DEF CloseBooking

LEMMA DeclinedUnassign ==
    ASSUME DInv, Note, NEW r \in Handlers, Unassign(r)
    PROVE  DeclinedCleared'
<1> DEFINE new == [row[job[r].key] EXCEPT !.status = "cancelled"]
<1>1. job[r].key \in Keys /\ job[r].pc # "clear"
    BY OwnJob DEF DInv, SInv, Unassign, At, Shape, Ops
<1>2. new \in Row /\ new.status = "cancelled"
    BY <1>1 DEF DInv, SInv, IInv, StateOK, Row
<1>3. Commit(r, job[r].key, new) /\ item' = item
    BY DEF Unassign
<1> HIDE DEF new
<1>4. OthersStay(r)
    BY BecomeAlone DEF Unassign, Goto, Answer, Become
<1>5. QED
    BY <1>1, <1>2, <1>3, <1>4, UndeclinedCommit

\* The handler goes on to clear the pair that it has declined.
LEMMA DeclinedReject ==
    ASSUME DInv, Note, NEW r \in Handlers, Reject(r)
    PROVE  DeclinedCleared'
<1> DEFINE k == job[r].key
           new == Stamped(k, "rejected", "rejected")
<1>1. k \in Keys /\ job[r] \in Job /\ job[r].pc # "clear"
    BY OwnJob DEF DInv, SInv, Reject, At, Shape, Ops
<1>2. new \in Row /\ new.status = "rejected"
    BY <1>1, StampedIsRow DEF DInv, SInv, IInv, Times
<1>3. Commit(r, k, new) /\ item' = item /\ job' = [job EXCEPT ![r].pc = "clear"]
    BY DEF Reject, Goto, Become
<1>4. job'[r].pc = "clear" /\ job'[r].key = k
    BY <1>1, <1>3 DEF DInv, SInv, IInv, StateOK, Job
<1> HIDE DEF new, k
<1> SUFFICES ASSUME NEW b \in Bookings, NEW d \in Drivers,
                    b \notin crossed' \cup torn', Declined(b, d)'
             PROVE  (Unstamped(b, d) \/ Clearing(b, d))'
    BY DEF DeclinedCleared
<1>5. CASE BookingOf(k) = b /\ DriverOf(k) = d
    BY <1>4, <1>5 DEF Clearing
<1>6. CASE Declined(b, d)
    <2>1. CASE Clearing(b, d)
        <3>1. OthersStay(r)
            BY <1>3, BecomeAlone
        <3>2. QED
            BY <1>1, <2>1, <3>1 DEF Clearing, OthersStay
    <2>2. CASE Unstamped(b, d)
        BY <1>3, <2>2 DEF Unstamped
    <2>3. QED
        BY <1>6, <2>1, <2>2, HistoryGrows DEF DInv, DeclinedCleared
<1>7. QED
    BY <1>1, <1>2, <1>3, <1>5, <1>6, CommitDeclined DEF DInv

\* Whoever accepts is not declined, and only his stamp is on the booking.
LEMMA DeclinedAccept ==
    ASSUME DInv, Note, NEW r \in Handlers, Accept(r)
    PROVE  DeclinedCleared'
<1> DEFINE k == job[r].key
           new == Stamped(k, "accepted", "accepted")
<1>1. k \in Keys /\ job[r].pc # "clear"
    BY OwnJob DEF DInv, SInv, Accept, At, Shape, Ops
<1>2. new \in Row /\ new.status = "accepted"
    BY <1>1, StampedIsRow DEF DInv, SInv, IInv, Times
<1>3. Commit(r, k, new) /\ item' = [i \in Items |-> Stamp(i, k)]
    BY DEF Accept
<1>4. \A i \in Items : \/ item'[i] = item[i]
                       \/ /\ item'[i].booking = BookingOf(k)
                          /\ item'[i].driver = DriverOf(k)
    BY <1>3 DEF Stamp, DInv, SInv, IInv, StateOK, Item
<1> HIDE DEF new, k
<1>5. ASSUME NEW b \in Bookings, NEW d \in Drivers, Declined(b, d)'
      PROVE  Declined(b, d) /\ (Unstamped(b, d) => Unstamped(b, d)')
    <2>1. <<BookingOf(k), DriverOf(k)>> # <<b, d>> /\ Declined(b, d)
        BY <1>1, <1>2, <1>3, <1>5, CommitDeclined DEF DInv
    <2>2. QED
        BY <1>4, <2>1 DEF Unstamped
<1>6. OthersStay(r)
    BY BecomeAlone DEF Accept, Answer, Become
<1>7. QED
    BY <1>1, <1>5, <1>6, DeclinedStays

LEMMA DeclinedClear ==
    ASSUME DInv, Note, NEW r \in Handlers, Clear(r)
    PROVE  DeclinedCleared'
<1> DEFINE k == job[r].key
<1>1. row' = row
    BY DEF Clear
<1>2. \A i \in Items :
         IF item[i].booking = BookingOf(k) /\ item[i].driver = DriverOf(k)
         THEN item'[i].driver = None
         ELSE item'[i] = item[i]
    BY ClearWrites DEF DInv
<1> HIDE DEF k
<1> SUFFICES ASSUME NEW b \in Bookings, NEW d \in Drivers,
                    b \notin crossed' \cup torn', Declined(b, d)'
             PROVE  (Unstamped(b, d) \/ Clearing(b, d))'
    BY DEF DeclinedCleared
<1>3. Unstamped(b, d) \/ Clearing(b, d)
    BY <1>1, HistoryGrows DEF DInv, DeclinedCleared, Declined
<1>4. CASE Unstamped(b, d) \/ (BookingOf(k) = b /\ DriverOf(k) = d)
    BY <1>2, <1>4, NoneAssumption DEF Unstamped
<1>5. CASE Clearing(b, d) /\ ~(BookingOf(k) = b /\ DriverOf(k) = d)
    <2>1. OthersStay(r)
        BY BecomeAlone DEF Clear, Answer, Become
    <2>2. QED
        BY <1>5, <2>1 DEF Clearing, OthersStay, k
<1>6. QED
    BY <1>3, <1>4, <1>5

\* The driver that createItem has read is committed, so he has not declined.
LEMMA DeclinedAddItem ==
    ASSUME DInv, Note, NEW r \in Handlers, AddItem(r)
    PROVE  DeclinedCleared'
<1>1. row' = row /\ job[r].pc # "clear"
    BY DEF AddItem, At
<1>2. ASSUME NEW b \in Bookings, NEW d \in Drivers, b \notin crossed, Declined(b, d)
      PROVE  ~(job[r].booking = b /\ job[r].driver = d)
    <2> SUFFICES ASSUME job[r].booking = b, job[r].driver = d PROVE FALSE
        OBVIOUS
    <2>1. PICK k \in OpenOn(b) : row[k].status \in CommittedStatuses /\ DriverOf(k) = d
        BY <1>2, AddedDriver, NoneAssumption DEF DInv
    <2>2. \E t \in Dates : k = <<b, d, t>>
        BY <2>1 DEF OpenOn, Keys, BookingOf, DriverOf
    <2>3. QED
        BY <1>2, <2>1, <2>2 DEF Declined, CommittedStatuses
<1>3. ASSUME NEW b \in Bookings, NEW d \in Drivers, b \notin crossed, Declined(b, d)'
      PROVE  Declined(b, d) /\ (Unstamped(b, d) => Unstamped(b, d)')
    <2>1. Declined(b, d)
        BY <1>1, <1>3 DEF Declined
    <2>2. QED
        BY <1>2, <1>3, <2>1, AddedDriver DEF DInv, Unstamped
<1>4. OthersStay(r)
    BY BecomeAlone DEF AddItem, Answer, Become
<1>5. QED
    BY <1>1, <1>3, <1>4, DeclinedStays

\* The steps of a handler that write neither rows nor items.
LEMMA DeclinedQuiet ==
    ASSUME DInv, Note, NEW r \in Handlers,
           \/ AssignGuard(r) \/ DriverGuard(r) \/ UnassignGuard(r) \/ AddGuard(r)
           \/ Scan(r) \/ CancelDone(r) \/ Find(r) \/ PlaceConflict(r) \/ Complete(r)
           \/ \E k \in Keys : CancelOne(r, k)
    PROVE  DeclinedCleared'
<1>1. job[r].pc # "clear" /\ UNCHANGED tables
    BY DEF AssignGuard, DriverGuard, UnassignGuard, AddGuard, Scan, CancelDone, Find,
       PlaceConflict, Complete, CancelOne, At
<1>2. OthersStay(r)
    BY BecomeAlone
    DEF AssignGuard, DriverGuard, UnassignGuard, AddGuard, Scan, CancelDone, Find,
        PlaceConflict, Complete, CancelOne, Answer, Goto, Become
<1>3. QED
    BY <1>1, <1>2, QuietDeclined DEF tables

LEMMA DeclinedBegin ==
    ASSUME DInv, Note, NEW r \in Handlers, NEW j, Begin(r, j)
    PROVE  DeclinedCleared'
<1>1. job[r].pc # "clear" /\ UNCHANGED tables
    BY DEF Begin, Idle
<1>2. OthersStay(r)
    BY BecomeAlone DEF Begin
<1>3. QED
    BY <1>1, <1>2, QuietDeclined DEF tables

\* The victim of a deadlock waits for a row: it is not the one that clears items.
LEMMA DeclinedVictim ==
    ASSUME DInv, Note, NEW r \in Handlers, DeadlockDetected(r)
    PROVE  DeclinedCleared'
<1>1. \E s \in Handlers : WaitsFor(r, s)
    BY DEF DeadlockDetected
<1>2. job[r].pc # "clear"
    BY <1>1 DEF WaitsFor, Wanted
<1>3. OthersStay(r) /\ UNCHANGED tables
    BY BecomeAlone DEF DeadlockDetected, Answer, Become
<1>4. QED
    BY <1>2, <1>3, QuietDeclined DEF tables

\* A handler that dies before it has cleared the items tears its booking.
LEMMA DeclinedAbort ==
    ASSUME DInv, Note, NEW r \in Handlers, Abort(r)
    PROVE  DeclinedCleared'
<1>1. /\ UNCHANGED tables /\ job' = [job EXCEPT ![r] = NoJob]
      /\ faults' # faults /\ job'[r] = NoJob
    BY DEF Abort, DInv, SInv, IInv, StateOK
<1>2. OthersStay(r)
    BY <1>1, BecomeAlone
<1>3. CASE job[r].pc # "clear"
    BY <1>1, <1>2, <1>3, QuietDeclined DEF tables
<1>4. CASE job[r].pc = "clear"
    <2> SUFFICES ASSUME NEW b \in Bookings, NEW d \in Drivers,
                        b \notin crossed' \cup torn', Declined(b, d)'
                 PROVE  (Unstamped(b, d) \/ Clearing(b, d))'
        BY DEF DeclinedCleared
    <2>1. BookingOf(job[r].key) # b
        BY <1>1, <1>4 DEF Note, NoteTorn
    <2>2. Unstamped(b, d) \/ Clearing(b, d)
        BY <1>1, HistoryGrows DEF tables, DInv, DeclinedCleared, Declined
    <2>3. CASE Unstamped(b, d)
        BY <1>1, <2>3 DEF tables, Unstamped
    <2>4. CASE Clearing(b, d)
        BY <1>2, <2>1, <2>4 DEF Clearing, OthersStay
    <2>5. QED
        BY <2>2, <2>3, <2>4
<1>5. QED
    BY <1>3, <1>4

LEMMA DeclinedAdvance ==
    ASSUME DInv, Note, NEW r \in Handlers, Advance(r)
    PROVE  DeclinedCleared'
BY DeclinedQuiet, DeclinedPlace, DeclinedAccept, DeclinedStart, DeclinedCloseBooking,
   DeclinedReject, DeclinedUnassign, DeclinedClear, DeclinedAddItem, DeclinedVictim
DEF Advance

LEMMA DeclinedNext ==
    ASSUME DInv, [Next]_vars
    PROVE  DInv'
<1>1. SInv'
    BY OrderlyNext DEF DInv
<1>2. CASE UNCHANGED vars
    BY <1>1, <1>2 DEF vars, DInv, DeclinedCleared, Declined, Unstamped, Clearing
<1>3. CASE Serve /\ Note
    <2>1. ASSUME NEW r \in Handlers, NEW op \in Ops, NEW k \in Keys, Request(r, op, k)
          PROVE  DeclinedCleared'
        BY <1>3, <2>1, DeclinedBegin DEF Request
    <2>2. ASSUME NEW r \in Handlers, NEW b \in Bookings, NEW i \in Items,
                 RequestItem(r, b, i)
          PROVE  DeclinedCleared'
        BY <1>3, <2>2, DeclinedBegin DEF RequestItem
    <2>3. ASSUME NEW r \in Handlers, Advance(r) \/ Abort(r) PROVE DeclinedCleared'
        BY <1>3, <2>3, DeclinedAdvance, DeclinedAbort
    <2>4. DeclinedCleared'
        BY <1>3, <2>1, <2>2, <2>3, Edits, EditDeclined DEF Serve, DInv
    <2>5. QED
        BY <1>1, <2>4 DEF DInv
<1>4. QED
    BY <1>2, <1>3 DEF Next

\* A driver who has declined all he was proposed of a booking is off its itinerary
\* as soon as the request that declined is through: rejectMyAssignment clears his
\* stamps after its transaction, and no other request gives them back, unless it
\* was overtaken or the second statement never ran.
THEOREM DeclinedIsCleared == Spec => []DeclinedLeavesNoStamp
<1>1. Init => DInv
    <2> SUFFICES ASSUME Init PROVE DInv
        OBVIOUS
    <2>1. \A i \in Items : item[i].driver = None
        BY DEF Init, NoItem
    <2>2. DeclinedCleared
        BY <2>1, NoneAssumption DEF DeclinedCleared, Unstamped
    <2>3. QED
        BY <2>2, InitHolds, OrderlyInit DEF DInv, SInv, Init, HistoryOK
<1>2. DInv /\ [Next]_vars => DInv'
    BY DeclinedNext
<1>3. DInv => DeclinedLeavesNoStamp
    BY DEF DInv, DeclinedCleared, DeclinedLeavesNoStamp, Declined, Unstamped
<1>4. QED
    BY <1>1, <1>2, <1>3, PTL DEF Spec


-----------------------------------------------------------------------------
(* AssignmentLife is implemented.                                           *)

\* Whatever a commit changes belongs to one booking.
LEMMA OvertakesOne ==
    ASSUME SInv, Note, NEW r \in Handlers, NEW k \in Keys, k = job[r].key,
           NEW new \in Row, Commit(r, k, new)
    PROVE  Life!Overtakes(k[1])
<1>1. \A h \in job[r].held : BookingOf(h) = BookingOf(k)
    BY OwnWitness DEF Witness, Locks
<1>2. \A j \in Keys : Changed(j) => BookingOf(j) = BookingOf(k)
    BY <1>1, CommitWrites DEF Changed
<1>3. crossed' \in {crossed, crossed \cup {BookingOf(k)}}
    BY <1>2 DEF Note, NoteCrossed
<1>4. QED
    BY <1>3 DEF Life!Overtakes, BookingOf

LEMMA Supersedes ==
    ASSUME SInv, Note, NEW r \in Handlers, NEW k \in Keys, k = job[r].key,
           NEW new \in Row, Commit(r, k, new),
           job[r].held \cup {k} = OpenOn(BookingOf(k)) \cup {k}
    PROVE  Life!Supersede(k, new.status)
<1>1. ASSUME NEW j \in Keys
      PROVE  row'[j].status =
                IF j = k THEN new.status
                ELSE IF j[1] = k[1] /\ row[j].status \in Life!Open THEN "cancelled"
                ELSE row[j].status
    <2>1. CASE j = k
        BY <2>1, CommitWrites
    <2>2. CASE j # k
        <3>1. j \in job[r].held <=> j[1] = k[1] /\ row[j].status \in Life!Open
            BY <2>2 DEF OpenOn, BookingOf, OpenStatuses, Life!Open
        <3>2. QED
            BY <2>2, <3>1, CommitWrites
    <2>3. QED
        BY <2>1, <2>2
<1>2. QED
    BY <1>1, OvertakesOne DEF Life!Supersede, Life!Keys, Keys

\* Any other commit moves its own row alone.
LEMMA MovesOne ==
    ASSUME SInv, Note, NEW r \in Handlers, NEW k \in Keys, k = job[r].key,
           NEW new \in Row, Commit(r, k, new), job[r].held \subseteq {k},
           NEW from, row[k].status \in from
    PROVE  Life!Move(k, from, new.status)
<1>1. \A j \in Keys : row'[j].status = IF j = k THEN new.status ELSE row[j].status
    BY CommitWrites
<1>2. [j \in Keys |-> row[j].status]' =
         [[j \in Keys |-> row[j].status] EXCEPT ![k] = new.status]
    BY <1>1
<1>3. QED
    BY <1>2, OvertakesOne DEF Life!Move

\* The commit of a request that was overtaken: what its transaction had found open
\* is locked, so that it still is.
LEMMA Slips ==
    ASSUME SInv, Note, NEW r \in Handlers, NEW k \in Keys, k = job[r].key,
           NEW new \in Row, new.status # "none", Commit(r, k, new), BookingOf(k) \in crossed
    PROVE  Life!Next
<1> DEFINE found == job[r].held \ {k}
<1>1. job[r].held \subseteq Keys
    BY OwnWitness DEF Job
<1>2. Life!Keys = Keys /\ \A j \in Keys : [n \in Keys |-> row[n].status][j] = row[j].status
    BY DEF Life!Keys, Keys
<1>3. found \in SUBSET {j \in Life!Keys :
                          j[1] = k[1] /\ [n \in Keys |-> row[n].status][j] \in Life!Open}
    BY <1>1, <1>2, OwnWitness DEF Witness, Locks, BookingOf, OpenStatuses, Life!Open
<1>4. [n \in Keys |-> row[n].status]' =
         [j \in Life!Keys |-> IF j = k THEN new.status
                              ELSE IF j \in found THEN "cancelled"
                              ELSE [n \in Keys |-> row[n].status][j]]
    <2>1. \A j \in Keys : row'[j].status = IF j = k THEN new.status
                                           ELSE IF j \in found THEN "cancelled"
                                           ELSE row[j].status
        BY CommitWrites
    <2>2. QED
        BY <1>2, <2>1
<1>5. new.status \in Life!Open \cup {"rejected", "completed", "cancelled"}
    BY DEF Row, OpenStatuses, Life!Open
<1>6. k[1] \in crossed /\ UNCHANGED crossed
    BY OvertakesOne DEF Life!Overtakes, BookingOf
<1> HIDE DEF found
<1>7. Life!Slip(k)
    BY <1>3, <1>4, <1>5, <1>6, Zenon DEF Life!Slip
<1>8. QED
    BY <1>7 DEF Life!Next, Life!Keys, Keys

LEMMA LifePlace ==
    ASSUME SInv, Note, NEW r \in Handlers, Place(r) PROVE Life!Next
<1> DEFINE new(k) == Proposed(k)
<1>1. PICK k \in Keys : k = job[r].key /\ About(job[r]) = BookingOf(k)
    BY OwnWitness DEF Place, At, Shape, Ops
<1>2. new(k) \in Row /\ new(k).status = "pending" /\ Commit(r, k, new(k))
    BY <1>1 DEF Proposed, Row, OpenStatuses, Place
<1> HIDE DEF new
<1>3. CASE BookingOf(k) \notin crossed
    <2>1. job[r].held = OpenOn(BookingOf(k))
        BY <1>1, <1>3, OwnWitness DEF Witness, Looked, InStage, Place, At
    <2>2. Life!Propose(k)
        BY <1>1, <1>2, <2>1, Supersedes DEF Life!Propose
    <2>3. QED
        BY <2>2 DEF Life!Next, Life!Keys, Keys
<1>4. QED
    BY <1>1, <1>2, <1>3, Slips

LEMMA LifeAccept ==
    ASSUME SInv, Note, NEW r \in Handlers, Accept(r) PROVE Life!Next
<1> DEFINE new(k) == Stamped(k, "accepted", "accepted")
<1>1. PICK k \in Keys : k = job[r].key /\ About(job[r]) = BookingOf(k)
    BY OwnWitness DEF Accept, At, Shape, Ops
<1>2. new(k) \in Row /\ new(k).status = "accepted" /\ Commit(r, k, new(k))
    BY <1>1, StampedIsRow DEF SInv, IInv, Times, Accept
<1> HIDE DEF new
<1>3. CASE BookingOf(k) \notin crossed
    <2>1. job[r].held = OpenOn(BookingOf(k)) \ {k} /\ row[k].status = "pending"
        BY <1>1, <1>3, OwnWitness DEF Witness, Looked, InStage, Accept, At
    <2>2. Life!Accept(k)
        BY <1>1, <1>2, <2>1, Supersedes DEF Life!Accept
    <2>3. QED
        BY <2>2 DEF Life!Next, Life!Keys, Keys
<1>4. QED
    BY <1>1, <1>2, <1>3, Slips

LEMMA LifeStart ==
    ASSUME SInv, Note, NEW r \in Handlers, Start(r) PROVE Life!Next
<1> DEFINE new(k) == Stamped(k, "in_progress", "started")
<1>1. PICK k \in Keys : k = job[r].key /\ About(job[r]) = BookingOf(k)
    BY OwnWitness DEF Start, At, Shape, Ops
<1>2. new(k) \in Row /\ new(k).status = "in_progress" /\ Commit(r, k, new(k))
    BY <1>1, StampedIsRow DEF SInv, IInv, Times, Start
<1> HIDE DEF new
<1>3. CASE BookingOf(k) \notin crossed
    <2>1. job[r].held = {} /\ row[k].status = "accepted"
        BY <1>1, <1>3, OwnWitness DEF Witness, Locks, Looked, InStage, Start, At
    <2>2. Life!Begin(k)
        BY <1>1, <1>2, <2>1, MovesOne DEF Life!Begin
    <2>3. QED
        BY <2>2 DEF Life!Next, Life!Keys, Keys
<1>4. QED
    BY <1>1, <1>2, <1>3, Slips

LEMMA LifeComplete ==
    ASSUME SInv, Note, NEW r \in Handlers, CloseBooking(r) PROVE Life!Next
<1> DEFINE new(k) == Stamped(k, "completed", "completed")
<1>1. PICK k \in Keys : k = job[r].key /\ About(job[r]) = BookingOf(k)
    BY OwnWitness DEF CloseBooking, Shape, Ops
<1>2. new(k) \in Row /\ new(k).status = "completed" /\ Commit(r, k, new(k))
    BY <1>1, StampedIsRow DEF SInv, IInv, Times, CloseBooking
<1> HIDE DEF new
<1>3. CASE BookingOf(k) \notin crossed
    <2>1. job[r].held = {k} /\ row[k].status = "in_progress"
        BY <1>1, <1>3, OwnWitness
        DEF Witness, Locks, Looked, InStage, CloseBooking, Shape
    <2>2. Life!Complete(k)
        BY <1>1, <1>2, <2>1, MovesOne DEF Life!Complete
    <2>3. QED
        BY <2>2 DEF Life!Next, Life!Keys, Keys
<1>4. QED
    BY <1>1, <1>2, <1>3, Slips

LEMMA LifeReject ==
    ASSUME SInv, Note, NEW r \in Handlers, Reject(r) PROVE Life!Next
<1> DEFINE new(k) == Stamped(k, "rejected", "rejected")
<1>1. PICK k \in Keys : k = job[r].key /\ About(job[r]) = BookingOf(k)
    BY OwnWitness DEF Reject, At, Shape, Ops
<1>2. new(k) \in Row /\ new(k).status = "rejected" /\ Commit(r, k, new(k))
    BY <1>1, StampedIsRow DEF SInv, IInv, Times, Reject
<1> HIDE DEF new
<1>3. CASE BookingOf(k) \notin crossed
    <2>1. job[r].held = {} /\ row[k].status = "pending"
        BY <1>1, <1>3, OwnWitness DEF Witness, Locks, Looked, InStage, Reject, At
    <2>2. Life!Reject(k)
        BY <1>1, <1>2, <2>1, MovesOne DEF Life!Reject
    <2>3. QED
        BY <2>2 DEF Life!Next, Life!Keys, Keys
<1>4. QED
    BY <1>1, <1>2, <1>3, Slips

\* Staff may take back an assignment in any status.
LEMMA LifeCancel ==
    ASSUME SInv, Note, NEW r \in Handlers, Unassign(r) PROVE Life!Next
<1> DEFINE new(k) == [row[k] EXCEPT !.status = "cancelled"]
<1>1. PICK k \in Keys : k = job[r].key
    BY OwnWitness DEF Unassign, At, Shape, Ops
<1>2. new(k) \in Row /\ new(k).status = "cancelled" /\ Commit(r, k, new(k))
    BY <1>1 DEF SInv, IInv, StateOK, Row, Unassign
<1> HIDE DEF new
<1>3. job[r].held = {} /\ row[k].status # "none"
    BY <1>1, OwnWitness DEF Witness, Locks, Unassign, At, Ops
<1>4. Life!Cancel(k)
    <2>1. row[k].status \in {row[k].status} /\ job[r].held \subseteq {k}
        BY <1>3
    <2>2. Life!Move(k, {row[k].status}, "cancelled")
        BY <1>1, <1>2, <2>1, MovesOne
    <2>3. [j \in Keys |-> row[j].status][k] = row[k].status
        OBVIOUS
    <2>4. QED
        BY <1>3, <2>2, <2>3 DEF Life!Cancel
<1>5. QED
    BY <1>4 DEF Life!Next, Life!Keys, Keys

LEMMA LifeStep ==
    ASSUME SInv, [Next]_vars
    PROVE  [Life!Next]_<<[k \in Keys |-> row[k].status], crossed>>
<1>1. CASE UNCHANGED vars
    BY <1>1 DEF vars
<1>2. CASE Serve /\ Note
    <2>1. \/ row' = row
          \/ \E r \in Handlers : \/ Place(r) \/ Accept(r) \/ Start(r)
                                 \/ CloseBooking(r) \/ Reject(r) \/ Unassign(r)
        BY <1>2 DEF Serve, Advance, tables, Request, RequestItem, Begin, Abort,
           DeleteItem, StampByHand, AddByHand, Import, SetStatus, SetBooking,
           AssignGuard, DriverGuard, UnassignGuard, AddGuard, Scan, CancelOne,
           CancelDone, Find, PlaceConflict, Complete, Clear, AddItem, DeadlockDetected
    <2>2. CASE row' = row
        <3>1. crossed' = crossed
            BY <1>2, <2>2 DEF Note, NoteCrossed, Changed
        <3>2. QED
            BY <2>2, <3>1
    <2>3. QED
        BY <1>2, <2>1, <2>2, LifePlace, LifeAccept, LifeStart, LifeComplete, LifeReject,
           LifeCancel
<1>3. QED
    BY <1>1, <1>2 DEF Next

\* Dispatch implements AssignmentLife, with every overlap of requests and every
\* lost handler: proposing or accepting an assignment closes the booking's other
\* open ones in the same step and a driver goes through his own one in order,
\* until a request of the booking is overtaken; and even then a commit moves no
\* assignment of another booking and cancels only open ones.
THEOREM LifeIsImplemented == Spec => LifeSpec
<1>1. Init => Life!Init
    BY DEF Init, Life!Init, Life!Keys, Keys, NoRow
<1>2. SInv /\ [Next]_vars =>
         [Life!Next]_<<[k \in Keys |-> row[k].status], crossed>>
    BY LifeStep
<1>3. QED
    BY <1>1, <1>2, HistoryInvariance, PTL DEF Spec, LifeSpec, Life!Spec
=============================================================================

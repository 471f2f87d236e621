--------------------------- MODULE UpgradesProofs ---------------------------
(***************************************************************************)
(* Proofs about Upgrades for every set of bookings, requests, handlers,    *)
(* totals and prices, and for every PATCH.                                 *)
(***************************************************************************)
EXTENDS Upgrades, TLAPS

-----------------------------------------------------------------------------
(* The inductive invariant.                                                *)

ReviewOps == {"approve", "reject"}
CreateOps == {"create", "upgrade"}

\* A total with one VIP price on top of one without.
Charged(b, t) == \E s \in bases[b], p \in Prices : t = s + p

\* What a handler refers to, and where in the code it can be.
Shape(j) ==
    /\ j.pc # "idle" => j.booking \in Bookings
    /\ j.op \in ReviewOps =>
          /\ j.request \in RequestIds
          /\ request[j.request].status # "none"
          /\ request[j.request].booking = j.booking
    /\ j.op \in CreateOps =>
          /\ j.request \in RequestIds /\ j.ask \in Asks
          /\ request[j.request].status = "none"
    /\ j.pc \in {"check", "find", "insert"} => j.op \in CreateOps
    /\ j.pc \in {"read", "price"} => j.op \in {"approve", "activate"}
    /\ j.pc = "close" => j.op = "activate"
    /\ j.upgrade => j.pc \in {"price", "write", "close"}

\* What it carries from the booking it has read: the total was one without VIP
\* then, and the history keeps it.
Carries(j) ==
    /\ j.pc = "price" => j.upgrade /\ j.total \in bases[j.booking]
    /\ j.pc = "write" /\ j.upgrade => Charged(j.booking, j.total)
    /\ j.pc = "write" /\ j.op = "activate" => j.upgrade
    /\ j.pc = "write" /\ j.op = "approve" /\ ~j.upgrade =>
          request[j.request].ask.type # "vip_upgrade" \/ j.booking \in wasVip

JobInv ==
    /\ \A r \in Handlers :
          /\ Shape(job[r])
          /\ Carries(job[r])
          /\ job[r].pc = "close" => job[r].booking \in wasVip
    /\ \A r, s \in Handlers :
          r # s /\ job[r].op \in CreateOps /\ job[s].op \in CreateOps =>
              job[r].request # job[s].request

RowInv ==
    /\ \A q \in RequestIds :
          request[q].status # "none" =>
              request[q].booking \in Bookings /\ request[q].ask \in Asks
    /\ \A q \in approved : request[q].status # "none"
    /\ \A b \in Bookings : booking[b].vip => b \in wasVip

IInv == TypeOK /\ JobInv /\ RowInv /\ ChargedOnce /\ ApprovedWasVip

-----------------------------------------------------------------------------
(* Lemmas about handlers.                                                  *)

LEMMA NoJobFits ==
    /\ NoJob \in Job /\ Shape(NoJob) /\ Carries(NoJob)
    /\ NoJob.op = "none" /\ NoJob.pc = "idle"
<1>1. NoJob \in Job
    BY DEF NoJob, Job
<1>2. Shape(NoJob) /\ Carries(NoJob)
    BY DEF NoJob, Shape, Carries, ReviewOps, CreateOps
<1>3. QED
    BY <1>1, <1>2 DEF NoJob

LEMMA OwnJob ==
    ASSUME IInv, NEW r \in Handlers
    PROVE  /\ job[r] \in Job /\ Shape(job[r]) /\ Carries(job[r])
           /\ job[r].pc = "close" => job[r].booking \in wasVip
BY DEF IInv, TypeOK, JobInv

\* What a step leaves of request q when it neither inserts nor removes it.
Kept(q) ==
    /\ request'[q].status = "none" <=> request[q].status = "none"
    /\ request'[q].booking = request[q].booking
    /\ request'[q].ask = request[q].ask
Monotone ==
    /\ \A b \in Bookings : bases[b] \subseteq bases'[b]
    /\ wasVip \subseteq wasVip'

\* One handler moves on. The histories only grow and a request stays as it is
\* while others use it, so what they carry stays true.
LEMMA JobStep ==
    ASSUME TypeOK, JobInv, Monotone,
           NEW r \in Handlers, NEW j \in Job, Shape(j), Carries(j),
           j.pc = "close" => j.booking \in wasVip',
           j.op \in ReviewOps \cup CreateOps => Kept(j.request),
           job' = [job EXCEPT ![r] = j],
           \A s \in Handlers \ {r} :
              /\ job[s].op \in ReviewOps \cup CreateOps => Kept(job[s].request)
              /\ j.op \in CreateOps /\ job[s].op \in CreateOps =>
                    job[s].request # j.request
    PROVE  job' \in [Handlers -> Job] /\ JobInv'
<1>1. job \in [Handlers -> Job]
    BY DEF TypeOK
<1>2. job' \in [Handlers -> Job]
    BY <1>1
<1>3. \A s \in Handlers : job'[s] = IF s = r THEN j ELSE job[s]
    BY <1>1
<1>4. ASSUME NEW s \in Handlers
      PROVE  (Shape(job[s]) /\ Carries(job[s])
              /\ (job[s].pc = "close" => job[s].booking \in wasVip))'
    <2>1. /\ job'[s] \in Job
          /\ Shape(job'[s])
          /\ Carries(job'[s])
          /\ job'[s].pc = "close" => job'[s].booking \in wasVip'
          /\ job'[s].op \in ReviewOps \cup CreateOps => Kept(job'[s].request)
        BY <1>2, <1>3 DEF JobInv, Monotone
    <2>2. Shape(job[s])'
        BY <2>1 DEF Shape, Kept
    <2>3. Carries(job[s])'
        BY <2>1 DEF Shape, Carries, Charged, Kept, Monotone, ReviewOps
    <2>4. QED
        BY <2>1, <2>2, <2>3
<1>5. \A s, t \in Handlers :
         s # t /\ job'[s].op \in CreateOps /\ job'[t].op \in CreateOps =>
             job'[s].request # job'[t].request
    BY <1>3 DEF JobInv
<1>6. QED
    BY <1>2, <1>4, <1>5 DEF JobInv

\* A handler moves on and no table changes.
LEMMA MoveStep ==
    ASSUME IInv, UNCHANGED tables,
           NEW r \in Handlers, NEW j \in Job, Shape(j), Carries(j), Become(r, j),
           j.pc = "close" => j.booking \in wasVip,
           j.op \in CreateOps =>
               \A s \in Handlers \ {r} :
                   job[s].op \in CreateOps => job[s].request # j.request
    PROVE  IInv'
<1>1. Monotone /\ \A q \in RequestIds : Kept(q)
    BY DEF Monotone, Kept, tables
<1>2. job' = [job EXCEPT ![r] = j] /\ wasVip' = wasVip
    BY DEF Become, tables
<1>3. \A s \in Handlers : job[s].op \in ReviewOps \cup CreateOps => Kept(job[s].request)
    BY <1>1 DEF IInv, JobInv, Shape
<1>4. j.op \in ReviewOps \cup CreateOps => Kept(j.request)
    BY <1>1 DEF Shape
<1>5. job' \in [Handlers -> Job] /\ JobInv'
    BY <1>1, <1>2, <1>3, <1>4, JobStep DEF IInv
<1>6. TypeOK'
    BY <1>5 DEF IInv, TypeOK, tables, Become
<1>7. (RowInv /\ ChargedOnce /\ ApprovedWasVip)'
    BY DEF IInv, RowInv, ChargedOnce, ApprovedWasVip, tables
<1>8. QED
    BY <1>5, <1>6, <1>7 DEF IInv

LEMMA AnswerStep ==
    ASSUME IInv, UNCHANGED tables, NEW r \in Handlers, Answer(r)
    PROVE  IInv'
BY MoveStep, NoJobFits DEF Answer, CreateOps

\* A handler goes on with the request it has.
LEMMA GotoStep ==
    ASSUME IInv, UNCHANGED tables, NEW r \in Handlers, NEW j \in Job,
           Shape(j), Carries(j), Become(r, j), ~Idle(r),
           j.op = job[r].op, j.request = job[r].request, j.pc # "close"
    PROVE  IInv'
<1>1. j.op \in CreateOps =>
         \A s \in Handlers \ {r} :
             job[s].op \in CreateOps => job[s].request # j.request
    BY DEF IInv, JobInv
<1>2. QED
    BY <1>1, MoveStep

-----------------------------------------------------------------------------
(* New requests.                                                           *)

LEMMA InitInv == Init => IInv
<1> SUFFICES ASSUME Init PROVE IInv
    OBVIOUS
<1>1. TypeOK
    <2>1. booking \in [Bookings -> Booking] /\ bases \in [Bookings -> SUBSET Nat]
        <3>1. booking \in [Bookings -> Booking]
            BY MoneyAssumption DEF Init, Booking
        <3>2. \A b \in Bookings : booking[b].total \in Nat
            BY <3>1, MoneyAssumption DEF Booking
        <3>3. QED
            BY <3>1, <3>2 DEF Init
    <2>2. request \in [RequestIds -> EditRequest]
        BY DEF Init, NoRequest, EditRequest
    <2>3. job \in [Handlers -> Job]
        BY NoJobFits DEF Init
    <2>4. QED
        BY <2>1, <2>2, <2>3, FaultsAssumption DEF Init, TypeOK
<1>2. JobInv
    BY NoJobFits DEF Init, JobInv, CreateOps
<1>3. RowInv /\ ChargedOnce /\ ApprovedWasVip
    BY DEF Init, RowInv, NoRequest, ChargedOnce, ApprovedWasVip
<1>4. QED
    BY <1>1, <1>2, <1>3 DEF IInv

LEMMA ReviewInv ==
    ASSUME IInv, NEW r \in Handlers, NEW q \in RequestIds,
           NEW op \in {"approve", "reject"}, Review(r, op, q)
    PROVE  IInv'
<1> DEFINE j == [NoJob EXCEPT !.op = op, !.pc = "guard", !.request = q,
                              !.booking = request[q].booking]
<1>1. request[q].status # "none" /\ request[q].booking \in Bookings
    BY DEF Review, IInv, RowInv
<1>2. j \in Job /\ Shape(j) /\ Carries(j) /\ j.op \notin CreateOps /\ j.pc = "guard"
    BY <1>1 DEF NoJob, Job, Shape, Carries, ReviewOps, CreateOps
<1>3. Become(r, j) /\ UNCHANGED tables
    BY DEF Review, Begin
<1> HIDE DEF j
<1>4. QED
    BY <1>2, <1>3, MoveStep

LEMMA ActivateInv ==
    ASSUME IInv, NEW r \in Handlers, NEW b \in Bookings, Activate(r, b)
    PROVE  IInv'
<1> DEFINE j == [NoJob EXCEPT !.op = "activate", !.pc = "read", !.booking = b]
<1>1. j \in Job /\ Shape(j) /\ Carries(j) /\ j.op \notin CreateOps /\ j.pc = "read"
    BY DEF NoJob, Job, Shape, Carries, ReviewOps, CreateOps
<1>2. Become(r, j) /\ UNCHANGED tables
    BY DEF Activate, Begin
<1> HIDE DEF j
<1>3. QED
    BY <1>1, <1>2, MoveStep

\* A new request has an id that no handler holds.
LEMMA FreshInv ==
    ASSUME IInv, NEW r \in Handlers, NEW b \in Bookings, NEW q \in RequestIds,
           NEW ask \in Asks, Unused(q),
           Create(r, b, ask, q) \/ (RequestUpgrade(r, b, q) /\ ask = VipAsk)
    PROVE  IInv'
<1>1. PICK op \in CreateOps, pc \in {"find", "guard"} :
         Begin(r, [NoJob EXCEPT !.op = op, !.pc = pc, !.booking = b,
                                !.request = q, !.ask = ask])
    BY DEF Create, RequestUpgrade, CreateOps
<1> DEFINE j == [NoJob EXCEPT !.op = op, !.pc = pc, !.booking = b,
                              !.request = q, !.ask = ask]
<1>2. j \in Job /\ Shape(j) /\ Carries(j) /\ j.request = q /\ j.pc # "close"
    BY DEF NoJob, Job, Shape, Carries, ReviewOps, CreateOps, Unused
<1>3. Become(r, j) /\ UNCHANGED tables
    BY <1>1 DEF Begin
<1>4. \A s \in Handlers \ {r} : job[s].op \in CreateOps => job[s].request # j.request
    BY <1>2 DEF Unused
<1> HIDE DEF j
<1>5. QED
    BY <1>2, <1>3, <1>4, MoveStep

-----------------------------------------------------------------------------
(* Creating an edit request.                                               *)

\* The checks before the insert only choose where the handler goes.
LEMMA ChecksInv ==
    ASSUME IInv, NEW r \in Handlers,
           UpgradeGuard(r) \/ CheckPending(r) \/ FindBooking(r)
    PROVE  IInv'
<1>1. job[r] \in Job /\ Shape(job[r]) /\ Carries(job[r])
    BY OwnJob
<1>2. /\ ~Idle(r) /\ job[r].op \in CreateOps
      /\ job[r].pc \notin {"price", "write", "close"} /\ UNCHANGED tables
    BY <1>1 DEF UpgradeGuard, CheckPending, FindBooking, At, Idle, CreateOps, Shape
<1>3. CASE Answer(r)
    BY <1>2, <1>3, AnswerStep
<1>4. ASSUME NEW pc \in {"check", "find", "insert"}, Goto(r, pc)
      PROVE  IInv'
    <2> DEFINE j == [job[r] EXCEPT !.pc = pc]
    <2>1. j \in Job /\ j.op = job[r].op /\ j.request = job[r].request /\ j.pc = pc
        BY <1>1 DEF Job
    <2>2. Shape(j) /\ Carries(j)
        BY <1>1, <1>2 DEF Job, Shape, Carries, ReviewOps, CreateOps, Idle
    <2>3. Become(r, j)
        BY <1>4 DEF Goto
    <2> HIDE DEF j
    <2>4. QED
        BY <1>2, <2>1, <2>2, <2>3, GotoStep
<1>5. QED
    BY <1>3, <1>4 DEF UpgradeGuard, CheckPending, FindBooking

LEMMA InsertInv ==
    ASSUME IInv, NEW r \in Handlers, Insert(r)
    PROVE  IInv'
<1> DEFINE q == job[r].request
<1>1. job[r] \in Job /\ Shape(job[r]) /\ job[r].op \in CreateOps /\ job[r].pc # "idle"
    BY OwnJob DEF Insert, Shape
<1>2. /\ q \in RequestIds /\ request[q].status = "none"
      /\ job[r].booking \in Bookings /\ job[r].ask \in Asks
    BY <1>1 DEF Shape
<1>3. request' = [request EXCEPT ![q] =
                    [status |-> "pending", booking |-> job[r].booking, ask |-> job[r].ask]]
    BY DEF Insert
<1>4. request' \in [RequestIds -> EditRequest]
    BY <1>2, <1>3 DEF IInv, TypeOK, EditRequest
<1>5. \A x \in RequestIds \ {q} : request'[x] = request[x]
    BY <1>3 DEF IInv, TypeOK
<1>6. request'[q] = [status |-> "pending", booking |-> job[r].booking, ask |-> job[r].ask]
    BY <1>2, <1>3 DEF IInv, TypeOK
<1>7. ASSUME NEW s \in Handlers \ {r}, job[s].op \in ReviewOps \cup CreateOps
      PROVE  Kept(job[s].request)
    <2>1. job[s].request \in RequestIds /\ job[s].request # q
        BY <1>1, <1>2, <1>7 DEF IInv, JobInv, Shape
    <2>2. QED
        BY <2>1, <1>5 DEF Kept
<1>8. job' = [job EXCEPT ![r] = NoJob] /\ UNCHANGED <<booking, price, bases, wasVip, approved, desk, faults>>
    BY DEF Insert, Answer, Become
<1>9. job' \in [Handlers -> Job] /\ JobInv'
    BY <1>7, <1>8, NoJobFits, JobStep DEF IInv, Monotone, ReviewOps, CreateOps
<1>10. RowInv'
    BY <1>2, <1>5, <1>6, <1>8 DEF IInv, TypeOK, RowInv
<1>11. (ChargedOnce /\ ApprovedWasVip)'
    BY <1>2, <1>5, <1>8 DEF IInv, TypeOK, RowInv, ChargedOnce, ApprovedWasVip
<1>12. QED
    BY <1>4, <1>8, <1>9, <1>10, <1>11 DEF IInv, TypeOK

-----------------------------------------------------------------------------
(* Reviewing one.                                                          *)

LEMMA ReviewGuardInv ==
    ASSUME IInv, NEW r \in Handlers, ReviewGuard(r)
    PROVE  IInv'
<1>1. job[r] \in Job /\ Shape(job[r]) /\ Carries(job[r])
    BY OwnJob
<1>2. ~Idle(r) /\ UNCHANGED tables /\ job[r].op \in ReviewOps /\ job[r].pc = "guard"
    BY DEF ReviewGuard, Idle, ReviewOps
<1>3. CASE Answer(r)
    BY <1>2, <1>3, AnswerStep
<1>4. ASSUME NEW pc \in {"read", "write"}, Goto(r, pc),
             pc = "read" <=> (job[r].op = "approve"
                              /\ request[job[r].request].ask.type = "vip_upgrade")
      PROVE  IInv'
    <2> DEFINE j == [job[r] EXCEPT !.pc = pc]
    <2>1. /\ j \in Job /\ j.op = job[r].op /\ j.request = job[r].request /\ j.pc = pc
          /\ j.booking = job[r].booking /\ j.upgrade = job[r].upgrade /\ j.ask = job[r].ask
        BY <1>1 DEF Job
    <2>2. Shape(j) /\ Carries(j)
        <3>1. Shape(j)
            BY <1>1, <1>2, <1>4, <2>1 DEF Shape, ReviewOps, CreateOps
        <3>2. Carries(j)
            BY <1>1, <1>2, <1>4, <2>1 DEF Shape, Carries, ReviewOps
        <3>3. QED
            BY <3>1, <3>2
    <2>3. Become(r, j)
        BY <1>4 DEF Goto
    <2> HIDE DEF j
    <2>4. QED
        BY <1>2, <2>1, <2>2, <2>3, GotoStep
<1>5. QED
    BY <1>3, <1>4 DEF ReviewGuard

LEMMA ReadBookingInv ==
    ASSUME IInv, NEW r \in Handlers, ReadBooking(r)
    PROVE  IInv'
<1> DEFINE b == job[r].booking
<1>1. job[r] \in Job /\ Shape(job[r]) /\ Carries(job[r])
    BY OwnJob
<1>2. /\ ~Idle(r) /\ UNCHANGED tables /\ job[r].pc = "read"
      /\ job[r].op \in {"approve", "activate"} /\ b \in Bookings /\ ~job[r].upgrade
    BY <1>1 DEF ReadBooking, Idle, Shape
<1>3. CASE AlreadyVip(b) /\ job[r].op = "approve"
    <2> DEFINE j == [job[r] EXCEPT !.pc = "write"]
    <2>1. /\ j \in Job /\ j.op = job[r].op /\ j.request = job[r].request /\ j.pc = "write"
          /\ j.booking = b /\ ~j.upgrade /\ j.ask = job[r].ask
        BY <1>1, <1>2 DEF Job
    <2>2. b \in wasVip
        BY <1>2, <1>3 DEF IInv, RowInv, AlreadyVip
    <2>3. Shape(j)
        BY <1>1, <1>2, <1>3, <2>1 DEF Shape, ReviewOps, CreateOps
    <2>4. Carries(j)
        BY <1>3, <2>1, <2>2 DEF Carries
    <2>5. Become(r, j)
        BY <1>2, <1>3 DEF ReadBooking, Goto
    <2> HIDE DEF j
    <2>6. QED
        BY <1>2, <2>1, <2>3, <2>4, <2>5, GotoStep
<1>4. CASE AlreadyVip(b) /\ job[r].op # "approve"
    BY <1>2, <1>4, AnswerStep DEF ReadBooking
<1>5. CASE ~AlreadyVip(b)
    <2> DEFINE j == [job[r] EXCEPT !.pc = "price", !.upgrade = TRUE,
                                   !.total = booking[b].total]
    <2>1. booking[b] \in Booking /\ booking[b].total \in Nat
        BY <1>2, MoneyAssumption DEF IInv, TypeOK, Booking
    <2>2. /\ j \in Job /\ j.op = job[r].op /\ j.request = job[r].request /\ j.pc = "price"
          /\ j.booking = b /\ j.upgrade /\ j.ask = job[r].ask /\ j.total = booking[b].total
        BY <1>1, <2>1 DEF Job
    <2>3. booking[b].total \in bases[b]
        BY <1>2, <1>5 DEF IInv, ChargedOnce, AlreadyVip
    <2>4. Shape(j)
        BY <1>1, <1>2, <2>2 DEF Shape, ReviewOps, CreateOps
    <2>5. Carries(j)
        BY <2>2, <2>3 DEF Carries
    <2>6. Become(r, j)
        BY <1>2, <1>5 DEF ReadBooking
    <2> HIDE DEF j
    <2>7. QED
        BY <1>2, <2>2, <2>4, <2>5, <2>6, GotoStep
<1>6. QED
    BY <1>3, <1>4, <1>5

LEMMA ReadPriceInv ==
    ASSUME IInv, NEW r \in Handlers, ReadPrice(r)
    PROVE  IInv'
<1>1. job[r] \in Job /\ Shape(job[r]) /\ Carries(job[r])
    BY OwnJob
<1>2. ~Idle(r) /\ UNCHANGED tables /\ job[r].pc = "price" /\ price \in Prices
    BY DEF ReadPrice, Idle, IInv, TypeOK
<1>3. job[r].total \in Nat /\ price \in Nat
    BY <1>1, <1>2, MoneyAssumption DEF Job
<1>4. PICK t \in Nat : t = job[r].total + price
    BY <1>3
<1> DEFINE j == [job[r] EXCEPT !.pc = "write", !.total = t]
<1>5. /\ j \in Job /\ j.op = job[r].op /\ j.request = job[r].request /\ j.pc = "write"
      /\ j.booking = job[r].booking /\ j.upgrade = job[r].upgrade /\ j.ask = job[r].ask
      /\ j.total = t
    BY <1>1 DEF Job
<1>6. Shape(j)
    BY <1>1, <1>2, <1>5 DEF Shape, ReviewOps, CreateOps
<1>7. Carries(j)
    BY <1>1, <1>2, <1>4, <1>5 DEF Carries, Charged
<1>8. Become(r, j)
    BY <1>4 DEF ReadPrice
<1> HIDE DEF j
<1>9. QED
    BY <1>2, <1>5, <1>6, <1>7, <1>8, GotoStep

-----------------------------------------------------------------------------
(* What the writes do to the tables.                                       *)

\* Requests change their status alone, and none is removed.
LEMMA StatusStep ==
    ASSUME IInv, NEW Q \in SUBSET RequestIds, NEW st \in {"approved", "rejected"},
           \A q \in Q : request[q].status # "none",
           request' = [q \in RequestIds |->
                         IF q \in Q THEN [request[q] EXCEPT !.status = st]
                         ELSE request[q]]
    PROVE  /\ request' \in [RequestIds -> EditRequest]
           /\ \A q \in RequestIds : Kept(q)
<1>1. request \in [RequestIds -> EditRequest]
    BY DEF IInv, TypeOK
<1>2. ASSUME NEW q \in RequestIds
      PROVE  request'[q] \in EditRequest /\ Kept(q)
    BY <1>1, <1>2 DEF EditRequest, Kept
<1>3. QED
    BY <1>2

\* Booking b gets a total that is its own, or one that carries one VIP price.
LEMMA BookingStep ==
    ASSUME IInv, Monotone, NEW b \in Bookings, NEW new \in Booking,
           booking' = [booking EXCEPT ![b] = new],
           new.total \in bases'[b] \/ (new.vip /\ Charged(b, new.total)),
           wasVip' = {c \in Bookings : c \in wasVip \/ booking'[c].vip}
    PROVE  /\ booking' \in [Bookings -> Booking]
           /\ wasVip' \subseteq Bookings
           /\ \A c \in Bookings : booking'[c].vip => c \in wasVip'
           /\ ChargedOnce'
<1>1. /\ booking' \in [Bookings -> Booking] /\ booking'[b] = new
      /\ \A c \in Bookings \ {b} : booking'[c] = booking[c]
    BY DEF IInv, TypeOK
<1>2. ASSUME NEW c \in Bookings
      PROVE  \/ booking'[c].total \in bases'[c]
             \/ /\ booking'[c].vip
                /\ \E t \in bases'[c], p \in Prices : booking'[c].total = t + p
    BY <1>1, <1>2 DEF IInv, ChargedOnce, Charged, Monotone
<1>3. QED
    BY <1>1, <1>2 DEF ChargedOnce

\* The handler answers and the rest of the invariant follows from what the step
\* keeps.
LEMMA AnswerJob ==
    ASSUME IInv, Monotone, \A q \in RequestIds : Kept(q),
           NEW r \in Handlers, job' = [job EXCEPT ![r] = NoJob]
    PROVE  job' \in [Handlers -> Job] /\ JobInv'
<1>1. \A s \in Handlers : job[s].op \in ReviewOps \cup CreateOps => Kept(job[s].request)
    BY DEF IInv, JobInv, Shape
<1>2. QED
    BY <1>1, NoJobFits, JobStep DEF IInv, ReviewOps, CreateOps

\* Approvals that were given stay well-founded, and so are the new ones.
LEMMA ApprovedStep ==
    ASSUME IInv, Monotone, \A q \in RequestIds : Kept(q),
           NEW Q \in SUBSET RequestIds, approved' = approved \cup Q,
           \A q \in Q : /\ request[q].status # "none"
                        /\ request[q].ask.type = "vip_upgrade" =>
                              request[q].booking \in wasVip',
           \A b \in Bookings : booking'[b].vip => b \in wasVip'
    PROVE  approved' \subseteq RequestIds /\ RowInv' /\ ApprovedWasVip'
<1>1. approved' \subseteq RequestIds
    BY DEF IInv, TypeOK
<1>2. RowInv'
    BY <1>1 DEF IInv, RowInv, Kept
<1>3. ASSUME NEW q \in approved', request'[q].ask.type = "vip_upgrade"
      PROVE  request'[q].booking \in wasVip'
    <2>1. Kept(q) /\ request[q].ask.type = "vip_upgrade"
        BY <1>1, <1>3 DEF Kept
    <2>2. request[q].booking \in wasVip'
        BY <1>3, <2>1 DEF IInv, ApprovedWasVip, Monotone
    <2>3. QED
        BY <2>1, <2>2 DEF Kept
<1>4. QED
    BY <1>1, <1>2, <1>3 DEF ApprovedWasVip

-----------------------------------------------------------------------------
(* The writes.                                                             *)

LEMMA RejectWriteInv ==
    ASSUME IInv, NEW r \in Handlers, RejectWrite(r)
    PROVE  IInv'
<1> DEFINE q == job[r].request
<1>1. Shape(job[r]) /\ job[r].op \in ReviewOps
    BY OwnJob DEF RejectWrite, At, ReviewOps
<1>2. {q} \in SUBSET RequestIds /\ \A x \in {q} : request[x].status # "none"
    BY <1>1 DEF Shape
<1>3. request' = [x \in RequestIds |-> IF x \in {q} THEN [request[x] EXCEPT !.status = "rejected"]
                                      ELSE request[x]]
    BY <1>2 DEF RejectWrite, IInv, TypeOK
<1>4. request' \in [RequestIds -> EditRequest] /\ \A x \in RequestIds : Kept(x)
    BY <1>2, <1>3, StatusStep
<1>5. /\ job' = [job EXCEPT ![r] = NoJob]
      /\ UNCHANGED <<booking, price, bases, wasVip, approved, desk, faults>>
    BY DEF RejectWrite, Answer, Become
<1>6. Monotone
    BY <1>5 DEF Monotone
<1>7. job' \in [Handlers -> Job] /\ JobInv'
    BY <1>4, <1>5, <1>6, AnswerJob
<1>8. /\ approved' = approved \cup {} /\ {} \in SUBSET RequestIds
      /\ \A b \in Bookings : booking'[b].vip => b \in wasVip'
    BY <1>5 DEF IInv, RowInv
<1>9. RowInv' /\ ApprovedWasVip'
    BY <1>4, <1>6, <1>8, ApprovedStep
<1>10. QED
    BY <1>4, <1>5, <1>7, <1>9 DEF IInv, TypeOK, ChargedOnce

LEMMA ApproveWriteInv ==
    ASSUME IInv, NEW r \in Handlers, ApproveWrite(r)
    PROVE  IInv'
<1> DEFINE q == job[r].request
           b == job[r].booking
           new == IF job[r].upgrade THEN Upgraded(booking[b], job[r])
                  ELSE Redate(booking[b], request[q].ask)
<1>1. /\ job[r] \in Job /\ Shape(job[r]) /\ Carries(job[r])
      /\ job[r].op = "approve" /\ job[r].pc = "write"
    BY OwnJob DEF ApproveWrite, At
<1>2. /\ q \in RequestIds /\ request[q].status # "none" /\ b \in Bookings
      /\ request[q].booking = b /\ booking[b] \in Booking
    BY <1>1 DEF Shape, ReviewOps, IInv, TypeOK
<1>3. /\ booking' = [booking EXCEPT ![b] = new]
      /\ approved' = approved \cup {q}
      /\ wasVip' = {c \in Bookings : c \in wasVip \/ booking'[c].vip}
      /\ job' = [job EXCEPT ![r] = NoJob]
      /\ UNCHANGED <<price, bases, desk, faults>>
    BY <1>2 DEF ApproveWrite, Answer, Become, IInv, TypeOK
<1>4. request' = [x \in RequestIds |-> IF x \in {q} THEN [request[x] EXCEPT !.status = "approved"]
                                      ELSE request[x]]
    BY <1>2 DEF ApproveWrite, IInv, TypeOK
<1>5. request' \in [RequestIds -> EditRequest] /\ \A x \in RequestIds : Kept(x)
    <2>1. {q} \in SUBSET RequestIds /\ \A x \in {q} : request[x].status # "none"
        BY <1>2
    <2>2. QED
        BY <1>4, <2>1, StatusStep
<1>6. Monotone
    BY <1>3 DEF Monotone, IInv, TypeOK
<1>7. new \in Booking /\ (new.total \in bases'[b] \/ (new.vip /\ Charged(b, new.total)))
    <2>1. CASE job[r].upgrade
        <3>1. job[r].total \in 0 .. MaxTotal
            BY <1>1, <2>1, MoneyAssumption DEF ApproveWrite, Overflows, Job
        <3>2. new = [booking[b] EXCEPT !.vip = TRUE, !.total = job[r].total]
            BY <2>1 DEF Upgraded
        <3>3. new \in Booking /\ new.vip /\ new.total = job[r].total
            BY <1>2, <3>1, <3>2 DEF Booking
        <3>4. QED
            BY <1>1, <2>1, <3>3 DEF Carries
    <2>2. CASE ~job[r].upgrade
        <3>1. new = Redate(booking[b], request[q].ask)
            BY <2>2
        <3>2. new \in Booking /\ new.vip = booking[b].vip /\ new.total = booking[b].total
            BY <1>2, <3>1 DEF Redate, Booking
        <3>3. \/ booking[b].total \in bases[b]
              \/ booking[b].vip /\ Charged(b, booking[b].total)
            BY <1>2 DEF IInv, ChargedOnce, Charged
        <3>4. QED
            BY <1>3, <3>2, <3>3
    <2>3. QED
        BY <2>1, <2>2
<1>8. request[q].ask.type = "vip_upgrade" => b \in wasVip'
    <2>1. CASE job[r].upgrade
        <3>1. booking'[b].vip
            BY <1>2, <1>3, <2>1 DEF IInv, TypeOK, Upgraded, Booking
        <3>2. QED
            BY <1>2, <1>3, <3>1
    <2>2. CASE ~job[r].upgrade
        BY <1>1, <1>6, <2>2 DEF Carries, Monotone
    <2>3. QED
        BY <2>1, <2>2
<1>9. job' \in [Handlers -> Job] /\ JobInv'
    BY <1>3, <1>5, <1>6, AnswerJob
<1> HIDE DEF new
<1>10. /\ booking' \in [Bookings -> Booking] /\ wasVip' \subseteq Bookings
       /\ \A c \in Bookings : booking'[c].vip => c \in wasVip'
       /\ ChargedOnce'
    BY <1>2, <1>3, <1>6, <1>7, BookingStep
<1>11. approved' \subseteq RequestIds /\ RowInv' /\ ApprovedWasVip'
    <2>1. /\ {q} \in SUBSET RequestIds
          /\ \A x \in {q} : /\ request[x].status # "none"
                            /\ request[x].ask.type = "vip_upgrade" =>
                                  request[x].booking \in wasVip'
        BY <1>2, <1>8
    <2>2. QED
        BY <1>3, <1>5, <1>6, <1>10, <2>1, ApprovedStep
<1>12. QED
    BY <1>3, <1>5, <1>9, <1>10, <1>11 DEF IInv, TypeOK

LEMMA ActivateWriteInv ==
    ASSUME IInv, NEW r \in Handlers, ActivateWrite(r)
    PROVE  IInv'
<1> DEFINE b == job[r].booking
           new == Upgraded(booking[b], job[r])
           j == [job[r] EXCEPT !.pc = "close"]
<1>1. /\ job[r] \in Job /\ Shape(job[r]) /\ Carries(job[r])
      /\ job[r].op = "activate" /\ job[r].pc = "write"
    BY OwnJob DEF ActivateWrite, At
<1>2. b \in Bookings /\ booking[b] \in Booking /\ job[r].upgrade
    BY <1>1 DEF Shape, Carries, IInv, TypeOK
<1>3. /\ booking' = [booking EXCEPT ![b] = new]
      /\ wasVip' = {c \in Bookings : c \in wasVip \/ booking'[c].vip}
      /\ job' = [job EXCEPT ![r] = j]
      /\ UNCHANGED <<request, price, bases, approved, faults>>
      /\ desk' \subseteq RequestIds
    BY <1>2 DEF ActivateWrite, Goto, Become, IInv, TypeOK, PendingVip
<1>4. Monotone /\ \A q \in RequestIds : Kept(q)
    BY <1>3 DEF Monotone, Kept, IInv, TypeOK
<1>5. new \in Booking /\ new.vip /\ Charged(b, new.total)
    <2>1. job[r].total \in 0 .. MaxTotal
        BY <1>1, <1>2, MoneyAssumption DEF ActivateWrite, Overflows, Job
    <2>2. QED
        BY <1>1, <1>2, <2>1 DEF Upgraded, Booking, Carries
<1>6. b \in wasVip'
    BY <1>2, <1>3, <1>5 DEF IInv, TypeOK
<1>7. job' \in [Handlers -> Job] /\ JobInv'
    <2>1. /\ j \in Job /\ j.op = "activate" /\ j.pc = "close" /\ j.booking = b
        BY <1>1 DEF Job
    <2>2. Shape(j) /\ Carries(j)
        BY <1>2, <2>1 DEF Shape, Carries, ReviewOps, CreateOps
    <2>3. \A s \in Handlers : job[s].op \in ReviewOps \cup CreateOps => Kept(job[s].request)
        BY <1>4 DEF IInv, JobInv, Shape
    <2> HIDE DEF j
    <2>4. QED
        BY <1>3, <1>4, <1>6, <2>1, <2>2, <2>3, JobStep DEF IInv, ReviewOps, CreateOps
<1> HIDE DEF new, j
<1>8. /\ booking' \in [Bookings -> Booking] /\ wasVip' \subseteq Bookings
      /\ \A c \in Bookings : booking'[c].vip => c \in wasVip'
      /\ ChargedOnce'
    BY <1>2, <1>3, <1>4, <1>5, BookingStep
<1>9. approved' = approved \cup {} /\ {} \in SUBSET RequestIds
    BY <1>3
<1>10. RowInv' /\ ApprovedWasVip'
    BY <1>4, <1>8, <1>9, ApprovedStep
<1>11. QED
    BY <1>3, <1>7, <1>8, <1>10 DEF IInv, TypeOK

LEMMA CloseRequestsInv ==
    ASSUME IInv, NEW r \in Handlers, CloseRequests(r)
    PROVE  IInv'
<1> DEFINE closed == Closed(job[r].booking)
<1>1. job[r].pc = "close" /\ job[r].booking \in wasVip
    BY OwnJob DEF CloseRequests
<1>2. /\ closed \in SUBSET RequestIds
      /\ \A q \in closed : /\ request[q].status # "none"
                           /\ request[q].booking = job[r].booking
    BY DEF Closed, PendingVip
<1>3. /\ request' = [q \in RequestIds |->
                        IF q \in closed THEN [request[q] EXCEPT !.status = "approved"]
                        ELSE request[q]]
      /\ approved' = approved \cup closed
      /\ job' = [job EXCEPT ![r] = NoJob]
      /\ UNCHANGED <<booking, price, bases, wasVip, desk, faults>>
    BY DEF CloseRequests, Answer, Become
<1> HIDE DEF closed
<1>4. request' \in [RequestIds -> EditRequest] /\ \A x \in RequestIds : Kept(x)
    BY <1>2, <1>3, StatusStep
<1>5. Monotone
    BY <1>3 DEF Monotone
<1>6. job' \in [Handlers -> Job] /\ JobInv'
    BY <1>3, <1>4, <1>5, AnswerJob
<1>7. \A b \in Bookings : booking'[b].vip => b \in wasVip'
    BY <1>3 DEF IInv, RowInv
<1>8. approved' \subseteq RequestIds /\ RowInv' /\ ApprovedWasVip'
    BY <1>1, <1>2, <1>3, <1>4, <1>5, <1>7, ApprovedStep
<1>9. QED
    BY <1>3, <1>4, <1>6, <1>8 DEF IInv, TypeOK, ChargedOnce

-----------------------------------------------------------------------------
(* Staff, the setting, faults.                                             *)

LEMMA UpdateBookingInv ==
    ASSUME IInv, NEW b \in Bookings, NEW new \in Booking, UpdateBooking(b, new)
    PROVE  IInv'
<1>1. /\ booking' = [booking EXCEPT ![b] = new]
      /\ bases' = [bases EXCEPT ![b] =
                      IF new.total # booking[b].total \/ ~new.vip
                      THEN @ \cup {new.total} ELSE @]
      /\ wasVip' = {c \in Bookings : c \in wasVip \/ booking'[c].vip}
      /\ UNCHANGED <<request, price, job, approved, desk, faults>>
    BY DEF UpdateBooking
<1>2. new.total \in Nat
    BY MoneyAssumption DEF Booking
<1>3. bases' \in [Bookings -> SUBSET Nat]
    BY <1>1, <1>2 DEF IInv, TypeOK
<1>4. Monotone /\ \A q \in RequestIds : Kept(q)
    BY <1>1 DEF Monotone, Kept, IInv, TypeOK
<1>5. new.total \in bases'[b] \/ (new.vip /\ Charged(b, new.total))
    <2>1. CASE new.total # booking[b].total \/ ~new.vip
        BY <1>1, <2>1 DEF IInv, TypeOK
    <2>2. CASE new.total = booking[b].total /\ new.vip
        BY <1>4, <2>2 DEF IInv, ChargedOnce, Charged, Monotone
    <2>3. QED
        BY <2>1, <2>2
<1>6. /\ booking' \in [Bookings -> Booking] /\ wasVip' \subseteq Bookings
      /\ \A c \in Bookings : booking'[c].vip => c \in wasVip'
      /\ ChargedOnce'
    BY <1>1, <1>4, <1>5, BookingStep
<1>7. approved' = approved \cup {} /\ {} \in SUBSET RequestIds
    BY <1>1
<1>8. RowInv' /\ ApprovedWasVip'
    BY <1>4, <1>6, <1>7, ApprovedStep
<1>9. JobInv'
    BY <1>1, <1>4 DEF IInv, JobInv, Shape, Carries, Charged, Monotone, TypeOK
<1>10. QED
    BY <1>1, <1>3, <1>6, <1>8, <1>9 DEF IInv, TypeOK

LEMMA SetPriceInv ==
    ASSUME IInv, NEW p \in Prices, SetPrice(p)
    PROVE  IInv'
<1>1. TypeOK'
    BY DEF SetPrice, IInv, TypeOK
<1>2. (JobInv /\ RowInv /\ ChargedOnce /\ ApprovedWasVip)'
    BY DEF SetPrice, IInv, JobInv, Shape, Carries, Charged, RowInv, ChargedOnce, ApprovedWasVip
<1>3. QED
    BY <1>1, <1>2 DEF IInv

LEMMA AbortInv ==
    ASSUME IInv, NEW r \in Handlers, Abort(r)
    PROVE  IInv'
<1>1. UNCHANGED tables /\ job' = [job EXCEPT ![r] = NoJob]
    BY DEF Abort
<1>2. Monotone /\ \A q \in RequestIds : Kept(q)
    BY <1>1 DEF Monotone, Kept, tables
<1>3. job' \in [Handlers -> Job] /\ JobInv'
    BY <1>1, <1>2, AnswerJob
<1>4. faults' \in 0 .. MaxFaults
    BY FaultsAssumption DEF Abort, IInv, TypeOK
<1>5. QED
    BY <1>1, <1>3, <1>4
    DEF IInv, TypeOK, RowInv, ChargedOnce, ApprovedWasVip, tables

-----------------------------------------------------------------------------
(* The theorems.                                                           *)

LEMMA NextInv == IInv /\ [Next]_vars => IInv'
<1> SUFFICES ASSUME IInv, [Next]_vars PROVE IInv'
    OBVIOUS
<1>1. CASE UNCHANGED vars
    BY <1>1 DEF vars, IInv, TypeOK, JobInv, Shape, Carries, Charged, RowInv,
                ChargedOnce, ApprovedWasVip
<1>2. ASSUME NEW r \in Handlers, Advance(r)
      PROVE  IInv'
    <2>1. CASE UpgradeGuard(r) \/ CheckPending(r) \/ FindBooking(r)
        BY <2>1, ChecksInv
    <2>2. CASE Insert(r)
        BY <2>2, InsertInv
    <2>3. CASE ReviewGuard(r)
        BY <2>3, ReviewGuardInv
    <2>4. CASE RejectWrite(r)
        BY <2>4, RejectWriteInv
    <2>5. CASE ReadBooking(r)
        BY <2>5, ReadBookingInv
    <2>6. CASE ReadPrice(r)
        BY <2>6, ReadPriceInv
    <2>7. CASE ApproveWrite(r)
        BY <2>7, ApproveWriteInv
    <2>8. CASE WriteFails(r)
        BY <2>8, AnswerStep DEF WriteFails
    <2>9. CASE ActivateWrite(r)
        BY <2>9, ActivateWriteInv
    <2>10. CASE CloseRequests(r)
        BY <2>10, CloseRequestsInv
    <2>11. QED
        BY <1>2, <2>1, <2>2, <2>3, <2>4, <2>5, <2>6, <2>7, <2>8, <2>9, <2>10 DEF Advance
<1>3. ASSUME NEW r \in Handlers, NEW q \in RequestIds, NEW op \in {"approve", "reject"},
             Review(r, op, q)
      PROVE  IInv'
    BY <1>3, ReviewInv
<1>4. ASSUME NEW r \in Handlers, NEW b \in Bookings, Activate(r, b)
      PROVE  IInv'
    BY <1>4, ActivateInv
<1>5. ASSUME NEW r \in Handlers, NEW b \in Bookings, NEW q \in RequestIds,
             RequestUpgrade(r, b, q)
      PROVE  IInv'
    <2>1. VipAsk \in Asks /\ Unused(q)
        BY <1>5 DEF VipAsk, Asks, RequestUpgrade
    <2>2. QED
        BY <1>5, <2>1, FreshInv
<1>6. ASSUME NEW r \in Handlers, NEW b \in Bookings, NEW ask \in Asks,
             NEW q \in RequestIds, Create(r, b, ask, q)
      PROVE  IInv'
    BY <1>6, FreshInv DEF Create
<1>7. ASSUME NEW r \in Handlers, Abort(r) PROVE IInv'
    BY <1>7, AbortInv
<1>8. ASSUME NEW p \in Prices, SetPrice(p) PROVE IInv'
    BY <1>8, SetPriceInv
<1>9. ASSUME NEW b \in Bookings, NEW new \in Booking, UpdateBooking(b, new)
      PROVE  IInv'
    BY <1>9, UpdateBookingInv
<1>10. QED
    BY <1>1, <1>2, <1>3, <1>4, <1>5, <1>6, <1>7, <1>8, <1>9 DEF Next

\* The inductive invariant holds: what handlers carry from what they have read
\* stays backed by the histories, whatever the others commit meanwhile.
THEOREM Invariance == Spec => []IInv
<1>1. Init => IInv
    BY InitInv
<1>2. IInv /\ [Next]_vars => IInv'
    BY NextInv
<1>3. QED
    BY <1>1, <1>2, PTL DEF Spec

\* Every variable keeps its type: no total leaves its column.
THEOREM TypeCorrect == Spec => []TypeOK
<1>1. IInv => TypeOK
    BY DEF IInv
<1>2. QED
    BY <1>1, Invariance, PTL

\* No interleaving of approvals, the desk and staff charges a booking for VIP
\* twice.
THEOREM ChargedForOnce == Spec => []ChargedOnce
<1>1. IInv => ChargedOnce
    BY DEF IInv
<1>2. QED
    BY <1>1, Invariance, PTL

\* Whoever approves an upgrade, by review or at the desk, its booking has been VIP.
THEOREM ApprovalUpgrades == Spec => []ApprovedWasVip
<1>1. IInv => ApprovedWasVip
    BY DEF IInv
<1>2. QED
    BY <1>1, Invariance, PTL

\* No step changes a booking's dates without an approved request for them or a
\* PATCH by staff.
THEOREM DatesNeedApproval == Spec => DatesAreApproved
<1> DEFINE Allowed(b) ==
        booking'[b].dates # booking[b].dates =>
            \/ booking'[b].dates \in DatePatches
            \/ \E q \in approved' : /\ request[q].booking = b
                                    /\ request[q].ask.type = "date_change"
                                    /\ request[q].ask.value = booking'[b].dates
<1>1. ASSUME IInv, [Next]_vars, NEW b \in Bookings
      PROVE  Allowed(b)
    <2>1. CASE booking' = booking
        BY <2>1
    <2>2. ASSUME NEW r \in Handlers, ApproveWrite(r)
          PROVE  Allowed(b)
        <3>1. Shape(job[r]) /\ job[r].op \in ReviewOps
            BY <1>1, <2>2, OwnJob DEF ApproveWrite, At, ReviewOps
        <3>2. /\ job[r].request \in approved'
              /\ request[job[r].request].booking = job[r].booking
            BY <2>2, <3>1 DEF ApproveWrite, Shape
        <3>3. booking[b] \in Booking
            BY <1>1 DEF IInv, TypeOK
        <3>4. \/ /\ b = job[r].booking
                 /\ booking'[b] = Redate(booking[b], request[job[r].request].ask)
              \/ booking'[b].dates = booking[b].dates
            BY <1>1, <2>2, <3>3 DEF ApproveWrite, Upgraded, IInv, TypeOK, Booking
        <3>5. QED
            BY <3>2, <3>3, <3>4 DEF Redate, Booking
    <2>3. ASSUME NEW r \in Handlers, ActivateWrite(r)
          PROVE  Allowed(b)
        BY <1>1, <2>3 DEF ActivateWrite, Upgraded, IInv, TypeOK, Booking
    <2>4. ASSUME NEW c \in Bookings, NEW new \in Booking, UpdateBooking(c, new)
          PROVE  Allowed(b)
        BY <1>1, <2>4 DEF UpdateBooking, IInv, TypeOK
    <2>5. QED
        BY <1>1, <2>1, <2>2, <2>3, <2>4
        DEF Next, Advance, vars, tables, Begin, Review, Activate, RequestUpgrade, Create,
            UpgradeGuard, CheckPending, FindBooking, Insert, ReviewGuard, RejectWrite,
            ReadBooking, ReadPrice, WriteFails, CloseRequests, SetPrice, Abort
<1>2. IInv /\ [Next]_vars => [\A b \in Bookings : Allowed(b)]_vars
    BY <1>1
<1>3. QED
    BY <1>2, Invariance, PTL DEF Spec, DatesAreApproved
-----------------------------------------------------------------------------
(* The desk closes what it found pending.                                  *)

\* r is between the activation of q's booking and the closing of its requests.
Closing(r, q) == job[r].pc = "close" /\ job[r].booking = request[q].booking

\* Unless a handler was lost, somebody is about to close each request that was
\* pending at an activation and still is.
DeskInv ==
    \A q \in desk :
        /\ request[q].status # "none" /\ request[q].ask.type = "vip_upgrade"
        /\ faults = 0 /\ request[q].status = "pending" => \E r \in Handlers : Closing(r, q)

\* A step after which desk's requests are no more pending than before, and whose
\* handlers at the closing are still there.
LEMMA DeskStep ==
    ASSUME DeskInv, desk' = desk, faults' = 0 => faults = 0,
           \A q \in desk : /\ Kept(q)
                           /\ request'[q].status = "pending" => request[q].status = "pending",
           \A r \in Handlers : job[r].pc = "close" => job'[r] = job[r]
    PROVE  DeskInv'
<1> SUFFICES ASSUME NEW q \in desk
             PROVE  /\ request'[q].status # "none" /\ request'[q].ask.type = "vip_upgrade"
                    /\ faults' = 0 /\ request'[q].status = "pending" =>
                          \E r \in Handlers : Closing(r, q)'
    BY DEF DeskInv
<1>1. request'[q].status # "none" /\ request'[q].ask.type = "vip_upgrade"
    BY DEF DeskInv, Kept
<1>2. ASSUME faults' = 0, request'[q].status = "pending"
      PROVE  \E r \in Handlers : Closing(r, q)'
    <2>1. PICK r \in Handlers : Closing(r, q)
        BY <1>2 DEF DeskInv
    <2>2. Closing(r, q)'
        BY <2>1 DEF Closing, Kept
    <2>3. QED
        BY <2>2
<1>3. QED
    BY <1>1, <1>2

\* A handler that is not at the closing moves on, and requests stay.
LEMMA DeskMoves ==
    ASSUME IInv, DeskInv, desk' = desk, request' = request, faults' = 0 => faults = 0,
           NEW r \in Handlers, job[r].pc # "close", NEW j,
           job' = [job EXCEPT ![r] = j]
    PROVE  DeskInv'
<1>1. \A q \in desk : Kept(q)
    BY DEF Kept
<1>2. \A s \in Handlers : job[s].pc = "close" => job'[s] = job[s]
    BY DEF IInv, TypeOK
<1>3. QED
    BY <1>1, <1>2, DeskStep

\* An insert writes a row that was none's, and a review one that it closes.
LEMMA DeskWrites ==
    ASSUME IInv, DeskInv, desk' = desk, faults' = faults,
           NEW r \in Handlers, job[r].pc # "close", NEW j,
           job' = [job EXCEPT ![r] = j],
           NEW q \in RequestIds, NEW new, request' = [request EXCEPT ![q] = new],
           \/ request[q].status = "none"
           \/ /\ new.status \in {"approved", "rejected"} /\ request[q].status # "none"
              /\ new.booking = request[q].booking /\ new.ask = request[q].ask
    PROVE  DeskInv'
<1>1. \A p \in desk : p \in RequestIds /\ request[p].status # "none"
    BY DEF IInv, TypeOK, DeskInv
<1>2. ASSUME NEW p \in desk
      PROVE  Kept(p) /\ (request'[p].status = "pending" => request[p].status = "pending")
    <2>1. CASE p = q
        BY <1>1, <2>1 DEF Kept, IInv, TypeOK
    <2>2. CASE p # q
        BY <2>2 DEF Kept, IInv, TypeOK
    <2>3. QED
        BY <2>1, <2>2
<1>3. \A s \in Handlers : job[s].pc = "close" => job'[s] = job[s]
    BY DEF IInv, TypeOK
<1>4. QED
    BY <1>2, <1>3, DeskStep

LEMMA DeskActivates ==
    ASSUME IInv, DeskInv, NEW r \in Handlers, ActivateWrite(r)
    PROVE  DeskInv'
<1> DEFINE b == job[r].booking
           j == [job[r] EXCEPT !.pc = "close"]
<1>1. /\ desk' = desk \cup PendingVip(b) /\ request' = request /\ faults' = faults
      /\ job' = [job EXCEPT ![r] = j] /\ job[r].pc = "write" /\ job[r] \in Job
    BY OwnJob DEF ActivateWrite, Goto, Become, At
<1>2. job'[r].pc = "close" /\ job'[r].booking = b
    BY <1>1 DEF IInv, TypeOK, Job
<1>3. \A s \in Handlers : job[s].pc = "close" => job'[s] = job[s]
    BY <1>1 DEF IInv, TypeOK
<1>4. ASSUME NEW q \in desk'
      PROVE  /\ request[q].status # "none" /\ request[q].ask.type = "vip_upgrade"
             /\ faults = 0 /\ request[q].status = "pending" =>
                   \E s \in Handlers : Closing(s, q)'
    <2>1. CASE q \in desk
        <3>1. \A s \in Handlers : Closing(s, q) => Closing(s, q)'
            BY <1>1, <1>3 DEF Closing
        <3>2. QED
            BY <2>1, <3>1 DEF DeskInv
    <2>2. CASE q \in PendingVip(b)
        <3>1. Closing(r, q)'
            BY <1>1, <1>2, <2>2 DEF Closing, PendingVip
        <3>2. QED
            BY <2>2, <3>1 DEF PendingVip
    <2>3. QED
        BY <1>1, <2>1, <2>2
<1>5. QED
    BY <1>1, <1>4 DEF DeskInv

\* The handler that leaves the closing leaves nothing of its booking pending.
LEMMA DeskCloses ==
    ASSUME IInv, DeskInv, NEW r \in Handlers, CloseRequests(r)
    PROVE  DeskInv'
<1> DEFINE b == job[r].booking
<1>1. /\ desk' = desk /\ faults' = faults /\ job' = [job EXCEPT ![r] = NoJob]
      /\ desk \subseteq RequestIds
    BY DEF CloseRequests, Answer, Become, IInv, TypeOK
<1>2. \A q \in RequestIds :
          request'[q] = IF q \in PendingVip(b) THEN [request[q] EXCEPT !.status = "approved"]
                        ELSE request[q]
    BY DEF CloseRequests, Closed
<1>3. ASSUME NEW q \in desk
      PROVE  /\ request'[q].status # "none" /\ request'[q].ask.type = "vip_upgrade"
             /\ faults = 0 /\ request'[q].status = "pending" =>
                   \E s \in Handlers : Closing(s, q)'
    <2>1. request[q] \in EditRequest /\ q \in RequestIds
        BY <1>1 DEF IInv, TypeOK
    <2>2. CASE q \in PendingVip(b)
        <3>1. /\ request'[q].status = "approved" /\ request'[q].ask = request[q].ask
            BY <1>2, <2>1, <2>2 DEF EditRequest
        <3>2. QED
            BY <3>1 DEF DeskInv
    <2>3. CASE q \notin PendingVip(b)
        <3>1. request'[q] = request[q]
            BY <1>2, <2>1, <2>3
        <3>2. ASSUME faults = 0, request[q].status = "pending"
              PROVE  \E s \in Handlers : Closing(s, q)'
            <4>1. PICK s \in Handlers : Closing(s, q)
                BY <3>2 DEF DeskInv
            <4>2. request[q].booking # b
                BY <2>1, <2>3, <3>2 DEF PendingVip, DeskInv
            <4>3. s # r
                BY <4>1, <4>2 DEF Closing
            <4>4. job'[s] = job[s]
                BY <1>1, <4>3 DEF IInv, TypeOK
            <4>5. Closing(s, q)'
                BY <3>1, <4>1, <4>4 DEF Closing
            <4>6. QED
                BY <4>5
        <3>3. QED
            BY <3>1, <3>2 DEF DeskInv
    <2>4. QED
        BY <2>2, <2>3
<1>4. QED
    BY <1>1, <1>3 DEF DeskInv

LEMMA DeskAborts ==
    ASSUME IInv, DeskInv, NEW r \in Handlers, Abort(r)
    PROVE  DeskInv'
<1>1. faults' # 0 /\ desk' = desk /\ request' = request
    BY FaultsAssumption DEF Abort, tables, IInv, TypeOK
<1>2. QED
    BY <1>1 DEF DeskInv

LEMMA DeskNext ==
    ASSUME IInv, DeskInv, [Next]_vars
    PROVE  DeskInv'
<1>1. CASE UNCHANGED <<request, desk, job, faults>>
    BY <1>1 DEF DeskInv, Closing
<1>2. ASSUME NEW r \in Handlers, NEW j, Become(r, j), job[r].pc # "close", UNCHANGED tables
      PROVE  DeskInv'
    BY <1>2, DeskMoves DEF Become, tables
<1>3. ASSUME NEW r \in Handlers, Advance(r)
      PROVE  DeskInv'
    <2>1. CASE Insert(r)
        <3>1. /\ job[r].request \in RequestIds /\ request[job[r].request].status = "none"
            BY <1>3, <2>1, OwnJob DEF Insert, Shape
        <3>2. QED
            BY <2>1, <3>1, DeskWrites DEF Insert, Answer, Become
    <2>2. CASE RejectWrite(r) \/ ApproveWrite(r)
        <3> DEFINE q == job[r].request
        <3>1. /\ q \in RequestIds /\ request[q].status # "none" /\ request[q] \in EditRequest
              /\ job[r].pc # "close"
            BY <2>2, OwnJob DEF RejectWrite, ApproveWrite, At, Shape, ReviewOps, IInv, TypeOK
        <3>2. PICK s \in {"approved", "rejected"} :
                  request' = [request EXCEPT ![q] = [request[q] EXCEPT !.status = s]]
            BY <2>2 DEF RejectWrite, ApproveWrite
        <3> DEFINE new == [request[q] EXCEPT !.status = s]
        <3>3. new.status = s /\ new.booking = request[q].booking /\ new.ask = request[q].ask
            BY <3>1 DEF EditRequest
        <3>4. /\ desk' = desk /\ faults' = faults /\ job' = [job EXCEPT ![r] = NoJob]
            BY <2>2 DEF RejectWrite, ApproveWrite, Answer, Become
        <3> HIDE DEF new, q
        <3>5. request' = [request EXCEPT ![q] = new]
            BY <3>2 DEF new
        <3>6. QED
            BY <3>1, <3>3, <3>4, <3>5, DeskWrites
    <2>3. CASE ActivateWrite(r)
        BY <2>3, DeskActivates
    <2>4. CASE CloseRequests(r)
        BY <2>4, DeskCloses
    <2>5. CASE UpgradeGuard(r) \/ CheckPending(r) \/ FindBooking(r) \/ ReviewGuard(r)
        BY <1>2, <2>5 DEF UpgradeGuard, CheckPending, FindBooking, ReviewGuard, At, Goto, Answer
    <2>6. CASE ReadBooking(r) \/ ReadPrice(r) \/ WriteFails(r)
        BY <1>2, <2>6 DEF ReadBooking, ReadPrice, WriteFails, Goto, Answer
    <2>7. QED
        BY <1>3, <2>1, <2>2, <2>3, <2>4, <2>5, <2>6 DEF Advance
<1>4. ASSUME NEW r \in Handlers, NEW j, Begin(r, j)
      PROVE  DeskInv'
    BY <1>2, <1>4 DEF Begin, Idle
<1>5. CASE Next
    BY <1>1, <1>3, <1>4, <1>5, DeskAborts
    DEF Next, Review, Activate, RequestUpgrade, Create, SetPrice, UpdateBooking
<1>6. QED
    BY <1>1, <1>5 DEF vars

\* vip.service activates a booking and closes its pending requests by two
\* statements: in between somebody still has them in hand, so no interleaving of
\* reviews, the desk and new requests forgets one, unless a handler is lost.
THEOREM DeskForgetsNone == Spec => []DeskClosesRequests
<1>1. Init => DeskInv
    BY DEF Init, DeskInv
<1>2. IInv /\ DeskInv /\ [Next]_vars => DeskInv'
    BY DeskNext
<1>3. IInv /\ DeskInv => DeskClosesRequests
    <2> SUFFICES ASSUME IInv, DeskInv, faults = 0, \A r \in Handlers : Idle(r),
                        NEW q \in desk, request[q].status = "pending"
                 PROVE  FALSE
        BY DEF DeskClosesRequests, ActivationIsComplete
    <2>1. PICK r \in Handlers : Closing(r, q)
        BY DEF DeskInv
    <2>2. QED
        BY <2>1 DEF Closing, Idle
<1>4. QED
    BY <1>1, <1>2, <1>3, Invariance, PTL DEF Spec
=============================================================================

--------------------------- MODULE PaymentsProofs ---------------------------
(***************************************************************************)
(* Proofs about Payments for every set of bookings, rows, events, handlers *)
(* and amounts.                                                            *)
(***************************************************************************)
EXTENDS Payments, FiniteSetTheorems, TLAPS

-----------------------------------------------------------------------------
(* The inductive invariant.                                                *)

CreateOps == LinkOps \cup {"cash"}

BeforeInsert == {"total", "get", "sum", "set", "deposit", "insert"}

\* A webhook that has stored its event and not yet written its row.
Applying == {"load", "write"}

\* What a handler has filled in at each point of each operation.
Shape(j) ==
    \/ j = NoJob
    \/ /\ j.op = "read" /\ j.pc \in {"get", "sum", "set"}
       /\ j.booking \in Bookings
    \/ /\ j.op \in LinkOps /\ j.pc \in BeforeInsert \cup {"stripe", "url"}
       /\ j.booking \in Bookings /\ j.row \in PaymentIds
    \/ /\ j.op = "cash" /\ j.pc \in BeforeInsert \cup {"del"}
       /\ j.booking \in Bookings /\ j.row \in PaymentIds
    \/ /\ j.op = "webhook" /\ j.pc \in {"find", "store"}
       /\ j.event \in Events /\ j.total = 0
    \/ /\ j.op = "webhook" /\ j.pc \in Applying \cup {"del"}
       /\ j.event \in Events /\ j.booking \in Bookings /\ j.row \in PaymentIds

\* A row does not exist before its handler inserts it, and is a sent link that
\* Stripe does not know while the handler asks Stripe for one.
HoldsRow(j) ==
    j.op \in CreateOps =>
        /\ j.pc \in BeforeInsert => payment[j.row].status = "none"
        /\ j.pc = "stripe" => payment[j.row].status = "sent" /\ j.row \notin links

\* A webhook applies a stored event that has not been applied.
HoldsEvent(j) ==
    /\ j.op = "webhook" => event[j.event] # NoEvent
    /\ j.pc \in Applying =>
          /\ j.event \in stored
          /\ applied[j.event] = 0
          /\ event[j.event].row = j.row
          /\ event[j.event].kind \in {"completed", "expired", "opened"}

HoldsTotal(j) == j.booking \in Bookings => j.total <= peak[j.booking]

Holds(j) == Shape(j) /\ HoldsRow(j) /\ HoldsEvent(j) /\ HoldsTotal(j)

\* Two handlers create different rows and apply different events.
Apart(j, k) ==
    /\ j.op \in CreateOps /\ k.op \in CreateOps => j.row # k.row
    /\ j.pc \in Applying /\ k.pc \in Applying => j.event # k.event

JobInv ==
    /\ \A r \in Requests : Holds(job[r])
    /\ \A r, s \in Requests : r # s => Apart(job[r], job[s])

RowInv ==
    /\ \A p \in PaymentIds :
          payment[p].status # "none" => payment[p].booking \in Bookings
    /\ \A p \in links : payment[p].status # "none"

EventInv ==
    /\ \A e \in Events :
          event[e] # NoEvent => event[e].row \in links /\ event[e].kind \in Kinds
    /\ \A e \in Events : e \notin stored => applied[e] = 0

PeakInv == \A b \in Bookings : total[b] <= peak[b]

Goals == AppliedAtMostOnce /\ StripePaidIsBacked /\ RowFitsPeakTotal

IInv == StateOK /\ JobInv /\ RowInv /\ EventInv /\ PeakInv /\ Goals

-----------------------------------------------------------------------------
(* Lemmas about the operators.                                             *)

\* A sum of rows is a natural number.
LEMMA SumIsNat ==
    ASSUME NEW S \in SUBSET PaymentIds
    PROVE  SumOf(S) \in Nat
<1>1. IsFiniteSet(S)
    BY FinitePayments, FS_Subset
<1>2. IsFiniteSet(1 .. MaxCents)
    BY MoneyAssumption, FS_Interval
<1>3. IsFiniteSet(S \X (1 .. MaxCents))
    BY <1>1, <1>2, FS_Product
<1>4. {c \in S \X (1 .. MaxCents) : c[2] <= payment[c[1]].amount}
          \in SUBSET (S \X (1 .. MaxCents))
    OBVIOUS
<1>5. IsFiniteSet({c \in S \X (1 .. MaxCents) : c[2] <= payment[c[1]].amount})
    BY <1>3, <1>4, FS_Subset
<1>6. QED
    BY <1>5, FS_CardinalityType DEF SumOf

LEMMA PaidSumIsNat ==
    ASSUME NEW b \in Bookings
    PROVE  PaidSum(b) \in Nat
BY SumIsNat DEF PaidSum, PaidRows

LEMMA TotalsAreCents ==
    ASSUME NEW t \in Totals \cup {0}
    PROVE  t \in Nat /\ t < MaxCents
<1>1. CASE t = 0
    BY <1>1, MoneyAssumption
<1>2. CASE t \in Totals
    <2>1. t \in 0 .. (MaxCents - 1)
        BY <1>2, MoneyAssumption
    <2>2. QED
        BY <2>1, MoneyAssumption
<1>3. QED
    BY <1>1, <1>2

\* What is due lies between nothing and the total.
LEMMA DueBounds ==
    ASSUME NEW j \in Job
    PROVE  /\ Due(j) \in Nat
           /\ Due(j) <= j.total
           /\ j.total \in Nat /\ j.total < MaxCents
<1>1. j.total \in Totals \cup {0} /\ j.paid \in Nat
    BY DEF Job
<1>2. j.total \in Nat /\ j.total < MaxCents
    BY <1>1, TotalsAreCents
<1>3. QED
    BY <1>1, <1>2 DEF Due, Larger

\* A charge that fits what is due exceeds it by a rounded cent at most.
LEMMA WantedFits ==
    ASSUME NEW j \in Job, Due(j) > 0, Fits(j)
    PROVE  /\ ToCents(Wanted(j)) \in Cents
           /\ ToCents(Wanted(j)) <= j.total + 1
<1>1. Due(j) \in Nat /\ Due(j) <= j.total /\ j.total \in Nat /\ j.total < MaxCents
    BY DueBounds
<1>2. j.ask \in Nat
    BY MoneyAssumption DEF Job, Mills
<1>3. Wanted(j) \in Nat /\ Wanted(j) <= 10 * Due(j) + 9
    BY <1>1, <1>2 DEF Fits, Wanted
<1>4. ToCents(Wanted(j)) \in Nat /\ ToCents(Wanted(j)) <= Due(j) + 1
    BY <1>1, <1>3 DEF ToCents
<1>5. QED
    BY <1>1, <1>4, MoneyAssumption DEF Cents

\* The deposit is an amount a row can hold.
LEMMA DepositIsMills ==
    ASSUME NEW j \in Job, NEW t \in Totals
    PROVE  10 * Deposit(Due(j), t) \in Mills
<1>1. Due(j) \in Nat /\ Due(j) <= MaxCents
    BY DueBounds, MoneyAssumption
<1>2. t \in Nat
    BY TotalsAreCents
<1>3. Larger(Unit, (3 * t + 5) \div 10) \in Nat
    BY <1>2, MoneyAssumption DEF Larger
<1>4. Deposit(Due(j), t) \in Nat /\ Deposit(Due(j), t) <= MaxCents
    BY <1>1, <1>3, MoneyAssumption DEF Deposit, Lesser
<1>5. QED
    BY <1>4, MoneyAssumption DEF Mills

-----------------------------------------------------------------------------
(* Steps that change nothing but the handler's own request.                 *)

LEMMA NoJobHolds == NoJob \in Job /\ Holds(NoJob)
<1>1. NoJob \in Job
  BY MoneyAssumption DEF NoJob, Job, Mills
<1>2. HoldsRow(NoJob) /\ HoldsEvent(NoJob)
  BY DEF NoJob, HoldsRow, HoldsEvent, CreateOps, LinkOps, Applying
<1>3. HoldsTotal(NoJob)
  BY SentinelAssumption DEF NoJob, HoldsTotal
<1>4. QED
  BY <1>1, <1>2, <1>3 DEF Holds, Shape

LEMMA NoJobApart == \A k : Apart(NoJob, k)
  BY DEF NoJob, Apart, CreateOps, LinkOps, Applying

LEMMA JobStep ==
    ASSUME IInv, NEW r \in Requests, NEW j \in Job,
           Holds(j), \A s \in Requests \ {r} : Apart(j, job[s]),
           Become(r, j),
           UNCHANGED <<total, peak, payment, links, event, stored, applied>>,
           cache' \in [Bookings -> Nat \cup {Miss}],
           acked' \subseteq Events, faults' \in 0 .. MaxFaults
    PROVE  IInv'
<1>1. job' \in [Requests -> Job] /\ job'[r] = j
      /\ \A s \in Requests \ {r} : job'[s] = job[s]
    BY DEF IInv, StateOK, Become
<1>2. StateOK'
    BY <1>1 DEF IInv, StateOK
<1>3. ASSUME NEW s \in Requests PROVE Holds(job[s])'
    BY <1>1 DEF IInv, JobInv, Holds, Shape, HoldsRow, HoldsEvent, HoldsTotal
<1>4. ASSUME NEW s \in Requests, NEW t \in Requests, s # t
      PROVE  Apart(job[s], job[t])'
    BY <1>1, <1>4 DEF IInv, JobInv, Apart
<1>5. RowInv' /\ EventInv' /\ PeakInv'
    BY DEF IInv, RowInv, EventInv, PeakInv
<1>6. Goals'
    BY DEF IInv, Goals, AppliedAtMostOnce, StripePaidIsBacked, RowFitsPeakTotal
<1>7. QED
    BY <1>2, <1>3, <1>4, <1>5, <1>6 DEF IInv, JobInv

\* What the invariant says of one handler and its neighbours.
LEMMA Own ==
    ASSUME IInv, NEW r \in Requests
    PROVE  /\ job[r] \in Job
           /\ Holds(job[r])
           /\ \A s \in Requests \ {r} : Apart(job[r], job[s])
BY DEF IInv, StateOK, JobInv

LEMMA StartStep ==
    ASSUME IInv, NEW r \in Requests, NEW op \in ApiOps \ {"read"},
           NEW b \in Bookings, NEW ask \in Asks \cup {0}, NEW p \in PaymentIds,
           Start(r, op, b, ask, p)
    PROVE  IInv'
<1> DEFINE j == [NoJob EXCEPT !.pc = "total", !.op = op, !.booking = b,
                              !.ask = ask, !.row = p]
<1>0. b # None /\ peak[b] \in Nat
    BY SentinelAssumption, TotalsAreCents DEF IInv, StateOK
<1>1. ask \in Mills
    BY MoneyAssumption DEF Mills
<1>2. /\ j \in Job /\ j.pc = "total" /\ j.op = op /\ j.booking = b /\ j.row = p
      /\ j.total = 0
    BY <1>1 DEF Job, NoJob
<1>3. op \in CreateOps /\ op # "webhook"
    BY DEF ApiOps, CreateOps, LinkOps
<1>4. Holds(j)
    BY <1>0, <1>2, <1>3 DEF Start, Unused, Holds, Shape, HoldsRow, HoldsEvent, HoldsTotal,
       BeforeInsert, Applying, CreateOps
<1>5. \A s \in Requests \ {r} : Apart(j, job[s])
    BY <1>2 DEF Start, Unused, Apart, Applying
<1>6. Become(r, j)
    BY DEF Start
<1>7. QED
    BY <1>2, <1>4, <1>5, <1>6, JobStep DEF Start, IInv, StateOK

LEMMA ReadJob ==
    ASSUME IInv, NEW b \in Bookings
    PROVE  LET j == [NoJob EXCEPT !.pc = "get", !.op = "read", !.booking = b]
           IN /\ j \in Job
              /\ Holds(j)
              /\ \A k : Apart(j, k)
<1> DEFINE j == [NoJob EXCEPT !.pc = "get", !.op = "read", !.booking = b]
<1>1. peak[b] \in Nat
    BY TotalsAreCents DEF IInv, StateOK
<1>2. /\ j \in Job /\ j.pc = "get" /\ j.op = "read" /\ j.booking = b
      /\ j.total = 0
    BY NoJobHolds DEF Job, NoJob, ApiOps
<1>3. Holds(j)
    BY <1>1, <1>2 DEF Holds, Shape, HoldsRow, HoldsEvent, HoldsTotal, Applying,
       CreateOps, LinkOps
<1>4. \A k : Apart(j, k)
    BY <1>2 DEF Apart, CreateOps, LinkOps, Applying
<1>5. QED
    BY <1>2, <1>3, <1>4

LEMMA StartReadStep ==
    ASSUME IInv, NEW r \in Requests, NEW b \in Bookings, StartRead(r, b)
    PROVE  IInv'
BY ReadJob, JobStep DEF StartRead, IInv, StateOK

LEMMA DeliverStep ==
    ASSUME IInv, NEW r \in Requests, NEW e \in Events, Deliver(r, e)
    PROVE  IInv'
<1> DEFINE j == [NoJob EXCEPT !.pc = "find", !.op = "webhook", !.event = e]
<1>1. /\ j \in Job /\ j.pc = "find" /\ j.op = "webhook" /\ j.event = e
      /\ j.booking = None /\ j.total = 0
    BY NoJobHolds DEF Job, NoJob
<1>2. Holds(j)
    BY <1>1, SentinelAssumption DEF Deliver, Holds, Shape, HoldsRow, HoldsEvent,
       HoldsTotal, Applying, CreateOps, LinkOps
<1>3. \A k : Apart(j, k)
    BY <1>1 DEF Apart, CreateOps, LinkOps, Applying
<1>4. QED
    BY <1>1, <1>2, <1>3, JobStep DEF Deliver, IInv, StateOK

\* A handler that moves on within its operation without a write.
LEMMA MoveStep ==
    ASSUME IInv, NEW r \in Requests, NEW j \in Job, Become(r, j),
           j.op = job[r].op, j.row = job[r].row, j.event = job[r].event,
           j.booking = job[r].booking, Shape(j), HoldsTotal(j),
           j.pc \in BeforeInsert => job[r].pc \in BeforeInsert,
           j.pc # "stripe",
           j.pc \in Applying => job[r].pc \in Applying,
           UNCHANGED <<total, peak, payment, links, event, stored, applied>>,
           cache' \in [Bookings -> Nat \cup {Miss}],
           acked' \subseteq Events, faults' \in 0 .. MaxFaults
    PROVE  IInv'
<1>1. Holds(j)
    BY Own DEF Holds, HoldsRow, HoldsEvent
<1>2. \A s \in Requests \ {r} : Apart(j, job[s])
    BY Own DEF Apart
<1>3. QED
    BY <1>1, <1>2, JobStep

LEMMA ReadTotalStep ==
    ASSUME IInv, NEW r \in Requests, ReadTotal(r)
    PROVE  IInv'
<1> DEFINE b == job[r].booking
           j == [job[r] EXCEPT !.pc = "get", !.total = total[b]]
<1>1. /\ job[r] \in Job /\ job[r].pc = "total" /\ job[r].op \in CreateOps
      /\ b \in Bookings /\ job[r].row \in PaymentIds
    BY Own DEF ReadTotal, At, Holds, Shape, NoJob, Applying, BeforeInsert,
       CreateOps
<1>2. total[b] \in Totals /\ total[b] <= peak[b]
    BY <1>1 DEF IInv, StateOK, PeakInv
<1>3. /\ j \in Job /\ j.pc = "get" /\ j.op = job[r].op /\ j.row = job[r].row
      /\ j.event = job[r].event /\ j.booking = b /\ j.total = total[b]
    BY <1>1, <1>2 DEF Job
<1>4. Shape(j) /\ HoldsTotal(j)
    BY <1>1, <1>2, <1>3 DEF Shape, HoldsTotal, CreateOps, BeforeInsert
<1>5. QED
    BY <1>1, <1>3, <1>4, MoveStep DEF ReadTotal, IInv, StateOK, BeforeInsert, Applying

\* The request goes on with the paid sum in hand.
LEMMA AfterPaidStep ==
    ASSUME IInv, NEW r \in Requests, NEW paid \in Nat,
           job[r].pc \in {"get", "set"}, Become(r, AfterPaid(job[r], paid)),
           UNCHANGED <<total, peak, payment, links, event, stored, acked,
                       applied, faults>>,
           cache' \in [Bookings -> Nat \cup {Miss}]
    PROVE  IInv'
<1> DEFINE j == AfterPaid(job[r], paid)
<1>1. job[r] \in Job /\ job[r].op \in CreateOps \cup {"read"} /\ Holds(job[r])
    BY Own DEF Holds, Shape, NoJob, Applying, CreateOps
<1>2. acked' \subseteq Events /\ faults' \in 0 .. MaxFaults
    BY DEF IInv, StateOK
<1>3. CASE job[r].op = "read"
    <2>1. j = NoJob
        BY <1>3 DEF AfterPaid
    <2>2. QED
        BY <1>2, <2>1, NoJobHolds, NoJobApart, JobStep
<1>4. CASE job[r].op # "read"
    <2>1. /\ j \in Job /\ j.pc \in {"deposit", "insert"} /\ j.op = job[r].op
          /\ j.row = job[r].row /\ j.event = job[r].event
          /\ j.booking = job[r].booking /\ j.total = job[r].total
        BY <1>1, <1>4 DEF AfterPaid, Job
    <2>2. Shape(j) /\ HoldsTotal(j)
        BY <1>1, <1>4, <2>1 DEF Holds, Shape, HoldsTotal, CreateOps, LinkOps,
           BeforeInsert, NoJob
    <2>3. QED
        BY <1>2, <2>1, <2>2, MoveStep DEF BeforeInsert, Applying
<1>5. QED
    BY <1>3, <1>4

LEMMA GotoSumStep ==
    ASSUME IInv, NEW r \in Requests, NEW label \in {"sum", "set"},
           NEW paid \in Nat, job[r].pc \in {"get", "sum"},
           Become(r, [job[r] EXCEPT !.pc = label, !.paid = paid]),
           UNCHANGED <<total, peak, payment, cache, links, event, stored, acked,
                       applied, faults>>
    PROVE  IInv'
<1> DEFINE j == [job[r] EXCEPT !.pc = label, !.paid = paid]
<1>1. job[r] \in Job /\ job[r].op \in CreateOps \cup {"read"} /\ Holds(job[r])
    BY Own DEF Holds, Shape, NoJob, Applying, CreateOps
<1>2. /\ j \in Job /\ j.pc = label /\ j.op = job[r].op
      /\ j.row = job[r].row /\ j.event = job[r].event
      /\ j.booking = job[r].booking /\ j.total = job[r].total
    BY <1>1 DEF Job
<1>3. Shape(j) /\ HoldsTotal(j)
    BY <1>1, <1>2 DEF Holds, Shape, HoldsTotal, CreateOps, LinkOps,
       BeforeInsert, NoJob
<1>4. QED
    BY <1>2, <1>3, MoveStep DEF BeforeInsert, Applying, IInv, StateOK

LEMMA RedisGetStep ==
    ASSUME IInv, NEW r \in Requests, RedisGet(r)
    PROVE  IInv'
<1> DEFINE hit == cache[job[r].booking]
<1>1. /\ job[r] \in Job /\ job[r].pc = "get" /\ job[r].booking \in Bookings
    BY Own DEF RedisGet, At, Holds, Shape, NoJob, Applying, BeforeInsert
<1>2. hit \in Nat \cup {Miss} /\ cache' \in [Bookings -> Nat \cup {Miss}]
    BY <1>1 DEF RedisGet, IInv, StateOK
<1>3. CASE hit = Miss
    <2>1. [job[r] EXCEPT !.pc = "sum"] =
              [job[r] EXCEPT !.pc = "sum", !.paid = job[r].paid]
          /\ job[r].paid \in Nat
        BY <1>1 DEF Job
    <2>2. QED
        BY <1>1, <1>3, <2>1, GotoSumStep DEF RedisGet, Goto
<1>4. CASE hit # Miss
    BY <1>1, <1>2, <1>4, AfterPaidStep DEF RedisGet
<1>5. QED
    BY <1>3, <1>4

LEMMA AggregateStep ==
    ASSUME IInv, NEW r \in Requests, Aggregate(r)
    PROVE  IInv'
<1>1. /\ job[r].pc = "sum" /\ job[r].booking \in Bookings
    BY Own DEF Aggregate, At, Holds, Shape, NoJob, Applying, BeforeInsert
<1>2. PaidSum(job[r].booking) \in Nat
    BY <1>1, PaidSumIsNat
<1>3. QED
    BY <1>1, <1>2, GotoSumStep DEF Aggregate

LEMMA RedisSetStep ==
    ASSUME IInv, NEW r \in Requests, RedisSet(r)
    PROVE  IInv'
<1>1. job[r].paid \in Nat
    BY Own DEF Job
<1>2. cache' \in [Bookings -> Nat \cup {Miss}]
    BY <1>1 DEF RedisSet, IInv, StateOK
<1>3. QED
    BY <1>1, <1>2, AfterPaidStep DEF RedisSet, At

\* A handler that answers its request, or loses it, leaves the data as it is.
LEMMA AnswerStep ==
    ASSUME IInv, NEW r \in Requests, Answer(r),
           UNCHANGED <<total, peak, payment, links, event, stored, applied>>,
           cache' \in [Bookings -> Nat \cup {Miss}],
           acked' \subseteq Events, faults' \in 0 .. MaxFaults
    PROVE  IInv'
BY NoJobHolds, NoJobApart, JobStep DEF Answer

LEMMA RefuseStep ==
    ASSUME IInv, NEW r \in Requests, Refuse(r)
    PROVE  IInv'
BY AnswerStep DEF Refuse, IInv, StateOK

LEMMA AbortStep ==
    ASSUME IInv, NEW r \in Requests, Abort(r)
    PROVE  IInv'
<1>1. faults' \in 0 .. MaxFaults
    BY MoneyAssumption DEF Abort, IInv, StateOK
<1>2. QED
    BY <1>1, AnswerStep DEF Abort, IInv, StateOK

LEMMA StoreConflictStep ==
    ASSUME IInv, NEW r \in Requests, StoreConflict(r)
    PROVE  IInv'
BY AnswerStep DEF StoreConflict, IInv, StateOK

LEMMA ReadDepositStep ==
    ASSUME IInv, NEW r \in Requests, ReadDeposit(r)
    PROVE  IInv'
<1> DEFINE ask == 10 * Deposit(Due(job[r]), total[job[r].booking])
           j == [job[r] EXCEPT !.pc = "insert", !.ask = ask]
<1>1. /\ job[r] \in Job /\ job[r].pc = "deposit" /\ job[r].op \in CreateOps
      /\ job[r].booking \in Bookings /\ job[r].row \in PaymentIds /\ Holds(job[r])
    BY Own DEF ReadDeposit, At, Holds, Shape, NoJob, Applying, BeforeInsert,
       CreateOps
<1>2. ask \in Mills
    BY <1>1, DepositIsMills DEF IInv, StateOK
<1>3. /\ j \in Job /\ j.pc = "insert" /\ j.op = job[r].op
      /\ j.row = job[r].row /\ j.event = job[r].event
      /\ j.booking = job[r].booking /\ j.total = job[r].total
    BY <1>1, <1>2 DEF Job
<1>4. Shape(j) /\ HoldsTotal(j)
    BY <1>1, <1>3 DEF Holds, Shape, HoldsTotal, CreateOps, BeforeInsert
<1>5. QED
    BY <1>1, <1>3, <1>4, MoveStep DEF ReadDeposit, IInv, StateOK, BeforeInsert,
       Applying

LEMMA FindEventStep ==
    ASSUME IInv, NEW r \in Requests, FindEvent(r)
    PROVE  IInv'
<1> DEFINE j == [job[r] EXCEPT !.pc = "store"]
<1>1. /\ job[r] \in Job /\ job[r].pc = "find" /\ job[r].op = "webhook"
      /\ job[r].event \in Events /\ job[r].total = 0 /\ Holds(job[r])
    BY Own DEF FindEvent, At, Holds, Shape, NoJob, Applying, BeforeInsert
<1>2. CASE job[r].event \in stored
    BY <1>1, <1>2, AnswerStep DEF FindEvent, Ack, IInv, StateOK
<1>3. CASE job[r].event \notin stored
    <2>1. /\ j \in Job /\ j.pc = "store" /\ j.op = job[r].op
          /\ j.row = job[r].row /\ j.event = job[r].event
          /\ j.booking = job[r].booking /\ j.total = job[r].total
        BY <1>1 DEF Job
    <2>2. Shape(j) /\ HoldsTotal(j)
        BY <1>1, <2>1 DEF Holds, Shape, HoldsTotal
    <2>3. QED
        BY <1>1, <1>3, <2>1, <2>2, MoveStep DEF FindEvent, Goto, IInv, StateOK,
           BeforeInsert, Applying
<1>4. QED
    BY <1>2, <1>3

LEMMA LoadRowStep ==
    ASSUME IInv, NEW r \in Requests, LoadRow(r)
    PROVE  IInv'
<1> DEFINE j == [job[r] EXCEPT !.pc = "write"]
           late == Ignores(payment[job[r].row].status,
                           Target(event[job[r].event].kind))
<1>1. /\ job[r] \in Job /\ job[r].pc = "load" /\ job[r].op = "webhook"
      /\ job[r].event \in Events /\ job[r].row \in PaymentIds
      /\ job[r].booking \in Bookings /\ Holds(job[r])
    BY Own DEF LoadRow, At, Holds, Shape, NoJob, Applying, BeforeInsert, LinkOps
<1>2. CASE late
    BY <1>1, <1>2, AnswerStep DEF LoadRow, Ack, IInv, StateOK
<1>3. CASE ~late
    <2>1. /\ j \in Job /\ j.pc = "write" /\ j.op = job[r].op
          /\ j.row = job[r].row /\ j.event = job[r].event
          /\ j.booking = job[r].booking /\ j.total = job[r].total
        BY <1>1 DEF Job
    <2>2. Shape(j) /\ HoldsTotal(j)
        BY <1>1, <2>1 DEF Holds, Shape, HoldsTotal, Applying
    <2>3. QED
        BY <1>1, <1>3, <2>1, <2>2, MoveStep DEF LoadRow, Goto, IInv, StateOK,
           BeforeInsert, Applying
<1>4. QED
    BY <1>2, <1>3

LEMMA InvalidateStep ==
    ASSUME IInv, NEW r \in Requests, Invalidate(r)
    PROVE  IInv'
<1>1. cache' \in [Bookings -> Nat \cup {Miss}]
    BY DEF Invalidate, IInv, StateOK
<1>2. acked' \subseteq Events
    BY Own DEF Invalidate, At, Ack, IInv, StateOK, Holds, Shape, NoJob, LinkOps
<1>3. QED
    BY <1>1, <1>2, AnswerStep DEF Invalidate, IInv, StateOK

-----------------------------------------------------------------------------
(* Steps that write.                                                       *)

LEMMA CacheExpireStep ==
    ASSUME IInv, NEW b \in Bookings, CacheExpire(b)
    PROVE  IInv'
<1>1. cache' \in [Bookings -> Nat \cup {Miss}]
    BY DEF CacheExpire, IInv, StateOK
<1>2. StateOK'
    BY <1>1 DEF CacheExpire, IInv, StateOK
<1>3. JobInv'
    BY DEF CacheExpire, IInv, JobInv, Holds, Shape, HoldsRow, HoldsEvent,
       HoldsTotal, Apart
<1>4. RowInv' /\ EventInv' /\ PeakInv' /\ Goals'
    BY DEF CacheExpire, IInv, RowInv, EventInv, PeakInv, Goals,
       AppliedAtMostOnce, StripePaidIsBacked, RowFitsPeakTotal
<1>5. QED
    BY <1>2, <1>3, <1>4 DEF IInv

LEMMA EmitStep ==
    ASSUME IInv, NEW e \in Events, NEW kind \in Kinds, NEW p \in PaymentIds,
           Emit(e, kind, p)
    PROVE  IInv'
<1> DEFINE ev == [kind |-> kind, row |-> p]
<1>1. ev \in Event /\ ev # NoEvent
    BY DEF Event, NoEvent, Kinds
<1>2. event' \in [Events -> Event] /\ event'[e] = ev /\ event[e] = NoEvent
      /\ \A f \in Events \ {e} : event'[f] = event[f]
    BY <1>1 DEF Emit, IInv, StateOK
<1>3. StateOK'
    BY <1>2 DEF Emit, IInv, StateOK
<1>4. ASSUME NEW s \in Requests PROVE Holds(job[s])'
    <2>1. job'[s] = job[s] /\ Shape(job[s]) /\ HoldsRow(job[s])
          /\ HoldsTotal(job[s])
        BY Own DEF Emit, Holds
    <2>2. Shape(job[s])' /\ HoldsRow(job[s])' /\ HoldsTotal(job[s])'
        BY <2>1 DEF Emit, Shape, HoldsRow, HoldsTotal
    <2>3. HoldsEvent(job[s])
        BY Own DEF Holds
    <2>4. job[s].op = "webhook" => job[s].event \in Events \ {e}
        BY <1>2, <2>1, <2>3 DEF HoldsEvent, Shape, NoJob, LinkOps
    <2>5. job[s].pc \in Applying => job[s].op = "webhook"
        BY <2>1 DEF Shape, NoJob, Applying, BeforeInsert
    <2>6. HoldsEvent(job[s])'
        BY <1>2, <2>1, <2>3, <2>4, <2>5 DEF Emit, HoldsEvent
    <2>7. QED
        BY <2>2, <2>6 DEF Holds
<1>5. JobInv'
    BY <1>4 DEF Emit, IInv, JobInv, Apart
<1>6. RowInv' /\ PeakInv'
    BY DEF Emit, IInv, RowInv, PeakInv
<1>7. EventInv'
    BY <1>2 DEF Emit, IInv, EventInv
<1>8. AppliedAtMostOnce' /\ RowFitsPeakTotal'
    BY DEF Emit, IInv, Goals, AppliedAtMostOnce, RowFitsPeakTotal
<1>9. StripePaidIsBacked'
    <2>1. \A f \in Events, q \in PaymentIds :
              event[f] = [kind |-> "completed", row |-> q] => event'[f] = event[f]
        BY <1>2 DEF NoEvent
    <2>2. stored \subseteq Events
        BY DEF IInv, StateOK
    <2>3. QED
        BY <2>1, <2>2 DEF Emit, IInv, Goals, StripePaidIsBacked
<1>10. QED
    BY <1>3, <1>5, <1>6, <1>7, <1>8, <1>9 DEF IInv, Goals

LEMMA UpdateBookingStep ==
    ASSUME IInv, NEW r \in Requests, NEW b \in Bookings, NEW t \in Totals,
           UpdateBooking(r, b, t)
    PROVE  IInv'
<1> DEFINE j == [NoJob EXCEPT !.pc = "get", !.op = "read", !.booking = b]
<1>1. /\ j \in Job /\ Holds(j) /\ \A k : Apart(j, k)
    BY ReadJob
<1>2. job' \in [Requests -> Job] /\ job'[r] = j
      /\ \A s \in Requests \ {r} : job'[s] = job[s]
    BY <1>1 DEF UpdateBooking, Become, IInv, StateOK
<1>3. \A c \in Bookings : peak[c] \in Totals /\ peak[c] \in Nat
                          /\ total[c] \in Totals /\ total[c] \in Nat
    BY TotalsAreCents DEF IInv, StateOK
<1>4. t \in Nat
    BY TotalsAreCents
<1>5. /\ peak' \in [Bookings -> Totals] /\ total' \in [Bookings -> Totals]
      /\ \A c \in Bookings : peak[c] <= peak'[c] /\ peak'[c] \in Nat
    BY <1>3, <1>4 DEF UpdateBooking, IInv, StateOK, Larger
<1>6. StateOK'
    BY <1>2, <1>5 DEF UpdateBooking, IInv, StateOK
<1>7. ASSUME NEW s \in Requests PROVE Holds(job[s])'
    <2> DEFINE k == job'[s]
    <2>1. k \in Job /\ Holds(k)
        BY <1>1, <1>2, Own
    <2>2. Shape(job[s])' /\ HoldsRow(job[s])' /\ HoldsEvent(job[s])'
        BY <2>1 DEF UpdateBooking, Holds, Shape, HoldsRow, HoldsEvent
    <2>3. k.total \in Nat /\ HoldsTotal(k)
        BY <2>1, TotalsAreCents DEF Job, Holds
    <2>4. HoldsTotal(job[s])'
        BY <1>3, <1>5, <2>3 DEF HoldsTotal
    <2>5. QED
        BY <2>2, <2>4 DEF Holds
<1>8. JobInv'
    <2>1. \A s \in Requests : Holds(job[s])'
        BY <1>7
    <2>2. \A s, q \in Requests : s # q => Apart(job[s], job[q])'
        BY <1>1, <1>2, Own DEF Apart
    <2>3. QED
        BY <2>1, <2>2 DEF JobInv
<1>9. RowInv' /\ EventInv'
    BY DEF UpdateBooking, IInv, RowInv, EventInv
<1>10. PeakInv'
    BY <1>3, <1>4 DEF UpdateBooking, IInv, StateOK, PeakInv, Larger
<1>11. AppliedAtMostOnce' /\ StripePaidIsBacked'
    BY DEF UpdateBooking, IInv, Goals, AppliedAtMostOnce, StripePaidIsBacked
<1>12. RowFitsPeakTotal'
    <2> SUFFICES ASSUME NEW p \in PaymentIds, payment[p].status # "none"
                 PROVE  payment[p].amount <= peak'[payment[p].booking] + 1
        BY DEF UpdateBooking, RowFitsPeakTotal
    <2>1. /\ payment[p].amount \in Nat /\ payment[p].booking \in Bookings
          /\ payment[p].amount <= peak[payment[p].booking] + 1
        BY MoneyAssumption DEF IInv, StateOK, Payment, Cents, RowInv, Goals,
           RowFitsPeakTotal
    <2>2. QED
        BY <1>3, <1>5, <2>1
<1>13. QED
    BY <1>6, <1>8, <1>9, <1>10, <1>11, <1>12 DEF IInv, Goals

\* Handlers stay apart when one of them moves on with the row and the event it
\* has.
LEMMA StillApart ==
    ASSUME IInv, NEW r \in Requests, NEW j,
           j.op = job[r].op, j.row = job[r].row, j.event = job[r].event,
           j.pc \in Applying => job[r].pc \in Applying,
           job'[r] = j, \A s \in Requests \ {r} : job'[s] = job[s]
    PROVE  \A s, q \in Requests : s # q => Apart(job[s], job[q])'
<1> SUFFICES ASSUME NEW s \in Requests, NEW q \in Requests, s # q
             PROVE  Apart(job'[s], job'[q])
    BY DEF Apart
<1>1. \A k : Apart(job[r], k) => Apart(j, k)
    BY DEF Apart
<1>2. \A k : Apart(k, job[r]) => Apart(k, j)
    BY DEF Apart
<1>3. Apart(job[s], job[q])
    BY DEF IInv, JobInv
<1>4. CASE s = r
    BY <1>1, <1>3, <1>4
<1>5. CASE q = r
    BY <1>2, <1>3, <1>5
<1>6. CASE s # r /\ q # r
    BY <1>3, <1>6
<1>7. QED
    BY <1>4, <1>5, <1>6

LEMMA InsertRowStep ==
    ASSUME IInv, NEW r \in Requests, InsertRow(r)
    PROVE  IInv'
<1> DEFINE b == job[r].booking
           p == job[r].row
           cash == job[r].op = "cash"
           j == [job[r] EXCEPT !.pc = IF cash THEN "del" ELSE "stripe"]
           new == NewRow(job[r], IF cash THEN "paid" ELSE "sent")
<1>1. /\ job[r] \in Job /\ job[r].pc = "insert" /\ job[r].op \in CreateOps
      /\ b \in Bookings /\ p \in PaymentIds /\ Holds(job[r])
    BY Own DEF InsertRow, At, Holds, Shape, NoJob, Applying, BeforeInsert,
       CreateOps
<1>2. payment[p].status = "none"
    BY <1>1 DEF Holds, HoldsRow, BeforeInsert
<1>3. p \notin links
    BY <1>2 DEF IInv, RowInv
<1>4. ToCents(Wanted(job[r])) \in Cents
      /\ ToCents(Wanted(job[r])) <= job[r].total + 1
    BY <1>1, WantedFits DEF InsertRow
<1>5. /\ new \in Payment /\ new.booking = b /\ new.amount \in Nat
      /\ new.amount <= job[r].total + 1
      /\ new.status = IF cash THEN "paid" ELSE "sent"
    BY <1>1, <1>4, MoneyAssumption DEF NewRow, Payment, Statuses, Cents
<1>6. /\ payment' \in [PaymentIds -> Payment] /\ payment'[p] = new
      /\ \A q \in PaymentIds \ {p} : payment'[q] = payment[q]
    BY <1>1, <1>5 DEF InsertRow, IInv, StateOK
<1>7. /\ j \in Job /\ j.pc = IF cash THEN "del" ELSE "stripe"
      /\ j.op = job[r].op /\ j.row = p /\ j.event = job[r].event
      /\ j.booking = b /\ j.total = job[r].total
    BY <1>1 DEF Job
<1>8. job' \in [Requests -> Job] /\ job'[r] = j
      /\ \A s \in Requests \ {r} : job'[s] = job[s]
    BY <1>7 DEF InsertRow, Goto, Become, IInv, StateOK
<1>9. StateOK'
    BY <1>6, <1>8 DEF InsertRow, IInv, StateOK
<1>10. Holds(job[r])'
    <2>1. Shape(j) /\ HoldsTotal(j)
        BY <1>1, <1>7 DEF Holds, Shape, HoldsTotal, CreateOps, LinkOps
    <2>2. HoldsRow(job[r])'
        BY <1>3, <1>5, <1>6, <1>7, <1>8 DEF InsertRow, HoldsRow, BeforeInsert
    <2>3. HoldsEvent(job[r])'
        BY <1>1, <1>7, <1>8 DEF HoldsEvent, Applying, CreateOps, LinkOps
    <2>4. QED
        BY <1>8, <2>1, <2>2, <2>3 DEF InsertRow, Holds, Shape, HoldsTotal
<1>11. ASSUME NEW s \in Requests \ {r} PROVE Holds(job[s])'
    <2>1. job'[s] = job[s] /\ job[s] \in Job /\ Holds(job[s])
          /\ Apart(job[r], job[s])
        BY <1>8, Own
    <2>2. job[s].op \in CreateOps => job[s].row # p
        BY <1>1, <2>1 DEF Apart
    <2>3. job[s].op \in CreateOps => job[s].row \in PaymentIds \/ job[s] = NoJob
        BY <2>1 DEF Holds, Shape, CreateOps, LinkOps
    <2>4. HoldsRow(job[s])'
        BY <1>6, <2>1, <2>2, <2>3 DEF InsertRow, Holds, HoldsRow, NoJob,
           CreateOps, LinkOps
    <2>5. Shape(job[s])' /\ HoldsEvent(job[s])' /\ HoldsTotal(job[s])'
        BY <2>1 DEF InsertRow, Holds, Shape, HoldsEvent, HoldsTotal
    <2>6. QED
        BY <2>4, <2>5 DEF Holds
<1>12. \A s, q \in Requests : s # q => Apart(job[s], job[q])'
    <2>1. j.pc \notin Applying
        BY <1>7 DEF Applying
    <2> HIDE DEF j
    <2>2. QED
        BY <1>7, <1>8, <2>1, StillApart
<1>13. RowInv'
    BY <1>1, <1>3, <1>5, <1>6 DEF InsertRow, IInv, StateOK, RowInv
<1>14. EventInv' /\ PeakInv' /\ AppliedAtMostOnce'
    BY DEF InsertRow, IInv, EventInv, PeakInv, Goals, AppliedAtMostOnce
<1>15. StripePaidIsBacked'
    BY <1>3, <1>6 DEF InsertRow, IInv, Goals, StripePaidIsBacked
<1>16. RowFitsPeakTotal'
    <2>1. job[r].total \in Nat /\ job[r].total <= peak[b] /\ peak[b] \in Nat
        BY <1>1, TotalsAreCents DEF Holds, HoldsTotal, Job, IInv, StateOK
    <2>2. new.amount <= peak[b] + 1
        BY <1>5, <2>1
    <2>3. QED
        BY <1>5, <1>6, <2>2 DEF InsertRow, IInv, Goals, RowFitsPeakTotal
<1>17. QED
    BY <1>9, <1>10, <1>11, <1>12, <1>13, <1>14, <1>15, <1>16 DEF IInv, JobInv,
       Goals

LEMMA CreateLinkStep ==
    ASSUME IInv, NEW r \in Requests, CreateLink(r)
    PROVE  IInv'
<1> DEFINE p == job[r].row
           j == [job[r] EXCEPT !.pc = "url"]
<1>1. /\ job[r] \in Job /\ job[r].pc = "stripe" /\ job[r].op \in LinkOps
      /\ job[r].booking \in Bookings /\ p \in PaymentIds /\ Holds(job[r])
    BY Own DEF CreateLink, At, Holds, Shape, NoJob, Applying, BeforeInsert
<1>2. payment[p].status = "sent"
    BY <1>1 DEF Holds, HoldsRow, CreateOps
<1>3. /\ j \in Job /\ j.pc = "url" /\ j.op = job[r].op /\ j.row = p
      /\ j.booking = job[r].booking /\ j.event = job[r].event
      /\ j.total = job[r].total
    BY <1>1 DEF Job
<1>4. job' \in [Requests -> Job] /\ job'[r] = j
      /\ \A s \in Requests \ {r} : job'[s] = job[s]
    BY <1>3 DEF CreateLink, Goto, Become, IInv, StateOK
<1>5. StateOK'
    BY <1>1, <1>4 DEF CreateLink, IInv, StateOK
<1>6. Holds(job[r])'
    <2>1. Shape(j) /\ HoldsRow(j) /\ HoldsEvent(j) /\ HoldsTotal(j)
        BY <1>1, <1>3 DEF Holds, Shape, HoldsRow, HoldsEvent, HoldsTotal, LinkOps,
           BeforeInsert, Applying
    <2>2. QED
        BY <1>1, <1>3, <1>4, <2>1 DEF CreateLink, Holds, Shape, HoldsRow, HoldsEvent,
           HoldsTotal, BeforeInsert
<1>7. ASSUME NEW s \in Requests \ {r} PROVE Holds(job[s])'
    <2>1. job'[s] = job[s] /\ job[s] \in Job /\ Holds(job[s])
          /\ Apart(job[r], job[s])
        BY <1>4, Own
    <2>2. job[s].op \in CreateOps => job[s].row # p
        BY <1>1, <2>1 DEF Apart, CreateOps
    <2>3. HoldsRow(job[s])'
        BY <2>1, <2>2 DEF CreateLink, Holds, HoldsRow
    <2>4. Shape(job[s])' /\ HoldsEvent(job[s])' /\ HoldsTotal(job[s])'
        BY <2>1 DEF CreateLink, Holds, Shape, HoldsEvent, HoldsTotal
    <2>5. QED
        BY <2>3, <2>4 DEF Holds
<1>8. \A s, q \in Requests : s # q => Apart(job[s], job[q])'
    BY <1>3, <1>4, StillApart DEF Applying
<1>9. RowInv' /\ EventInv' /\ PeakInv'
    BY <1>1, <1>2 DEF CreateLink, IInv, RowInv, EventInv, PeakInv
<1>10. Goals'
    BY <1>1, <1>2 DEF CreateLink, IInv, Goals, AppliedAtMostOnce, StripePaidIsBacked,
       RowFitsPeakTotal
<1>11. QED
    BY <1>5, <1>6, <1>7, <1>8, <1>9, <1>10 DEF IInv, JobInv

LEMMA SaveUrlStep ==
    ASSUME IInv, NEW r \in Requests, SaveUrl(r)
    PROVE  IInv'
<1>1. /\ payment' \in [PaymentIds -> Payment]
      /\ \A p \in PaymentIds : /\ payment'[p].status = payment[p].status
                               /\ payment'[p].booking = payment[p].booking
                               /\ payment'[p].amount = payment[p].amount
    BY DEF SaveUrl, IInv, StateOK, Payment
<1>2. job' \in [Requests -> Job] /\ job'[r] = NoJob
      /\ \A s \in Requests \ {r} : job'[s] = job[s]
    BY NoJobHolds DEF SaveUrl, Answer, Become, IInv, StateOK
<1>3. StateOK'
    BY <1>1, <1>2 DEF SaveUrl, IInv, StateOK
<1>4. ASSUME NEW s \in Requests PROVE Holds(job[s])'
    <2> DEFINE k == job'[s]
    <2>1. Holds(k)
        BY <1>2, NoJobHolds, Own
    <2>2. k.op \in CreateOps => k.row \in PaymentIds
        BY <2>1 DEF Holds, Shape, NoJob, CreateOps, LinkOps
    <2>3. HoldsRow(job[s])'
        BY <1>1, <2>1, <2>2 DEF SaveUrl, Holds, HoldsRow
    <2>4. Shape(job[s])' /\ HoldsEvent(job[s])' /\ HoldsTotal(job[s])'
        BY <2>1 DEF SaveUrl, Holds, Shape, HoldsEvent, HoldsTotal
    <2>5. QED
        BY <2>3, <2>4 DEF Holds
<1>5. ASSUME NEW s \in Requests, NEW q \in Requests, s # q
      PROVE  Apart(job[s], job[q])'
    BY <1>2, <1>5, Own, NoJobApart DEF Apart, NoJob, CreateOps, LinkOps, Applying
<1>6. links \subseteq PaymentIds
    BY DEF IInv, StateOK
<1>7. RowInv' /\ EventInv' /\ PeakInv'
    BY <1>1, <1>6 DEF SaveUrl, IInv, RowInv, EventInv, PeakInv
<1>8. Goals'
    BY <1>1 DEF SaveUrl, IInv, Goals, AppliedAtMostOnce, StripePaidIsBacked,
       RowFitsPeakTotal
<1>9. QED
    BY <1>3, <1>4, <1>5, <1>7, <1>8 DEF IInv, JobInv

LEMMA NoJobHoldsNext ==
    ASSUME NEW r \in Requests, job'[r] = NoJob
    PROVE  Holds(job[r])'
<1>1. /\ job'[r].op = "none" /\ job'[r].pc = "idle"
      /\ job'[r].booking \notin Bookings
    BY SentinelAssumption DEF NoJob
<1>2. Shape(job[r])'
    BY DEF Shape
<1>3. HoldsRow(job[r])' /\ HoldsEvent(job[r])' /\ HoldsTotal(job[r])'
    BY <1>1 DEF HoldsRow, HoldsEvent, HoldsTotal, CreateOps, LinkOps, Applying
<1>4. QED
    BY <1>2, <1>3 DEF Holds

LEMMA StoreEventStep ==
    ASSUME IInv, NEW r \in Requests, StoreEvent(r)
    PROVE  IInv'
<1> DEFINE e == job[r].event
           p == event[e].row
           j == [job[r] EXCEPT !.pc = "load", !.row = p,
                               !.booking = payment[p].booking]
           other == event[e].kind = "other"
<1>1. /\ job[r] \in Job /\ job[r].pc = "store" /\ job[r].op = "webhook"
      /\ e \in Events /\ job[r].total = 0 /\ Holds(job[r])
    BY Own DEF StoreEvent, At, Holds, Shape, NoJob, Applying, BeforeInsert
<1>2. event[e] # NoEvent /\ e \notin stored /\ applied[e] = 0
    BY <1>1 DEF StoreEvent, Holds, HoldsEvent, IInv, EventInv
<1>3. p \in PaymentIds /\ payment[p].booking \in Bookings
      /\ event[e].kind \in Kinds
    BY <1>1, <1>2 DEF IInv, EventInv, RowInv, StateOK
<1>4. /\ j \in Job /\ j.pc = "load" /\ j.op = "webhook" /\ j.row = p
      /\ j.event = e /\ j.booking = payment[p].booking /\ j.total = 0
    BY <1>1, <1>3 DEF Job
<1>5. /\ job' \in [Requests -> Job]
      /\ job'[r] = IF other THEN NoJob ELSE j
      /\ \A s \in Requests \ {r} : job'[s] = job[s]
    BY <1>4, NoJobHolds DEF StoreEvent, Resolve, Answer, Become, IInv, StateOK
<1>6. acked' \subseteq Events /\ stored' \subseteq Events
    BY <1>1 DEF StoreEvent, Resolve, Ack, IInv, StateOK
<1>7. StateOK'
    BY <1>5, <1>6 DEF StoreEvent, IInv, StateOK
<1>8. peak[j.booking] \in Nat
    BY <1>3, <1>4, TotalsAreCents DEF IInv, StateOK
<1>9. stored' = stored \cup {e}
    BY DEF StoreEvent
<1>10. Holds(job[r])'
    <2>1. CASE other
        BY <1>5, <2>1, NoJobHoldsNext
    <2>2. CASE ~other
        <3>1. Shape(j) /\ HoldsRow(j) /\ HoldsTotal(j)
            BY <1>1, <1>3, <1>4, <1>8 DEF Shape, HoldsRow, HoldsTotal, Applying,
               CreateOps, LinkOps
        <3>2. job'[r] = j
            BY <1>5, <2>2
        <3>3. event[e].kind \in {"completed", "expired", "opened"}
            BY <1>3, <2>2 DEF Kinds
        <3> HIDE DEF j
        <3>4. HoldsEvent(job[r])'
            BY <1>2, <1>4, <1>9, <3>2, <3>3 DEF StoreEvent, HoldsEvent
        <3>5. QED
            BY <3>1, <3>2, <3>4 DEF StoreEvent, Holds, Shape, HoldsRow,
               HoldsTotal
    <2>3. QED
        BY <2>1, <2>2
<1>11. ASSUME NEW s \in Requests \ {r} PROVE Holds(job[s])'
    <2>1. job'[s] = job[s] /\ Holds(job[s])
        BY <1>5, Own
    <2>2. QED
        BY <1>9, <2>1 DEF StoreEvent, Holds, Shape, HoldsRow, HoldsEvent,
           HoldsTotal
<1>12. ASSUME NEW s \in Requests \ {r}
       PROVE  Apart(job[r], job[s])' /\ Apart(job[s], job[r])'
    <2>1. job'[s] = job[s] /\ Holds(job[s])
        BY <1>5, Own
    <2>2. job[s].pc \in Applying => job[s].event # e
        BY <1>2, <2>1 DEF Holds, HoldsEvent
    <2>3. CASE other
        BY <1>5, <2>3 DEF Apart, NoJob, CreateOps, LinkOps, Applying
    <2>4. CASE ~other
        BY <1>4, <1>5, <2>1, <2>2, <2>4 DEF Apart, CreateOps, LinkOps
    <2>5. QED
        BY <2>3, <2>4
<1>13. ASSUME NEW s \in Requests, NEW q \in Requests, s # q
       PROVE  Apart(job[s], job[q])'
    <2>1. CASE s = r
        BY <1>12, <1>13, <2>1
    <2>2. CASE q = r
        BY <1>12, <1>13, <2>2
    <2>3. CASE s # r /\ q # r
        BY <1>5, <1>13, <2>3 DEF IInv, JobInv, Apart
    <2>4. QED
        BY <2>1, <2>2, <2>3
<1>14. RowInv' /\ EventInv' /\ PeakInv'
    BY <1>9 DEF StoreEvent, IInv, RowInv, EventInv, PeakInv
<1>15. Goals'
    BY <1>9 DEF StoreEvent, IInv, Goals, AppliedAtMostOnce, StripePaidIsBacked,
       RowFitsPeakTotal
<1>16. QED
    BY <1>7, <1>10, <1>11, <1>13, <1>14, <1>15 DEF IInv, JobInv

LEMMA WriteStatusStep ==
    ASSUME IInv, NEW r \in Requests, WriteStatus(r)
    PROVE  IInv'
<1> DEFINE e == job[r].event
           p == job[r].row
           target == Target(event[e].kind)
           j == [job[r] EXCEPT !.pc = "del"]
<1>1. /\ job[r] \in Job /\ job[r].pc = "write" /\ job[r].op = "webhook"
      /\ e \in Events /\ p \in PaymentIds /\ job[r].booking \in Bookings
      /\ Holds(job[r])
    BY Own DEF WriteStatus, At, Holds, Shape, NoJob, Applying, BeforeInsert,
       LinkOps
<1>2. /\ e \in stored /\ applied[e] = 0 /\ event[e].row = p
      /\ event[e] # NoEvent
      /\ event[e].kind \in {"completed", "expired", "opened"}
    BY <1>1 DEF Holds, HoldsEvent, Applying
<1>3. p \in links /\ payment[p].status # "none"
    BY <1>1, <1>2 DEF IInv, EventInv, RowInv
<1>4. target \in {"paid", "expired", "opened"}
      /\ (target = "paid" => event[e].kind = "completed")
    BY <1>2 DEF Target
<1>5. /\ payment' \in [PaymentIds -> Payment]
      /\ payment'[p].status = target
      /\ \A q \in PaymentIds : /\ q # p => payment'[q] = payment[q]
                               /\ payment'[q].booking = payment[q].booking
                               /\ payment'[q].amount = payment[q].amount
    <2>1. /\ payment' = [payment EXCEPT ![p].status = target]
          /\ target \in Statuses /\ payment \in [PaymentIds -> Payment]
        BY <1>4 DEF WriteStatus, Statuses, IInv, StateOK
    <2> HIDE DEF target, p
    <2>2. QED
        BY <1>1, <2>1 DEF Payment
<1>6. /\ applied' \in [Events -> Nat] /\ applied'[e] = 1
      /\ \A f \in Events \ {e} : applied'[f] = applied[f]
    BY <1>1, <1>2 DEF WriteStatus, IInv, StateOK
<1>7. /\ j \in Job /\ j.pc = "del" /\ j.op = "webhook" /\ j.row = p
      /\ j.event = e /\ j.booking = job[r].booking /\ j.total = job[r].total
    BY <1>1 DEF Job
<1>8. /\ job' \in [Requests -> Job]
      /\ job'[r] = j \/ job'[r] = NoJob
      /\ \A s \in Requests \ {r} : job'[s] = job[s]
    BY <1>7, NoJobHolds DEF WriteStatus, Goto, Answer, Become, IInv, StateOK
<1>9. acked' \subseteq Events
    BY <1>1 DEF WriteStatus, Ack, IInv, StateOK
<1>10. StateOK'
    BY <1>5, <1>6, <1>8, <1>9 DEF WriteStatus, IInv, StateOK
<1>11. Holds(job[r])'
    <2>1. Shape(j) /\ HoldsRow(j) /\ HoldsEvent(j) /\ HoldsTotal(j)
        BY <1>1, <1>2, <1>7 DEF Holds, Shape, HoldsRow, HoldsEvent, HoldsTotal,
           Applying, CreateOps, LinkOps
    <2>2. j.pc \notin Applying /\ j.op \notin CreateOps
        BY <1>7 DEF Applying, CreateOps, LinkOps
    <2> HIDE DEF j
    <2>3. CASE job'[r] = j
        BY <2>1, <2>2, <2>3 DEF WriteStatus, Holds, Shape, HoldsRow, HoldsEvent,
           HoldsTotal
    <2>4. CASE job'[r] = NoJob
        BY <2>4, NoJobHoldsNext
    <2>5. QED
        BY <1>8, <2>3, <2>4
<1>12. ASSUME NEW s \in Requests \ {r} PROVE Holds(job[s])'
    <2>1. job'[s] = job[s] /\ Holds(job[s]) /\ Apart(job[r], job[s])
        BY <1>8, Own
    <2>2. job[s].pc \in Applying => job[s].event \in Events \ {e}
        BY <1>1, <2>1 DEF Holds, Shape, Apart, NoJob, Applying, BeforeInsert
    <2>3. HoldsEvent(job[s])'
        BY <1>6, <2>1, <2>2 DEF WriteStatus, Holds, HoldsEvent
    <2>4. job[s].op \in CreateOps => job[s].row \in PaymentIds
        BY <2>1 DEF Holds, Shape, NoJob, CreateOps, LinkOps
    <2>5. HoldsRow(job[s])'
        BY <1>3, <1>5, <2>1, <2>4 DEF WriteStatus, Holds, HoldsRow
    <2>6. Shape(job[s])' /\ HoldsTotal(job[s])'
        BY <2>1 DEF WriteStatus, Holds, Shape, HoldsTotal
    <2>7. QED
        BY <2>3, <2>5, <2>6 DEF Holds
<1>13. \A s, q \in Requests : s # q => Apart(job[s], job[q])'
    <2>1. CASE job'[r] = j
        <3>1. j.pc \notin Applying
            BY <1>7 DEF Applying
        <3> HIDE DEF j
        <3>2. QED
            BY <1>1, <1>7, <1>8, <2>1, <3>1, StillApart
    <2>2. CASE job'[r] = NoJob
        BY <1>8, <2>2, NoJobApart, Own DEF Apart, NoJob, CreateOps, LinkOps,
           Applying
    <2>3. QED
        BY <1>8, <2>1, <2>2
<1>14. RowInv'
    <2>1. links \subseteq PaymentIds
        BY DEF IInv, StateOK
    <2>2. QED
        BY <1>3, <1>4, <1>5, <2>1 DEF WriteStatus, IInv, RowInv
<1>15. EventInv' /\ PeakInv'
    BY <1>2, <1>6 DEF WriteStatus, IInv, EventInv, PeakInv
<1>16. AppliedAtMostOnce'
    BY <1>6 DEF IInv, Goals, AppliedAtMostOnce
<1>17. StripePaidIsBacked'
    <2>1. target = "paid" => event[e] = [kind |-> "completed", row |-> p]
        BY <1>1, <1>2, <1>4 DEF IInv, StateOK, Event
    <2> HIDE DEF target, p
    <2>2. QED
        BY <1>2, <1>5, <2>1 DEF WriteStatus, IInv, Goals, StripePaidIsBacked
<1>18. RowFitsPeakTotal'
    BY <1>3, <1>5 DEF WriteStatus, IInv, Goals, RowFitsPeakTotal
<1>19. QED
    BY <1>10, <1>11, <1>12, <1>13, <1>14, <1>15, <1>16, <1>17, <1>18
       DEF IInv, JobInv, Goals

-----------------------------------------------------------------------------
(* The theorems.                                                           *)

LEMMA InitHolds == Init => IInv
<1> SUFFICES ASSUME Init PROVE IInv
    OBVIOUS
<1>1. StateOK
    BY NoJobHolds, MoneyAssumption DEF Init, StateOK, Payment, NoPayment, Statuses,
       Cents, Event, NoEvent
<1>2. JobInv
    BY NoJobHolds, NoJobApart DEF Init, JobInv
<1>3. RowInv /\ EventInv
    BY DEF Init, RowInv, EventInv, NoPayment
<1>4. PeakInv
    BY TotalsAreCents DEF Init, PeakInv
<1>5. Goals
    BY DEF Init, Goals, AppliedAtMostOnce, StripePaidIsBacked, RowFitsPeakTotal,
       NoPayment
<1>6. QED
    BY <1>1, <1>2, <1>3, <1>4, <1>5 DEF IInv

LEMMA AdvanceStep ==
    ASSUME IInv, NEW r \in Requests, Advance(r)
    PROVE  IInv'
BY ReadTotalStep, RedisGetStep, AggregateStep, RedisSetStep, RefuseStep,
   ReadDepositStep, InsertRowStep, CreateLinkStep, SaveUrlStep, FindEventStep,
   StoreEventStep, StoreConflictStep, LoadRowStep, WriteStatusStep,
   InvalidateStep DEF Advance

LEMMA NextHolds == IInv /\ [Next]_vars => IInv'
<1> SUFFICES ASSUME IInv, [Next]_vars PROVE IInv'
    OBVIOUS
<1>1. CASE UNCHANGED vars
    BY <1>1 DEF vars, IInv, StateOK, JobInv, Holds, Shape, HoldsRow, HoldsEvent,
       HoldsTotal, Apart, RowInv, EventInv, PeakInv, Goals, AppliedAtMostOnce,
       StripePaidIsBacked, RowFitsPeakTotal
<1>2. CASE Next
    BY <1>2, StartStep, StartReadStep, UpdateBookingStep, DeliverStep,
       AdvanceStep, AbortStep, EmitStep, CacheExpireStep DEF Next, Serve
<1>3. QED
    BY <1>1, <1>2

\* IInv holds in every reachable state: the strengthening that the invariants
\* below need, since none of them is inductive by itself.
THEOREM Invariance == Spec => []IInv
BY InitHolds, NextHolds, PTL DEF Spec

\* However often Stripe delivers an event, to however many handlers at once and
\* wherever they die, applyStripeWebhookStatus updates its row at most once.
THEOREM AppliedOnce == Spec => []AppliedAtMostOnce
<1>1. IInv => AppliedAtMostOnce
    BY DEF IInv, Goals
<1>2. QED
    BY <1>1, Invariance, PTL

\* A row with a payment link is paid only if a completed checkout of this very
\* link was stored by the webhook.
THEOREM PaidIsBacked == Spec => []StripePaidIsBacked
<1>1. IInv => StripePaidIsBacked
    BY DEF IInv, Goals
<1>2. QED
    BY <1>1, Invariance, PTL

\* No cash payment and no link asks for more than the largest total the booking
\* has had plus one cent, in any interleaving of handlers.
THEOREM RowsFit == Spec => []RowFitsPeakTotal
<1>1. IInv => RowFitsPeakTotal
    BY DEF IInv, Goals
<1>2. QED
    BY <1>1, Invariance, PTL

\* One more paid row adds its amount: the cents of the new row are as many as the
\* numbers up to its amount, and no other row has them.
LEMMA PaidSumAdds ==
    ASSUME StateOK, NEW b \in Bookings, NEW p \in PaymentIds, NEW amount \in Cents,
           payment[p].status = "none",
           payment'[p].status = "paid", payment'[p].booking = b,
           payment'[p].amount = amount,
           \A q \in PaymentIds \ {p} : payment'[q] = payment[q]
    PROVE  PaidSum(b)' = PaidSum(b) + amount
<1> DEFINE S == PaidRows(b)
           old == {c \in S \X (1 .. MaxCents) : c[2] <= payment[c[1]].amount}
           new == {p} \X (1 .. amount)
<1>1. S \in SUBSET PaymentIds /\ p \notin S /\ PaidRows(b)' = S \cup {p}
    BY DEF PaidRows
<1>2. amount \in Nat /\ amount <= MaxCents /\ MaxCents \in Nat
    BY MoneyAssumption DEF Cents
<1>3. {c \in (S \cup {p}) \X (1 .. MaxCents) : c[2] <= payment'[c[1]].amount} = old \cup new
    <2>1. \A q \in S : payment'[q] = payment[q]
        BY <1>1
    <2>2. QED
        BY <1>1, <1>2, <2>1
<1>4. old \cap new = {}
    BY <1>1
<1>5. IsFiniteSet(old)
    <2>1. IsFiniteSet(S \X (1 .. MaxCents))
        <3>1. IsFiniteSet(S)
            BY <1>1, FinitePayments, FS_Subset
        <3>2. IsFiniteSet(1 .. MaxCents)
            BY <1>2, FS_Interval
        <3>3. QED
            BY <3>1, <3>2, FS_Product
    <2>2. old \in SUBSET (S \X (1 .. MaxCents))
        OBVIOUS
    <2>3. QED
        BY <2>1, <2>2, FS_Subset
<1>6. IsFiniteSet(new) /\ Cardinality(new) = amount
    <2>1. IsFiniteSet(1 .. amount) /\ Cardinality(1 .. amount) = amount
        BY <1>2, FS_Interval
    <2>2. IsFiniteSet({p}) /\ Cardinality({p}) = 1
        BY FS_Singleton
    <2>3. /\ IsFiniteSet({p} \X (1 .. amount))
          /\ Cardinality({p} \X (1 .. amount)) = Cardinality({p}) * Cardinality(1 .. amount)
        BY ONLY <2>1, <2>2, FS_Product
    <2>4. QED
        BY <1>2, <2>1, <2>2, <2>3
<1>7. Cardinality(old \cup new) = Cardinality(old) + amount
    <2>1. Cardinality(old) \in Nat /\ Cardinality(old \cap new) = 0
        BY <1>4, <1>5, FS_CardinalityType, FS_EmptySet
    <2>2. Cardinality(old \cup new) =
              Cardinality(old) + Cardinality(new) - Cardinality(old \cap new)
        BY <1>5, <1>6, FS_Union
    <2>3. QED
        BY <1>2, <1>6, <2>1, <2>2
<1>8. PaidSum(b) = Cardinality(old)
    BY DEF PaidSum, SumOf
<1>9. PaidSum(b)' = Cardinality(old \cup new)
    BY <1>1, <1>3 DEF PaidSum, SumOf
<1>10. QED
    BY <1>7, <1>8, <1>9

-----------------------------------------------------------------------------
(* Who takes a step, and what it writes.                                   *)

\* Handler r is the one that takes the step.
Begins(r) ==
    \/ \E op \in ApiOps \ {"read"}, b \in Bookings, ask \in Asks \cup {0},
          p \in PaymentIds : Start(r, op, b, ask, p)
    \/ \E b \in Bookings : StartRead(r, b)
    \/ \E b \in Bookings, t \in Totals : UpdateBooking(r, b, t)
    \/ \E e \in Events : Deliver(r, e)

Acts(r) == Begins(r) \/ Advance(r) \/ Abort(r)

LEMMA OthersStay ==
    ASSUME IInv, NEW r \in Requests, NEW j, Become(r, j)
    PROVE  job'[r] = j /\ \A s \in Requests \ {r} : job'[s] = job[s]
BY DEF IInv, StateOK, Become

\* What one handler does leaves the others as they are.
LEMMA OneActs ==
    ASSUME IInv, NEW r \in Requests, Acts(r)
    PROVE  \A s \in Requests \ {r} : job'[s] = job[s]
<1>1. PICK j : Become(r, j)
    <2>1. CASE Begins(r)
        BY <2>1 DEF Begins, Start, StartRead, UpdateBooking, Deliver
    <2>2. CASE Abort(r)
        BY <2>2 DEF Abort, Answer
    <2>3. CASE Advance(r)
        BY <2>3 DEF Advance, ReadTotal, RedisGet, Aggregate, RedisSet, Refuse,
           ReadDeposit, InsertRow, CreateLink, SaveUrl, FindEvent, StoreEvent,
           Resolve, StoreConflict, LoadRow, WriteStatus, Invalidate, Goto, Answer
    <2>4. QED
        BY <2>1, <2>2, <2>3 DEF Acts
<1>2. QED
    BY <1>1, OthersStay

\* A handler whose request changes is the one that acts.
LEMMA Actor ==
    ASSUME IInv, [Next]_vars, NEW r \in Requests, job'[r] # job[r]
    PROVE  Acts(r) /\ Note
<1>1. Serve /\ Note
    BY DEF Next, vars
<1>2. CASE \E s \in Requests : Acts(s)
    BY <1>1, <1>2, OneActs
<1>3. CASE job' = job
    BY <1>3
<1>4. QED
    BY <1>1, <1>2, <1>3 DEF Serve, Acts, Begins, Emit, CacheExpire

\* Where a handler that acts comes from.
LEMMA Arrives ==
    ASSUME IInv, NEW r \in Requests, Acts(r)
    PROVE  /\ job'[r].pc = "set" => Aggregate(r)
           /\ job'[r].pc = "load" => StoreEvent(r)
           /\ job'[r].pc = "write" => LoadRow(r)
           /\ job'[r].pc = "del" => InsertRow(r) \/ WriteStatus(r)
           /\ job'[r].pc \in {"deposit", "insert"} =>
                 RedisGet(r) \/ RedisSet(r) \/ ReadDeposit(r)
           /\ job'[r].pc = "sum" => RedisGet(r)
           /\ job'[r].pc = "get" =>
                 ReadTotal(r) \/ job'[r].op = "read"
<1>1. job[r] \in Job /\ \A j : Become(r, j) => job'[r] = j
    BY Own, OthersStay
<1>2. CASE Begins(r)
    <2>1. \/ job'[r].pc = "get" /\ job'[r].op = "read"
          \/ job'[r].pc \in {"total", "find"}
        BY <1>1, <1>2 DEF Begins, Start, StartRead, UpdateBooking, Deliver, NoJob
    <2>2. QED
        BY <2>1
<1>3. CASE Abort(r)
    BY <1>1, <1>3 DEF Abort, Answer, NoJob
<1>4. CASE ReadTotal(r)
    BY <1>1, <1>4 DEF ReadTotal, Job
<1>5. CASE RedisGet(r) \/ RedisSet(r)
    <2>1. \A paid : AfterPaid(job[r], paid).pc \in {"idle", "deposit", "insert"}
        BY <1>1 DEF AfterPaid, NoJob, Job
    <2>2. \/ \E paid : Become(r, AfterPaid(job[r], paid))
          \/ RedisGet(r) /\ Become(r, [job[r] EXCEPT !.pc = "sum"])
        BY <1>5 DEF RedisGet, RedisSet, Goto
    <2>3. ASSUME NEW paid, Become(r, AfterPaid(job[r], paid))
          PROVE  job'[r].pc \in {"idle", "deposit", "insert"}
        <3>1. job'[r] = AfterPaid(job[r], paid)
            BY <2>3, OthersStay
        <3>2. QED
            BY <2>1, <3>1
    <2>4. ASSUME Become(r, [job[r] EXCEPT !.pc = "sum"]) PROVE job'[r].pc = "sum"
        BY <1>1, <2>4 DEF Job
    <2>5. QED
        BY <1>5, <2>2, <2>3, <2>4
<1>6. CASE Aggregate(r)
    BY <1>1, <1>6 DEF Aggregate, Job
<1>7. CASE Refuse(r) \/ SaveUrl(r) \/ StoreConflict(r) \/ Invalidate(r)
    BY <1>1, <1>7 DEF Refuse, SaveUrl, StoreConflict, Invalidate, Answer, NoJob
<1>8. CASE ReadDeposit(r)
    BY <1>1, <1>8 DEF ReadDeposit, Job
<1>9. CASE InsertRow(r) \/ CreateLink(r)
    BY <1>1, <1>9 DEF InsertRow, CreateLink, Goto, Job
<1>10. CASE FindEvent(r) \/ LoadRow(r) \/ WriteStatus(r)
    BY <1>1, <1>10 DEF FindEvent, LoadRow, WriteStatus, Goto, Answer, NoJob, Job
<1>11. CASE StoreEvent(r)
    <2> DEFINE row == event[job[r].event].row
               j == [job[r] EXCEPT !.pc = "load", !.row = row,
                                   !.booking = payment[row].booking]
    <2>1. job'[r] = NoJob \/ job'[r] = j
        BY <1>1, <1>11 DEF StoreEvent, Resolve, Answer
    <2>2. j.pc = "load" /\ NoJob.pc = "idle"
        BY <1>1 DEF Job, NoJob
    <2> HIDE DEF j
    <2>3. job'[r].pc \in {"idle", "load"}
        BY <2>1, <2>2
    <2>4. QED
        BY <1>11, <2>3
<1>12. QED
    BY <1>2, <1>3, <1>4, <1>5, <1>6, <1>7, <1>8, <1>9, <1>10, <1>11
       DEF Acts, Advance

\* The steps that write a row, a cached sum, and what the webhook keeps.
LEMMA Writers ==
    ASSUME [Next]_vars
    PROVE  /\ \/ payment' = payment
              \/ \E r \in Requests : InsertRow(r) \/ SaveUrl(r) \/ WriteStatus(r)
           /\ \/ cache' = cache
              \/ \E r \in Requests : RedisSet(r) \/ Invalidate(r)
              \/ \E b \in Bookings : CacheExpire(b)
           /\ stored' = stored \/ \E r \in Requests : StoreEvent(r)
           /\ \/ acked' = acked
              \/ \E r \in Requests : \/ FindEvent(r) \/ StoreEvent(r) \/ LoadRow(r)
                                     \/ WriteStatus(r) \/ Invalidate(r)
           /\ event' = event \/ \E e \in Events, kind \in Kinds,
                                   p \in PaymentIds : Emit(e, kind, p)
BY DEF Next, Serve, Advance, vars, Start, StartRead, UpdateBooking, Deliver, Abort,
       Emit, CacheExpire, ReadTotal, RedisGet, Aggregate, RedisSet, Refuse,
       ReadDeposit, CreateLink, FindEvent, StoreEvent, StoreConflict, LoadRow,
       Invalidate, InsertRow, SaveUrl, WriteStatus

\* The row a webhook writes: its event's, which a link was made for.
LEMMA WebhookRow ==
    ASSUME IInv, NEW r \in Requests, job[r].pc \in Applying
    PROVE  /\ job[r].op = "webhook"
           /\ job[r].event \in stored /\ job[r].event \in Events
           /\ event[job[r].event] # NoEvent
           /\ event[job[r].event].kind \in {"completed", "expired", "opened"}
           /\ job[r].row = event[job[r].event].row
           /\ job[r].row \in PaymentIds /\ payment[job[r].row].status # "none"
           /\ job[r].booking \in Bookings
<1>1. Holds(job[r])
    BY Own
<1>2. /\ job[r].op = "webhook" /\ job[r].event \in Events
      /\ job[r].row \in PaymentIds /\ job[r].booking \in Bookings
    BY <1>1 DEF Holds, Shape, NoJob, Applying, BeforeInsert
<1>3. /\ job[r].event \in stored /\ event[job[r].event] # NoEvent
      /\ event[job[r].event].kind \in {"completed", "expired", "opened"}
      /\ job[r].row = event[job[r].event].row
    BY <1>1, <1>2 DEF Holds, HoldsEvent
<1>4. QED
    BY <1>2, <1>3 DEF IInv, EventInv, RowInv

\* A row, once there, keeps its booking and its amount, and an event what it says.
LEMMA Kept ==
    ASSUME IInv, [Next]_vars
    PROVE  /\ \A p \in PaymentIds : payment[p].status # "none" =>
                 /\ payment'[p].status # "none"
                 /\ payment'[p].booking = payment[p].booking
                 /\ payment'[p].amount = payment[p].amount
           /\ \A e \in Events : event[e] # NoEvent => event'[e] = event[e]
           /\ stored \subseteq stored'
<1>1. ASSUME NEW r \in Requests, InsertRow(r)
      PROVE  \A p \in PaymentIds : payment[p].status # "none" => payment'[p] = payment[p]
    <2>1. job[r].row \in PaymentIds /\ payment[job[r].row].status = "none"
        BY <1>1, Own DEF InsertRow, At, Holds, Shape, HoldsRow, NoJob, Applying,
           BeforeInsert, CreateOps, LinkOps
    <2>2. QED
        BY <1>1, <2>1 DEF InsertRow, IInv, StateOK
<1>2. ASSUME NEW r \in Requests, SaveUrl(r)
      PROVE  \A p \in PaymentIds : /\ payment'[p].status = payment[p].status
                                   /\ payment'[p].booking = payment[p].booking
                                   /\ payment'[p].amount = payment[p].amount
    BY <1>2 DEF SaveUrl, IInv, StateOK, Payment
<1>3. ASSUME NEW r \in Requests, WriteStatus(r)
      PROVE  \A p \in PaymentIds : payment[p].status # "none" =>
                 /\ payment'[p].status # "none"
                 /\ payment'[p].booking = payment[p].booking
                 /\ payment'[p].amount = payment[p].amount
    <2>1. Target(event[job[r].event].kind) # "none"
        BY <1>3, WebhookRow DEF WriteStatus, At, Applying, Target
    <2>2. QED
        BY <1>3, <2>1 DEF WriteStatus, IInv, StateOK, Payment
<1>4. \A e \in Events : event[e] # NoEvent => event'[e] = event[e]
    BY Writers DEF Emit, IInv, StateOK
<1>5. stored \subseteq stored'
    BY Writers DEF StoreEvent
<1>6. \A p \in PaymentIds : payment[p].status # "none" =>
          /\ payment'[p].status # "none"
          /\ payment'[p].booking = payment[p].booking
          /\ payment'[p].amount = payment[p].amount
    BY <1>1, <1>2, <1>3, Writers
<1>7. QED
    BY <1>4, <1>5, <1>6

-----------------------------------------------------------------------------
(* What handlers know, unless history says that they were overtaken.       *)

\* What LoadRow has seen of the row still allows the write.
WriteInv ==
    \A r \in Requests : job[r].pc = "write" =>
        \/ job[r].row \in raced
        \/ ~Ignores(payment[job[r].row].status, Target(event[job[r].event].kind))

\* A webhook that is about to delete a sum deletes that of its row's booking, and
\* its event is stored.
BookingInv ==
    \A r \in Requests :
        job[r].op = "webhook" /\ job[r].pc \in Applying \cup {"del"} =>
            /\ job[r].event \in stored
            /\ job[r].row \in PaymentIds
            /\ payment[job[r].row].status # "none"
            /\ job[r].booking = payment[job[r].row].booking

\* The sum a reader is about to cache is right, or will be deleted.
ReaderInv ==
    \A r \in Requests : job[r].pc = "set" =>
        \/ job[r].paid = PaidSum(job[r].booking)
        \/ Sweeping(job[r].booking)
        \/ job[r].booking \in stale

\* A stored checkout is applied, being applied, lost or raced.
StoredInv ==
    /\ \A e \in stored : event[e].kind = "completed" =>
          \/ payment[event[e].row].status = "paid"
          \/ \E r \in Requests : job[r].event = e /\ job[r].pc \in Applying
          \/ e \in lost
          \/ event[e].row \in raced
    /\ \A e \in stored : event[e] # NoEvent
    /\ acked \subseteq stored

\* A charge that nobody overtook knows its booking's total and paid sum.
ChargeInv ==
    \A r \in Requests \ behind : job[r].op \in CreateOps =>
        /\ job[r].pc \in BeforeInsert \ {"total"} =>
              job[r].total = total[job[r].booking]
        /\ job[r].pc \in {"set", "deposit", "insert"} =>
              job[r].paid = PaidSum(job[r].booking)

HInv == /\ IInv
        /\ HistoryOK
        /\ WriteInv
        /\ BookingInv
        /\ CacheAgrees
        /\ ReaderInv
        /\ StoredInv
        /\ ChargeInv

LEMMA HistoryStep == HInv /\ [Next]_vars => HistoryOK'
BY DEF HInv, HistoryOK, Next, Note, NoteRaced, NoteLost, NoteStale, NoteBehind, vars

LEMMA RacedGrows ==
    ASSUME [Next]_vars PROVE raced \subseteq raced' /\ lost \subseteq lost'
BY DEF Next, Note, NoteRaced, NoteLost, vars

\* A write of the row's status is either this handler's or finds it raced.
LEMMA WriteStep ==
    ASSUME HInv, [Next]_vars PROVE WriteInv'
<1> SUFFICES ASSUME NEW r \in Requests, job'[r].pc = "write", job'[r].row \notin raced'
             PROVE  ~Ignores(payment'[job'[r].row].status,
                             Target(event'[job'[r].event].kind))
    BY DEF WriteInv
<1>1. IInv /\ raced \subseteq raced'
    BY RacedGrows DEF HInv
<1>2. CASE job'[r] = job[r]
    <2>1. /\ job[r].pc = "write" /\ job[r].row \in PaymentIds
          /\ event'[job[r].event] = event[job[r].event]
        BY <1>1, <1>2, WebhookRow, Kept DEF Applying
    <2>2. payment'[job[r].row].status = payment[job[r].row].status
        BY <1>2, <2>1 DEF Next, Note, NoteRaced, At, Idle, Waits, vars
    <2>3. QED
        BY <1>1, <1>2, <2>1, <2>2 DEF HInv, WriteInv
<1>3. CASE job'[r] # job[r]
    <2>1. LoadRow(r)
        BY <1>1, <1>3, Actor, Arrives
    <2>2. job'[r] = [job[r] EXCEPT !.pc = "write"] /\ job[r] \in Job
          /\ ~Ignores(payment[job[r].row].status, Target(event[job[r].event].kind))
        BY <1>1, <2>1, OthersStay, Own DEF LoadRow, Goto, Answer, NoJob
    <2>3. QED
        BY <2>1, <2>2 DEF LoadRow, Job
<1>4. QED
    BY <1>2, <1>3

LEMMA BookingStep ==
    ASSUME HInv, [Next]_vars PROVE BookingInv'
<1> SUFFICES ASSUME NEW r \in Requests, job'[r].op = "webhook",
                    job'[r].pc \in Applying \cup {"del"}
             PROVE  /\ job'[r].event \in stored'
                    /\ job'[r].row \in PaymentIds
                    /\ payment'[job'[r].row].status # "none"
                    /\ job'[r].booking = payment'[job'[r].row].booking
    BY DEF BookingInv
<1>1. IInv
    BY DEF HInv
<1>2. CASE job'[r] = job[r]
    BY <1>1, <1>2, Kept DEF HInv, BookingInv
<1>3. ASSUME job'[r] # job[r], StoreEvent(r)
      PROVE  /\ job'[r].event \in stored' /\ job'[r].row \in PaymentIds
             /\ payment[job'[r].row].status # "none"
             /\ job'[r].booking = payment[job'[r].row].booking
    <2> DEFINE e == job[r].event
               j == [job[r] EXCEPT !.pc = "load", !.row = event[e].row,
                                   !.booking = payment[event[e].row].booking]
    <2>1. job[r] \in Job /\ e \in Events /\ event[e] # NoEvent
        BY <1>1, <1>3, Own DEF StoreEvent, At, Holds, Shape, HoldsEvent, NoJob,
           Applying, BeforeInsert
    <2>2. event[e].row \in links /\ event[e].row \in PaymentIds
          /\ payment[event[e].row].status # "none"
        BY <1>1, <2>1 DEF IInv, EventInv, RowInv, StateOK
    <2>3. job'[r] = NoJob \/ job'[r] = j
        BY <1>1, <1>3, OthersStay DEF StoreEvent, Resolve, Answer
    <2>4. job'[r] = j /\ j.event = e /\ j.row = event[e].row
          /\ j.booking = payment[event[e].row].booking
        BY <2>1, <2>3 DEF NoJob, Applying, Job
    <2>5. e \in stored'
        BY <1>3 DEF StoreEvent
    <2> HIDE DEF j
    <2>6. QED
        BY <2>2, <2>4, <2>5
<1>4. ASSUME job'[r] # job[r], LoadRow(r) \/ WriteStatus(r)
      PROVE  /\ job'[r].event = job[r].event /\ job'[r].row = job[r].row
             /\ job'[r].booking = job[r].booking
             /\ job[r].op = "webhook" /\ job[r].pc \in Applying
    <2>1. job[r].pc \in Applying /\ job[r] \in Job
        BY <1>1, <1>4, Own DEF LoadRow, WriteStatus, At, Applying
    <2>2. job'[r] \in {NoJob, [job[r] EXCEPT !.pc = "write"], [job[r] EXCEPT !.pc = "del"]}
        BY <1>1, <1>4, OthersStay DEF LoadRow, WriteStatus, Goto, Answer
    <2>3. job'[r] # NoJob
        BY DEF NoJob
    <2>4. QED
        BY <1>1, <2>1, <2>2, <2>3, WebhookRow DEF Job
<1>5. ASSUME job'[r] # job[r] PROVE StoreEvent(r) \/ LoadRow(r) \/ WriteStatus(r)
    <2>1. StoreEvent(r) \/ LoadRow(r) \/ WriteStatus(r) \/ InsertRow(r)
        BY <1>1, <1>5, Actor, Arrives DEF Applying
    <2>2. ASSUME InsertRow(r) PROVE FALSE
        <3>1. job[r] \in Job /\ job[r].op \in CreateOps
            BY <1>1, <2>2, Own DEF InsertRow, At, Holds, Shape, NoJob, Applying,
               CreateOps
        <3>2. job'[r].op = job[r].op
            BY <1>1, <2>2, <3>1, OthersStay DEF InsertRow, Goto, Job
        <3>3. QED
            BY <3>1, <3>2 DEF CreateOps, LinkOps
    <2>3. QED
        BY <2>1, <2>2
<1>6. QED
    BY <1>1, <1>2, <1>3, <1>4, <1>5, Kept DEF HInv, BookingInv

-----------------------------------------------------------------------------
(* The cached sum.                                                         *)

\* The sum of a booking whose paid rows are the same is the same.
LEMMA SumStays ==
    ASSUME IInv, [Next]_vars, NEW b, PaidRows(b)' = PaidRows(b)
    PROVE  PaidSum(b)' = PaidSum(b)
<1>1. \A p \in PaidRows(b) : payment'[p].amount = payment[p].amount
    BY Kept DEF PaidRows
<1>2. {c \in PaidRows(b) \X (1 .. MaxCents) : c[2] <= payment'[c[1]].amount} =
      {c \in PaidRows(b) \X (1 .. MaxCents) : c[2] <= payment[c[1]].amount}
    BY <1>1
<1>3. QED
    BY <1>2 DEF PaidSum, SumOf

\* A request that pays a row of the booking is then about to delete its sum.
LEMMA PayersSweep ==
    ASSUME HInv, [Next]_vars, NEW b \in Bookings, ~Sweeping(b)'
    PROVE  PaidRows(b)' \subseteq PaidRows(b)
<1> SUFFICES ASSUME NEW p \in PaymentIds, payment'[p].booking = b,
                    payment'[p].status = "paid",
                    ~ (payment[p].booking = b /\ payment[p].status = "paid")
             PROVE  FALSE
    BY DEF PaidRows
<1>1. IInv
    BY DEF HInv
<1>2. ASSUME NEW r \in Requests, job'[r].pc = "del", job'[r].booking = b PROVE FALSE
    BY <1>2 DEF Sweeping, At
<1>3. ASSUME NEW r \in Requests, InsertRow(r) PROVE FALSE
    <2>1. job[r] \in Job /\ job[r].row \in PaymentIds
        BY <1>1, <1>3, Own DEF InsertRow, At, Holds, Shape, NoJob, Applying,
           BeforeInsert
    <2>2. p = job[r].row
        BY <1>1, <1>3, <2>1 DEF InsertRow, IInv, StateOK
    <2>3. job[r].op = "cash" /\ job[r].booking = b
        BY <1>1, <1>3, <2>1, <2>2 DEF InsertRow, NewRow, IInv, StateOK
    <2>4. job'[r] = [job[r] EXCEPT !.pc = "del"]
        BY <1>1, <1>3, <2>3, OthersStay DEF InsertRow, Goto
    <2>5. QED
        BY <1>2, <2>1, <2>3, <2>4 DEF Job
<1>4. ASSUME NEW r \in Requests, SaveUrl(r) PROVE FALSE
    BY <1>1, <1>4 DEF SaveUrl, IInv, StateOK, Payment
<1>5. ASSUME NEW r \in Requests, WriteStatus(r) PROVE FALSE
    <2>1. job[r] \in Job /\ job[r].pc \in Applying
        BY <1>1, <1>5, Own DEF WriteStatus, At, Applying
    <2>2. job[r].booking = payment[job[r].row].booking
        BY <1>1, <2>1, WebhookRow DEF HInv, BookingInv
    <2>3. p = job[r].row /\ Target(event[job[r].event].kind) = "paid"
          /\ payment[p].booking = b
        BY <1>1, <1>5 DEF WriteStatus, IInv, StateOK, Payment
    <2>4. job'[r] = [job[r] EXCEPT !.pc = "del"]
        BY <1>1, <1>5, <2>3, OthersStay DEF WriteStatus, Goto
    <2>5. QED
        BY <1>2, <2>1, <2>2, <2>3, <2>4 DEF Job
<1>6. QED
    BY <1>3, <1>4, <1>5, Writers

\* If after a step nobody is about to delete the booking's sum and it is not
\* noted as stale, although there is a sum or a reader that holds one, then so it
\* was before, and the step has not changed what the sum should be.
LEMMA CalmStep ==
    ASSUME HInv, [Next]_vars, NEW b \in Bookings, ~Sweeping(b)', b \notin stale',
           cache'[b] # Miss \/ Caching(b)'
    PROVE  b \notin stale /\ ~Sweeping(b) /\ PaidSum(b)' = PaidSum(b)
<1>1. IInv
    BY DEF HInv
<1>2. \/ UNCHANGED vars
      \/ /\ b \notin stale
         /\ \A r \in Requests : ~ (At(r, "del") /\ job[r].booking = b /\ Ends(r))
         /\ PaidRows(b) \subseteq PaidRows(b)'
    BY DEF Next, Note, NoteStale
<1>3. CASE UNCHANGED vars
    BY <1>3 DEF vars, Sweeping, At, PaidSum, PaidRows, SumOf
<1>4. CASE /\ b \notin stale
           /\ \A r \in Requests : ~ (At(r, "del") /\ job[r].booking = b /\ Ends(r))
           /\ PaidRows(b) \subseteq PaidRows(b)'
    <2>1. ASSUME NEW r \in Requests, At(r, "del"), job[r].booking = b PROVE FALSE
        <3>1. job'[r] # job[r]
            BY <2>1 DEF Sweeping, At
        <3>2. Acts(r)
            BY <1>1, <3>1, Actor
        <3>3. Invalidate(r) \/ Abort(r)
            BY <2>1, <3>2 DEF Acts, Begins, Advance, At, Idle, Start, StartRead,
               UpdateBooking, Deliver, ReadTotal, RedisGet, Aggregate, RedisSet,
               Refuse, ReadDeposit, InsertRow, CreateLink, SaveUrl, FindEvent,
               StoreEvent, StoreConflict, LoadRow, WriteStatus
        <3>4. job'[r] = NoJob
            BY <1>1, <3>3, OthersStay DEF Invalidate, Abort, Answer
        <3>5. QED
            BY <1>4, <2>1, <3>4 DEF Ends, Idle, At
    <2>2. ~Sweeping(b)
        BY <2>1 DEF Sweeping
    <2>3. PaidRows(b)' = PaidRows(b)
        BY <1>4, PayersSweep
    <2>4. QED
        BY <1>1, <1>4, <2>2, <2>3, SumStays
<1>5. QED
    BY <1>2, <1>3, <1>4

LEMMA CacheStep ==
    ASSUME HInv, [Next]_vars PROVE CacheAgrees'
<1> SUFFICES ASSUME NEW b \in Bookings, cache'[b] # Miss, ~Sweeping(b)', b \notin stale'
             PROVE  cache'[b] = PaidSum(b)'
    BY DEF CacheAgrees
<1>1. IInv
    BY DEF HInv
<1>2. b \notin stale /\ ~Sweeping(b) /\ PaidSum(b)' = PaidSum(b)
    BY CalmStep
<1>3. cache[b] \in {Miss, PaidSum(b)}
    BY <1>2 DEF HInv, CacheAgrees
<1>4. ASSUME NEW r \in Requests, RedisSet(r) PROVE cache'[b] = PaidSum(b)
    <2>1. CASE job[r].booking = b
        <3>1. job[r].paid = PaidSum(b)
            BY <1>2, <1>4, <2>1 DEF RedisSet, At, HInv, ReaderInv
        <3>2. QED
            BY <1>1, <1>4, <2>1, <3>1 DEF RedisSet, IInv, StateOK
    <2>2. CASE job[r].booking # b
        BY <1>1, <1>3, <1>4, <2>2 DEF RedisSet, IInv, StateOK
    <2>3. QED
        BY <2>1, <2>2
<1>5. ASSUME NEW r \in Requests, Invalidate(r) PROVE cache'[b] = PaidSum(b)
    BY <1>1, <1>3, <1>5 DEF Invalidate, IInv, StateOK
<1>6. ASSUME NEW c \in Bookings, CacheExpire(c) PROVE cache'[b] = PaidSum(b)
    BY <1>1, <1>3, <1>6 DEF CacheExpire, IInv, StateOK
<1>7. QED
    BY <1>2, <1>3, <1>4, <1>5, <1>6, Writers

LEMMA ReaderStep ==
    ASSUME HInv, [Next]_vars PROVE ReaderInv'
<1>1. IInv /\ IInv'
    BY NextHolds DEF HInv
<1>2. ASSUME NEW r \in Requests, job'[r].pc = "set"
      PROVE  job'[r].booking \in Bookings
    <2>1. Holds(job[r])'
        BY <1>1 DEF IInv, JobInv
    <2>2. QED
        BY <1>2, <2>1 DEF Holds, Shape, NoJob, Applying, BeforeInsert
<1>3. ASSUME NEW r \in Requests, NEW b \in Bookings, job'[r].pc = "set",
             job'[r].booking = b, ~Sweeping(b)', b \notin stale'
      PROVE  job'[r].paid = PaidSum(b)'
    <2>1. Caching(b)'
        BY <1>3 DEF Caching, At
    <2>2. b \notin stale /\ ~Sweeping(b) /\ PaidSum(b)' = PaidSum(b)
        BY <1>3, <2>1, CalmStep
    <2>3. CASE job'[r] = job[r]
        BY <1>3, <2>2, <2>3 DEF HInv, ReaderInv
    <2>4. CASE job'[r] # job[r]
        <3>1. Aggregate(r) /\ job[r] \in Job
            BY <1>1, <1>3, <2>4, Actor, Arrives, Own
        <3>2. job'[r] = [job[r] EXCEPT !.pc = "set", !.paid = PaidSum(job[r].booking)]
            BY <1>1, <3>1, OthersStay DEF Aggregate
        <3>3. job'[r].paid = PaidSum(job[r].booking) /\ b = job[r].booking
            BY <1>3, <3>1, <3>2 DEF Job
        <3>4. QED
            BY <2>2, <3>3
    <2>5. QED
        BY <2>3, <2>4
<1>4. QED
    BY <1>2, <1>3 DEF ReaderInv, Sweeping, At, PaidSum, PaidRows, SumOf

-----------------------------------------------------------------------------
(* Stored events and charges.                                              *)

\* A row stays paid unless it was raced.
LEMMA PaidStays ==
    ASSUME HInv, [Next]_vars, NEW p \in PaymentIds, payment[p].status = "paid",
           p \notin raced'
    PROVE  payment'[p].status = "paid"
<1>1. IInv /\ p \notin raced
    BY RacedGrows DEF HInv
<1>2. ASSUME NEW r \in Requests, InsertRow(r) PROVE payment'[p] = payment[p]
    <2>1. job[r].row \in PaymentIds /\ payment[job[r].row].status = "none"
        BY <1>1, <1>2, Own DEF InsertRow, At, Holds, Shape, HoldsRow, NoJob, Applying,
           BeforeInsert, CreateOps, LinkOps
    <2>2. QED
        BY <1>1, <1>2, <2>1 DEF InsertRow, IInv, StateOK
<1>3. ASSUME NEW r \in Requests, SaveUrl(r) PROVE payment'[p].status = payment[p].status
    BY <1>1, <1>3 DEF SaveUrl, IInv, StateOK, Payment
<1>4. ASSUME NEW r \in Requests, WriteStatus(r) PROVE payment'[p].status = "paid"
    <2>1. job[r].row = p => ~Ignores("paid", Target(event[job[r].event].kind))
        BY <1>1, <1>4 DEF WriteStatus, At, HInv, WriteInv
    <2>2. job[r].row = p => Target(event[job[r].event].kind) = "paid"
        BY <2>1 DEF Ignores
    <2>3. QED
        BY <1>1, <1>4, <2>2 DEF WriteStatus, IInv, StateOK, Payment
<1>5. QED
    BY <1>2, <1>3, <1>4, Writers

\* A handler that applies a checkout goes on, has paid the row, or is noted.
LEMMA ApplierStep ==
    ASSUME HInv, [Next]_vars, NEW r \in Requests, NEW e \in Events,
           job[r].event = e, job[r].pc \in Applying, event[e].kind = "completed"
    PROVE  \/ job'[r].event = e /\ job'[r].pc \in Applying
           \/ payment'[event[e].row].status = "paid"
           \/ e \in lost'
<1>1. IInv /\ job[r] \in Job
    BY Own DEF HInv
<1>2. CASE job'[r] = job[r]
    BY <1>2
<1>3. CASE job'[r] # job[r]
    <2>1. Acts(r) /\ Note
        BY <1>1, <1>3, Actor
    <2>2. LoadRow(r) \/ WriteStatus(r) \/ Abort(r)
        BY <2>1 DEF Acts, Begins, Advance, At, Idle, Applying, Start, StartRead,
           UpdateBooking, Deliver, ReadTotal, RedisGet, Aggregate, RedisSet,
           Refuse, ReadDeposit, InsertRow, CreateLink, SaveUrl, FindEvent,
           StoreEvent, StoreConflict, Invalidate
    <2>3. Target(event[e].kind) = "paid"
        BY DEF Target
    <2>4. CASE LoadRow(r)
        <3>1. ~Ignores(payment[job[r].row].status, "paid")
            BY DEF Ignores
        <3>2. job'[r] = [job[r] EXCEPT !.pc = "write"]
            BY <1>1, <2>3, <2>4, <3>1, OthersStay DEF LoadRow, Goto
        <3>3. QED
            BY <1>1, <3>2 DEF Job, Applying
    <2>5. CASE WriteStatus(r)
        <3>1. job[r].row = event[e].row /\ job[r].row \in PaymentIds
            BY <1>1, WebhookRow
        <3>2. QED
            BY <1>1, <2>3, <2>5, <3>1 DEF WriteStatus, IInv, StateOK, Payment
    <2>6. CASE Abort(r)
        <3>1. job'[r] = NoJob
            BY <1>1, <2>6, OthersStay DEF Abort, Answer
        <3>2. Dies(r)
            BY <1>1, <2>6, <3>1 DEF Abort, Dies, Ends, IInv, StateOK
        <3>3. QED
            BY <2>1, <3>2 DEF Note, NoteLost, At, Applying
    <2>7. QED
        BY <2>2, <2>4, <2>5, <2>6
<1>4. QED
    BY <1>2, <1>3

LEMMA StoredStep ==
    ASSUME HInv, [Next]_vars PROVE StoredInv'
<1>1. /\ IInv /\ WriteInv /\ BookingInv /\ StoredInv
      /\ raced \subseteq raced' /\ lost \subseteq lost'
    BY RacedGrows DEF HInv
<1>2. ASSUME NEW r \in Requests, StoreEvent(r)
      PROVE  /\ stored' = stored \cup {job[r].event}
             /\ job[r].event \in Events /\ event[job[r].event] # NoEvent
             /\ event' = event
             /\ event[job[r].event].kind = "completed" =>
                   job'[r].event = job[r].event /\ job'[r].pc \in Applying
    <2> DEFINE e == job[r].event
               j == [job[r] EXCEPT !.pc = "load", !.row = event[e].row,
                                   !.booking = payment[event[e].row].booking]
    <2>1. job[r] \in Job /\ e \in Events /\ event[e] # NoEvent
        BY <1>1, <1>2, Own DEF StoreEvent, At, Holds, Shape, HoldsEvent, NoJob,
           Applying, BeforeInsert
    <2>2. event[e].kind = "completed" => job'[r] = j
        BY <1>1, <1>2, OthersStay DEF StoreEvent, Resolve
    <2>3. j.event = e /\ j.pc \in Applying
        BY <2>1 DEF Job, Applying
    <2> HIDE DEF j
    <2>4. QED
        BY <1>2, <2>1, <2>2, <2>3 DEF StoreEvent
<1>3. \A e \in stored : e \in Events /\ event[e] # NoEvent /\ event'[e] = event[e]
    BY <1>1, Kept DEF StoredInv, IInv, StateOK
<1>4. \A e \in stored' : event'[e] # NoEvent
    BY <1>2, <1>3, Writers
<1>5. acked' \subseteq stored'
    <2>1. ASSUME NEW r \in Requests, FindEvent(r) PROVE acked' \subseteq stored
        BY <1>1, <2>1 DEF FindEvent, Ack, StoredInv
    <2>2. ASSUME NEW r \in Requests, StoreEvent(r) PROVE acked' \subseteq stored'
        BY <1>1, <2>2 DEF StoreEvent, Resolve, Ack, StoredInv
    <2>3. ASSUME NEW r \in Requests, LoadRow(r) \/ WriteStatus(r)
          PROVE  acked' \subseteq stored
        <3>1. job[r].event \in stored
            BY <1>1, <2>3, WebhookRow DEF LoadRow, WriteStatus, At, Applying
        <3>2. QED
            BY <1>1, <2>3, <3>1 DEF LoadRow, WriteStatus, Ack, StoredInv
    <2>4. ASSUME NEW r \in Requests, Invalidate(r) PROVE acked' \subseteq stored
        BY <1>1, <2>4 DEF Invalidate, At, Ack, StoredInv, BookingInv
    <2>5. stored \subseteq stored'
        BY <1>1, Kept
    <2>6. QED
        BY <1>1, <2>1, <2>2, <2>3, <2>4, <2>5, Writers DEF StoredInv
<1>6. ASSUME NEW e \in stored', event'[e].kind = "completed"
      PROVE  \/ payment'[event'[e].row].status = "paid"
             \/ \E r \in Requests : job'[r].event = e /\ job'[r].pc \in Applying
             \/ e \in lost'
             \/ event'[e].row \in raced'
    <2>1. CASE e \in stored
        <3>1. event'[e] = event[e] /\ e \in Events
            BY <1>3, <2>1
        <3>2. CASE payment[event[e].row].status = "paid"
            <4>1. event[e].row \in PaymentIds
                BY <1>1, <1>3, <2>1 DEF IInv, EventInv, StateOK
            <4>2. QED
                BY <3>1, <3>2, <4>1, PaidStays
        <3>3. CASE \E r \in Requests : job[r].event = e /\ job[r].pc \in Applying
            BY <1>6, <3>1, <3>3, ApplierStep
        <3>4. QED
            BY <1>1, <1>6, <2>1, <3>1, <3>2, <3>3 DEF StoredInv
    <2>2. CASE e \notin stored
        BY <1>2, <1>6, <2>2, Writers
    <2>3. QED
        BY <2>1, <2>2
<1>7. QED
    BY <1>4, <1>5, <1>6 DEF StoredInv

\* What a charge has read is still so when nobody overtook it.
LEMMA ChargeStep ==
    ASSUME HInv, [Next]_vars PROVE ChargeInv'
<1>1. IInv
    BY DEF HInv
<1> SUFFICES ASSUME NEW r \in Requests, r \notin behind', job'[r].op \in CreateOps,
                    NEW b, b = job'[r].booking
             PROVE  /\ job'[r].pc \in BeforeInsert \ {"total"} =>
                          job'[r].total = total'[b]
                    /\ job'[r].pc \in {"set", "deposit", "insert"} =>
                          job'[r].paid = PaidSum(b)'
    BY DEF ChargeInv, PaidSum, PaidRows, SumOf
<1>2. ~Idle(r) /\ job'[r] = job[r] /\ ~ UNCHANGED vars =>
          /\ r \notin behind
          /\ total'[b] = total[b]
          /\ PaidRows(b)' = PaidRows(b)
    <2>1. CreateOps \subseteq ApiOps
        BY DEF CreateOps, ApiOps
    <2>2. NoJob.op \notin CreateOps
        BY DEF NoJob, CreateOps, LinkOps
    <2>3. ASSUME ~Idle(r), job'[r] = job[r], Note
          PROVE  /\ r \notin behind
                 /\ total'[b] = total[b]
                 /\ PaidRows(b)' = PaidRows(b)
        <3>1. Waits(r) /\ ~Ends(r)
            BY <2>2, <2>3 DEF Waits, Ends
        <3>2. job[r].op \in ApiOps /\ b = job[r].booking
            BY <2>1, <2>3
        <3>3. QED
            BY <2>3, <3>1, <3>2 DEF Note, NoteBehind, PaidRows
    <2>4. QED
        BY <2>3 DEF Next
<1>3. CASE job'[r] = job[r]
    <2>1. ~Idle(r)
        BY <1>1, <1>3, Own DEF Idle, At, Holds, Shape, NoJob, CreateOps, LinkOps,
           BeforeInsert, Applying
    <2>2. CASE UNCHANGED vars
        BY <1>3, <2>2 DEF vars, HInv, ChargeInv, PaidSum, PaidRows, SumOf
    <2>3. CASE ~ UNCHANGED vars
        <3>1. /\ r \notin behind /\ total'[b] = total[b]
              /\ PaidSum(b)' = PaidSum(b)
            BY <1>1, <1>2, <1>3, <2>1, <2>3, SumStays
        <3>2. QED
            BY <1>3, <3>1 DEF HInv, ChargeInv
    <2>4. QED
        BY <2>2, <2>3
<1>4. CASE job'[r] # job[r]
    <2>1. Acts(r) /\ Note /\ job[r] \in Job
        BY <1>1, <1>4, Actor, Own
    <2>2. CASE job'[r].pc \in {"get", "sum", "set", "deposit", "insert"}
        <3>1. \/ ReadTotal(r) \/ RedisGet(r) \/ Aggregate(r) \/ RedisSet(r)
              \/ ReadDeposit(r)
            BY <1>1, <2>1, <2>2, Arrives DEF CreateOps, LinkOps
        <3>2. payment' = payment /\ total' = total /\ ~Idle(r) /\ job'[r] # NoJob
            BY <2>2, <3>1 DEF ReadTotal, RedisGet, Aggregate, RedisSet, ReadDeposit,
               At, Idle, NoJob
        <3>3. PaidSum(b)' = PaidSum(b)
            BY <3>2 DEF PaidSum, PaidRows, SumOf
        <3>4. r \notin behind
            BY <2>1, <3>2 DEF Note, NoteBehind, Ends
        <3>5. CASE ReadTotal(r)
            <4>1. job'[r] = [job[r] EXCEPT !.pc = "get", !.total = total[job[r].booking]]
                BY <1>1, <3>5, OthersStay DEF ReadTotal
            <4>2. QED
                BY <2>1, <3>2, <4>1 DEF Job
        <3>6. CASE Aggregate(r)
            <4>1. job'[r] = [job[r] EXCEPT !.pc = "set", !.paid = PaidSum(job[r].booking)]
                BY <1>1, <3>6, OthersStay DEF Aggregate
            <4>2. /\ job'[r].op = job[r].op /\ b = job[r].booking
                  /\ job'[r].total = job[r].total /\ job'[r].paid = PaidSum(b)
                BY <2>1, <4>1 DEF Job
            <4>3. job[r].total = total[b]
                BY <3>4, <3>6, <4>2 DEF Aggregate, At, HInv, ChargeInv, BeforeInsert
            <4>4. QED
                BY <3>2, <3>3, <4>2, <4>3
        <3>7. CASE ReadDeposit(r)
            <4> DEFINE ask == 10 * Deposit(Due(job[r]), total[job[r].booking])
            <4>1. job'[r] = [job[r] EXCEPT !.pc = "insert", !.ask = ask]
                BY <1>1, <3>7, OthersStay DEF ReadDeposit
            <4> HIDE DEF ask
            <4>2. /\ job'[r].op = job[r].op /\ b = job[r].booking
                  /\ job'[r].total = job[r].total /\ job'[r].paid = job[r].paid
                BY <2>1, <4>1 DEF Job
            <4>3. job[r].total = total[b] /\ job[r].paid = PaidSum(b)
                BY <3>4, <3>7, <4>2 DEF ReadDeposit, At, HInv, ChargeInv, BeforeInsert
            <4>4. QED
                BY <3>2, <3>3, <4>2, <4>3
        <3>8. ASSUME NEW paid, job'[r] = AfterPaid(job[r], paid)
              PROVE  /\ job'[r].op = job[r].op /\ b = job[r].booking
                     /\ job'[r].total = job[r].total /\ job'[r].paid = paid
            BY <2>1, <3>2, <3>8 DEF AfterPaid, Job
        <3>9. CASE RedisSet(r)
            <4>1. job'[r] = AfterPaid(job[r], job[r].paid)
                BY <1>1, <3>9, OthersStay DEF RedisSet
            <4>2. /\ job'[r].op = job[r].op /\ b = job[r].booking
                  /\ job'[r].total = job[r].total /\ job'[r].paid = job[r].paid
                BY <3>8, <4>1
            <4>3. job[r].total = total[b] /\ job[r].paid = PaidSum(b)
                BY <3>4, <3>9, <4>2 DEF RedisSet, At, HInv, ChargeInv, BeforeInsert
            <4>4. QED
                BY <3>2, <3>3, <4>2, <4>3
        <3>10. CASE RedisGet(r)
            <4>1. CASE cache[job[r].booking] = Miss
                <5>1. job'[r] = [job[r] EXCEPT !.pc = "sum"]
                    BY <1>1, <3>10, <4>1, OthersStay DEF RedisGet, Goto
                <5>2. /\ job'[r].op = job[r].op /\ b = job[r].booking
                      /\ job'[r].total = job[r].total /\ job'[r].pc = "sum"
                    BY <2>1, <5>1 DEF Job
                <5>3. job[r].total = total[b]
                    BY <3>4, <3>10, <5>2 DEF RedisGet, At, HInv, ChargeInv, BeforeInsert
                <5>4. QED
                    BY <3>2, <5>2, <5>3
            <4>2. CASE cache[job[r].booking] # Miss
                <5>1. job'[r] = AfterPaid(job[r], cache[job[r].booking])
                    BY <1>1, <3>10, <4>2, OthersStay DEF RedisGet
                <5>2. /\ job'[r].op = job[r].op /\ b = job[r].booking
                      /\ job'[r].total = job[r].total /\ job'[r].paid = cache[b]
                    BY <3>8, <5>1
                <5>3. job[r].total = total[b]
                    BY <3>4, <3>10, <5>2 DEF RedisGet, At, HInv, ChargeInv, BeforeInsert
                <5>4. b \in Bookings
                    BY <1>1, <3>10, <5>2, Own DEF RedisGet, At, Holds, Shape, NoJob,
                       Applying, BeforeInsert
                <5>5. b \notin stale /\ ~Sweeping(b)
                    <6>1. job[r].op \in ApiOps /\ At(r, "get") /\ ~Ends(r)
                        BY <3>2, <3>10, <5>2 DEF RedisGet, CreateOps, ApiOps, Ends
                    <6>2. QED
                        BY <2>1, <3>2, <5>2, <6>1 DEF Note, NoteBehind
                <5>6. cache[b] = PaidSum(b)
                    BY <4>2, <5>2, <5>4, <5>5 DEF HInv, CacheAgrees
                <5>7. QED
                    BY <3>2, <3>3, <5>2, <5>3, <5>6
            <4>3. QED
                BY <4>1, <4>2
        <3>11. QED
            BY <3>1, <3>5, <3>6, <3>7, <3>9, <3>10
    <2>3. QED
        BY <2>2 DEF BeforeInsert
<1>5. QED
    BY <1>3, <1>4

-----------------------------------------------------------------------------
(* Theorems about overlapping requests and lost handlers.                  *)

LEMMA HInit == Init => HInv
<1> SUFFICES ASSUME Init PROVE HInv
    OBVIOUS
<1>1. IInv
    BY InitHolds
<1>2. \A r \in Requests : job[r].pc = "idle" /\ job[r].op = "none"
    BY DEF Init, NoJob
<1>3. HistoryOK /\ WriteInv /\ BookingInv /\ ReaderInv /\ ChargeInv
    BY <1>2 DEF Init, HistoryOK, WriteInv, BookingInv, ReaderInv, ChargeInv,
       Applying, CreateOps, LinkOps
<1>4. CacheAgrees /\ StoredInv
    BY DEF Init, CacheAgrees, StoredInv
<1>5. QED
    BY <1>1, <1>3, <1>4 DEF HInv

LEMMA HNext == HInv /\ [Next]_vars => HInv'
<1> SUFFICES ASSUME HInv, [Next]_vars PROVE HInv'
    OBVIOUS
<1>1. IInv'
    BY NextHolds DEF HInv
<1>2. QED
    BY <1>1, HistoryStep, WriteStep, BookingStep, CacheStep, ReaderStep, StoredStep,
       ChargeStep DEF HInv

\* What every handler knows at every await, for all interleavings, deaths and
\* redeliveries: the strengthening that the theorems below rest on.
THEOREM HistoryInvariance == Spec => []HInv
BY HInit, HNext, PTL DEF Spec

\* Every variable keeps its type: above all, every amount written to a row of
\* table payments fits the column and every cached sum is a number.
THEOREM TypeCorrect == Spec => []TypeOK
<1>1. HInv => TypeOK
    BY DEF HInv, IInv, TypeOK
<1>2. QED
    BY <1>1, HistoryInvariance, PTL

\* However getPaidAmount's readers, its writers and Redis' own expiry interleave,
\* a cached sum that the rows do not add up to has a writer about to delete it,
\* or it was noted that the deletion came too early or with a dead handler; and
\* the note goes when the key does.
THEOREM CacheIsTheSum == Spec => []CacheAgrees
<1>1. HInv => CacheAgrees
    BY DEF HInv
<1>2. QED
    BY <1>1, HistoryInvariance, PTL

\* A completed checkout that was answered with a 2xx, to whichever of its
\* deliveries, is paid or being paid, unless the handler that stored it died or
\* another event changed its row between the look and the write.
THEOREM AckedArePaid == Spec => []AckedIsApplied
<1>1. ASSUME HInv PROVE AckedIsApplied
    <2> SUFFICES ASSUME NEW e \in acked, event[e].kind = "completed",
                        payment[event[e].row].status # "paid",
                        e \notin lost, event[e].row \notin raced
                 PROVE  \E r \in Requests :
                            job[r].event = e /\ (At(r, "load") \/ At(r, "write"))
        BY DEF AckedIsApplied
    <2>1. \E r \in Requests : job[r].event = e /\ job[r].pc \in Applying
        BY <1>1 DEF HInv, StoredInv
    <2>2. QED
        BY <2>1 DEF Applying, At
<1>2. QED
    BY <1>1, HistoryInvariance, PTL

\* The row of a cash payment that was measured against what is due.
LEMMA CashStep ==
    ASSUME HInv, NEW r \in Requests, NEW b \in Bookings, r \notin behind,
           InsertRow(r), job[r].op = "cash", job[r].booking = b
    PROVE  PaidSum(b)' <= total[b] + 1
<1> DEFINE j == job[r]
           amount == ToCents(Wanted(j))
<1>1. /\ IInv /\ StateOK /\ j \in Job /\ j.row \in PaymentIds
      /\ payment[j.row].status = "none"
      /\ j.total = total[b] /\ j.paid = PaidSum(b)
    <2>1. IInv /\ StateOK /\ j \in Job /\ Holds(j) /\ j.pc = "insert"
        BY Own DEF HInv, IInv, InsertRow, At
    <2>2. j.row \in PaymentIds /\ payment[j.row].status = "none"
        BY <2>1 DEF Holds, Shape, HoldsRow, NoJob, BeforeInsert, CreateOps, Applying
    <2>3. QED
        BY <2>1, <2>2 DEF HInv, ChargeInv, CreateOps, BeforeInsert
<1>2. PICK p \in PaymentIds : p = j.row
    BY <1>1
<1>3. payment' = [payment EXCEPT ![p] = NewRow(j, "paid")]
    BY <1>2 DEF InsertRow
<1>4. Due(j) > 0 /\ Fits(j)
    BY DEF InsertRow
<1>5. Due(j) \in Nat /\ amount \in Cents /\ amount <= Due(j) + 1
    <2>1. amount \in Cents
        BY <1>1, <1>4, WantedFits
    <2>2. Due(j) \in Nat /\ j.ask \in Nat
        BY <1>1, DueBounds, MoneyAssumption DEF Job, Mills
    <2>3. Wanted(j) \in Nat /\ Wanted(j) <= 10 * Due(j) + 9
        BY <1>4, <2>2 DEF Fits, Wanted
    <2>4. QED
        BY <2>1, <2>2, <2>3 DEF ToCents
<1>6. PaidSum(b)' = PaidSum(b) + amount
    <2>1. /\ payment'[p].amount = amount /\ payment'[p].status = "paid"
          /\ payment'[p].booking = b
          /\ \A q \in PaymentIds \ {p} : payment'[q] = payment[q]
        BY <1>1, <1>3 DEF NewRow, StateOK
    <2> HIDE DEF amount
    <2>2. QED
        BY <1>1, <1>2, <1>5, <2>1, PaidSumAdds
<1>7. PaidSum(b) \in Nat /\ PaidSum(b) + Due(j) = total[b]
    <2>1. PaidSum(b) \in Nat /\ total[b] \in Nat
        BY <1>1, PaidSumIsNat, TotalsAreCents DEF StateOK
    <2>2. QED
        BY <1>1, <1>4, <2>1 DEF Due, Larger
<1>8. amount \in Nat
    BY <1>5, MoneyAssumption DEF Cents
<1> HIDE DEF amount
<1>9. QED
    BY <1>5, <1>6, <1>7, <1>8

\* Whatever else is in flight, a cash payment whose booking nobody else changed
\* or paid while it was served, and whose paid sum was not noted as stale, fits
\* what is due to a rounded cent.
THEOREM CashIsMeasured == Spec => CashFits
<1>1. ASSUME HInv, [Next]_vars
      PROVE  \A r \in Requests \ behind, b \in Bookings :
                Collects(r, b) => PaidSum(b)' <= total[b] + 1
    <2> SUFFICES ASSUME NEW r \in Requests \ behind, NEW b \in Bookings,
                        Collects(r, b)
                 PROVE  PaidSum(b)' <= total[b] + 1
        OBVIOUS
    <2>1. job'[r].pc = "del" /\ job'[r] # job[r] /\ IInv
        BY <1>1 DEF Collects, At, HInv
    <2>2. InsertRow(r) \/ WriteStatus(r)
        BY <1>1, <2>1, Actor, Arrives
    <2>3. InsertRow(r)
        BY <1>1, <2>2 DEF Collects, At, WriteStatus
    <2>4. QED
        BY <1>1, <2>3, CashStep DEF Collects
<1>2. QED
    BY <1>1, HistoryInvariance, PTL DEF Spec, CashFits

-----------------------------------------------------------------------------
(* The rows go through PaymentLedger.                                      *)

\* A write to one row's status, seen from the ledger.
LEMMA LedgerWrite ==
    ASSUME HInv, Note, NEW p \in PaymentIds, NEW from, NEW to,
           payment[p].status \in from, payment'[p].status = to,
           \A q \in PaymentIds \ {p} : payment'[q].status = payment[q].status
    PROVE  Ledger!Move(p, from, to)
<1>1. [q \in PaymentIds |-> payment[q].status]' =
          [[q \in PaymentIds |-> payment[q].status] EXCEPT ![p] = to]
    <2>1. \A q \in PaymentIds :
              payment'[q].status = IF q = p THEN to ELSE payment[q].status
        OBVIOUS
    <2>2. QED
        BY <2>1
<1>2. raced' \in {raced, raced \cup {p}}
    <2>1. raced' \subseteq raced \cup {p} /\ raced \subseteq raced'
        BY DEF Note, NoteRaced
    <2>2. QED
        BY <2>1
<1>3. QED
    BY <1>1, <1>2 DEF Ledger!Move

\* A step that leaves every status as it is races no row.
LEMMA LedgerStays ==
    ASSUME [Next]_vars, \A q \in PaymentIds : payment'[q].status = payment[q].status
    PROVE  UNCHANGED <<[q \in PaymentIds |-> payment[q].status], raced>>
<1>1. raced' = raced
    BY DEF Next, Note, NoteRaced, vars
<1>2. QED
    BY <1>1

LEMMA LedgerInsert ==
    ASSUME HInv, Note, NEW r \in Requests, InsertRow(r) PROVE Ledger!Next
<1>1. /\ job[r].row \in PaymentIds /\ payment[job[r].row].status = "none" /\ StateOK
    BY Own DEF HInv, IInv, InsertRow, At, Holds, Shape, HoldsRow, NoJob, Applying,
       BeforeInsert, CreateOps, LinkOps
<1>2. PICK p \in PaymentIds : p = job[r].row
    BY <1>1
<1>3. PICK to \in {"paid", "sent"} : payment' = [payment EXCEPT ![p] = NewRow(job[r], to)]
    BY <1>2 DEF InsertRow
<1>4. payment'[p].status = to /\ \A q \in PaymentIds \ {p} : payment'[q] = payment[q]
    BY <1>1, <1>3 DEF NewRow, StateOK
<1>5. Ledger!Move(p, {"none"}, to)
    BY <1>1, <1>2, <1>4, LedgerWrite
<1>6. QED
    BY <1>5 DEF Ledger!Collect, Ledger!Send, Ledger!Next

\* What an event asks for is still allowed, or its row is raced.
LEMMA LedgerStatus ==
    ASSUME HInv, Next, NEW r \in Requests, WriteStatus(r)
    PROVE  Ledger!Next \/ UNCHANGED <<[q \in PaymentIds |-> payment[q].status], raced>>
<1>1. /\ job[r].row \in PaymentIds /\ payment[job[r].row].status # "none"
      /\ event[job[r].event].kind \in {"completed", "expired", "opened"} /\ StateOK
    BY WebhookRow DEF HInv, IInv, WriteStatus, At, Applying
<1>2. PICK p \in PaymentIds : p = job[r].row
    BY <1>1
<1>3. PICK to \in {"paid", "expired", "opened"} : to = Target(event[job[r].event].kind)
    BY <1>1 DEF Target
<1>4. payment'[p].status = to /\ \A q \in PaymentIds \ {p} : payment'[q] = payment[q]
    BY <1>1, <1>2, <1>3 DEF WriteStatus, StateOK, Payment
<1>5. payment[p].status \in {"sent", "opened", "paid", "expired"}
    BY <1>1, <1>2 DEF StateOK, Payment, Statuses
<1>6. p \in raced \/ ~Ignores(payment[p].status, to)
    BY <1>2, <1>3 DEF HInv, WriteInv, WriteStatus, At
<1>7. ASSUME NEW from, payment[p].status \in from PROVE Ledger!Move(p, from, to)
    BY <1>4, <1>7, LedgerWrite DEF Next
<1>8. CASE payment[p].status = to
    BY <1>4, <1>8, LedgerStays
<1>9. CASE payment[p].status # to /\ ~Ignores(payment[p].status, to)
    <2>1. \/ to = "paid" /\ payment[p].status \in {"sent", "opened", "expired"}
          \/ to = "expired" /\ payment[p].status \in {"sent", "opened"}
          \/ to = "opened" /\ payment[p].status \in {"sent"}
        BY <1>5, <1>9 DEF Ignores
    <2>2. Ledger!Settle(p) \/ Ledger!Lapse(p) \/ Ledger!Open(p)
        BY <1>7, <2>1 DEF Ledger!Settle, Ledger!Lapse, Ledger!Open
    <2>3. QED
        BY <2>2 DEF Ledger!Next
<1>10. CASE payment[p].status # to /\ p \in raced /\ Ignores(payment[p].status, to)
    <2>1. payment[p].status \in {"opened", "paid", "expired"}
        BY <1>5, <1>10 DEF Ignores
    <2>2. Ledger!Slip(p)
        BY <1>7, <1>10, <2>1 DEF Ledger!Slip
    <2>3. QED
        BY <2>2 DEF Ledger!Next
<1>11. QED
    BY <1>6, <1>8, <1>9, <1>10

LEMMA LedgerStep ==
    ASSUME HInv, [Next]_vars
    PROVE  [Ledger!Next]_(<<[p \in PaymentIds |-> payment[p].status], raced>>)
<1>1. CASE UNCHANGED vars
    BY <1>1, LedgerStays DEF vars
<1>2. CASE Next
    <2>1. ASSUME NEW r \in Requests, SaveUrl(r)
          PROVE  \A q \in PaymentIds : payment'[q].status = payment[q].status
        BY <2>1 DEF SaveUrl, HInv, IInv, StateOK, Payment
    <2>2. QED
        BY <1>2, <2>1, Writers, LedgerStays, LedgerInsert, LedgerStatus DEF Next
<1>3. QED
    BY <1>1, <1>2

\* Every row is collected on the spot or sent, opened, and paid or expired, and
\* nothing leaves "paid", although WriteStatus writes by id alone and whatever
\* interleaves or dies; the one exception is a row whose status changed between
\* the look and the write of an event, and history knows it.
THEOREM LedgerIsImplemented == Spec => LedgerSpec
<1>1. Init => Ledger!Init
    BY DEF Init, Ledger!Init, NoPayment
<1>2. HInv /\ [Next]_vars =>
          [Ledger!Next]_(<<[p \in PaymentIds |-> payment[p].status], raced>>)
    BY LedgerStep
<1>3. QED
    BY <1>1, <1>2, HistoryInvariance, PTL DEF Spec, LedgerSpec, Ledger!Spec

=============================================================================

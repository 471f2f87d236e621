---------------------------- MODULE RequestsProofs ----------------------------
(***************************************************************************)
(* Proofs about Requests for every number of handlers, keys, bookings and  *)
(* reviews.                                                                *)
(***************************************************************************)
EXTENDS Requests, FiniteSetTheorems, TLAPS

-----------------------------------------------------------------------------
(* The inductive invariant.                                                *)

\* What a call refers to in each phase.
RequestCallFits(call) ==
    /\ call.step \in {"idle", "insert"} <=> call.row = 0
    /\ call.row # 0 => call.row \in DOMAIN booking /\ booking[call.row].key # None
    /\ call.step \in {"staff", "client"} =>
          call.key \in Keys /\ booking[call.row].key = call.key
    /\ call.step = "verdict" => call.verdict \in Decided

\* What a booking of a customer shows at rest, and what it shows a call that works
\* on it alone.
Stands(b) ==
    /\ b.staffTold
    /\ b.status = "pending" => b.told = "received"
    /\ b.status \in Decided => b.told = b.status
    /\ b.notes = b.noted
Suits(call, b) ==
    /\ b.notes = b.noted
    /\ call.step \in {"staff", "client"} => b.status = "pending"
    /\ call.step # "staff" => b.staffTold
    /\ call.step = "review" => Stands(b) /\ call.notes = b.notes
    /\ call.step = "verdict" => b.status = call.verdict

Smooth(b) == b.key # None /\ ~b.overlapped /\ ~b.cut
Story(i) ==
    /\ \A g, h \in Handlers : requestCall[g].row = i /\ requestCall[h].row = i => g = h
    /\ \A h \in Handlers : requestCall[h].row = i => Suits(requestCall[h], booking[i])
    /\ ~Busy(i) => Stands(booking[i])

RequestCallsFit == \A h \in Handlers : RequestCallFits(requestCall[h])
Stories == \A i \in DOMAIN booking : Smooth(booking[i]) => Story(i)
KeysAreUnique ==
    \A i, k \in DOMAIN booking :
        booking[i].key # None /\ booking[i].key = booking[k].key => i = k
AnswersFit == \A key \in Keys : answers[key] \subseteq BookingsOf(key)

RequestsInv == RequestsTypeOK /\ RequestCallsFit /\ Stories /\ KeysAreUnique /\ AnswersFit

-----------------------------------------------------------------------------
(* Lemmas.                                                                 *)

LEMMA RequestTypes ==
    ASSUME RequestsInv
    PROVE  /\ customer \in BOOLEAN
           /\ booking \in Seq(Booking) /\ Len(booking) <= MaxBookings
           /\ DOMAIN booking = 1 .. Len(booking) /\ Len(booking) \in Nat
           /\ \A i \in DOMAIN booking : booking[i] \in Booking /\ i # 0
           /\ requestCall \in [Handlers -> RequestCall]
           /\ \A h \in Handlers : requestCall[h] \in RequestCall /\ RequestCallFits(requestCall[h])
           /\ answers \in [Keys -> SUBSET (1 .. MaxBookings)]
           /\ reviews \in 0 .. MaxReviews
BY DEF RequestsInv, RequestsTypeOK, RequestCallsFit

LEMMA NoRequestFits ==
    /\ NoRequest \in RequestCall /\ NoRequest.step = "idle" /\ NoRequest.row = 0
    /\ NoRequest.key = None
BY RequestsAssumption DEF NoRequest, RequestCall, Verdicts, Decided

\* What every step leaves of the bookings: none goes or changes its key.
RowsKept ==
    /\ DOMAIN booking \subseteq DOMAIN booking'
    /\ \A i \in DOMAIN booking : booking'[i].key = booking[i].key

\* One row changes.
LEMMA BookingRowChanges ==
    ASSUME RequestsInv, NEW n \in DOMAIN booking, NEW b \in Booking,
           b.key = booking[n].key, booking' = [booking EXCEPT ![n] = b]
    PROVE  /\ booking' \in Seq(Booking) /\ Len(booking') = Len(booking)
           /\ DOMAIN booking' = DOMAIN booking /\ booking'[n] = b
           /\ \A i \in DOMAIN booking \ {n} : booking'[i] = booking[i]
           /\ RowsKept /\ KeysAreUnique'
           /\ \A key \in Keys : BookingsOf(key)' = BookingsOf(key)
<1>1. booking \in Seq(Booking)
    BY RequestTypes
<1>2. /\ booking' \in Seq(Booking) /\ Len(booking') = Len(booking)
      /\ DOMAIN booking' = DOMAIN booking /\ booking'[n] = b
      /\ \A i \in DOMAIN booking \ {n} : booking'[i] = booking[i]
    BY <1>1
<1>3. \A i \in DOMAIN booking : booking'[i].key = booking[i].key
    BY <1>2
<1>4. KeysAreUnique'
    BY <1>2, <1>3 DEF RequestsInv, KeysAreUnique
<1>5. QED
    BY <1>2, <1>3, <1>4 DEF RowsKept, BookingsOf

\* No row does.
LEMMA RowsStay ==
    ASSUME RequestsInv, UNCHANGED booking
    PROVE  /\ booking' \in Seq(Booking) /\ Len(booking') <= MaxBookings
           /\ RowsKept /\ KeysAreUnique'
           /\ \A key \in Keys : BookingsOf(key)' = BookingsOf(key)
BY RequestTypes DEF RequestsInv, RowsKept, KeysAreUnique, BookingsOf

\* One handler takes up or ends work on row n; the stories of the others go on.
LEMMA RequestCallMoves ==
    ASSUME RequestsInv, RowsKept, NEW h \in Handlers, NEW call \in RequestCall, NEW n,
           requestCall' = [requestCall EXCEPT ![h] = call],
           call.step \in {"idle", "insert"} <=> call.row = 0,
           call.row # 0 => call.row \in DOMAIN booking' /\ booking'[call.row].key # None,
           call.step \in {"staff", "client"} =>
              call.key \in Keys /\ booking'[call.row].key = call.key,
           call.step = "verdict" => call.verdict \in Decided,
           requestCall[h].row \in {0, n}, call.row \in {0, n}, 0 \notin DOMAIN booking',
           \A i \in DOMAIN booking' \ {n} : i \in DOMAIN booking /\ booking'[i] = booking[i],
           n \in DOMAIN booking' /\ Smooth(booking'[n]) =>
              /\ \A g \in Handlers \ {h} : requestCall[g].row # n
              /\ call.row = n => Suits(call, booking'[n])
              /\ call.row # n => Stands(booking'[n])
    PROVE  requestCall' \in [Handlers -> RequestCall] /\ RequestCallsFit' /\ Stories'
<1>1. /\ requestCall' \in [Handlers -> RequestCall]
      /\ \A g \in Handlers : requestCall'[g] = IF g = h THEN call ELSE requestCall[g]
    BY RequestTypes
<1>2. ASSUME NEW g \in Handlers
      PROVE  RequestCallFits(requestCall[g])'
    <2>1. CASE g = h
        BY <1>1, <2>1 DEF RequestCallFits
    <2>2. CASE g # h
        BY <1>1, <2>2, RequestTypes DEF RequestCallFits, RowsKept
    <2>3. QED
        BY <2>1, <2>2
<1>3. ASSUME NEW i \in DOMAIN booking', Smooth(booking'[i])
      PROVE  Story(i)'
    <2>1. CASE i = n
        <3>1. \A g \in Handlers : requestCall'[g].row = i => g = h /\ call.row = n
            BY <1>1, <1>3, <2>1
        <3>2. Busy(i)' <=> call.row = n
            BY <1>1, <1>3, <2>1, <3>1 DEF Busy
        <3>3. \A g \in Handlers :
                 requestCall'[g].row = i => requestCall'[g] = call /\ Suits(call, booking'[i])
            BY <1>1, <1>3, <2>1, <3>1
        <3>4. \A g \in Handlers : (requestCall[g].row = i => Suits(requestCall[g], booking[i]))'
            BY <3>3 DEF Suits, Stands
        <3>5. (~Busy(i) => Stands(booking[i]))'
            BY <1>3, <2>1, <3>2 DEF Stands
        <3>6. QED
            BY <3>1, <3>4, <3>5 DEF Story
    <2>2. CASE i # n
        <3>1. i \in DOMAIN booking /\ booking'[i] = booking[i] /\ Story(i)
            BY <1>3, <2>2 DEF RequestsInv, Stories, Smooth
        <3>2. requestCall[h].row # i /\ requestCall'[h].row # i
            BY <1>1, <1>3, <2>2
        <3>3. \A g \in Handlers : requestCall'[g].row = i <=> requestCall[g].row = i
            BY <1>1, <3>2
        <3>4. \A g \in Handlers : requestCall'[g].row = i => requestCall'[g] = requestCall[g]
            BY <1>1, <3>2
        <3>5. (~Busy(i) => Stands(booking[i]))'
            BY <3>1, <3>3 DEF Story, Busy, Stands
        <3>6. \A g \in Handlers : (requestCall[g].row = i => Suits(requestCall[g], booking[i]))'
            BY <3>1, <3>3, <3>4 DEF Story, Suits, Stands
        <3>7. QED
            BY <3>1, <3>3, <3>5, <3>6 DEF Story
    <2>3. QED
        BY <2>1, <2>2
<1>4. QED
    BY <1>1, <1>2, <1>3 DEF RequestCallsFit, Stories, Smooth

\* Nobody is answered.
LEMMA AnswersStay ==
    ASSUME RequestsInv, UNCHANGED answers, \A key \in Keys : BookingsOf(key)' = BookingsOf(key)
    PROVE  AnswersFit'
BY DEF RequestsInv, AnswersFit

\* A booking of the key is shown to who sent it.
LEMMA AnswersGrow ==
    ASSUME RequestsInv, NEW key \in Keys \cup {None}, NEW i \in BookingsOf(key), ShownBy(key, i),
           \A k \in Keys : BookingsOf(k)' = BookingsOf(k)
    PROVE  answers' \in [Keys -> SUBSET (1 .. MaxBookings)] /\ AnswersFit'
<1>1. i \in 1 .. MaxBookings
    BY RequestTypes, RequestsAssumption DEF BookingsOf
<1>2. CASE key = None
    BY <1>2, RequestTypes DEF ShownBy, RequestsInv, AnswersFit
<1>3. CASE key # None
    <2>1. key \in Keys /\ answers' = [answers EXCEPT ![key] = @ \cup {i}]
        BY <1>3 DEF ShownBy
    <2>2. answers[key] \cup {i} \in SUBSET (1 .. MaxBookings)
        BY <1>1, <2>1, RequestTypes
    <2>3. QED
        BY <2>1, <2>2, RequestTypes DEF RequestsInv, AnswersFit
<1>4. QED
    BY <1>2, <1>3

\* One row changes and one handler that worked on it, or now does, moves on.
LEMMA RowStep ==
    ASSUME RequestsInv, NEW h \in Handlers, NEW n \in DOMAIN booking,
           NEW b \in Booking, NEW call \in RequestCall,
           b.key = booking[n].key, booking' = [booking EXCEPT ![n] = b],
           requestCall' = [requestCall EXCEPT ![h] = call],
           requestCall[h].row \in {0, n}, call.row \in {0, n},
           call.step \in {"idle", "insert"} <=> call.row = 0,
           call.row # 0 => b.key # None,
           call.step \in {"staff", "client"} => call.key \in Keys /\ b.key = call.key,
           call.step = "verdict" => call.verdict \in Decided,
           Smooth(b) => /\ \A g \in Handlers \ {h} : requestCall[g].row # n
                        /\ call.row = n => Suits(call, b)
                        /\ call.row # n => Stands(b)
    PROVE  /\ booking' \in Seq(Booking) /\ Len(booking') <= MaxBookings
           /\ requestCall' \in [Handlers -> RequestCall]
           /\ RequestCallsFit' /\ Stories' /\ KeysAreUnique'
           /\ \A key \in Keys : BookingsOf(key)' = BookingsOf(key)
<1>1. /\ booking' \in Seq(Booking) /\ Len(booking') = Len(booking)
      /\ DOMAIN booking' = DOMAIN booking /\ booking'[n] = b
      /\ \A i \in DOMAIN booking \ {n} : booking'[i] = booking[i]
      /\ RowsKept /\ KeysAreUnique'
      /\ \A key \in Keys : BookingsOf(key)' = BookingsOf(key)
    BY BookingRowChanges
<1>2. requestCall' \in [Handlers -> RequestCall] /\ RequestCallsFit' /\ Stories'
    BY <1>1, RequestCallMoves, RequestTypes
<1>3. QED
    BY <1>1, <1>2, RequestTypes

\* A row that is still smooth was; its only handler is the one that moves.
LEMMA OnlyOne ==
    ASSUME RequestsInv, NEW h \in Handlers, requestCall[h].row # 0,
           Smooth(booking[requestCall[h].row])
    PROVE  /\ \A g \in Handlers \ {h} : requestCall[g].row # requestCall[h].row
           /\ Suits(requestCall[h], booking[requestCall[h].row])
<1>1. requestCall[h].row \in DOMAIN booking
    BY RequestTypes DEF RequestCallFits
<1>2. QED
    BY <1>1 DEF RequestsInv, Stories, Story

-----------------------------------------------------------------------------
(* The steps.                                                              *)

LEMMA RequestsStart == RequestsInit => RequestsInv
<1> SUFFICES ASSUME RequestsInit PROVE RequestsInv
    OBVIOUS
<1>1. RequestsTypeOK
    BY NoRequestFits, RequestsAssumption DEF RequestsInit, RequestsTypeOK
<1>2. RequestCallsFit
    BY NoRequestFits DEF RequestsInit, RequestCallsFit, RequestCallFits
<1>3. Stories /\ KeysAreUnique /\ AnswersFit
    BY DEF RequestsInit, Stories, KeysAreUnique, AnswersFit
<1>4. QED
    BY <1>1, <1>2, <1>3 DEF RequestsInv

\* A call begins; it has no row yet.
LEMMA BeginsHolds ==
    ASSUME RequestsInv, NEW h \in Handlers, requestCall[h] = NoRequest,
           NEW call \in RequestCall, call.step = "insert", call.row = 0,
           requestCall' = [requestCall EXCEPT ![h] = call],
           UNCHANGED <<customer, booking, answers, reviews>>
    PROVE  RequestsInv'
<1>1. /\ booking' \in Seq(Booking) /\ Len(booking') <= MaxBookings
      /\ RowsKept /\ KeysAreUnique' /\ AnswersFit'
    BY RowsStay, AnswersStay
<1>2. requestCall[h].row = 0 /\ 0 \notin DOMAIN booking'
    BY NoRequestFits, RequestTypes
<1>3. requestCall' \in [Handlers -> RequestCall] /\ RequestCallsFit' /\ Stories'
    BY <1>1, <1>2, RequestCallMoves
<1>4. QED
    BY <1>1, <1>3, RequestTypes DEF RequestsInv, RequestsTypeOK

LEMMA CreateCustomerRequestHolds ==
    ASSUME RequestsInv, NEW h \in Handlers, NEW key \in Keys, CreateCustomerRequest(h, key)
    PROVE  RequestsInv'
<1>1. CASE BookingsOf(key) # {}
    <2>1. PICK i \in BookingsOf(key) : ShownBy(key, i)
        BY <1>1 DEF CreateCustomerRequest
    <2>2. UNCHANGED <<customer, booking, requestCall, reviews>>
        BY <1>1 DEF CreateCustomerRequest
    <2>3. \A k \in Keys : BookingsOf(k)' = BookingsOf(k)
        BY <2>2, RowsStay
    <2>4. answers' \in [Keys -> SUBSET (1 .. MaxBookings)] /\ AnswersFit'
        BY <2>1, <2>3, AnswersGrow
    <2>5. RequestCallsFit' /\ KeysAreUnique'
        BY <2>2 DEF RequestsInv, RequestCallsFit, RequestCallFits, KeysAreUnique
    <2>6. Stories'
        BY <2>2 DEF RequestsInv, Stories, Story, Smooth, Suits, Stands, Busy
    <2>7. QED
        BY <2>2, <2>4, <2>5, <2>6, RequestTypes DEF RequestsInv, RequestsTypeOK
<1>2. CASE BookingsOf(key) = {}
    <2> DEFINE call == [NoRequest EXCEPT !.step = "insert", !.key = key, !.knew = customer]
    <2>1. call \in RequestCall /\ call.step = "insert" /\ call.row = 0
        BY NoRequestFits, RequestTypes DEF RequestCall, NoRequest
    <2>2. /\ requestCall[h] = NoRequest
          /\ requestCall' = [requestCall EXCEPT ![h] = call]
          /\ UNCHANGED <<customer, booking, answers, reviews>>
        BY <1>2 DEF CreateCustomerRequest
    <2> HIDE DEF call
    <2>3. QED
        BY <2>1, <2>2, BeginsHolds
<1>3. QED
    BY <1>1, <1>2

LEMMA CreateBookingHolds ==
    ASSUME RequestsInv, NEW h \in Handlers, CreateBooking(h)
    PROVE  RequestsInv'
<1> DEFINE call == [NoRequest EXCEPT !.step = "insert", !.knew = customer]
<1>1. call \in RequestCall /\ call.step = "insert" /\ call.row = 0
    BY NoRequestFits, RequestTypes DEF RequestCall, NoRequest
<1>2. /\ requestCall[h] = NoRequest
      /\ requestCall' = [requestCall EXCEPT ![h] = call]
      /\ UNCHANGED <<customer, booking, answers, reviews>>
    BY DEF CreateBooking
<1> HIDE DEF call
<1>3. QED
    BY <1>1, <1>2, BeginsHolds

\* A handler ends; the row it worked on, if any, is left broken off.
LEMMA RequestFailsHolds ==
    ASSUME RequestsInv, NEW h \in Handlers, RequestFails(h)
    PROVE  RequestsInv'
<1> DEFINE n == requestCall[h].row
<1>1. requestCall' = [requestCall EXCEPT ![h] = NoRequest]
    BY DEF RequestFails, RequestEnds
<1>2. CASE n = 0
    <2>1. UNCHANGED <<customer, booking, answers, reviews>>
        BY <1>2 DEF RequestFails
    <2>2. /\ booking' \in Seq(Booking) /\ Len(booking') <= MaxBookings
          /\ RowsKept /\ KeysAreUnique' /\ AnswersFit'
        BY <2>1, RowsStay, AnswersStay
    <2>3. requestCall' \in [Handlers -> RequestCall] /\ RequestCallsFit' /\ Stories'
        BY <1>1, <1>2, <2>1, <2>2, NoRequestFits, RequestTypes, RequestCallMoves
    <2>4. QED
        BY <2>1, <2>2, <2>3, RequestTypes DEF RequestsInv, RequestsTypeOK
<1>3. CASE n # 0
    <2> DEFINE b == [booking[n] EXCEPT !.cut = TRUE]
    <2>1. n \in DOMAIN booking /\ booking[n] \in Booking
        BY <1>3, RequestTypes DEF RequestCallFits
    <2>2. b \in Booking /\ b.key = booking[n].key /\ b.cut
        BY <2>1 DEF Booking
    <2>3. booking' = [booking EXCEPT ![n] = b]
        BY <1>3 DEF RequestFails
    <2>4. PICK m \in DOMAIN booking : m = n
        BY <2>1
    <2>5. PICK c \in Booking : c = b
        BY <2>2
    <2>6. /\ booking' \in Seq(Booking) /\ Len(booking') <= MaxBookings
          /\ requestCall' \in [Handlers -> RequestCall]
          /\ RequestCallsFit' /\ Stories' /\ KeysAreUnique'
          /\ \A key \in Keys : BookingsOf(key)' = BookingsOf(key)
        <3>1. /\ booking' = [booking EXCEPT ![m] = c] /\ c.key = booking[m].key /\ c.cut
              /\ requestCall[h].row = m
            BY <2>2, <2>3, <2>4, <2>5
        <3>2. ~Smooth(c)
            BY <3>1 DEF Smooth
        <3> HIDE DEF b, n
        <3>3. QED
            BY <1>1, <3>1, <3>2, NoRequestFits, RowStep
    <2>7. UNCHANGED <<customer, answers, reviews>>
        BY DEF RequestFails
    <2>8. QED
        BY <2>6, <2>7, AnswersStay, RequestTypes DEF RequestsInv, RequestsTypeOK
<1>4. QED
    BY <1>2, <1>3

LEMMA TellStaffHolds ==
    ASSUME RequestsInv, NEW h \in Handlers, TellStaff(h)
    PROVE  RequestsInv'
<1>1. requestCall[h] \in RequestCall /\ RequestCallFits(requestCall[h])
      /\ requestCall[h].step = "staff"
    BY RequestTypes DEF TellStaff
<1>2. PICK n \in DOMAIN booking : n = requestCall[h].row
    BY <1>1 DEF RequestCallFits
<1>3. booking[n] \in Booking
    BY RequestTypes
<1>4. PICK b \in Booking : b = [booking[n] EXCEPT !.staffTold = TRUE]
    BY <1>3 DEF Booking
<1>5. PICK call \in RequestCall : call = [requestCall[h] EXCEPT !.step = "client"]
    BY <1>1 DEF RequestCall
<1>6. /\ b.key = booking[n].key /\ b.status = booking[n].status
      /\ b.notes = booking[n].notes /\ b.noted = booking[n].noted /\ b.staffTold
      /\ b.overlapped = booking[n].overlapped /\ b.cut = booking[n].cut
    BY <1>3, <1>4 DEF Booking
<1>7. call.step = "client" /\ call.row = n /\ call.key = requestCall[h].key
    BY <1>1, <1>2, <1>5 DEF RequestCall
<1>8. /\ booking' = [booking EXCEPT ![n] = b]
      /\ requestCall' = [requestCall EXCEPT ![h] = call]
      /\ UNCHANGED <<customer, answers, reviews>>
    BY <1>2, <1>4, <1>5 DEF TellStaff, RequestGoes
<1>9. b.key # None /\ call.key \in Keys /\ b.key = call.key /\ n # 0
    BY <1>1, <1>2, <1>6, <1>7, RequestTypes DEF RequestCallFits
<1>10. ASSUME Smooth(b)
       PROVE  (\A g \in Handlers \ {h} : requestCall[g].row # n) /\ Suits(call, b)
    <2>1. Smooth(booking[n])
        BY <1>6, <1>10 DEF Smooth
    <2>2. (\A g \in Handlers \ {h} : requestCall[g].row # n) /\ Suits(requestCall[h], booking[n])
        BY <1>2, <1>9, <2>1, OnlyOne
    <2>3. Suits(call, b)
        BY <1>1, <1>6, <1>7, <2>2 DEF Suits
    <2>4. QED
        BY <2>2, <2>3
<1>11. /\ booking' \in Seq(Booking) /\ Len(booking') <= MaxBookings
       /\ requestCall' \in [Handlers -> RequestCall]
       /\ RequestCallsFit' /\ Stories' /\ KeysAreUnique'
       /\ \A key \in Keys : BookingsOf(key)' = BookingsOf(key)
    BY <1>2, <1>6, <1>7, <1>8, <1>9, <1>10, RowStep
<1>12. QED
    BY <1>8, <1>11, AnswersStay, RequestTypes DEF RequestsInv, RequestsTypeOK

LEMMA TellReceiptHolds ==
    ASSUME RequestsInv, NEW h \in Handlers, TellReceipt(h)
    PROVE  RequestsInv'
<1>1. requestCall[h] \in RequestCall /\ RequestCallFits(requestCall[h])
      /\ requestCall[h].step = "client"
    BY RequestTypes DEF TellReceipt
<1>2. PICK n \in DOMAIN booking : n = requestCall[h].row
    BY <1>1 DEF RequestCallFits
<1>3. booking[n] \in Booking
    BY RequestTypes
<1>4. PICK b \in Booking : b = [booking[n] EXCEPT !.told = "received"]
    BY <1>3 DEF Booking
<1>5. /\ b.key = booking[n].key /\ b.status = booking[n].status /\ b.told = "received"
      /\ b.notes = booking[n].notes /\ b.noted = booking[n].noted
      /\ b.staffTold = booking[n].staffTold
      /\ b.overlapped = booking[n].overlapped /\ b.cut = booking[n].cut
    BY <1>3, <1>4 DEF Booking
<1>6. /\ booking' = [booking EXCEPT ![n] = b]
      /\ requestCall' = [requestCall EXCEPT ![h] = NoRequest]
      /\ ShownBy(requestCall[h].key, n)
      /\ UNCHANGED <<customer, reviews>>
    BY <1>2, <1>4 DEF TellReceipt, RequestEnds
<1>7. n # 0 /\ requestCall[h].key \in Keys /\ n \in BookingsOf(requestCall[h].key)
    BY <1>1, <1>2, RequestTypes DEF RequestCallFits, BookingsOf
<1>8. ASSUME Smooth(b)
      PROVE  (\A g \in Handlers \ {h} : requestCall[g].row # n) /\ Stands(b)
    <2>1. Smooth(booking[n])
        BY <1>5, <1>8 DEF Smooth
    <2>2. (\A g \in Handlers \ {h} : requestCall[g].row # n) /\ Suits(requestCall[h], booking[n])
        BY <1>2, <1>7, <2>1, OnlyOne
    <2>3. Stands(b)
        BY <1>1, <1>5, <2>2 DEF Suits, Stands, Decided
    <2>4. QED
        BY <2>2, <2>3
<1>9. /\ booking' \in Seq(Booking) /\ Len(booking') <= MaxBookings
      /\ requestCall' \in [Handlers -> RequestCall]
      /\ RequestCallsFit' /\ Stories' /\ KeysAreUnique'
      /\ \A key \in Keys : BookingsOf(key)' = BookingsOf(key)
    BY <1>2, <1>5, <1>6, <1>7, <1>8, NoRequestFits, RowStep
<1>10. answers' \in [Keys -> SUBSET (1 .. MaxBookings)] /\ AnswersFit'
    BY <1>6, <1>7, <1>9, AnswersGrow
<1>11. QED
    BY <1>6, <1>9, <1>10, RequestTypes DEF RequestsInv, RequestsTypeOK

\* The transaction of a request. Only a free key gets by the unique index.
LEMMA InsertBookingHolds ==
    ASSUME RequestsInv, NEW h \in Handlers, InsertBooking(h)
    PROVE  RequestsInv'
<1>1. /\ requestCall[h] \in RequestCall /\ requestCall[h].step = "insert"
      /\ requestCall[h].row = 0
      /\ Len(booking) < MaxBookings /\ UNCHANGED <<answers, reviews>>
    BY RequestTypes DEF InsertBooking, RequestCallFits
<1>2. CASE UNCHANGED <<customer, booking>> /\ RequestEnds(h)
    <2>1. /\ booking' \in Seq(Booking) /\ Len(booking') <= MaxBookings
          /\ RowsKept /\ KeysAreUnique' /\ AnswersFit'
        BY <1>1, <1>2, RowsStay, AnswersStay
    <2>2. requestCall' \in [Handlers -> RequestCall] /\ RequestCallsFit' /\ Stories'
        BY <1>1, <1>2, <2>1, NoRequestFits, RequestTypes, RequestCallMoves DEF RequestEnds
    <2>3. QED
        BY <1>1, <1>2, <2>1, <2>2, RequestTypes DEF RequestsInv, RequestsTypeOK
<1>3. CASE ~(UNCHANGED <<customer, booking>> /\ RequestEnds(h))
    <2>1. PICK key \in Keys \cup {None} : key = requestCall[h].key
        BY <1>1 DEF RequestCall
    <2>2. PICK b : b = NewBooking(key)
        OBVIOUS
    <2>3. /\ b \in Booking /\ b.key = key /\ b.notes = b.noted
          /\ key # None => b.status = "pending"
        BY <2>2 DEF NewBooking, Booking, Verdicts, Decided
    <2>4. /\ customer' = TRUE /\ booking' = Append(booking, b)
          /\ key = None \/ BookingsOf(key) = {}
          /\ IF key = None THEN RequestEnds(h)
             ELSE requestCall' = [requestCall EXCEPT
                      ![h].step = "staff", ![h].row = Len(booking')]
        BY <1>3, <2>1, <2>2 DEF InsertBooking, KeyIsFree
    <2>5. PICK n : n = Len(booking) + 1
        OBVIOUS
    <2>6. /\ booking' \in Seq(Booking) /\ Len(booking') = n /\ n \in 1 .. MaxBookings
          /\ DOMAIN booking' = DOMAIN booking \cup {n} /\ n \notin DOMAIN booking
          /\ booking'[n] = b /\ \A i \in DOMAIN booking : booking'[i] = booking[i]
        BY <1>1, <2>3, <2>4, <2>5, RequestTypes, RequestsAssumption
    <2>7. RowsKept
        BY <2>6 DEF RowsKept
    <2>8. PICK call \in RequestCall :
              /\ call = IF key = None THEN NoRequest
                        ELSE [requestCall[h] EXCEPT !.step = "staff", !.row = n]
              /\ key # None => call.step = "staff" /\ call.row = n /\ call.key = key
              /\ key = None => call.step = "idle" /\ call.row = 0
        <3>1. CASE key = None
            BY <3>1, NoRequestFits
        <3>2. CASE key # None
            <4> DEFINE moved == [requestCall[h] EXCEPT !.step = "staff", !.row = n]
            <4>1. n \in 0 .. MaxBookings
                BY <2>6
            <4>2. moved \in RequestCall
                BY <1>1, <4>1 DEF RequestCall
            <4>3. moved.step = "staff" /\ moved.row = n /\ moved.key = key
                BY <1>1, <2>1 DEF RequestCall
            <4> HIDE DEF moved
            <4>4. moved = IF key = None THEN NoRequest
                          ELSE [requestCall[h] EXCEPT !.step = "staff", !.row = n]
                BY <3>2 DEF moved
            <4>5. QED
                BY <3>2, <4>2, <4>3, <4>4
        <3>3. QED
            BY <3>1, <3>2
    <2>9. requestCall' = [requestCall EXCEPT ![h] = call]
        BY <2>4, <2>6, <2>8, RequestTypes DEF RequestEnds
    <2>10. \A g \in Handlers : requestCall[g].row # n
        BY <2>6, RequestTypes DEF RequestCallFits
    <2>11. key # None => Suits(call, b)
        BY <2>3, <2>8 DEF Suits
    <2>12. requestCall' \in [Handlers -> RequestCall] /\ RequestCallsFit' /\ Stories'
        <3>1. n \in DOMAIN booking' /\ 0 \notin DOMAIN booking' /\ n # 0
            BY <2>6, RequestTypes
        <3>2. Smooth(booking'[n]) =>
                 /\ \A g \in Handlers \ {h} : requestCall[g].row # n
                 /\ call.row = n => Suits(call, booking'[n])
                 /\ call.row # n => Stands(booking'[n])
            BY <2>3, <2>6, <2>8, <2>10, <2>11 DEF Smooth
        <3>3. QED
            BY <1>1, <2>1, <2>3, <2>6, <2>7, <2>8, <2>9, <3>1, <3>2, RequestCallMoves
    <2>13. KeysAreUnique'
        BY <2>3, <2>4, <2>6, RequestsAssumption DEF RequestsInv, KeysAreUnique, BookingsOf
    <2>14. \A k \in Keys : BookingsOf(k) \subseteq BookingsOf(k)'
        BY <2>6 DEF BookingsOf
    <2>15. AnswersFit'
        BY <1>1, <2>14 DEF RequestsInv, AnswersFit
    <2>16. QED
        BY <1>1, <2>4, <2>6, <2>12, <2>13, <2>15, RequestTypes DEF RequestsInv, RequestsTypeOK
<1>4. QED
    BY <1>2, <1>3

\* A review that finds another call at work marks the row.
LEMMA ReviewHolds ==
    ASSUME RequestsInv, NEW h \in Handlers, NEW n \in DOMAIN booking, NEW verdict \in Verdicts,
           NEW note \in 0 .. 1, ReviewCustomerRequest(h, n, verdict, note)
    PROVE  RequestsInv'
<1>1. booking[n] \in Booking /\ booking[n].key # None /\ n # 0
      /\ requestCall[h].row = 0 /\ Busy(n) \in BOOLEAN
    BY RequestTypes, NoRequestFits DEF ReviewCustomerRequest, Busy
<1>2. PICK b \in Booking : b = [booking[n] EXCEPT !.overlapped = @ \/ Busy(n)]
    BY <1>1 DEF Booking
<1>3. /\ b.key = booking[n].key /\ b.status = booking[n].status /\ b.told = booking[n].told
      /\ b.notes = booking[n].notes /\ b.noted = booking[n].noted
      /\ b.staffTold = booking[n].staffTold /\ b.cut = booking[n].cut
      /\ b.overlapped = (booking[n].overlapped \/ Busy(n))
    BY <1>1, <1>2 DEF Booking
<1>4. booking[n].notes \in Nat /\ n \in 0 .. MaxBookings
    BY <1>1, RequestTypes, RequestsAssumption DEF Booking
<1>5. PICK call \in RequestCall :
          call = [NoRequest EXCEPT !.step = "review", !.row = n, !.verdict = verdict,
                                   !.notes = booking[n].notes, !.note = note]
    BY <1>4, NoRequestFits DEF RequestCall
<1>6. call.step = "review" /\ call.row = n /\ call.notes = booking[n].notes
    BY <1>5 DEF NoRequest
<1>7. /\ booking' = [booking EXCEPT ![n] = b]
      /\ requestCall' = [requestCall EXCEPT ![h] = call]
      /\ UNCHANGED <<customer, answers>>
    BY <1>2, <1>5 DEF ReviewCustomerRequest
<1>8. reviews' \in 0 .. MaxReviews
    BY RequestTypes, RequestsAssumption DEF ReviewCustomerRequest
<1>9. ASSUME Smooth(b)
      PROVE  (\A g \in Handlers \ {h} : requestCall[g].row # n) /\ Suits(call, b)
    <2>1. Smooth(booking[n]) /\ ~Busy(n)
        BY <1>3, <1>9 DEF Smooth
    <2>2. Stands(booking[n])
        BY <2>1 DEF RequestsInv, Stories, Story
    <2>3. Suits(call, b)
        BY <1>3, <1>6, <2>2 DEF Suits, Stands
    <2>4. QED
        BY <2>1, <2>3 DEF Busy
<1>10. /\ booking' \in Seq(Booking) /\ Len(booking') <= MaxBookings
       /\ requestCall' \in [Handlers -> RequestCall]
       /\ RequestCallsFit' /\ Stories' /\ KeysAreUnique'
       /\ \A key \in Keys : BookingsOf(key)' = BookingsOf(key)
    BY <1>1, <1>3, <1>6, <1>7, <1>9, RowStep
<1>11. QED
    BY <1>7, <1>8, <1>10, AnswersStay, RequestTypes DEF RequestsInv, RequestsTypeOK

LEMMA WriteReviewHolds ==
    ASSUME RequestsInv, NEW h \in Handlers, WriteReview(h)
    PROVE  RequestsInv'
<1>1. PICK old \in RequestCall : old = requestCall[h]
    BY RequestTypes
<1>2. RequestCallFits(old) /\ old.step = "review"
    BY <1>1, RequestTypes DEF WriteReview
<1>3. PICK n \in DOMAIN booking : n = old.row
    BY <1>2 DEF RequestCallFits
<1>4. booking[n] \in Booking /\ booking[n].key # None /\ n # 0
    BY <1>2, <1>3, RequestTypes DEF RequestCallFits
<1>5. /\ old.verdict \in Verdicts /\ old.note \in {0, 1} /\ old.notes \in Nat
      /\ booking[n].noted \in Nat /\ booking[n].notes \in Nat
    BY <1>1, <1>4 DEF RequestCall, Booking
<1> DEFINE notes == IF old.note = 0 THEN booking[n].notes ELSE old.notes + 1
<1>6. notes \in Nat /\ booking[n].noted + old.note \in Nat
    BY <1>5
<1>7. PICK b \in Booking :
          b = [booking[n] EXCEPT !.status = old.verdict, !.notes = notes,
                                 !.noted = booking[n].noted + old.note]
    BY <1>4, <1>5, <1>6 DEF Booking
<1>8. /\ b.key = booking[n].key /\ b.status = old.verdict /\ b.notes = notes
      /\ b.noted = booking[n].noted + old.note /\ b.told = booking[n].told
      /\ b.staffTold = booking[n].staffTold /\ b.cut = booking[n].cut
      /\ b.overlapped = booking[n].overlapped
    BY <1>4, <1>7 DEF Booking
<1>9. booking' = [booking EXCEPT ![n] = b] /\ UNCHANGED <<customer, answers, reviews>>
    BY <1>1, <1>3, <1>7 DEF WriteReview
<1>10. ASSUME Smooth(b)
       PROVE  /\ \A g \in Handlers \ {h} : requestCall[g].row # n
              /\ b.staffTold /\ b.notes = b.noted
    <2>1. Smooth(booking[n])
        BY <1>8, <1>10 DEF Smooth
    <2>2. (\A g \in Handlers \ {h} : requestCall[g].row # n) /\ Suits(old, booking[n])
        BY <1>1, <1>3, <1>4, <2>1, OnlyOne
    <2>3. old.notes = booking[n].notes /\ booking[n].notes = booking[n].noted
          /\ booking[n].staffTold
        BY <1>2, <2>2 DEF Suits
    <2>4. b.notes = b.noted
        BY <1>5, <1>8, <2>3
    <2>5. QED
        BY <1>8, <2>2, <2>3, <2>4
<1>11. /\ booking' \in Seq(Booking) /\ Len(booking') <= MaxBookings
       /\ requestCall' \in [Handlers -> RequestCall]
       /\ RequestCallsFit' /\ Stories' /\ KeysAreUnique'
       /\ \A key \in Keys : BookingsOf(key)' = BookingsOf(key)
    <2>1. CASE old.verdict \in Decided
        <3>1. PICK call \in RequestCall : call = [old EXCEPT !.step = "verdict"]
            BY DEF RequestCall
        <3>2. call.step = "verdict" /\ call.row = n /\ call.verdict = old.verdict
            BY <1>3, <3>1 DEF RequestCall
        <3>3. requestCall' = [requestCall EXCEPT ![h] = call]
            BY <1>1, <2>1, <3>1 DEF WriteReview, RequestGoes
        <3>4. Smooth(b) => Suits(call, b)
            BY <1>8, <1>10, <3>2 DEF Suits
        <3>5. QED
            BY <1>1, <1>3, <1>4, <1>8, <1>9, <1>10, <2>1, <3>2, <3>3, <3>4, RowStep
    <2>2. CASE old.verdict \notin Decided
        <3>1. requestCall' = [requestCall EXCEPT ![h] = NoRequest]
            BY <1>1, <2>2 DEF WriteReview, RequestEnds
        <3>2. b.status # "pending" /\ b.status \notin Decided
            BY <1>5, <1>8, <2>2 DEF Verdicts, Decided
        <3>3. Smooth(b) => Stands(b)
            BY <1>10, <3>2 DEF Stands
        <3>4. QED
            BY <1>1, <1>3, <1>4, <1>8, <1>9, <1>10, <3>1, <3>3, NoRequestFits, RowStep
    <2>3. QED
        BY <2>1, <2>2
<1>12. QED
    BY <1>9, <1>11, AnswersStay, RequestTypes DEF RequestsInv, RequestsTypeOK

LEMMA TellVerdictHolds ==
    ASSUME RequestsInv, NEW h \in Handlers, TellVerdict(h)
    PROVE  RequestsInv'
<1>1. PICK old \in RequestCall : old = requestCall[h]
    BY RequestTypes
<1>2. RequestCallFits(old) /\ old.step = "verdict" /\ old.verdict \in Decided
    BY <1>1, RequestTypes DEF TellVerdict, RequestCallFits
<1>3. PICK n \in DOMAIN booking : n = old.row
    BY <1>2 DEF RequestCallFits
<1>4. booking[n] \in Booking /\ n # 0
    BY RequestTypes
<1>5. PICK b \in Booking : b = [booking[n] EXCEPT !.told = old.verdict]
    BY <1>2, <1>4 DEF Booking
<1>6. /\ b.key = booking[n].key /\ b.status = booking[n].status /\ b.told = old.verdict
      /\ b.notes = booking[n].notes /\ b.noted = booking[n].noted
      /\ b.staffTold = booking[n].staffTold /\ b.cut = booking[n].cut
      /\ b.overlapped = booking[n].overlapped
    BY <1>4, <1>5 DEF Booking
<1>7. /\ booking' = [booking EXCEPT ![n] = b]
      /\ requestCall' = [requestCall EXCEPT ![h] = NoRequest]
      /\ UNCHANGED <<customer, answers, reviews>>
    BY <1>1, <1>3, <1>5 DEF TellVerdict, News, RequestEnds
<1>8. ASSUME Smooth(b)
      PROVE  (\A g \in Handlers \ {h} : requestCall[g].row # n) /\ Stands(b)
    <2>1. Smooth(booking[n])
        BY <1>6, <1>8 DEF Smooth
    <2>2. (\A g \in Handlers \ {h} : requestCall[g].row # n) /\ Suits(old, booking[n])
        BY <1>1, <1>3, <1>4, <2>1, OnlyOne
    <2>3. Stands(b)
        BY <1>2, <1>6, <2>2 DEF Suits, Stands, Decided
    <2>4. QED
        BY <2>2, <2>3
<1>9. /\ booking' \in Seq(Booking) /\ Len(booking') <= MaxBookings
      /\ requestCall' \in [Handlers -> RequestCall]
      /\ RequestCallsFit' /\ Stories' /\ KeysAreUnique'
      /\ \A key \in Keys : BookingsOf(key)' = BookingsOf(key)
    BY <1>1, <1>3, <1>4, <1>6, <1>7, <1>8, NoRequestFits, RowStep
<1>10. QED
    BY <1>7, <1>9, AnswersStay, RequestTypes DEF RequestsInv, RequestsTypeOK

LEMMA UpdateNotesHolds ==
    ASSUME RequestsInv, NEW n \in DOMAIN booking, UpdateNotes(n)
    PROVE  RequestsInv'
<1>1. booking[n] \in Booking /\ Busy(n) \in BOOLEAN
    BY RequestTypes DEF Busy
<1>2. PICK b \in Booking : b = [booking[n] EXCEPT !.notes = 0, !.noted = 0,
                                                  !.overlapped = @ \/ Busy(n)]
    BY <1>1 DEF Booking
<1>3. /\ b.key = booking[n].key /\ b.status = booking[n].status /\ b.told = booking[n].told
      /\ b.notes = b.noted /\ b.staffTold = booking[n].staffTold
      /\ b.cut = booking[n].cut /\ b.overlapped = (booking[n].overlapped \/ Busy(n))
    BY <1>1, <1>2 DEF Booking
<1>4. booking' = [booking EXCEPT ![n] = b]
      /\ UNCHANGED <<customer, requestCall, answers, reviews>>
    BY <1>2 DEF UpdateNotes
<1>5. /\ booking' \in Seq(Booking) /\ Len(booking') = Len(booking)
      /\ DOMAIN booking' = DOMAIN booking /\ booking'[n] = b
      /\ \A i \in DOMAIN booking \ {n} : booking'[i] = booking[i]
      /\ RowsKept /\ KeysAreUnique'
      /\ \A key \in Keys : BookingsOf(key)' = BookingsOf(key)
    BY <1>3, <1>4, BookingRowChanges
<1>6. RequestCallsFit'
    BY <1>4, <1>5, RequestTypes DEF RequestCallsFit, RequestCallFits, RowsKept
<1>7. ASSUME NEW i \in DOMAIN booking', Smooth(booking'[i])
      PROVE  Story(i)'
    <2>1. CASE i = n
        <3>1. Smooth(booking[n]) /\ ~Busy(n)
            BY <1>3, <1>5, <1>7, <2>1 DEF Smooth
        <3>2. Stands(booking[n])
            BY <3>1 DEF RequestsInv, Stories, Story
        <3>3. b.staffTold /\ (b.status = "pending" => b.told = "received")
              /\ (b.status \in Decided => b.told = b.status)
            BY <1>3, <3>2 DEF Stands
        <3>4. Stands(booking[i])'
            BY <1>3, <1>5, <2>1, <3>3 DEF Stands
        <3>5. \A g \in Handlers : requestCall'[g].row # i
            BY <1>4, <2>1, <3>1 DEF Busy
        <3>6. QED
            BY <3>4, <3>5 DEF Story
    <2>2. CASE i # n
        <3>1. i \in DOMAIN booking /\ booking'[i] = booking[i] /\ Story(i)
            BY <1>5, <1>7, <2>2 DEF RequestsInv, Stories
        <3>2. QED
            BY <1>4, <3>1 DEF Story, Suits, Stands, Busy
    <2>3. QED
        BY <2>1, <2>2
<1>8. Stories'
    BY <1>7 DEF Stories, Smooth
<1>9. QED
    BY <1>4, <1>5, <1>6, <1>8, AnswersStay, RequestTypes DEF RequestsInv, RequestsTypeOK

LEMMA RequestsSteps == ASSUME RequestsInv, [RequestsNext]_requestsVars PROVE RequestsInv'
<1>1. CASE UNCHANGED requestsVars
    <2>1. UNCHANGED <<customer, booking, requestCall, answers, reviews>>
        BY <1>1 DEF requestsVars
    <2>2. RequestsTypeOK' /\ RequestCallsFit' /\ KeysAreUnique' /\ AnswersFit'
        BY <2>1 DEF RequestsInv, RequestsTypeOK, RequestCallsFit, RequestCallFits,
           KeysAreUnique, AnswersFit, BookingsOf
    <2>3. Stories'
        BY <2>1 DEF RequestsInv, Stories, Story, Smooth, Suits, Stands, Busy
    <2>4. QED
        BY <2>2, <2>3 DEF RequestsInv
<1>2. ASSUME NEW h \in Handlers, NEW key \in Keys, CreateCustomerRequest(h, key)
      PROVE  RequestsInv'
    BY <1>2, CreateCustomerRequestHolds
<1>3. ASSUME NEW h \in Handlers,
             \/ CreateBooking(h)
             \/ InsertBooking(h)
             \/ TellStaff(h)
             \/ TellReceipt(h)
      PROVE  RequestsInv'
    BY <1>3, CreateBookingHolds, InsertBookingHolds, TellStaffHolds, TellReceiptHolds
<1>4. ASSUME NEW h \in Handlers, NEW i \in DOMAIN booking, NEW verdict \in Verdicts,
             NEW note \in 0 .. 1, ReviewCustomerRequest(h, i, verdict, note)
      PROVE  RequestsInv'
    BY <1>4, ReviewHolds
<1>5. ASSUME NEW h \in Handlers, WriteReview(h) \/ TellVerdict(h) \/ RequestFails(h)
      PROVE  RequestsInv'
    BY <1>5, WriteReviewHolds, TellVerdictHolds, RequestFailsHolds
<1>6. ASSUME NEW i \in DOMAIN booking, UpdateNotes(i)
      PROVE  RequestsInv'
    BY <1>6, UpdateNotesHolds
<1>7. QED
    BY <1>1, <1>2, <1>3, <1>4, <1>5, <1>6 DEF RequestsNext

-----------------------------------------------------------------------------
(* Theorems.                                                               *)

\* The invariant holds of every behaviour: createCustomerRequest, createBooking,
\* reviewCustomerRequest and updateBooking in any order, from any number of requests
\* at once, each of which may break off.
THEOREM RequestsInvariance == RequestsSpec => []RequestsInv
<1>1. RequestsInv /\ [RequestsNext]_requestsVars => RequestsInv'
    BY RequestsSteps
<1>2. QED
    BY RequestsStart, <1>1, PTL DEF RequestsSpec

\* The rows of bookings, and the calls about them, keep their form.
THEOREM RequestsTypeCorrect == RequestsSpec => []RequestsTypeOK
<1>1. RequestsInv => RequestsTypeOK
    BY DEF RequestsInv
<1>2. QED
    BY RequestsInvariance, <1>1, PTL

\* createCustomerRequest makes one booking for an idempotency key, however often and
\* however concurrently it is sent, and every answer shows that booking.
THEOREM KeysBookOnce == RequestsSpec => []OneBookingPerKey
<1>1. RequestsInv => OneBookingPerKey
    <2> SUFFICES ASSUME RequestsInv, NEW key \in Keys
                 PROVE  /\ Cardinality(BookingsOf(key)) <= 1
                        /\ answers[key] \subseteq BookingsOf(key)
        BY DEF OneBookingPerKey
    <2>1. CASE BookingsOf(key) = {}
        BY <2>1, FS_EmptySet DEF RequestsInv, AnswersFit
    <2>2. CASE BookingsOf(key) # {}
        <3>1. PICK i : i \in BookingsOf(key)
            BY <2>2
        <3>2. BookingsOf(key) = {i}
            BY <3>1, RequestsAssumption DEF RequestsInv, KeysAreUnique, BookingsOf
        <3>3. Cardinality(BookingsOf(key)) = 1
            BY <3>2, FS_Singleton
        <3>4. QED
            BY <3>3 DEF RequestsInv, AnswersFit
    <2>3. QED
        BY <2>1, <2>2
<1>2. QED
    BY RequestsInvariance, <1>1, PTL

\* Where no two calls about a request overlapped and none broke off, the last message
\* of reviewCustomerRequest tells the customer what stands, staff have heard of the
\* request, and internalNotes holds every reviewer's note.
THEOREM ReviewsAreKept == RequestsSpec => []ReviewsStand
<1>1. RequestsInv => ReviewsStand
    BY DEF RequestsInv, Stories, Story, Smooth, Stands, Settled, ReviewsStand
<1>2. QED
    BY RequestsInvariance, <1>1, PTL
=============================================================================

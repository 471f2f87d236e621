--------------------------- MODULE BackOfficeProofs ---------------------------
(***************************************************************************)
(* Proofs about the desk's own work: reviews and SOS alerts (Feedback),    *)
(* the bookings with a vendor and the import of master data (Catalogue),   *)
(* the cards (Dashboard) and the drivers' map (Positions).                 *)
(***************************************************************************)
EXTENDS Catalogue, Feedback, Dashboard, Positions, FunctionTheorems, FiniteSetTheorems,
        SequenceTheorems, TLAPS

-----------------------------------------------------------------------------
(* Reviews.                                                                *)

\* A transaction's record has its fields; the average is whatever Total yields.
ReviewTxOf(Any) == [step: Any, trip: Any, stars: Any, sum: Any, count: Any, alone: Any]
IsReviewTx(tx) == \E Any : tx \in ReviewTxOf(Any)

ReviewShape ==
    /\ reviewTx = [h \in Handlers |-> reviewTx[h]]
    /\ \A h \in Handlers : IsReviewTx(reviewTx[h])

\* A transaction that no other overlaps has averaged what its commit leaves.
AveragedAlone(h) ==
    InTx(h) /\ reviewTx[h].alone =>
        LET seen == SeenReviews(reviewTx[h].trip, reviewTx[h].stars)
        IN /\ \A g \in Handlers \ {h} : ~InTx(g)
           /\ reviewTx[h].sum = Total(seen)
           /\ reviewTx[h].count = Cardinality(Rated(seen))

ReviewInv ==
    /\ ReviewShape
    /\ \A h \in Handlers : AveragedAlone(h)
    /\ RatingIsTheAverage

LEMMA NoReviewTxShape == IsReviewTx(NoReviewTx) /\ NoReviewTx.step = "idle"
<1>1. NoReviewTx \in ReviewTxOf({"idle", None, 0, TRUE})
    BY DEF NoReviewTx, ReviewTxOf
<1>2. QED
    BY <1>1 DEF IsReviewTx, NoReviewTx

LEMMA OverlappedShape ==
    ASSUME NEW tx, IsReviewTx(tx), NEW new, new = [tx EXCEPT !.alone = FALSE]
    PROVE  IsReviewTx(new) /\ ~new.alone
<1>1. PICK Any : tx \in ReviewTxOf(Any)
    BY DEF IsReviewTx
<1>2. new \in ReviewTxOf(Any \cup {FALSE})
    BY <1>1 DEF ReviewTxOf
<1>3. IsReviewTx(new)
    BY <1>2 DEF IsReviewTx
<1>4. QED
    BY <1>1, <1>3 DEF ReviewTxOf

\* Nobody has reviewed: the fold over no trips is its base.
LEMMA NoReviewsNoStars ==
    /\ Total([t \in Trips |-> None]) = 0
    /\ Cardinality(Rated([t \in Trips |-> None])) = 0
<1> DEFINE r == [t \in Trips |-> None]
           IsFold(f) == f = [s \in SUBSET {} |->
                                IF s = {} THEN 0
                                ELSE LET x == CHOOSE x \in s : TRUE
                                     IN f[s \ {x}] + r[x]]
<1>1. Rated(r) = {}
    BY DEF Rated
<1>2. \E f : IsFold(f)
    <2>1. IsFold([s \in SUBSET {} |-> 0])
        OBVIOUS
    <2>2. QED
        BY <2>1
<1>3. IsFold(CHOOSE f : IsFold(f))
    BY <1>2
<1>4. (CHOOSE f : IsFold(f))[{}] = 0
    BY <1>3
<1>5. FoldSet(LAMBDA t, n : n + r[t], 0, {}) = 0
    BY <1>4 DEF FoldSet, MapThenFoldSet
<1>6. QED
    BY <1>1, <1>5, FS_EmptySet DEF Total

LEMMA ReviewsStart == FeedbackInit => ReviewInv
<1> SUFFICES ASSUME FeedbackInit PROVE ReviewInv
    OBVIOUS
<1>1. ReviewShape
    BY NoReviewTxShape DEF FeedbackInit, ReviewShape
<1>2. \A h \in Handlers : ~InTx(h)
    BY DEF FeedbackInit, InTx, NoReviewTx
<1>3. RatingIsTheAverage
    BY NoReviewsNoStars DEF FeedbackInit, RatingIsTheAverage
<1>4. QED
    BY <1>1, <1>2, <1>3 DEF ReviewInv, AveragedAlone

\* A step that replaces one transaction's record and no review.
LEMMA ReviewTxStep ==
    ASSUME ReviewInv, NEW h \in Handlers, NEW tx, IsReviewTx(tx),
           tx.step # "averaged",
           reviewTx' = [reviewTx EXCEPT ![h] = tx], UNCHANGED <<review, profile>>
    PROVE  ReviewInv'
<1>1. reviewTx'[h] = tx /\ \A g \in Handlers \ {h} : reviewTx'[g] = reviewTx[g]
    BY DEF ReviewInv, ReviewShape
<1>2. ReviewShape'
    BY <1>1 DEF ReviewInv, ReviewShape
<1>3. ASSUME NEW g \in Handlers PROVE AveragedAlone(g)'
    BY <1>1 DEF ReviewInv, AveragedAlone, InTx, SeenReviews
<1>4. RatingIsTheAverage'
    BY DEF ReviewInv, RatingIsTheAverage
<1>5. QED
    BY <1>2, <1>3, <1>4 DEF ReviewInv

LEMMA CreateOrUpdateStep ==
    ASSUME ReviewInv, NEW h \in Handlers, NEW t \in Trips, NEW stars \in Stars,
           CreateOrUpdate(h, t, stars)
    PROVE  ReviewInv'
<1> DEFINE tx == [NoReviewTx EXCEPT !.step = "checked", !.trip = t, !.stars = stars]
<1>1. tx \in ReviewTxOf({"checked", t, stars, None, 0, TRUE}) /\ tx.step = "checked"
    BY DEF ReviewTxOf, NoReviewTx
<1>2. IsReviewTx(tx)
    BY <1>1 DEF IsReviewTx
<1>3. QED
    BY <1>1, <1>2, ReviewTxStep DEF CreateOrUpdate

LEMMA ReviewFailsStep ==
    ASSUME ReviewInv, NEW h \in Handlers, ReviewFails(h)
    PROVE  ReviewInv'
<1>1. IsReviewTx(NoReviewTx) /\ NoReviewTx.step = "idle"
    BY NoReviewTxShape
<1>2. QED
    BY <1>1, ReviewTxStep DEF ReviewFails, ReviewEnds

\* The transactions that this one overlaps are no longer alone, and neither is it.
LEMMA RecalcStep ==
    ASSUME ReviewInv, NEW h \in Handlers, RecalcDriverRating(h)
    PROVE  ReviewInv'
<1> DEFINE tx == reviewTx[h]
           others == {g \in Handlers \ {h} : InTx(g)}
           seen == SeenReviews(tx.trip, tx.stars)
           u == Total(seen)
           c == Cardinality(Rated(seen))
           a == others = {}
           new == [tx EXCEPT !.step = "averaged", !.sum = u, !.count = c, !.alone = a]
<1>1. IsReviewTx(tx)
    BY DEF ReviewInv, ReviewShape
<1>2. /\ reviewTx'[h] = new
      /\ \A g \in others : reviewTx'[g] = [reviewTx[g] EXCEPT !.alone = FALSE]
      /\ \A g \in Handlers \ ({h} \cup others) : reviewTx'[g] = reviewTx[g]
      /\ UNCHANGED <<review, profile>>
    BY DEF RecalcDriverRating
<1>3. /\ IsReviewTx(new) /\ new.trip = tx.trip /\ new.stars = tx.stars
      /\ new.sum = Total(seen) /\ new.count = Cardinality(Rated(seen))
      /\ (new.alone => others = {}) /\ new.step = "averaged"
    <2>1. PICK Any : tx \in ReviewTxOf(Any)
        BY <1>1 DEF IsReviewTx
    <2>2. /\ new \in ReviewTxOf(Any \cup {"averaged", u, c, a})
          /\ new.trip = tx.trip /\ new.stars = tx.stars /\ new.step = "averaged"
          /\ new.sum = u /\ new.count = c
        <3> HIDE DEF u, c, a
        <3>1. QED
            BY <2>1 DEF ReviewTxOf
    <2>3. new.alone => others = {}
        BY <2>1 DEF ReviewTxOf
    <2>4. QED
        BY <2>2, <2>3 DEF IsReviewTx
<1>4. \A g \in others : IsReviewTx(reviewTx'[g]) /\ ~reviewTx'[g].alone
    BY <1>2, OverlappedShape DEF ReviewInv, ReviewShape
<1>5. ReviewShape'
    <2>1. reviewTx' = [g \in Handlers |-> reviewTx'[g]]
        BY DEF RecalcDriverRating
    <2>2. \A g \in Handlers : IsReviewTx(reviewTx'[g])
        BY <1>2, <1>3, <1>4 DEF ReviewInv, ReviewShape
    <2>3. QED
        BY <2>1, <2>2 DEF ReviewShape
<1> HIDE DEF new
<1>6. AveragedAlone(h)'
    <2>1. SeenReviews(tx.trip, tx.stars)' = seen
        BY <1>2, <1>3 DEF SeenReviews
    <2>2. QED
        BY <1>2, <1>3 DEF AveragedAlone, InTx, SeenReviews
<1>7. ASSUME NEW g \in Handlers \ {h} PROVE AveragedAlone(g)'
    BY <1>2, <1>4, <1>7 DEF AveragedAlone, InTx
<1>8. RatingIsTheAverage'
    BY <1>2 DEF ReviewInv, RatingIsTheAverage
<1>9. QED
    BY <1>5, <1>6, <1>7, <1>8 DEF ReviewInv

LEMMA CommitReviewStep ==
    ASSUME ReviewInv, NEW h \in Handlers, CommitReview(h)
    PROVE  ReviewInv'
<1> DEFINE tx == reviewTx[h]
           seen == SeenReviews(tx.trip, tx.stars)
<1>1. /\ InTx(h) /\ review' = seen
      /\ profile' = [sum |-> tx.sum, count |-> tx.count, alone |-> tx.alone]
    BY DEF CommitReview, SeenReviews
<1>2. reviewTx'[h] = NoReviewTx /\ \A g \in Handlers \ {h} : reviewTx'[g] = reviewTx[g]
    BY DEF CommitReview, ReviewEnds, ReviewInv, ReviewShape
<1>3. ReviewShape'
    <2>1. \A g \in Handlers : IsReviewTx(reviewTx'[g])
        BY <1>2, NoReviewTxShape DEF ReviewInv, ReviewShape
    <2>2. reviewTx' = [g \in Handlers |-> reviewTx'[g]]
        BY DEF CommitReview, ReviewEnds, ReviewInv, ReviewShape
    <2>3. QED
        BY <2>1, <2>2 DEF ReviewShape
<1>4. RatingIsTheAverage'
    <2>1. tx.alone => tx.sum = Total(seen) /\ tx.count = Cardinality(Rated(seen))
        BY <1>1 DEF ReviewInv, AveragedAlone
    <2>2. QED
        BY <1>1, <2>1 DEF RatingIsTheAverage
<1>5. ASSUME NEW g \in Handlers PROVE AveragedAlone(g)'
    <2>1. ~(InTx(g)' /\ reviewTx'[g].alone)
        BY <1>1, <1>2 DEF ReviewInv, AveragedAlone, InTx, NoReviewTx
    <2>2. QED
        BY <2>1 DEF AveragedAlone
<1>6. QED
    BY <1>3, <1>4, <1>5 DEF ReviewInv

LEMMA ReviewsRest ==
    ASSUME ReviewInv, UNCHANGED <<review, profile, reviewTx>>
    PROVE  ReviewInv'
BY DEF ReviewInv, ReviewShape, AveragedAlone, InTx, SeenReviews, RatingIsTheAverage

LEMMA ReviewsSteps == ReviewInv /\ [FeedbackNext]_feedbackVars => ReviewInv'
BY ReviewsRest, CreateOrUpdateStep, RecalcStep, CommitReviewStep, ReviewFailsStep
   DEF FeedbackNext, ReviewsNext, TripChanges, feedbackVars, reviewVars

\* However reviews of one driver overlap, fail and are changed: a review whose
\* transaction overlapped no other leaves him the average and the count of all.
THEOREM RatingsAverage == FeedbackSpec => []RatingIsTheAverage
<1>1. ReviewInv => RatingIsTheAverage
    BY DEF ReviewInv
<1>2. QED
    BY ReviewsStart, ReviewsSteps, <1>1, PTL DEF FeedbackSpec
-----------------------------------------------------------------------------
(* SOS alerts.                                                             *)

AlarmShape ==
    /\ onDesk \subseteq DeskStaff
    /\ alarm \in [Alarms -> Alarm]
    /\ alarmCall \in [Handlers -> AlarmCall]

Telling(a) == \E h \in Handlers : alarmCall[h] = [step |-> "tell", alarm |-> a]
Resolving(a) == {h \in Handlers : alarmCall[h] = [step |-> "resolve", alarm |-> a]}

\* A call works on an alert that exists.
CallsHaveAlarms ==
    \A h \in Handlers :
        alarmCall[h] # NoAlarmCall =>
            /\ alarmCall[h].step \in {"tell", "resolve"}
            /\ alarmCall[h].alarm \in Alarms
            /\ alarm[alarmCall[h].alarm].status # "none"

Heard(a) ==
    alarm[a].status # "none" /\ ~alarm[a].cut /\ ~Telling(a) =>
        onDesk \subseteq alarm[a].told \cup alarm[a].came

\* Each call that resolves an alert began while nobody had resolved it.
ResolvesCounted(a) ==
    /\ alarm[a].status = "none" => alarm[a] = NoAlarm
    /\ alarm[a].status # "resolved" => alarm[a].resolves = 0
    /\ alarm[a].resolves + Cardinality(Resolving(a)) <= Cardinality(Handlers)

AlarmInv ==
    /\ AlarmShape /\ CallsHaveAlarms
    /\ \A a \in Alarms : Heard(a) /\ ResolvesCounted(a)

LEMMA ResolvingIsFinite ==
    ASSUME NEW a
    PROVE  /\ IsFiniteSet(Resolving(a)) /\ Cardinality(Resolving(a)) \in Nat
           /\ Cardinality(Resolving(a)) <= Cardinality(Handlers)
           /\ Cardinality(Handlers) \in Nat
BY FeedbackAssumption, FS_Subset, FS_CardinalityType DEF Resolving

LEMMA AlarmsStart == FeedbackInit => AlarmInv
<1> SUFFICES ASSUME FeedbackInit PROVE AlarmInv
    OBVIOUS
<1>1. AlarmShape
    BY DEF FeedbackInit, AlarmShape, NoAlarm, Alarm, NoAlarmCall, AlarmCall
<1>2. CallsHaveAlarms
    BY DEF FeedbackInit, CallsHaveAlarms
<1>3. ASSUME NEW a \in Alarms PROVE Heard(a) /\ ResolvesCounted(a)
    BY ResolvingIsFinite DEF FeedbackInit, Heard, ResolvesCounted, NoAlarm
<1>4. QED
    BY <1>1, <1>2, <1>3 DEF AlarmInv

LEMMA CreateSosStep ==
    ASSUME AlarmInv, NEW h \in Handlers, NEW a \in Alarms, CreateSos(h, a)
    PROVE  AlarmInv'
<1> DEFINE call == [step |-> "tell", alarm |-> a]
<1>1. /\ alarmCall'[h] = call /\ \A g \in Handlers \ {h} : alarmCall'[g] = alarmCall[g]
      /\ alarmCall[h] = NoAlarmCall /\ alarm[a] = NoAlarm /\ onDesk' = onDesk
      /\ alarm'[a] = [NoAlarm EXCEPT !.status = "active"]
      /\ \A b \in Alarms \ {a} : alarm'[b] = alarm[b]
    BY DEF CreateSos, AlarmGoes, AlarmInv, AlarmShape
<1>2. AlarmShape'
    BY DEF CreateSos, AlarmGoes, AlarmInv, AlarmShape, Alarm, AlarmCall
<1>3. CallsHaveAlarms'
    BY <1>1 DEF AlarmInv, CallsHaveAlarms, NoAlarm
<1>4. ASSUME NEW b \in Alarms PROVE Heard(b)'
    <2>1. CASE b = a
        BY <1>1, <2>1 DEF Heard, Telling
    <2>2. CASE b # a
        <3>1. Telling(b) => Telling(b)'
            BY <1>1 DEF Telling, NoAlarmCall
        <3>2. QED
            BY <1>1, <2>2, <3>1 DEF AlarmInv, Heard
    <2>3. QED
        BY <2>1, <2>2
<1>5. ASSUME NEW b \in Alarms PROVE ResolvesCounted(b)'
    <2>1. Resolving(b)' = Resolving(b)
        BY <1>1 DEF Resolving, NoAlarmCall
    <2>2. QED
        BY <1>1, <2>1 DEF AlarmInv, ResolvesCounted, NoAlarm
<1>6. QED
    BY <1>2, <1>3, <1>4, <1>5 DEF AlarmInv

\* A call ends, and its alert changes or not.
LEMMA AlarmEndsStep ==
    ASSUME AlarmInv, NEW h \in Handlers, alarmCall[h] # NoAlarmCall, AlarmEnds(h),
           NEW a \in Alarms, a = alarmCall[h].alarm, alarm' \in [Alarms -> Alarm],
           \A b \in Alarms \ {a} : alarm'[b] = alarm[b],
           alarm'[a].status # "none", onDesk' = onDesk
    PROVE  /\ AlarmShape' /\ CallsHaveAlarms'
           /\ \A b \in Alarms \ {a} : (Heard(b) /\ ResolvesCounted(b))'
           /\ alarmCall[h] = [step |-> "tell", alarm |-> a]
                 \/ alarmCall[h] = [step |-> "resolve", alarm |-> a]
           /\ Resolving(a)' = Resolving(a) \ {h}
           /\ alarmCall[h] # [step |-> "tell", alarm |-> a] => Telling(a)' = Telling(a)
<1>1. alarmCall'[h] = NoAlarmCall /\ \A g \in Handlers \ {h} : alarmCall'[g] = alarmCall[g]
    BY DEF AlarmEnds, AlarmInv, AlarmShape
<1>2. AlarmShape'
    BY DEF AlarmEnds, AlarmInv, AlarmShape, AlarmCall, NoAlarmCall
<1>3. CallsHaveAlarms'
    BY <1>1 DEF AlarmInv, CallsHaveAlarms
<1>4. \/ alarmCall[h] = [step |-> "tell", alarm |-> a]
      \/ alarmCall[h] = [step |-> "resolve", alarm |-> a]
    BY DEF AlarmInv, AlarmShape, AlarmCall, CallsHaveAlarms
<1>5. /\ Resolving(a)' = Resolving(a) \ {h}
      /\ \A b \in Alarms \ {a} : Resolving(b)' = Resolving(b)
    BY <1>1, <1>4 DEF Resolving, NoAlarmCall
<1>6. /\ \A b \in Alarms \ {a} : Telling(b)' = Telling(b)
      /\ alarmCall[h] # [step |-> "tell", alarm |-> a] => Telling(a)' = Telling(a)
    BY <1>1, <1>4 DEF Telling, NoAlarmCall
<1>7. ASSUME NEW b \in Alarms \ {a} PROVE (Heard(b) /\ ResolvesCounted(b))'
    BY <1>5, <1>6 DEF AlarmInv, Heard, ResolvesCounted
<1>8. QED
    BY <1>2, <1>3, <1>4, <1>5, <1>6, <1>7

LEMMA TellDeskStep ==
    ASSUME AlarmInv, NEW h \in Handlers, TellDesk(h)
    PROVE  AlarmInv'
<1>1. PICK a \in Alarms : a = alarmCall[h].alarm
    BY DEF TellDesk, AlarmInv, CallsHaveAlarms, NoAlarmCall
<1>2. alarmCall[h] # NoAlarmCall /\ alarm[a].status # "none" /\ alarmCall[h].step = "tell"
    BY <1>1 DEF TellDesk, AlarmInv, CallsHaveAlarms, NoAlarmCall
<1>3. /\ alarm' = [alarm EXCEPT ![a].told = onDesk]
      /\ onDesk' = onDesk /\ AlarmEnds(h)
    BY <1>1 DEF TellDesk, Recipients
<1>4. /\ alarm' \in [Alarms -> Alarm] /\ alarm'[a] = [alarm[a] EXCEPT !.told = onDesk]
      /\ \A b \in Alarms \ {a} : alarm'[b] = alarm[b]
    BY <1>3 DEF AlarmInv, AlarmShape, Alarm
<1>5. /\ alarm'[a].told = onDesk /\ alarm'[a].status = alarm[a].status
      /\ alarm'[a].resolves = alarm[a].resolves
    BY <1>4 DEF AlarmInv, AlarmShape, Alarm
<1>6. /\ AlarmShape' /\ CallsHaveAlarms'
      /\ \A b \in Alarms \ {a} : (Heard(b) /\ ResolvesCounted(b))'
      /\ Resolving(a)' = Resolving(a) \ {h}
    BY <1>1, <1>2, <1>3, <1>4, <1>5, AlarmEndsStep
<1>7. Heard(a)'
    BY <1>3, <1>5 DEF Heard
<1>8. ResolvesCounted(a)'
    <2>1. Resolving(a)' = Resolving(a)
        BY <1>2, <1>6 DEF Resolving
    <2>2. QED
        BY <1>2, <1>5, <2>1 DEF AlarmInv, ResolvesCounted
<1>9. QED
    BY <1>6, <1>7, <1>8 DEF AlarmInv

LEMMA ResolveSosStep ==
    ASSUME AlarmInv, NEW h \in Handlers, NEW a \in Alarms, ResolveSos(h, a)
    PROVE  AlarmInv'
<1>1. /\ alarmCall'[h] = [step |-> "resolve", alarm |-> a]
      /\ \A g \in Handlers \ {h} : alarmCall'[g] = alarmCall[g]
      /\ alarmCall[h] = NoAlarmCall /\ alarm[a].status = "active"
      /\ UNCHANGED <<alarm, onDesk>>
    BY DEF ResolveSos, AlarmGoes, AlarmInv, AlarmShape
<1>2. AlarmShape'
    BY DEF ResolveSos, AlarmGoes, AlarmInv, AlarmShape, AlarmCall
<1>3. CallsHaveAlarms'
    BY <1>1 DEF AlarmInv, CallsHaveAlarms
<1>4. ASSUME NEW b \in Alarms PROVE Heard(b)'
    <2>1. Telling(b) => Telling(b)'
        BY <1>1 DEF Telling, NoAlarmCall
    <2>2. QED
        BY <1>1, <2>1 DEF AlarmInv, Heard
<1>5. ASSUME NEW b \in Alarms PROVE ResolvesCounted(b)'
    <2>1. CASE b = a
        <3>1. alarm'[b].resolves = 0
            BY <1>1, <2>1 DEF AlarmInv, ResolvesCounted
        <3>2. \A S \in SUBSET Handlers : Cardinality(S) \in Nat
                                          /\ Cardinality(S) <= Cardinality(Handlers)
            BY FeedbackAssumption, FS_Subset, FS_CardinalityType
        <3>3. Cardinality(Resolving(b)') \in Nat
              /\ Cardinality(Resolving(b)') <= Cardinality(Handlers)
            BY <3>2 DEF Resolving
        <3>4. QED
            BY <1>1, <3>1, <3>3 DEF AlarmInv, ResolvesCounted
    <2>2. CASE b # a
        <3>1. Resolving(b)' = Resolving(b)
            BY <1>1, <2>2 DEF Resolving, NoAlarmCall
        <3>2. QED
            BY <1>1, <3>1 DEF AlarmInv, ResolvesCounted
    <2>3. QED
        BY <2>1, <2>2
<1>6. QED
    BY <1>2, <1>3, <1>4, <1>5 DEF AlarmInv

\* One call fewer is resolving, one more has resolved.
LEMMA ResolveWriteStep ==
    ASSUME AlarmInv, NEW h \in Handlers, ResolveWrite(h)
    PROVE  AlarmInv'
<1>1. PICK a \in Alarms : a = alarmCall[h].alarm
    BY DEF ResolveWrite, AlarmInv, CallsHaveAlarms, NoAlarmCall
<1>2. /\ alarmCall[h] # NoAlarmCall /\ alarm[a].status # "none"
      /\ alarmCall[h].step = "resolve"
    BY <1>1 DEF ResolveWrite, AlarmInv, CallsHaveAlarms, NoAlarmCall
<1>3. /\ alarm' = [alarm EXCEPT ![a].status = "resolved", ![a].resolves = @ + 1]
      /\ onDesk' = onDesk /\ AlarmEnds(h)
    BY <1>1 DEF ResolveWrite
<1>4. /\ alarm' \in [Alarms -> Alarm]
      /\ \A b \in Alarms \ {a} : alarm'[b] = alarm[b]
      /\ alarm'[a].status = "resolved" /\ alarm'[a].resolves = alarm[a].resolves + 1
      /\ alarm'[a].told = alarm[a].told /\ alarm'[a].came = alarm[a].came
      /\ alarm'[a].cut = alarm[a].cut
    BY <1>3 DEF AlarmInv, AlarmShape, Alarm
<1>5. /\ AlarmShape' /\ CallsHaveAlarms'
      /\ \A b \in Alarms \ {a} : (Heard(b) /\ ResolvesCounted(b))'
      /\ Resolving(a)' = Resolving(a) \ {h}
      /\ Telling(a)' = Telling(a) /\ h \in Resolving(a)
    <2>1. alarmCall[h] # [step |-> "tell", alarm |-> a]
        BY <1>2
    <2>2. QED
        BY <1>1, <1>2, <1>3, <1>4, <2>1, AlarmEndsStep DEF Resolving
<1>6. Heard(a)'
    BY <1>2, <1>3, <1>4, <1>5 DEF AlarmInv, Heard
<1>7. ResolvesCounted(a)'
    <2>1. /\ Cardinality(Resolving(a)') = Cardinality(Resolving(a)) - 1
          /\ Cardinality(Resolving(a)) \in Nat /\ Cardinality(Handlers) \in Nat
        BY <1>5, ResolvingIsFinite, FS_RemoveElement
    <2>2. alarm[a].resolves \in Nat
        BY DEF AlarmInv, AlarmShape, Alarm
    <2>3. QED
        BY <1>4, <2>1, <2>2 DEF AlarmInv, ResolvesCounted
<1>8. QED
    BY <1>5, <1>6, <1>7 DEF AlarmInv

LEMMA AlarmFailsStep ==
    ASSUME AlarmInv, NEW h \in Handlers, AlarmFails(h)
    PROVE  AlarmInv'
<1>1. PICK a \in Alarms : a = alarmCall[h].alarm
    BY DEF AlarmFails, AlarmInv, CallsHaveAlarms
<1>2. alarmCall[h] # NoAlarmCall /\ alarm[a].status # "none"
    BY <1>1 DEF AlarmFails, AlarmInv, CallsHaveAlarms
<1>3. /\ alarm' = IF alarmCall[h].step = "tell" THEN [alarm EXCEPT ![a].cut = TRUE] ELSE alarm
      /\ onDesk' = onDesk /\ AlarmEnds(h)
    BY <1>1 DEF AlarmFails
<1>4. /\ alarm' \in [Alarms -> Alarm]
      /\ \A b \in Alarms \ {a} : alarm'[b] = alarm[b]
      /\ alarm'[a].status = alarm[a].status /\ alarm'[a].resolves = alarm[a].resolves
      /\ alarm'[a].told = alarm[a].told /\ alarm'[a].came = alarm[a].came
      /\ alarmCall[h].step = "tell" => alarm'[a].cut
      /\ alarmCall[h].step # "tell" => alarm'[a].cut = alarm[a].cut
    BY <1>3 DEF AlarmInv, AlarmShape, Alarm
<1>5. /\ AlarmShape' /\ CallsHaveAlarms'
      /\ \A b \in Alarms \ {a} : (Heard(b) /\ ResolvesCounted(b))'
      /\ Resolving(a)' = Resolving(a) \ {h}
      /\ alarmCall[h].step # "tell" => Telling(a)' = Telling(a)
    <2>1. alarmCall[h].step # "tell" => alarmCall[h] # [step |-> "tell", alarm |-> a]
        OBVIOUS
    <2>2. alarm'[a].status # "none"
        BY <1>2, <1>4
    <2>3. QED
        BY <1>1, <1>2, <1>3, <1>4, <2>1, <2>2, AlarmEndsStep
<1>6. Heard(a)'
    BY <1>2, <1>3, <1>4, <1>5 DEF AlarmInv, Heard
<1>7. ResolvesCounted(a)'
    <2>1. /\ Cardinality(Resolving(a)') <= Cardinality(Resolving(a))
          /\ Cardinality(Resolving(a)') \in Nat
        BY <1>5, ResolvingIsFinite, FS_Subset, FS_CardinalityType
    <2>2. /\ Cardinality(Resolving(a)) \in Nat /\ Cardinality(Handlers) \in Nat
          /\ alarm[a].resolves \in Nat
        BY ResolvingIsFinite DEF AlarmInv, AlarmShape, Alarm
    <2>3. QED
        BY <1>2, <1>4, <2>1, <2>2 DEF AlarmInv, ResolvesCounted
<1>8. QED
    BY <1>5, <1>6, <1>7 DEF AlarmInv

LEMMA StaffMoves ==
    ASSUME AlarmInv, NEW s \in DeskStaff, StaffComes(s) \/ StaffGoes(s)
    PROVE  AlarmInv'
<1>1. /\ alarmCall' = alarmCall
      /\ \A a : Resolving(a)' = Resolving(a) /\ Telling(a)' = Telling(a)
    BY DEF StaffComes, StaffGoes, Resolving, Telling
<1>2. CASE StaffGoes(s)
    BY <1>1, <1>2 DEF StaffGoes, AlarmInv, AlarmShape, CallsHaveAlarms, Heard,
       ResolvesCounted
<1>3. CASE StaffComes(s)
    <2>1. \A a \in Alarms :
             /\ alarm[a].status = "none" => alarm'[a] = alarm[a]
             /\ alarm'[a].status = alarm[a].status /\ alarm'[a].resolves = alarm[a].resolves
             /\ alarm'[a].told = alarm[a].told /\ alarm'[a].cut = alarm[a].cut
             /\ alarm[a].status # "none" => alarm'[a].came = alarm[a].came \cup {s}
        <3> SUFFICES ASSUME NEW a \in Alarms
                     PROVE  /\ alarm[a].status = "none" => alarm'[a] = alarm[a]
                            /\ alarm'[a].status = alarm[a].status
                            /\ alarm'[a].resolves = alarm[a].resolves
                            /\ alarm'[a].told = alarm[a].told
                            /\ alarm'[a].cut = alarm[a].cut
                            /\ alarm[a].status # "none" =>
                                  alarm'[a].came = alarm[a].came \cup {s}
            OBVIOUS
        <3>1. CASE alarm[a] = NoAlarm
            <4>1. alarm'[a] = alarm[a]
                BY <1>3, <3>1 DEF StaffComes
            <4>2. alarm[a].status = "none"
                BY <3>1 DEF NoAlarm
            <4>3. QED
                BY <4>1, <4>2
        <3>2. CASE alarm[a] # NoAlarm
            <4>1. alarm'[a] = [alarm[a] EXCEPT !.came = @ \cup {s}]
                BY <1>3, <3>2 DEF StaffComes
            <4>2. alarm[a].status # "none"
                BY <3>2 DEF AlarmInv, ResolvesCounted
            <4>3. QED
                BY <4>1, <4>2 DEF AlarmInv, AlarmShape, Alarm
        <3>3. QED
            BY <3>1, <3>2
    <2>2. AlarmShape'
        BY <1>3 DEF StaffComes, AlarmInv, AlarmShape, Alarm, NoAlarm
    <2>3. CallsHaveAlarms'
        BY <1>1, <2>1 DEF AlarmInv, CallsHaveAlarms
    <2>4. ASSUME NEW a \in Alarms PROVE (Heard(a) /\ ResolvesCounted(a))'
        BY <1>1, <1>3, <2>1 DEF StaffComes, AlarmInv, Heard, ResolvesCounted
    <2>5. QED
        BY <2>2, <2>3, <2>4 DEF AlarmInv
<1>4. QED
    BY <1>2, <1>3

LEMMA AlarmsRest ==
    ASSUME AlarmInv, UNCHANGED <<onDesk, alarm, alarmCall>>
    PROVE  AlarmInv'
BY DEF AlarmInv, AlarmShape, CallsHaveAlarms, Heard, ResolvesCounted, Telling, Resolving

LEMMA AlarmsSteps == AlarmInv /\ [FeedbackNext]_feedbackVars => AlarmInv'
BY AlarmsRest, CreateSosStep, TellDeskStep, ResolveSosStep, ResolveWriteStep,
   AlarmFailsStep, StaffMoves
   DEF FeedbackNext, AlarmsNext, feedbackVars, alarmVars

\* However members of staff come and go while an alert is sent, whoever is on the
\* desk has been told of it or came later, unless its call broke off; and two
\* members of staff at once can resolve it twice, but no more than are in flight.
THEOREM AlarmsHeard == FeedbackSpec => []AlarmsAreHeard
<1>1. AlarmInv => AlarmsAreHeard
    <2> SUFFICES ASSUME AlarmInv, NEW a \in Alarms
                 PROVE  /\ alarm[a] # NoAlarm /\ ~alarm[a].cut /\ ~Telling(a)
                           => onDesk \subseteq alarm[a].told \cup alarm[a].came
                        /\ alarm[a].resolves <= Cardinality(Handlers)
        BY DEF AlarmsAreHeard, Telling
    <2>1. alarm[a].resolves \in Nat
        BY DEF AlarmInv, AlarmShape, Alarm
    <2>2. QED
        BY <2>1, ResolvingIsFinite DEF AlarmInv, Heard, ResolvesCounted
<1>2. QED
    BY AlarmsStart, AlarmsSteps, <1>1, PTL DEF FeedbackSpec
-----------------------------------------------------------------------------
(* The import.                                                             *)

ImportShape ==
    /\ stock \in [BusinessKeys -> 0 .. MaxStock]
    /\ job \in Job
    /\ importCall \in [Handlers -> ImportCall]

Importing(h) == importCall[h] # NoImportCall

\* The keys of the rows in S that match no vendor of the catalogue as it is.
NewIn(S) == {KeyOf[d] : d \in {e \in S : stock[KeyOf[e]] = 0}}

\* Nothing else runs while the file is looked through.
PreviewIsAlone ==
    \A h \in Handlers :
        importCall[h].step = "preview" =>
            job.status = "none" /\ \A g \in Handlers \ {h} : ~Importing(g)

\* Nothing is applied before there is a preview.
FirstThePreview ==
    job.status = "none" =>
        /\ ~job.overlapped
        /\ \A h \in Handlers : Importing(h) => importCall[h].step = "preview"

\* A commit that no other overlaps finds the status that it has read.
OneCommit ==
    ~job.overlapped =>
        /\ \A g, h \in Handlers : Importing(g) /\ Importing(h) => g = h
        /\ \A h \in Handlers :
              /\ Importing(h) => importCall[h].step # "idle"
              /\ importCall[h].step \in {"rows", "failed"} =>
                    job.status \in {"previewed", "failed"}

AppliedOnce ==
    ~job.overlapped =>
        /\ job.applied = IF job.status = "committed" THEN 1 ELSE 0
        /\ \A k \in BusinessKeys : job.created[k] <= job.applied

\* Preview and commit find the same rows new.
FoundNew(call) ==
    call.step \in {"preview", "rows"} => call.made = NewIn(Drafts \ call.left)
FindsTheNew ==
    ~job.overlapped /\ ~job.drifted =>
        /\ \A h \in Handlers : FoundNew(importCall[h])
        /\ job.status \in {"previewed", "failed"} => job.toCreate = NewIn(Drafts)
        /\ job.status = "committed" =>
              job.toCreate = {k \in BusinessKeys : job.created[k] = 1}

ImportInv ==
    /\ ImportShape /\ PreviewIsAlone /\ FirstThePreview /\ OneCommit /\ AppliedOnce
    /\ FindsTheNew

LEMMA ImportsStart == CatalogueInit => ImportInv
<1> SUFFICES ASSUME CatalogueInit PROVE ImportInv
    OBVIOUS
<1>1. ImportShape
    BY CatalogueAssumption
    DEF CatalogueInit, ImportsInit, ImportShape, Job, ImportCall, NoImportCall
<1>2. QED
    BY <1>1 DEF CatalogueInit, ImportsInit, NoImportCall, Importing, ImportInv,
       PreviewIsAlone, FirstThePreview, OneCommit, AppliedOnce, FindsTheNew, FoundNew

\* What a step on one call leaves of the others.
LEMMA OneImportCall ==
    ASSUME ImportInv, NEW h \in Handlers, NEW call \in ImportCall, ImportGoes(h, call)
    PROVE  /\ importCall' \in [Handlers -> ImportCall] /\ importCall'[h] = call
           /\ \A g \in Handlers \ {h} : importCall'[g] = importCall[g]
BY DEF ImportGoes, ImportInv, ImportShape

LEMMA NoCallIsACall == NoImportCall \in ImportCall
BY DEF NoImportCall, ImportCall

\* One more row, looked up in the catalogue or among those of this transaction.
LEMMA RowIsFound ==
    ASSUME ImportInv, NEW left \in SUBSET Drafts, NEW d \in left,
           NEW made, made = NewIn(Drafts \ left)
    PROVE  (IF Matches(d, made) THEN made ELSE made \cup {KeyOf[d]})
               = NewIn(Drafts \ (left \ {d}))
           /\ (IF Matches(d, {}) THEN made ELSE made \cup {KeyOf[d]})
               = NewIn(Drafts \ (left \ {d}))
<1>1. KeyOf[d] \in BusinessKeys /\ stock[KeyOf[d]] \in Nat
    BY CatalogueAssumption DEF ImportInv, ImportShape
<1>2. NewIn(Drafts \ (left \ {d})) =
          IF stock[KeyOf[d]] = 0 THEN made \cup {KeyOf[d]} ELSE made
    BY DEF NewIn
<1>3. QED
    BY <1>1, <1>2 DEF Matches

LEMMA UploadStep ==
    ASSUME ImportInv, NEW h \in Handlers, Upload(h)
    PROVE  ImportInv'
<1> DEFINE call == [step |-> "preview", left |-> Drafts, made |-> {}]
<1>1. call \in ImportCall /\ call.step = "preview" /\ call.left = Drafts /\ call.made = {}
    BY DEF ImportCall
<1>2. /\ importCall' \in [Handlers -> ImportCall] /\ importCall'[h] = call
      /\ \A g \in Handlers \ {h} : importCall'[g] = NoImportCall
      /\ \A g \in Handlers : importCall[g] = NoImportCall
    BY <1>1, OneImportCall DEF Upload, Committing
<1>3. /\ job' \in Job /\ job'.status = "none" /\ job'.overlapped = job.overlapped
      /\ job'.applied = job.applied /\ job'.created = job.created /\ ~job'.drifted
      /\ job.status = "none"
    BY DEF Upload, ImportInv, ImportShape, Job
<1>4. ImportShape'
    BY <1>2, <1>3 DEF Upload, ImportInv, ImportShape
<1>5. NoImportCall.step = "idle"
    BY DEF NoImportCall
<1> HIDE DEF call
<1>6. PreviewIsAlone' /\ FirstThePreview' /\ OneCommit' /\ AppliedOnce'
    BY <1>1, <1>2, <1>3, <1>5
    DEF ImportInv, PreviewIsAlone, FirstThePreview, OneCommit, AppliedOnce, Importing
<1>7. FindsTheNew'
    <2>1. NewIn(Drafts \ Drafts)' = {}
        BY DEF NewIn
    <2>2. QED
        BY <1>1, <1>2, <1>3, <1>5, <2>1 DEF FindsTheNew, FoundNew
<1>8. QED
    BY <1>4, <1>6, <1>7 DEF ImportInv

\* How a call goes on.
GoesOn(old, new) ==
    \/ new.step = old.step /\ new.step # "idle"
    \/ new.step = "failed" /\ old.step = "rows"
    \/ new = NoImportCall

\* A call looks a row up, fails or dies: the import is as it was.
LEMMA CallStep ==
    ASSUME ImportInv, NEW h \in Handlers, NEW call \in ImportCall, ImportGoes(h, call),
           UNCHANGED <<stock, job>>, Importing(h), GoesOn(importCall[h], call),
           ~job.overlapped /\ ~job.drifted => FoundNew(call)
    PROVE  ImportInv'
<1>1. /\ importCall' \in [Handlers -> ImportCall] /\ importCall'[h] = call
      /\ \A g \in Handlers \ {h} : importCall'[g] = importCall[g]
    BY OneImportCall
<1>2. NoImportCall.step = "idle"
    BY DEF NoImportCall
<1>3. ImportShape' /\ AppliedOnce'
    BY <1>1 DEF ImportInv, ImportShape, AppliedOnce
<1>4. \A S : NewIn(S)' = NewIn(S)
    BY DEF NewIn
<1>5. FindsTheNew'
    BY <1>1, <1>2, <1>4 DEF ImportInv, FindsTheNew, FoundNew
<1>6. OneCommit'
    BY <1>1, <1>2 DEF ImportInv, OneCommit, Importing, GoesOn
<1>7. PreviewIsAlone' /\ FirstThePreview'
    BY <1>1, <1>2 DEF ImportInv, PreviewIsAlone, FirstThePreview, Importing, GoesOn
<1>8. QED
    BY <1>3, <1>5, <1>6, <1>7 DEF ImportInv

LEMMA LookUpStep ==
    ASSUME ImportInv, NEW h \in Handlers, NEW d \in Drafts,
           BuildPreview(h, d) \/ CommitRow(h, d)
    PROVE  ImportInv'
<1> DEFINE old == importCall[h]
<1>1. old \in ImportCall /\ old.left \in SUBSET Drafts /\ d \in old.left
      /\ old.step \in {"preview", "rows"}
    BY DEF ImportInv, ImportShape, ImportCall, BuildPreview, CommitRow
<1>2. PICK more \in {{}, {KeyOf[d]}} :
         /\ ImportGoes(h, [old EXCEPT !.left = @ \ {d}, !.made = @ \cup more])
         /\ old.made = NewIn(Drafts \ old.left) =>
                old.made \cup more = NewIn(Drafts \ (old.left \ {d}))
    <2>1. CASE BuildPreview(h, d)
        <3>1. CASE Matches(d, {})
            BY <1>1, <2>1, <3>1, RowIsFound DEF BuildPreview
        <3>2. CASE ~Matches(d, {})
            BY <1>1, <2>1, <3>2, RowIsFound DEF BuildPreview
        <3>3. QED
            BY <3>1, <3>2
    <2>2. CASE CommitRow(h, d)
        <3>1. CASE Matches(d, old.made)
            BY <1>1, <2>2, <3>1, RowIsFound DEF CommitRow
        <3>2. CASE ~Matches(d, old.made)
            BY <1>1, <2>2, <3>2, RowIsFound DEF CommitRow
        <3>3. QED
            BY <3>1, <3>2
    <2>3. QED
        BY <2>1, <2>2
<1>3. PICK call : call = [old EXCEPT !.left = @ \ {d}, !.made = @ \cup more]
    OBVIOUS
<1>4. /\ call \in ImportCall /\ call.step = old.step /\ call.left = old.left \ {d}
      /\ call.made = old.made \cup more
    BY <1>1, <1>3, CatalogueAssumption DEF ImportCall
<1>5. ~job.overlapped /\ ~job.drifted => FoundNew(call)
    BY <1>1, <1>2, <1>4 DEF ImportInv, FindsTheNew, FoundNew
<1>6. Importing(h) /\ UNCHANGED <<stock, job>>
    BY <1>1 DEF BuildPreview, CommitRow, Importing, NoImportCall
<1>7. ImportGoes(h, call) /\ GoesOn(old, call)
    BY <1>1, <1>2, <1>3, <1>4 DEF GoesOn
<1>8. QED
    BY <1>4, <1>5, <1>6, <1>7, CallStep

LEMMA ImportEndsStep ==
    ASSUME ImportInv, NEW h \in Handlers, ImportFails(h) \/ ImportDies(h)
    PROVE  ImportInv'
<1>1. CASE ImportDies(h)
    <2>1. FoundNew(NoImportCall) /\ GoesOn(importCall[h], NoImportCall)
        BY DEF FoundNew, GoesOn, NoImportCall
    <2>2. ImportGoes(h, NoImportCall) /\ Importing(h) /\ UNCHANGED <<stock, job>>
        BY <1>1 DEF ImportDies, ImportEnds, Importing
    <2>3. QED
        BY <2>1, <2>2, NoCallIsACall, CallStep
<1>2. CASE ImportFails(h)
    <2> DEFINE call == [NoImportCall EXCEPT !.step = "failed"]
    <2>1. call \in ImportCall /\ call.step = "failed"
        BY DEF NoImportCall, ImportCall
    <2>2. ImportGoes(h, call) /\ importCall[h].step = "rows" /\ Importing(h)
          /\ UNCHANGED <<stock, job>>
        BY <1>2 DEF ImportFails, Importing, NoImportCall
    <2> HIDE DEF call
    <2>3. FoundNew(call) /\ GoesOn(importCall[h], call)
        BY <2>1, <2>2 DEF FoundNew, GoesOn
    <2>4. QED
        BY <2>1, <2>2, <2>3, CallStep
<1>3. QED
    BY <1>1, <1>2

LEMMA PreviewUploadStep ==
    ASSUME ImportInv, NEW h \in Handlers, PreviewUpload(h)
    PROVE  ImportInv'
<1>1. /\ importCall' \in [Handlers -> ImportCall] /\ importCall'[h] = NoImportCall
      /\ \A g \in Handlers \ {h} : importCall'[g] = importCall[g]
      /\ stock' = stock
    BY NoCallIsACall, OneImportCall DEF PreviewUpload, ImportEnds
<1>2. /\ importCall[h].step = "preview" /\ importCall[h].left = {}
      /\ importCall[h].made \in SUBSET BusinessKeys
    BY DEF PreviewUpload, ImportInv, ImportShape, ImportCall
<1>3. \A g \in Handlers : importCall'[g] = NoImportCall
    BY <1>1, <1>2 DEF ImportInv, PreviewIsAlone, Importing
<1>4. /\ job' \in Job /\ job'.status = "previewed" /\ job'.overlapped = job.overlapped
      /\ job'.applied = job.applied /\ job'.created = job.created
      /\ job'.drifted = job.drifted /\ job'.toCreate = importCall[h].made
      /\ job.status = "none"
    BY <1>2 DEF PreviewUpload, ImportInv, ImportShape, Job, PreviewIsAlone
<1>5. NoImportCall.step = "idle"
    BY DEF NoImportCall
<1>6. ImportShape' /\ PreviewIsAlone' /\ FirstThePreview' /\ OneCommit' /\ AppliedOnce'
    BY <1>1, <1>3, <1>4, <1>5 DEF ImportInv, ImportShape, PreviewIsAlone,
       FirstThePreview, OneCommit, AppliedOnce, Importing
<1>7. FindsTheNew'
    <2>1. NewIn(Drafts)' = NewIn(Drafts \ {})
        BY <1>1 DEF NewIn
    <2>2. QED
        BY <1>2, <1>3, <1>4, <1>5, <2>1 DEF ImportInv, FindsTheNew, FoundNew
<1>8. QED
    BY <1>6, <1>7 DEF ImportInv

LEMMA CommitStep ==
    ASSUME ImportInv, NEW h \in Handlers, Commit(h)
    PROVE  ImportInv'
<1> DEFINE call == [step |-> "rows", left |-> Drafts, made |-> {}]
<1>1. call \in ImportCall /\ call.step = "rows" /\ call.left = Drafts /\ call.made = {}
    BY DEF ImportCall
<1>2. /\ importCall' \in [Handlers -> ImportCall] /\ importCall'[h] = call
      /\ \A g \in Handlers \ {h} : importCall'[g] = importCall[g]
      /\ stock' = stock
    BY <1>1, OneImportCall DEF Commit
<1>3. /\ job' \in Job /\ job'.status = job.status
      /\ job'.applied = job.applied /\ job'.created = job.created
      /\ job'.drifted = job.drifted /\ job'.toCreate = job.toCreate
      /\ job.status \in {"previewed", "failed"}
      /\ ~job'.overlapped => ~job.overlapped /\ \A g \in Handlers : ~Importing(g)
    BY DEF Commit, ImportInv, ImportShape, Job, Committing, Importing
<1>4. NoImportCall.step = "idle"
    BY DEF NoImportCall
<1> HIDE DEF call
<1>5. ImportShape' /\ FirstThePreview' /\ OneCommit' /\ AppliedOnce'
    BY <1>1, <1>2, <1>3, <1>4
    DEF ImportInv, ImportShape, FirstThePreview, OneCommit, AppliedOnce, Importing
<1>6. PreviewIsAlone'
    BY <1>1, <1>2, <1>3 DEF ImportInv, PreviewIsAlone
<1>7. FindsTheNew'
    <2>1. NewIn(Drafts \ Drafts)' = {} /\ \A S : NewIn(S)' = NewIn(S)
        BY <1>2 DEF NewIn
    <2>2. QED
        BY <1>1, <1>2, <1>3, <1>4, <2>1 DEF ImportInv, FindsTheNew, FoundNew, Importing
<1>8. QED
    BY <1>5, <1>6, <1>7 DEF ImportInv

LEMMA CommitImportStep ==
    ASSUME ImportInv, NEW h \in Handlers, CommitImport(h)
    PROVE  ImportInv'
<1> DEFINE made == importCall[h].made
<1>1. /\ importCall' \in [Handlers -> ImportCall] /\ importCall'[h] = NoImportCall
      /\ \A g \in Handlers \ {h} : importCall'[g] = importCall[g]
    BY NoCallIsACall, OneImportCall DEF CommitImport, ImportEnds
<1>2. /\ importCall[h].step = "rows" /\ importCall[h].left = {}
      /\ made \in SUBSET BusinessKeys /\ Importing(h)
    BY DEF CommitImport, ImportInv, ImportShape, ImportCall, Importing, NoImportCall
<1>3. /\ job' \in Job /\ job'.status = "committed" /\ job'.overlapped = job.overlapped
      /\ job'.applied = Tally(job.applied) /\ job'.drifted = job.drifted
      /\ job'.toCreate = job.toCreate
      /\ job'.created = [k \in BusinessKeys |-> IF k \in made THEN Tally(job.created[k])
                                                              ELSE job.created[k]]
    <2>1. job.applied \in 0 .. 2 /\ job.created \in [BusinessKeys -> 0 .. 2] /\ job \in Job
        BY DEF ImportInv, ImportShape, Job
    <2>2. \A n \in 0 .. 2 : Tally(n) \in 0 .. 2
        BY DEF Tally
    <2> DEFINE created == [k \in BusinessKeys |-> IF k \in made THEN Tally(job.created[k])
                                                 ELSE job.created[k]]
    <2>3. created \in [BusinessKeys -> 0 .. 2]
        BY <2>1, <2>2
    <2>4. job' = [job EXCEPT !.status = "committed", !.applied = Tally(@), !.created = created]
        BY <2>1 DEF CommitImport, Mark, Job
    <2> HIDE DEF created
    <2>5. /\ job' \in Job /\ job'.status = "committed" /\ job'.overlapped = job.overlapped
          /\ job'.applied = Tally(job.applied) /\ job'.drifted = job.drifted
          /\ job'.toCreate = job.toCreate /\ job'.created = created
        BY <2>1, <2>2, <2>3, <2>4 DEF Job
    <2>6. QED
        BY <2>5 DEF created
<1>4. stock' \in [BusinessKeys -> 0 .. MaxStock]
    BY <1>2, CatalogueAssumption DEF CommitImport, Plus, ImportInv, ImportShape
<1>5. NoImportCall.step = "idle"
    BY DEF NoImportCall
<1>6. ~job.overlapped =>
         /\ job.status \in {"previewed", "failed"} /\ job.applied = 0
         /\ \A k \in BusinessKeys : job.created[k] = 0
         /\ \A g \in Handlers : importCall'[g] = NoImportCall
    <2>1. job.created \in [BusinessKeys -> 0 .. 2]
        BY DEF ImportInv, ImportShape, Job
    <2>2. QED
        BY <1>1, <1>2, <2>1 DEF ImportInv, OneCommit, AppliedOnce, Importing
<1>7. ImportShape' /\ PreviewIsAlone' /\ FirstThePreview'
    BY <1>1, <1>2, <1>3, <1>4, <1>5
    DEF ImportInv, ImportShape, PreviewIsAlone, FirstThePreview, Importing
<1>8. OneCommit' /\ AppliedOnce'
    BY <1>3, <1>5, <1>6 DEF OneCommit, AppliedOnce, Importing, Tally
<1>9. FindsTheNew'
    <2> SUFFICES ASSUME ~job.overlapped, ~job.drifted
                 PROVE  job'.toCreate = {k \in BusinessKeys : job'.created[k] = 1}
        BY <1>3, <1>5, <1>6 DEF FindsTheNew, FoundNew
    <2>1. made = NewIn(Drafts) /\ job.toCreate = NewIn(Drafts)
        <3>1. Drafts \ {} = Drafts
            OBVIOUS
        <3>2. QED
            BY <1>2, <1>6, <3>1 DEF ImportInv, FindsTheNew, FoundNew
    <2>2. \A k \in BusinessKeys : job'.created[k] = IF k \in made THEN 1 ELSE 0
        BY <1>3, <1>6 DEF Tally
    <2>3. QED
        BY <1>2, <1>3, <2>1, <2>2
<1>10. QED
    BY <1>7, <1>8, <1>9 DEF ImportInv

LEMMA MarkFailedStep ==
    ASSUME ImportInv, NEW h \in Handlers, MarkFailed(h)
    PROVE  ImportInv'
<1>1. /\ importCall' \in [Handlers -> ImportCall] /\ importCall'[h] = NoImportCall
      /\ \A g \in Handlers \ {h} : importCall'[g] = importCall[g]
      /\ stock' = stock /\ importCall[h].step = "failed" /\ Importing(h)
    BY NoCallIsACall, OneImportCall DEF MarkFailed, ImportEnds, Importing, NoImportCall
<1>2. /\ job' \in Job /\ job'.status = "failed" /\ job'.overlapped = job.overlapped
      /\ job'.applied = job.applied /\ job'.created = job.created
      /\ job'.drifted = job.drifted /\ job'.toCreate = job.toCreate
    BY DEF MarkFailed, ImportInv, ImportShape, Job
<1>3. NoImportCall.step = "idle"
    BY DEF NoImportCall
<1>4. ~job.overlapped =>
         /\ job.status \in {"previewed", "failed"}
         /\ \A g \in Handlers : importCall'[g] = NoImportCall
    BY <1>1 DEF ImportInv, OneCommit, Importing
<1>5. ImportShape' /\ PreviewIsAlone' /\ FirstThePreview'
    BY <1>1, <1>2, <1>3
    DEF ImportInv, ImportShape, PreviewIsAlone, FirstThePreview, Importing
<1>6. OneCommit' /\ AppliedOnce'
    BY <1>2, <1>3, <1>4 DEF ImportInv, OneCommit, AppliedOnce, Importing
<1>7. FindsTheNew'
    <2>1. \A S : NewIn(S)' = NewIn(S)
        BY <1>1 DEF NewIn
    <2>2. QED
        BY <1>2, <1>3, <1>4, <2>1 DEF ImportInv, FindsTheNew, FoundNew
<1>8. QED
    BY <1>5, <1>6, <1>7 DEF ImportInv

LEMMA DriftStep ==
    ASSUME ImportInv, NEW k \in BusinessKeys, CreateVendor(k) \/ DeleteVendor(k)
    PROVE  ImportInv'
<1>1. /\ job' \in Job /\ job'.status = job.status /\ job'.overlapped = job.overlapped
      /\ job'.applied = job.applied /\ job'.created = job.created /\ job'.drifted
      /\ importCall' = importCall
    BY DEF CreateVendor, DeleteVendor, Drifts, ImportInv, ImportShape, Job
<1>2. stock' \in [BusinessKeys -> 0 .. MaxStock]
    BY CatalogueAssumption DEF CreateVendor, DeleteVendor, ImportInv, ImportShape
<1>3. QED
    BY <1>1, <1>2 DEF ImportInv, ImportShape, PreviewIsAlone, FirstThePreview, OneCommit,
       AppliedOnce, FindsTheNew, FoundNew, Importing

LEMMA ImportsRest ==
    ASSUME ImportInv, UNCHANGED <<stock, job, importCall>>
    PROVE  ImportInv'
BY DEF ImportInv, ImportShape, PreviewIsAlone, FirstThePreview, OneCommit, AppliedOnce,
   FindsTheNew, FoundNew, Importing, NewIn

LEMMA ImportsSteps == ImportInv /\ [CatalogueNext]_catalogueVars => ImportInv'
BY ImportsRest, UploadStep, LookUpStep, PreviewUploadStep, CommitStep,
   CommitImportStep, ImportEndsStep, MarkFailedStep, DriftStep
   DEF CatalogueNext, ImportsNext, catalogueVars, importVars

\* Unless two commits overlap, an import is applied as a whole and once, through
\* failures, retries and deaths, and makes the vendors that its preview announced.
THEOREM ImportsApply == CatalogueSpec => []ImportsApplyOnce
<1>1. ImportInv => ImportsApplyOnce
    BY DEF ImportInv, AppliedOnce, FindsTheNew, FoundNew, ImportsApplyOnce
<1>2. QED
    BY ImportsStart, ImportsSteps, <1>1, PTL DEF CatalogueSpec
-----------------------------------------------------------------------------
(* The bookings with a vendor.                                             *)

SlipShape ==
    /\ vendor \in [rate: Rates, deleted: BOOLEAN]
    /\ rates \subseteq Rates /\ vendor.rate \in rates
    /\ slip \in Seq(Slip) /\ Len(slip) <= MaxSlips
    /\ minted \in 0 .. MaxVouchers
    /\ vendorCall \in [Handlers -> VendorCall]

\* What a call has read: a rate that the vendor has had, a row that is there.
SlipCallFits(call, paid, n) ==
    /\ call.step \in {"assign", "update"} => call.rate \in paid
    /\ call.step = "assign" => call.amount \in Amounts
    /\ call.step \in {"update", "voucher"} => call.row \in 1 .. n
    /\ call.step = "voucher" => call.code \in 1 .. MaxVouchers /\ call.status \in SlipStatus

\* The codes that calls in flight are about to give a row.
Vouching(i) == {h \in Handlers : vendorCall[h].step = "voucher" /\ vendorCall[h].row = i}
Given(i) == {vendorCall[h].code : h \in Vouching(i)}

Priced(row, paid) ==
    /\ row.amount = None <=> row.commission = None
    /\ row.amount # None => \E rate \in paid : row.commission = row.amount * rate

\* Once a row has a code, every further call that could change it began before.
Coded(i) ==
    /\ slip[i].code = 0 => slip[i].codes = {}
    /\ slip[i].code # 0 => slip[i].code \in slip[i].codes
    /\ Cardinality(slip[i].codes \cup Given(i)) <= Cardinality(Handlers)

SlipInv ==
    /\ SlipShape
    /\ \A h \in Handlers : SlipCallFits(vendorCall[h], rates, Len(slip))
    /\ \A i \in 1 .. Len(slip) : Priced(slip[i], rates) /\ Coded(i)

LEMMA SlipHas ==
    ASSUME SlipInv
    PROVE  /\ Len(slip) \in Nat /\ DOMAIN slip = 1 .. Len(slip)
           /\ \A i \in 1 .. Len(slip) : slip[i] \in Slip /\ i \in 0 .. MaxSlips
           /\ \A h \in Handlers : vendorCall[h] \in VendorCall
<1>1. Len(slip) \in Nat /\ DOMAIN slip = 1 .. Len(slip)
      /\ \A i \in 1 .. Len(slip) : slip[i] \in Slip
    BY LenProperties, ElementOfSeq DEF SlipInv, SlipShape
<1>2. QED
    BY <1>1, CatalogueAssumption DEF SlipInv, SlipShape

\* Fewer codes, and no more codes than handlers that give one each.
LEMMA FewerCodes ==
    ASSUME NEW S \in SUBSET (1 .. MaxVouchers), NEW T \in SUBSET S,
           Cardinality(S) <= Cardinality(Handlers)
    PROVE  Cardinality(T) <= Cardinality(Handlers)
<1>1. IsFiniteSet(1 .. MaxVouchers)
    BY CatalogueAssumption, FS_Interval
<1>2. IsFiniteSet(S)
    BY <1>1, FS_Subset
<1>3. Cardinality(T) <= Cardinality(S) /\ Cardinality(T) \in Nat
      /\ Cardinality(S) \in Nat /\ Cardinality(Handlers) \in Nat
    BY <1>2, FeedbackAssumption, FS_Subset, FS_CardinalityType
<1>4. QED
    BY <1>3

LEMMA OneCodeEach ==
    ASSUME NEW f, NEW H \in SUBSET Handlers
    PROVE  Cardinality({f[h] : h \in H}) <= Cardinality(Handlers)
<1> DEFINE T == {f[h] : h \in H}
           g == [h \in H |-> f[h]]
<1>1. g \in Surjection(H, T)
    BY DEF Surjection
<1>2. IsFiniteSet(H) /\ Cardinality(H) <= Cardinality(Handlers)
      /\ Cardinality(H) \in Nat /\ Cardinality(Handlers) \in Nat
    BY FeedbackAssumption, FS_Subset, FS_CardinalityType
<1>3. IsFiniteSet(T) /\ Cardinality(T) <= Cardinality(H)
    BY <1>1, <1>2, FS_Surjection
<1>4. QED
    BY <1>2, <1>3, FS_CardinalityType

LEMMA GivenAreCodes ==
    ASSUME SlipInv, NEW i \in 1 .. Len(slip)
    PROVE  Given(i) \subseteq 1 .. MaxVouchers /\ slip[i].codes \subseteq 1 .. MaxVouchers
BY SlipHas DEF SlipInv, SlipCallFits, Given, Vouching, Slip

LEMMA NoVendorCallFits ==
    /\ NoVendorCall \in VendorCall /\ NoVendorCall.step = "idle"
BY CatalogueAssumption DEF NoVendorCall, VendorCall

\* A step of one call that gives no code: the rows' codes stay, or one row fewer
\* is about to get one.
LEMMA SlipStep ==
    ASSUME SlipInv, vendorCall' \in [Handlers -> VendorCall],
           \A g \in Handlers : \/ vendorCall'[g] = vendorCall[g]
                               \/ /\ vendorCall'[g].step # "voucher"
                                  /\ SlipCallFits(vendorCall'[g], rates', Len(slip')),
           vendor' \in [rate: Rates, deleted: BOOLEAN],
           rates \subseteq rates', rates' \subseteq Rates, vendor'.rate \in rates',
           minted' \in 0 .. MaxVouchers,
           slip' \in Seq(Slip), Len(slip') <= MaxSlips, Len(slip) <= Len(slip'),
           \A i \in 1 .. Len(slip') : Priced(slip'[i], rates'),
           \A i \in 1 .. Len(slip) :
              slip'[i].code = slip[i].code /\ slip'[i].codes = slip[i].codes,
           \A i \in 1 .. Len(slip') : i > Len(slip) => slip'[i].code = 0 /\ slip'[i].codes = {}
    PROVE  SlipInv'
<1>2. Len(slip) \in Nat /\ Len(slip') \in Nat
    BY SlipHas, LenProperties
<1>3. SlipShape'
    BY DEF SlipShape
<1>4. ASSUME NEW g \in Handlers PROVE SlipCallFits(vendorCall'[g], rates', Len(slip'))
    BY <1>2 DEF SlipInv, SlipCallFits
<1>5. \A i : Given(i)' \subseteq Given(i)
    BY DEF Given, Vouching
<1>6. ASSUME NEW i \in 1 .. Len(slip') PROVE Coded(i)'
    <2>1. CASE i \in 1 .. Len(slip)
        <3>1. slip'[i].codes = slip[i].codes /\ slip'[i].code = slip[i].code
            BY <2>1
        <3>2. (slip'[i].codes \cup Given(i)') \subseteq (slip[i].codes \cup Given(i))
            BY <1>5, <3>1
        <3>3. Cardinality(slip'[i].codes \cup Given(i)') <= Cardinality(Handlers)
            <4> DEFINE S == slip[i].codes \cup Given(i)
                       T == slip'[i].codes \cup Given(i)'
            <4>1. S \in SUBSET (1 .. MaxVouchers) /\ T \in SUBSET S
                BY <2>1, <3>2, GivenAreCodes
            <4>2. Cardinality(S) <= Cardinality(Handlers)
                BY <2>1 DEF SlipInv, Coded
            <4> HIDE DEF S, T
            <4>3. Cardinality(T) <= Cardinality(Handlers)
                BY <4>1, <4>2, FewerCodes
            <4>4. QED
                BY <4>3 DEF T
        <3>4. QED
            BY <2>1, <3>1, <3>3 DEF SlipInv, Coded
    <2>2. CASE i \notin 1 .. Len(slip)
        <3>1. slip'[i].code = 0 /\ slip'[i].codes = {}
            BY <1>2, <2>2
        <3>2. Given(i) = {}
            BY <2>2 DEF SlipInv, SlipCallFits, Given, Vouching
        <3>3. slip'[i].codes \cup Given(i)' = {}
            BY <1>5, <3>1, <3>2
        <3>4. Cardinality(slip'[i].codes \cup Given(i)') <= Cardinality(Handlers)
            <4>1. Cardinality(slip'[i].codes \cup Given(i)') = 0
                BY <3>3, FS_EmptySet
            <4>2. Cardinality(Handlers) \in Nat
                BY FS_CardinalityType, FeedbackAssumption
            <4>3. QED
                BY ONLY <4>1, <4>2
        <3>5. QED
            BY <3>1, <3>4 DEF Coded
    <2>3. QED
        BY <2>1, <2>2
<1>7. QED
    BY <1>3, <1>4, <1>6 DEF SlipInv

LEMMA RowAdded ==
    ASSUME SlipInv, NEW row \in Slip, slip' = Append(slip, row), Len(slip) < MaxSlips,
           row.code = 0, row.codes = {}, Priced(row, rates), rates' = rates
    PROVE  /\ slip' \in Seq(Slip) /\ Len(slip') <= MaxSlips /\ Len(slip) <= Len(slip')
           /\ \A i \in 1 .. Len(slip') : Priced(slip'[i], rates')
           /\ \A i \in 1 .. Len(slip) : slip'[i] = slip[i]
           /\ \A i \in 1 .. Len(slip') :
                 i > Len(slip) => slip'[i].code = 0 /\ slip'[i].codes = {}
<1>1. slip \in Seq(Slip) /\ Len(slip) \in Nat
    BY SlipHas DEF SlipInv, SlipShape
<1>2. /\ slip' \in Seq(Slip) /\ Len(slip') = Len(slip) + 1
      /\ \A i \in 1 .. Len(slip) : slip'[i] = slip[i]
      /\ slip'[Len(slip) + 1] = row
    BY <1>1
<1>3. ASSUME NEW i \in 1 .. Len(slip') PROVE Priced(slip'[i], rates')
    <2>1. CASE i \in 1 .. Len(slip)
        BY <1>2, <2>1 DEF SlipInv, Priced
    <2>2. CASE i = Len(slip) + 1
        BY <1>2, <2>2
    <2>3. QED
        BY <1>1, <1>2, <2>1, <2>2
<1>4. QED
    BY <1>1, <1>2, <1>3, CatalogueAssumption

LEMMA SlipRests ==
    ASSUME SlipInv, UNCHANGED <<slip, vendorCall>>,
           vendor' \in [rate: Rates, deleted: BOOLEAN],
           rates \subseteq rates', rates' \subseteq Rates, vendor'.rate \in rates',
           minted' = minted
    PROVE  SlipInv'
<1>1. SlipShape'
    BY DEF SlipInv, SlipShape
<1>2. ASSUME NEW g \in Handlers PROVE SlipCallFits(vendorCall'[g], rates', Len(slip'))
    BY DEF SlipInv, SlipCallFits
<1>3. ASSUME NEW i \in 1 .. Len(slip) PROVE (Priced(slip[i], rates) /\ Coded(i))'
    <2>1. Given(i)' = Given(i)
        BY DEF Given, Vouching
    <2>2. QED
        BY <2>1 DEF SlipInv, Priced, Coded
<1>4. QED
    BY <1>1, <1>2, <1>3 DEF SlipInv
LEMMA SlipsStart == CatalogueInit => SlipInv
<1> SUFFICES ASSUME CatalogueInit PROVE SlipInv
    OBVIOUS
<1>1. slip = <<>> /\ Len(slip) = 0 /\ slip \in Seq(Slip)
    BY EmptySeq DEF CatalogueInit, VendorsInit
<1>2. SlipShape
    BY <1>1, CatalogueAssumption, NoVendorCallFits DEF CatalogueInit, VendorsInit, SlipShape
<1>3. \A h \in Handlers : SlipCallFits(vendorCall[h], rates, Len(slip))
    BY NoVendorCallFits DEF CatalogueInit, VendorsInit, SlipCallFits
<1>4. QED
    BY <1>1, <1>2, <1>3 DEF SlipInv

\* A call begins or fails; the rows stay.
LEMMA SlipCallStep ==
    ASSUME SlipInv, NEW h \in Handlers, NEW call \in VendorCall, VendorGoes(h, call),
           call.step # "voucher", SlipCallFits(call, rates, Len(slip)),
           UNCHANGED <<vendor, rates, slip, minted>>
    PROVE  SlipInv'
<1>1. /\ vendorCall' \in [Handlers -> VendorCall] /\ vendorCall'[h] = call
      /\ \A g \in Handlers \ {h} : vendorCall'[g] = vendorCall[g]
    BY DEF VendorGoes, SlipInv, SlipShape
<1>2. \A g \in Handlers : \/ vendorCall'[g] = vendorCall[g]
                          \/ /\ vendorCall'[g].step # "voucher"
                             /\ SlipCallFits(vendorCall'[g], rates', Len(slip'))
    BY <1>1
<1>3. \A i \in 1 .. Len(slip') : Priced(slip'[i], rates')
    BY DEF SlipInv
<1>4. /\ Len(slip) \in Nat /\ slip \in Seq(Slip) /\ Len(slip) <= MaxSlips
      /\ vendor \in [rate: Rates, deleted: BOOLEAN] /\ rates \subseteq Rates
      /\ vendor.rate \in rates /\ minted \in 0 .. MaxVouchers
    BY SlipHas DEF SlipInv, SlipShape
<1>5. QED
    BY <1>1, <1>2, <1>3, <1>4, SlipStep

LEMMA SlipBegins ==
    ASSUME SlipInv, NEW h \in Handlers,
           \/ \E amount \in Amounts : Assign(h, amount)
           \/ \E i \in DOMAIN slip, amount \in Amounts \cup {None},
                 status \in SlipStatus \cup {None} : UpdateSlip(h, i, amount, status)
           \/ VendorCallFails(h)
    PROVE  SlipInv'
<1>1. vendor.rate \in rates /\ vendor.rate \in Rates
    BY DEF SlipInv, SlipShape
<1>2. ASSUME NEW amount \in Amounts, Assign(h, amount) PROVE SlipInv'
    <2> DEFINE call == [NoVendorCall EXCEPT !.step = "assign", !.amount = amount,
                                            !.rate = vendor.rate]
    <2>1. /\ call \in VendorCall /\ call.step = "assign" /\ call.amount = amount
          /\ call.rate = vendor.rate
        BY <1>1, NoVendorCallFits DEF VendorCall
    <2>2. VendorGoes(h, call) /\ UNCHANGED <<vendor, rates, slip, minted>>
        BY <1>2 DEF Assign
    <2> HIDE DEF call
    <2>3. SlipCallFits(call, rates, Len(slip))
        BY <1>1, <2>1 DEF SlipCallFits
    <2>4. QED
        BY <2>1, <2>2, <2>3, SlipCallStep
<1>3. ASSUME NEW i \in DOMAIN slip, NEW amount \in Amounts \cup {None},
             NEW status \in SlipStatus \cup {None}, UpdateSlip(h, i, amount, status)
      PROVE  SlipInv'
    <2> DEFINE call == [NoVendorCall EXCEPT !.step = "update", !.row = i,
                            !.rate = vendor.rate, !.amount = amount, !.status = status]
    <2>1. i \in 1 .. Len(slip) /\ i \in 0 .. MaxSlips
        BY SlipHas
    <2>2. /\ call \in VendorCall /\ call.step = "update" /\ call.row = i
          /\ call.rate = vendor.rate
        BY <1>1, <2>1, NoVendorCallFits DEF VendorCall
    <2>3. VendorGoes(h, call) /\ UNCHANGED <<vendor, rates, slip, minted>>
        BY <1>3 DEF UpdateSlip
    <2> HIDE DEF call
    <2>4. SlipCallFits(call, rates, Len(slip))
        BY <1>1, <2>1, <2>2 DEF SlipCallFits
    <2>5. QED
        BY <2>2, <2>3, <2>4, SlipCallStep
<1>4. CASE VendorCallFails(h)
    <2>1. SlipCallFits(NoVendorCall, rates, Len(slip))
        BY NoVendorCallFits DEF SlipCallFits
    <2>2. VendorGoes(h, NoVendorCall) /\ UNCHANGED <<vendor, rates, slip, minted>>
        BY <1>4 DEF VendorCallFails, VendorEnds
    <2>3. QED
        BY <2>1, <2>2, NoVendorCallFits, SlipCallStep
<1>5. QED
    BY <1>2, <1>3, <1>4

\* A call that writes ends.
LEMMA SlipEnds ==
    ASSUME SlipInv, NEW h \in Handlers, VendorEnds(h)
    PROVE  /\ vendorCall' \in [Handlers -> VendorCall] /\ vendorCall'[h] = NoVendorCall
           /\ \A g \in Handlers \ {h} : vendorCall'[g] = vendorCall[g]
           /\ \A g \in Handlers : \/ vendorCall'[g] = vendorCall[g]
                                  \/ /\ vendorCall'[g].step # "voucher"
                                     /\ SlipCallFits(vendorCall'[g], rates', Len(slip'))
<1>1. /\ vendorCall' \in [Handlers -> VendorCall] /\ vendorCall'[h] = NoVendorCall
      /\ \A g \in Handlers \ {h} : vendorCall'[g] = vendorCall[g]
    BY NoVendorCallFits DEF VendorEnds, VendorGoes, SlipInv, SlipShape
<1>2. NoVendorCall.step # "voucher" /\ SlipCallFits(NoVendorCall, rates', Len(slip'))
    BY NoVendorCallFits DEF SlipCallFits
<1>3. QED
    BY <1>1, <1>2

LEMMA SlipAdds ==
    ASSUME SlipInv, CustomerSlip \/ \E h \in Handlers : AssignWrite(h)
    PROVE  SlipInv'
<1>1. CASE CustomerSlip
    <2> DEFINE row == [status |-> "pending", amount |-> None, commission |-> None,
                       code |-> 0, codes |-> {}]
    <2>1. row \in Slip /\ row.code = 0 /\ row.codes = {} /\ Priced(row, rates)
        BY CatalogueAssumption DEF Slip, SlipStatus, Priced
    <2>2. /\ slip' = Append(slip, row) /\ Len(slip) < MaxSlips
          /\ UNCHANGED <<vendor, rates, minted, vendorCall>>
        BY <1>1 DEF CustomerSlip
    <2> HIDE DEF row
    <2>3. QED
        BY <2>1, <2>2, RowAdded, SlipStep DEF SlipInv, SlipShape
<1>2. ASSUME NEW h \in Handlers, AssignWrite(h) PROVE SlipInv'
    <2> DEFINE call == vendorCall[h]
               row == [status |-> "pending", amount |-> call.amount,
                       commission |-> call.amount * call.rate, code |-> 0, codes |-> {}]
    <2>1. /\ call.amount \in Amounts /\ call.amount \in Nat /\ call.rate \in rates
          /\ call.rate \in Nat
        BY <1>2, CatalogueAssumption DEF AssignWrite, SlipInv, SlipCallFits, SlipShape
    <2>2. call.amount * call.rate \in Nat
        BY <2>1
    <2>3. row \in Slip /\ row.code = 0 /\ row.codes = {} /\ Priced(row, rates)
        BY <2>1, <2>2, CatalogueAssumption DEF Slip, SlipStatus, Priced
    <2>4. /\ slip' = Append(slip, row) /\ Len(slip) < MaxSlips
          /\ UNCHANGED <<vendor, rates, minted>> /\ VendorEnds(h)
        BY <1>2 DEF AssignWrite
    <2> HIDE DEF row
    <2>5. QED
        BY <2>3, <2>4, RowAdded, SlipEnds, SlipStep DEF SlipInv, SlipShape
<1>3. QED
    BY <1>1, <1>2
\* A row is written over; its codes stay.
LEMMA RowWritten ==
    ASSUME SlipInv, NEW i \in 1 .. Len(slip), NEW row \in Slip,
           slip' = [slip EXCEPT ![i] = row]
    PROVE  /\ slip' \in Seq(Slip) /\ Len(slip') = Len(slip) /\ slip'[i] = row
           /\ \A j \in 1 .. Len(slip) : j # i => slip'[j] = slip[j]
<1>1. slip \in Seq(Slip)
    BY DEF SlipInv, SlipShape
<1>2. slip' \in Seq(Slip) /\ Len(slip') = Len(slip)
      /\ \A j \in 1 .. Len(slip) : slip'[j] = IF j = i THEN row ELSE slip[j]
    BY <1>1, ExceptSeq
<1>3. QED
    BY <1>2

LEMMA UpdateSlipWriteStep ==
    ASSUME SlipInv, NEW h \in Handlers, UpdateSlipWrite(h)
    PROVE  SlipInv'
<1> DEFINE call == vendorCall[h]
           i == call.row
           amount == IF call.amount = None THEN slip[i].amount ELSE call.amount
           commission == IF call.amount = None THEN slip[i].commission
                         ELSE call.amount * call.rate
           status == IF call.status = None THEN slip[i].status ELSE call.status
           priced == IF call.amount = None THEN slip[i]
                     ELSE [slip[i] EXCEPT !.amount = call.amount,
                                          !.commission = NewCommission(call, slip[i])]
           row == IF call.status = None THEN priced ELSE [priced EXCEPT !.status = call.status]
<1>1. /\ call.step = "update" /\ slip' = [slip EXCEPT ![i] = row] /\ VendorEnds(h)
      /\ UNCHANGED <<vendor, rates, minted>>
    BY DEF UpdateSlipWrite
<1>2. /\ i \in 1 .. Len(slip) /\ call.rate \in rates /\ call \in VendorCall
    BY <1>1, SlipHas DEF SlipInv, SlipCallFits
<1>3. /\ slip[i] \in Slip /\ Priced(slip[i], rates)
    BY <1>2, SlipHas DEF SlipInv
<1>4. /\ call.amount \in Amounts \cup {None} /\ call.status \in SlipStatus \cup {None}
      /\ call.rate \in Nat
    BY <1>2, CatalogueAssumption DEF VendorCall, SlipInv, SlipShape
<1>5. ASSUME call.amount # None
      PROVE  call.amount \in Amounts /\ call.amount \in Nat /\ call.amount * call.rate \in Nat
    <2>1. call.amount \in Amounts /\ call.amount \in Nat
        BY <1>4, <1>5, CatalogueAssumption
    <2> HIDE DEF call
    <2>2. QED
        BY <1>4, <2>1
<1> HIDE DEF call, i
<1>6. priced \in Slip /\ priced.code = slip[i].code /\ priced.codes = slip[i].codes
      /\ Priced(priced, rates)
    <2>1. CASE call.amount = None
        BY <1>3, <2>1
    <2>2. CASE call.amount # None
        <3> DEFINE cost == call.amount * call.rate
        <3>1. cost \in Nat /\ cost # None /\ call.amount \in Amounts /\ call.amount # None
            BY <1>5, <2>2, CatalogueAssumption
        <3>2. priced = [slip[i] EXCEPT !.amount = call.amount, !.commission = cost]
            BY <2>2 DEF NewCommission
        <3> HIDE DEF priced
        <3>3. \E rate \in rates : cost = call.amount * rate
            BY <1>2 DEF call
        <3> HIDE DEF cost
        <3>4. /\ priced \in Slip /\ priced.code = slip[i].code
              /\ priced.codes = slip[i].codes
              /\ priced.amount = call.amount /\ priced.commission = cost
            BY <1>3, <3>1, <3>2 DEF Slip
        <3>5. QED
            BY <3>1, <3>3, <3>4 DEF Priced
    <2>3. QED
        BY <2>1, <2>2
<1> HIDE DEF priced
<1>7. row \in Slip /\ row.code = slip[i].code /\ row.codes = slip[i].codes
      /\ Priced(row, rates)
    BY <1>4, <1>6 DEF Slip, Priced
<1> HIDE DEF row
<1>8. /\ slip' \in Seq(Slip) /\ Len(slip') = Len(slip) /\ slip'[i] = row
      /\ \A j \in 1 .. Len(slip) : j # i => slip'[j] = slip[j]
    BY <1>1, <1>2, <1>7, RowWritten
<1>9. \A j \in 1 .. Len(slip') : Priced(slip'[j], rates')
    BY <1>1, <1>7, <1>8 DEF SlipInv
<1>10. \A j \in 1 .. Len(slip) :
          slip'[j].code = slip[j].code /\ slip'[j].codes = slip[j].codes
    BY <1>7, <1>8
<1>11. /\ Len(slip) \in Nat /\ Len(slip) <= MaxSlips
       /\ vendor \in [rate: Rates, deleted: BOOLEAN] /\ rates \subseteq Rates
       /\ vendor.rate \in rates /\ minted \in 0 .. MaxVouchers
    BY SlipHas DEF SlipInv, SlipShape
<1>12. QED
    BY <1>1, <1>8, <1>9, <1>10, <1>11, SlipEnds, SlipStep

\* The codes of a row and of the calls about to give it one, after a step.
Codes(i) == slip[i].codes \cup Given(i)

\* A voucher call that begins or writes: each row keeps its price, and has no code
\* that it did not have and that no call was giving it, or else had none.
LEMMA VoucherStep ==
    ASSUME SlipInv, vendorCall' \in [Handlers -> VendorCall],
           \A g \in Handlers : SlipCallFits(vendorCall'[g], rates, Len(slip)),
           UNCHANGED <<vendor, rates>>, minted' \in 0 .. MaxVouchers,
           slip' \in Seq(Slip), Len(slip') = Len(slip),
           \A i \in 1 .. Len(slip) :
              /\ slip'[i].amount = slip[i].amount
              /\ slip'[i].commission = slip[i].commission
              /\ slip'[i].code = 0 => slip'[i].codes = {}
              /\ slip'[i].code # 0 => slip'[i].code \in slip'[i].codes
              /\ \/ Codes(i)' \subseteq Codes(i)
                 \/ slip'[i].codes = {}
    PROVE  SlipInv'
<1>1. SlipShape'
    BY DEF SlipInv, SlipShape
<1>2. ASSUME NEW i \in 1 .. Len(slip) PROVE (Priced(slip[i], rates) /\ Coded(i))'
    <2>1. Priced(slip'[i], rates')
        BY DEF SlipInv, Priced
    <2> DEFINE S == Codes(i)
               T == Codes(i)'
    <2>2. Cardinality(T) <= Cardinality(Handlers)
        <3>1. CASE T \subseteq S
            <4>1. S \in SUBSET (1 .. MaxVouchers) /\ Cardinality(S) <= Cardinality(Handlers)
                BY GivenAreCodes DEF SlipInv, Coded, Codes
            <4> HIDE DEF S, T
            <4>2. QED
                BY <3>1, <4>1, FewerCodes
        <3>2. CASE slip'[i].codes = {}
            <4> DEFINE f == [g \in Handlers |-> vendorCall'[g].code]
                       H == Vouching(i)'
            <4>1. H \in SUBSET Handlers /\ T = {f[g] : g \in H}
                BY <3>2 DEF Codes, Given, Vouching
            <4> HIDE DEF f, H, T
            <4>2. QED
                BY <4>1, OneCodeEach
        <3>3. QED
            BY <3>1, <3>2
    <2>3. QED
        BY <2>1, <2>2 DEF Coded, Codes
<1>3. QED
    BY <1>1, <1>2 DEF SlipInv

LEMMA GenerateVoucherStep ==
    ASSUME SlipInv, NEW h \in Handlers, NEW i \in DOMAIN slip, GenerateVoucher(h, i)
    PROVE  SlipInv'
<1> DEFINE code == IF slip[i].code = 0 THEN minted + 1 ELSE slip[i].code
           status == IF slip[i].status = "pending" THEN "confirmed" ELSE slip[i].status
           call == [NoVendorCall EXCEPT !.step = "voucher", !.row = i, !.code = code,
                                        !.status = status]
<1>1. i \in 1 .. Len(slip) /\ i \in 0 .. MaxSlips /\ slip[i] \in Slip
    BY SlipHas
<1>2. minted \in 0 .. MaxVouchers /\ MaxVouchers \in Nat
    BY CatalogueAssumption DEF SlipInv, SlipShape
<1>3. /\ vendorCall[h].step = "idle"
      /\ slip[i].code = 0 => minted < MaxVouchers
      /\ VendorGoes(h, call) /\ UNCHANGED <<vendor, rates, slip>>
      /\ minted' = IF slip[i].code = 0 THEN minted + 1 ELSE minted
    BY NoVendorCallFits DEF GenerateVoucher
<1>4. code \in 1 .. MaxVouchers /\ minted' \in 0 .. MaxVouchers
    <2>1. slip[i].code \in 0 .. MaxVouchers
        BY <1>1 DEF Slip
    <2>2. CASE slip[i].code = 0
        BY <1>2, <1>3, <2>2
    <2>3. CASE slip[i].code # 0
        BY <1>2, <1>3, <2>1, <2>3
    <2>4. QED
        BY <2>2, <2>3
<1>5. status \in SlipStatus
    BY <1>1 DEF Slip, SlipStatus
<1>6. slip[i].code # 0 => code \in slip[i].codes
    BY <1>1 DEF SlipInv, Coded
<1>6a. slip[i].code = 0 => slip[i].codes = {}
    BY <1>1 DEF SlipInv, Coded
<1> HIDE DEF code, status
<1>7. /\ call \in VendorCall /\ call.step = "voucher" /\ call.row = i /\ call.code = code
      /\ call.status = status
    <2>1. code \in 0 .. MaxVouchers /\ NoVendorCall \in VendorCall
        BY <1>2, <1>4, NoVendorCallFits
    <2>2. QED
        BY <1>1, <1>5, <2>1 DEF VendorCall
<1> HIDE DEF call
<1>8. /\ vendorCall' \in [Handlers -> VendorCall] /\ vendorCall'[h] = call
      /\ \A g \in Handlers \ {h} : vendorCall'[g] = vendorCall[g]
    BY <1>3, <1>7 DEF VendorGoes, SlipInv, SlipShape
<1>9. \A g \in Handlers : SlipCallFits(vendorCall'[g], rates, Len(slip))
    <2>1. SlipCallFits(call, rates, Len(slip))
        BY <1>1, <1>4, <1>5, <1>7 DEF SlipCallFits
    <2>2. QED
        BY <1>8, <2>1 DEF SlipInv
<1>10. ASSUME NEW j \in 1 .. Len(slip)
       PROVE  Codes(j)' \subseteq Codes(j) \/ slip'[j].codes = {}
    <2>1. CASE j = i /\ slip[i].code = 0
        BY <1>3, <1>6a, <2>1
    <2>2. CASE j # i
        <3>1. Given(j)' \subseteq Given(j)
            BY <1>7, <1>8, <2>2 DEF Given, Vouching
        <3>2. QED
            BY <1>3, <3>1 DEF Codes
    <2>3. CASE j = i /\ slip[i].code # 0
        <3>1. Given(i)' \subseteq Given(i) \cup {code}
            BY <1>7, <1>8 DEF Given, Vouching
        <3>2. QED
            BY <1>3, <1>6, <2>3, <3>1 DEF Codes
    <2>4. QED
        BY <2>1, <2>2, <2>3
<1>11. slip \in Seq(Slip) /\ \A j \in 1 .. Len(slip) :
          /\ slip[j].code = 0 => slip[j].codes = {}
          /\ slip[j].code # 0 => slip[j].code \in slip[j].codes
    BY DEF SlipInv, SlipShape, Coded
<1>12. QED
    BY <1>3, <1>4, <1>8, <1>9, <1>10, <1>11, VoucherStep

LEMMA VoucherWriteStep ==
    ASSUME SlipInv, NEW h \in Handlers, VoucherWrite(h)
    PROVE  SlipInv'
<1> DEFINE call == vendorCall[h]
           i == call.row
           row == [slip[i] EXCEPT !.code = call.code, !.status = call.status,
                                  !.codes = @ \cup {call.code}]
<1>1. call.step = "voucher" /\ VendorEnds(h) /\ UNCHANGED <<vendor, rates, minted>>
    BY DEF VoucherWrite
<1>2. /\ i \in 1 .. Len(slip) /\ call.code \in 1 .. MaxVouchers /\ call.status \in SlipStatus
    BY <1>1 DEF SlipInv, SlipCallFits
<1>3. slip[i] \in Slip /\ MaxVouchers \in Nat
    BY <1>2, SlipHas, CatalogueAssumption
<1>4. slip' = [slip EXCEPT ![i] = row]
    BY <1>2, <1>3, SlipHas DEF VoucherWrite, Slip
<1>5. call.code \in Given(i)
    BY <1>1 DEF Given, Vouching
<1> HIDE DEF call, i
<1>6. /\ row \in Slip /\ row.code = call.code /\ row.codes = slip[i].codes \cup {call.code}
      /\ row.amount = slip[i].amount /\ row.commission = slip[i].commission
    <2>1. /\ call.code \in 0 .. MaxVouchers
          /\ slip[i].codes \cup {call.code} \in SUBSET (1 .. MaxVouchers)
        BY <1>2, <1>3 DEF Slip
    <2>2. QED
        BY <1>2, <1>3, <2>1 DEF Slip
<1> HIDE DEF row
<1>7. /\ slip' \in Seq(Slip) /\ Len(slip') = Len(slip) /\ slip'[i] = row
      /\ \A j \in 1 .. Len(slip) : j # i => slip'[j] = slip[j]
    BY <1>2, <1>4, <1>6, RowWritten
<1>8. /\ vendorCall' \in [Handlers -> VendorCall] /\ vendorCall'[h] = NoVendorCall
      /\ \A g \in Handlers \ {h} : vendorCall'[g] = vendorCall[g]
      /\ \A g \in Handlers : \/ vendorCall'[g] = vendorCall[g]
                             \/ SlipCallFits(vendorCall'[g], rates', Len(slip'))
    BY <1>1, SlipEnds
<1>9. \A g \in Handlers : SlipCallFits(vendorCall'[g], rates, Len(slip))
    BY <1>1, <1>7, <1>8 DEF SlipInv
<1>10. ASSUME NEW j \in 1 .. Len(slip) PROVE Codes(j)' \subseteq Codes(j)
    <2>1. Given(j)' \subseteq Given(j)
        BY <1>8, NoVendorCallFits DEF Given, Vouching
    <2>2. CASE j # i
        BY <1>7, <2>1, <2>2 DEF Codes
    <2>3. CASE j = i
        <3>1. slip'[i].codes = slip[i].codes \cup {call.code}
            BY <1>6, <1>7
        <3>2. QED
            BY <1>5, <2>1, <2>3, <3>1 DEF Codes
    <2>4. QED
        BY <2>2, <2>3
<1>11. ASSUME NEW j \in 1 .. Len(slip)
       PROVE  /\ slip'[j].amount = slip[j].amount
              /\ slip'[j].commission = slip[j].commission
              /\ slip'[j].code = 0 => slip'[j].codes = {}
              /\ slip'[j].code # 0 => slip'[j].code \in slip'[j].codes
    <2>1. CASE j # i
        BY <1>7, <2>1 DEF SlipInv, Coded
    <2>2. CASE j = i
        <3>1. call.code # 0
            BY <1>2
        <3>2. QED
            BY <1>6, <1>7, <2>2, <3>1
    <2>3. QED
        BY <2>1, <2>2
<1>12. minted \in 0 .. MaxVouchers
    BY DEF SlipInv, SlipShape
<1>13. QED
    BY <1>1, <1>7, <1>8, <1>9, <1>10, <1>11, <1>12, VoucherStep

LEMMA VendorRowStep ==
    ASSUME SlipInv,
           RemoveVendor \/ VendorNotFound \/ \E rate \in Rates : UpdateVendor(rate)
    PROVE  SlipInv'
<1>1. /\ vendor \in [rate: Rates, deleted: BOOLEAN] /\ rates \subseteq Rates
      /\ vendor.rate \in rates
    BY DEF SlipInv, SlipShape
<1>2. CASE RemoveVendor
    BY <1>1, <1>2, SlipRests DEF RemoveVendor
<1>3. CASE VendorNotFound
    BY <1>1, <1>3, SlipRests DEF VendorNotFound, vendorVars
<1>4. ASSUME NEW rate \in Rates, UpdateVendor(rate) PROVE SlipInv'
    BY <1>1, <1>4, SlipRests DEF UpdateVendor
<1>5. QED
    BY <1>2, <1>3, <1>4

LEMMA SlipsSteps == SlipInv /\ [CatalogueNext]_catalogueVars => SlipInv'
<1> SUFFICES ASSUME SlipInv, [CatalogueNext]_catalogueVars PROVE SlipInv'
    OBVIOUS
<1>1. CASE UNCHANGED vendorVars
    <2>1. vendor \in [rate: Rates, deleted: BOOLEAN] /\ rates \subseteq Rates
          /\ vendor.rate \in rates
        BY DEF SlipInv, SlipShape
    <2>2. QED
        BY <1>1, <2>1, SlipRests DEF vendorVars
<1>2. ASSUME NEW h \in Handlers,
             \/ \E amount \in Amounts : Assign(h, amount)
             \/ \E i \in DOMAIN slip :
                   \/ \E amount \in Amounts \cup {None}, status \in SlipStatus \cup {None} :
                         UpdateSlip(h, i, amount, status)
                   \/ GenerateVoucher(h, i)
             \/ UpdateSlipWrite(h) \/ VoucherWrite(h) \/ VendorCallFails(h)
      PROVE  SlipInv'
    BY <1>2, SlipBegins, UpdateSlipWriteStep, GenerateVoucherStep, VoucherWriteStep
<1>3. CASE VendorsNext
    BY <1>2, <1>3, VendorRowStep, SlipAdds DEF VendorsNext
<1>4. QED
    BY <1>1, <1>3 DEF CatalogueNext, catalogueVars

\* Every row's amount and commission belong together, at a rate the vendor has had,
\* and no row has had more voucher codes than there are requests in flight: for any
\* number of handlers, and though every call writes what it read earlier.
THEOREM SlipsFit == CatalogueSpec => []SlipsAddUp
<1>1. SlipInv => SlipsAddUp
    <2> SUFFICES ASSUME SlipInv PROVE SlipsAddUp
        OBVIOUS
    <2>1. ASSUME NEW i \in 1 .. Len(slip)
          PROVE  /\ Cardinality(slip[i].codes) <= Cardinality(Handlers)
                 /\ slip[i].codes # {} => slip[i].code \in slip[i].codes
        <3> DEFINE S == Codes(i)
                   T == slip[i].codes
        <3>1. S \in SUBSET (1 .. MaxVouchers) /\ Cardinality(S) <= Cardinality(Handlers)
              /\ T \in SUBSET S
            BY GivenAreCodes DEF SlipInv, Coded, Codes
        <3>2. slip[i].codes # {} => slip[i].code \in slip[i].codes
            BY DEF SlipInv, Coded
        <3> HIDE DEF S
        <3>3. Cardinality(T) <= Cardinality(Handlers)
            BY <3>1, FewerCodes
        <3>4. QED
            BY <3>2, <3>3
    <2>2. QED
        BY <2>1, SlipHas DEF SlipInv, Priced, SlipsAddUp
<1>2. QED
    BY SlipsStart, SlipsSteps, <1>1, PTL DEF CatalogueSpec

\* The vendor, the bookings, the stock and the import have their types: rows never run
\* past MaxSlips, nor codes past MaxVouchers, nor vendors of a key past MaxStock.
THEOREM CatalogueTypeCorrect == CatalogueSpec => []CatalogueTypeOK
<1>1. SlipInv /\ ImportInv => CatalogueTypeOK
    BY DEF SlipInv, SlipShape, ImportInv, ImportShape, CatalogueTypeOK
<1>2. QED
    BY SlipsStart, SlipsSteps, ImportsStart, ImportsSteps, <1>1, PTL DEF CatalogueSpec

-----------------------------------------------------------------------------
(* The dashboard.                                                          *)

\* A request has its fields, whatever numbers and lists it has got; so has a report.
ViewOf(Any) == [step: Any, of: Any, day: Any, left: Any, moments: Any, got: Any]
IsView(call) == \E Any : call \in ViewOf(Any)
ReportOf(Any) == [content: Any, truth: Any, calm: Any, sent: Any]
IsReport(row) == \E Any : row \in ReportOf(Any)

\* A call that may still set a key saw the rows otherwise only since they last rested,
\* and a key that was set of such has been there for as long as they rest.
CallIsDated(call, rows, ticks) ==
    /\ IsView(call)
    /\ call.step \in {"read", "set", "insert"} => rows \in call.moments
    /\ /\ call.step \in {"read", "set"} /\ call.of # "report" /\ call.moments # {rows}
       => ticks = 0
    /\ /\ call.step \in {"set", "insert"} /\ call.moments = {rows}
       => call.got = Answers(rows)
    /\ call.step = "set" => call.of # "report"
    /\ call.left \subseteq Cards /\ call.of \in Cards \cup {"report"}

KeyIsDated(c, payload, old, still, rows, ticks) ==
    /\ still => payload \in {None, Payload(c, Answers(rows))}
    /\ ~still => old >= ticks
    /\ old < TTL

ReportStands(row) == IsReport(row) /\ (row.calm => row.content = row.truth)
ReportsStand(rows) ==
    /\ DOMAIN rows = ReportDates
    /\ \A d \in ReportDates : rows[d] # None => ReportStands(rows[d])

DashboardInv ==
    /\ settled \in 0 .. TTL
    /\ now = [r \in Rows |-> now[r]]
    /\ card = [c \in Cards |-> card[c]]
    /\ age \in [Cards -> Nat] /\ calm \in [Cards -> BOOLEAN]
    /\ view = [h \in Handlers |-> view[h]]
    /\ \A h \in Handlers : CallIsDated(view[h], now, settled)
    /\ \A h \in Handlers : view[h].step = "send" =>
          view[h].day \in ReportDates /\ ReportStands(report[view[h].day])
    /\ \A c \in Cards : KeyIsDated(c, card[c], age[c], calm[c], now, settled)
    /\ ReportsStand(report)

\* What a request is after it has opened, read, or set a key.
LEMMA ViewOpened ==
    ASSUME NEW s, NEW of, NEW d, NEW m
    PROVE  LET call == Opened(s, of, d, m)
           IN  IsView(call) /\ call.step = s /\ call.of = of /\ call.day = d
               /\ call.moments = m /\ call.left = {}
<1> DEFINE call == Opened(s, of, d, m)
<1>1. call \in ViewOf({s, of, d, {}, m, None})
    BY DEF ViewOf, Opened
<1>2. IsView(call)
    BY <1>1 DEF IsView
<1>3. /\ call.step = s /\ call.of = of /\ call.day = d
      /\ call.moments = m /\ call.left = {}
    BY DEF Opened
<1>4. QED
    BY <1>2, <1>3

LEMMA IdleIsDated ==
    /\ NoView.step = "idle"
    /\ \A rows, ticks : CallIsDated(NoView, rows, ticks)
<1>1. IsView(NoView) /\ NoView.step = "idle" /\ NoView.left = {} /\ NoView.of = "report"
    BY ViewOpened DEF NoView
<1>2. QED
    BY <1>1 DEF CallIsDated

LEMMA ViewLeft ==
    ASSUME NEW call, IsView(call), NEW l, NEW new, new = [call EXCEPT !.left = l]
    PROVE  IsView(new) /\ new.step = call.step /\ new.left = l /\ new.got = call.got
           /\ new.of = call.of /\ new.moments = call.moments
<1>1. PICK Any : call \in ViewOf(Any)
    BY DEF IsView
<1>2. new \in ViewOf(Any \cup {l})
    BY <1>1 DEF ViewOf
<1>3. QED
    BY <1>1, <1>2 DEF IsView, ViewOf

LEMMA ViewSaw ==
    ASSUME NEW call, IsView(call), NEW m, NEW new, new = [call EXCEPT !.moments = m]
    PROVE  IsView(new) /\ new.step = call.step /\ new.left = call.left
           /\ new.got = call.got /\ new.of = call.of /\ new.moments = m
           /\ new.day = call.day
<1>1. PICK Any : call \in ViewOf(Any)
    BY DEF IsView
<1>2. new \in ViewOf(Any \cup {m})
    BY <1>1 DEF ViewOf
<1>3. QED
    BY <1>1, <1>2 DEF IsView, ViewOf

LEMMA DashboardStart == DashboardInit => DashboardInv
<1> SUFFICES ASSUME DashboardInit PROVE DashboardInv
    OBVIOUS
<1>1. \A c \in Cards : KeyIsDated(c, card[c], age[c], calm[c], now, settled)
    BY DashboardAssumption DEF DashboardInit, KeyIsDated
<1>2. settled \in 0 .. TTL
    BY DashboardAssumption DEF DashboardInit
<1>3. ReportsStand(report)
    BY DEF DashboardInit, ReportsStand
<1>4. QED
    BY <1>1, <1>2, <1>3, IdleIsDated DEF DashboardInit, DashboardInv

\* A step of one call that leaves the rows, the keys and the time alone.
LEMMA ViewMoves ==
    ASSUME DashboardInv, UNCHANGED <<now, cardVars, settled>>, NEW h \in Handlers, NEW call,
           ViewIs(h, call), CallIsDated(call, now, settled),
           ReportsStand(report'),
           \A d \in ReportDates : ReportStands(report[d]) => ReportStands(report'[d]),
           call.step = "send" => call.day \in ReportDates /\ ReportStands(report'[call.day])
    PROVE  DashboardInv'
<1>1. /\ view'[h] = call /\ \A g \in Handlers \ {h} : view'[g] = view[g]
      /\ view' = [g \in Handlers |-> view'[g]]
    BY DEF DashboardInv, ViewIs
<1>2. \A g \in Handlers : CallIsDated(view'[g], now', settled')
    BY <1>1 DEF DashboardInv
<1>3. \A g \in Handlers : view'[g].step = "send" =>
          view'[g].day \in ReportDates /\ ReportStands(report'[view'[g].day])
    BY <1>1 DEF DashboardInv
<1>4. QED
    BY <1>1, <1>2, <1>3 DEF DashboardInv, cardVars

LEMMA OpenCardStep ==
    ASSUME DashboardInv, NEW h \in Handlers, NEW c \in Cards, OpenCard(h, c)
    PROVE  DashboardInv'
<1> DEFINE call == Opened("read", c, None, {now})
<1>1. ViewIs(h, call) /\ UNCHANGED <<now, cardVars, settled, report>>
    BY DEF OpenCard, Opens
<1>2. IsView(call) /\ call.step = "read" /\ call.moments = {now} /\ call.left = {}
      /\ call.of \in Cards \cup {"report"}
    BY ViewOpened
<1> HIDE DEF call
<1>3. CallIsDated(call, now, settled)
    BY <1>2 DEF CallIsDated
<1>4. QED
    BY <1>1, <1>2, <1>3, ViewMoves DEF DashboardInv

LEMMA CreateReportStep ==
    ASSUME DashboardInv, NEW h \in Handlers, NEW d \in ReportDates, CreateReport(h, d)
    PROVE  DashboardInv'
<1> DEFINE call == Opened("read", "report", d, {now})
<1>1. ViewIs(h, call) /\ UNCHANGED <<now, cardVars, settled, report>>
    BY DEF CreateReport, Opens
<1>2. IsView(call) /\ call.step = "read" /\ call.moments = {now} /\ call.left = {}
      /\ call.of \in Cards \cup {"report"}
    BY ViewOpened
<1> HIDE DEF call
<1>3. CallIsDated(call, now, settled)
    BY <1>2 DEF CallIsDated
<1>4. QED
    BY <1>1, <1>2, <1>3, ViewMoves DEF DashboardInv

LEMMA SendReportStep ==
    ASSUME DashboardInv, NEW h \in Handlers, NEW d \in ReportDates, SendReport(h, d)
    PROVE  DashboardInv'
<1> DEFINE call == Opened("send", "report", d, {})
<1>1. ViewIs(h, call) /\ UNCHANGED <<now, cardVars, settled, report>>
      /\ ReportStands(report[d])
    BY DEF SendReport, Opens, DashboardInv, ReportsStand
<1>2. IsView(call) /\ call.step = "send" /\ call.day = d /\ call.left = {}
      /\ call.of = "report"
    BY ViewOpened
<1> HIDE DEF call
<1>3. CallIsDated(call, now, settled)
    BY <1>2 DEF CallIsDated
<1>4. QED
    BY <1>1, <1>2, <1>3, ViewMoves DEF DashboardInv

LEMMA ViewFailsStep ==
    ASSUME DashboardInv, NEW h \in Handlers, ViewFails(h)
    PROVE  DashboardInv'
<1>1. ViewIs(h, NoView) /\ UNCHANGED <<now, cardVars, settled, report>>
    BY DEF ViewFails, ViewEnds
<1>2. QED
    BY <1>1, IdleIsDated, ViewMoves DEF DashboardInv

LEMMA MarkSentStep ==
    ASSUME DashboardInv, NEW h \in Handlers, MarkSent(h)
    PROVE  DashboardInv'
<1> DEFINE d == view[h].day
           row == [report[d] EXCEPT !.sent = TRUE]
<1>1. /\ ViewIs(h, NoView) /\ UNCHANGED <<now, cardVars, settled>>
      /\ report' = [report EXCEPT ![d] = row]
    BY DEF MarkSent, ViewEnds
<1>2. d \in ReportDates /\ ReportStands(report[d])
    BY DEF MarkSent, DashboardInv
<1>3. PICK Any : report[d] \in ReportOf(Any)
    BY <1>2 DEF ReportStands, IsReport
<1>4. /\ row \in ReportOf(Any \cup {TRUE}) /\ row.calm = report[d].calm
      /\ row.content = report[d].content /\ row.truth = report[d].truth
    BY <1>3 DEF ReportOf
<1>5. ReportStands(row)
    BY <1>2, <1>4 DEF IsReport, ReportStands
<1> HIDE DEF row, d
<1>6. report'[d] = row /\ \A e \in ReportDates \ {d} : report'[e] = report[e]
    BY <1>1, <1>2 DEF DashboardInv, ReportsStand
<1>7. ReportsStand(report')
    BY <1>1, <1>5, <1>6 DEF DashboardInv, ReportsStand
<1>8. QED
    BY <1>1, <1>5, <1>6, <1>7, IdleIsDated, ViewMoves

\* The keys are as they were, or their payload is none; so the cards of a step that
\* drops keys are dated still.
LEMMA DroppedIsDated ==
    ASSUME NEW c, NEW rows, NEW ticks
    PROVE  KeyIsDated(c, None, 0, TRUE, rows, ticks)
BY DashboardAssumption DEF KeyIsDated

LEMMA ComputeStep ==
    ASSUME DashboardInv, NEW h \in Handlers, Compute(h)
    PROVE  DashboardInv'
<1> DEFINE call == view[h]
           s == IF call.of = "report" THEN "insert" ELSE "set"
           l == CASE call.of = "report" -> {}
                  [] call.of = "overview" -> Cards \ {"schedule"}
                  [] OTHER -> {call.of}
<1>1. CallIsDated(call, now, settled)
    BY DEF DashboardInv
<1>2. PICK got \in {Answers(m) : m \in call.moments}
                   \cup (IF call.moments = {now} THEN {} ELSE {Mixed}) :
         ViewIs(h, [call EXCEPT !.step = s, !.left = l, !.got = got])
    BY Zenon DEF Compute
<1>3. /\ UNCHANGED <<now, cardVars, settled, report>> /\ call.step = "read"
    BY DEF Compute
<1>4. call.moments = {now} => got = Answers(now)
    BY <1>2
<1>5. call.of # "report" => l \subseteq Cards
    BY <1>1 DEF CallIsDated, Cards
<1>6. l \subseteq Cards
    BY <1>5
<1> DEFINE new == [call EXCEPT !.step = s, !.left = l, !.got = got]
<1>7. /\ IsView(new) /\ new.step = s /\ new.left = l /\ new.got = got
      /\ new.of = call.of /\ new.moments = call.moments
    <2> HIDE DEF s, l
    <2>1. PICK Any : call \in ViewOf(Any)
        BY <1>1 DEF CallIsDated, IsView
    <2>2. new \in ViewOf(Any \cup {s, l, got})
        BY <2>1 DEF ViewOf
    <2>3. IsView(new)
        BY <2>2 DEF IsView
    <2>4. QED
        BY <2>1, <2>2, <2>3 DEF ViewOf
<1>8. s \in {"insert", "set"} /\ (s = "set" => call.of # "report")
    OBVIOUS
<1> HIDE DEF new, s, l
<1>9. CallIsDated(new, now, settled)
    BY <1>1, <1>3, <1>4, <1>6, <1>7, <1>8 DEF CallIsDated
<1>10. ViewIs(h, new) /\ new.step # "send"
    BY <1>2, <1>7, <1>8 DEF new
<1>11. ReportsStand(report') /\ UNCHANGED report
    BY <1>3 DEF DashboardInv
<1>12. QED
    BY <1>3, <1>9, <1>10, <1>11, ViewMoves

LEMMA InsertReportStep ==
    ASSUME DashboardInv, NEW h \in Handlers, InsertReport(h)
    PROVE  DashboardInv'
<1> DEFINE call == view[h]
<1>1. CallIsDated(call, now, settled)
    BY DEF DashboardInv
<1>2. UNCHANGED <<now, cardVars, settled>> /\ call.step = "insert"
    BY DEF InsertReport
<1>3. CASE report[call.day] # None
    <2>1. ViewIs(h, NoView) /\ UNCHANGED report
        BY <1>3 DEF InsertReport, ViewEnds
    <2>2. QED
        BY <1>2, <2>1, IdleIsDated, ViewMoves DEF DashboardInv
<1>4. CASE report[call.day] = None
    <2> DEFINE row == [content |-> Payload("summary", call.got), truth |-> Says("summary"),
                       calm |-> ~SawChange(h), sent |-> FALSE]
               new == Opened("drop", "report", None, {})
    <2>1. ViewIs(h, new) /\ report' = [report EXCEPT ![call.day] = row]
        BY <1>4 DEF InsertReport
    <2>2. row \in ReportOf({row.content, row.truth, row.calm, row.sent})
        BY DEF ReportOf
    <2>3. row.calm => call.moments = {now}
        BY <1>2 DEF SawChange
    <2>4. row.calm => row.content = row.truth
        BY <1>1, <1>2, <2>3 DEF CallIsDated, Says
    <2>5. ReportStands(row)
        BY <2>2, <2>4 DEF ReportStands, IsReport
    <2>6. IsView(new) /\ new.step = "drop" /\ new.left = {} /\ new.of = "report"
        BY ViewOpened
    <2> HIDE DEF row, new
    <2>7. CallIsDated(new, now, settled)
        BY <2>6 DEF CallIsDated
    <2>8. DOMAIN report' = ReportDates
          /\ \A d \in ReportDates : report'[d] \in {report[d], row}
        BY <2>1 DEF DashboardInv, ReportsStand
    <2>9. /\ ReportsStand(report')
          /\ \A d \in ReportDates : ReportStands(report[d]) => ReportStands(report'[d])
        BY <2>5, <2>8 DEF DashboardInv, ReportsStand
    <2>10. QED
        BY <1>2, <2>1, <2>6, <2>7, <2>9, ViewMoves
<1>5. QED
    BY <1>3, <1>4

\* A key that was set of what the rows had been is a new one, and they have not rested.
LEMMA SetKeyStep ==
    ASSUME DashboardInv, NEW h \in Handlers, NEW c \in Cards, SetKey(h, c)
    PROVE  DashboardInv'
<1> DEFINE call == view[h]
           payload == Payload(c, call.got)
           still == ~SawChange(h)
           less == [call EXCEPT !.left = call.left \ {c}]
           new == IF call.left = {c} THEN NoView ELSE less
<1>1. CallIsDated(call, now, settled)
    BY DEF DashboardInv
<1>2. /\ call.step = "set" /\ ViewIs(h, new) /\ UNCHANGED <<now, settled, report>>
      /\ card' = [card EXCEPT ![c] = payload] /\ age' = [age EXCEPT ![c] = 0]
      /\ calm' = [calm EXCEPT ![c] = still]
    BY DEF SetKey
<1>3. /\ IsView(less) /\ less.step = call.step /\ less.left = call.left \ {c}
      /\ less.got = call.got /\ less.of = call.of /\ less.moments = call.moments
    BY <1>1, ViewLeft DEF CallIsDated
<1>4. CallIsDated(less, now, settled)
    <2> HIDE DEF less
    <2> QED BY <1>1, <1>3 DEF CallIsDated
<1>5. CallIsDated(new, now, settled) /\ new.step # "send"
    BY <1>2, <1>3, <1>4, IdleIsDated
<1>6. still => payload = Payload(c, Answers(now))
    BY <1>1, <1>2 DEF SawChange, CallIsDated
<1>7. ~still => settled = 0
    BY <1>1, <1>2 DEF SawChange, CallIsDated
<1>8. KeyIsDated(c, payload, 0, still, now, settled)
    BY <1>6, <1>7, DashboardAssumption DEF KeyIsDated
<1>9. still \in BOOLEAN
    BY DEF SawChange
<1> HIDE DEF new, less, payload, still
<1>10. \A e \in Cards : KeyIsDated(e, card'[e], age'[e], calm'[e], now, settled)
    <2> TAKE e \in Cards
    <2>1. CASE e = c
        BY <1>2, <1>8, <2>1 DEF DashboardInv
    <2>2. CASE e # c
        <3>1. card'[e] = card[e] /\ age'[e] = age[e] /\ calm'[e] = calm[e]
            BY <1>2, <2>2 DEF DashboardInv
        <3>2. QED
            BY <3>1 DEF DashboardInv
    <2>3. QED
        BY <2>1, <2>2
<1>11. /\ card' = [e \in Cards |-> card'[e]]
       /\ age' \in [Cards -> Nat] /\ calm' \in [Cards -> BOOLEAN]
    BY <1>2, <1>9 DEF DashboardInv
<1>12. /\ view'[h] = new /\ \A g \in Handlers \ {h} : view'[g] = view[g]
       /\ view' = [g \in Handlers |-> view'[g]]
    BY <1>2 DEF DashboardInv, ViewIs
<1>13. \A g \in Handlers : CallIsDated(view'[g], now', settled')
    BY <1>2, <1>5, <1>12 DEF DashboardInv
<1>14. \A g \in Handlers : view'[g].step = "send" =>
          view'[g].day \in ReportDates /\ ReportStands(report'[view'[g].day])
    BY <1>2, <1>5, <1>12 DEF DashboardInv
<1>15. QED
    BY <1>2, <1>10, <1>11, <1>12, <1>13, <1>14 DEF DashboardInv

LEMMA DropKeysStep ==
    ASSUME DashboardInv, NEW h \in Handlers, DropKeys(h)
    PROVE  DashboardInv'
<1> DEFINE dropped == Cards \ {"schedule"}
<1>1. /\ ViewIs(h, NoView) /\ UNCHANGED <<now, settled, report>>
      /\ card' = [c \in Cards |-> IF c \in dropped THEN None ELSE card[c]]
      /\ age' = [c \in Cards |-> IF c \in dropped THEN 0 ELSE age[c]]
      /\ calm' = [c \in Cards |-> c \in dropped \/ calm[c]]
    BY DEF DropKeys, ViewEnds
<1> HIDE DEF dropped
<1>2. \A e \in Cards : KeyIsDated(e, card'[e], age'[e], calm'[e], now, settled)
    <2> TAKE e \in Cards
    <2>1. CASE e \in dropped
        <3>1. card'[e] = None /\ age'[e] = 0 /\ calm'[e] = TRUE
            BY <1>1, <2>1
        <3>2. QED
            BY <3>1, DroppedIsDated
    <2>2. CASE e \notin dropped
        <3>1. calm'[e] = (e \in dropped \/ calm[e])
            BY <1>1
        <3>2. card'[e] = card[e] /\ age'[e] = age[e] /\ calm'[e] = calm[e]
            BY <1>1, <2>2, <3>1 DEF DashboardInv
        <3>3. QED
            BY <3>2 DEF DashboardInv
    <2>3. QED
        BY <2>1, <2>2
<1>3. /\ card' = [e \in Cards |-> card'[e]]
      /\ age' \in [Cards -> Nat] /\ calm' \in [Cards -> BOOLEAN]
    BY <1>1 DEF DashboardInv
<1>4. /\ view'[h] = NoView /\ \A g \in Handlers \ {h} : view'[g] = view[g]
      /\ view' = [g \in Handlers |-> view'[g]]
    BY <1>1 DEF DashboardInv, ViewIs
<1>5. \A g \in Handlers : CallIsDated(view'[g], now', settled')
    BY <1>1, <1>4, IdleIsDated DEF DashboardInv
<1>6. \A g \in Handlers : view'[g].step = "send" =>
          view'[g].day \in ReportDates /\ ReportStands(report'[view'[g].day])
    BY <1>1, <1>4, IdleIsDated DEF DashboardInv
<1>7. QED
    BY <1>1, <1>2, <1>3, <1>4, <1>5, <1>6 DEF DashboardInv

\* A row that changes leaves no call that saw only what the rows are now.
LEMMA RowChangesStep ==
    ASSUME DashboardInv, NEW r \in Rows, RowChanges(r)
    PROVE  DashboardInv'
<1> DEFINE Reading(g) == view[g].step \in {"read", "set", "insert"}
           seen(g) == [view[g] EXCEPT !.moments = view[g].moments \cup {now'}]
<1>1. /\ now' # now /\ settled' = 0 /\ UNCHANGED <<card, age, report>>
      /\ now' = [q \in Rows |-> now'[q]]
      /\ view' = [g \in Handlers |-> IF Reading(g) THEN seen(g) ELSE view[g]]
      /\ calm' = [c \in Cards |-> card[c] = None]
    <2>1. now' # now
        <3>1. PICK s : now[r] # s /\ now' = [now EXCEPT ![r] = s]
            BY DEF RowChanges
        <3>2. now'[r] = s
            BY <3>1 DEF DashboardInv
        <3>3. QED
            BY <3>1, <3>2
    <2>2. now' = [q \in Rows |-> now'[q]]
        BY DEF DashboardInv, RowChanges
    <2>3. QED
        BY <2>1, <2>2 DEF RowChanges
<1>2. ASSUME NEW g \in Handlers
      PROVE  CallIsDated(view'[g], now', settled') /\ view'[g].step = view[g].step
             /\ view'[g].day = view[g].day
    <2>1. CallIsDated(view[g], now, settled)
        BY DEF DashboardInv
    <2>2. CASE Reading(g)
        <3> DEFINE new == seen(g)
        <3>1. /\ IsView(new) /\ new.step = view[g].step /\ new.left = view[g].left
              /\ new.got = view[g].got /\ new.of = view[g].of
              /\ new.moments = view[g].moments \cup {now'} /\ new.day = view[g].day
            BY <2>1, ViewSaw DEF CallIsDated
        <3>2. now \in view[g].moments
            BY <2>1, <2>2 DEF CallIsDated
        <3>3. view'[g] = new
            BY <1>1, <2>2
        <3> HIDE DEF new
        <3>4. new.moments # {now'} /\ now' \in new.moments
            BY <1>1, <3>1, <3>2
        <3>5. CallIsDated(new, now', settled')
            BY <1>1, <2>1, <3>1, <3>4 DEF CallIsDated
        <3>6. QED
            BY <3>1, <3>3, <3>5
    <2>3. CASE ~Reading(g)
        <3>1. view'[g] = view[g]
            BY <1>1, <2>3
        <3>2. QED
            BY <2>1, <2>3, <3>1 DEF CallIsDated
    <2>4. QED
        BY <2>2, <2>3
<1> HIDE DEF Reading, seen
<1>3. \A c \in Cards : KeyIsDated(c, card'[c], age'[c], calm'[c], now', settled')
    <2> TAKE c \in Cards
    <2>1. calm'[c] = (card[c] = None) /\ card'[c] = card[c] /\ age'[c] = age[c]
          /\ age[c] \in Nat /\ age[c] < TTL
        BY <1>1 DEF DashboardInv, KeyIsDated
    <2>2. calm'[c] => card'[c] = None
        BY <2>1
    <2>3. age'[c] >= settled' /\ age'[c] < TTL
        BY <1>1, <2>1
    <2>4. QED
        BY <2>2, <2>3 DEF KeyIsDated
<1>4. /\ view' = [g \in Handlers |-> view'[g]] /\ calm' \in [Cards -> BOOLEAN]
      /\ settled' \in 0 .. TTL /\ now' = [q \in Rows |-> now'[q]]
    BY <1>1, DashboardAssumption DEF DashboardInv
<1>5. \A g \in Handlers : view'[g].step = "send" =>
          view'[g].day \in ReportDates /\ ReportStands(report'[view'[g].day])
    BY <1>1, <1>2 DEF DashboardInv
<1>6. QED
    BY <1>1, <1>2, <1>3, <1>4, <1>5 DEF DashboardInv

\* Time passes for the keys as it does for the rows.
LEMMA TickStep ==
    ASSUME DashboardInv, Tick
    PROVE  DashboardInv'
<1> DEFINE late == \E h \in Handlers : SawChange(h) /\ view[h].of # "report"
<1>1. /\ UNCHANGED <<now, report, view>>
      /\ card' = [c \in Cards |-> IF Expires(c) THEN None ELSE card[c]]
      /\ age' = [c \in Cards |-> IF card'[c] = None THEN 0 ELSE age[c] + 1]
      /\ calm' = [c \in Cards |-> card'[c] = None \/ calm[c]]
      /\ settled' = IF late THEN 0 ELSE IF settled < TTL THEN settled + 1 ELSE TTL
    BY DEF Tick
<1>2. settled' \in 0 .. TTL /\ settled' <= settled + 1
    BY <1>1, DashboardAssumption DEF DashboardInv
<1>3. \A g \in Handlers : CallIsDated(view'[g], now', settled')
    <2> SUFFICES ASSUME NEW g \in Handlers PROVE CallIsDated(view[g], now, settled')
        BY <1>1
    <2>1. CallIsDated(view[g], now, settled)
        BY DEF DashboardInv
    <2>2. /\ view[g].step \in {"read", "set"} /\ view[g].of # "report"
             /\ view[g].moments # {now}
          => settled' = 0
        BY <1>1 DEF SawChange
    <2>3. QED
        BY <2>1, <2>2 DEF CallIsDated
<1> HIDE DEF late
<1>4. ASSUME NEW c \in Cards
      PROVE  KeyIsDated(c, card'[c], age'[c], calm'[c], now', settled')
    <2>1. /\ age[c] \in Nat /\ TTL \in Nat /\ settled \in Nat
          /\ KeyIsDated(c, card[c], age[c], calm[c], now, settled)
        BY DashboardAssumption DEF DashboardInv
    <2>2. /\ calm'[c] = (card'[c] = None \/ calm[c])
          /\ age'[c] = IF card'[c] = None THEN 0 ELSE age[c] + 1
        BY <1>1
    <2>3. CASE card'[c] = None
        <3>1. calm'[c] = TRUE /\ age'[c] = 0
            BY <2>2, <2>3
        <3>2. QED
            BY <2>3, <3>1, DroppedIsDated
    <2>4. CASE card'[c] # None
        <3>1. card'[c] = card[c] /\ age[c] + 1 < TTL
            BY <1>1, <2>1, <2>4 DEF Expires
        <3>2. age'[c] = age[c] + 1 /\ calm'[c] = calm[c]
            BY <2>2, <2>4 DEF DashboardInv
        <3>3. QED
            BY <1>1, <1>2, <2>1, <3>1, <3>2 DEF KeyIsDated
    <2>5. QED
        BY <2>3, <2>4
<1>5. /\ card' = [c \in Cards |-> card'[c]]
      /\ age' \in [Cards -> Nat] /\ calm' \in [Cards -> BOOLEAN]
    BY <1>1 DEF DashboardInv
<1>6. QED
    BY <1>1, <1>2, <1>3, <1>4, <1>5 DEF DashboardInv

LEMMA DashboardSteps == DashboardInv /\ [DashboardNext]_dashboardVars => DashboardInv'
<1> SUFFICES ASSUME DashboardInv, [DashboardNext]_dashboardVars PROVE DashboardInv'
    OBVIOUS
<1>1. ASSUME NEW r \in Rows, RowChanges(r) PROVE DashboardInv'
    BY <1>1, RowChangesStep
<1>2. CASE Tick
    BY <1>2, TickStep
<1>3. ASSUME NEW h \in Handlers, NEW c \in Cards, OpenCard(h, c) \/ SetKey(h, c)
      PROVE  DashboardInv'
    BY <1>3, OpenCardStep, SetKeyStep
<1>4. ASSUME NEW h \in Handlers, NEW d \in ReportDates, CreateReport(h, d) \/ SendReport(h, d)
      PROVE  DashboardInv'
    BY <1>4, CreateReportStep, SendReportStep
<1>5. ASSUME NEW h \in Handlers,
             Compute(h) \/ InsertReport(h) \/ DropKeys(h) \/ MarkSent(h) \/ ViewFails(h)
      PROVE  DashboardInv'
    BY <1>5, ComputeStep, InsertReportStep, DropKeysStep, MarkSentStep, ViewFailsStep
<1>6. CASE UNCHANGED dashboardVars
    BY <1>6 DEF dashboardVars, cardVars, DashboardInv
<1>7. QED
    BY <1>1, <1>2, <1>3, <1>4, <1>5, <1>6 DEF DashboardNext

LEMMA DashboardInvCatchesUp == DashboardInv => DashboardCatchesUp
<1> SUFFICES ASSUME DashboardInv PROVE DashboardCatchesUp
    OBVIOUS
<1>1. ASSUME settled = TTL, NEW c \in Cards PROVE card[c] \in {None, Says(c)}
    <2>1. KeyIsDated(c, card[c], age[c], calm[c], now, settled) /\ age[c] \in Nat
        BY DEF DashboardInv
    <2>2. QED
        BY <1>1, <2>1, DashboardAssumption DEF KeyIsDated, Says
<1>2. QED
    BY <1>1 DEF DashboardInv, DashboardCatchesUp, ReportsStand, ReportStands

\* The steps and the day of a request, and what the rows and the bounds count.
CallSteps == {"idle", "read", "set", "insert", "drop", "send"}
DayTyped(call) == call.step \in CallSteps /\ call.day \in ReportDates \cup {None}
DashboardTypes ==
    /\ now \in [Rows -> States]
    /\ changes \in 0 .. MaxChanges /\ views \in 0 .. MaxViews
    /\ \A h \in Handlers : DayTyped(view[h])

LEMMA IdleIsTyped == DayTyped(NoView)
BY DEF NoView, Opened, DayTyped, CallSteps

LEMMA DashboardTypesStart == DashboardInit => DashboardTypes
BY IdleIsTyped, DashboardAssumption DEF DashboardInit, DashboardTypes

\* A step of one request.
LEMMA CallTyped ==
    ASSUME DashboardInv, DashboardTypes, NEW h \in Handlers, NEW call,
           ViewIs(h, call), DayTyped(call), UNCHANGED <<now, changes>>,
           views' \in 0 .. MaxViews
    PROVE  DashboardTypes'
<1>1. view'[h] = call /\ \A g \in Handlers \ {h} : view'[g] = view[g]
    BY DEF DashboardInv, ViewIs
<1>2. \A g \in Handlers : DayTyped(view'[g])
    BY <1>1 DEF DashboardTypes
<1>3. QED
    BY <1>2 DEF DashboardTypes

LEMMA OpensTyped ==
    ASSUME DashboardInv, DashboardTypes, NEW h \in Handlers,
           NEW step \in CallSteps, NEW of, NEW day \in ReportDates \cup {None}, NEW moments,
           Opens(h, Opened(step, of, day, moments))
    PROVE  DashboardTypes'
<1>1. /\ ViewIs(h, Opened(step, of, day, moments)) /\ UNCHANGED <<now, changes>>
      /\ views' = views + 1 /\ views < MaxViews
    BY DEF Opens
<1>2. views' \in 0 .. MaxViews
    BY <1>1, DashboardAssumption DEF DashboardTypes
<1>3. DayTyped(Opened(step, of, day, moments))
    BY ViewOpened DEF DayTyped
<1>4. QED
    BY <1>1, <1>2, <1>3, CallTyped

\* A request that goes on keeps its day.
LEMMA GoesOnTyped ==
    ASSUME NEW call, IsView(call), DayTyped(call), NEW s \in CallSteps, NEW l, NEW got
    PROVE  DayTyped([call EXCEPT !.step = s, !.left = l, !.got = got])
<1> DEFINE new == [call EXCEPT !.step = s, !.left = l, !.got = got]
<1>1. PICK Any : call \in ViewOf(Any)
    BY DEF IsView
<1>2. new.step = s /\ new.day = call.day
    BY <1>1 DEF ViewOf
<1>3. QED
    BY <1>2 DEF DayTyped

LEMMA ComputeTyped ==
    ASSUME DashboardInv, DashboardTypes, NEW h \in Handlers, Compute(h)
    PROVE  DashboardTypes'
<1> DEFINE call == view[h]
           s == IF call.of = "report" THEN "insert" ELSE "set"
           l == CASE call.of = "report" -> {}
                  [] call.of = "overview" -> Cards \ {"schedule"}
                  [] OTHER -> {call.of}
<1>1. PICK got : ViewIs(h, [call EXCEPT !.step = s, !.left = l, !.got = got])
    BY Zenon DEF Compute
<1>2. UNCHANGED <<now, changes, views>>
    BY DEF Compute
<1>3. IsView(call) /\ DayTyped(call)
    BY DEF DashboardInv, CallIsDated, DashboardTypes
<1>4. s \in CallSteps
    BY DEF CallSteps
<1> HIDE DEF s, l, call
<1>5. DayTyped([call EXCEPT !.step = s, !.left = l, !.got = got])
    BY <1>3, <1>4, GoesOnTyped
<1>6. QED
    BY <1>1, <1>2, <1>5, CallTyped DEF DashboardTypes

LEMMA SetKeyTyped ==
    ASSUME DashboardInv, DashboardTypes, NEW h \in Handlers, NEW c \in Cards, SetKey(h, c)
    PROVE  DashboardTypes'
<1> DEFINE call == view[h]
           less == [call EXCEPT !.left = call.left \ {c}]
<1>1. ViewIs(h, IF call.left = {c} THEN NoView ELSE less) /\ UNCHANGED <<now, changes, views>>
    BY DEF SetKey
<1>2. IsView(call) /\ DayTyped(call)
    BY DEF DashboardInv, CallIsDated, DashboardTypes
<1>3. less.step = call.step /\ less.day = call.day
    <2>1. PICK Any : call \in ViewOf(Any)
        BY <1>2 DEF IsView
    <2>2. QED
        BY <2>1 DEF ViewOf
<1> HIDE DEF less, call
<1>4. DayTyped(less)
    BY <1>2, <1>3 DEF DayTyped
<1>5. QED
    BY <1>1, <1>4, IdleIsTyped, CallTyped DEF DashboardTypes

LEMMA EndsTyped ==
    ASSUME DashboardInv, DashboardTypes, NEW h \in Handlers,
           InsertReport(h) \/ DropKeys(h) \/ MarkSent(h) \/ ViewFails(h)
    PROVE  DashboardTypes'
<1> DEFINE dropping == Opened("drop", "report", None, {})
<1>1. /\ ViewIs(h, NoView) \/ ViewIs(h, dropping)
      /\ UNCHANGED <<now, changes, views>>
    BY DEF InsertReport, DropKeys, MarkSent, ViewFails, ViewEnds
<1>2. DayTyped(dropping)
    BY ViewOpened DEF DayTyped, CallSteps
<1> HIDE DEF dropping
<1>3. QED
    BY <1>1, <1>2, IdleIsTyped, CallTyped DEF DashboardTypes

LEMMA RowChangesTyped ==
    ASSUME DashboardInv, DashboardTypes, NEW r \in Rows, RowChanges(r)
    PROVE  DashboardTypes'
<1>1. PICK s \in StatesOf[TableOf[r]] \cup {"out"} : now' = [now EXCEPT ![r] = s]
    BY DEF RowChanges
<1>2. s \in States
    BY DashboardAssumption DEF States
<1>3. now' \in [Rows -> States]
    BY <1>1, <1>2 DEF DashboardTypes
<1>4. changes' \in 0 .. MaxChanges /\ views' = views
    BY DashboardAssumption DEF RowChanges, DashboardTypes
<1>5. ASSUME NEW g \in Handlers PROVE DayTyped(view'[g])
    <2>1. IsView(view[g]) /\ DayTyped(view[g])
        BY DEF DashboardInv, CallIsDated, DashboardTypes
    <2>2. view'[g] \in {view[g], [view[g] EXCEPT !.moments = view[g].moments \cup {now'}]}
        BY DEF RowChanges
    <2>3. view'[g].step = view[g].step /\ view'[g].day = view[g].day
        BY <2>1, <2>2, ViewSaw
    <2>4. QED
        BY <2>1, <2>3 DEF DayTyped
<1>6. QED
    BY <1>3, <1>4, <1>5 DEF DashboardTypes

LEMMA DashboardTypesSteps ==
    DashboardInv /\ DashboardTypes /\ [DashboardNext]_dashboardVars => DashboardTypes'
<1> SUFFICES ASSUME DashboardInv, DashboardTypes, [DashboardNext]_dashboardVars
             PROVE  DashboardTypes'
    OBVIOUS
<1>1. CASE UNCHANGED <<now, changes, views, view>>
    BY <1>1 DEF DashboardTypes
<1>2. ASSUME NEW h \in Handlers, NEW c \in Cards, OpenCard(h, c) PROVE DashboardTypes'
    BY <1>2, OpensTyped DEF OpenCard, CallSteps
<1>3. ASSUME NEW h \in Handlers, NEW d \in ReportDates, CreateReport(h, d) \/ SendReport(h, d)
      PROVE  DashboardTypes'
    BY <1>3, OpensTyped DEF CreateReport, SendReport, CallSteps
<1>4. CASE Tick
    BY <1>1, <1>4 DEF Tick
<1>5. CASE UNCHANGED dashboardVars
    BY <1>1, <1>5 DEF dashboardVars
<1>6. QED
    BY <1>2, <1>3, <1>4, <1>5, RowChangesTyped, ComputeTyped, SetKeyTyped, EndsTyped
    DEF DashboardNext

\* What a request shows of itself, its numbers and lists left out.
LEMMA ViewIsTyped ==
    ASSUME NEW call, DayTyped(call), call.of \in Cards \cup {"report"},
           call.left \subseteq Cards
    PROVE  [k \in {"step", "of", "day", "left"} |-> call[k]] \in View
BY DEF DayTyped, CallSteps, View

\* Rows, keys and requests of the dashboard have their types, and no key outlives TTL.
THEOREM DashboardTypeCorrect == DashboardSpec => []DashboardTypeOK
<1>1. DashboardInv /\ DashboardTypes => DashboardTypeOK
    <2> SUFFICES ASSUME DashboardInv, DashboardTypes PROVE DashboardTypeOK
        OBVIOUS
    <2>1. age \in [Cards -> 0 .. TTL - 1]
        <3>1. \A c \in Cards : age[c] \in Nat /\ age[c] < TTL
            BY DEF DashboardInv, KeyIsDated
        <3>2. \A c \in Cards : age[c] \in 0 .. TTL - 1
            BY <3>1, DashboardAssumption
        <3>3. QED
            BY <3>2 DEF DashboardInv
    <2>2. DOMAIN card = Cards
        BY DEF DashboardInv
    <2>3. \A h \in Handlers : [k \in {"step", "of", "day", "left"} |-> view[h][k]] \in View
        BY ViewIsTyped DEF DashboardInv, CallIsDated, DashboardTypes
    <2>4. QED
        BY <2>1, <2>2, <2>3
        DEF DashboardInv, DashboardTypes, ReportsStand, DashboardTypeOK
<1>2. QED
    BY DashboardStart, DashboardSteps, DashboardTypesStart, DashboardTypesSteps, <1>1, PTL
    DEF DashboardSpec

\* Once the rows have rested for the lifetime of a key, and no call is left that saw them
\* otherwise, no card of the desk's dashboard tells an old number; and a report that no
\* change met tells the numbers of its moment.
THEOREM CardsCatchUp == DashboardSpec => []DashboardCatchesUp
BY DashboardStart, DashboardSteps, DashboardInvCatchesUp, PTL DEF DashboardSpec

-----------------------------------------------------------------------------
(* The driver's place on the map.                                          *)

\* The row has the place, and so has the key if the map reads it; so with the duty.
PlaceShown(row, key, member, place) ==
    row.place = place /\ (member /\ key # None => key.place = place)
DutyShown(row, key, member, changed) ==
    ~changed => (member /\ key # None => key.status = row.status)

\* What a report that nothing disturbed has written.
FixGoes(call, row, key, place, changed) ==
    call.step = "fix" /\ call.alone =>
        /\ call.place = place /\ (~changed => call.status = row.status)
        /\ "row" \notin call.left => row.place = place
        /\ "key" \notin call.left =>
              key.place = place /\ (~changed => key.status = row.status)

\* What a change of duty finds, and what it carries to the key.
DutyGoes(call, row, key, member, place, changed) ==
    call.step \in {"status", "look", "put"} =>
        /\ PlaceShown(row, key, member, place)
        /\ call.step # "status" /\ ~changed => call.status = row.status
        /\ call.step = "put" /\ member => call.place = place

PositionsInv ==
    /\ PositionsTypeOK
    /\ \A h \in Handlers : Calling(h) => driverCall[h].status \in Duties
    /\ \A g, h \in Handlers : Calling(g) /\ Calling(h) /\ driverCall[h].alone => g = h
    /\ tidy => \A h \in Handlers : Calling(h) => driverCall[h].alone
    /\ \A h \in Handlers : FixGoes(driverCall[h], whereabouts, pin, reported, touched)
    /\ tidy => \A h \in Handlers :
                  DutyGoes(driverCall[h], whereabouts, pin, pinned, reported, touched)
    /\ tidy /\ (\A h \in Handlers : ~Calling(h)) =>
          /\ PlaceShown(whereabouts, pin, pinned, reported)
          /\ DutyShown(whereabouts, pin, pinned, touched)

LEMMA NoDriverCallHolds == NoDriverCall \in DriverCall /\ NoDriverCall.step = "idle"
BY DEF NoDriverCall, DriverCall

LEMMA PositionsStart == PositionsInit => PositionsInv
<1> SUFFICES ASSUME PositionsInit PROVE PositionsInv
    OBVIOUS
<1>1. PositionsTypeOK
    <2>1. PICK s \in Duties : whereabouts = [place |-> None, status |-> s]
        BY DEF PositionsInit
    <2>2. whereabouts \in Position
        BY <2>1 DEF Position
    <2>3. QED
        BY <2>2, NoDriverCallHolds DEF PositionsInit, PositionsTypeOK
<1>2. \A h \in Handlers : driverCall[h].step = "idle"
    BY NoDriverCallHolds DEF PositionsInit
<1>3. /\ PlaceShown(whereabouts, pin, pinned, reported)
      /\ DutyShown(whereabouts, pin, pinned, touched)
    BY DEF PositionsInit, PlaceShown, DutyShown
<1>4. QED
    BY <1>1, <1>2, <1>3 DEF PositionsInv, Calling, FixGoes, DutyGoes

\* A step of a call that goes on or ends: while it was alone no other call is going on,
\* and while it was not the map is not tidy.
LEMMA DriverMoves ==
    ASSUME PositionsInv, NEW h \in Handlers, Calling(h), NEW call,
           PositionsTypeOK', DriverGoes(h, call), UNCHANGED reported,
           tidy' => tidy \/ driverCall[h].alone,
           call.step # "idle" => call.alone = driverCall[h].alone /\ call.status \in Duties,
           FixGoes(call, whereabouts', pin', reported, touched'),
           tidy' => DutyGoes(call, whereabouts', pin', pinned', reported, touched'),
           call.step = "idle" /\ tidy' =>
               /\ PlaceShown(whereabouts', pin', pinned', reported)
               /\ DutyShown(whereabouts', pin', pinned', touched')
    PROVE  PositionsInv'
<1>1. driverCall'[h] = call /\ \A g \in Handlers \ {h} : driverCall'[g] = driverCall[g]
    BY DEF DriverGoes, PositionsInv, PositionsTypeOK
<1>2. \A g \in Handlers \ {h} : Calling(g) => ~driverCall[g].alone
    BY DEF PositionsInv
<1>3. tidy' => driverCall[h].alone
    BY DEF PositionsInv
<1>4. tidy' => \A g \in Handlers \ {h} : ~Calling(g)
    BY <1>3 DEF PositionsInv
<1>5. \A g \in Handlers \ {h} : driverCall'[g].step = driverCall[g].step
    BY <1>1
<1>6. ASSUME NEW g \in Handlers, NEW f \in Handlers, Calling(g)', Calling(f)',
             driverCall'[f].alone
      PROVE  g = f
    <2>1. Calling(g) /\ Calling(f)
        BY <1>1, <1>6 DEF Calling
    <2>2. driverCall[f].alone
        BY <1>1, <1>6 DEF Calling
    <2>3. QED
        BY <2>1, <2>2 DEF PositionsInv
<1>7. tidy' => \A g \in Handlers : Calling(g)' => driverCall'[g].alone
    BY <1>1, <1>3, <1>4 DEF Calling
<1>8. \A g \in Handlers : FixGoes(driverCall'[g], whereabouts', pin', reported', touched')
    BY <1>1, <1>2 DEF FixGoes, Calling
<1>9. tidy' => \A g \in Handlers :
          DutyGoes(driverCall'[g], whereabouts', pin', pinned', reported', touched')
    BY <1>1, <1>4 DEF DutyGoes, Calling
<1>10. tidy' /\ (\A g \in Handlers : ~Calling(g)') =>
          /\ PlaceShown(whereabouts', pin', pinned', reported')
          /\ DutyShown(whereabouts', pin', pinned', touched')
    BY <1>1 DEF Calling
<1>11. \A g \in Handlers : Calling(g)' => driverCall'[g].status \in Duties
    BY <1>1 DEF Calling, PositionsInv
<1>12. QED
    BY <1>6, <1>7, <1>8, <1>9, <1>10, <1>11 DEF PositionsInv

\* A call that comes in: it is alone if no other is going on, and then what a tidy map
\* shows holds.
LEMMA DriverRings ==
    ASSUME PositionsInv, NEW h \in Handlers, NEW call \in DriverCall, Rings(h, call),
           reported' \in Spots \cup {None}, call.step # "idle", call.alone,
           call.status \in Duties,
           ~(\E g \in Handlers \ {h} : Calling(g)) =>
               /\ FixGoes(call, whereabouts, pin, reported', FALSE)
               /\ PlaceShown(whereabouts, pin, pinned, reported) =>
                     DutyGoes(call, whereabouts, pin, pinned, reported', FALSE)
    PROVE  PositionsInv'
<1> DEFINE others == {g \in Handlers \ {h} : Calling(g)}
           new == [call EXCEPT !.alone = others = {}]
           old(g) == [driverCall[g] EXCEPT !.alone = driverCall[g].alone /\ g \notin others]
<1>1. /\ driverCall[h] = NoDriverCall /\ UNCHANGED <<whereabouts, pin, pinned>>
      /\ tidy' = (tidy /\ others = {}) /\ touched' = FALSE
      /\ driverCall' = [g \in Handlers |-> IF g = h THEN new ELSE old(g)]
    BY DEF Rings
<1>2. /\ new \in DriverCall /\ new.step = call.step /\ new.left = call.left
      /\ new.place = call.place /\ new.status = call.status /\ new.alone = (others = {})
    BY DEF DriverCall
<1>3. \A g \in Handlers \ {h} :
          /\ old(g) \in DriverCall /\ old(g).step = driverCall[g].step
          /\ old(g).status = driverCall[g].status
          /\ old(g).alone => g \notin others
    BY DEF PositionsInv, PositionsTypeOK, DriverCall
<1>4. /\ driverCall'[h] = new /\ \A g \in Handlers \ {h} : driverCall'[g] = old(g)
    BY <1>1
<1> HIDE DEF new, old
<1>5. PositionsTypeOK'
    BY <1>1, <1>2, <1>3 DEF PositionsInv, PositionsTypeOK
<1>6. \A g \in Handlers \ {h} :
          /\ driverCall'[g].step # "idle" => g \in others /\ ~driverCall'[g].alone
          /\ driverCall'[g].step = driverCall[g].step
          /\ driverCall'[g].status = driverCall[g].status
    BY <1>3, <1>4 DEF Calling
<1>7. \A g, f \in Handlers : Calling(g)' /\ Calling(f)' /\ driverCall'[f].alone => g = f
    BY <1>2, <1>4, <1>6 DEF Calling
<1>8. tidy' => \A g \in Handlers : Calling(g)' => driverCall'[g].alone
    BY <1>1, <1>2, <1>4, <1>6 DEF Calling
<1>9. FixGoes(new, whereabouts, pin, reported', FALSE)
    BY <1>2 DEF FixGoes
<1>10. tidy' => DutyGoes(new, whereabouts, pin, pinned, reported', FALSE)
    <2> SUFFICES ASSUME tidy' PROVE DutyGoes(new, whereabouts, pin, pinned, reported', FALSE)
        OBVIOUS
    <2>1. tidy /\ others = {}
        BY <1>1
    <2>2. \A g \in Handlers : ~Calling(g)
        BY <1>1, <2>1, NoDriverCallHolds DEF Calling
    <2>3. DutyGoes(call, whereabouts, pin, pinned, reported', FALSE)
        BY <2>1, <2>2 DEF PositionsInv
    <2>4. QED
        BY <1>2, <2>3 DEF DutyGoes
<1>11. \A g \in Handlers : FixGoes(driverCall'[g], whereabouts', pin', reported', touched')
    BY <1>1, <1>4, <1>6, <1>9 DEF FixGoes
<1>12. tidy' => \A g \in Handlers :
          DutyGoes(driverCall'[g], whereabouts', pin', pinned', reported', touched')
    BY <1>1, <1>4, <1>6, <1>10 DEF DutyGoes
<1>13. Calling(h)'
    BY <1>2, <1>4 DEF Calling
<1>14. \A g \in Handlers : Calling(g)' => driverCall'[g].status \in Duties
    BY <1>2, <1>4, <1>6 DEF Calling, PositionsInv
<1>15. QED
    BY <1>5, <1>7, <1>8, <1>11, <1>12, <1>13, <1>14 DEF PositionsInv

LEMMA RecordGpsStep ==
    ASSUME PositionsInv, NEW h \in Handlers, NEW p \in Spots, RecordGps(h, p)
    PROVE  PositionsInv'
<1> DEFINE call == [NoDriverCall EXCEPT !.step = "fix", !.left = Writes, !.place = p,
                                       !.status = whereabouts.status]
<1>1. Rings(h, call) /\ reported' = p
    BY DEF RecordGps
<1>2. /\ call \in DriverCall /\ call.step = "fix" /\ call.left = Writes /\ call.place = p
      /\ call.status = whereabouts.status /\ call.alone /\ call.status \in Duties
    BY DEF NoDriverCall, DriverCall, PositionsInv, PositionsTypeOK, Position
<1> HIDE DEF call
<1>3. FixGoes(call, whereabouts, pin, reported', FALSE)
    BY <1>1, <1>2 DEF FixGoes, Writes
<1>4. DutyGoes(call, whereabouts, pin, pinned, reported', FALSE)
    BY <1>2 DEF DutyGoes
<1>5. QED
    BY <1>1, <1>2, <1>3, <1>4, DriverRings

LEMMA UpdateMyStatusStep ==
    ASSUME PositionsInv, NEW h \in Handlers, NEW s \in Duties, UpdateMyStatus(h, s)
    PROVE  PositionsInv'
<1> DEFINE call == [NoDriverCall EXCEPT !.step = "status", !.status = s]
<1>1. Rings(h, call) /\ reported' = reported
    BY DEF UpdateMyStatus
<1>2. call \in DriverCall /\ call.step = "status" /\ call.alone /\ call.status = s
    BY DEF NoDriverCall, DriverCall
<1> HIDE DEF call
<1>3. FixGoes(call, whereabouts, pin, reported', FALSE)
    BY <1>2 DEF FixGoes
<1>4. PlaceShown(whereabouts, pin, pinned, reported) =>
          DutyGoes(call, whereabouts, pin, pinned, reported', FALSE)
    BY <1>1, <1>2 DEF DutyGoes
<1>5. reported \in Spots \cup {None}
    BY DEF PositionsInv, PositionsTypeOK
<1>6. QED
    BY <1>1, <1>2, <1>3, <1>4, <1>5, DriverRings

LEMMA WriteFixStep ==
    ASSUME PositionsInv, NEW h \in Handlers, NEW w \in Writes, WriteFix(h, w)
    PROVE  PositionsInv'
<1> DEFINE call == driverCall[h]
           less == [call EXCEPT !.left = call.left \ {w}]
           new == IF call.left = {w} THEN NoDriverCall ELSE less
<1>1. /\ call.step = "fix" /\ w \in call.left /\ UNCHANGED <<reported, touched>>
      /\ pinned' = (pinned \/ w = "member")
    BY DEF WriteFix
<1>2. DriverGoes(h, new) /\ (tidy' => tidy \/ call.alone)
    BY DEF WriteFix, HangsUp
<1>3. IF w = "key" THEN pin' = [place |-> call.place, status |-> call.status]
      ELSE UNCHANGED pin
    BY DEF WriteFix
<1>4. IF w = "row" THEN whereabouts' = [whereabouts EXCEPT !.place = call.place]
      ELSE UNCHANGED whereabouts
    BY DEF WriteFix
<1>5. /\ call \in DriverCall /\ Calling(h) /\ whereabouts \in Position
      /\ call.status \in Duties
      /\ FixGoes(call, whereabouts, pin, reported, touched)
    BY <1>1 DEF PositionsInv, PositionsTypeOK, Calling
<1>6. /\ less \in DriverCall /\ less.step = "fix" /\ less.left = call.left \ {w}
      /\ less.place = call.place /\ less.status = call.status /\ less.alone = call.alone
    BY <1>1, <1>5 DEF DriverCall
<1>7. /\ whereabouts' \in Position /\ whereabouts'.status = whereabouts.status
      /\ whereabouts'.place = IF w = "row" THEN call.place ELSE whereabouts.place
    BY <1>4, <1>5 DEF Position, DriverCall
<1>8. call.alone => FixGoes(less, whereabouts', pin', reported, touched)
    <2> SUFFICES ASSUME call.alone PROVE FixGoes(less, whereabouts', pin', reported, touched)
        BY <1>6 DEF FixGoes
    <2>1. call.place = reported /\ (~touched => call.status = whereabouts.status)
        BY <1>1, <1>5 DEF FixGoes
    <2>2. "row" \notin call.left \ {w} => whereabouts'.place = reported
        BY <1>1, <1>5, <1>7, <2>1 DEF FixGoes
    <2>3. "key" \notin call.left \ {w} =>
              pin'.place = reported /\ (~touched => pin'.status = whereabouts'.status)
        BY <1>1, <1>3, <1>5, <1>7, <2>1 DEF FixGoes
    <2>4. QED
        BY <1>6, <1>7, <2>1, <2>2, <2>3 DEF FixGoes
<1>9. FixGoes(new, whereabouts', pin', reported, touched')
    BY <1>1, <1>6, <1>8, NoDriverCallHolds DEF FixGoes
<1>10. DutyGoes(new, whereabouts', pin', pinned', reported, touched')
    BY <1>6, NoDriverCallHolds DEF DutyGoes
<1>11. new.step # "idle" =>
          call.left # {w} /\ new.alone = call.alone /\ new.status \in Duties
    BY <1>5, <1>6, NoDriverCallHolds
<1>12. new.step = "idle" /\ tidy' =>
          /\ PlaceShown(whereabouts', pin', pinned', reported)
          /\ DutyShown(whereabouts', pin', pinned', touched')
    <2> SUFFICES ASSUME new.step = "idle", tidy'
                 PROVE  /\ PlaceShown(whereabouts', pin', pinned', reported)
                        /\ DutyShown(whereabouts', pin', pinned', touched')
        OBVIOUS
    <2>1. call.left = {w}
        BY <1>6
    <2>2. call.alone
        BY <1>2, <1>5 DEF PositionsInv
    <2>3. less.left = {} /\ FixGoes(less, whereabouts', pin', reported, touched)
        BY <1>6, <1>8, <2>1, <2>2
    <2>4. QED
        BY <1>1, <1>6, <2>2, <2>3 DEF FixGoes, PlaceShown, DutyShown
<1>13. PositionsTypeOK'
    <2>1. new \in DriverCall
        BY <1>6, NoDriverCallHolds
    <2>2. pin' \in Position \cup {None}
        BY <1>3, <1>5 DEF PositionsInv, PositionsTypeOK, Position, DriverCall
    <2>3. tidy' \in BOOLEAN /\ pinned' \in BOOLEAN
        BY <1>1, <1>5 DEF WriteFix, PositionsInv, PositionsTypeOK, DriverCall
    <2> HIDE DEF new
    <2>4. driverCall' \in [Handlers -> DriverCall]
        BY <1>2, <2>1 DEF DriverGoes, PositionsInv, PositionsTypeOK
    <2>5. QED
        BY <1>1, <1>7, <2>2, <2>3, <2>4 DEF PositionsInv, PositionsTypeOK
<1> HIDE DEF new, less
<1>14. QED
    BY <1>1, <1>2, <1>5, <1>9, <1>10, <1>11, <1>12, <1>13, DriverMoves

LEMMA WriteStatusStep ==
    ASSUME PositionsInv, NEW h \in Handlers, WriteStatus(h)
    PROVE  PositionsInv'
<1> DEFINE call == driverCall[h]
           new == [call EXCEPT !.step = "look"]
<1>1. /\ call.step = "status" /\ UNCHANGED <<pin, pinned, reported, tidy, touched>>
      /\ whereabouts' = [whereabouts EXCEPT !.status = call.status] /\ DriverGoes(h, new)
    BY DEF WriteStatus
<1>2. /\ call \in DriverCall /\ Calling(h) /\ whereabouts \in Position
      /\ call.status \in Duties
    BY <1>1 DEF PositionsInv, PositionsTypeOK, Calling
<1>3. /\ new \in DriverCall /\ new.step = "look" /\ new.place = call.place
      /\ new.status = call.status /\ new.alone = call.alone
    BY <1>2 DEF DriverCall
<1>4. /\ whereabouts' \in Position /\ whereabouts'.place = whereabouts.place
      /\ whereabouts'.status = call.status
    BY <1>1, <1>2 DEF Position
<1> HIDE DEF new
<1>5. PositionsTypeOK'
    BY <1>1, <1>3, <1>4 DEF DriverGoes, PositionsInv, PositionsTypeOK
<1>6. FixGoes(new, whereabouts', pin', reported, touched')
    BY <1>3 DEF FixGoes
<1>7. tidy' => DutyGoes(new, whereabouts', pin', pinned', reported, touched')
    <2>1. tidy => PlaceShown(whereabouts, pin, pinned, reported)
        BY <1>1 DEF PositionsInv, DutyGoes
    <2>2. QED
        BY <1>1, <1>3, <1>4, <2>1 DEF DutyGoes, PlaceShown
<1>8. QED
    BY <1>1, <1>2, <1>3, <1>5, <1>6, <1>7, DriverMoves

LEMMA LookAtKeyStep ==
    ASSUME PositionsInv, NEW h \in Handlers, LookAtKey(h)
    PROVE  PositionsInv'
<1> DEFINE call == driverCall[h]
           more == [call EXCEPT !.step = "put", !.place = pin.place]
           new == IF pin = None THEN NoDriverCall ELSE more
<1>1. /\ call.step = "look" /\ UNCHANGED <<whereabouts, pin, pinned, reported, tidy, touched>>
      /\ DriverGoes(h, new)
    BY DEF LookAtKey, HangsUp
<1>2. call \in DriverCall /\ Calling(h) /\ call.status \in Duties
    BY <1>1 DEF PositionsInv, PositionsTypeOK, Calling
<1>3. pin # None => pin \in Position
    BY DEF PositionsInv, PositionsTypeOK
<1>4. pin # None => /\ more \in DriverCall /\ more.step = "put" /\ more.place = pin.place
                    /\ more.status = call.status /\ more.alone = call.alone
    BY <1>2, <1>3 DEF DriverCall, Position
<1>5. tidy => /\ PlaceShown(whereabouts, pin, pinned, reported)
              /\ ~touched => call.status = whereabouts.status
    BY <1>1 DEF PositionsInv, DutyGoes
<1> HIDE DEF more
<1>6. new \in DriverCall /\ new.step \in {"idle", "put"}
    BY <1>4, NoDriverCallHolds
<1>7. PositionsTypeOK'
    <2> HIDE DEF new
    <2> QED BY <1>1, <1>6 DEF DriverGoes, PositionsInv, PositionsTypeOK
<1>8. FixGoes(new, whereabouts, pin, reported, touched)
    BY <1>6 DEF FixGoes
<1>9. tidy => DutyGoes(new, whereabouts, pin, pinned, reported, touched)
    BY <1>4, <1>5, NoDriverCallHolds DEF DutyGoes, PlaceShown
<1>10. new.step = "idle" => pin = None
    BY <1>4
<1>11. new.step = "idle" /\ tidy =>
          /\ PlaceShown(whereabouts, pin, pinned, reported)
          /\ DutyShown(whereabouts, pin, pinned, touched)
    BY <1>5, <1>10 DEF DutyShown
<1>12. new.step # "idle" => new.alone = call.alone /\ new.status \in Duties
    BY <1>2, <1>4, NoDriverCallHolds
<1> HIDE DEF new
<1>13. QED
    BY <1>1, <1>2, <1>7, <1>8, <1>9, <1>11, <1>12, DriverMoves

LEMMA PutKeyStep ==
    ASSUME PositionsInv, NEW h \in Handlers, PutKey(h)
    PROVE  PositionsInv'
<1> DEFINE call == driverCall[h]
<1>1. /\ call.step = "put" /\ UNCHANGED <<whereabouts, pinned, reported, tidy, touched>>
      /\ DriverGoes(h, NoDriverCall)
      /\ pin' = [place |-> call.place, status |-> call.status]
    BY DEF PutKey, HangsUp, KeptPlace
<1>2. call \in DriverCall /\ Calling(h) /\ call.status \in Duties
    BY <1>1 DEF PositionsInv, PositionsTypeOK, Calling
<1>3. pin' \in Position /\ pin'.place = call.place /\ pin'.status = call.status
    BY <1>1, <1>2 DEF Position, DriverCall
<1>4. PositionsTypeOK'
    BY <1>1, <1>3, NoDriverCallHolds DEF DriverGoes, PositionsInv, PositionsTypeOK
<1>5. tidy => DutyGoes(call, whereabouts, pin, pinned, reported, touched)
    BY DEF PositionsInv
<1>6. tidy => /\ PlaceShown(whereabouts, pin', pinned, reported)
              /\ DutyShown(whereabouts, pin', pinned, touched)
    BY <1>1, <1>3, <1>5 DEF DutyGoes, PlaceShown, DutyShown
<1>7. /\ FixGoes(NoDriverCall, whereabouts, pin', reported, touched)
      /\ DutyGoes(NoDriverCall, whereabouts, pin', pinned, reported, touched)
    BY NoDriverCallHolds DEF FixGoes, DutyGoes
<1>8. QED
    BY <1>1, <1>2, <1>4, <1>6, <1>7, NoDriverCallHolds, DriverMoves

LEMMA DriverFailsStep ==
    ASSUME PositionsInv, NEW h \in Handlers, DriverFails(h)
    PROVE  PositionsInv'
<1>1. /\ Calling(h) /\ DriverGoes(h, NoDriverCall) /\ tidy' = FALSE
      /\ UNCHANGED <<whereabouts, pin, pinned, reported, touched>>
    BY DEF DriverFails, HangsUp
<1>2. PositionsTypeOK'
    BY <1>1, NoDriverCallHolds DEF DriverGoes, PositionsInv, PositionsTypeOK
<1>3. FixGoes(NoDriverCall, whereabouts, pin, reported, touched)
    BY NoDriverCallHolds DEF FixGoes
<1>4. QED
    BY <1>1, <1>2, <1>3, NoDriverCallHolds, DriverMoves

LEMMA OthersWriteStatusStep ==
    ASSUME PositionsInv, NEW s \in Duties, OthersWriteStatus(s)
    PROVE  PositionsInv'
<1>1. /\ touched' = TRUE /\ UNCHANGED <<pin, pinned, driverCall, reported, tidy>>
      /\ whereabouts' = [whereabouts EXCEPT !.status = s]
    BY DEF OthersWriteStatus
<1>2. whereabouts' \in Position /\ whereabouts'.place = whereabouts.place
    BY <1>1 DEF PositionsInv, PositionsTypeOK, Position
<1>3. PositionsTypeOK'
    BY <1>1, <1>2 DEF PositionsInv, PositionsTypeOK
<1>4. \A h \in Handlers : FixGoes(driverCall[h], whereabouts', pin, reported, TRUE)
    BY <1>2 DEF PositionsInv, FixGoes
<1>5. tidy => \A h \in Handlers :
          DutyGoes(driverCall[h], whereabouts', pin, pinned, reported, TRUE)
    BY <1>2 DEF PositionsInv, DutyGoes, PlaceShown
<1>6. tidy /\ (\A h \in Handlers : ~Calling(h)) =>
          /\ PlaceShown(whereabouts', pin, pinned, reported)
          /\ DutyShown(whereabouts', pin, pinned, TRUE)
    BY <1>2 DEF PositionsInv, PlaceShown, DutyShown
<1>7. QED
    BY <1>1, <1>3, <1>4, <1>5, <1>6 DEF PositionsInv, Calling

LEMMA PositionsSteps == PositionsInv /\ [PositionsNext]_positionsVars => PositionsInv'
<1> SUFFICES ASSUME PositionsInv, [PositionsNext]_positionsVars PROVE PositionsInv'
    OBVIOUS
<1>1. ASSUME NEW h \in Handlers, NEW p \in Spots, RecordGps(h, p) PROVE PositionsInv'
    BY <1>1, RecordGpsStep
<1>2. ASSUME NEW h \in Handlers, NEW w \in Writes, WriteFix(h, w) PROVE PositionsInv'
    BY <1>2, WriteFixStep
<1>3. ASSUME NEW h \in Handlers, NEW s \in Duties, UpdateMyStatus(h, s) PROVE PositionsInv'
    BY <1>3, UpdateMyStatusStep
<1>4. ASSUME NEW h \in Handlers, WriteStatus(h) \/ LookAtKey(h) \/ PutKey(h) \/ DriverFails(h)
      PROVE  PositionsInv'
    BY <1>4, WriteStatusStep, LookAtKeyStep, PutKeyStep, DriverFailsStep
<1>5. ASSUME NEW s \in Duties, OthersWriteStatus(s) PROVE PositionsInv'
    BY <1>5, OthersWriteStatusStep
<1>6. CASE UNCHANGED positionsVars
    <2>1. UNCHANGED <<whereabouts, pin, pinned, driverCall, reported, tidy, touched>>
        BY <1>6 DEF positionsVars
    <2>2. PositionsTypeOK'
        BY <2>1 DEF PositionsInv, PositionsTypeOK
    <2>3. QED
        BY <2>1, <2>2 DEF PositionsInv, Calling
<1>7. QED
    BY <1>1, <1>2, <1>3, <1>4, <1>5, <1>6 DEF PositionsNext

\* His row, the key and the calls have their types, what a call writes having been read
\* earlier.
THEOREM PositionsTypeCorrect == PositionsSpec => []PositionsTypeOK
<1>1. PositionsInv => PositionsTypeOK
    BY DEF PositionsInv
<1>2. QED
    BY PositionsStart, PositionsSteps, <1>1, PTL DEF PositionsSpec

\* After a report that no other call of his overlapped, and as long as none overlaps or
\* breaks off, the map shows him where he reported himself, on the duty that he chose.
THEOREM MapIsHis == PositionsSpec => []MapFollowsHim
<1>1. PositionsInv => MapFollowsHim
    BY DEF PositionsInv, MapFollowsHim, Live, PlaceShown, DutyShown
<1>2. QED
    BY PositionsStart, PositionsSteps, <1>1, PTL DEF PositionsSpec

=============================================================================

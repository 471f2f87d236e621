------------------------------ MODULE Feedback ------------------------------
(***************************************************************************)
(* What guests send the desk: reviews of one driver (reviews.service.ts),  *)
(* which move the rating kept in his profile, and SOS alerts               *)
(* (sos.service.ts), which go to whoever is on the desk.                   *)
(***************************************************************************)
EXTENDS Integers, FiniteSets, FiniteSetsExt, Handling

CONSTANTS
    Trips,      \* bookings that the driver may have served
    Stars,      \* ratings
    DeskStaff,  \* members of the roles that get alerts
    Alarms      \* ids of rows of table sos_alerts

ASSUME FeedbackAssumption ==
    /\ Stars \subseteq Nat \ {0}
    /\ IsFiniteSet(Trips) /\ IsFiniteSet(Handlers)

VARIABLES
    served,     \* the trips that are not cancelled and have the driver committed or done
    review,     \* the stars each trip gave him: its row of driver_reviews, or None
    profile,    \* his rating and reviewsCount
    reviewTx,   \* the review each handler is serving
    onDesk,     \* staff who are active
    alarm,      \* rows of table sos_alerts
    alarmCall   \* the SOS request each handler is serving

reviewVars == <<served, review, profile, reviewTx>>
alarmVars == <<onDesk, alarm, alarmCall>>
feedbackVars == <<reviewVars, alarmVars>>

\* The average is its sum and its count. alone is history: whether the last review
\* to commit ran while no other did.
Profile == [sum: Nat, count: Nat, alone: BOOLEAN]
ReviewTx == [step: {"idle", "checked", "averaged"}, trip: Trips \cup {None},
             stars: Stars \cup {None}, sum: Nat, count: Nat, alone: BOOLEAN]
NoReviewTx == [step |-> "idle", trip |-> None, stars |-> None, sum |-> 0,
               count |-> 0, alone |-> TRUE]
\* History: who was told, who came to the desk since, whether the call broke off,
\* and how many calls resolved it.
Alarm == [status: {"none", "active", "resolved"}, told: SUBSET DeskStaff,
          came: SUBSET DeskStaff, cut: BOOLEAN, resolves: Nat]
NoAlarm == [status |-> "none", told |-> {}, came |-> {}, cut |-> FALSE, resolves |-> 0]
AlarmCall == [step: {"idle", "tell", "resolve"}, alarm: Alarms \cup {None}]
NoAlarmCall == [step |-> "idle", alarm |-> None]

FeedbackTypeOK ==
    /\ served \subseteq Trips
    /\ review \in [Trips -> Stars \cup {None}]
    /\ profile \in Profile
    /\ reviewTx \in [Handlers -> ReviewTx]
    /\ onDesk \subseteq DeskStaff
    /\ alarm \in [Alarms -> Alarm]
    /\ alarmCall \in [Handlers -> AlarmCall]

FeedbackInit ==
    /\ served = {}
    /\ review = [t \in Trips |-> None]
    /\ profile = [sum |-> 0, count |-> 0, alone |-> TRUE]
    /\ reviewTx = [h \in Handlers |-> NoReviewTx]
    /\ onDesk = DeskStaff
    /\ alarm = [a \in Alarms |-> NoAlarm]
    /\ alarmCall = [h \in Handlers |-> NoAlarmCall]

-----------------------------------------------------------------------------
(* Reviews.                                                                *)

ReviewEnds(h) == reviewTx' = [reviewTx EXCEPT ![h] = NoReviewTx]
InTx(h) == reviewTx[h].step = "averaged"

\* A trip is assigned, declined, cancelled.
TripChanges(t) ==
    /\ served' = IF t \in served THEN served \ {t} ELSE served \cup {t}
    /\ UNCHANGED <<review, profile, reviewTx>>

CreateOrUpdate(h, t, stars) ==
    /\ reviewTx[h] = NoReviewTx
    /\ t \in served
    /\ reviewTx' = [reviewTx EXCEPT ![h] =
                       [NoReviewTx EXCEPT !.step = "checked", !.trip = t, !.stars = stars]]
    /\ UNCHANGED <<served, review, profile>>

Rated(r) == {t \in Trips : r[t] # None}
Total(r) == FoldSet(LAMBDA t, n : n + r[t], 0, Rated(r))

\* The reviews that the average is taken over: the committed ones and the
\* transaction's own; StaleReviews leaves its own out.
StaleReviews(t, stars) == review
SeenReviews(t, stars) == [review EXCEPT ![t] = stars]

\* recalcDriverRating inside the transaction, which holds its review's row.
RecalcDriverRating(h) ==
    LET tx == reviewTx[h]
        seen == SeenReviews(tx.trip, tx.stars)
        others == {g \in Handlers \ {h} : InTx(g)}
    IN /\ tx.step = "checked"
       /\ \A g \in others : reviewTx[g].trip # tx.trip
       /\ reviewTx' = [g \in Handlers |->
              IF g = h THEN [tx EXCEPT !.step = "averaged", !.sum = Total(seen),
                                       !.count = Cardinality(Rated(seen)),
                                       !.alone = others = {}]
              ELSE IF g \in others THEN [reviewTx[g] EXCEPT !.alone = FALSE]
              ELSE reviewTx[g]]
       /\ UNCHANGED <<served, review, profile>>

CommitReview(h) ==
    LET tx == reviewTx[h]
    IN /\ InTx(h)
       /\ review' = [review EXCEPT ![tx.trip] = tx.stars]
       /\ profile' = [sum |-> tx.sum, count |-> tx.count, alone |-> tx.alone]
       /\ ReviewEnds(h)
       /\ UNCHANGED served

ReviewFails(h) ==
    /\ reviewTx[h] # NoReviewTx
    /\ ReviewEnds(h)
    /\ UNCHANGED <<served, review, profile>>

ReviewsNext ==
    \/ \E t \in Trips : TripChanges(t)
    \/ \E h \in Handlers : \/ \E t \in Trips, stars \in Stars : CreateOrUpdate(h, t, stars)
                           \/ RecalcDriverRating(h) \/ CommitReview(h) \/ ReviewFails(h)

-----------------------------------------------------------------------------
(* SOS.                                                                    *)

AlarmGoes(h, step, a) == alarmCall' = [alarmCall EXCEPT ![h] = [step |-> step, alarm |-> a]]
AlarmEnds(h) == alarmCall' = [alarmCall EXCEPT ![h] = NoAlarmCall]

\* Nothing marks a call that is sent again: each makes an alert of its own.
CreateSos(h, a) ==
    /\ alarmCall[h] = NoAlarmCall
    /\ alarm[a] = NoAlarm
    /\ alarm' = [alarm EXCEPT ![a].status = "active"]
    /\ AlarmGoes(h, "tell", a)
    /\ UNCHANGED onDesk

\* resolveRecipients: whom a notification to the desk's roles goes to; OnCall is
\* one of them only.
OnCall == IF onDesk = {} THEN {} ELSE {CHOOSE s \in onDesk : TRUE}
Recipients == onDesk

TellDesk(h) ==
    /\ alarmCall[h].step = "tell"
    /\ alarm' = [alarm EXCEPT ![alarmCall[h].alarm].told = Recipients]
    /\ AlarmEnds(h)
    /\ UNCHANGED onDesk

\* resolve reads the status, and then writes without another look at it.
ResolveSos(h, a) ==
    /\ alarmCall[h] = NoAlarmCall
    /\ alarm[a].status = "active"
    /\ AlarmGoes(h, "resolve", a)
    /\ UNCHANGED <<onDesk, alarm>>
ResolveWrite(h) ==
    /\ alarmCall[h].step = "resolve"
    /\ alarm' = [alarm EXCEPT ![alarmCall[h].alarm].status = "resolved",
                              ![alarmCall[h].alarm].resolves = @ + 1]
    /\ AlarmEnds(h)
    /\ UNCHANGED onDesk

AlarmFails(h) ==
    /\ alarmCall[h] # NoAlarmCall
    /\ alarm' = IF alarmCall[h].step = "tell"
                THEN [alarm EXCEPT ![alarmCall[h].alarm].cut = TRUE] ELSE alarm
    /\ AlarmEnds(h)
    /\ UNCHANGED onDesk

\* A member of staff is activated or deactivated.
StaffComes(s) ==
    /\ s \notin onDesk
    /\ onDesk' = onDesk \cup {s}
    /\ alarm' = [a \in Alarms |-> IF alarm[a] = NoAlarm THEN NoAlarm
                                  ELSE [alarm[a] EXCEPT !.came = @ \cup {s}]]
    /\ UNCHANGED alarmCall
StaffGoes(s) ==
    /\ s \in onDesk
    /\ onDesk' = onDesk \ {s}
    /\ UNCHANGED <<alarm, alarmCall>>

AlarmsNext ==
    \/ \E h \in Handlers : \/ \E a \in Alarms : CreateSos(h, a) \/ ResolveSos(h, a)
                           \/ TellDesk(h) \/ ResolveWrite(h) \/ AlarmFails(h)
    \/ \E s \in DeskStaff : StaffComes(s) \/ StaffGoes(s)

FeedbackNext == \/ ReviewsNext /\ UNCHANGED alarmVars
                \/ AlarmsNext /\ UNCHANGED reviewVars
FeedbackSpec == FeedbackInit /\ [][FeedbackNext]_feedbackVars

-----------------------------------------------------------------------------
(* Properties.                                                             *)

\* The profile's rating and count are those of all reviews, first ones and changed
\* ones, once a review has committed that no other overlapped: a pair that did
\* leaves it wrong, and the next one alone repairs it.
RatingIsTheAverage ==
    profile.alone => /\ profile.sum = Total(review)
                     /\ profile.count = Cardinality(Rated(review))

\* An SOS whose call did not break off reaches everybody who has been on the desk
\* since, resolved meanwhile or not, and is resolved at most once per call in flight.
AlarmsAreHeard ==
    \A a \in Alarms :
        /\ alarm[a] # NoAlarm /\ ~alarm[a].cut
              /\ ~(\E h \in Handlers : alarmCall[h] = [step |-> "tell", alarm |-> a])
           => onDesk \subseteq alarm[a].told \cup alarm[a].came
        /\ alarm[a].resolves <= Cardinality(Handlers)
=============================================================================

--------------------------- MODULE ServiceProofs ---------------------------
(***************************************************************************)
(* Proofs about the parts of the service together, which share no state:   *)
(* what is proved of each holds of all, and of what MCService runs. For    *)
(* every value of the constants of all parts.                              *)
(***************************************************************************)
EXTENDS MCService, AccessProofs, RequestsProofs, AppsProofs, BackOfficeProofs

-----------------------------------------------------------------------------
(* The types of reviews. A rating is a sum over the trips, a fold.         *)

\* One step of the function that Total is computed by.
TotalNext(r, g, s) ==
    IF s = {} THEN 0 ELSE LET t == CHOOSE t \in s : TRUE IN g[s \ {t}] + r[t]
IsTotal(r, g, S) == \A s \in S : g[s] = TotalNext(r, g, s)

\* Leaving out one leaves one fewer.
LEMMA OneFewer ==
    ASSUME NEW T, IsFiniteSet(T), NEW s \in SUBSET T, s # {}
    PROVE  LET t == CHOOSE t \in s : TRUE
           IN /\ t \in s /\ s \ {t} \in SUBSET T
              /\ Cardinality(s) \in Nat /\ Cardinality(s \ {t}) \in Nat
              /\ Cardinality(s) = Cardinality(s \ {t}) + 1
<1> DEFINE t == CHOOSE t \in s : TRUE
<1>1. t \in s
    OBVIOUS
<1>2. IsFiniteSet(s) /\ Cardinality(s) \in Nat
    BY FS_Subset, FS_CardinalityType
<1> HIDE DEF t
<1>3. /\ Cardinality(s \ {t}) = Cardinality(s) - 1
      /\ Cardinality(s \ {t}) \in Nat /\ s \ {t} \in SUBSET T
    BY <1>1, <1>2, FS_RemoveElement, FS_CardinalityType
<1>4. QED
    BY <1>1, <1>2, <1>3 DEF t

\* The recursion has a solution on the sets of any size, and so Total is what it says.
LEMMA TotalIsComputed ==
    ASSUME NEW r, IsFiniteSet(Rated(r))
    PROVE  \E g : IsTotal(r, g, SUBSET Rated(r)) /\ Total(r) = g[Rated(r)]
<1> DEFINE T == Rated(r)
           Small(n) == {s \in SUBSET T : Cardinality(s) <= n}
           N == {n \in Nat : \E g : IsTotal(r, g, Small(n))}
<1>1. IsFiniteSet(T) /\ Cardinality(T) \in Nat
    BY FS_CardinalityType
<1>2. \A s \in SUBSET T : /\ IsFiniteSet(s) /\ Cardinality(s) \in Nat
                         /\ Cardinality(s) <= Cardinality(T)
    BY <1>1, FS_Subset, FS_CardinalityType
<1>3. \A s \in SUBSET T : Cardinality(s) = 0 <=> s = {}
    BY <1>2, FS_EmptySet
<1> HIDE DEF T
<1>4. 0 \in N
    <2> DEFINE g == [s \in SUBSET T |-> 0]
    <2>1. \A s \in Small(0) : s = {}
        BY <1>2, <1>3
    <2>2. IsTotal(r, g, Small(0))
        BY <2>1 DEF IsTotal, TotalNext
    <2> HIDE DEF g
    <2>3. QED
        BY <2>2
<1>5. ASSUME NEW n \in Nat, n \in N PROVE n + 1 \in N
    <2>1. PICK g : IsTotal(r, g, Small(n))
        BY <1>5
    <2> DEFINE f == [s \in SUBSET T |-> IF Cardinality(s) = n + 1 THEN TotalNext(r, g, s)
                                        ELSE g[s]]
    <2>2. ASSUME NEW s \in Small(n + 1) PROVE f[s] = TotalNext(r, f, s)
        <3> DEFINE t == CHOOSE t \in s : TRUE
        <3>1. CASE s = {}
            <4>1. s \in Small(n) /\ Cardinality(s) # n + 1
                BY <1>3, <3>1
            <4>2. f[s] = g[s]
                BY <4>1
            <4>3. QED
                BY <2>1, <3>1, <4>1, <4>2 DEF IsTotal, TotalNext
        <3>2. CASE s # {}
            <4>1. /\ s \ {t} \in SUBSET T /\ Cardinality(s \ {t}) \in Nat
                  /\ Cardinality(s) = Cardinality(s \ {t}) + 1
                BY <1>1, <3>2, OneFewer
            <4>2. Cardinality(s \ {t}) # n + 1
                BY <4>1
            <4>3. f[s \ {t}] = g[s \ {t}]
                BY <4>1, <4>2
            <4>4. TotalNext(r, f, s) = TotalNext(r, g, s)
                BY <4>3 DEF TotalNext
            <4>5. CASE Cardinality(s) = n + 1
                BY <4>4, <4>5
            <4>6. CASE Cardinality(s) # n + 1
                <5>1. s \in Small(n) /\ f[s] = g[s]
                    BY <1>2, <4>6
                <5>2. QED
                    BY <2>1, <4>4, <5>1 DEF IsTotal
            <4>7. QED
                BY <4>5, <4>6
        <3>3. QED
            BY <3>1, <3>2
    <2> HIDE DEF f
    <2>3. IsTotal(r, f, Small(n + 1))
        BY <2>2 DEF IsTotal
    <2> HIDE DEF Small
    <2>4. QED
        BY <2>3
<1>6. Cardinality(T) \in N
    <2> HIDE DEF N
    <2>1. QED
        BY <1>1, <1>4, <1>5, AllNumbers
<1>7. PICK g : IsTotal(r, g, Small(Cardinality(T)))
    BY <1>6
<1>8. IsTotal(r, g, SUBSET T)
    BY <1>2, <1>7 DEF IsTotal
<1> DEFINE Solves(f) == f = [s \in SUBSET T |-> TotalNext(r, f, s)]
           iter == CHOOSE f : Solves(f)
<1>9. Solves([s \in SUBSET T |-> g[s]])
    <2> DEFINE f == [s \in SUBSET T |-> g[s]]
    <2>1. ASSUME NEW s \in SUBSET T PROVE g[s] = TotalNext(r, f, s)
        <3>1. CASE s = {}
            BY <1>8, <3>1 DEF IsTotal, TotalNext
        <3>2. CASE s # {}
            <4>1. s \ {CHOOSE t \in s : TRUE} \in SUBSET T
                OBVIOUS
            <4>2. QED
                BY <1>8, <3>2, <4>1 DEF IsTotal, TotalNext
        <3>3. QED
            BY <3>1, <3>2
    <2>2. QED
        BY <2>1
<1>10. Solves(iter)
    BY <1>9
<1>11. Total(r) = iter[T]
    BY DEF Total, FoldSet, MapThenFoldSet, TotalNext, T
<1> HIDE DEF iter
<1>12. IsTotal(r, iter, SUBSET T)
    BY <1>10 DEF IsTotal
<1>13. QED
    BY <1>11, <1>12 DEF T

\* The stars of all reviews add up to a number.
LEMMA TotalIsANumber ==
    ASSUME NEW r \in [Trips -> Stars \cup {None}]
    PROVE  Total(r) \in Nat /\ Cardinality(Rated(r)) \in Nat
<1> DEFINE T == Rated(r)
<1>1. /\ IsFiniteSet(T) /\ Cardinality(T) \in Nat
      /\ \A t \in T : r[t] \in Nat
    BY FeedbackAssumption, FS_Subset, FS_CardinalityType DEF Rated
<1>2. PICK g : IsTotal(r, g, SUBSET T) /\ Total(r) = g[T]
    BY <1>1, TotalIsComputed
<1> HIDE DEF T
<1> DEFINE N == {n \in Nat : \A s \in SUBSET T : Cardinality(s) <= n => g[s] \in Nat}
<1>3. \A s \in SUBSET T : IsFiniteSet(s) /\ Cardinality(s) \in Nat
    BY <1>1, FS_Subset, FS_CardinalityType
<1>4. g[{}] = 0
    BY <1>2 DEF IsTotal, TotalNext
<1>5. 0 \in N
    <2>1. \A s \in SUBSET T : Cardinality(s) <= 0 => s = {}
        BY <1>3, FS_EmptySet
    <2>2. QED
        BY <1>4, <2>1
<1>6. ASSUME NEW n \in Nat, n \in N PROVE n + 1 \in N
    <2> SUFFICES ASSUME NEW s \in SUBSET T, Cardinality(s) <= n + 1 PROVE g[s] \in Nat
        OBVIOUS
    <2>1. CASE s = {}
        BY <1>4, <2>1
    <2>2. CASE s # {}
        <3> DEFINE t == CHOOSE t \in s : TRUE
        <3>1. /\ t \in s /\ s \ {t} \in SUBSET T /\ Cardinality(s \ {t}) \in Nat
              /\ Cardinality(s) = Cardinality(s \ {t}) + 1
            BY <1>1, <2>2, OneFewer
        <3>2. g[s] = g[s \ {t}] + r[t]
            BY <1>2, <2>2 DEF IsTotal, TotalNext
        <3> HIDE DEF t
        <3>3. Cardinality(s \ {t}) <= n
            BY <3>1
        <3>4. g[s \ {t}] \in Nat
            BY <1>6, <3>1, <3>3
        <3>5. r[t] \in Nat
            BY <1>1, <3>1
        <3>6. QED
            BY <3>2, <3>4, <3>5
    <2>3. QED
        BY <2>1, <2>2
<1>7. Cardinality(T) \in N
    <2> HIDE DEF N
    <2>1. QED
        BY <1>1, <1>5, <1>6, AllNumbers
<1>8. QED
    BY <1>1, <1>2, <1>7 DEF T

\* What a transaction writes is a review of a trip.
ReviewTypes ==
    /\ served \subseteq Trips
    /\ review \in [Trips -> Stars \cup {None}]
    /\ profile \in Profile
    /\ reviewTx \in [Handlers -> ReviewTx]
    /\ \A h \in Handlers :
          reviewTx[h].step # "idle" => reviewTx[h].trip \in Trips /\ reviewTx[h].stars \in Stars

LEMMA NoReviewTxIsTyped == NoReviewTx \in ReviewTx /\ NoReviewTx.step = "idle"
BY DEF NoReviewTx, ReviewTx

LEMMA ReviewTypesStart == FeedbackInit => ReviewTypes
BY NoReviewTxIsTyped DEF FeedbackInit, ReviewTypes, Profile

\* A step of one transaction.
LEMMA ReviewTxTyped ==
    ASSUME ReviewTypes, NEW h \in Handlers, NEW tx \in ReviewTx,
           tx.step # "idle" => tx.trip \in Trips /\ tx.stars \in Stars,
           reviewTx' = [reviewTx EXCEPT ![h] = tx], UNCHANGED served,
           review' \in [Trips -> Stars \cup {None}], profile' \in Profile
    PROVE  ReviewTypes'
BY DEF ReviewTypes

LEMMA CreateOrUpdateTyped ==
    ASSUME ReviewTypes, NEW h \in Handlers, NEW t \in Trips, NEW stars \in Stars,
           CreateOrUpdate(h, t, stars)
    PROVE  ReviewTypes'
<1> DEFINE tx == [NoReviewTx EXCEPT !.step = "checked", !.trip = t, !.stars = stars]
<1>1. tx \in ReviewTx /\ tx.trip = t /\ tx.stars = stars
    BY DEF NoReviewTx, ReviewTx
<1>2. reviewTx' = [reviewTx EXCEPT ![h] = tx] /\ UNCHANGED <<served, review, profile>>
    BY DEF CreateOrUpdate
<1> HIDE DEF tx
<1>3. QED
    BY <1>1, <1>2, ReviewTxTyped DEF ReviewTypes

LEMMA RecalcTyped ==
    ASSUME ReviewTypes, NEW h \in Handlers, RecalcDriverRating(h)
    PROVE  ReviewTypes'
<1> DEFINE tx == reviewTx[h]
           after == SeenReviews(tx.trip, tx.stars)
           u == Total(after)
           c == Cardinality(Rated(after))
           a == {g \in Handlers \ {h} : InTx(g)} = {}
           new == [tx EXCEPT !.step = "averaged", !.sum = u, !.count = c, !.alone = a]
<1>1. tx \in ReviewTx /\ tx.trip \in Trips /\ tx.stars \in Stars
    BY DEF ReviewTypes, RecalcDriverRating
<1>2. after \in [Trips -> Stars \cup {None}]
    BY <1>1 DEF ReviewTypes, SeenReviews
<1>3. u \in Nat /\ c \in Nat /\ a \in BOOLEAN
    BY <1>2, TotalIsANumber
<1>4. UNCHANGED <<served, review, profile>>
    BY DEF RecalcDriverRating
<1>5. /\ reviewTx' = [g \in Handlers |-> reviewTx'[g]] /\ reviewTx'[h] = new
      /\ \A g \in Handlers \ {h} :
            reviewTx'[g] \in {reviewTx[g], [reviewTx[g] EXCEPT !.alone = FALSE]}
    BY DEF RecalcDriverRating
<1> HIDE DEF u, c, a
<1>6. new \in ReviewTx /\ new.trip = tx.trip /\ new.stars = tx.stars
    BY <1>1, <1>3 DEF ReviewTx
<1> HIDE DEF new
<1>7. ASSUME NEW g \in Handlers
      PROVE  /\ reviewTx'[g] \in ReviewTx
             /\ reviewTx'[g].step # "idle" =>
                   reviewTx'[g].trip \in Trips /\ reviewTx'[g].stars \in Stars
    <2>1. CASE g = h
        BY <1>1, <1>5, <1>6, <2>1
    <2>2. CASE g # h
        <3> DEFINE old == reviewTx[g]
        <3>1. /\ old \in ReviewTx
              /\ old.step # "idle" => old.trip \in Trips /\ old.stars \in Stars
            BY DEF ReviewTypes
        <3>2. reviewTx'[g] \in {old, [old EXCEPT !.alone = FALSE]}
            BY <1>5, <2>2
        <3> HIDE DEF old
        <3>3. QED
            BY <3>1, <3>2 DEF ReviewTx
    <2>3. QED
        BY <2>1, <2>2
<1>8. QED
    BY <1>4, <1>5, <1>7 DEF ReviewTypes

LEMMA CommitReviewTyped ==
    ASSUME ReviewTypes, NEW h \in Handlers, CommitReview(h)
    PROVE  ReviewTypes'
<1> DEFINE tx == reviewTx[h]
<1>1. tx \in ReviewTx /\ tx.trip \in Trips /\ tx.stars \in Stars
    BY DEF ReviewTypes, CommitReview, InTx
<1>2. /\ review' = [review EXCEPT ![tx.trip] = tx.stars] /\ UNCHANGED served
      /\ profile' = [sum |-> tx.sum, count |-> tx.count, alone |-> tx.alone]
      /\ reviewTx' = [reviewTx EXCEPT ![h] = NoReviewTx]
    BY DEF CommitReview, ReviewEnds
<1>3. profile' \in Profile
    BY <1>1, <1>2 DEF ReviewTx, Profile
<1>4. review' \in [Trips -> Stars \cup {None}]
    BY <1>1, <1>2 DEF ReviewTypes
<1>5. QED
    BY <1>2, <1>3, <1>4, NoReviewTxIsTyped, ReviewTxTyped

LEMMA ReviewTypesSteps == ReviewTypes /\ [FeedbackNext]_feedbackVars => ReviewTypes'
<1> SUFFICES ASSUME ReviewTypes, [FeedbackNext]_feedbackVars PROVE ReviewTypes'
    OBVIOUS
<1>1. CASE UNCHANGED reviewVars
    BY <1>1 DEF reviewVars, ReviewTypes
<1>2. ASSUME NEW t \in Trips, TripChanges(t) PROVE ReviewTypes'
    BY <1>2 DEF TripChanges, ReviewTypes
<1>3. ASSUME NEW h \in Handlers, ReviewFails(h) PROVE ReviewTypes'
    <2>1. /\ reviewTx' = [reviewTx EXCEPT ![h] = NoReviewTx]
          /\ UNCHANGED <<served, review, profile>>
        BY <1>3 DEF ReviewFails, ReviewEnds
    <2>2. QED
        BY <2>1, NoReviewTxIsTyped, ReviewTxTyped DEF ReviewTypes
<1>4. CASE ReviewsNext
    BY <1>2, <1>3, <1>4, CreateOrUpdateTyped, RecalcTyped, CommitReviewTyped DEF ReviewsNext
<1>5. QED
    BY <1>1, <1>4 DEF FeedbackNext, feedbackVars

\* Ratings and counts are numbers, and transactions and alerts have their types,
\* however they overlap.
THEOREM FeedbackTypeCorrect == FeedbackSpec => []FeedbackTypeOK
<1>1. ReviewTypes /\ AlarmInv => FeedbackTypeOK
    BY DEF ReviewTypes, AlarmInv, AlarmShape, FeedbackTypeOK
<1>2. QED
    BY ReviewTypesStart, ReviewTypesSteps, AlarmsStart, AlarmsSteps, <1>1, PTL
    DEF FeedbackSpec

-----------------------------------------------------------------------------
(* The parts together.                                                     *)

\* A step of the service is a step of one part, and the others rest.
LEMMA PartsMove ==
    ASSUME [Next]_vars
    PROVE  /\ [CodesNext]_codesVars /\ [SessionsNext]_sessionsVars
           /\ [PushesNext]_pushesVars /\ [ChatNext]_chatVars
           /\ [RequestsNext]_requestsVars /\ [PlansNext]_plansVars
           /\ [TasksNext]_tasksVars /\ [PositionsNext]_positionsVars
           /\ [CatalogueNext]_catalogueVars /\ [FeedbackNext]_feedbackVars
           /\ [DiscoveryNext]_discoveryVars /\ [DashboardNext]_dashboardVars
<1>1. CASE UNCHANGED vars
    BY <1>1 DEF vars, access, trips, backOffice, catalogueVars, feedbackVars
<1>2. CASE AccessNext
    BY <1>2 DEF AccessNext, trips, backOffice, SessionsNext, catalogueVars, feedbackVars
<1>3. CASE TripsNext
    BY <1>3 DEF TripsNext, access, backOffice, catalogueVars, feedbackVars
<1>4. CASE BackOfficeNext
    BY <1>4 DEF BackOfficeNext, access, trips, catalogueVars, feedbackVars, CatalogueNext,
       FeedbackNext
<1>5. QED
    BY <1>1, <1>2, <1>3, <1>4 DEF Next

\* The parts as they run in production, each at its own pace: they share no variable, so
\* a behaviour of all is one that every part's specification allows.
AllParts ==
    /\ CodesSpec /\ SessionsSpec /\ PushesSpec /\ ChatSpec /\ RequestsSpec
    /\ PlansSpec /\ TasksSpec /\ PositionsSpec
    /\ CatalogueSpec /\ FeedbackSpec /\ DiscoverySpec /\ DashboardSpec

\* What TLC runs, one part that moves and the others at rest, is allowed by all parts.
THEOREM PartsAreKept == Spec => AllParts
<1>1. Init => /\ CodesInit /\ SessionsInit /\ PushesInit /\ ChatInit /\ RequestsInit
              /\ PlansInit /\ TasksInit /\ PositionsInit
              /\ CatalogueInit /\ FeedbackInit /\ DiscoveryInit /\ DashboardInit
    BY DEF Init
<1>2. QED
    BY <1>1, PartsMove, PTL
    DEF Spec, AllParts, CodesSpec, SessionsSpec, PushesSpec, ChatSpec, RequestsSpec,
        PlansSpec, TasksSpec, PositionsSpec, CatalogueSpec, FeedbackSpec, DiscoverySpec,
        DashboardSpec

\* Every row, list and call of every part has its type, however the parts interleave.
THEOREM PartsTypeCorrect == AllParts => []TypeOK
<1>1. /\ CodesTypeOK /\ SessionsTypeOK /\ PushesTypeOK /\ ChatTypeOK /\ RequestsTypeOK
      /\ PlansTypeOK /\ TasksTypeOK /\ PositionsTypeOK
      /\ CatalogueTypeOK /\ FeedbackTypeOK /\ DiscoveryTypeOK /\ DashboardTypeOK
      => TypeOK
    BY DEF TypeOK
<1>2. QED
    BY CodesTypeCorrect, SessionsTypeCorrect, PushesTypeCorrect, ChatTypeCorrect,
       RequestsTypeCorrect, PlansTypeCorrect, TasksTypeCorrect, PositionsTypeCorrect,
       CatalogueTypeCorrect, FeedbackTypeCorrect, DiscoveryTypeCorrect,
       DashboardTypeCorrect, <1>1, PTL DEF AllParts

\* And so it has in the run.
THEOREM ServiceTypeCorrect == Spec => []TypeOK
BY PartsAreKept, PartsTypeCorrect, PTL

\* All that is said of the parts holds of them together, however they interleave:
\* accounts and codes, tokens and claims, devices, messages, requests, vendors and
\* imports, ratings and alarms, the trip, the lists, the dashboard and the map.
THEOREM PartsHold ==
    AllParts =>
        /\ []CodesAreLimited /\ []AccountsAreEarned /\ []TokensRotate /\ ClaimsWereTrue
        /\ []DevicesAreKept /\ []ReadersAreTold /\ DriverIsReached
        /\ []OneBookingPerKey /\ []ReviewsStand /\ []SlipsAddUp /\ []ImportsApplyOnce
        /\ []RatingIsTheAverage /\ []AlarmsAreHeard /\ []TripIsShown /\ []ListsAgree
        /\ []DashboardCatchesUp /\ []MapFollowsHim
BY CodesLimited, CodesEarnAccounts, StaffTokensRotate, TokensClaimTruth,
   DevicesKept, ReadersTold, DriverReached, KeysBookOnce, ReviewsAreKept, SlipsFit,
   ImportsApply, RatingsAverage, AlarmsHeard, TripIsKept, ListsAreOne, CardsCatchUp,
   MapIsHis, PTL DEF AllParts
=============================================================================

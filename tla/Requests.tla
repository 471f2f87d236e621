------------------------------ MODULE Requests ------------------------------
(***************************************************************************)
(* Booking requests of one customer, one phone number (bookings.service.ts) *)
(* and the notifications about them (notifications.service.ts).            *)
(*                                                                         *)
(* A request is looked up by its idempotency key, written by a transaction *)
(* and announced after it; staff review it, and tell the customer, in the  *)
(* same three phases. Only the unique indexes see what runs between.       *)
(***************************************************************************)
EXTENDS Integers, Sequences, FiniteSets, Handling

CONSTANTS
    Keys,           \* idempotency keys
    MaxBookings,    \* bound: bookings of the customer
    MaxReviews      \* bound: reviews begun

ASSUME RequestsAssumption ==
    /\ None \notin Keys
    /\ MaxBookings \in Nat
    /\ MaxReviews \in Nat

VARIABLES
    customer,   \* table clients has a row with this phone
    booking,    \* the customer's rows of table bookings
    requestCall,\* the request each handler is serving
    answers,    \* history: the bookings that the senders of a key were shown
    reviews     \* counts reviews

requestsVars == <<customer, booking, requestCall, answers, reviews>>

Decided == {"confirmed", "rejected"}
Verdicts == Decided \cup {"under_review"}
\* notes: how many reviewers' notes internalNotes holds. History: how many were
\* written since it was last overwritten; what the customer was told last;
\* whether staff were; and whether calls about the row overlapped or one broke off.
Booking == [key: Keys \cup {None}, status: Verdicts \cup {"pending"}, notes: Nat,
            noted: Nat, told: Decided \cup {"received", "nothing"},
            staffTold: BOOLEAN, overlapped: BOOLEAN, cut: BOOLEAN]
RequestCall ==
    [step: {"idle", "insert", "staff", "client", "review", "verdict"},
     key: Keys \cup {None}, knew: BOOLEAN, row: 0 .. MaxBookings,
     verdict: Verdicts, notes: Nat, note: 0 .. 1]
NoRequest == [step |-> "idle", key |-> None, knew |-> FALSE, row |-> 0,
              verdict |-> "under_review", notes |-> 0, note |-> 0]

RequestsTypeOK ==
    /\ customer \in BOOLEAN
    /\ booking \in Seq(Booking) /\ Len(booking) <= MaxBookings
    /\ requestCall \in [Handlers -> RequestCall]
    /\ answers \in [Keys -> SUBSET (1 .. MaxBookings)]
    /\ reviews \in 0 .. MaxReviews

RequestsInit ==
    /\ customer \in BOOLEAN
    /\ booking = <<>>
    /\ requestCall = [h \in Handlers |-> NoRequest]
    /\ answers = [k \in Keys |-> {}]
    /\ reviews = 0

-----------------------------------------------------------------------------

RequestGoes(h, step) == requestCall' = [requestCall EXCEPT ![h].step = step]
RequestEnds(h) == requestCall' = [requestCall EXCEPT ![h] = NoRequest]
Busy(i) == \E h \in Handlers : requestCall[h].row = i
ShownBy(key, i) ==
    answers' = IF key = None THEN answers ELSE [answers EXCEPT ![key] = @ \cup {i}]

BookingsOf(key) == {i \in DOMAIN booking : booking[i].key = key}
NewBooking(key) ==
    [key |-> key, status |-> IF key = None THEN "confirmed" ELSE "pending",
     notes |-> 0, noted |-> 0, told |-> "nothing", staffTold |-> FALSE,
     overlapped |-> FALSE, cut |-> FALSE]

\* A key that is known is answered with its booking. Who is signed in as another
\* customer gets an error before anything is written, and is left out.
CreateCustomerRequest(h, key) ==
    /\ requestCall[h] = NoRequest
    /\ IF BookingsOf(key) # {}
       THEN /\ \E i \in BookingsOf(key) : ShownBy(key, i)
            /\ UNCHANGED requestCall
       ELSE /\ requestCall' = [requestCall EXCEPT ![h] =
                   [NoRequest EXCEPT !.step = "insert", !.key = key, !.knew = customer]]
            /\ UNCHANGED answers
    /\ UNCHANGED <<customer, booking, reviews>>

\* Staff enter a booking; it has no key and is confirmed.
CreateBooking(h) ==
    /\ requestCall[h] = NoRequest
    /\ requestCall' = [requestCall EXCEPT ![h] =
                          [NoRequest EXCEPT !.step = "insert", !.knew = customer]]
    /\ UNCHANGED <<customer, booking, answers, reviews>>

\* The unique index on idempotencyKey, which lets any number of nulls by;
\* NoIndex is a table without it.
NoIndex(key) == TRUE
KeyIsFree(key) == key = None \/ BookingsOf(key) = {}

\* Client, booking, conversation and participants commit together, or fail on a
\* phone or a key that was inserted meanwhile.
InsertBooking(h) ==
    LET call == requestCall[h]
    IN /\ call.step = "insert"
       /\ Len(booking) < MaxBookings
       /\ IF (call.knew \/ ~customer) /\ KeyIsFree(call.key)
          THEN /\ customer' = TRUE
               /\ booking' = Append(booking, NewBooking(call.key))
               /\ IF call.key = None THEN RequestEnds(h)
                  ELSE requestCall' = [requestCall EXCEPT
                           ![h].step = "staff", ![h].row = Len(booking')]
          ELSE RequestEnds(h) /\ UNCHANGED <<customer, booking>>
       /\ UNCHANGED <<answers, reviews>>

\* createAndFanout to the desk, whoever is on it.
TellStaff(h) ==
    /\ requestCall[h].step = "staff"
    /\ booking' = [booking EXCEPT ![requestCall[h].row].staffTold = TRUE]
    /\ RequestGoes(h, "client")
    /\ UNCHANGED <<customer, answers, reviews>>

TellReceipt(h) ==
    /\ requestCall[h].step = "client"
    /\ booking' = [booking EXCEPT ![requestCall[h].row].told = "received"]
    /\ ShownBy(requestCall[h].key, requestCall[h].row)
    /\ RequestEnds(h)
    /\ UNCHANGED <<customer, reviews>>

\* A review starts from any status; it may carry a note.
ReviewCustomerRequest(h, i, verdict, note) ==
    /\ requestCall[h] = NoRequest
    /\ reviews < MaxReviews
    /\ booking[i].key # None
    /\ requestCall' = [requestCall EXCEPT ![h] =
           [NoRequest EXCEPT !.step = "review", !.row = i, !.verdict = verdict,
                             !.notes = booking[i].notes, !.note = note]]
    /\ booking' = [booking EXCEPT ![i].overlapped = @ \/ Busy(i)]
    /\ reviews' = reviews + 1
    /\ UNCHANGED <<customer, answers>>

\* internalNotes becomes the value read earlier and the note.
WriteReview(h) ==
    LET call == requestCall[h]
    IN /\ call.step = "review"
       /\ booking' = [booking EXCEPT
              ![call.row].status = call.verdict,
              ![call.row].notes = IF call.note = 0 THEN @ ELSE call.notes + 1,
              ![call.row].noted = @ + call.note]
       /\ IF call.verdict \in Decided THEN RequestGoes(h, "verdict") ELSE RequestEnds(h)
       /\ UNCHANGED <<customer, answers, reviews>>

\* What a review tells the customer; Silence is what one that forgets to says.
Silence(call, row) == row.told
News(call, row) == call.verdict
TellVerdict(h) ==
    LET call == requestCall[h]
    IN /\ call.step = "verdict"
       /\ booking' = [booking EXCEPT ![call.row].told = News(call, booking[call.row])]
       /\ RequestEnds(h)
       /\ UNCHANGED <<customer, answers, reviews>>

\* An edit of the booking that sets internalNotes.
UpdateNotes(i) ==
    /\ booking' = [booking EXCEPT ![i].notes = 0, ![i].noted = 0,
                                  ![i].overlapped = @ \/ Busy(i)]
    /\ UNCHANGED <<customer, requestCall, answers, reviews>>

\* The process dies or a statement fails: nobody takes up what was left.
RequestFails(h) ==
    /\ requestCall[h] # NoRequest
    /\ booking' = IF requestCall[h].row = 0 THEN booking
                  ELSE [booking EXCEPT ![requestCall[h].row].cut = TRUE]
    /\ RequestEnds(h)
    /\ UNCHANGED <<customer, answers, reviews>>

RequestsNext ==
    \/ \E h \in Handlers :
          \/ \E key \in Keys : CreateCustomerRequest(h, key)
          \/ CreateBooking(h) \/ InsertBooking(h) \/ TellStaff(h) \/ TellReceipt(h)
          \/ \E i \in DOMAIN booking, verdict \in Verdicts, note \in 0 .. 1 :
                ReviewCustomerRequest(h, i, verdict, note)
          \/ WriteReview(h) \/ TellVerdict(h) \/ RequestFails(h)
    \/ \E i \in DOMAIN booking : UpdateNotes(i)

RequestsSpec == RequestsInit /\ [][RequestsNext]_requestsVars

-----------------------------------------------------------------------------
(* Properties.                                                             *)

\* However often and however concurrently a request is sent, there is one booking
\* for its key, and every sender who gets an answer is shown that booking.
OneBookingPerKey ==
    \A key \in Keys : /\ Cardinality(BookingsOf(key)) <= 1
                      /\ answers[key] \subseteq BookingsOf(key)

\* Unless calls about a request overlapped or one broke off, staff have heard of
\* it, the customer was told last what stands, and no reviewer's note is lost. A
\* decision taken back to under_review is not told.
Settled(i) == ~booking[i].overlapped /\ ~booking[i].cut /\ ~Busy(i)
ReviewsStand ==
    \A i \in DOMAIN booking :
        booking[i].key # None /\ Settled(i) =>
            /\ booking[i].staffTold
            /\ booking[i].status = "pending" => booking[i].told = "received"
            /\ booking[i].status \in Decided => booking[i].told = booking[i].status
            /\ booking[i].notes = booking[i].noted
=============================================================================

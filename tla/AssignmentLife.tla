--------------------------- MODULE AssignmentLife ---------------------------
(***************************************************************************)
(* What dispatch promises of a booking's assignments: proposing or         *)
(* accepting one closes the booking's other open ones in the same step,    *)
(* and a driver goes through his own one in order.  A booking whose        *)
(* assignments changed between a request's look at them and its write      *)
(* follows no such order, but keeps to itself: no other booking's          *)
(* assignment moves with it, and none is forgotten.                        *)
(***************************************************************************)
CONSTANTS Bookings, Drivers, Dates
VARIABLES status, crossed

Keys == Bookings \X Drivers \X Dates
Open == {"pending", "accepted", "in_progress"}

\* A step on an assignment of b may overtake a request about b.
Overtakes(b) == crossed' \in {crossed, crossed \cup {b}}

Move(k, from, to) ==
    /\ status[k] \in from
    /\ status' = [status EXCEPT ![k] = to]
    /\ Overtakes(k[1])

\* k gets its status and the booking's other open assignments are cancelled.
Supersede(k, to) ==
    /\ status' = [j \in Keys |->
                    IF j = k THEN to
                    ELSE IF j[1] = k[1] /\ status[j] \in Open THEN "cancelled"
                    ELSE status[j]]
    /\ Overtakes(k[1])

Propose(k) == Supersede(k, "pending")
Accept(k) == status[k] = "pending" /\ Supersede(k, "accepted")
Reject(k) == Move(k, {"pending"}, "rejected")
Begin(k) == Move(k, {"accepted"}, "in_progress")
Complete(k) == Move(k, {"in_progress"}, "completed")
Cancel(k) == status[k] # "none" /\ Move(k, {status[k]}, "cancelled")

\* A request of an overtaken booking writes k, and cancels what it had found.
Slip(k) ==
    /\ k[1] \in crossed
    /\ \E to \in Open \cup {"rejected", "completed", "cancelled"},
          found \in SUBSET {j \in Keys : j[1] = k[1] /\ status[j] \in Open} :
          status' = [j \in Keys |-> IF j = k THEN to
                                    ELSE IF j \in found THEN "cancelled"
                                    ELSE status[j]]
    /\ UNCHANGED crossed

Init ==
    /\ status = [k \in Keys |-> "none"]
    /\ crossed = {}

Next == \E k \in Keys :
    \/ Propose(k) \/ Accept(k) \/ Reject(k) \/ Begin(k) \/ Complete(k) \/ Cancel(k)
    \/ Slip(k)

Spec == Init /\ [][Next]_<<status, crossed>>
=============================================================================

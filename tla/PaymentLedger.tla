--------------------------- MODULE PaymentLedger ---------------------------
(***************************************************************************)
(* What the payments API promises of one row: collected on the spot, or    *)
(* sent as a link, opened, and either paid or expired.  A late payment of  *)
(* an expired link is taken; nothing leaves "paid".  A row that changed    *)
(* between an event's look at it and its write follows no such order, but  *)
(* it never becomes a row no request has made.                             *)
(***************************************************************************)
CONSTANT PaymentIds
VARIABLES status, raced

Move(p, from, to) ==
    /\ status[p] \in from
    /\ status' = [status EXCEPT ![p] = to]
    /\ raced' \in {raced, raced \cup {p}}

Collect(p) == Move(p, {"none"}, "paid")
Send(p) == Move(p, {"none"}, "sent")
Open(p) == Move(p, {"sent"}, "opened")
Settle(p) == Move(p, {"sent", "opened", "expired"}, "paid")
Lapse(p) == Move(p, {"sent", "opened"}, "expired")

\* An event applied to what the row was when its handler looked.
Slip(p) ==
    /\ p \in raced
    /\ \E to \in {"opened", "paid", "expired"} :
          Move(p, {"opened", "paid", "expired"}, to)

Init ==
    /\ status = [p \in PaymentIds |-> "none"]
    /\ raced = {}

Next == \E p \in PaymentIds :
            Collect(p) \/ Send(p) \/ Open(p) \/ Settle(p) \/ Lapse(p) \/ Slip(p)

Spec == Init /\ [][Next]_<<status, raced>>
=============================================================================

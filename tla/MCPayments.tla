----------------------------- MODULE MCPayments -----------------------------
(* Instances of Payments for TLC. *)
EXTENDS Payments, TLC

Interchangeable == Permutations(PaymentIds) \cup Permutations(Requests)
                   \cup Permutations(Events) \cup Permutations(Bookings)
=============================================================================

---------------------------- MODULE MCAssignments ----------------------------
(* Instances of Assignments for TLC. *)
EXTENDS Assignments, TLC

\* Drivers differ by ByHand.
Interchangeable ==
    Permutations(Bookings) \cup Permutations(Items) \cup Permutations(Handlers)
=============================================================================

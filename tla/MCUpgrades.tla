----------------------------- MODULE MCUpgrades -----------------------------
(* Instances of Upgrades for TLC. *)
EXTENDS Upgrades, TLC

Interchangeable == Permutations(RequestIds) \cup Permutations(Handlers)
                   \cup Permutations(Dates)
=============================================================================

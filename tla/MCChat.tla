------------------------------- MODULE MCChat -------------------------------
(* Chat for TLC.                                                           *)
EXTENDS Chat

OnePerRole == [p \in People |-> p]
=============================================================================

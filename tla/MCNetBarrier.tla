---------------------------- MODULE MCNetBarrier ----------------------------
(* Small instances of NetBarrier for TLC. *)
EXTENDS NetBarrier

CONSTANTS a1, a2

TwoAgents == {a1, a2}
=============================================================================

------------------------------- MODULE MCPerf -------------------------------
(* Small instances of Perf for TLC. *)
EXTENDS Perf

CONSTANTS k1, k2, c1

TwoSocks == {k1, k2}
OneCaller == {c1}
=============================================================================

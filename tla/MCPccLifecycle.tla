--------------------------- MODULE MCPccLifecycle ---------------------------
(* Small instances of PccLifecycle for TLC. *)
EXTENDS PccLifecycle, TLC

CONSTANTS s1, s2

TwoSessions == {s1, s2}
SessionSymmetry == Permutations(Sessions)
=============================================================================

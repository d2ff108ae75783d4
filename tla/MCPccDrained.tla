---------------------------- MODULE MCPccDrained ----------------------------
(* Small instances of PccDrained for TLC. *)
EXTENDS PccDrained

CONSTANTS s1, s2, s3

ThreeSessions == {s1, s2, s3}
=============================================================================

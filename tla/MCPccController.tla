-------------------------- MODULE MCPccController --------------------------
(* Small instances of PccController for TLC. *)
EXTENDS PccController

CONSTANTS r1

OneRequest == {r1}
=============================================================================

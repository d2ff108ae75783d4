---------------------------- MODULE MCSedaClient ----------------------------
(* A small instance of SedaClient for TLC. *)
EXTENDS SedaClient
=============================================================================

------------------------------ MODULE PccWire ------------------------------
(***************************************************************************)
(* The TCP connection between a PCC client and its session on the server:  *)
(* two FIFO streams of headers (pcc_proto.go).  Payloads, ids and time     *)
(* stamps are left out; a message keeps the field the protocol acts on.    *)
(***************************************************************************)
EXTENDS Integers, Sequences

VARIABLES c2s,   \* client to server: [op, demand]
          s2c,   \* server to client: [op, credit]
          open   \* the client has not shut the connection down

wireVars == <<c2s, s2c, open>>

\* CpccHdr and SpccHdr, by Op.
Call(demand) == [op |-> "call", demand |-> demand]
CUpdate(demand) == [op |-> "credit", demand |-> demand]
Response(credit) == [op |-> "call", credit |-> credit]
ECredit(credit) == [op |-> "credit", credit |-> credit]

CallsIn(s) == {i \in DOMAIN s : s[i].op = "call"}

WireInit == c2s = <<>> /\ s2c = <<>> /\ open = TRUE
=============================================================================

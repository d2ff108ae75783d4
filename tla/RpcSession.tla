----------------------------- MODULE RpcSession -----------------------------
(***************************************************************************)
(* What a server session of ovldctlrpc promises its client, whichever      *)
(* overload controller it runs: a call that the session takes holds one of *)
(* its slots and is answered exactly once, while the client is there; a    *)
(* call is turned away only when every slot is in use, if at all; and the  *)
(* session ends after its client has left, when nothing is left in it.     *)
(***************************************************************************)
EXTENDS Integers

CONSTANTS Slots,      \* the slots of the session
          MayRefuse   \* whether calls can find no slot

VARIABLES inbox,      \* calls on their way to the server
          outbox,     \* responses on their way to the client
          busy,       \* slots in use
          answered,   \* those whose response is written
          open,       \* the client has not disconnected
          ended       \* the session's goroutine has returned

vars == <<inbox, outbox, busy, answered, open, ended>>

Init ==
    /\ inbox = 0 /\ outbox = 0
    /\ busy = {} /\ answered = {}
    /\ open = TRUE /\ ended = FALSE

\* The client sends any number of calls, and may read a response.
Client ==
    /\ open
    /\ inbox' >= inbox
    /\ outbox' \in {outbox, outbox - 1} \cap Nat
    /\ UNCHANGED <<busy, answered, open, ended>>

Disconnect ==
    /\ open' = FALSE
    /\ UNCHANGED <<inbox, outbox, busy, answered, ended>>

Take(i) ==
    /\ inbox > 0 /\ i \notin busy
    /\ inbox' = inbox - 1
    /\ busy' = busy \cup {i}
    /\ UNCHANGED <<outbox, answered, open, ended>>

Refuse ==
    /\ MayRefuse /\ inbox > 0 /\ busy = Slots
    /\ inbox' = inbox - 1
    /\ UNCHANGED <<outbox, busy, answered, open, ended>>

\* The response is lost only if the client has left.
Answer(i) ==
    /\ i \in busy \ answered
    /\ answered' = answered \cup {i}
    /\ outbox' = outbox + 1 \/ (~open /\ outbox' = outbox)
    /\ UNCHANGED <<inbox, busy, open, ended>>

Free(i) ==
    /\ i \in answered
    /\ busy' = busy \ {i} /\ answered' = answered \ {i}
    /\ UNCHANGED <<inbox, outbox, open, ended>>

\* Calls of a client that has left need no response.
Discard ==
    /\ ~open
    /\ \E gone \in SUBSET (busy \ answered) : busy' = busy \ gone
    /\ UNCHANGED <<inbox, outbox, answered, open, ended>>

End ==
    /\ ~open /\ busy = {}
    /\ ended' = TRUE
    /\ UNCHANGED <<inbox, outbox, busy, answered, open>>

Next ==
    \/ Client \/ Disconnect \/ Refuse \/ Discard \/ End
    \/ \E i \in Slots : Take(i) \/ Answer(i) \/ Free(i)

Spec == Init /\ [][Next]_vars
=============================================================================

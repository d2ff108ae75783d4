---------------------------- MODULE SlotSession ----------------------------
(***************************************************************************)
(* A session of the SEDA server (sd_server.go) and of the server without   *)
(* overload control (nc_server.go): the two are the same code, except that *)
(* SEDA's worker looks at the queueing delay, and that without control the *)
(* receiver may refuse a request under SncAqmOn.  No credits: the client   *)
(* may have more calls under way than the session has slots.               *)
(*                                                                         *)
(* A critical section of s.Lock is one step.  A slot passes from the       *)
(* receiving goroutine to a worker to the sender and back to AvailSlots.   *)
(***************************************************************************)
EXTENDS Integers, FiniteSets

CONSTANTS Slots,      \* the indices of s.Slots
          NoSlot,     \* no slot
          AqmOn,      \* SncAqmOn, and the queueing delay may pass its threshold
          MaxCalls    \* bound on the calls, and on the responses, in transit

ASSUME SlotAssumption ==
    IsFiniteSet(Slots) /\ NoSlot \notin Slots /\ AqmOn \in BOOLEAN /\ MaxCalls \in Nat

VARIABLES inbox,       \* calls in transit from the client
          outbox,      \* responses in transit to the client
          open,        \* the client has not shut the connection down
          slots,       \* what each slot is used for
          sending,     \* tmp: the completed slots the sender has taken
          numPending,  \* s.NumPending
          pending,     \* what the session has added to SsdNumPending
          closed,      \* s.Closed
          receiver,    \* where ssdServer is
          slot,        \* the slot of the request it reads
          sender       \* where ssdSender is

wireVars == <<inbox, outbox, open>>
vars == <<wireVars, slots, sending, numPending, pending, closed, receiver, slot, sender>>

Avail == {i \in Slots : slots[i] = "avail"}
Completed == {i \in Slots \ sending : slots[i] = "completed"}
InFlight == Slots \ (Avail \cup Completed)

\* SendCondVar.Signal(): the sender is the only goroutine that waits on it.
Signal == sender' = CASE sender = "asleep" -> "loop"
                      [] sender = "closeAsleep" -> "close"
                      [] OTHER -> sender

Init ==
    /\ inbox = 0 /\ outbox = 0 /\ open = TRUE
    /\ slots = [i \in Slots |-> "avail"] /\ sending = {}
    /\ numPending = 0 /\ pending = 0 /\ closed = FALSE
    /\ receiver = "reading" /\ slot = NoSlot
    /\ sender = "loop"
-----------------------------------------------------------------------------
(* The client: CrpcSendOne, CrpcRecvOne and Shutdown, seen from the server *)

SendCall ==
    /\ open /\ inbox < MaxCalls
    /\ inbox' = inbox + 1
    /\ UNCHANGED <<outbox, open, slots, sending, numPending, pending, closed, receiver, slot,
                   sender>>

RecvResponse ==
    /\ open /\ outbox > 0
    /\ outbox' = outbox - 1
    /\ UNCHANGED <<inbox, open, slots, sending, numPending, pending, closed, receiver, slot,
                   sender>>

Shutdown ==
    /\ open
    /\ open' = FALSE
    /\ UNCHANGED <<inbox, outbox, slots, sending, numPending, pending, closed, receiver, slot,
                   sender>>
-----------------------------------------------------------------------------
(* The receiving goroutine *)

\* ssdGetSlot takes a slot for the call.  Without one the payload is read and
\* the request forgotten: the client gets no response.
RecvCall ==
    /\ receiver = "reading" /\ inbox > 0
    /\ inbox' = inbox - 1
    /\ \/ Avail = {} /\ UNCHANGED <<slots, slot, receiver>>
       \/ \E i \in Avail :
             /\ slots' = [slots EXCEPT ![i] = "reading"]
             /\ slot' = i
             /\ receiver' = "payload"
    /\ UNCHANGED <<outbox, open, sending, numPending, pending, closed, sender>>

\* The connection ended inside the payload: ssdPutSlot.
RecvPayloadFails ==
    /\ receiver = "payload" /\ ~open
    /\ slots' = [slots EXCEPT ![slot] = "avail"]
    /\ slot' = NoSlot
    /\ receiver' = "ending"
    /\ UNCHANGED <<wireVars, sending, numPending, pending, closed, sender>>

\* The request counts as pending; AQM refuses it at once, or a worker starts.
RecvAdmit ==
    /\ receiver = "payload"
    /\ numPending' = numPending + 1 /\ pending' = pending + 1
    /\ \/ /\ AqmOn
          /\ slots' = [slots EXCEPT ![slot] = "completed"]
          /\ Signal
       \/ /\ slots' = [slots EXCEPT ![slot] = "working"]
          /\ UNCHANGED sender
    /\ slot' = NoSlot
    /\ receiver' = "reading"
    /\ UNCHANGED <<wireVars, sending, closed>>

RecvEOF ==
    /\ receiver = "reading" /\ inbox = 0 /\ ~open
    /\ receiver' = "ending"
    /\ UNCHANGED <<wireVars, slots, sending, numPending, pending, closed, slot, sender>>

\* Mutant: the requests that are left stay on the global count.
RecvCloseKeepsPending ==
    /\ receiver = "ending"
    /\ numPending' = 0
    /\ closed' = TRUE
    /\ Signal
    /\ receiver' = "waiting"
    /\ UNCHANGED <<wireVars, slots, sending, pending, slot>>

\* Mutant: the sender is not signalled.
RecvCloseNoSignal ==
    /\ receiver = "ending"
    /\ pending' = pending - numPending /\ numPending' = 0
    /\ closed' = TRUE
    /\ receiver' = "waiting"
    /\ UNCHANGED <<wireVars, slots, sending, slot, sender>>

\* "Update a few stats and signal the sender".
RecvClose ==
    /\ receiver = "ending"
    /\ pending' = pending - numPending /\ numPending' = 0
    /\ closed' = TRUE
    /\ Signal
    /\ receiver' = "waiting"
    /\ UNCHANGED <<wireVars, slots, sending, slot>>

\* SendWaiter.Wait() returns, and ssdServer with it.
RecvDone ==
    /\ receiver = "waiting" /\ sender = "done"
    /\ receiver' = "done"
    /\ UNCHANGED <<wireVars, slots, sending, numPending, pending, closed, slot, sender>>
-----------------------------------------------------------------------------
(* The workers and the sender *)

\* Mutant: the worker does not signal the sender.
ssdWorkerNoSignal(i) ==
    /\ slots[i] = "working"
    /\ slots' = [slots EXCEPT ![i] = "completed"]
    /\ UNCHANGED <<wireVars, sending, numPending, pending, closed, receiver, slot, sender>>

\* The request is dropped or the handler has returned; either way the slot is
\* completed, and will be answered (with an empty response if dropped).
ssdWorker(i) ==
    /\ slots[i] = "working"
    /\ slots' = [slots EXCEPT ![i] = "completed"]
    /\ Signal
    /\ UNCHANGED <<wireVars, sending, numPending, pending, closed, receiver, slot>>

SenderSleeps ==
    /\ sender = "loop" /\ ~closed /\ Completed = {}
    /\ sender' = "asleep"
    /\ UNCHANGED <<wireVars, slots, sending, numPending, pending, closed, receiver, slot>>

\* Take the completed slots, or leave the loop.
SenderTakes ==
    /\ sender = "loop"
    /\ \/ /\ closed
          /\ sender' = "close"
          /\ UNCHANGED <<sending, numPending>>
       \/ /\ ~closed /\ Completed # {}
          /\ sending' = Completed
          /\ numPending' = numPending - Cardinality(Completed)
          /\ sender' = "respond"
    /\ UNCHANGED <<wireVars, slots, pending, closed, receiver, slot>>

\* Mutant: the response is not written.
SendResponseNot ==
    /\ sender = "respond"
    /\ \A i \in sending : slots[i] # "sent"
    /\ \E i \in sending : slots' = [slots EXCEPT ![i] = "sent"]
    /\ pending' = pending - 1
    /\ UNCHANGED <<wireVars, sending, numPending, closed, receiver, slot, sender>>

\* ssdSendCompletionVector, for one slot: the response, which may fail once the
\* client has shut the connection down, the global count ...
SendResponse ==
    /\ sender = "respond"
    /\ \A i \in sending : slots[i] # "sent"
    /\ \E i \in sending : slots' = [slots EXCEPT ![i] = "sent"]
    /\ \/ outbox < MaxCalls /\ outbox' = outbox + 1
       \/ ~open /\ outbox' = outbox
    /\ pending' = pending - 1
    /\ UNCHANGED <<inbox, open, sending, numPending, closed, receiver, slot, sender>>

\* ... and ssdPutSlot.
PutSlot ==
    /\ sender = "respond"
    /\ \E i \in sending :
          /\ slots[i] = "sent"
          /\ slots' = [slots EXCEPT ![i] = "avail"]
          /\ sending' = sending \ {i}
    /\ sender' = IF sending' = {} THEN "loop" ELSE "respond"
    /\ UNCHANGED <<wireVars, numPending, pending, closed, receiver, slot>>

\* "Wait for inflight requests to complete", "Cleanup any remaining slots" and
\* let ssdServer go.
SenderCloses ==
    /\ sender = "close"
    /\ \/ /\ InFlight # {}
          /\ sender' = "closeAsleep"
          /\ UNCHANGED slots
       \/ /\ InFlight = {}
          /\ sender' = "done"
          /\ slots' = [i \in Slots |-> "avail"]
    /\ UNCHANGED <<wireVars, sending, numPending, pending, closed, receiver, slot>>

ReceiverNext ==
    RecvCall \/ RecvPayloadFails \/ RecvAdmit \/ RecvEOF \/ RecvClose \/ RecvDone
SenderNext == SenderSleeps \/ SenderTakes \/ SendResponse \/ PutSlot \/ SenderCloses

Next ==
    \/ SendCall \/ RecvResponse \/ Shutdown
    \/ ReceiverNext \/ SenderNext
    \/ \E i \in Slots : ssdWorker(i)

Spec == Init /\ [][Next]_vars

\* The runtime runs every runnable goroutine, handlers return, and the client
\* reads its responses as long as it stays.
FairSpec ==
    /\ Spec
    /\ WF_vars(ReceiverNext) /\ WF_vars(SenderNext) /\ WF_vars(RecvResponse)
    /\ \A i \in Slots : WF_vars(ssdWorker(i))
-----------------------------------------------------------------------------
(* Properties *)

\* SsdNumPending, the "number of pending requests (whose responses are not yet
\* sent)", counts exactly those of the session; at its close those the sender
\* had taken are still counted, until it has written them, and no others.
PendingAccounting ==
    pending = Cardinality({i \in Slots : /\ slots[i] \in {"working", "completed"}
                                         /\ closed => i \in sending})

\* The session implements the abstract one, in which calls may be refused.
Abstract == INSTANCE RpcSession WITH
                MayRefuse <- TRUE,
                busy <- Slots \ Avail,
                answered <- {i \in Slots : slots[i] = "sent"},
                ended <- receiver = "done"
ImplementsRpcSession == Abstract!Spec

\* A call that has a slot gives it back: no wake-up of the sender is lost.
SlotsComeBack == \A i \in Slots : slots[i] # "avail" ~> slots[i] = "avail"

\* ssdServer returns once the client has disconnected: no session is leaked.
SessionEnds == ~open ~> receiver = "done"
=============================================================================

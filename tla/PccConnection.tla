--------------------------- MODULE PccConnection ---------------------------
(***************************************************************************)
(* A PCC client and its session on the server, joined by their connection: *)
(* the credit protocol end to end.                                         *)
(***************************************************************************)
EXTENDS PccClient, PccSession

vars == <<wireVars, clientVars, sessionVars>>

Init == WireInit /\ CrpcOpen /\ SessionInit

Next ==
    \/ ClientNext /\ UNCHANGED sessionVars
    \/ SessionNext /\ UNCHANGED clientVars

Spec == Init /\ [][Next]_vars

Server(A) == s.List # "corrupt" /\ A /\ UNCHANGED clientVars

\* The runtime runs every runnable goroutine and handlers return; time.Sleep
\* returns.  Nothing is assumed of the application, of the passage of time, or
\* of when the controller decides to wake sessions: only that a wake-up that
\* has begun goes on.
FairSpec ==
    /\ Spec
    /\ WF_vars(Server(ReceiverNext))
    /\ WF_vars(Server(SenderNext))
    /\ \A i \in Slots : WF_vars(Server(spccWorker(i)))
    /\ WF_vars(Server(waker # "idle" /\ WakerNext))
    /\ WF_vars(cpccTimer /\ UNCHANGED sessionVars)
    /\ WF_vars(cpccTimerWake /\ UNCHANGED sessionVars)
    /\ WF_vars(CrpcCloseConn /\ UNCHANGED sessionVars)
-----------------------------------------------------------------------------
(* Properties *)

\* Every variable has its type; in particular the uint32 cc.CreditUsed and the
\* credits never fall below zero, and no credit reaches MaxWindow.
TypeOK ==
    /\ c2s \in Seq([op : {"call", "credit"}, demand : 0..CrpcQlen])
    /\ s2c \in Seq([op : {"call", "credit"}, credit : 0..(MaxWindow - 1)])
    /\ cCredit \in 0..(MaxWindow - 1) /\ cCreditUsed \in Nat
    /\ {waitingResp, init, running, open, mayDrain} \subseteq BOOLEAN
    /\ queued \in 0..CrpcQlen /\ expired \in 0..queued
    /\ timer \in {"awake", "waiting", "sleeping", "done"}
    /\ s \in [NumPending : 0..MaxWindow, Closed : BOOLEAN, Drained : BOOLEAN,
              List : {"none", "H", "L", "corrupt"}, WakeUp : BOOLEAN,
              Credit : 0..(MaxWindow - 1), Advertised : 0..(MaxWindow - 1),
              Demand : 0..CrpcQlen, NeedECredit : BOOLEAN]
    /\ slots \in [Slots -> {"avail", "reading", "working", "served", "refused", "sent"}]
    /\ sending \subseteq Slots
    /\ sLock \in {"free", "receiver", "sender"} /\ listLock \in {"free", "waker"}
    /\ receiver \in {"reading", "payload", "unlinking", "ending", "unlinkingToClose",
                     "waiting", "done"}
    /\ request \in [slot : Slots \cup {NoSlot}, demand : 0..CrpcQlen]
    /\ sender \in {"loop", "asleep", "unlinking", "ecredit", "respond", "drain", "linking",
                   "close", "closeAsleep", "unlinkingToClose", "done"}
    /\ waker \in {"idle", "demoting", "popped", "chosen", "owing"}
    /\ share \in [used : Int, pending : Nat, drained : Int]

\* The slots whose response is not written yet.
Unanswered == {i \in Slots : slots[i] \notin {"avail", "sent"}}

\* While the connection is open, the credits the client counts as used are
\* exactly its requests in transit, in a slot of the server, or answered by a
\* response in transit: no request is lost, none is answered twice, whichever
\* way it ends (served, dropped by the handler, refused by AQM).
CreditConservation ==
    open => cCreditUsed = Cardinality(CallsIn(c2s)) + Cardinality(Unanswered)
                          + Cardinality(CallsIn(s2c))

\* spccGetSlot never comes back empty-handed: whenever a CALL header is on its
\* way there is a slot for it.  The window is MaxWindow, a credit is at most
\* MaxWindow - 1, and the one slot between them is the one whose response is
\* written but which the sender has not put back.
SlotForEveryCall ==
    (receiver = "reading" /\ CallsIn(c2s) # {}) => Avail # {}

\* SpccNumPending, the "number of pending requests (whose responses are not yet
\* sent)", counts exactly those of the session; at its close those the sender
\* had taken are still counted, until it has written them, and no others.
PendingAccounting ==
    share.pending =
        Cardinality({i \in Slots : /\ slots[i] \in {"working", "served", "refused"}
                                   /\ s.Closed => i \in sending})

\* The credits in SpccCreditUsed for this session never fall below the credits
\* it has, but for the one a wake-up has given and not counted yet; so the
\* subtractions of uint64 SpccCreditUsed leave no lasting underflow.
CreditNotUndercounted ==
    share.used + (IF waker = "owing" THEN 1 ELSE 0) >= (IF s.Closed THEN 0 ELSE s.Credit)

\* The session implements the abstract one in which no call is refused: a call
\* that the client has a credit for gets a slot and exactly one response, and
\* the session ends after the client has left and its slots are free.
Abstract == INSTANCE RpcSession WITH
                MayRefuse <- FALSE,
                inbox <- Cardinality(CallsIn(c2s)),
                outbox <- Cardinality(CallsIn(s2c)),
                busy <- Slots \ Avail,
                answered <- {i \in Slots : slots[i] = "sent"},
                ended <- receiver = "done"
ImplementsRpcSession == Abstract!Spec

\* A request the server has taken in is answered, while the client stays: the
\* sender is signalled for every completed slot, and never sleeps on one.
EveryCallAnswered ==
    \A i \in Slots : slots[i] # "avail" ~> (slots[i] = "avail" \/ ~open)

\* Requests past their delay leave the queue: the timer is woken when a request
\* enters the empty queue, and sleeps no longer than the newest one's delay.
ExpiredAreDropped == expired > 0 ~> (expired = 0 \/ ~running)

\* CrpcClose gets past its wait for the timer.
CloseCompletes == ~running ~> ~open
-----------------------------------------------------------------------------
(* What comments of the code say, and the code does not do *)

\* SpccNumDrained is the "Number of drained client sessions": this one counts
\* once if it is on a drained list, and not otherwise.
NumDrainedExact ==
    waker = "idle" => share.drained = (IF IsLinked THEN 1 ELSE 0)

\* The sender will "Signal the server thread that we are done", and spccServer,
\* which waits for it, return, once the client has disconnected.
SessionEnds == ~open ~> receiver = "done"
=============================================================================

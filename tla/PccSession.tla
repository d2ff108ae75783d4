----------------------------- MODULE PccSession -----------------------------
(***************************************************************************)
(* One client session of the PCC server (pcc_server.go): the receiving     *)
(* goroutine spccServer/spccRecvOne, the sender spccSender, a worker per   *)
(* request, and the one goroutine that may be waking drained sessions (it  *)
(* holds SpccCtlLock, so there is one at a time).                          *)
(*                                                                         *)
(* A critical section of s.Lock is one step, unless it also takes the lock *)
(* of the drained list: then the step that takes the first lock and the    *)
(* step that takes the second are separate, and the first stays held in    *)
(* between.  Reads the code makes without s.Lock (the credit put in a      *)
(* header, the count of available slots) are steps of their own.           *)
(*                                                                         *)
(* The rest of the server is the environment: the credit pool, the credits *)
(* other sessions use and the number of sessions are any values when       *)
(* spccUpdateCredit reads them.  The global counters appear as what this   *)
(* session has contributed to them.                                        *)
(***************************************************************************)
EXTENDS PccWire, PccCredit, FiniteSets

CONSTANTS Slots,            \* the indices of s.Slots
          NoSlot,           \* no slot
          UnusedChoices,    \* values of SpccCreditPool - SpccCreditUsed
          NumSessChoices,   \* values of SpccNumSess
          AQM,              \* whether queueing delay can exceed its budget
          MaxUsedShare      \* bound: no wake-up once share.used exceeds it

ASSUME SessionAssumption ==
    /\ IsFiniteSet(Slots) /\ Cardinality(Slots) = MaxWindow
    /\ NoSlot \notin Slots
    /\ UnusedChoices \subseteq Int
    /\ NumSessChoices \subseteq Nat \ {0}
    /\ AQM \in BOOLEAN
    /\ MaxUsedShare \in Nat

VARIABLES s,         \* the fields of SpccSession that s.Lock protects
          slots,     \* AvailSlots, CompletedSlots and Drop, per slot
          sending,   \* tmp: the completed slots the sender has taken
          sLock,     \* the goroutine that holds s.Lock between two steps
          listLock,  \* the goroutine that holds the drained list's lock
          receiver,  \* where spccServer is
          request,   \* the slot and the demand of the request it reads
          sender,    \* where spccSender is
          mayDrain,  \* the sender saw credit = 0 and DrainedProc = -1
          waker,     \* where spccWakeUpDrainedSession is with this session
          share      \* what the session has added to SpccCreditUsed,
                     \* SpccNumPending and SpccNumDrained

sessionVars == <<s, slots, sending, sLock, listLock, receiver, request, sender,
                 mayDrain, waker, share>>

Avail == {i \in Slots : slots[i] = "avail"}
Completed == {i \in Slots \ sending : slots[i] \in {"served", "refused"}}
IsLinked == s.List # "none"
NoRequest == [slot |-> NoSlot, demand |-> 0]

\* The start of spccServer.  Drained stands for DrainedProc # -1, and List for
\* the list DrainedLink is on, with IsLinked.
SessionInit ==
    /\ s = [NumPending |-> 0, Closed |-> FALSE, Drained |-> FALSE, List |-> "none",
            WakeUp |-> FALSE, Credit |-> 0, Advertised |-> 0, Demand |-> 0,
            NeedECredit |-> FALSE]
    /\ slots = [i \in Slots |-> "avail"] /\ sending = {}
    /\ sLock = "free" /\ listLock = "free"
    /\ receiver = "reading" /\ request = NoRequest
    /\ sender = "loop" /\ mayDrain = FALSE
    /\ waker = "idle"
    /\ share = [used |-> 0, pending |-> 0, drained |-> 0]

\* SendCondVar.Signal(): the sender is the only goroutine that waits on it.
Signal == sender' = CASE sender = "asleep" -> "loop"
                      [] sender = "closeAsleep" -> "close"
                      [] OTHER -> sender

\* spccRemoveFromDrainedList inside the drained list's lock, on a session ss
\* and on the shares sh.
Unlinked(ss) == [ss EXCEPT !.List = "none", !.Drained = FALSE]
UnlinkedShare(sh) == IF IsLinked THEN [sh EXCEPT !.drained = @ - 1] ELSE sh

\* Linking the session to a drained list.  A DrainedLink that is already on a
\* list would be threaded into both.
Linked(ss, l) == [ss EXCEPT !.List = IF IsLinked THEN "corrupt" ELSE l, !.Drained = TRUE]
LinkedShare(sh) == [sh EXCEPT !.drained = @ + 1]
-----------------------------------------------------------------------------
(* The receiving goroutine *)

\* A CALL header is read and spccGetSlot takes a slot.  Without one the request
\* is read and dropped: nobody will answer it.
RecvCall ==
    /\ receiver = "reading" /\ c2s # <<>> /\ Head(c2s).op = "call"
    /\ sLock = "free"
    /\ c2s' = Tail(c2s)
    /\ IF Avail = {}
       THEN UNCHANGED <<slots, receiver, request>>
       ELSE \E i \in Avail :
               /\ slots' = [slots EXCEPT ![i] = "reading"]
               /\ request' = [slot |-> i, demand |-> Head(c2s).demand]
               /\ receiver' = "payload"
    /\ UNCHANGED <<s2c, open, s, sending, sLock, listLock, sender, mayDrain, waker, share>>

\* The connection ended inside the payload: the slot is put back.
RecvPayloadFails ==
    /\ receiver = "payload" /\ ~open /\ sLock = "free"
    /\ slots' = [slots EXCEPT ![request.slot] = "avail"]
    /\ request' = NoRequest
    /\ receiver' = "ending"
    /\ UNCHANGED <<s, sending, sLock, listLock, sender, mayDrain, waker, share>>
    /\ UNCHANGED wireVars

\* The request counts as pending; AQM refuses it at once or a worker starts.
Admit(ss, sh) ==
    LET kept == AdjustCredit(ss.Credit, ss.NumPending + 1, ss.Demand)
    IN  /\ s' = [ss EXCEPT !.NumPending = @ + 1, !.Credit = kept]
        /\ share' = [sh EXCEPT !.used = @ - (ss.Credit - kept), !.pending = @ + 1]
        /\ receiver' = "reading"
        /\ request' = NoRequest
        /\ \/ /\ AQM
              /\ slots' = [slots EXCEPT ![request.slot] = "refused"]
              /\ Signal
           \/ /\ slots' = [slots EXCEPT ![request.slot] = "working"]
              /\ UNCHANGED sender

RecvAdmit ==
    /\ receiver = "payload" /\ sLock = "free"
    /\ LET ss == [s EXCEPT !.Demand = request.demand]
       IN  \/ /\ ~s.Drained
              /\ Admit(ss, share)
              /\ UNCHANGED sLock
           \/ /\ s.Drained
              /\ s' = ss
              /\ sLock' = "receiver"
              /\ receiver' = "unlinking"
              /\ UNCHANGED <<slots, request, sender, share>>
    /\ UNCHANGED <<sending, listLock, mayDrain, waker>>
    /\ UNCHANGED wireVars

RecvUnlink ==
    /\ receiver = "unlinking" /\ listLock = "free"
    /\ Admit(Unlinked(s), UnlinkedShare(share))
    /\ sLock' = "free"
    /\ UNCHANGED <<sending, listLock, mayDrain, waker>>
    /\ UNCHANGED wireVars

\* A credit update: ask the sender for explicit credits, or, without demand, go
\* to the low-priority drained list.
RecvCredit ==
    /\ receiver = "reading" /\ c2s # <<>> /\ Head(c2s).op = "credit"
    /\ sLock = "free"
    /\ c2s' = Tail(c2s)
    /\ LET d == Head(c2s).demand
           idle == s.NumPending = 0 /\ d = 0
           s1 == [s EXCEPT !.Demand = d, !.NeedECredit = @ \/ (s.NumPending = 0 /\ d > 0)]
           s2 == IF idle THEN [Linked(s1, "L") EXCEPT !.Advertised = 0] ELSE s1
           sh == IF idle THEN LinkedShare(share) ELSE share
           kept == AdjustCredit(s.Credit, s.NumPending, d)
       IN  /\ idle => listLock = "free"
           /\ s' = [s2 EXCEPT !.Credit = kept]
           /\ share' = [sh EXCEPT !.used = @ - (s.Credit - kept)]
    /\ Signal
    /\ UNCHANGED <<s2c, open, slots, sending, sLock, listLock, receiver, request, mayDrain,
                   waker>>

\* End of the stream.
RecvEOF ==
    /\ receiver = "reading" /\ c2s = <<>> /\ ~open
    /\ receiver' = "ending"
    /\ UNCHANGED <<s, slots, sending, sLock, listLock, request, sender, mayDrain, waker,
                   share>>
    /\ UNCHANGED wireVars

\* Mutant: the pending requests stay on the global count.
CloseKeepsPending(ss, sh) ==
    /\ s' = [ss EXCEPT !.NumPending = 0, !.Demand = 0, !.Closed = TRUE]
    /\ share' = [sh EXCEPT !.used = @ - s.Credit]
    /\ receiver' = "waiting"
    /\ Signal

\* "Update a few stats and signal the sender".
CloseSession(ss, sh) ==
    /\ s' = [ss EXCEPT !.NumPending = 0, !.Demand = 0, !.Closed = TRUE]
    /\ share' = [sh EXCEPT !.used = @ - s.Credit, !.pending = @ - s.NumPending]
    /\ receiver' = "waiting"
    /\ Signal

RecvClose ==
    /\ receiver = "ending" /\ sLock = "free"
    /\ \/ /\ IsLinked /\ s.Drained
          /\ sLock' = "receiver"
          /\ receiver' = "unlinkingToClose"
          /\ UNCHANGED <<s, share, sender>>
       \/ /\ ~(IsLinked /\ s.Drained)
          /\ CloseSession(s, share)
          /\ UNCHANGED sLock
    /\ UNCHANGED <<slots, sending, listLock, request, mayDrain, waker>>
    /\ UNCHANGED wireVars

RecvUnlinkClose ==
    /\ receiver = "unlinkingToClose" /\ listLock = "free"
    /\ CloseSession(Unlinked(s), UnlinkedShare(share))
    /\ sLock' = "free"
    /\ UNCHANGED <<slots, sending, listLock, request, mayDrain, waker>>
    /\ UNCHANGED wireVars

\* SendWaiter.Wait() returns, and spccServer with it.
RecvDone ==
    /\ receiver = "waiting" /\ sender = "done"
    /\ receiver' = "done"
    /\ UNCHANGED <<s, slots, sending, sLock, listLock, request, sender, mayDrain, waker,
                   share>>
    /\ UNCHANGED wireVars
-----------------------------------------------------------------------------
(* The workers *)

\* Mutant: the worker does not signal the sender.
spccWorkerNoSignal(i) ==
    /\ slots[i] = "working" /\ sLock = "free"
    /\ \E outcome \in {"served", "refused"} : slots' = [slots EXCEPT ![i] = outcome]
    /\ UNCHANGED <<s, sending, sLock, listLock, receiver, request, sender, mayDrain, waker,
                   share>>
    /\ UNCHANGED wireVars

\* The handler has returned, with or without Drop, and the slot is completed.
spccWorker(i) ==
    /\ slots[i] = "working" /\ sLock = "free"
    /\ \E outcome \in {"served", "refused"} : slots' = [slots EXCEPT ![i] = outcome]
    /\ Signal
    /\ UNCHANGED <<s, sending, sLock, listLock, receiver, request, mayDrain, waker, share>>
    /\ UNCHANGED wireVars
-----------------------------------------------------------------------------
(* The sender *)

SenderHasWork == s.Closed \/ s.NeedECredit \/ s.WakeUp \/ Completed # {}

SenderSleeps ==
    /\ sender = "loop" /\ sLock = "free" /\ ~SenderHasWork
    /\ sender' = "asleep"
    /\ UNCHANGED <<s, slots, sending, sLock, listLock, receiver, request, mayDrain, waker,
                   share>>
    /\ UNCHANGED wireVars

\* The rest of the sender's critical section: take the completed slots, update
\* the credit unless the session is drained, and decide what to send.
TakeCompleted(ss, sh) ==
    \E unused \in UnusedChoices, numSess \in NumSessChoices :
       LET numResp == Cardinality(Completed)
           pend == ss.NumPending - numResp
           dropped == \E i \in Completed : slots[i] = "refused"
           cr == IF ss.Drained THEN ss.Credit
                 ELSE UpdateCredit(ss.Credit, pend, ss.Demand, ss.WakeUp, dropped,
                                   unused, numSess)
           sendECredit == (ss.NeedECredit \/ ss.WakeUp) /\ numResp = 0 /\ ss.Advertised < cr
       IN  /\ s' = [ss EXCEPT !.NumPending = pend, !.Credit = cr,
                              !.Advertised = IF numResp > 0 \/ sendECredit THEN cr ELSE @,
                              !.NeedECredit = FALSE, !.WakeUp = FALSE]
           /\ share' = [sh EXCEPT !.used = @ + (cr - ss.Credit)]
           /\ sending' = Completed
           /\ mayDrain' = (cr = 0 /\ ~ss.Drained)
           /\ sender' = IF sendECredit THEN "ecredit" ELSE "respond"

SenderPass ==
    /\ sender = "loop" /\ sLock = "free" /\ SenderHasWork
    /\ \/ /\ s.Closed
          /\ sender' = "close"
          /\ UNCHANGED <<s, sending, sLock, mayDrain, share>>
       \/ /\ ~s.Closed /\ ~(s.WakeUp /\ s.Drained)
          /\ TakeCompleted(s, share)
          /\ UNCHANGED sLock
       \/ /\ ~s.Closed /\ s.WakeUp /\ s.Drained
          /\ sLock' = "sender"
          /\ sender' = "unlinking"
          /\ UNCHANGED <<s, sending, mayDrain, share>>
    /\ UNCHANGED <<slots, listLock, receiver, request, waker>>
    /\ UNCHANGED wireVars

SenderUnlink ==
    /\ sender = "unlinking" /\ listLock = "free"
    /\ TakeCompleted(Unlinked(s), UnlinkedShare(share))
    /\ sLock' = "free"
    /\ UNCHANGED <<slots, listLock, receiver, request, waker>>
    /\ UNCHANGED wireVars

\* The credit in the header is read without s.Lock.  Once the client has shut
\* the connection down the write may fail.
spccSendECredit ==
    /\ sender = "ecredit"
    /\ \/ s2c' = Append(s2c, ECredit(s.Credit)) /\ sender' = "loop"
       \/ ~open /\ sender' = "close" /\ UNCHANGED s2c
    /\ UNCHANGED <<c2s, open, s, slots, sending, sLock, listLock, receiver, request,
                   mayDrain, waker, share>>

\* Mutant: a dropped request gets no response.
SendResponseServedOnly ==
    /\ sender = "respond"
    /\ \A i \in sending : slots[i] # "sent"
    /\ \E i \in sending :
          /\ slots' = [slots EXCEPT ![i] = "sent"]
          /\ s2c' = IF slots[i] = "served" THEN Append(s2c, Response(s.Credit)) ELSE s2c
    /\ share' = [share EXCEPT !.pending = @ - 1]
    /\ UNCHANGED <<c2s, open, s, sending, sLock, listLock, receiver, request, sender,
                   mayDrain, waker>>

\* spccSendCompletionVector, for one slot: the response, the global count ...
SendResponse ==
    /\ sender = "respond"
    /\ \A i \in sending : slots[i] # "sent"
    /\ \E i \in sending : slots' = [slots EXCEPT ![i] = "sent"]
    /\ \/ s2c' = Append(s2c, Response(s.Credit))
       \/ ~open /\ UNCHANGED s2c
    /\ share' = [share EXCEPT !.pending = @ - 1]
    /\ UNCHANGED <<c2s, open, s, sending, sLock, listLock, receiver, request, sender,
                   mayDrain, waker>>

\* ... and spccPutSlot.
PutSlot ==
    /\ sender = "respond" /\ sLock = "free"
    /\ \E i \in sending :
          /\ slots[i] = "sent"
          /\ slots' = [slots EXCEPT ![i] = "avail"]
          /\ sending' = sending \ {i}
    /\ UNCHANGED <<s, sLock, listLock, receiver, request, sender, mayDrain, waker, share>>
    /\ UNCHANGED wireVars

\* All responses are out.  The available slots are counted without s.Lock.
SenderChecksDrained ==
    /\ sender = "respond" /\ sending = {}
    /\ sender' = IF mayDrain /\ Avail = Slots THEN "drain" ELSE "loop"
    /\ mayDrain' = FALSE
    /\ UNCHANGED <<s, slots, sending, sLock, listLock, receiver, request, waker, share>>
    /\ UNCHANGED wireVars

SenderDrains ==
    /\ sender = "drain" /\ sLock = "free"
    /\ sLock' = "sender"
    /\ sender' = "linking"
    /\ UNCHANGED <<s, slots, sending, listLock, receiver, request, mayDrain, waker, share>>
    /\ UNCHANGED wireVars

SenderLinks ==
    /\ sender = "linking" /\ listLock = "free"
    /\ s' = Linked(s, IF s.Demand > 0 THEN "H" ELSE "L")
    /\ share' = LinkedShare(share)
    /\ sLock' = "free"
    /\ sender' = "loop"
    /\ UNCHANGED <<slots, sending, listLock, receiver, request, mayDrain, waker>>
    /\ UNCHANGED wireVars

\* Closing: wait until every slot is available or completed, leave the drained
\* list, free the slots that are left, and let spccServer return.
InFlight == Slots \ (Avail \cup Completed)

SenderCloses ==
    /\ sender = "close" /\ sLock = "free"
    /\ \/ /\ ~s.Closed \/ InFlight # {}
          /\ sender' = "closeAsleep"
          /\ UNCHANGED <<slots, sLock>>
       \/ /\ s.Closed /\ InFlight = {} /\ s.Drained
          /\ sLock' = "sender"
          /\ sender' = "unlinkingToClose"
          /\ UNCHANGED slots
       \/ /\ s.Closed /\ InFlight = {} /\ ~s.Drained
          /\ slots' = [i \in Slots |-> "avail"]
          /\ sender' = "done"
          /\ UNCHANGED sLock
    /\ UNCHANGED <<s, sending, listLock, receiver, request, mayDrain, waker, share>>
    /\ UNCHANGED wireVars

SenderUnlinkClose ==
    /\ sender = "unlinkingToClose" /\ listLock = "free"
    /\ s' = Unlinked(s)
    /\ share' = UnlinkedShare(share)
    /\ slots' = [i \in Slots |-> "avail"]
    /\ sLock' = "free"
    /\ sender' = "done"
    /\ UNCHANGED <<sending, listLock, receiver, request, mayDrain, waker>>
    /\ UNCHANGED wireVars
-----------------------------------------------------------------------------
(* Waking a drained session *)

\* spccChooseDrainedH takes the list's lock, then the session's.
ChooseDrainedHLocks ==
    /\ waker = "idle" /\ s.List = "H" /\ listLock = "free"
    /\ listLock' = "waker"
    /\ waker' = "demoting"
    /\ UNCHANGED <<s, slots, sending, sLock, receiver, request, sender, mayDrain, share>>
    /\ UNCHANGED wireVars

\* DrainedTs is 0 (no code sets it), so a session on the high-priority list is
\* always past its demand timeout and moves to the low-priority list.
ChooseDrainedHDemotes ==
    /\ waker = "demoting" /\ sLock = "free"
    /\ s' = [s EXCEPT !.List = "L"]
    /\ listLock' = "free"
    /\ waker' = "idle"
    /\ UNCHANGED <<slots, sending, sLock, receiver, request, sender, mayDrain, share>>
    /\ UNCHANGED wireVars

\* spccChooseDrainedL pops the session ...
ChooseDrainedLPops ==
    /\ waker = "idle" /\ s.List = "L" /\ listLock = "free"
    /\ share.used <= MaxUsedShare
    /\ s' = [s EXCEPT !.List = "none"]
    /\ waker' = "popped"
    /\ UNCHANGED <<slots, sending, sLock, listLock, receiver, request, sender, mayDrain,
                   share>>
    /\ UNCHANGED wireVars

\* ... and only then, in s.Lock, marks it as no longer drained.
ChooseDrainedLClears ==
    /\ waker = "popped" /\ sLock = "free"
    /\ s' = [s EXCEPT !.Drained = FALSE]
    /\ share' = [share EXCEPT !.drained = @ - 1]
    /\ waker' = "chosen"
    /\ UNCHANGED <<slots, sending, sLock, listLock, receiver, request, sender, mayDrain>>
    /\ UNCHANGED wireVars

\* "Update credits and signal the sender" ...
WakeUpSession ==
    /\ waker = "chosen" /\ sLock = "free"
    /\ s' = [s EXCEPT !.WakeUp = TRUE, !.Credit = 1]
    /\ Signal
    /\ waker' = "owing"
    /\ UNCHANGED <<slots, sending, sLock, listLock, receiver, request, mayDrain, share>>
    /\ UNCHANGED wireVars

\* Mutant: the credit is not counted.
WakeUpCountsNothing ==
    /\ waker = "owing"
    /\ waker' = "idle"
    /\ UNCHANGED <<s, slots, sending, sLock, listLock, receiver, request, sender, mayDrain,
                   share>>
    /\ UNCHANGED wireVars

\* ... and count the credit, after s.Lock is released.
WakeUpCounts ==
    /\ waker = "owing"
    /\ share' = [share EXCEPT !.used = @ + 1]
    /\ waker' = "idle"
    /\ UNCHANGED <<s, slots, sending, sLock, listLock, receiver, request, sender, mayDrain>>
    /\ UNCHANGED wireVars

ReceiverNext ==
    \/ RecvCall \/ RecvPayloadFails \/ RecvAdmit \/ RecvUnlink \/ RecvCredit
    \/ RecvEOF \/ RecvClose \/ RecvUnlinkClose \/ RecvDone
SenderNext ==
    \/ SenderSleeps \/ SenderPass \/ SenderUnlink \/ spccSendECredit
    \/ SendResponse \/ PutSlot \/ SenderChecksDrained \/ SenderDrains \/ SenderLinks
    \/ SenderCloses \/ SenderUnlinkClose
WakerNext ==
    \/ ChooseDrainedHLocks \/ ChooseDrainedHDemotes
    \/ ChooseDrainedLPops \/ ChooseDrainedLClears
    \/ WakeUpSession \/ WakeUpCounts
\* A corrupt list makes a later Del or Pop dereference nil: the server is gone.
SessionNext ==
    /\ s.List # "corrupt"
    /\ \/ ReceiverNext \/ SenderNext \/ WakerNext
       \/ \E i \in Slots : spccWorker(i)
=============================================================================

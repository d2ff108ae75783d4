-------------------------- MODULE SlotSessionProofs --------------------------
(***************************************************************************)
(* A session of the SEDA server, or of the one without control, implements *)
(* RpcSession, and its share of SsdNumPending is exact, for every number   *)
(* of slots.                                                               *)
(*                                                                         *)
(* SlotInv says who holds which slot: the receiver the one it reads a      *)
(* request into, the sender those it has taken, and nobody any once the    *)
(* sender is done.  The refinement needs it where a step may end the       *)
(* session or free slots.  CountInv adds the exact value of s.NumPending,  *)
(* which the close subtracts from the global count.                        *)
(***************************************************************************)
EXTENDS SlotSession, FiniteSetTheorems, TLAPS

SlotUses == {"avail", "reading", "working", "completed", "sent"}

SlotInv ==
    /\ inbox \in Nat /\ outbox \in Nat /\ open \in BOOLEAN /\ closed \in BOOLEAN
    /\ slots \in [Slots -> SlotUses] /\ sending \subseteq Slots
    /\ receiver \in {"reading", "payload", "ending", "waiting", "done"}
    /\ sender \in {"loop", "asleep", "respond", "close", "closeAsleep", "done"}
    /\ receiver = "payload" => slot \in Slots /\ slots[slot] = "reading"
    /\ \A i \in Slots : slots[i] = "reading" => receiver = "payload" /\ slot = i
    /\ \A i \in sending : slots[i] \in {"completed", "sent"}
    /\ \A i \in Slots : slots[i] = "sent" => i \in sending
    /\ sender # "respond" => sending = {}
    /\ receiver \in {"ending", "waiting", "done"} => ~open
    /\ closed <=> receiver \in {"waiting", "done"}
    /\ sender \in {"close", "closeAsleep", "done"} => closed
    /\ sender = "done" => \A i \in Slots : slots[i] = "avail"

\* Nobody holds a slot when the session starts.
LEMMA SlotInit == Init => SlotInv
<1> SUFFICES ASSUME Init PROVE SlotInv
    OBVIOUS
<1>1. slots \in [Slots -> SlotUses] /\ \A i \in Slots : slots[i] = "avail"
    BY DEF Init, SlotUses
<1>2. sending = {} /\ receiver = "reading" /\ sender = "loop" /\ inbox = 0 /\ outbox = 0
        /\ open = TRUE /\ closed = FALSE
    BY DEF Init
<1> QED
    BY <1>1, <1>2 DEF SlotInv

\* A slot passes from hand to hand.
LEMMA SlotStep == SlotInv /\ [Next]_vars => SlotInv'
<1> SUFFICES ASSUME SlotInv, [Next]_vars PROVE SlotInv'
    OBVIOUS
<1> USE DEF SlotInv, SlotUses, wireVars
<1>1. CASE SendCall
    BY <1>1 DEF SendCall
<1>2. CASE RecvResponse
    BY <1>2 DEF RecvResponse
<1>3. CASE Shutdown
    BY <1>3 DEF Shutdown
<1>4. CASE RecvCall
    <2>1. CASE Avail = {} /\ UNCHANGED <<slots, slot, receiver>>
        BY <1>4, <2>1 DEF RecvCall
    <2>2. ASSUME NEW i \in Avail, slots' = [slots EXCEPT ![i] = "reading"], slot' = i,
                 receiver' = "payload"
          PROVE  SlotInv'
        BY <1>4, <2>2 DEF RecvCall, Avail
    <2> QED
        BY <1>4, <2>1, <2>2 DEF RecvCall
<1>5. CASE RecvPayloadFails
    BY <1>5 DEF RecvPayloadFails
<1>6. CASE RecvAdmit
    <2>1. CASE slots' = [slots EXCEPT ![slot] = "completed"] /\ Signal
        BY <1>6, <2>1 DEF RecvAdmit, Signal
    <2>2. CASE slots' = [slots EXCEPT ![slot] = "working"] /\ UNCHANGED sender
        BY <1>6, <2>2 DEF RecvAdmit
    <2> QED
        BY <1>6, <2>1, <2>2 DEF RecvAdmit
<1>7. CASE RecvEOF
    BY <1>7 DEF RecvEOF
<1>8. CASE RecvClose
    BY <1>8 DEF RecvClose, Signal
<1>9. CASE RecvDone
    BY <1>9 DEF RecvDone
<1>10. ASSUME NEW i \in Slots, ssdWorker(i) PROVE SlotInv'
    BY <1>10 DEF ssdWorker, Signal
<1>11. CASE SenderSleeps
    BY <1>11 DEF SenderSleeps
<1>12. CASE SenderTakes
    BY <1>12 DEF SenderTakes, Completed
<1>13. CASE SendResponse
    BY <1>13 DEF SendResponse
<1>14. CASE PutSlot
    <2>1. PICK i \in sending : /\ slots[i] = "sent"
                               /\ slots' = [slots EXCEPT ![i] = "avail"]
                               /\ sending' = sending \ {i}
        BY <1>14 DEF PutSlot
    <2> QED
        BY <1>14, <2>1 DEF PutSlot
<1>15. CASE SenderCloses
    BY <1>15 DEF SenderCloses
<1>16. CASE UNCHANGED vars
    BY <1>16 DEF vars
<1> QED
    BY <1>1, <1>2, <1>3, <1>4, <1>5, <1>6, <1>7, <1>8, <1>9, <1>10, <1>11, <1>12, <1>13,
       <1>14, <1>15, <1>16 DEF Next, ReceiverNext, SenderNext
-----------------------------------------------------------------------------
(* The refinement *)

Busy == Slots \ Avail
Answered == {i \in Slots : slots[i] = "sent"}

\* The session's first state is one of the abstract session.
LEMMA AbstractInit == Init => Abstract!Init
BY DEF Init, Abstract!Init, Avail

\* A step that leaves the slots in use, the written responses, the connection
\* and the end of the session alone is a stutter of the abstract session.
LEMMA Stutters ==
    ASSUME UNCHANGED <<inbox, outbox, open>>, Busy' = Busy, Answered' = Answered,
           (receiver = "done") = (receiver' = "done")
    PROVE  UNCHANGED Abstract!vars
BY DEF Abstract!vars, Busy, Answered

\* Every step of the session is a step of the abstract one, or a stutter.
LEMMA AbstractStep == SlotInv /\ [Next]_vars => [Abstract!Next]_Abstract!vars
<1> SUFFICES ASSUME SlotInv, [Next]_vars PROVE [Abstract!Next]_Abstract!vars
    OBVIOUS
<1> USE DEF SlotInv, SlotUses, wireVars
<1>1. CASE SendCall \/ RecvResponse
    <2>1. Abstract!Client
        BY <1>1 DEF SendCall, RecvResponse, Abstract!Client, Avail
    <2> QED
        BY <2>1 DEF Abstract!Next
<1>2. CASE Shutdown
    <2>1. Abstract!Disconnect
        BY <1>2 DEF Shutdown, Abstract!Disconnect, Avail
    <2> QED
        BY <2>1 DEF Abstract!Next
<1>3. CASE RecvCall
    <2>1. CASE Avail = {} /\ UNCHANGED <<slots, slot, receiver>>
        <3>1. Abstract!Refuse
            BY <1>3, <2>1 DEF RecvCall, Abstract!Refuse, Avail
        <3> QED
            BY <3>1 DEF Abstract!Next
    <2>2. ASSUME NEW i \in Avail, slots' = [slots EXCEPT ![i] = "reading"],
                 receiver' = "payload"
          PROVE  Abstract!Next
        <3>1. Busy' = Busy \cup {i} /\ i \in Slots \ Busy /\ Answered' = Answered
            BY <2>2 DEF Busy, Answered, Avail
        <3>2. Abstract!Take(i)
            BY <1>3, <2>2, <3>1 DEF RecvCall, Abstract!Take, Busy, Answered
        <3> QED
            BY <3>1, <3>2 DEF Abstract!Next
    <2> QED
        BY <1>3, <2>1, <2>2 DEF RecvCall
<1>4. CASE RecvPayloadFails
    <2>1. Busy' = Busy \ {slot} /\ slot \in Busy \ Answered /\ Answered' = Answered
        BY <1>4 DEF RecvPayloadFails, Busy, Answered, Avail
    <2>2. Abstract!Discard
        <3>1. {slot} \in SUBSET (Busy \ Answered)
            BY <2>1
        <3> QED
            BY <1>4, <2>1, <3>1 DEF RecvPayloadFails, Abstract!Discard, Busy, Answered
    <2> QED
        BY <2>2 DEF Abstract!Next
<1>5. CASE RecvAdmit
    <2>1. Busy' = Busy /\ Answered' = Answered
        BY <1>5 DEF RecvAdmit, Busy, Answered, Avail
    <2> QED
        BY <1>5, <2>1, Stutters DEF RecvAdmit
<1>6. CASE RecvEOF \/ RecvClose
    <2>1. Busy' = Busy /\ Answered' = Answered
        BY <1>6 DEF RecvEOF, RecvClose, Busy, Answered, Avail
    <2> QED
        BY <1>6, <2>1, Stutters DEF RecvEOF, RecvClose
<1>7. CASE RecvDone
    <2>1. Abstract!End
        BY <1>7 DEF RecvDone, Abstract!End, Avail
    <2> QED
        BY <2>1 DEF Abstract!Next
<1>8. ASSUME NEW i \in Slots, ssdWorker(i) PROVE UNCHANGED Abstract!vars
    <2>1. Busy' = Busy /\ Answered' = Answered
        BY <1>8 DEF ssdWorker, Busy, Answered, Avail
    <2> QED
        BY <1>8, <2>1, Stutters DEF ssdWorker
<1>9. CASE SenderSleeps \/ SenderTakes
    <2>1. Busy' = Busy /\ Answered' = Answered
        BY <1>9 DEF SenderSleeps, SenderTakes, Busy, Answered, Avail
    <2> QED
        BY <1>9, <2>1, Stutters DEF SenderSleeps, SenderTakes
<1>10. CASE SendResponse
    <2>1. PICK i \in sending : slots' = [slots EXCEPT ![i] = "sent"]
        BY <1>10 DEF SendResponse
    <2>2. i \in Busy \ Answered /\ Answered' = Answered \cup {i} /\ Busy' = Busy
        BY <1>10, <2>1 DEF SendResponse, Busy, Answered, Avail
    <2>3. Abstract!Answer(i)
        BY <1>10, <2>2 DEF SendResponse, Abstract!Answer, Busy, Answered
    <2> QED
        BY <2>2, <2>3 DEF Abstract!Next, Busy
<1>11. CASE PutSlot
    <2>1. PICK i \in sending : slots[i] = "sent" /\ slots' = [slots EXCEPT ![i] = "avail"]
        BY <1>11 DEF PutSlot
    <2>2. i \in Answered /\ Answered' = Answered \ {i} /\ Busy' = Busy \ {i}
        BY <2>1 DEF Busy, Answered, Avail
    <2>3. Abstract!Free(i)
        BY <1>11, <2>2 DEF PutSlot, Abstract!Free, Busy, Answered
    <2> QED
        BY <2>2, <2>3 DEF Abstract!Next, Answered
<1>12. CASE SenderCloses
    <2>1. CASE UNCHANGED slots
        <3>1. Busy' = Busy /\ Answered' = Answered
            BY <2>1 DEF Busy, Answered, Avail
        <3> QED
            BY <1>12, <3>1, Stutters DEF SenderCloses
    <2>2. CASE InFlight = {} /\ slots' = [i \in Slots |-> "avail"]
        <3>1. Answered = {} /\ Answered' = {} /\ Busy' = {}
            BY <1>12, <2>2 DEF SenderCloses, Busy, Answered, Avail, InFlight, Completed
        <3>2. Busy \in SUBSET (Busy \ Answered) /\ Busy' = Busy \ Busy /\ Answered' = Answered
            BY <3>1
        <3>3. ~open /\ UNCHANGED <<inbox, outbox, open, receiver>>
            BY <1>12 DEF SenderCloses
        <3>4. Abstract!Discard
            BY <3>2, <3>3 DEF Abstract!Discard, Busy, Answered
        <3> QED
            BY <3>4 DEF Abstract!Next
    <2> QED
        BY <1>12, <2>1, <2>2 DEF SenderCloses
<1>13. CASE UNCHANGED vars
    BY <1>13, Stutters DEF vars, Busy, Answered, Avail
<1> QED
    BY <1>1, <1>2, <1>3, <1>4, <1>5, <1>6, <1>7, <1>8, <1>9, <1>10, <1>11, <1>12, <1>13
    DEF Next, ReceiverNext, SenderNext

\* For every number of slots, a SEDA session does what RpcSession promises: a
\* call it takes is answered once, and turned away only when all slots are in
\* use, and it ends only after its client has left, with no slot in use.
THEOREM SessionImplements == Spec => ImplementsRpcSession
<1>1. SlotInv /\ [Next]_vars => SlotInv'
    BY SlotStep
<1> QED
    BY <1>1, SlotInit, AbstractInit, AbstractStep, PTL
    DEF Spec, ImplementsRpcSession, Abstract!Spec
-----------------------------------------------------------------------------
(* The counts *)

\* The requests the session has taken in and not answered.
Held == {i \in Slots : slots[i] \in {"working", "completed"}}
Counted == {i \in Slots : /\ slots[i] \in {"working", "completed"}
                          /\ closed => i \in sending}

\* SsdNumPending is exact, and so is s.NumPending, until the session is closed:
\* the held requests that the sender has not taken.
CountInv ==
    /\ pending = Cardinality(Counted)
    /\ ~closed => numPending = Cardinality(Held \ sending)

\* The sets are finite, and their sizes numbers.
LEMMA CountsFinite ==
    ASSUME NEW T, T \subseteq Slots PROVE IsFiniteSet(T) /\ Cardinality(T) \in Nat
BY SlotAssumption, FS_Subset, FS_CardinalityType

\* Both counts start at zero.
LEMMA CountInit == Init => CountInv
<1> SUFFICES ASSUME Init PROVE CountInv
    OBVIOUS
<1>1. Counted = {} /\ Held \ sending = {}
    BY DEF Init, Counted, Held
<1> QED
    BY <1>1, FS_EmptySet DEF Init, CountInv

\* A step that leaves the sets and the counts alone keeps the counts exact.
LEMMA CountsKept ==
    ASSUME CountInv, Counted' = Counted, Held' \ sending' = Held \ sending,
           closed' = closed, pending' = pending, numPending' = numPending
    PROVE  CountInv'
BY DEF CountInv

\* The counts follow the sets: one more at the admission, one less for each
\* response, and at the close all but those the sender has taken.
LEMMA CountStep == SlotInv /\ CountInv /\ [Next]_vars => CountInv'
<1> SUFFICES ASSUME SlotInv, CountInv, [Next]_vars PROVE CountInv'
    OBVIOUS
<1> USE DEF SlotInv, SlotUses, wireVars
<1>0. IsFiniteSet(Counted) /\ IsFiniteSet(Held \ sending) /\ IsFiniteSet(Held)
        /\ Cardinality(Counted) \in Nat /\ Cardinality(Held \ sending) \in Nat
    BY CountsFinite DEF Counted, Held
<1>1. CASE SendCall \/ RecvResponse \/ Shutdown \/ RecvEOF \/ RecvDone \/ SenderSleeps
    <2>1. UNCHANGED <<slots, sending, closed, pending, numPending>>
        BY <1>1 DEF SendCall, RecvResponse, Shutdown, RecvEOF, RecvDone, SenderSleeps
    <2> QED
        BY <2>1, CountsKept DEF Counted, Held
<1>2. CASE RecvCall
    <2>1. Counted' = Counted /\ Held' = Held /\ sending' = sending
        BY <1>2 DEF RecvCall, Counted, Held, Avail
    <2> QED
        BY <1>2, <2>1, CountsKept DEF RecvCall
<1>3. CASE RecvPayloadFails
    <2>1. Counted' = Counted /\ Held' = Held /\ sending' = sending
        BY <1>3 DEF RecvPayloadFails, Counted, Held
    <2> QED
        BY <1>3, <2>1, CountsKept DEF RecvPayloadFails
<1>4. CASE RecvAdmit
    <2>1. /\ Counted' = Counted \cup {slot} /\ slot \notin Counted
          /\ Held' \ sending' = (Held \ sending) \cup {slot} /\ slot \notin Held \ sending
        BY <1>4 DEF RecvAdmit, Counted, Held
    <2>2. Cardinality(Counted') = Cardinality(Counted) + 1
        <3>1. Cardinality(Counted \cup {slot}) = Cardinality(Counted) + 1
            BY <1>0, <2>1, FS_AddElement
        <3> QED
            BY <2>1, <3>1
    <2>3. Cardinality(Held' \ sending') = Cardinality(Held \ sending) + 1
        <3>1. Cardinality((Held \ sending) \cup {slot}) = Cardinality(Held \ sending) + 1
            BY <1>0, <2>1, FS_AddElement
        <3> QED
            BY <2>1, <3>1
    <2>4. ~closed /\ ~closed' /\ pending' = pending + 1 /\ numPending' = numPending + 1
        BY <1>4 DEF RecvAdmit
    <2> QED
        BY <2>2, <2>3, <2>4 DEF CountInv
<1>5. CASE RecvClose
    <2>1. Counted = Held /\ Counted' = Held \cap sending
        BY <1>5 DEF RecvClose, Counted, Held
    <2>2. Cardinality(Held \ sending) = Cardinality(Held) - Cardinality(Held \cap sending)
        BY <1>0, FS_Difference
    <2>3. Cardinality(Held \cap sending) \in Nat /\ Cardinality(Held) \in Nat
        BY CountsFinite DEF Held
    <2> QED
        BY <1>5, <2>1, <2>2, <2>3 DEF RecvClose, CountInv
<1>6. ASSUME NEW i \in Slots, ssdWorker(i) PROVE CountInv'
    <2>1. Counted' = Counted /\ Held' = Held /\ sending' = sending
        BY <1>6 DEF ssdWorker, Counted, Held
    <2> QED
        BY <1>6, <2>1, CountsKept DEF ssdWorker
<1>7. CASE SenderTakes
    <2>1. CASE closed /\ UNCHANGED <<sending, numPending>>
        <3>1. Counted' = Counted /\ Held' = Held
            BY <1>7, <2>1 DEF SenderTakes, Counted, Held
        <3> QED
            BY <1>7, <2>1, <3>1, CountsKept DEF SenderTakes
    <2>2. CASE ~closed /\ sending' = Completed
               /\ numPending' = numPending - Cardinality(Completed)
        <3>1. sending = {} /\ Held \ sending = Held /\ Held \cap Completed = Completed
            BY <1>7 DEF SenderTakes, Held, Completed
        <3>2. Counted' = Counted /\ Held' = Held /\ closed' = closed /\ pending' = pending
            BY <1>7, <2>2 DEF SenderTakes, Counted, Held
        <3>3. Cardinality(Held \ Completed) = Cardinality(Held) - Cardinality(Held \cap Completed)
            BY <1>0, FS_Difference
        <3> QED
            BY <2>2, <3>1, <3>2, <3>3 DEF CountInv
    <2> QED
        BY <1>7, <2>1, <2>2 DEF SenderTakes
<1>8. CASE SendResponse
    <2>1. PICK i \in sending : slots' = [slots EXCEPT ![i] = "sent"]
        BY <1>8 DEF SendResponse
    <2>2. i \in Counted /\ Counted' = Counted \ {i} /\ Held' \ sending' = Held \ sending
        BY <1>8, <2>1 DEF SendResponse, Counted, Held
    <2>3. Cardinality(Counted') = Cardinality(Counted) - 1
        BY <1>0, <2>2, FS_RemoveElement
    <2> QED
        BY <1>8, <2>2, <2>3 DEF SendResponse, CountInv
<1>9. CASE PutSlot
    <2>1. PICK i \in sending : /\ slots[i] = "sent"
                               /\ slots' = [slots EXCEPT ![i] = "avail"]
                               /\ sending' = sending \ {i}
        BY <1>9 DEF PutSlot
    <2>2. Counted' = Counted /\ Held' \ sending' = Held \ sending
        BY <1>9, <2>1 DEF PutSlot, Counted, Held
    <2> QED
        BY <1>9, <2>2, CountsKept DEF PutSlot
<1>10. CASE SenderCloses
    <2>1. Counted = {} /\ Counted' = {}
        BY <1>10 DEF SenderCloses, Counted
    <2> QED
        BY <1>10, <2>1 DEF SenderCloses, CountInv
<1>11. CASE UNCHANGED vars
    BY <1>11, CountsKept DEF vars, Counted, Held
<1> QED
    BY <1>1, <1>2, <1>3, <1>4, <1>5, <1>6, <1>7, <1>8, <1>9, <1>10, <1>11
    DEF Next, ReceiverNext, SenderNext

\* The session's part of SsdNumPending is the number of its requests that are
\* not answered, at every step, its close included.
THEOREM PendingExact == Spec => []PendingAccounting
<1>1. CountInv => PendingAccounting
    BY DEF CountInv, Counted, PendingAccounting
<1> QED
    BY <1>1, SlotInit, SlotStep, CountInit, CountStep, PTL DEF Spec
=============================================================================

------------------------ MODULE PccConnectionProofs ------------------------
(***************************************************************************)
(* The credit protocol of PCC, for every window of at least 2, every queue *)
(* and whatever the rest of the server does to the credit pool: the credits *)
(* a client uses are its requests on their way, there is a slot for each of *)
(* them, and the session implements RpcSession.                            *)
(*                                                                         *)
(* The invariant is built in five layers, each kept with the help of those *)
(* before it:                                                              *)
(*   TypeInv    the types, without the bounds of TypeOK                    *)
(*   HolderInv  which goroutine holds which slot and lock, and that the    *)
(*              session closes only after the client has left              *)
(*   CountInv   s.NumPending and SpccNumPending are the sizes of sets of   *)
(*              slots, so neither is ever negative                         *)
(*   CreditInv  credits are below MaxWindow wherever they are (this needs  *)
(*              that s.NumPending is not negative), and counted            *)
(*   UsedInv    the client's credits in use are its calls, its requests    *)
(*              without a response and its responses; the first two are    *)
(*              fewer than the slots                                       *)
(* A call finds a slot because of the last two: fewer than MaxWindow       *)
(* requests are without a response, and only one slot at a time is answered *)
(* and not yet put back.                                                   *)
(***************************************************************************)
EXTENDS PccConnection, FiniteSetTheorems, TLAPS

Demands == 0..CrpcQlen
Requests == [op : {"call", "credit"}, demand : Demands]
CallRequests == {r \in Requests : r.op = "call"}
Responses == [op : {"call", "credit"}, credit : Int]
SlotUses == {"avail", "reading", "working", "served", "refused", "sent"}

WireTypes ==
    /\ c2s \in Seq(Requests) /\ s2c \in Seq(Responses) /\ open \in BOOLEAN

ClientTypes ==
    /\ cCredit \in Int /\ cCreditUsed \in Int
    /\ waitingResp \in BOOLEAN /\ init \in BOOLEAN /\ running \in BOOLEAN
    /\ queued \in Demands /\ expired \in 0..queued
    /\ timer \in {"awake", "waiting", "sleeping", "done"}

SessionFields ==
    [NumPending : Int, Closed : BOOLEAN, Drained : BOOLEAN,
     List : {"none", "H", "L", "corrupt"}, WakeUp : BOOLEAN,
     Credit : Int, Advertised : Int, Demand : Demands, NeedECredit : BOOLEAN]

Shares == [used : Int, pending : Int, drained : Int]

SessionTypes ==
    /\ s \in SessionFields
    /\ slots \in [Slots -> SlotUses]
    /\ sending \subseteq Slots
    /\ sLock \in {"free", "receiver", "sender"} /\ listLock \in {"free", "waker"}
    /\ receiver \in {"reading", "payload", "unlinking", "ending", "unlinkingToClose",
                     "waiting", "done"}
    /\ request \in [slot : Slots \cup {NoSlot}, demand : Demands]
    /\ sender \in {"loop", "asleep", "unlinking", "ecredit", "respond", "drain", "linking",
                   "close", "closeAsleep", "unlinkingToClose", "done"}
    /\ mayDrain \in BOOLEAN
    /\ waker \in {"idle", "demoting", "popped", "chosen", "owing"}
    /\ share \in [used : Int, pending : Int, drained : Int]

TypeInv == WireTypes /\ ClientTypes /\ SessionTypes

\* The first state has the types.
LEMMA TypeInit == Init => TypeInv
<1> SUFFICES ASSUME Init PROVE TypeInv
    OBVIOUS
<1>1. WireTypes
    BY DEF Init, WireInit, WireTypes
<1>2. ClientTypes
    <2>1. waitingResp \in BOOLEAN /\ init \in BOOLEAN /\ running \in BOOLEAN
        BY Zenon DEF Init, CrpcOpen
    <2>2. cCredit = 0 /\ cCreditUsed = 0 /\ queued = 0 /\ expired = 0
            /\ timer \in {"awake", "waiting", "sleeping", "done"}
        BY DEF Init, CrpcOpen
    <2> QED
        BY <2>1, <2>2, ClientAssumption DEF ClientTypes, Demands
<1>3. SessionTypes
    <2> USE DEF Init, SessionInit
    <2>1. s \in SessionFields
        BY ClientAssumption DEF SessionFields, Demands
    <2>2. slots \in [Slots -> SlotUses] /\ sending \subseteq Slots
        BY DEF SlotUses
    <2>3. request \in [slot : Slots \cup {NoSlot}, demand : Demands]
        BY ClientAssumption DEF NoRequest, Demands
    <2>4. share \in [used : Int, pending : Int, drained : Int]
        OBVIOUS
    <2>5. mayDrain \in BOOLEAN
        BY Zenon
    <2> QED
        BY <2>1, <2>2, <2>3, <2>4, <2>5 DEF SessionTypes
<1> QED
    BY <1>1, <1>2, <1>3 DEF TypeInv

\* cpccDrainQueue sends as many requests as the queue holds and the credit
\* allows, each with the demand that is left behind it.
LEMMA DrainSends ==
    ASSUME NEW q \in Demands, NEW e \in 0..q, NEW waiting \in BOOLEAN,
           NEW credit \in Int, NEW used \in Int, NEW wire \in Seq(Requests),
           cpccDrainQueue(q, e, waiting, credit, used, wire)
    PROVE  /\ queued' \in Demands /\ expired' = 0
           /\ \E f \in Seq(CallRequests) :
                 /\ cCreditUsed' = used + Len(f) /\ c2s' = wire \o f
                 /\ Len(f) = 0 \/ used + Len(f) <= credit
<1> DEFINE left == q - e
           sent == IF ~waiting /\ used < credit THEN MinOf(left, credit - used) ELSE 0
           f == [i \in 1..sent |-> Call(left - i)]
<1> USE ClientAssumption
<1>1. left \in Nat /\ left \in Demands
    BY DEF Demands
<1>2. sent \in Nat /\ sent <= left
    BY <1>1 DEF MinOf
<1>3. sent = 0 \/ used + sent <= credit
    BY <1>1 DEF MinOf
<1>4. /\ queued' = left - sent /\ expired' = 0 /\ cCreditUsed' = used + sent
      /\ c2s' = wire \o f
    BY DEF cpccDrainQueue
<1>5. f \in Seq(CallRequests) /\ Len(f) = sent
    <2> HIDE DEF left, sent
    <2>1. \A i \in 1..sent : Call(left - i) \in CallRequests
        BY <1>1, <1>2 DEF Call, CallRequests, Requests, Demands
    <2> QED
        BY <1>2, <2>1
<1> HIDE DEF f, sent
<1>6. queued' \in Demands
    BY <1>1, <1>2, <1>4 DEF Demands
<1> QED
    BY <1>3, <1>4, <1>5, <1>6, Zenon

\* So the queue and the stream keep their types.
LEMMA DrainTypes ==
    ASSUME NEW q \in Demands, NEW e \in 0..q, NEW waiting \in BOOLEAN,
           NEW credit \in Int, NEW used \in Int, NEW wire \in Seq(Requests),
           cpccDrainQueue(q, e, waiting, credit, used, wire)
    PROVE  queued' \in Demands /\ expired' = 0 /\ cCreditUsed' \in Int /\ c2s' \in Seq(Requests)
<1>1. queued' \in Demands /\ expired' = 0
    BY DrainSends
<1>2. PICK f \in Seq(CallRequests) : cCreditUsed' = used + Len(f) /\ c2s' = wire \o f
    BY DrainSends
<1>3. f \in Seq(Requests) /\ Len(f) \in Nat
    BY DEF CallRequests
<1>4. c2s' \in Seq(Requests)
    BY <1>2, <1>3
<1> QED
    BY <1>1, <1>2, <1>3, <1>4

\* A client operation keeps the types.
LEMMA ClientTypeStep ==
    ASSUME WireTypes, ClientTypes, ClientNext PROVE WireTypes' /\ ClientTypes'
<1> USE ClientAssumption
<1>1. CASE CrpcSendOne /\ HotPath
    <2>1. Call(0) \in Requests
        BY DEF Call, Requests, Demands
    <2>2. c2s' = Append(c2s, Call(0)) /\ cCreditUsed' = cCreditUsed + 1
            /\ UNCHANGED <<cCredit, waitingResp, init, queued, expired, running, timer, s2c, open>>
        BY <1>1 DEF CrpcSendOne
    <2>3. c2s' \in Seq(Requests)
        BY <2>1, <2>2 DEF WireTypes
    <2> QED
        BY <2>2, <2>3 DEF WireTypes, ClientTypes
<1>2. CASE CrpcSendOne /\ ~HotPath
    <2> DEFINE full == queued >= CrpcQlen
               q == IF full THEN queued ELSE queued + 1
               e == IF full /\ expired > 0 THEN expired - 1 ELSE expired
               wire == IF init THEN c2s ELSE Append(c2s, CUpdate(q))
    <2>1. /\ init' = TRUE /\ waitingResp' = (waitingResp \/ ~init)
          /\ timer' = (IF q = 1 THEN TimerSignalled ELSE timer)
          /\ cpccDrainQueue(q, e, waitingResp', cCredit, cCreditUsed, wire)
          /\ UNCHANGED <<cCredit, running, s2c, open>>
        BY <1>2 DEF CrpcSendOne
    <2>2. q \in Demands /\ e \in 0..q /\ cCredit \in Int /\ cCreditUsed \in Int
        BY DEF ClientTypes, Demands
    <2>3. wire \in Seq(Requests)
        <3> HIDE DEF q
        <3>1. CUpdate(q) \in Requests
            BY <2>2 DEF CUpdate, Requests
        <3> QED
            BY <3>1 DEF WireTypes
    <2>4. waitingResp' \in BOOLEAN /\ init' \in BOOLEAN
        BY <2>1, Zenon
    <2>5. queued' \in Demands /\ expired' = 0 /\ cCreditUsed' \in Int /\ c2s' \in Seq(Requests)
        <3> HIDE DEF q, e, wire
        <3> QED
            BY <2>1, <2>2, <2>3, <2>4, DrainTypes, Zenon
    <2>6. timer' \in {"awake", "waiting", "sleeping", "done"}
        BY <2>1 DEF TimerSignalled, ClientTypes
    <2>7. running' \in BOOLEAN /\ cCredit' \in Int /\ expired' \in 0..queued'
        BY <2>1, <2>5 DEF ClientTypes, Demands
    <2> QED
        BY <2>1, <2>4, <2>5, <2>6, <2>7 DEF WireTypes, ClientTypes
<1>3. CASE CrpcRecvOne
    <2> DEFINE m == Head(s2c)
               used == IF m.op = "call" THEN cCreditUsed - 1 ELSE cCreditUsed
    <2>1. /\ s2c # <<>> /\ s2c' = Tail(s2c) /\ cCredit' = m.credit /\ waitingResp' = FALSE
          /\ UNCHANGED <<init, running, timer, open>>
        BY <1>3 DEF CrpcRecvOne
    <2>2. m \in Responses /\ s2c' \in Seq(Responses)
        BY <2>1 DEF WireTypes
    <2>3. m.credit \in Int /\ used \in Int
        BY <2>2 DEF Responses, ClientTypes
    <2>4. queued' \in Demands /\ expired' \in 0..queued' /\ cCreditUsed' \in Int
            /\ c2s' \in Seq(Requests)
        <3>1. CASE m.credit > 0
            <4>1. cpccDrainQueue(queued, expired, FALSE, m.credit, used, c2s)
                BY <1>3, <3>1, Zenon DEF CrpcRecvOne
            <4> HIDE DEF used
            <4>2. queued' \in Demands /\ expired' = 0 /\ cCreditUsed' \in Int
                    /\ c2s' \in Seq(Requests)
                BY <2>3, <4>1, DrainTypes, Zenon DEF WireTypes, ClientTypes
            <4> QED
                BY <4>2 DEF Demands
        <3>2. CASE ~(m.credit > 0)
            <4>1. cCreditUsed' = used /\ UNCHANGED <<queued, expired, c2s>>
                BY <1>3, <3>2, Zenon DEF CrpcRecvOne
            <4> QED
                BY <2>3, <4>1 DEF WireTypes, ClientTypes
        <3> QED
            BY <3>1, <3>2
    <2>5. waitingResp' \in BOOLEAN
        BY <2>1, Zenon
    <2> HIDE DEF m, used
    <2> QED
        BY <2>1, <2>2, <2>3, <2>4, <2>5 DEF WireTypes, ClientTypes
<1>4. CASE Expire \/ cpccTimer \/ cpccTimerWake
    <2>1. queued' \in Demands /\ expired' \in 0..queued'
        BY <1>4 DEF Expire, cpccTimer, cpccTimerWake, ClientTypes, Demands
    <2>2. timer' \in {"awake", "waiting", "sleeping", "done"}
        BY <1>4 DEF Expire, cpccTimer, cpccTimerWake, ClientTypes
    <2>3. UNCHANGED <<cCredit, cCreditUsed, waitingResp, init, running>> /\ UNCHANGED wireVars
        BY <1>4 DEF Expire, cpccTimer, cpccTimerWake
    <2> QED
        BY <2>1, <2>2, <2>3 DEF WireTypes, ClientTypes, wireVars
<1>5. CASE Shutdown \/ CrpcCloseConn
    BY <1>5, Zenon DEF Shutdown, CrpcCloseConn, clientVars, WireTypes, ClientTypes
<1>6. CASE CrpcClose
    BY <1>6, Zenon DEF CrpcClose, TimerSignalled, wireVars, WireTypes, ClientTypes
<1> QED
    BY <1>1, <1>2, <1>3, <1>4, <1>5, <1>6 DEF ClientNext
\* spccUpdateCredit stays below the window and above zero.
LEMMA UpdateCreditRange ==
    ASSUME NEW credit \in Int, NEW numPending \in Int, NEW demand \in Nat,
           NEW wakeUp, NEW reqDropped, NEW unused \in Int, NEW numSess \in Nat \ {0}
    PROVE  LET cr == UpdateCredit(credit, numPending, demand, wakeUp, reqDropped, unused, numSess)
           IN  cr \in Int /\ cr <= MaxWindow - 1 /\ (numPending >= 0 => cr >= 0)
<1> DEFINE over == MaxOverprovision(unused, numSess)
           moved == IF unused > 0 THEN MinOf(numPending + demand + over, credit + unused)
                    ELSE IF unused < 0 THEN credit - 1
                    ELSE credit
           woken == IF wakeUp \/ numSess <= Procs THEN MaxOf(moved, over) ELSE moved
           kept == IF credit > 0 /\ woken = 0 /\ ~reqDropped THEN over ELSE woken
           cr == MinOf(CapCredit(MaxOf(kept, numPending)), numPending + demand + over)
<1>1. over \in Int /\ over >= 1
    <2>1. unused \div numSess \in Int
        OBVIOUS
    <2> QED
        BY <2>1 DEF MaxOverprovision, MaxOf
<1> HIDE DEF over
<1>2. moved \in Int
    BY <1>1 DEF MinOf
<1> HIDE DEF moved
<1>3. woken \in Int
    BY <1>1, <1>2 DEF MaxOf
<1> HIDE DEF woken
<1>4. kept \in Int
    BY <1>1, <1>3
<1> HIDE DEF kept
<1>5. cr \in Int /\ cr <= MaxWindow - 1 /\ (numPending >= 0 => cr >= 0)
    BY <1>1, <1>4, WindowAssumption DEF MinOf, MaxOf, CapCredit
<1> QED
    BY <1>5 DEF UpdateCredit, over, moved, woken, kept

\* A request's slot is put to use, or the sender woken, within the types.
LEMMA SignalTypes ==
    ASSUME SessionTypes, Signal
    PROVE  /\ sender' \in {"loop", "asleep", "unlinking", "ecredit", "respond", "drain",
                           "linking", "close", "closeAsleep", "unlinkingToClose", "done"}
           /\ sender \notin {"asleep", "closeAsleep"} => sender' = sender
           /\ sender = "asleep" => sender' = "loop"
           /\ sender = "closeAsleep" => sender' = "close"
BY DEF SessionTypes, Signal

\* What admitting a request does to the session's books.
LEMMA AdmitTypes ==
    ASSUME SessionTypes, NEW ss \in SessionFields,
           NEW sh \in [used : Int, pending : Int, drained : Int], request.slot \in Slots,
           Admit(ss, sh), UNCHANGED <<sending, listLock, mayDrain, waker>>,
           sLock' \in {"free", "receiver", "sender"}
    PROVE  /\ SessionTypes'
           /\ s'.Closed = ss.Closed /\ s'.NumPending = ss.NumPending + 1
           /\ s'.Credit = AdjustCredit(ss.Credit, ss.NumPending + 1, ss.Demand)
           /\ s'.Advertised = ss.Advertised
           /\ share'.used = sh.used - (ss.Credit - s'.Credit)
           /\ share'.pending = sh.pending + 1
<1> DEFINE kept == AdjustCredit(ss.Credit, ss.NumPending + 1, ss.Demand)
<1>1. /\ s' = [ss EXCEPT !.NumPending = @ + 1, !.Credit = kept]
      /\ share' = [sh EXCEPT !.used = @ - (ss.Credit - kept), !.pending = @ + 1]
      /\ receiver' = "reading" /\ request' = NoRequest
    BY DEF Admit
<1>2. kept \in Int
    BY ClientAssumption DEF AdjustCredit, MinOf, SessionFields, Demands
<1> HIDE DEF kept
<1> DEFINE numPending == ss.NumPending + 1
           used == sh.used - (ss.Credit - kept)
           pending == sh.pending + 1
<1>3. /\ s' \in SessionFields
      /\ s'.Closed = ss.Closed /\ s'.NumPending = numPending /\ s'.Credit = kept
      /\ s'.Advertised = ss.Advertised
    <2>1. s' = [ss EXCEPT !.NumPending = numPending, !.Credit = kept]
        BY <1>1
    <2>2. numPending \in Int
        BY DEF SessionFields
    <2> HIDE DEF numPending
    <2> QED
        BY <1>2, <2>1, <2>2, Zenon DEF SessionFields
<1>4. /\ share' \in [used : Int, pending : Int, drained : Int]
      /\ share'.used = used /\ share'.pending = pending
    <2>1. share' = [sh EXCEPT !.used = used, !.pending = pending]
        BY <1>1
    <2>2. used \in Int /\ pending \in Int
        BY <1>2 DEF SessionFields
    <2> HIDE DEF used, pending
    <2> QED
        BY <2>1, <2>2, Zenon
<1>5. request' \in [slot : Slots \cup {NoSlot}, demand : Demands]
    BY <1>1, ClientAssumption DEF NoRequest, Demands
<1>6. slots' \in [Slots -> SlotUses]
    BY DEF Admit, SessionTypes, SlotUses
<1>7. sender' \in {"loop", "asleep", "unlinking", "ecredit", "respond", "drain", "linking",
                   "close", "closeAsleep", "unlinkingToClose", "done"}
    <2>1. Signal \/ sender' = sender
        BY DEF Admit
    <2> QED
        BY <2>1, SignalTypes DEF SessionTypes
<1>8. SessionTypes'
    BY <1>1, <1>3, <1>4, <1>5, <1>6, <1>7 DEF SessionTypes
<1> QED
    BY <1>3, <1>4, <1>8 DEF kept

\* So does a pass of the sender over the completed slots.
LEMMA TakeTypes ==
    ASSUME SessionTypes, NEW ss \in SessionFields,
           NEW sh \in [used : Int, pending : Int, drained : Int],
           TakeCompleted(ss, sh),
           UNCHANGED <<slots, listLock, receiver, request, waker>>,
           sLock' \in {"free", "receiver", "sender"}
    PROVE  /\ SessionTypes'
           /\ s'.Closed = ss.Closed /\ s'.NumPending = ss.NumPending - Cardinality(Completed)
           /\ \/ s'.Credit = ss.Credit
              \/ s'.Credit <= MaxWindow - 1 /\ (s'.NumPending >= 0 => s'.Credit >= 0)
           /\ s'.Advertised \in {s'.Credit, ss.Advertised}
           /\ share'.used = sh.used + (s'.Credit - ss.Credit) /\ share'.pending = sh.pending
           /\ sending' = Completed /\ sender' \in {"ecredit", "respond"}
           /\ sender' = "ecredit" => Cardinality(Completed) = 0
<1>1. PICK unused \in UnusedChoices, numSess \in NumSessChoices :
         LET numResp == Cardinality(Completed)
             pend == ss.NumPending - numResp
             dropped == \E i \in Completed : slots[i] = "refused"
             cr == IF ss.Drained THEN ss.Credit
                   ELSE UpdateCredit(ss.Credit, pend, ss.Demand, ss.WakeUp, dropped,
                                     unused, numSess)
             sendECredit == (ss.NeedECredit \/ ss.WakeUp) /\ numResp = 0 /\ ss.Advertised < cr
         IN  /\ s' = [ss EXCEPT !.NumPending = pend, !.Credit = cr,
                                !.Advertised = IF numResp > 0 \/ sendECredit THEN cr ELSE @,
                                !.NeedECredit = FALSE, !.WakeUp = FALSE]
             /\ share' = [sh EXCEPT !.used = @ + (cr - ss.Credit)]
             /\ sending' = Completed
             /\ mayDrain' = (cr = 0 /\ ~ss.Drained)
             /\ sender' = IF sendECredit THEN "ecredit" ELSE "respond"
    BY Zenon DEF TakeCompleted
<1> DEFINE numResp == Cardinality(Completed)
           pend == ss.NumPending - numResp
           dropped == \E i \in Completed : slots[i] = "refused"
           cr == IF ss.Drained THEN ss.Credit
                 ELSE UpdateCredit(ss.Credit, pend, ss.Demand, ss.WakeUp, dropped,
                                   unused, numSess)
           sendECredit == (ss.NeedECredit \/ ss.WakeUp) /\ numResp = 0 /\ ss.Advertised < cr
<1>2. numResp \in Nat
    <2>1. Completed \subseteq Slots
        BY DEF Completed
    <2> QED
        BY <2>1, SessionAssumption, FS_Subset, FS_CardinalityType
<1>3. pend \in Int
    BY <1>2 DEF SessionFields
<1>4. cr \in Int /\ (cr = ss.Credit \/ (cr <= MaxWindow - 1 /\ (pend >= 0 => cr >= 0)))
    <2>1. unused \in Int /\ numSess \in Nat \ {0} /\ ss.Demand \in Nat /\ ss.Credit \in Int
        BY SessionAssumption, ClientAssumption DEF SessionFields, Demands
    <2> HIDE DEF pend, dropped
    <2> QED
        BY <1>3, <2>1, UpdateCreditRange
<1>5. /\ s' = [ss EXCEPT !.NumPending = pend, !.Credit = cr,
                         !.Advertised = IF numResp > 0 \/ sendECredit THEN cr ELSE @,
                         !.NeedECredit = FALSE, !.WakeUp = FALSE]
      /\ share' = [sh EXCEPT !.used = @ + (cr - ss.Credit)]
      /\ sending' = Completed
      /\ mayDrain' = (cr = 0 /\ ~ss.Drained)
      /\ sender' = IF sendECredit THEN "ecredit" ELSE "respond"
    BY <1>1
<1>6. sender' \in {"ecredit", "respond"} /\ (sender' = "ecredit" => numResp = 0)
    BY <1>5, Zenon
<1> HIDE DEF numResp, pend, dropped, cr, sendECredit
<1>7. /\ s' \in SessionFields /\ s'.Closed = ss.Closed /\ s'.NumPending = pend
      /\ s'.Credit = cr /\ s'.Advertised \in {cr, ss.Advertised}
    <2> DEFINE adv == IF numResp > 0 \/ sendECredit THEN cr ELSE ss.Advertised
    <2>1. s' = [ss EXCEPT !.NumPending = pend, !.Credit = cr, !.Advertised = adv,
                          !.NeedECredit = FALSE, !.WakeUp = FALSE]
        BY <1>5
    <2>2. adv \in Int /\ adv \in {cr, ss.Advertised}
        BY <1>4 DEF SessionFields
    <2> HIDE DEF adv
    <2>3. s' \in SessionFields
        BY <1>3, <1>4, <2>1, <2>2, Zenon DEF SessionFields
    <2>4. s'.Closed = ss.Closed /\ s'.NumPending = pend /\ s'.Credit = cr /\ s'.Advertised = adv
        BY <2>1 DEF SessionFields
    <2> QED
        BY <2>2, <2>3, <2>4
<1>8. /\ share' \in [used : Int, pending : Int, drained : Int]
      /\ share'.used = sh.used + (cr - ss.Credit) /\ share'.pending = sh.pending
    BY <1>4, <1>5 DEF SessionFields
<1>9. mayDrain' \in BOOLEAN
    BY <1>5, Zenon
<1>10. sending' \subseteq Slots /\ sending' = Completed
    BY <1>5 DEF Completed
<1>11. SessionTypes'
    BY <1>6, <1>7, <1>8, <1>9, <1>10 DEF SessionTypes
<1> QED
    BY <1>4, <1>6, <1>7, <1>8, <1>10, <1>11 DEF numResp, pend
\* Leaving a drained list changes what says the session is on one, and no more.
LEMMA UnlinkTypes ==
    ASSUME SessionTypes
    PROVE  /\ Unlinked(s) \in SessionFields
           /\ UnlinkedShare(share) \in [used : Int, pending : Int, drained : Int]
           /\ Unlinked(s).NumPending = s.NumPending /\ Unlinked(s).Credit = s.Credit
           /\ Unlinked(s).Advertised = s.Advertised /\ Unlinked(s).Demand = s.Demand
           /\ Unlinked(s).Closed = s.Closed
           /\ UnlinkedShare(share).used = share.used
           /\ UnlinkedShare(share).pending = share.pending
<1>1. Unlinked(s) = [s EXCEPT !.List = "none", !.Drained = FALSE] /\ s \in SessionFields
    BY DEF Unlinked, SessionTypes
<1>2. Unlinked(s) \in SessionFields
    BY <1>1, Zenon DEF SessionFields
<1>3. /\ Unlinked(s).NumPending = s.NumPending /\ Unlinked(s).Credit = s.Credit
      /\ Unlinked(s).Advertised = s.Advertised /\ Unlinked(s).Demand = s.Demand
      /\ Unlinked(s).Closed = s.Closed
    BY <1>1 DEF SessionFields
<1>4. /\ UnlinkedShare(share) \in [used : Int, pending : Int, drained : Int]
      /\ UnlinkedShare(share).used = share.used
      /\ UnlinkedShare(share).pending = share.pending
    BY DEF UnlinkedShare, SessionTypes
<1> QED
    BY <1>2, <1>3, <1>4

\* So does joining one.
LEMMA LinkTypes ==
    ASSUME SessionTypes, NEW ss \in SessionFields, NEW l \in {"H", "L"}
    PROVE  /\ Linked(ss, l) \in SessionFields
           /\ LinkedShare(share) \in [used : Int, pending : Int, drained : Int]
           /\ Linked(ss, l).NumPending = ss.NumPending /\ Linked(ss, l).Credit = ss.Credit
           /\ Linked(ss, l).Advertised = ss.Advertised /\ Linked(ss, l).Demand = ss.Demand
           /\ Linked(ss, l).Closed = ss.Closed
           /\ LinkedShare(share).used = share.used
           /\ LinkedShare(share).pending = share.pending
<1> DEFINE list == IF IsLinked THEN "corrupt" ELSE l
<1>1. Linked(ss, l) = [ss EXCEPT !.List = list, !.Drained = TRUE]
    BY DEF Linked
<1>2. list \in {"none", "H", "L", "corrupt"}
    OBVIOUS
<1> HIDE DEF list
<1>3. Linked(ss, l) \in SessionFields
    BY <1>1, <1>2, Zenon DEF SessionFields
<1>4. /\ Linked(ss, l).NumPending = ss.NumPending /\ Linked(ss, l).Credit = ss.Credit
      /\ Linked(ss, l).Advertised = ss.Advertised /\ Linked(ss, l).Demand = ss.Demand
      /\ Linked(ss, l).Closed = ss.Closed
    BY <1>1 DEF SessionFields
<1>5. /\ LinkedShare(share) \in [used : Int, pending : Int, drained : Int]
      /\ LinkedShare(share).used = share.used
      /\ LinkedShare(share).pending = share.pending
    BY DEF LinkedShare, SessionTypes
<1> QED
    BY <1>3, <1>4, <1>5

\* Closing takes the session's pending requests and credits off the counts.
LEMMA CloseTypes ==
    ASSUME SessionTypes, NEW ss \in SessionFields,
           NEW sh \in [used : Int, pending : Int, drained : Int],
           CloseSession(ss, sh), UNCHANGED <<slots, sending, listLock, request, mayDrain, waker>>,
           sLock' \in {"free", "receiver", "sender"}
    PROVE  /\ SessionTypes'
           /\ s'.NumPending = 0 /\ s'.Closed /\ s'.Credit = ss.Credit
           /\ s'.Advertised = ss.Advertised
           /\ share'.used = sh.used - s.Credit /\ share'.pending = sh.pending - s.NumPending
<1> DEFINE used == sh.used - s.Credit
           pending == sh.pending - s.NumPending
<1>1. /\ s' = [ss EXCEPT !.NumPending = 0, !.Demand = 0, !.Closed = TRUE]
      /\ share' = [sh EXCEPT !.used = used, !.pending = pending]
      /\ receiver' = "waiting"
    BY DEF CloseSession
<1>2. used \in Int /\ pending \in Int
    BY DEF SessionTypes, SessionFields
<1>3. s' \in SessionFields /\ s'.NumPending = 0 /\ s'.Closed /\ s'.Credit = ss.Credit
        /\ s'.Advertised = ss.Advertised
    <2>0. 0 \in Demands
        BY ClientAssumption DEF Demands
    <2>1. s' \in SessionFields
        <3> DEFINE none == 0
                   yes == TRUE
        <3>1. s' = [ss EXCEPT !.NumPending = none, !.Demand = none, !.Closed = yes]
                /\ none \in Int /\ none \in Demands /\ yes \in BOOLEAN
            BY <1>1, <2>0
        <3> HIDE DEF none, yes
        <3> QED
            BY <3>1, Zenon DEF SessionFields
    <2>2. s'.NumPending = 0 /\ s'.Credit = ss.Credit /\ s'.Advertised = ss.Advertised
        BY <1>1 DEF SessionFields
    <2>3. s'.Closed
        BY <1>1 DEF SessionFields
    <2> QED
        BY <2>1, <2>2, <2>3
<1>4. share' \in [used : Int, pending : Int, drained : Int] /\ share'.used = used
        /\ share'.pending = pending
    <2> HIDE DEF used, pending
    <2> QED
        BY <1>1, <1>2, Zenon
<1>5. sender' \in {"loop", "asleep", "unlinking", "ecredit", "respond", "drain", "linking",
                   "close", "closeAsleep", "unlinkingToClose", "done"}
    BY SignalTypes DEF CloseSession
<1> QED
    BY <1>1, <1>3, <1>4, <1>5 DEF SessionTypes

\* A request is admitted, in one step or, off a drained list, in two.
LEMMA Admitted ==
    ASSUME SessionTypes, request.slot \in Slots, RecvUnlink \/ (RecvAdmit /\ ~s.Drained)
    PROVE  /\ SessionTypes'
           /\ s'.Closed = s.Closed /\ s'.NumPending = s.NumPending + 1
           /\ \E d \in Nat : s'.Credit = AdjustCredit(s.Credit, s.NumPending + 1, d)
           /\ s'.Advertised = s.Advertised
           /\ share'.used = share.used - (s.Credit - s'.Credit)
           /\ share'.pending = share.pending + 1
           /\ receiver' = "reading" /\ (Signal \/ sender' = sender) /\ sending' = sending
           /\ \/ slots' = [slots EXCEPT ![request.slot] = "refused"]
              \/ slots' = [slots EXCEPT ![request.slot] = "working"]
<1>1. \E ss \in SessionFields, sh \in Shares :
         /\ Admit(ss, sh) /\ sLock' \in {"free", "receiver", "sender"}
         /\ ss.Closed = s.Closed /\ ss.NumPending = s.NumPending /\ ss.Credit = s.Credit
         /\ ss.Advertised = s.Advertised
         /\ sh.used = share.used /\ sh.pending = share.pending
    <2>1. CASE RecvUnlink
        BY <2>1, UnlinkTypes DEF RecvUnlink, Shares
    <2>2. CASE RecvAdmit /\ ~s.Drained
        <3> DEFINE ss == [s EXCEPT !.Demand = request.demand]
        <3>1. Admit(ss, share) /\ sLock' = sLock
            BY <2>2 DEF RecvAdmit
        <3>2. ss \in SessionFields /\ ss.Closed = s.Closed /\ ss.NumPending = s.NumPending
                /\ ss.Credit = s.Credit /\ ss.Advertised = s.Advertised
            BY DEF SessionTypes, SessionFields
        <3>3. share \in Shares /\ sLock' \in {"free", "receiver", "sender"}
            BY <3>1 DEF SessionTypes, Shares
        <3> HIDE DEF ss
        <3> QED
            BY <3>1, <3>2, <3>3
    <2> QED
        BY <2>1, <2>2
<1>2. PICK ss \in SessionFields, sh \in Shares :
         /\ Admit(ss, sh) /\ sLock' \in {"free", "receiver", "sender"}
         /\ ss.Closed = s.Closed /\ ss.NumPending = s.NumPending /\ ss.Credit = s.Credit
         /\ ss.Advertised = s.Advertised
         /\ sh.used = share.used /\ sh.pending = share.pending
    BY <1>1
<1>3. UNCHANGED <<sending, listLock, mayDrain, waker>>
    BY DEF RecvUnlink, RecvAdmit
<1>4. /\ SessionTypes'
      /\ s'.Closed = ss.Closed /\ s'.NumPending = ss.NumPending + 1
      /\ s'.Credit = AdjustCredit(ss.Credit, ss.NumPending + 1, ss.Demand)
      /\ s'.Advertised = ss.Advertised
      /\ share'.used = sh.used - (ss.Credit - s'.Credit)
      /\ share'.pending = sh.pending + 1
    BY <1>2, <1>3, AdmitTypes DEF Shares
<1>5. ss.Demand \in Nat
    BY ClientAssumption DEF SessionFields, Demands
<1>6. /\ receiver' = "reading" /\ (Signal \/ sender' = sender)
      /\ \/ slots' = [slots EXCEPT ![request.slot] = "refused"]
         \/ slots' = [slots EXCEPT ![request.slot] = "working"]
    BY <1>2 DEF Admit
<1> QED
    BY <1>2, <1>3, <1>4, <1>5, <1>6

\* A credit update changes the demand, and takes back credits beyond it.
LEMMA CreditUpdated ==
    ASSUME WireTypes, SessionTypes, RecvCredit
    PROVE  /\ c2s' = Tail(c2s) /\ c2s # <<>> /\ Head(c2s).op = "credit"
           /\ c2s' \in Seq(Requests) /\ SessionTypes'
           /\ s'.Closed = s.Closed /\ s'.NumPending = s.NumPending
           /\ \E d \in Nat : s'.Credit = AdjustCredit(s.Credit, s.NumPending, d)
           /\ s'.Advertised \in {0, s.Advertised}
           /\ share'.used = share.used - (s.Credit - s'.Credit)
           /\ share'.pending = share.pending
           /\ Signal /\ UNCHANGED <<slots, sending, receiver, request, sLock, s2c, open>>
<1> DEFINE d == Head(c2s).demand
           idle == s.NumPending = 0 /\ d = 0
           s1 == [s EXCEPT !.Demand = d, !.NeedECredit = @ \/ (s.NumPending = 0 /\ d > 0)]
           s2 == IF idle THEN [Linked(s1, "L") EXCEPT !.Advertised = 0] ELSE s1
           sh == IF idle THEN LinkedShare(share) ELSE share
           kept == AdjustCredit(s.Credit, s.NumPending, d)
<1>1. /\ c2s # <<>> /\ Head(c2s).op = "credit" /\ c2s' = Tail(c2s) /\ UNCHANGED <<s2c, open>>
      /\ s' = [s2 EXCEPT !.Credit = kept]
      /\ share' = [sh EXCEPT !.used = @ - (s.Credit - kept)]
      /\ Signal
      /\ UNCHANGED <<slots, sending, sLock, listLock, receiver, request, mayDrain, waker>>
    BY DEF RecvCredit
<1>2. Head(c2s) \in Requests /\ c2s' \in Seq(Requests)
    BY <1>1 DEF WireTypes
<1>3. d \in Demands /\ d \in Nat
    BY <1>2, ClientAssumption DEF Requests, Demands
<1>4. kept \in Int
    BY <1>3 DEF AdjustCredit, MinOf, SessionTypes, SessionFields
<1>5. s1 \in SessionFields /\ s1.Closed = s.Closed /\ s1.NumPending = s.NumPending
        /\ s1.Advertised = s.Advertised
    <2> DEFINE need == s.NeedECredit \/ (s.NumPending = 0 /\ d > 0)
    <2>1. s1 = [s EXCEPT !.Demand = d, !.NeedECredit = need] /\ need \in BOOLEAN
        OBVIOUS
    <2> HIDE DEF need, s1
    <2> QED
        BY <1>3, <2>1, Zenon DEF SessionTypes, SessionFields
<1>6. /\ s2 \in SessionFields /\ s2.Closed = s.Closed /\ s2.NumPending = s.NumPending
      /\ s2.Advertised \in {0, s.Advertised}
      /\ sh \in Shares /\ sh.used = share.used /\ sh.pending = share.pending
    <2> HIDE DEF s1, idle
    <2>1. /\ Linked(s1, "L") \in SessionFields /\ Linked(s1, "L").NumPending = s1.NumPending
          /\ Linked(s1, "L").Closed = s1.Closed
          /\ LinkedShare(share) \in Shares /\ LinkedShare(share).used = share.used
          /\ LinkedShare(share).pending = share.pending
        BY <1>5, LinkTypes DEF Shares
    <2> DEFINE s3 == [Linked(s1, "L") EXCEPT !.Advertised = 0]
    <2>2. s3 \in SessionFields /\ s3.Closed = s1.Closed /\ s3.NumPending = s1.NumPending
            /\ s3.Advertised = 0
        BY <2>1 DEF SessionFields
    <2>3. share \in Shares
        BY DEF SessionTypes, Shares
    <2> HIDE DEF s3
    <2>4. CASE idle
        <3>1. s2 = s3 /\ sh = LinkedShare(share)
            BY <2>4 DEF s3
        <3> QED
            BY <1>5, <2>1, <2>2, <3>1
    <2>5. CASE ~idle
        <3>1. s2 = s1 /\ sh = share
            BY <2>5
        <3> QED
            BY <1>5, <2>3, <3>1, Zenon
    <2> QED
        BY <2>4, <2>5
<1> HIDE DEF s2, sh
<1>7. /\ s' \in SessionFields /\ s'.Closed = s2.Closed /\ s'.NumPending = s2.NumPending
      /\ s'.Credit = kept /\ s'.Advertised = s2.Advertised
    <2> HIDE DEF kept
    <2> QED
        BY <1>1, <1>4, <1>6, Zenon DEF SessionFields
<1>8. /\ share' \in Shares /\ share'.used = share.used - (s.Credit - kept)
      /\ share'.pending = share.pending
    <2> HIDE DEF kept
    <2> DEFINE used == sh.used - (s.Credit - kept)
    <2>1. share' = [sh EXCEPT !.used = used]
        BY <1>1
    <2>2. used \in Int
        BY <1>4, <1>6 DEF SessionTypes, SessionFields, Shares
    <2>3. share' \in Shares /\ share'.used = used /\ share'.pending = sh.pending
        <3> HIDE DEF used
        <3> QED
            BY <1>6, <2>1, <2>2 DEF Shares
    <2> QED
        BY <1>6, <2>3
<1>9. SessionTypes'
    BY <1>1, <1>7, <1>8, SignalTypes DEF SessionTypes, Shares
<1>10. \E x \in Nat : s'.Credit = AdjustCredit(s.Credit, s.NumPending, x)
    BY <1>3, <1>7
<1>11. s'.Advertised \in {0, s.Advertised} /\ share'.used = share.used - (s.Credit - s'.Credit)
    BY <1>6, <1>7, <1>8
<1> QED
    BY <1>1, <1>2, <1>6, <1>7, <1>8, <1>9, <1>10, <1>11

\* The receiving goroutine leaves its loop and closes the session.
LEMMA ClosedBooks ==
    ASSUME SessionTypes, RecvUnlinkClose \/ (RecvClose /\ receiver' = "waiting")
    PROVE  /\ SessionTypes'
           /\ s'.NumPending = 0 /\ s'.Closed /\ s'.Credit = s.Credit
           /\ s'.Advertised = s.Advertised
           /\ share'.used = share.used - s.Credit
           /\ share'.pending = share.pending - s.NumPending
           /\ receiver' = "waiting" /\ Signal /\ UNCHANGED <<slots, sending, request>>
<1>1. \E ss \in SessionFields, sh \in Shares :
         /\ CloseSession(ss, sh) /\ sLock' \in {"free", "receiver", "sender"}
         /\ ss.Credit = s.Credit /\ ss.Advertised = s.Advertised
         /\ sh.used = share.used /\ sh.pending = share.pending
    <2>1. CASE RecvUnlinkClose
        BY <2>1, UnlinkTypes DEF RecvUnlinkClose, Shares
    <2>2. CASE RecvClose /\ receiver' = "waiting"
        <3>1. CloseSession(s, share) /\ sLock' = sLock
            BY <2>2 DEF RecvClose
        <3>2. s \in SessionFields /\ share \in Shares /\ sLock' \in {"free", "receiver", "sender"}
            BY <3>1 DEF SessionTypes, Shares
        <3> QED
            BY <3>1, <3>2
    <2> QED
        BY <2>1, <2>2
<1>2. UNCHANGED <<slots, sending, listLock, request, mayDrain, waker>>
    BY DEF RecvUnlinkClose, RecvClose
<1>3. PICK ss \in SessionFields, sh \in Shares :
         /\ CloseSession(ss, sh) /\ sLock' \in {"free", "receiver", "sender"}
         /\ ss.Credit = s.Credit /\ ss.Advertised = s.Advertised
         /\ sh.used = share.used /\ sh.pending = share.pending
    BY <1>1
<1>4. /\ SessionTypes'
      /\ s'.NumPending = 0 /\ s'.Closed /\ s'.Credit = ss.Credit
      /\ s'.Advertised = ss.Advertised
      /\ share'.used = sh.used - s.Credit /\ share'.pending = sh.pending - s.NumPending
    BY <1>2, <1>3, CloseTypes DEF Shares
<1>5. receiver' = "waiting" /\ Signal
    BY <1>3 DEF CloseSession
<1> QED
    BY <1>2, <1>3, <1>4, <1>5

\* The receiving goroutine keeps the types.
LEMMA ReceiverTypeStep ==
    ASSUME WireTypes, SessionTypes, ReceiverNext,
           receiver \in {"payload", "unlinking"} => request.slot \in Slots
    PROVE  WireTypes' /\ SessionTypes'
<1> USE DEF wireVars
<1>1. CASE RecvCall
    <2>1. c2s # <<>> /\ c2s' = Tail(c2s) /\ UNCHANGED <<s2c, open>>
        BY <1>1 DEF RecvCall
    <2>2. Head(c2s) \in Requests /\ c2s' \in Seq(Requests)
        BY <2>1 DEF WireTypes
    <2>3. slots' \in [Slots -> SlotUses] /\ receiver' \in {"reading", "payload"}
        BY <1>1 DEF RecvCall, SessionTypes, SlotUses, Avail
    <2>4. request' \in [slot : Slots \cup {NoSlot}, demand : Demands]
        BY <1>1, <2>2 DEF RecvCall, SessionTypes, Avail, Requests
    <2>5. UNCHANGED <<s, sending, sLock, listLock, sender, mayDrain, waker, share>>
        BY <1>1 DEF RecvCall
    <2> QED
        BY <2>1, <2>2, <2>3, <2>4, <2>5 DEF WireTypes, SessionTypes
<1>2. CASE RecvPayloadFails
    <2>1. slots' \in [Slots -> SlotUses]
        BY <1>2 DEF RecvPayloadFails, SessionTypes, SlotUses
    <2>2. request' \in [slot : Slots \cup {NoSlot}, demand : Demands]
        BY <1>2, ClientAssumption DEF RecvPayloadFails, NoRequest, Demands
    <2> QED
        BY <1>2, <2>1, <2>2 DEF RecvPayloadFails, WireTypes, SessionTypes
<1>3. CASE RecvAdmit /\ s.Drained
    <2>1. s' \in SessionFields
        BY <1>3 DEF RecvAdmit, SessionTypes, SessionFields
    <2> QED
        BY <1>3, <2>1 DEF RecvAdmit, WireTypes, SessionTypes
<1>4. CASE RecvUnlink \/ (RecvAdmit /\ ~s.Drained)
    <2>1. receiver \in {"payload", "unlinking"} /\ UNCHANGED wireVars
        BY <1>4 DEF RecvUnlink, RecvAdmit
    <2> QED
        BY <1>4, <2>1, Admitted DEF WireTypes
<1>5. CASE RecvCredit
    BY <1>5, CreditUpdated DEF WireTypes
<1>6. CASE RecvEOF \/ RecvDone
    BY <1>6 DEF RecvEOF, RecvDone, WireTypes, SessionTypes
<1>7. CASE RecvClose /\ receiver' # "waiting"
    BY <1>7 DEF RecvClose, CloseSession, WireTypes, SessionTypes
<1>8. CASE RecvUnlinkClose \/ (RecvClose /\ receiver' = "waiting")
    <2>1. UNCHANGED wireVars
        BY <1>8 DEF RecvUnlinkClose, RecvClose
    <2> QED
        BY <1>8, <2>1, ClosedBooks DEF WireTypes
<1> QED
    BY <1>1, <1>2, <1>3, <1>4, <1>5, <1>6, <1>7, <1>8 DEF ReceiverNext

\* The sender takes the completed slots, in one step or, off a drained list, in
\* two.
LEMMA TakenBooks ==
    ASSUME SessionTypes,
           SenderUnlink \/ (SenderPass /\ ~s.Closed /\ ~(s.WakeUp /\ s.Drained))
    PROVE  /\ SessionTypes'
           /\ s'.Closed = s.Closed /\ s'.NumPending = s.NumPending - Cardinality(Completed)
           /\ \/ s'.Credit = s.Credit
              \/ s'.Credit <= MaxWindow - 1 /\ (s'.NumPending >= 0 => s'.Credit >= 0)
           /\ s'.Advertised \in {s'.Credit, s.Advertised}
           /\ share'.used = share.used + (s'.Credit - s.Credit)
           /\ share'.pending = share.pending
           /\ sending' = Completed /\ sender' \in {"ecredit", "respond"}
           /\ sender' = "ecredit" => Cardinality(Completed) = 0
           /\ UNCHANGED <<slots, receiver, request>>
<1>1. UNCHANGED <<slots, listLock, receiver, request, waker>>
    BY DEF SenderPass, SenderUnlink
<1>2. \E ss \in SessionFields, sh \in Shares :
         /\ TakeCompleted(ss, sh) /\ sLock' \in {"free", "receiver", "sender"}
         /\ ss.Closed = s.Closed /\ ss.NumPending = s.NumPending /\ ss.Credit = s.Credit
         /\ ss.Advertised = s.Advertised
         /\ sh.used = share.used /\ sh.pending = share.pending
    <2>1. CASE SenderUnlink
        BY <2>1, UnlinkTypes DEF SenderUnlink, Shares
    <2>2. CASE SenderPass /\ ~s.Closed /\ ~(s.WakeUp /\ s.Drained)
        <3>1. TakeCompleted(s, share) /\ sLock' = sLock
            BY <2>2 DEF SenderPass
        <3>2. s \in SessionFields /\ share \in Shares /\ sLock' \in {"free", "receiver", "sender"}
            BY <3>1 DEF SessionTypes, Shares
        <3> QED
            BY <3>1, <3>2
    <2> QED
        BY <2>1, <2>2
<1>3. PICK ss \in SessionFields, sh \in Shares :
         /\ TakeCompleted(ss, sh) /\ sLock' \in {"free", "receiver", "sender"}
         /\ ss.Closed = s.Closed /\ ss.NumPending = s.NumPending /\ ss.Credit = s.Credit
         /\ ss.Advertised = s.Advertised
         /\ sh.used = share.used /\ sh.pending = share.pending
    BY <1>2
<1>4. /\ SessionTypes'
      /\ s'.Closed = ss.Closed /\ s'.NumPending = ss.NumPending - Cardinality(Completed)
      /\ \/ s'.Credit = ss.Credit
         \/ s'.Credit <= MaxWindow - 1 /\ (s'.NumPending >= 0 => s'.Credit >= 0)
      /\ s'.Advertised \in {s'.Credit, ss.Advertised}
      /\ share'.used = sh.used + (s'.Credit - ss.Credit) /\ share'.pending = sh.pending
      /\ sending' = Completed /\ sender' \in {"ecredit", "respond"}
      /\ sender' = "ecredit" => Cardinality(Completed) = 0
    BY <1>1, <1>3, TakeTypes DEF Shares
<1> QED
    BY <1>1, <1>3, <1>4

\* The sender, the workers and the wake-ups keep the types.
LEMMA SenderTypeStep ==
    ASSUME WireTypes, SessionTypes, SenderNext PROVE WireTypes' /\ SessionTypes'
<1> USE DEF wireVars
<1>1. CASE SenderSleeps \/ SenderChecksDrained \/ SenderDrains
    <2>1. mayDrain' \in BOOLEAN
        <3>1. mayDrain' = FALSE \/ mayDrain' = mayDrain
            BY <1>1 DEF SenderSleeps, SenderChecksDrained, SenderDrains
        <3> QED
            BY <3>1, Zenon DEF SessionTypes
    <2> QED
        BY <1>1, <2>1 DEF SenderSleeps, SenderChecksDrained, SenderDrains, WireTypes,
                          SessionTypes
<1>2. CASE SenderPass /\ (s.Closed \/ (s.WakeUp /\ s.Drained))
    BY <1>2 DEF SenderPass, WireTypes, SessionTypes
<1>3. CASE SenderUnlink \/ (SenderPass /\ ~s.Closed /\ ~(s.WakeUp /\ s.Drained))
    <2>1. UNCHANGED wireVars
        BY <1>3 DEF SenderUnlink, SenderPass
    <2> QED
        BY <1>3, <2>1, TakenBooks DEF WireTypes
<1>4. CASE spccSendECredit
    <2>1. ECredit(s.Credit) \in Responses
        BY DEF ECredit, Responses, SessionTypes, SessionFields
    <2>2. s2c' \in Seq(Responses)
        <3>1. s2c' = Append(s2c, ECredit(s.Credit)) \/ s2c' = s2c
            BY <1>4 DEF spccSendECredit
        <3> QED
            BY <2>1, <3>1 DEF WireTypes
    <2> QED
        BY <1>4, <2>2 DEF spccSendECredit, WireTypes, SessionTypes
<1>5. CASE SendResponse
    <2>1. Response(s.Credit) \in Responses
        BY DEF Response, Responses, SessionTypes, SessionFields
    <2>2. s2c' \in Seq(Responses)
        <3>1. s2c' = Append(s2c, Response(s.Credit)) \/ s2c' = s2c
            BY <1>5 DEF SendResponse
        <3> QED
            BY <2>1, <3>1 DEF WireTypes
    <2>3. slots' \in [Slots -> SlotUses]
        BY <1>5 DEF SendResponse, SessionTypes, SlotUses
    <2>4. share' \in [used : Int, pending : Int, drained : Int]
        BY <1>5 DEF SendResponse, SessionTypes
    <2> QED
        BY <1>5, <2>2, <2>3, <2>4 DEF SendResponse, WireTypes, SessionTypes
<1>6. CASE PutSlot
    <2>1. slots' \in [Slots -> SlotUses] /\ sending' \subseteq Slots
        BY <1>6 DEF PutSlot, SessionTypes, SlotUses
    <2> QED
        BY <1>6, <2>1 DEF PutSlot, WireTypes, SessionTypes
<1>7. CASE SenderLinks
    <2> DEFINE l == IF s.Demand > 0 THEN "H" ELSE "L"
    <2>1. s' = Linked(s, l) /\ share' = LinkedShare(share) /\ l \in {"H", "L"}
            /\ s \in SessionFields
        BY <1>7 DEF SenderLinks, SessionTypes
    <2> HIDE DEF l
    <2>2. s' \in SessionFields /\ share' \in [used : Int, pending : Int, drained : Int]
        BY <2>1, LinkTypes
    <2> QED
        BY <1>7, <2>2 DEF SenderLinks, WireTypes, SessionTypes
<1>8. CASE SenderCloses
    <2>1. slots' \in [Slots -> SlotUses] /\ sLock' \in {"free", "receiver", "sender"}
            /\ sender' \in {"closeAsleep", "unlinkingToClose", "done"}
        BY <1>8 DEF SenderCloses, SessionTypes, SlotUses
    <2> QED
        BY <1>8, <2>1 DEF SenderCloses, WireTypes, SessionTypes
<1>9. CASE SenderUnlinkClose
    <2>1. slots' \in [Slots -> SlotUses]
        BY <1>9 DEF SenderUnlinkClose, SlotUses
    <2>2. s' \in SessionFields /\ share' \in [used : Int, pending : Int, drained : Int]
        BY <1>9, UnlinkTypes DEF SenderUnlinkClose
    <2> QED
        BY <1>9, <2>1, <2>2 DEF SenderUnlinkClose, WireTypes, SessionTypes
<1> QED
    BY <1>1, <1>2, <1>3, <1>4, <1>5, <1>6, <1>7, <1>8, <1>9 DEF SenderNext

\* A worker completes its slot and wakes the sender, within the types.
LEMMA WorkerTypeStep ==
    ASSUME WireTypes, SessionTypes, NEW i \in Slots, spccWorker(i)
    PROVE  WireTypes' /\ SessionTypes'
<1>1. slots' \in [Slots -> SlotUses]
    BY DEF spccWorker, SessionTypes, SlotUses
<1>2. Signal /\ UNCHANGED wireVars
        /\ UNCHANGED <<s, sending, sLock, listLock, receiver, request, mayDrain, waker, share>>
    BY DEF spccWorker
<1> QED
    BY <1>1, <1>2, SignalTypes DEF WireTypes, SessionTypes, wireVars

\* So do the steps that wake a drained session.
LEMMA WakerTypeStep ==
    ASSUME WireTypes, SessionTypes, WakerNext PROVE WireTypes' /\ SessionTypes'
<1> USE DEF wireVars
<1>1. CASE ChooseDrainedHLocks
    BY <1>1 DEF ChooseDrainedHLocks, WireTypes, SessionTypes
<1>2. CASE ChooseDrainedHDemotes
    <2>1. s' \in SessionFields
        BY <1>2 DEF ChooseDrainedHDemotes, SessionTypes, SessionFields
    <2> QED
        BY <1>2, <2>1 DEF ChooseDrainedHDemotes, WireTypes, SessionTypes
<1>3. CASE ChooseDrainedLPops
    <2>1. s' \in SessionFields
        BY <1>3 DEF ChooseDrainedLPops, SessionTypes, SessionFields
    <2> QED
        BY <1>3, <2>1 DEF ChooseDrainedLPops, WireTypes, SessionTypes
<1>4. CASE ChooseDrainedLClears
    <2>1. s' \in SessionFields
        BY <1>4, Zenon DEF ChooseDrainedLClears, SessionTypes, SessionFields
    <2>2. share' \in [used : Int, pending : Int, drained : Int]
        BY <1>4 DEF ChooseDrainedLClears, SessionTypes
    <2> QED
        BY <1>4, <2>1, <2>2 DEF ChooseDrainedLClears, WireTypes, SessionTypes
<1>5. CASE WakeUpSession
    <2>1. s' \in SessionFields
        <3> DEFINE one == 1
                   yes == TRUE
        <3>1. s' = [s EXCEPT !.WakeUp = yes, !.Credit = one] /\ one \in Int /\ yes \in BOOLEAN
            BY <1>5 DEF WakeUpSession
        <3> HIDE DEF one, yes
        <3> QED
            BY <3>1, Zenon DEF SessionTypes, SessionFields
    <2> QED
        BY <1>5, <2>1, SignalTypes DEF WakeUpSession, WireTypes, SessionTypes
<1>6. CASE WakeUpCounts
    <2>1. share' \in [used : Int, pending : Int, drained : Int]
        BY <1>6 DEF WakeUpCounts, SessionTypes
    <2> QED
        BY <1>6, <2>1 DEF WakeUpCounts, WireTypes, SessionTypes
<1> QED
    BY <1>1, <1>2, <1>3, <1>4, <1>5, <1>6 DEF WakerNext
-----------------------------------------------------------------------------
(* Who holds which slot and which lock *)

HolderInv ==
    /\ receiver \in {"ending", "unlinkingToClose", "waiting", "done"} => ~open
    /\ s.Closed <=> receiver \in {"waiting", "done"}
    /\ receiver \in {"payload", "unlinking"} =>
           request.slot \in Slots /\ slots[request.slot] = "reading"
    /\ receiver \in {"unlinking", "unlinkingToClose"} => sLock = "receiver"
    /\ sender \in {"unlinking", "linking", "unlinkingToClose"} => sLock = "sender"
    /\ sender = "unlinking" => ~s.Closed
    /\ sender \in {"unlinkingToClose", "done"} => s.Closed
    /\ sender = "done" => \A i \in Slots : slots[i] = "avail"
    /\ sender # "respond" => sending = {}
    /\ \A i \in sending : slots[i] \in {"served", "refused", "sent"}
    /\ \A i \in Slots : slots[i] = "sent" => i \in sending
    /\ \A i, j \in Slots : slots[i] = "sent" /\ slots[j] = "sent" => i = j

\* Nothing is held in the first state.
LEMMA HolderInit == Init => HolderInv
BY DEF Init, SessionInit, WireInit, HolderInv

\* A client operation leaves the session alone; at most it closes the
\* connection.
LEMMA ClientHolderStep ==
    ASSUME HolderInv, ClientNext, UNCHANGED sessionVars PROVE HolderInv'
<1>1. open' = open \/ open' = FALSE
    BY Zenon DEF ClientNext, CrpcSendOne, CrpcRecvOne, Expire, cpccTimer, cpccTimerWake, Shutdown,
           CrpcClose, CrpcCloseConn, wireVars
<1> QED
    BY <1>1 DEF HolderInv, sessionVars

\* The receiver takes one available slot, and hands it to a worker.
LEMMA ReceiverHolderStep ==
    ASSUME WireTypes, SessionTypes, HolderInv, ReceiverNext PROVE HolderInv'
<1> USE DEF wireVars
<1>1. CASE RecvCall
    <2>1. UNCHANGED <<open, s, sending, sLock, sender>> /\ receiver = "reading"
        BY <1>1 DEF RecvCall
    <2>2. CASE UNCHANGED <<slots, receiver, request>>
        BY <2>1, <2>2 DEF HolderInv
    <2>3. ASSUME NEW i \in Avail, slots' = [slots EXCEPT ![i] = "reading"],
                 request'.slot = i, receiver' = "payload"
          PROVE  HolderInv'
        <3>1. i \in Slots /\ slots[i] = "avail" /\ i \notin sending /\ sender # "done"
            BY <2>1 DEF HolderInv, Avail
        <3>2. \A j \in Slots : slots'[j] = IF j = i THEN "reading" ELSE slots[j]
            BY <2>3 DEF SessionTypes
        <3> QED
            BY <2>1, <2>3, <3>1, <3>2 DEF HolderInv, SessionTypes
    <2> QED
        BY <1>1, <2>2, <2>3 DEF RecvCall
<1>2. CASE RecvPayloadFails
    <2>1. request.slot \in Slots /\ slots[request.slot] = "reading" /\ receiver = "payload"
            /\ receiver' = "ending" /\ ~open
        BY <1>2 DEF RecvPayloadFails, HolderInv
    <2>2. \A j \in Slots : slots'[j] = IF j = request.slot THEN "avail" ELSE slots[j]
        BY <1>2 DEF RecvPayloadFails, SessionTypes
    <2>3. UNCHANGED <<open, s, sending, sLock, sender>>
        BY <1>2 DEF RecvPayloadFails
    <2> QED
        BY <2>1, <2>2, <2>3 DEF HolderInv, SessionTypes
<1>3. CASE RecvAdmit /\ s.Drained
    <2>1. s'.Closed = s.Closed /\ sLock = "free" /\ sLock' = "receiver"
            /\ receiver = "payload" /\ receiver' = "unlinking"
            /\ UNCHANGED <<open, slots, request, sender, sending>>
        BY <1>3 DEF RecvAdmit, SessionTypes, SessionFields
    <2> QED
        BY <2>1 DEF HolderInv
<1>4. CASE RecvUnlink \/ (RecvAdmit /\ ~s.Drained)
    <2> DEFINE i == request.slot
    <2>1. receiver \in {"payload", "unlinking"} /\ open' = open
            /\ (sLock = "free" \/ sLock = "receiver") /\ sLock' = "free"
        BY <1>4 DEF RecvUnlink, RecvAdmit, HolderInv
    <2>2. i \in Slots /\ slots[i] = "reading" /\ i \notin sending
        BY <2>1 DEF HolderInv
    <2>3. s'.Closed = s.Closed /\ receiver' = "reading" /\ sending' = sending
        BY <1>4, <2>2, Admitted
    <2>4. PICK outcome \in {"refused", "working"} : slots' = [slots EXCEPT ![i] = outcome]
        BY <1>4, <2>2, Admitted
    <2>5. \A j \in Slots : slots'[j] = IF j = i THEN outcome ELSE slots[j]
        BY <2>4 DEF SessionTypes
    <2>6. sender' = sender \/ (sender = "asleep" /\ sender' = "loop")
            \/ (sender = "closeAsleep" /\ sender' = "close")
        BY <1>4, <2>2, Admitted, SignalTypes
    <2> HIDE DEF i
    <2>7. sender \notin {"done", "unlinking", "linking", "unlinkingToClose"}
        BY <2>1, <2>2 DEF HolderInv
    <2> QED
        BY <2>1, <2>2, <2>3, <2>5, <2>6, <2>7 DEF HolderInv, SessionTypes
<1>5. CASE RecvCredit
    <2>1. s'.Closed = s.Closed /\ UNCHANGED <<slots, sending, receiver, request, sLock, open>>
        BY <1>5, CreditUpdated
    <2>2. sender' = sender \/ (sender = "asleep" /\ sender' = "loop")
            \/ (sender = "closeAsleep" /\ sender' = "close")
        BY <1>5, CreditUpdated, SignalTypes
    <2> QED
        BY <2>1, <2>2 DEF HolderInv
<1>6. CASE RecvEOF \/ RecvDone \/ (RecvClose /\ receiver' # "waiting")
    BY <1>6 DEF RecvEOF, RecvDone, RecvClose, CloseSession, HolderInv
<1>7. CASE RecvUnlinkClose \/ (RecvClose /\ receiver' = "waiting")
    <2>1. s'.Closed /\ receiver' = "waiting" /\ UNCHANGED <<slots, sending, request>>
        BY <1>7, ClosedBooks
    <2>2. sender' = sender \/ (sender = "asleep" /\ sender' = "loop")
            \/ (sender = "closeAsleep" /\ sender' = "close")
        BY <1>7, ClosedBooks, SignalTypes
    <2>3. sLock \in {"free", "receiver"} /\ sLock' = "free" /\ open' = open /\ ~open
        BY <1>7 DEF RecvUnlinkClose, RecvClose, CloseSession, HolderInv
    <2>4. sender \notin {"unlinking", "linking", "unlinkingToClose"}
        BY <2>3 DEF HolderInv
    <2> QED
        BY <2>1, <2>2, <2>3, <2>4 DEF HolderInv
<1> QED
    BY <1>1, <1>2, <1>3, <1>4, <1>5, <1>6, <1>7 DEF ReceiverNext

\* The sender takes completed slots, and puts back those it has answered.
LEMMA SenderHolderStep ==
    ASSUME WireTypes, SessionTypes, HolderInv, SenderNext PROVE HolderInv'
<1> USE DEF wireVars
<1>1. CASE SenderSleeps \/ SenderChecksDrained \/ SenderDrains
           \/ (SenderPass /\ (s.Closed \/ (s.WakeUp /\ s.Drained)))
    <2>1. CASE SenderSleeps
        BY <2>1 DEF SenderSleeps, HolderInv
    <2>2. CASE SenderChecksDrained
        BY <2>2 DEF SenderChecksDrained, HolderInv
    <2>3. CASE SenderDrains
        BY <2>3 DEF SenderDrains, HolderInv
    <2>4. CASE SenderPass /\ (s.Closed \/ (s.WakeUp /\ s.Drained))
        BY <2>4 DEF SenderPass, HolderInv
    <2> QED
        BY <1>1, <2>1, <2>2, <2>3, <2>4
<1>2. CASE SenderUnlink \/ (SenderPass /\ ~s.Closed /\ ~(s.WakeUp /\ s.Drained))
    <2>1. s'.Closed = s.Closed /\ sending' = Completed /\ sender' \in {"ecredit", "respond"}
            /\ UNCHANGED <<slots, receiver, request>>
        BY <1>2, TakenBooks
    <2>2. open' = open /\ sender # "respond" /\ sending = {}
            /\ sLock \in {"free", "sender"} /\ sLock' = "free"
        BY <1>2 DEF SenderUnlink, SenderPass, HolderInv
    <2>3. sender' = "ecredit" => sending' = {}
        <3>1. Completed \subseteq Slots
            BY DEF Completed
        <3>2. Cardinality(Completed) = 0 => Completed = {}
            BY <3>1, SessionAssumption, FS_Subset, FS_EmptySet
        <3> QED
            BY <1>2, <2>1, <3>2, TakenBooks
    <2>4. \A i \in sending' : slots[i] \in {"served", "refused"}
        BY <2>1 DEF Completed
    <2>5. \A i \in Slots : slots[i] # "sent"
        BY <2>2 DEF HolderInv
    <2>6. receiver \notin {"unlinking", "unlinkingToClose"}
        BY <2>2 DEF HolderInv
    <2> QED
        BY <2>1, <2>2, <2>3, <2>4, <2>5, <2>6 DEF HolderInv
<1>3. CASE spccSendECredit
    BY <1>3 DEF spccSendECredit, HolderInv
<1>4. CASE SendResponse
    <2>1. PICK i \in sending : slots' = [slots EXCEPT ![i] = "sent"]
        BY <1>4, Zenon DEF SendResponse
    <2>2. \A j \in Slots : slots'[j] = IF j = i THEN "sent" ELSE slots[j]
        BY <2>1 DEF SessionTypes
    <2>3. \A j \in Slots : slots[j] # "sent"
        BY <1>4 DEF SendResponse, HolderInv
    <2>4. UNCHANGED <<open, s, sending, sLock, receiver, request, sender>> /\ sender = "respond"
        BY <1>4 DEF SendResponse
    <2>5. i \in Slots /\ slots[i] \in {"served", "refused"}
        BY <2>3 DEF HolderInv, SessionTypes
    <2> QED
        BY <2>2, <2>3, <2>4, <2>5 DEF HolderInv, SessionTypes
<1>5. CASE PutSlot
    <2>1. PICK i \in sending : /\ slots[i] = "sent"
                               /\ slots' = [slots EXCEPT ![i] = "avail"]
                               /\ sending' = sending \ {i}
        BY <1>5, Zenon DEF PutSlot
    <2>2. \A j \in Slots : slots'[j] = IF j = i THEN "avail" ELSE slots[j]
        BY <2>1 DEF SessionTypes
    <2>3. UNCHANGED <<open, s, sLock, receiver, request, sender>> /\ sender = "respond"
        BY <1>5 DEF PutSlot
    <2> QED
        BY <2>1, <2>2, <2>3 DEF HolderInv, SessionTypes
<1>6. CASE SenderLinks
    <2> DEFINE l == IF s.Demand > 0 THEN "H" ELSE "L"
    <2>1. s' = Linked(s, l) /\ l \in {"H", "L"} /\ s \in SessionFields
        BY <1>6 DEF SenderLinks, SessionTypes
    <2> HIDE DEF l
    <2>2. s'.Closed = s.Closed
        BY <2>1, LinkTypes
    <2> QED
        BY <1>6, <2>2 DEF SenderLinks, HolderInv
<1>7. CASE SenderCloses
    <2>1. CASE slots' = slots
        BY <1>7, <2>1 DEF SenderCloses, HolderInv
    <2>2. CASE slots' # slots
        <3>1. s.Closed /\ slots' = [i \in Slots |-> "avail"] /\ sender' = "done" /\ sLock' = sLock
                /\ sender = "close" /\ sLock = "free"
                /\ UNCHANGED <<open, s, sending, receiver, request>>
            BY <1>7, <2>2 DEF SenderCloses
        <3> QED
            BY <3>1 DEF HolderInv
    <2> QED
        BY <2>1, <2>2
<1>8. CASE SenderUnlinkClose
    <2>1. s'.Closed = s.Closed
        BY <1>8, UnlinkTypes DEF SenderUnlinkClose
    <2>2. slots' = [i \in Slots |-> "avail"] /\ sender' = "done" /\ sLock = "sender"
            /\ sLock' = "free" /\ s.Closed
            /\ UNCHANGED <<open, sending, receiver, request>> /\ sending = {}
        BY <1>8 DEF SenderUnlinkClose, HolderInv
    <2> QED
        BY <2>1, <2>2 DEF HolderInv
<1> QED
    BY <1>1, <1>2, <1>3, <1>4, <1>5, <1>6, <1>7, <1>8 DEF SenderNext

\* A worker holds its slot until it has completed it.
LEMMA WorkerHolderStep ==
    ASSUME SessionTypes, HolderInv, NEW i \in Slots, spccWorker(i) PROVE HolderInv'
<1>1. PICK outcome \in {"served", "refused"} : slots' = [slots EXCEPT ![i] = outcome]
    BY Zenon DEF spccWorker
<1>2. \A j \in Slots : slots'[j] = IF j = i THEN outcome ELSE slots[j]
    BY <1>1 DEF SessionTypes
<1>3. UNCHANGED <<open, s, sending, sLock, receiver, request>> /\ slots[i] = "working"
    BY DEF spccWorker, wireVars
<1>4. sender' = sender \/ (sender = "asleep" /\ sender' = "loop")
        \/ (sender = "closeAsleep" /\ sender' = "close")
    BY SignalTypes DEF spccWorker
<1> QED
    BY <1>2, <1>3, <1>4 DEF HolderInv, SessionTypes

\* A wake-up changes nothing of this.
LEMMA WakerHolderStep ==
    ASSUME SessionTypes, HolderInv, WakerNext PROVE HolderInv'
<1>1. s'.Closed = s.Closed
    BY Zenon DEF WakerNext, ChooseDrainedHLocks, ChooseDrainedHDemotes, ChooseDrainedLPops,
           ChooseDrainedLClears, WakeUpSession, WakeUpCounts, SessionTypes, SessionFields
<1>2. UNCHANGED <<open, slots, sending, sLock, receiver, request>>
    BY DEF WakerNext, ChooseDrainedHLocks, ChooseDrainedHDemotes, ChooseDrainedLPops,
           ChooseDrainedLClears, WakeUpSession, WakeUpCounts, wireVars
<1>3. sender' = sender \/ (sender = "asleep" /\ sender' = "loop")
        \/ (sender = "closeAsleep" /\ sender' = "close")
    <2>1. sender' = sender \/ Signal
        BY DEF WakerNext, ChooseDrainedHLocks, ChooseDrainedHDemotes, ChooseDrainedLPops,
               ChooseDrainedLClears, WakeUpSession, WakeUpCounts
    <2> QED
        BY <2>1, SignalTypes
<1> QED
    BY <1>1, <1>2, <1>3 DEF HolderInv
\* Every step keeps the types, and what is held.
LEMMA HolderStep == TypeInv /\ HolderInv /\ [Next]_vars => TypeInv' /\ HolderInv'
<1> SUFFICES ASSUME TypeInv, HolderInv, [Next]_vars PROVE TypeInv' /\ HolderInv'
    OBVIOUS
<1> USE DEF TypeInv
<1>1. CASE ClientNext /\ UNCHANGED sessionVars
    <2>1. SessionTypes'
        BY <1>1 DEF SessionTypes, sessionVars
    <2> QED
        BY <1>1, <2>1, ClientTypeStep, ClientHolderStep
<1>2. CASE SessionNext /\ UNCHANGED clientVars
    <2>1. ClientTypes'
        BY <1>2 DEF ClientTypes, clientVars
    <2>2. CASE ReceiverNext
        <3>1. receiver \in {"payload", "unlinking"} => request.slot \in Slots
            BY DEF HolderInv
        <3> QED
            BY <2>1, <2>2, <3>1, ReceiverTypeStep, ReceiverHolderStep
    <2>3. CASE SenderNext
        BY <2>1, <2>3, SenderTypeStep, SenderHolderStep
    <2>4. CASE WakerNext
        BY <2>1, <2>4, WakerTypeStep, WakerHolderStep
    <2>5. ASSUME NEW i \in Slots, spccWorker(i) PROVE TypeInv' /\ HolderInv'
        BY <2>1, <2>5, WorkerTypeStep, WorkerHolderStep
    <2> QED
        BY <1>2, <2>2, <2>3, <2>4, <2>5 DEF SessionNext
<1>3. CASE UNCHANGED vars
    <2>1. WireTypes' /\ ClientTypes'
        BY <1>3 DEF vars, wireVars, clientVars, WireTypes, ClientTypes
    <2>2. SessionTypes'
        BY <1>3 DEF vars, sessionVars, SessionTypes
    <2>3. HolderInv'
        BY <1>3 DEF vars, wireVars, sessionVars, HolderInv
    <2> QED
        BY <2>1, <2>2, <2>3
<1> QED
    BY <1>1, <1>2, <1>3 DEF Next
-----------------------------------------------------------------------------
(* The counts of pending requests *)

\* The admitted requests without a response, and those SpccNumPending counts.
Held == {i \in Slots : slots[i] \in {"working", "served", "refused"}}
Counted == {i \in Slots : /\ slots[i] \in {"working", "served", "refused"}
                          /\ s.Closed => i \in sending}

CountInv ==
    /\ share.pending = Cardinality(Counted)
    /\ s.NumPending = IF s.Closed THEN 0 ELSE Cardinality(Held \ sending)

\* The sets are finite, and their sizes numbers within the window.
LEMMA SlotCounts ==
    ASSUME NEW T, T \subseteq Slots
    PROVE  IsFiniteSet(T) /\ Cardinality(T) \in Nat /\ Cardinality(T) <= MaxWindow
BY SessionAssumption, FS_Subset, FS_CardinalityType

\* Both counts start at zero.
LEMMA CountInit == Init => CountInv
<1> SUFFICES ASSUME Init PROVE CountInv
    OBVIOUS
<1>1. Counted = {} /\ Held \ sending = {}
    BY DEF Init, SessionInit, Counted, Held
<1>2. share.pending = 0 /\ s.NumPending = 0
    BY DEF Init, SessionInit
<1> QED
    BY <1>1, <1>2, FS_EmptySet DEF CountInv

\* A step that leaves the sets and the counts alone keeps the counts exact.
LEMMA CountsKept ==
    ASSUME CountInv, Held' = Held, sending' = sending, s'.Closed = s.Closed,
           share'.pending = share.pending, s'.NumPending = s.NumPending
    PROVE  CountInv'
<1>1. Counted = {i \in Held : s.Closed => i \in sending}
    BY DEF Counted, Held
<1>2. Counted' = {i \in Held' : s'.Closed => i \in sending'}
    BY DEF Counted, Held
<1>3. Counted' = Counted
    BY <1>1, <1>2
<1> QED
    BY <1>3 DEF CountInv

\* The receiver adds a request when it admits it, and at the close takes off
\* those that the sender has not taken.
LEMMA ReceiverCountStep ==
    ASSUME WireTypes, SessionTypes, HolderInv, CountInv, ReceiverNext PROVE CountInv'
<1>0. IsFiniteSet(Counted) /\ IsFiniteSet(Held \ sending) /\ IsFiniteSet(Held)
        /\ Cardinality(Counted) \in Nat /\ Cardinality(Held \ sending) \in Nat
        /\ Cardinality(Held) \in Nat
    BY SlotCounts DEF Counted, Held
<1>1. CASE RecvCall
    <2>1. Held' = Held
        BY <1>1 DEF RecvCall, Held, Avail, SessionTypes
    <2> QED
        BY <1>1, <2>1, CountsKept DEF RecvCall
<1>2. CASE RecvPayloadFails
    <2>1. Held' = Held
        BY <1>2 DEF RecvPayloadFails, Held, HolderInv, SessionTypes
    <2> QED
        BY <1>2, <2>1, CountsKept DEF RecvPayloadFails
<1>3. CASE RecvAdmit /\ s.Drained
    <2>1. s'.Closed = s.Closed /\ s'.NumPending = s.NumPending
            /\ UNCHANGED <<slots, sending, share>>
        BY <1>3 DEF RecvAdmit, SessionTypes, SessionFields
    <2>2. Held' = Held
        BY <2>1 DEF Held
    <2> QED
        BY <2>1, <2>2, CountsKept
<1>4. CASE RecvUnlink \/ (RecvAdmit /\ ~s.Drained)
    <2> DEFINE i == request.slot
    <2>1. receiver \in {"payload", "unlinking"}
        BY <1>4 DEF RecvUnlink, RecvAdmit
    <2>2. i \in Slots /\ slots[i] = "reading" /\ i \notin sending /\ ~s.Closed
        BY <2>1 DEF HolderInv
    <2>3. ~s'.Closed /\ sending' = sending /\ s'.NumPending = s.NumPending + 1
            /\ share'.pending = share.pending + 1
        BY <1>4, <2>2, Admitted
    <2>4. PICK outcome \in {"refused", "working"} : slots' = [slots EXCEPT ![i] = outcome]
        BY <1>4, <2>2, Admitted
    <2>5. \A j \in Slots : slots'[j] = IF j = i THEN outcome ELSE slots[j]
        BY <2>4 DEF SessionTypes
    <2> HIDE DEF i
    <2>6. /\ Counted' = Counted \cup {i} /\ i \notin Counted
          /\ Held' \ sending' = (Held \ sending) \cup {i} /\ i \notin Held \ sending
        BY <2>2, <2>3, <2>5 DEF Counted, Held
    <2>7. Cardinality(Counted \cup {i}) = Cardinality(Counted) + 1
            /\ Cardinality((Held \ sending) \cup {i}) = Cardinality(Held \ sending) + 1
        BY <1>0, <2>6, FS_AddElement, Zenon
    <2>8. Cardinality(Counted') = Cardinality(Counted) + 1
            /\ Cardinality(Held' \ sending') = Cardinality(Held \ sending) + 1
        BY <2>6, <2>7
    <2> QED
        BY <2>2, <2>3, <2>8 DEF CountInv
<1>5. CASE RecvCredit
    <2>1. s'.Closed = s.Closed /\ s'.NumPending = s.NumPending /\ share'.pending = share.pending
            /\ UNCHANGED <<slots, sending>>
        BY <1>5, CreditUpdated
    <2>2. Held' = Held
        BY <2>1 DEF Held
    <2> QED
        BY <2>1, <2>2, CountsKept
<1>6. CASE RecvEOF \/ RecvDone \/ (RecvClose /\ receiver' # "waiting")
    <2>1. UNCHANGED <<slots, sending, s, share>>
        BY <1>6 DEF RecvEOF, RecvDone, RecvClose, CloseSession
    <2>2. Held' = Held
        BY <2>1 DEF Held
    <2> QED
        BY <2>1, <2>2, CountsKept
<1>7. CASE RecvUnlinkClose \/ (RecvClose /\ receiver' = "waiting")
    <2>1. s'.NumPending = 0 /\ s'.Closed /\ share'.pending = share.pending - s.NumPending
            /\ UNCHANGED <<slots, sending>>
        BY <1>7, ClosedBooks
    <2>2. ~s.Closed
        BY <1>7 DEF RecvUnlinkClose, RecvClose, HolderInv
    <2>3. Counted = Held /\ Counted' = Held \cap sending
        BY <2>1, <2>2 DEF Counted, Held
    <2>4. Cardinality(Held \ sending) = Cardinality(Held) - Cardinality(Held \cap sending)
        BY <1>0, FS_Difference, Zenon
    <2>5. Cardinality(Held \cap sending) \in Nat
        BY SlotCounts DEF Held
    <2>6. share.pending = Cardinality(Held) /\ s.NumPending = Cardinality(Held \ sending)
        BY <2>2, <2>3 DEF CountInv
    <2>7. share'.pending = Cardinality(Counted')
        BY <1>0, <2>1, <2>3, <2>4, <2>5, <2>6
    <2> QED
        BY <2>1, <2>7 DEF CountInv
<1> QED
    BY <1>1, <1>2, <1>3, <1>4, <1>5, <1>6, <1>7 DEF ReceiverNext

\* The sender takes completed requests off s.NumPending, and each off
\* SpccNumPending with its response.
LEMMA SenderCountStep ==
    ASSUME WireTypes, SessionTypes, HolderInv, CountInv, SenderNext PROVE CountInv'
<1>0. IsFiniteSet(Counted) /\ IsFiniteSet(Held \ sending) /\ IsFiniteSet(Held)
        /\ Cardinality(Counted) \in Nat /\ Cardinality(Held \ sending) \in Nat
        /\ Cardinality(Held) \in Nat
    BY SlotCounts DEF Counted, Held
<1>1. CASE SenderSleeps \/ SenderChecksDrained \/ SenderDrains \/ spccSendECredit
           \/ (SenderPass /\ (s.Closed \/ (s.WakeUp /\ s.Drained)))
    <2>1. UNCHANGED <<slots, sending, s, share>>
        BY <1>1 DEF SenderSleeps, SenderChecksDrained, SenderDrains, SenderPass, spccSendECredit
    <2>2. Held' = Held
        BY <2>1 DEF Held
    <2> QED
        BY <2>1, <2>2, CountsKept
<1>2. CASE SenderUnlink \/ (SenderPass /\ ~s.Closed /\ ~(s.WakeUp /\ s.Drained))
    <2>1. s'.Closed = s.Closed /\ s'.NumPending = s.NumPending - Cardinality(Completed)
            /\ share'.pending = share.pending /\ sending' = Completed /\ slots' = slots
        BY <1>2, TakenBooks
    <2>2. ~s.Closed /\ sending = {}
        BY <1>2 DEF SenderUnlink, SenderPass, HolderInv
    <2>3. Held' = Held /\ Held \ sending = Held /\ Held \cap Completed = Completed
            /\ Counted' = Held /\ Counted = Held
        BY <2>1, <2>2 DEF Held, Completed, Counted
    <2>4. Cardinality(Held \ Completed) = Cardinality(Held) - Cardinality(Completed)
        <3>1. Cardinality(Held \ Completed) = Cardinality(Held) - Cardinality(Held \cap Completed)
            BY <1>0, FS_Difference, Zenon
        <3> QED
            BY <2>3, <3>1
    <2> QED
        BY <2>1, <2>2, <2>3, <2>4 DEF CountInv
<1>3. CASE SendResponse
    <2>1. PICK i \in sending : slots' = [slots EXCEPT ![i] = "sent"]
        BY <1>3, Zenon DEF SendResponse
    <2>2. \A j \in Slots : slots'[j] = IF j = i THEN "sent" ELSE slots[j]
        BY <2>1 DEF SessionTypes
    <2>3. UNCHANGED <<s, sending>> /\ share'.pending = share.pending - 1
        BY <1>3 DEF SendResponse, SessionTypes
    <2>4. i \in Slots /\ slots[i] \in {"served", "refused"}
        BY <1>3 DEF SendResponse, HolderInv, SessionTypes
    <2>5. i \in Counted /\ Counted' = Counted \ {i} /\ Held' \ sending' = Held \ sending
        BY <2>2, <2>3, <2>4 DEF Counted, Held
    <2>6. Cardinality(Counted') = Cardinality(Counted) - 1
        BY <1>0, <2>5, FS_RemoveElement, Zenon
    <2> QED
        BY <2>3, <2>5, <2>6 DEF CountInv
<1>4. CASE PutSlot
    <2>1. PICK i \in sending : /\ slots[i] = "sent"
                               /\ slots' = [slots EXCEPT ![i] = "avail"]
                               /\ sending' = sending \ {i}
        BY <1>4, Zenon DEF PutSlot
    <2>2. \A j \in Slots : slots'[j] = IF j = i THEN "avail" ELSE slots[j]
        BY <2>1 DEF SessionTypes
    <2>3. UNCHANGED <<s, share>>
        BY <1>4 DEF PutSlot
    <2>4. Counted' = Counted /\ Held' \ sending' = Held \ sending
        BY <2>1, <2>2, <2>3 DEF Counted, Held
    <2> QED
        BY <2>3, <2>4 DEF CountInv
<1>5. CASE SenderLinks
    <2> DEFINE l == IF s.Demand > 0 THEN "H" ELSE "L"
    <2>1. s' = Linked(s, l) /\ l \in {"H", "L"} /\ s \in SessionFields
            /\ share' = LinkedShare(share) /\ UNCHANGED <<slots, sending>>
        BY <1>5 DEF SenderLinks, SessionTypes
    <2> HIDE DEF l
    <2>2. s'.Closed = s.Closed /\ s'.NumPending = s.NumPending /\ share'.pending = share.pending
        BY <2>1, LinkTypes
    <2>3. Held' = Held
        BY <2>1 DEF Held
    <2> QED
        BY <2>1, <2>2, <2>3, CountsKept
<1>6. CASE SenderCloses /\ slots' = slots
    <2>1. Held' = Held /\ UNCHANGED <<s, share, sending>>
        BY <1>6 DEF SenderCloses, Held
    <2> QED
        BY <2>1, CountsKept
<1>7. CASE SenderUnlinkClose \/ (SenderCloses /\ slots' # slots)
    <2>1. s'.Closed = s.Closed /\ s'.NumPending = s.NumPending /\ share'.pending = share.pending
        BY <1>7, UnlinkTypes DEF SenderUnlinkClose, SenderCloses
    <2>2. s.Closed /\ sending = {} /\ sending' = {}
        BY <1>7 DEF SenderUnlinkClose, SenderCloses, HolderInv
    <2>3. Counted = {} /\ Counted' = {}
        BY <2>1, <2>2 DEF Counted
    <2> QED
        BY <2>1, <2>2, <2>3 DEF CountInv
<1> QED
    BY <1>1, <1>2, <1>3, <1>4, <1>5, <1>6, <1>7 DEF SenderNext

\* The counts follow the sets in every step.
LEMMA CountStep == TypeInv /\ HolderInv /\ CountInv /\ [Next]_vars => CountInv'
<1> SUFFICES ASSUME TypeInv, HolderInv, CountInv, [Next]_vars PROVE CountInv'
    OBVIOUS
<1> USE DEF TypeInv
<1>1. CASE UNCHANGED sessionVars
    <2>1. Held' = Held /\ UNCHANGED <<s, sending, share>>
        BY <1>1 DEF Held, sessionVars
    <2> QED
        BY <2>1, CountsKept
<1>2. CASE SessionNext
    <2>1. CASE WakerNext
        <3>1. s'.Closed = s.Closed /\ s'.NumPending = s.NumPending
            BY <2>1, Zenon DEF WakerNext, ChooseDrainedHLocks, ChooseDrainedHDemotes,
                   ChooseDrainedLPops, ChooseDrainedLClears, WakeUpSession, WakeUpCounts,
                   SessionTypes, SessionFields
        <3>2. share'.pending = share.pending
            BY <2>1 DEF WakerNext, ChooseDrainedHLocks, ChooseDrainedHDemotes,
                   ChooseDrainedLPops, ChooseDrainedLClears, WakeUpSession, WakeUpCounts,
                   SessionTypes
        <3>3. Held' = Held /\ sending' = sending
            BY <2>1 DEF WakerNext, ChooseDrainedHLocks, ChooseDrainedHDemotes,
                   ChooseDrainedLPops, ChooseDrainedLClears, WakeUpSession, WakeUpCounts, Held
        <3> QED
            BY <3>1, <3>2, <3>3, CountsKept
    <2>2. ASSUME NEW i \in Slots, spccWorker(i) PROVE CountInv'
        <3>1. Held' = Held /\ UNCHANGED <<s, sending, share>>
            BY <2>2 DEF spccWorker, Held, SessionTypes
        <3> QED
            BY <3>1, CountsKept
    <2> QED
        BY <1>2, <2>1, <2>2, ReceiverCountStep, SenderCountStep DEF SessionNext
<1> QED
    BY <1>1, <1>2 DEF Next, vars
-----------------------------------------------------------------------------
(* The credits *)

Credits == 0..(MaxWindow - 1)

CreditInv ==
    /\ s.Credit \in Credits /\ s.Advertised \in Credits
    /\ \A k \in 1..Len(s2c) : s2c[k].credit \in Credits
    /\ cCredit \in Credits
    /\ CreditNotUndercounted

\* Nobody has a credit in the first state.
LEMMA CreditInit == Init => CreditInv
BY WindowAssumption DEF Init, WireInit, CrpcOpen, SessionInit, CreditInv, Credits,
                        CreditNotUndercounted

\* The adjustment to the demand only takes credits back.
LEMMA AdjustedDown ==
    ASSUME NEW c \in Credits, NEW n \in Nat, NEW d \in Nat
    PROVE  AdjustCredit(c, n, d) \in Credits /\ AdjustCredit(c, n, d) <= c
BY WindowAssumption DEF AdjustCredit, MinOf, Credits

\* s.NumPending is never negative.
LEMMA NumPendingNat ==
    ASSUME CountInv PROVE s.NumPending \in Nat /\ s.NumPending <= MaxWindow
<1>1. Held \ sending \subseteq Slots
    BY DEF Held
<1>2. Cardinality(Held \ sending) \in Nat /\ Cardinality(Held \ sending) <= MaxWindow
    BY <1>1, SlotCounts
<1> QED
    BY <1>2, WindowAssumption DEF CountInv

\* The client learns credits from the server's messages.
LEMMA ClientCreditStep ==
    ASSUME WireTypes, CreditInv, ClientNext, UNCHANGED sessionVars PROVE CreditInv'
<1>1. CASE CrpcRecvOne
    <2>1. s2c # <<>> /\ s2c' = Tail(s2c) /\ cCredit' = Head(s2c).credit
        BY <1>1 DEF CrpcRecvOne
    <2>2. s2c \in Seq(Responses) /\ Len(s2c) \in Nat /\ Len(s2c) >= 1
        BY <2>1 DEF WireTypes
    <2>3. cCredit' \in Credits
        BY <2>1, <2>2 DEF CreditInv
    <2>4. \A k \in 1..Len(s2c') : s2c'[k] = s2c[k + 1] /\ k + 1 \in 1..Len(s2c)
        BY <2>1, <2>2
    <2> QED
        BY <2>3, <2>4 DEF CreditInv, CreditNotUndercounted, sessionVars
<1>2. CASE UNCHANGED <<s2c, cCredit>>
    BY <1>2 DEF CreditInv, CreditNotUndercounted, sessionVars
<1>3. CrpcRecvOne \/ UNCHANGED <<s2c, cCredit>>
    BY DEF ClientNext, CrpcSendOne, Expire, cpccTimer, cpccTimerWake, Shutdown, CrpcClose,
           CrpcCloseConn, wireVars, clientVars
<1> QED
    BY <1>1, <1>2, <1>3

\* A session step that changes no credit.
LEMMA CreditsKept ==
    ASSUME CreditInv, s'.Credit = s.Credit, s'.Advertised = s.Advertised,
           s'.Closed = s.Closed, share'.used = share.used, UNCHANGED <<s2c, cCredit, waker>>
    PROVE  CreditInv'
BY DEF CreditInv, CreditNotUndercounted

\* The receiver only takes credits back, and at the close all of them.
LEMMA ReceiverCreditStep ==
    ASSUME WireTypes, SessionTypes, HolderInv, CountInv, CreditInv, ReceiverNext,
           UNCHANGED clientVars
    PROVE  CreditInv'
<1>0. UNCHANGED <<s2c, waker, cCredit>>
    BY Zenon DEF ReceiverNext, RecvCall, RecvPayloadFails, RecvAdmit, RecvUnlink, RecvCredit, RecvEOF,
           RecvClose, RecvUnlinkClose, RecvDone, wireVars, clientVars
<1>1. CASE RecvCall \/ RecvPayloadFails \/ RecvEOF \/ RecvDone
           \/ (RecvClose /\ receiver' # "waiting")
    <2>1. UNCHANGED <<s, share>>
        BY <1>1 DEF RecvCall, RecvPayloadFails, RecvEOF, RecvDone, RecvClose, CloseSession
    <2> QED
        BY <1>0, <2>1, CreditsKept
<1>2. CASE RecvAdmit /\ s.Drained
    <2>1. s'.Closed = s.Closed /\ s'.Credit = s.Credit /\ s'.Advertised = s.Advertised
            /\ share' = share
        BY <1>2 DEF RecvAdmit, SessionTypes, SessionFields
    <2> QED
        BY <1>0, <2>1, CreditsKept
<1>3. CASE RecvUnlink \/ (RecvAdmit /\ ~s.Drained) \/ RecvCredit
    <2>1. /\ s'.Closed = s.Closed /\ s'.Advertised \in {0, s.Advertised}
          /\ share'.used = share.used - (s.Credit - s'.Credit)
          /\ \E n \in Nat, d \in Nat : s'.Credit = AdjustCredit(s.Credit, n, d)
        <3>1. s.NumPending \in Nat /\ s.NumPending + 1 \in Nat
            BY NumPendingNat
        <3>2. CASE RecvCredit
            BY <3>1, <3>2, CreditUpdated
        <3>3. CASE RecvUnlink \/ (RecvAdmit /\ ~s.Drained)
            <4>1. request.slot \in Slots
                BY <3>3 DEF RecvUnlink, RecvAdmit, HolderInv
            <4> QED
                BY <3>1, <3>3, <4>1, Admitted
        <3> QED
            BY <1>3, <3>2, <3>3
    <2>2. s'.Credit \in Credits /\ s'.Credit <= s.Credit
        BY <2>1, AdjustedDown DEF CreditInv
    <2>3. s'.Advertised \in Credits
        BY <2>1, WindowAssumption DEF CreditInv, Credits
    <2>4. CreditNotUndercounted'
        <3>1. share.used \in Int
            BY DEF SessionTypes
        <3>2. ~s.Closed
            BY <1>3 DEF RecvUnlink, RecvAdmit, RecvCredit, HolderInv
        <3> QED
            BY <1>0, <2>1, <2>2, <3>1, <3>2 DEF CreditInv, CreditNotUndercounted, Credits
    <2> QED
        BY <1>0, <2>2, <2>3, <2>4 DEF CreditInv
<1>4. CASE RecvUnlinkClose \/ (RecvClose /\ receiver' = "waiting")
    <2>1. s'.Closed /\ s'.Credit = s.Credit /\ s'.Advertised = s.Advertised
            /\ share'.used = share.used - s.Credit
        BY <1>4, ClosedBooks
    <2>2. ~s.Closed
        BY <1>4 DEF RecvUnlinkClose, RecvClose, HolderInv
    <2>3. CreditNotUndercounted'
        <3>1. share.used \in Int
            BY DEF SessionTypes
        <3> QED
            BY <1>0, <2>1, <2>2, <3>1 DEF CreditInv, CreditNotUndercounted, Credits
    <2> QED
        BY <1>0, <2>1, <2>3 DEF CreditInv
<1> QED
    BY <1>1, <1>2, <1>3, <1>4 DEF ReceiverNext

\* A message carries the session's credit.
LEMMA CreditSent ==
    ASSUME WireTypes, CreditInv, NEW m \in Responses, m.credit = s.Credit,
           s2c' = Append(s2c, m)
    PROVE  \A k \in 1..Len(s2c') : s2c'[k].credit \in Credits
<1>1. s2c \in Seq(Responses)
    BY DEF WireTypes
<1>2. \A k \in 1..Len(s2c') : s2c'[k] = m \/ (k \in 1..Len(s2c) /\ s2c'[k] = s2c[k])
    BY <1>1
<1> QED
    BY <1>2 DEF CreditInv

\* The sender gives the credit that spccUpdateCredit computes.
LEMMA SenderCreditStep ==
    ASSUME WireTypes, SessionTypes, HolderInv, CountInv, CountInv', CreditInv, SenderNext,
           UNCHANGED clientVars
    PROVE  CreditInv'
<1>0. UNCHANGED <<waker, cCredit>>
    BY Zenon DEF SenderNext, SenderSleeps, SenderPass, SenderUnlink, spccSendECredit, SendResponse,
           PutSlot, SenderChecksDrained, SenderDrains, SenderLinks, SenderCloses,
           SenderUnlinkClose, clientVars
<1>1. CASE SenderSleeps \/ SenderChecksDrained \/ SenderDrains \/ PutSlot \/ SenderCloses
           \/ (SenderPass /\ (s.Closed \/ (s.WakeUp /\ s.Drained)))
    <2>1. UNCHANGED <<s2c, s, share>>
        BY <1>1 DEF SenderSleeps, SenderChecksDrained, SenderDrains, PutSlot, SenderCloses,
                    SenderPass, wireVars
    <2> QED
        BY <1>0, <2>1, CreditsKept
<1>2. CASE SenderUnlink \/ (SenderPass /\ ~s.Closed /\ ~(s.WakeUp /\ s.Drained))
    <2>1. /\ s'.Closed = s.Closed
          /\ \/ s'.Credit = s.Credit
             \/ s'.Credit <= MaxWindow - 1 /\ (s'.NumPending >= 0 => s'.Credit >= 0)
          /\ s'.Advertised \in {s'.Credit, s.Advertised}
          /\ share'.used = share.used + (s'.Credit - s.Credit)
          /\ SessionTypes'
        BY <1>2, TakenBooks
    <2>2. s'.NumPending >= 0 /\ s'.Credit \in Int
        <3>1. s'.NumPending \in Nat
            <4>1. Held' \ sending' \subseteq Slots
                BY DEF Held
            <4> QED
                BY <4>1, SlotCounts DEF CountInv
        <3> QED
            BY <2>1, <3>1 DEF SessionTypes, SessionFields
    <2>3. s'.Credit \in Credits /\ s'.Advertised \in Credits
        BY <2>1, <2>2, WindowAssumption DEF CreditInv, Credits
    <2>4. ~s.Closed /\ s2c' = s2c
        BY <1>2 DEF SenderUnlink, SenderPass, HolderInv, wireVars
    <2>5. CreditNotUndercounted'
        <3>1. share.used \in Int
            BY DEF SessionTypes
        <3> QED
            BY <1>0, <2>1, <2>2, <2>4, <3>1 DEF CreditInv, CreditNotUndercounted, Credits
    <2> QED
        BY <1>0, <2>3, <2>4, <2>5 DEF CreditInv
<1>3. CASE spccSendECredit \/ SendResponse
    <2>1. s' = s /\ share'.used = share.used
        BY <1>3 DEF spccSendECredit, SendResponse, SessionTypes
    <2>2. \A k \in 1..Len(s2c') : s2c'[k].credit \in Credits
        <3>1. \/ s2c' = Append(s2c, ECredit(s.Credit)) \/ s2c' = Append(s2c, Response(s.Credit))
              \/ s2c' = s2c
            BY <1>3 DEF spccSendECredit, SendResponse
        <3>2. /\ ECredit(s.Credit) \in Responses /\ ECredit(s.Credit).credit = s.Credit
              /\ Response(s.Credit) \in Responses /\ Response(s.Credit).credit = s.Credit
            BY DEF ECredit, Response, Responses, SessionTypes, SessionFields
        <3> QED
            BY <3>1, <3>2, CreditSent DEF CreditInv
    <2> QED
        BY <1>0, <2>1, <2>2 DEF CreditInv, CreditNotUndercounted
<1>4. CASE SenderLinks
    <2> DEFINE l == IF s.Demand > 0 THEN "H" ELSE "L"
    <2>1. s' = Linked(s, l) /\ l \in {"H", "L"} /\ s \in SessionFields
            /\ share' = LinkedShare(share) /\ s2c' = s2c
        BY <1>4 DEF SenderLinks, SessionTypes, wireVars
    <2> HIDE DEF l
    <2> QED
        BY <1>0, <2>1, LinkTypes, CreditsKept
<1>5. CASE SenderUnlinkClose
    BY <1>0, <1>5, UnlinkTypes, CreditsKept DEF SenderUnlinkClose, wireVars
<1> QED
    BY <1>1, <1>2, <1>3, <1>4, <1>5 DEF SenderNext

\* A wake-up gives one credit, and counts it a step later.
LEMMA WakerCreditStep ==
    ASSUME SessionTypes, CreditInv, WakerNext, UNCHANGED clientVars PROVE CreditInv'
<1>0. UNCHANGED <<s2c, cCredit>> /\ share.used \in Int
    BY DEF WakerNext, ChooseDrainedHLocks, ChooseDrainedHDemotes, ChooseDrainedLPops,
           ChooseDrainedLClears, WakeUpSession, WakeUpCounts, wireVars, clientVars, SessionTypes
<1>1. CASE WakeUpSession
    <2>1. s'.Credit = 1 /\ s'.Advertised = s.Advertised /\ s'.Closed = s.Closed
            /\ share' = share /\ waker = "chosen" /\ waker' = "owing"
        BY <1>1 DEF WakeUpSession, SessionTypes, SessionFields
    <2>2. s'.Credit \in Credits
        BY <2>1, WindowAssumption DEF Credits
    <2>3. CreditNotUndercounted'
        BY <1>0, <2>1 DEF CreditInv, CreditNotUndercounted, Credits
    <2> QED
        BY <1>0, <2>1, <2>2, <2>3 DEF CreditInv
<1>2. CASE WakeUpCounts
    <2>1. s' = s /\ share'.used = share.used + 1 /\ waker = "owing" /\ waker' = "idle"
        BY <1>2 DEF WakeUpCounts, SessionTypes
    <2> QED
        BY <1>0, <2>1 DEF CreditInv, CreditNotUndercounted
<1>3. CASE ChooseDrainedHLocks \/ ChooseDrainedHDemotes \/ ChooseDrainedLPops
           \/ ChooseDrainedLClears
    <2>1. s'.Credit = s.Credit /\ s'.Advertised = s.Advertised /\ s'.Closed = s.Closed
        BY <1>3 DEF ChooseDrainedHLocks, ChooseDrainedHDemotes, ChooseDrainedLPops,
                    ChooseDrainedLClears, SessionTypes, SessionFields
    <2>2. share'.used = share.used /\ waker # "owing" /\ waker' # "owing"
        BY <1>3 DEF ChooseDrainedHLocks, ChooseDrainedHDemotes, ChooseDrainedLPops,
                    ChooseDrainedLClears, SessionTypes
    <2> QED
        BY <1>0, <2>1, <2>2 DEF CreditInv, CreditNotUndercounted
<1> QED
    BY <1>1, <1>2, <1>3 DEF WakerNext

\* Every step keeps the credits within the window, and counted.
LEMMA CreditStep ==
    TypeInv /\ HolderInv /\ CountInv /\ CreditInv /\ [Next]_vars => CreditInv'
<1> SUFFICES ASSUME TypeInv, HolderInv, CountInv, CreditInv, [Next]_vars PROVE CreditInv'
    OBVIOUS
<1> USE DEF TypeInv
<1>1. CASE ClientNext /\ UNCHANGED sessionVars
    BY <1>1, ClientCreditStep
<1>2. CASE SessionNext /\ UNCHANGED clientVars
    <2>1. CASE SenderNext
        <3>1. CountInv'
            BY CountStep
        <3> QED
            BY <1>2, <2>1, <3>1, SenderCreditStep
    <2>2. ASSUME NEW i \in Slots, spccWorker(i) PROVE CreditInv'
        <3>1. UNCHANGED <<s, share, waker, s2c, cCredit>>
            BY <1>2, <2>2 DEF spccWorker, wireVars, clientVars
        <3> QED
            BY <3>1, CreditsKept
    <2> QED
        BY <1>2, <2>1, <2>2, ReceiverCreditStep, WakerCreditStep DEF SessionNext
<1>3. CASE UNCHANGED vars
    BY <1>3 DEF vars, wireVars, clientVars, sessionVars, CreditInv, CreditNotUndercounted
<1> QED
    BY <1>1, <1>2, <1>3 DEF Next
-----------------------------------------------------------------------------
(* Counting the calls in a stream *)

\* The calls of a stream are finitely many.
LEMMA CallsFinite ==
    ASSUME NEW S, NEW q \in Seq(S)
    PROVE  /\ CallsIn(q) \subseteq 1..Len(q) /\ IsFiniteSet(CallsIn(q))
           /\ Cardinality(CallsIn(q)) \in Nat
<1>1. CallsIn(q) \subseteq 1..Len(q) /\ Len(q) \in Nat
    BY DEF CallsIn
<1>2. IsFiniteSet(1..Len(q))
    BY <1>1, FS_Interval
<1>3. IsFiniteSet(CallsIn(q))
    BY <1>1, <1>2, FS_Subset
<1> QED
    BY <1>1, <1>3, FS_CardinalityType

\* A message at the end of a stream counts if it is a call.
LEMMA CallsAppend ==
    ASSUME NEW S, NEW q \in Seq(S), NEW m \in S
    PROVE  Cardinality(CallsIn(Append(q, m))) =
               Cardinality(CallsIn(q)) + IF m.op = "call" THEN 1 ELSE 0
<1> DEFINE n == Len(q) + 1
<1>1. Len(q) \in Nat /\ n \notin 1..Len(q)
    OBVIOUS
<1>2. DOMAIN Append(q, m) = 1..n /\ Append(q, m)[n] = m
        /\ \A i \in 1..Len(q) : Append(q, m)[i] = q[i]
    OBVIOUS
<1>3. DOMAIN q = 1..Len(q) /\ 1..n = (1..Len(q)) \cup {n}
    BY <1>1
<1> HIDE DEF n
<1>4. CallsIn(Append(q, m)) = IF m.op = "call" THEN CallsIn(q) \cup {n} ELSE CallsIn(q)
    BY <1>1, <1>2, <1>3 DEF CallsIn
<1>5. n \notin CallsIn(q) /\ IsFiniteSet(CallsIn(q)) /\ Cardinality(CallsIn(q)) \in Nat
    BY <1>1, CallsFinite
<1>6. Cardinality(CallsIn(q) \cup {n}) = Cardinality(CallsIn(q)) + 1
    BY <1>5, FS_AddElement, Zenon
<1> QED
    BY <1>4, <1>5, <1>6

\* The message at the head of a stream counted if it was a call.
LEMMA CallsTail ==
    ASSUME NEW S, NEW q \in Seq(S), q # <<>>
    PROVE  Cardinality(CallsIn(Tail(q))) =
               Cardinality(CallsIn(q)) - IF Head(q).op = "call" THEN 1 ELSE 0
<1> DEFINE A == CallsIn(Tail(q))
           B == CallsIn(q) \ {1}
           f == [i \in A |-> i + 1]
<1>1. Tail(q) \in Seq(S) /\ Len(Tail(q)) = Len(q) - 1 /\ Len(q) \in Nat \ {0}
        /\ Head(q) = q[1]
    OBVIOUS
<1>2. \A i \in 1..Len(Tail(q)) : Tail(q)[i] = q[i + 1]
    BY <1>1
<1>3. DOMAIN Tail(q) = 1..Len(Tail(q)) /\ DOMAIN q = 1..Len(q)
    BY <1>1
<1>4. A = {i \in 1..(Len(q) - 1) : q[i + 1].op = "call"}
    BY <1>1, <1>2, <1>3 DEF CallsIn
<1>5. B = {i \in 2..Len(q) : q[i].op = "call"}
    BY <1>1, <1>3 DEF CallsIn
<1>6. f \in [A -> B]
    BY <1>1, <1>4, <1>5
<1>7. \A i, j \in A : f[i] = f[j] => i = j
    BY <1>4
<1>8. \A k \in B : \E i \in A : f[i] = k
    <2> SUFFICES ASSUME NEW k \in B PROVE \E i \in A : f[i] = k
        OBVIOUS
    <2>1. k - 1 \in A /\ k - 1 + 1 = k
        BY <1>1, <1>4, <1>5
    <2> QED
        BY <2>1
<1>9. IsFiniteSet(A) /\ IsFiniteSet(CallsIn(q)) /\ Cardinality(CallsIn(q)) \in Nat
    BY <1>1, CallsFinite, Zenon
<1>10. (1 \in CallsIn(q)) = (Head(q).op = "call")
    BY <1>1, <1>3 DEF CallsIn
<1>11. Cardinality(B) = Cardinality(CallsIn(q)) - IF 1 \in CallsIn(q) THEN 1 ELSE 0
    <2>1. Cardinality(CallsIn(q) \ {1}) =
             IF 1 \in CallsIn(q) THEN Cardinality(CallsIn(q)) - 1 ELSE Cardinality(CallsIn(q))
        BY <1>9, FS_RemoveElement, Zenon
    <2> QED
        BY <1>9, <2>1
<1>12. Cardinality(A) = Cardinality(B)
    <2> HIDE DEF A, B, f
    <2>1. f \in Bijection(A, B)
        BY <1>6, <1>7, <1>8 DEF Bijection, Injection, Surjection, IsInjective
    <2>2. ExistsBijection(A, B)
        BY <2>1 DEF ExistsBijection
    <2> QED
        BY <1>9, <2>2, FS_Bijection
<1> QED
    BY <1>10, <1>11, <1>12

\* So do the calls appended together.
LEMMA CallsConcat ==
    ASSUME NEW S, NEW q \in Seq(S), NEW f \in Seq({r \in S : r.op = "call"})
    PROVE  Cardinality(CallsIn(q \o f)) = Cardinality(CallsIn(q)) + Len(f)
<1> DEFINE new == (Len(q) + 1)..(Len(q) + Len(f))
<1>1. Len(q) \in Nat /\ Len(f) \in Nat /\ \A i \in 1..Len(f) : f[i].op = "call"
    OBVIOUS
<1>2. Len(q \o f) = Len(q) + Len(f) /\ DOMAIN (q \o f) = 1..(Len(q) + Len(f))
        /\ DOMAIN q = 1..Len(q)
    <2>1. f \in Seq(S)
        OBVIOUS
    <2> QED
        BY <2>1
<1>3. \A i \in 1..(Len(q) + Len(f)) :
         (q \o f)[i] = IF i <= Len(q) THEN q[i] ELSE f[i - Len(q)]
    <2>1. f \in Seq(S)
        OBVIOUS
    <2> QED
        BY <2>1
<1>4. \A i \in new : (q \o f)[i].op = "call"
    <2> SUFFICES ASSUME NEW i \in new PROVE (q \o f)[i].op = "call"
        OBVIOUS
    <2>1. i - Len(q) \in 1..Len(f) /\ i \in 1..(Len(q) + Len(f)) /\ ~(i <= Len(q))
        BY <1>1
    <2> QED
        BY <1>1, <1>3, <2>1
<1>5. CallsIn(q \o f) = CallsIn(q) \cup new
    <2>1. CallsIn(q \o f) = {i \in 1..(Len(q) + Len(f)) : (q \o f)[i].op = "call"}
        BY <1>2 DEF CallsIn
    <2>2. CallsIn(q) = {i \in 1..Len(q) : q[i].op = "call"}
        BY <1>2 DEF CallsIn
    <2>3. 1..(Len(q) + Len(f)) = (1..Len(q)) \cup new
        BY <1>1
    <2>4. \A i \in 1..Len(q) : (q \o f)[i] = q[i]
        BY <1>1, <1>3
    <2> HIDE DEF new
    <2> QED
        BY <1>4, <2>1, <2>2, <2>3, <2>4
<1>6. CallsIn(q) \subseteq 1..Len(q) /\ IsFiniteSet(CallsIn(q))
        /\ Cardinality(CallsIn(q)) \in Nat
    BY CallsFinite
<1>7. IsFiniteSet(new) /\ Cardinality(new) = Len(f)
    <2> DEFINE lo == Len(q) + 1
               hi == Len(q) + Len(f)
    <2>1. lo \in Int /\ hi \in Int /\ new = lo..hi
        BY <1>1
    <2>2. hi - lo + 1 = Len(f) /\ (lo > hi => Len(f) = 0)
        BY <1>1
    <2> HIDE DEF new, lo, hi
    <2>3. IsFiniteSet(lo..hi) /\ Cardinality(lo..hi) = IF lo > hi THEN 0 ELSE hi - lo + 1
        BY <2>1, FS_Interval
    <2> QED
        BY <2>1, <2>2, <2>3
<1>8. CallsIn(q) \cap new = {}
    BY <1>1, <1>6
<1> HIDE DEF new
<1>9. Cardinality(CallsIn(q) \cup new) =
         Cardinality(CallsIn(q)) + Cardinality(new) - Cardinality(CallsIn(q) \cap new)
    BY <1>6, <1>7, FS_Union
<1>10. Cardinality(CallsIn(q) \cap new) = 0
    BY <1>8, FS_EmptySet, Zenon
<1>11. \A m, n \in Nat : m + n - 0 = m + n
    OBVIOUS
<1> QED
    BY <1>1, <1>5, <1>6, <1>7, <1>9, <1>10, <1>11, Zenon
-----------------------------------------------------------------------------
(* The credits the client uses *)

Calls == Cardinality(CallsIn(c2s))
Answers == Cardinality(CallsIn(s2c))
Waiting == Cardinality(Unanswered)

UsedInv ==
    /\ cCreditUsed \in Credits
    /\ Calls + Waiting <= MaxWindow - 1
    /\ open => cCreditUsed = Calls + Waiting + Answers

\* All three are numbers.
LEMMA CountTypes ==
    ASSUME WireTypes
    PROVE  Calls \in Nat /\ Answers \in Nat /\ Waiting \in Nat /\ IsFiniteSet(Unanswered)
<1>1. Calls \in Nat /\ Answers \in Nat
    BY CallsFinite DEF WireTypes, Calls, Answers
<1>2. Unanswered \subseteq Slots
    BY DEF Unanswered
<1> QED
    BY <1>1, <1>2, SlotCounts DEF Waiting

\* No credit is used in the first state.
LEMMA UsedInit == Init => UsedInv
<1> SUFFICES ASSUME Init PROVE UsedInv
    OBVIOUS
<1>1. CallsIn(c2s) = {} /\ CallsIn(s2c) = {}
    BY DEF Init, WireInit, CallsIn
<1>2. Unanswered = {}
    BY DEF Init, SessionInit, Unanswered
<1>3. Calls = 0 /\ Answers = 0 /\ Waiting = 0
    BY <1>1, <1>2, FS_EmptySet DEF Calls, Answers, Waiting
<1>4. cCreditUsed = 0
    BY DEF Init, CrpcOpen
<1> QED
    BY <1>3, <1>4, WindowAssumption DEF UsedInv, Credits

\* There is a slot for every call: at most one slot is answered and not put
\* back, and the others that are in use, with the calls, are within the window.
LEMMA SlotFree ==
    ASSUME WireTypes, SessionTypes, HolderInv, UsedInv, CallsIn(c2s) # {}
    PROVE  Avail # {}
<1> DEFINE sent == {i \in Slots : slots[i] = "sent"}
<1>1. SUFFICES ASSUME Avail = {} PROVE FALSE
    OBVIOUS
<1>2. Slots = Unanswered \cup sent /\ Unanswered \cap sent = {}
    BY <1>1 DEF Avail, Unanswered
<1>3. IsFiniteSet(sent) /\ Cardinality(sent) \in Nat
    BY SlotCounts
<1>4. Cardinality(sent) <= 1
    <2>1. CASE sent = {}
        BY <2>1, FS_EmptySet
    <2>2. CASE sent # {}
        <3>1. PICK i \in sent : TRUE
            BY <2>2
        <3>2. sent = {i}
            BY <3>1 DEF HolderInv
        <3>3. Cardinality({i}) = 1
            BY FS_Singleton
        <3> QED
            BY <3>2, <3>3
    <2> QED
        BY <2>1, <2>2
<1> HIDE DEF sent
<1>5. Waiting \in Nat /\ Calls \in Nat /\ IsFiniteSet(Unanswered)
    BY CountTypes
<1>6. Cardinality(Slots) = Waiting + Cardinality(sent)
    <2>1. Cardinality(Unanswered \cup sent) =
             Cardinality(Unanswered) + Cardinality(sent) - Cardinality(Unanswered \cap sent)
        BY <1>3, <1>5, FS_Union
    <2>2. Cardinality(Unanswered \cap sent) = 0
        BY <1>2, FS_EmptySet
    <2> QED
        BY <1>2, <1>3, <1>5, <2>1, <2>2 DEF Waiting
<1>7. Calls # 0
    <2>1. IsFiniteSet(CallsIn(c2s))
        BY CallsFinite DEF WireTypes
    <2> QED
        BY <2>1, FS_EmptySet DEF Calls
<1> QED
    BY <1>3, <1>4, <1>5, <1>6, <1>7, SessionAssumption, WindowAssumption DEF UsedInv

\* cpccDrainQueue uses a credit for each call it sends.
LEMMA DrainUses ==
    ASSUME NEW q \in Demands, NEW e \in 0..q, NEW waiting \in BOOLEAN,
           NEW credit \in Credits, NEW used \in Int, NEW wire \in Seq(Requests),
           cpccDrainQueue(q, e, waiting, credit, used, wire)
    PROVE  /\ cCreditUsed' \in Int /\ used <= cCreditUsed'
           /\ Calls' = Cardinality(CallsIn(wire)) + (cCreditUsed' - used)
           /\ cCreditUsed' = used \/ cCreditUsed' <= MaxWindow - 1
<1>1. credit \in Int /\ credit <= MaxWindow - 1
    BY WindowAssumption DEF Credits
<1>2. PICK f \in Seq(CallRequests) : /\ cCreditUsed' = used + Len(f) /\ c2s' = wire \o f
                                     /\ Len(f) = 0 \/ used + Len(f) <= credit
    BY <1>1, DrainSends
<1>3. Cardinality(CallsIn(wire \o f)) = Cardinality(CallsIn(wire)) + Len(f)
    BY CallsConcat DEF CallRequests
<1>4. Calls' = Cardinality(CallsIn(wire)) + Len(f) /\ Len(f) \in Nat
    BY <1>2, <1>3 DEF Calls
<1>5. Len(f) = 0 \/ used + Len(f) <= MaxWindow - 1
    BY <1>1, <1>2, <1>4, WindowAssumption
<1>6. cCreditUsed' - used = Len(f) /\ cCreditUsed' \in Int /\ used <= cCreditUsed'
        /\ (Len(f) = 0 => cCreditUsed' = used)
    BY <1>2, <1>4
<1> QED
    BY <1>2, <1>4, <1>5, <1>6

\* An operation of the client that sends calls or reads a response: what it
\* sends adds to the credits used, and what it reads takes off.
ClientMoves ==
    /\ open /\ open' = open /\ cCreditUsed' \in Int
    /\ Answers' \in Nat /\ Answers' \in {Answers, Answers - 1} /\ Calls' >= Calls
    /\ cCreditUsed' - cCreditUsed = (Calls' - Calls) + (Answers' - Answers)
    /\ cCreditUsed' <= cCreditUsed \/ cCreditUsed' <= MaxWindow - 1

\* The client uses a credit with every call, and gets it back with every
\* response.
LEMMA ClientStep ==
    ASSUME WireTypes, ClientTypes, CreditInv, ClientNext
    PROVE  ClientMoves \/ (UNCHANGED <<c2s, s2c, cCreditUsed>> /\ (open' = open \/ open' = FALSE))
<1>0. Calls \in Nat /\ Answers \in Nat /\ cCreditUsed \in Int
    BY CountTypes DEF ClientTypes
<1>1. CASE CrpcSendOne /\ HotPath
    <2>1. open /\ cCreditUsed < cCredit /\ cCreditUsed' = cCreditUsed + 1
            /\ c2s' = Append(c2s, Call(0)) /\ UNCHANGED <<s2c, open>>
        BY <1>1 DEF CrpcSendOne, HotPath
    <2>2. Calls' = Calls + 1
        <3>1. Call(0) \in Requests /\ Call(0).op = "call"
            BY ClientAssumption DEF Call, Requests, Demands
        <3>2. Cardinality(CallsIn(Append(c2s, Call(0)))) = Cardinality(CallsIn(c2s)) + 1
            BY <3>1, CallsAppend DEF WireTypes
        <3> QED
            BY <2>1, <3>2 DEF Calls
    <2>3. Answers' = Answers
        BY <2>1 DEF Answers
    <2>4. cCreditUsed + 1 <= MaxWindow - 1
        BY <1>0, <2>1, WindowAssumption DEF CreditInv, Credits
    <2> QED
        BY <1>0, <2>1, <2>2, <2>3, <2>4 DEF ClientMoves
<1>2. CASE CrpcSendOne /\ ~HotPath
    <2> DEFINE full == queued >= CrpcQlen
               q == IF full THEN queued ELSE queued + 1
               e == IF full /\ expired > 0 THEN expired - 1 ELSE expired
               wire == IF init THEN c2s ELSE Append(c2s, CUpdate(q))
    <2>1. /\ open /\ waitingResp' = (waitingResp \/ ~init)
          /\ cpccDrainQueue(q, e, waitingResp', cCredit, cCreditUsed, wire)
          /\ UNCHANGED <<s2c, open>>
        BY <1>2 DEF CrpcSendOne
    <2>2. q \in Demands /\ e \in 0..q /\ cCredit \in Credits
        BY ClientAssumption DEF ClientTypes, Demands, CreditInv
    <2>3. wire \in Seq(Requests) /\ Cardinality(CallsIn(wire)) = Calls
        <3> HIDE DEF q
        <3>1. CUpdate(q) \in Requests /\ CUpdate(q).op # "call"
            BY <2>2 DEF CUpdate, Requests
        <3>2. c2s \in Seq(Requests) /\ Append(c2s, CUpdate(q)) \in Seq(Requests)
            BY <3>1 DEF WireTypes
        <3>3. Cardinality(CallsIn(Append(c2s, CUpdate(q)))) = Calls + 0
            BY <3>1, <3>2, CallsAppend DEF Calls
        <3> QED
            BY <1>0, <3>2, <3>3 DEF Calls
    <2>4. waitingResp' \in BOOLEAN
        BY <2>1, Zenon
    <2> HIDE DEF q, e, wire
    <2>5. /\ cCreditUsed' \in Int /\ cCreditUsed <= cCreditUsed'
          /\ Calls' = Cardinality(CallsIn(wire)) + (cCreditUsed' - cCreditUsed)
          /\ cCreditUsed' = cCreditUsed \/ cCreditUsed' <= MaxWindow - 1
        BY <1>0, <2>1, <2>2, <2>3, <2>4, DrainUses, Zenon
    <2>6. Calls' >= Calls /\ cCreditUsed' - cCreditUsed = Calls' - Calls /\ Calls' \in Int
        <3> DEFINE new == cCreditUsed'  more == Calls'  calls == Calls
        <3>1. more = calls + (new - cCreditUsed) /\ new \in Int /\ cCreditUsed <= new
                /\ calls \in Nat
            BY <1>0, <2>3, <2>5
        <3> HIDE DEF new, more, calls
        <3>2. more >= calls /\ new - cCreditUsed = more - calls /\ more \in Int
            BY <1>0, <3>1
        <3> QED
            BY <3>2 DEF new, more, calls
    <2>7. Answers' = Answers
        BY <2>1 DEF Answers
    <2>8. cCreditUsed' <= cCreditUsed \/ cCreditUsed' <= MaxWindow - 1
        BY <1>0, <2>5
    <2>9. (Calls' - Calls) + (Answers - Answers) = Calls' - Calls
        BY <1>0, <2>6
    <2> QED
        BY <1>0, <2>1, <2>5, <2>6, <2>7, <2>8, <2>9 DEF ClientMoves
<1>3. CASE CrpcRecvOne
    <2> DEFINE m == Head(s2c)
               used == IF m.op = "call" THEN cCreditUsed - 1 ELSE cCreditUsed
    <2>1. open /\ s2c # <<>> /\ s2c' = Tail(s2c) /\ open' = open
        BY <1>3 DEF CrpcRecvOne
    <2>2. m \in Responses /\ s2c[1] = m /\ 1 \in 1..Len(s2c)
        BY <2>1 DEF WireTypes
    <2>3. m.credit \in Credits
        BY <2>2 DEF CreditInv
    <2>4. Answers' = Answers - IF m.op = "call" THEN 1 ELSE 0
        <3>1. Cardinality(CallsIn(Tail(s2c))) =
                 Cardinality(CallsIn(s2c)) - IF Head(s2c).op = "call" THEN 1 ELSE 0
            BY <2>1, CallsTail DEF WireTypes
        <3> QED
            BY <2>1, <3>1 DEF Answers
    <2>5. Answers' \in Nat
        <3>1. s2c' \in Seq(Responses)
            BY <2>1 DEF WireTypes
        <3> QED
            BY <3>1, CallsFinite DEF Answers
    <2>6. Answers' \in {Answers, Answers - 1} /\ used = cCreditUsed + (Answers' - Answers)
            /\ used \in Int /\ used <= cCreditUsed
        BY <1>0, <2>4
    <2>7. /\ cCreditUsed' \in Int /\ used <= cCreditUsed'
          /\ Calls' = Calls + (cCreditUsed' - used)
          /\ cCreditUsed' = used \/ cCreditUsed' <= MaxWindow - 1
        <3>1. CASE m.credit > 0
            <4>1. cpccDrainQueue(queued, expired, FALSE, m.credit, used, c2s)
                BY <1>3, <3>1, Zenon DEF CrpcRecvOne
            <4> HIDE DEF used
            <4>2. queued \in Demands /\ expired \in 0..queued /\ c2s \in Seq(Requests)
                BY DEF ClientTypes, WireTypes
            <4>3. /\ cCreditUsed' \in Int /\ used <= cCreditUsed'
                  /\ Calls' = Cardinality(CallsIn(c2s)) + (cCreditUsed' - used)
                  /\ cCreditUsed' = used \/ cCreditUsed' <= MaxWindow - 1
                BY <2>3, <2>6, <4>1, <4>2, DrainUses, Zenon
            <4>4. Cardinality(CallsIn(c2s)) = Calls
                BY DEF Calls
            <4> QED
                BY <4>3, <4>4
        <3>2. CASE ~(m.credit > 0)
            <4>1. cCreditUsed' = used /\ c2s' = c2s
                BY <1>3, <3>2, Zenon DEF CrpcRecvOne
            <4> HIDE DEF used
            <4>2. Calls' = Calls
                BY <4>1 DEF Calls
            <4>3. used \in Int
                BY <2>6
            <4>4. used - used = 0 /\ Calls + 0 = Calls /\ used <= used
                BY <1>0, <4>3
            <4> QED
                BY <4>1, <4>2, <4>3, <4>4
        <3> QED
            BY <3>1, <3>2
    <2> HIDE DEF m, used
    <2>8. /\ Calls' >= Calls
          /\ cCreditUsed' - cCreditUsed = (Calls' - Calls) + (Answers' - Answers)
          /\ cCreditUsed' <= cCreditUsed \/ cCreditUsed' <= MaxWindow - 1
        <3> DEFINE new == cCreditUsed'  more == Calls'  calls == Calls
                   less == Answers'  answers == Answers
        <3>1. /\ more = calls + (new - used) /\ new \in Int /\ used <= new /\ calls \in Nat
              /\ used = cCreditUsed + (less - answers) /\ less \in Nat /\ answers \in Nat
              /\ used <= cCreditUsed /\ used \in Int
            BY <1>0, <2>5, <2>6, <2>7, Zenon
        <3>2. new = used \/ new <= MaxWindow - 1
            BY <2>7
        <3> HIDE DEF new, more, calls, less, answers
        <3>3. more >= calls /\ new - cCreditUsed = (more - calls) + (less - answers)
            BY <1>0, <3>1
        <3>4. new <= cCreditUsed \/ new <= MaxWindow - 1
            BY <3>1, <3>2
        <3> QED
            BY <3>3, <3>4 DEF new, more, calls, less, answers
    <2> QED
        BY <2>1, <2>5, <2>6, <2>7, <2>8 DEF ClientMoves
<1>4. CASE Expire \/ cpccTimer \/ cpccTimerWake \/ Shutdown \/ CrpcClose \/ CrpcCloseConn
    <2>1. UNCHANGED <<c2s, s2c>> /\ (open' = open \/ open' = FALSE)
        BY <1>4 DEF Expire, cpccTimer, cpccTimerWake, Shutdown, CrpcClose, CrpcCloseConn,
                    wireVars
    <2>2. cCreditUsed' = cCreditUsed
        BY <1>4 DEF Expire, cpccTimer, cpccTimerWake, Shutdown, CrpcClose, CrpcCloseConn,
                    clientVars
    <2> QED
        BY <2>1, <2>2
<1> QED
    BY <1>1, <1>2, <1>3, <1>4, Zenon DEF ClientNext

\* So the client keeps its account.
LEMMA ClientUsedStep ==
    ASSUME WireTypes, ClientTypes, CreditInv, UsedInv, ClientNext, UNCHANGED sessionVars
    PROVE  UsedInv'
<1>0. Calls \in Nat /\ Answers \in Nat /\ Waiting \in Nat /\ cCreditUsed \in Credits
    BY CountTypes DEF UsedInv
<1>1. Waiting' = Waiting
    <2>1. Unanswered' = Unanswered
        BY DEF Unanswered, sessionVars
    <2> QED
        BY <2>1 DEF Waiting
<1>2. CASE ClientMoves
    <2> DEFINE new == cCreditUsed'  more == Calls'  less == Answers'
               calls == Calls  answers == Answers  waiting == Waiting  limit == MaxWindow - 1
    <2>1. /\ calls \in Nat /\ answers \in Nat /\ waiting \in Nat /\ less \in Nat /\ new \in Int
          /\ cCreditUsed \in Int /\ more >= calls /\ limit \in Int
          /\ cCreditUsed = calls + waiting + answers /\ cCreditUsed <= limit
        BY <1>0, <1>2, WindowAssumption DEF ClientMoves, UsedInv, Credits
    <2>2. new - cCreditUsed = (more - calls) + (less - answers)
            /\ (new <= cCreditUsed \/ new <= limit)
        BY <1>2 DEF ClientMoves
    <2>3. more \in Int
        <3>1. WireTypes'
            BY ClientTypeStep
        <3> QED
            BY <3>1, CallsFinite DEF WireTypes, Calls
    <2> HIDE DEF new, more, less, calls, answers, waiting, limit
    <2>4. new = more + waiting + less /\ new <= limit
        BY <2>1, <2>2, <2>3
    <2>5. 0 <= new /\ more + waiting <= limit
        BY <2>1, <2>3, <2>4
    <2>6. new \in 0..limit
        BY <2>1, <2>4, <2>5
    <2> QED
        BY <1>1, <2>4, <2>5, <2>6 DEF UsedInv, Credits, new, more, less, waiting, limit
<1>3. CASE UNCHANGED <<c2s, s2c, cCreditUsed>> /\ (open' = open \/ open' = FALSE)
    <2>1. Calls' = Calls /\ Answers' = Answers
        BY <1>3 DEF Calls, Answers
    <2> QED
        BY <1>1, <1>3, <2>1 DEF UsedInv
<1> QED
    BY <1>2, <1>3, ClientStep, Zenon
-----------------------------------------------------------------------------
(* The refinement *)

Busy == Slots \ Avail
Answered == {i \in Slots : slots[i] = "sent"}

\* A step that leaves the calls and the responses in transit, the slots, the
\* connection and the end of the session alone is a stutter.
LEMMA Stutters ==
    ASSUME Calls' = Calls, Answers' = Answers, Busy' = Busy, Answered' = Answered,
           open' = open, (receiver = "done") = (receiver' = "done")
    PROVE  UNCHANGED Abstract!vars
BY DEF Abstract!vars, Calls, Answers, Busy, Answered

\* In particular one that leaves the streams and the use of the slots alone.
LEMMA QuietStutters ==
    ASSUME UNCHANGED <<c2s, s2c, open>>,
           \A i \in Slots : (slots'[i] = "avail" <=> slots[i] = "avail")
                            /\ (slots'[i] = "sent" <=> slots[i] = "sent"),
           (receiver = "done") = (receiver' = "done")
    PROVE  UNCHANGED Abstract!vars
<1>1. Calls' = Calls /\ Answers' = Answers
    BY DEF Calls, Answers
<1>2. Busy' = Busy /\ Answered' = Answered
    BY DEF Busy, Answered, Avail
<1> QED
    BY <1>1, <1>2, Stutters

\* The steps of the abstract session that are the server's.
ServerStep ==
    \/ UNCHANGED Abstract!vars \/ Abstract!Discard \/ Abstract!End
    \/ \E i \in Slots : Abstract!Take(i) \/ Abstract!Answer(i) \/ Abstract!Free(i)

\* The receiver takes a slot for every call, and puts one back only when the
\* client has left.
LEMMA ReceiverAbstractStep ==
    ASSUME WireTypes, SessionTypes, HolderInv, UsedInv, ReceiverNext PROVE ServerStep
<1>0. Calls \in Nat
    BY CountTypes
<1>1. CASE RecvCall
    <2>1. /\ c2s # <<>> /\ Head(c2s).op = "call" /\ c2s' = Tail(c2s)
          /\ UNCHANGED <<s2c, open>>
        BY <1>1 DEF RecvCall
    <2>2. Calls' = Calls - 1
        <3>1. Cardinality(CallsIn(Tail(c2s))) =
                 Cardinality(CallsIn(c2s)) - IF Head(c2s).op = "call" THEN 1 ELSE 0
            BY <2>1, CallsTail DEF WireTypes
        <3> QED
            BY <2>1, <3>1 DEF Calls
    <2>3. CallsIn(c2s) # {}
        <3>1. c2s \in Seq(Requests) /\ Head(c2s) = c2s[1] /\ 1 \in DOMAIN c2s
            BY <2>1 DEF WireTypes
        <3> QED
            BY <2>1, <3>1 DEF CallsIn
    <2>4. Calls > 0
        <3>1. IsFiniteSet(CallsIn(c2s))
            BY CallsFinite DEF WireTypes
        <3>2. Calls # 0
            BY <2>3, <3>1, FS_EmptySet DEF Calls
        <3> QED
            BY <1>0, <3>2
    <2>5. Avail # {}
        BY <2>3, SlotFree
    <2>6. PICK i \in Avail : slots' = [slots EXCEPT ![i] = "reading"] /\ receiver' = "payload"
        BY <1>1, <2>5 DEF RecvCall
    <2>7. \A j \in Slots : slots'[j] = IF j = i THEN "reading" ELSE slots[j]
        BY <2>6 DEF SessionTypes
    <2>8. i \in Slots /\ i \notin Busy /\ Busy' = Busy \cup {i} /\ Answered' = Answered
        BY <2>7 DEF Busy, Answered, Avail
    <2>9. receiver # "done" /\ receiver' # "done" /\ Answers' = Answers
        BY <1>1, <2>1, <2>6 DEF RecvCall, Answers
    <2>10. Abstract!Take(i)
        BY <2>1, <2>2, <2>4, <2>8, <2>9 DEF Abstract!Take, Calls, Answers, Busy, Answered
    <2> QED
        BY <2>8, <2>10 DEF ServerStep
<1>2. CASE RecvPayloadFails
    <2> DEFINE i == request.slot
    <2>1. i \in Slots /\ slots[i] = "reading" /\ ~open /\ UNCHANGED <<c2s, s2c, open>>
            /\ receiver # "done" /\ receiver' # "done"
        BY <1>2 DEF RecvPayloadFails, HolderInv, wireVars
    <2>2. \A j \in Slots : slots'[j] = IF j = i THEN "avail" ELSE slots[j]
        BY <1>2 DEF RecvPayloadFails, SessionTypes
    <2> HIDE DEF i
    <2>3. Busy' = Busy \ {i} /\ {i} \in SUBSET (Busy \ Answered) /\ Answered' = Answered
        BY <2>1, <2>2 DEF Busy, Answered, Avail
    <2>4. Abstract!Discard
        BY <2>1, <2>3, Zenon DEF Abstract!Discard, Busy, Answered
    <2> QED
        BY <2>4 DEF ServerStep
<1>3. CASE RecvAdmit /\ s.Drained
    <2>1. UNCHANGED <<c2s, s2c, open, slots>> /\ receiver # "done" /\ receiver' # "done"
        BY <1>3 DEF RecvAdmit, wireVars
    <2> QED
        BY <2>1, QuietStutters DEF ServerStep
<1>4. CASE RecvUnlink \/ (RecvAdmit /\ ~s.Drained)
    <2> DEFINE i == request.slot
    <2>1. receiver \in {"payload", "unlinking"}
        BY <1>4 DEF RecvUnlink, RecvAdmit
    <2>2. i \in Slots /\ slots[i] = "reading"
        BY <2>1 DEF HolderInv
    <2>3. PICK outcome \in {"refused", "working"} : slots' = [slots EXCEPT ![i] = outcome]
        BY <1>4, <2>2, Admitted
    <2>4. \A j \in Slots : slots'[j] = IF j = i THEN outcome ELSE slots[j]
        BY <2>3 DEF SessionTypes
    <2>5. UNCHANGED <<c2s, s2c, open>> /\ receiver' = "reading"
        BY <1>4 DEF RecvUnlink, RecvAdmit, Admit, wireVars
    <2> HIDE DEF i
    <2> QED
        BY <2>1, <2>2, <2>4, <2>5, QuietStutters DEF ServerStep
<1>5. CASE RecvCredit
    <2>1. /\ c2s # <<>> /\ Head(c2s).op = "credit" /\ c2s' = Tail(c2s)
          /\ UNCHANGED <<s2c, open, slots, receiver>>
        BY <1>5 DEF RecvCredit
    <2>2. Calls' = Calls
        <3>1. Cardinality(CallsIn(Tail(c2s))) =
                 Cardinality(CallsIn(c2s)) - IF Head(c2s).op = "call" THEN 1 ELSE 0
            BY <2>1, CallsTail DEF WireTypes
        <3>2. Calls' = Calls - 0
            BY <2>1, <3>1 DEF Calls
        <3> QED
            BY <1>0, <3>2
    <2>3. Answers' = Answers /\ Busy' = Busy /\ Answered' = Answered
        BY <2>1 DEF Answers, Busy, Answered, Avail
    <2> QED
        BY <2>1, <2>2, <2>3, Stutters DEF ServerStep
<1>6. CASE RecvEOF \/ RecvClose \/ RecvUnlinkClose
    <2>1. UNCHANGED <<c2s, s2c, open, slots>> /\ receiver # "done" /\ receiver' # "done"
        BY <1>6 DEF RecvEOF, RecvClose, RecvUnlinkClose, CloseSession, wireVars
    <2> QED
        BY <2>1, QuietStutters DEF ServerStep
<1>7. CASE RecvDone
    <2>1. ~open /\ Busy = {} /\ UNCHANGED <<c2s, s2c, open, slots>> /\ receiver' = "done"
        BY <1>7 DEF RecvDone, HolderInv, Busy, Avail, wireVars
    <2>2. Abstract!End
        BY <2>1 DEF Abstract!End, Busy, Avail
    <2> QED
        BY <2>2 DEF ServerStep
<1> QED
    BY <1>1, <1>2, <1>3, <1>4, <1>5, <1>6, <1>7 DEF ReceiverNext

\* The sender answers a slot once, frees those it has answered, and at the
\* close, when the client has left, the others.
LEMMA SenderAbstractStep ==
    ASSUME WireTypes, SessionTypes, HolderInv, UsedInv, SenderNext PROVE ServerStep
<1>0. Answers \in Nat
    BY CountTypes
<1>1. CASE SenderSleeps \/ SenderChecksDrained \/ SenderDrains \/ SenderLinks \/ SenderPass
           \/ SenderUnlink \/ (SenderCloses /\ slots' = slots)
    <2>1. UNCHANGED <<c2s, s2c, open, slots, receiver>>
        BY <1>1, Zenon DEF SenderSleeps, SenderChecksDrained, SenderDrains, SenderLinks, SenderPass,
                    SenderUnlink, SenderCloses, wireVars
    <2> QED
        BY <2>1, QuietStutters DEF ServerStep
<1>2. CASE spccSendECredit
    <2>1. UNCHANGED <<c2s, open, slots, receiver>>
        BY <1>2 DEF spccSendECredit
    <2>2. Answers' = Answers
        <3>1. CASE s2c' = s2c
            BY <3>1 DEF Answers
        <3>2. CASE s2c' = Append(s2c, ECredit(s.Credit))
            <4>1. ECredit(s.Credit) \in Responses /\ ECredit(s.Credit).op # "call"
                BY DEF ECredit, Responses, SessionTypes, SessionFields
            <4>2. Cardinality(CallsIn(Append(s2c, ECredit(s.Credit)))) =
                     Cardinality(CallsIn(s2c)) + 0
                BY <4>1, CallsAppend DEF WireTypes
            <4>3. Answers' = Answers + 0
                BY <3>2, <4>2 DEF Answers
            <4> QED
                BY <1>0, <4>3
        <3> QED
            BY <1>2, <3>1, <3>2 DEF spccSendECredit
    <2>3. Calls' = Calls /\ Busy' = Busy /\ Answered' = Answered
        BY <2>1 DEF Calls, Busy, Answered, Avail
    <2> QED
        BY <2>1, <2>2, <2>3, Stutters DEF ServerStep
<1>3. CASE SendResponse
    <2>1. PICK i \in sending : slots' = [slots EXCEPT ![i] = "sent"]
        BY <1>3, Zenon DEF SendResponse
    <2>2. \A j \in Slots : slots'[j] = IF j = i THEN "sent" ELSE slots[j]
        BY <2>1 DEF SessionTypes
    <2>3. i \in Slots /\ slots[i] \in {"served", "refused"}
        BY <1>3 DEF SendResponse, HolderInv, SessionTypes
    <2>4. i \in Busy \ Answered /\ Answered' = Answered \cup {i} /\ Busy' = Busy
        BY <2>2, <2>3 DEF Busy, Answered, Avail
    <2>5. Answers' = Answers + 1 \/ (~open /\ Answers' = Answers)
        <3>1. CASE s2c' = Append(s2c, Response(s.Credit))
            <4>1. Response(s.Credit) \in Responses /\ Response(s.Credit).op = "call"
                BY DEF Response, Responses, SessionTypes, SessionFields
            <4>2. Cardinality(CallsIn(Append(s2c, Response(s.Credit)))) =
                     Cardinality(CallsIn(s2c)) + 1
                BY <4>1, CallsAppend DEF WireTypes
            <4> QED
                BY <3>1, <4>2 DEF Answers
        <3>2. CASE ~open /\ s2c' = s2c
            BY <3>2 DEF Answers
        <3> QED
            BY <1>3, <3>1, <3>2 DEF SendResponse
    <2>6. Calls' = Calls /\ UNCHANGED <<open, receiver>>
        BY <1>3 DEF SendResponse, Calls
    <2>7. Abstract!Answer(i)
        BY <2>4, <2>5, <2>6 DEF Abstract!Answer, Calls, Answers, Busy, Answered
    <2> QED
        BY <2>3, <2>7 DEF ServerStep
<1>4. CASE PutSlot
    <2>1. PICK i \in sending : slots[i] = "sent" /\ slots' = [slots EXCEPT ![i] = "avail"]
        BY <1>4, Zenon DEF PutSlot
    <2>2. \A j \in Slots : slots'[j] = IF j = i THEN "avail" ELSE slots[j]
        BY <2>1 DEF SessionTypes
    <2>3. i \in Slots /\ i \in Answered /\ Answered' = Answered \ {i} /\ Busy' = Busy \ {i}
        BY <2>1, <2>2 DEF Busy, Answered, Avail, SessionTypes
    <2>4. UNCHANGED <<c2s, s2c, open, receiver>>
        BY <1>4 DEF PutSlot, wireVars
    <2>5. Abstract!Free(i)
        BY <2>3, <2>4 DEF Abstract!Free, Busy, Answered
    <2> QED
        BY <2>3, <2>5 DEF ServerStep
<1>5. CASE SenderUnlinkClose \/ (SenderCloses /\ slots' # slots)
    <2>1. s.Closed /\ sending = {}
        BY <1>5 DEF SenderUnlinkClose, SenderCloses, HolderInv
    <2>2. slots' = [i \in Slots |-> "avail"] /\ UNCHANGED <<c2s, s2c, open, receiver>>
        BY <1>5 DEF SenderUnlinkClose, SenderCloses, wireVars
    <2>3. ~open
        BY <2>1 DEF HolderInv
    <2>4. Answered = {} /\ Answered' = {} /\ Busy' = {}
        BY <2>1, <2>2 DEF Answered, Busy, Avail, HolderInv
    <2>5. Busy \in SUBSET (Busy \ Answered) /\ Busy' = Busy \ Busy /\ Answered' = Answered
        BY <2>4
    <2>6. Abstract!Discard
        BY <2>2, <2>3, <2>5, Zenon DEF Abstract!Discard, Busy, Answered
    <2> QED
        BY <2>6 DEF ServerStep
<1> QED
    BY <1>1, <1>2, <1>3, <1>4, <1>5 DEF SenderNext
\* Every step of the session is a step of the abstract server.
LEMMA SessionAbstractStep ==
    ASSUME WireTypes, SessionTypes, HolderInv, UsedInv, SessionNext PROVE ServerStep
<1>1. CASE WakerNext
    <2>1. UNCHANGED <<c2s, s2c, open, slots, receiver>>
        BY <1>1 DEF WakerNext, ChooseDrainedHLocks, ChooseDrainedHDemotes, ChooseDrainedLPops,
                    ChooseDrainedLClears, WakeUpSession, WakeUpCounts, wireVars
    <2> QED
        BY <2>1, QuietStutters DEF ServerStep
<1>2. ASSUME NEW i \in Slots, spccWorker(i) PROVE ServerStep
    <2>1. PICK outcome \in {"served", "refused"} : slots' = [slots EXCEPT ![i] = outcome]
        BY <1>2, Zenon DEF spccWorker
    <2>2. slots[i] = "working" /\ UNCHANGED <<c2s, s2c, open, receiver>>
        BY <1>2 DEF spccWorker, wireVars
    <2>3. \A j \in Slots : slots'[j] = IF j = i THEN outcome ELSE slots[j]
        BY <2>1 DEF SessionTypes
    <2> QED
        BY <2>2, <2>3, QuietStutters DEF ServerStep
<1> QED
    BY <1>1, <1>2, ReceiverAbstractStep, SenderAbstractStep DEF SessionNext

\* What a step of the abstract server does to the requests: a call becomes a
\* waiting one, which becomes a response, unless the client has left.
LEMMA ServerMoves ==
    ASSUME WireTypes, WireTypes', ServerStep
    PROVE  /\ Calls' + Waiting' <= Calls + Waiting /\ open' = open
           /\ open => Calls' + Waiting' + Answers' = Calls + Waiting + Answers
<1>1. /\ Calls \in Nat /\ Answers \in Nat /\ Waiting \in Nat /\ IsFiniteSet(Unanswered)
      /\ Calls' \in Nat /\ Answers' \in Nat /\ Waiting' \in Nat
    <2>1. Unanswered' \subseteq Slots
        BY DEF Unanswered
    <2>2. Waiting' \in Nat
        BY <2>1, SlotCounts DEF Waiting
    <2>3. Calls' \in Nat /\ Answers' \in Nat
        BY CallsFinite DEF WireTypes, Calls, Answers
    <2> QED
        BY <2>2, <2>3, CountTypes
<1>2. Unanswered = Busy \ Answered /\ Unanswered' = Busy' \ Answered' /\ Answered \subseteq Busy
    BY DEF Unanswered, Busy, Answered, Avail
<1>3. CASE UNCHANGED Abstract!vars \/ Abstract!End
    <2>1. Calls' = Calls /\ Answers' = Answers /\ Busy' = Busy /\ Answered' = Answered
            /\ open' = open
        BY <1>3 DEF Abstract!vars, Abstract!End, Calls, Answers, Busy, Answered
    <2>2. Waiting' = Waiting
        BY <1>2, <2>1 DEF Waiting
    <2> QED
        BY <1>1, <2>1, <2>2
<1>4. CASE Abstract!Discard
    <2>1. Calls' = Calls /\ Answered' = Answered /\ ~open /\ open' = open
            /\ Busy' \subseteq Busy
        BY <1>4 DEF Abstract!Discard, Calls, Answers, Busy, Answered
    <2>2. Unanswered' \subseteq Unanswered
        BY <1>2, <2>1
    <2>3. Waiting' <= Waiting
        BY <1>1, <2>2, FS_Subset DEF Waiting
    <2>4. Calls + Waiting' <= Calls + Waiting
        <3> DEFINE c == Calls  w == Waiting  new == Waiting'
        <3>1. c \in Nat /\ w \in Nat /\ new \in Nat /\ new <= w
            BY <1>1, <2>3
        <3> HIDE DEF c, w, new
        <3>2. c + new <= c + w
            BY <3>1
        <3> QED
            BY <3>2 DEF c, w, new
    <2> QED
        BY <2>1, <2>4
<1>5. ASSUME NEW i \in Slots, Abstract!Take(i)
      PROVE  Calls' + Waiting' = Calls + Waiting /\ Answers' = Answers /\ open' = open
    <2>1. i \notin Busy /\ Calls' = Calls - 1 /\ Busy' = Busy \cup {i} /\ Answers' = Answers
            /\ Answered' = Answered /\ open' = open
        BY <1>5 DEF Abstract!Take, Calls, Answers, Busy, Answered
    <2>2. i \notin Unanswered /\ Unanswered' = Unanswered \cup {i}
        BY <1>2, <2>1
    <2>3. Cardinality(Unanswered \cup {i}) = Cardinality(Unanswered) + 1
        BY <1>1, <2>2, FS_AddElement, Zenon
    <2>4. Waiting' = Waiting + 1
        BY <2>2, <2>3 DEF Waiting
    <2> QED
        BY <1>1, <2>1, <2>4
<1>6. ASSUME NEW i \in Slots, Abstract!Answer(i)
      PROVE  /\ Calls' = Calls /\ Waiting' = Waiting - 1 /\ open' = open
             /\ Answers' = Answers + 1 \/ ~open
    <2>1. i \in Busy \ Answered /\ Calls' = Calls /\ Busy' = Busy
            /\ Answered' = Answered \cup {i} /\ open' = open
        BY <1>6 DEF Abstract!Answer, Calls, Answers, Busy, Answered
    <2>2. Answers' = Answers + 1 \/ ~open
        BY <1>6 DEF Abstract!Answer, Answers
    <2>3. i \in Unanswered /\ Unanswered' = Unanswered \ {i}
        BY <1>2, <2>1
    <2>4. Cardinality(Unanswered \ {i}) = Cardinality(Unanswered) - 1
        BY <1>1, <2>3, FS_RemoveElement, Zenon
    <2>5. Waiting' = Waiting - 1
        BY <2>3, <2>4 DEF Waiting
    <2> QED
        BY <2>1, <2>2, <2>5
<1>7. ASSUME NEW i \in Slots, Abstract!Free(i)
      PROVE  Calls' = Calls /\ Waiting' = Waiting /\ Answers' = Answers /\ open' = open
    <2>1. i \in Answered /\ Calls' = Calls /\ Busy' = Busy \ {i} /\ Answers' = Answers
            /\ Answered' = Answered \ {i} /\ open' = open
        BY <1>7 DEF Abstract!Free, Calls, Answers, Busy, Answered
    <2>2. Unanswered' = Unanswered
        BY <1>2, <2>1
    <2> QED
        BY <2>1, <2>2 DEF Waiting
<1>8. CASE \E i \in Slots : Abstract!Take(i)
    <2>1. Calls' + Waiting' = Calls + Waiting /\ Answers' = Answers /\ open' = open
        BY <1>5, <1>8
    <2>2. Calls + Waiting <= Calls + Waiting
        BY <1>1
    <2> QED
        BY <2>1, <2>2
<1>9. CASE \E i \in Slots : Abstract!Answer(i)
    <2>1. Calls' = Calls /\ Waiting' = Waiting - 1 /\ open' = open
            /\ (Answers' = Answers + 1 \/ ~open)
        BY <1>6, <1>9
    <2>2. /\ Calls + (Waiting - 1) <= Calls + Waiting
          /\ Calls + (Waiting - 1) + (Answers + 1) = Calls + Waiting + Answers
        BY <1>1
    <2> QED
        BY <2>1, <2>2
<1>10. CASE \E i \in Slots : Abstract!Free(i)
    <2>1. Calls' = Calls /\ Waiting' = Waiting /\ Answers' = Answers /\ open' = open
        BY <1>7, <1>10
    <2> QED
        BY <1>1, <2>1
<1> QED
    BY <1>3, <1>4, <1>8, <1>9, <1>10 DEF ServerStep

\* The credits used are accounted for after every step.
LEMMA UsedStep ==
    TypeInv /\ HolderInv /\ CreditInv /\ UsedInv /\ [Next]_vars => UsedInv'
<1> SUFFICES ASSUME TypeInv, HolderInv, CreditInv, UsedInv, [Next]_vars PROVE UsedInv'
    OBVIOUS
<1> USE DEF TypeInv
<1>1. CASE ClientNext /\ UNCHANGED sessionVars
    BY <1>1, ClientUsedStep
<1>2. CASE SessionNext /\ UNCHANGED clientVars
    <2>1. TypeInv'
        BY HolderStep
    <2>2. /\ Calls' + Waiting' <= Calls + Waiting /\ open' = open
          /\ open => Calls' + Waiting' + Answers' = Calls + Waiting + Answers
        BY <1>2, <2>1, SessionAbstractStep, ServerMoves
    <2>3. cCreditUsed' = cCreditUsed
        BY <1>2 DEF clientVars
    <2>4. Calls \in Nat /\ Waiting \in Nat /\ Calls' \in Nat /\ Waiting' \in Nat
        <3>1. Unanswered' \subseteq Slots
            BY DEF Unanswered
        <3>2. Waiting' \in Nat
            BY <3>1, SlotCounts DEF Waiting
        <3>3. Calls' \in Nat
            BY <2>1, CallsFinite DEF WireTypes, Calls
        <3> QED
            BY <3>2, <3>3, CountTypes
    <2>5. Calls' + Waiting' <= MaxWindow - 1
        <3> DEFINE x == Calls' + Waiting'  y == Calls + Waiting
        <3>1. x \in Int /\ y \in Int
            BY <2>4
        <3>2. x <= y /\ y <= MaxWindow - 1
            BY <2>2 DEF UsedInv
        <3> HIDE DEF x, y
        <3>3. x <= MaxWindow - 1
            BY <3>1, <3>2, WindowAssumption
        <3> QED
            BY <3>3 DEF x
    <2>6. open' => cCreditUsed' = Calls' + Waiting' + Answers'
        BY <2>2, <2>3 DEF UsedInv
    <2> QED
        BY <2>3, <2>5, <2>6 DEF UsedInv
<1>3. CASE UNCHANGED vars
    <2>1. Calls' = Calls /\ Waiting' = Waiting /\ Answers' = Answers
        BY <1>3 DEF vars, wireVars, sessionVars, Calls, Waiting, Answers, Unanswered
    <2> QED
        BY <1>3, <2>1 DEF vars, wireVars, clientVars, UsedInv
<1> QED
    BY <1>1, <1>2, <1>3 DEF Next

\* A client operation sends calls and reads a response, or disconnects, or
\* stutters.
LEMMA ClientAbstractStep ==
    ASSUME WireTypes, ClientTypes, CreditInv, ClientNext, UNCHANGED sessionVars
    PROVE  UNCHANGED Abstract!vars \/ Abstract!Client \/ Abstract!Disconnect
<1>1. Busy' = Busy /\ Answered' = Answered /\ receiver' = receiver
    BY DEF Busy, Answered, Avail, sessionVars
<1>2. CASE ClientMoves
    BY <1>1, <1>2 DEF ClientMoves, Abstract!Client, Calls, Answers, Busy, Answered
<1>3. CASE UNCHANGED <<c2s, s2c>> /\ (open' = open \/ open' = FALSE)
    <2>1. Calls' = Calls /\ Answers' = Answers
        BY <1>3 DEF Calls, Answers
    <2>2. CASE open' = open
        BY <1>1, <2>1, <2>2, Stutters
    <2>3. CASE open' = FALSE
        BY <1>1, <2>1, <2>3 DEF Abstract!Disconnect, Calls, Answers, Busy, Answered
    <2> QED
        BY <1>3, <2>2, <2>3, Zenon
<1> QED
    BY <1>2, <1>3, ClientStep, Zenon
-----------------------------------------------------------------------------
(* The theorems *)

IInv == TypeInv /\ HolderInv /\ CountInv /\ CreditInv /\ UsedInv

\* The five invariants together are inductive.
LEMMA Inductive == (Init => IInv) /\ (IInv /\ [Next]_vars => IInv')
<1>1. Init => IInv
    BY TypeInit, HolderInit, CountInit, CreditInit, UsedInit DEF IInv
<1>2. IInv /\ [Next]_vars => IInv'
    BY HolderStep, CountStep, CreditStep, UsedStep DEF IInv
<1> QED
    BY <1>1, <1>2

\* They give the types, with the bounds: no count below zero and no credit at
\* MaxWindow.
LEMMA TypeImplied == IInv => TypeOK
<1> SUFFICES ASSUME IInv PROVE TypeOK
    OBVIOUS
<1> USE DEF IInv, TypeInv
<1>1. c2s \in Seq([op : {"call", "credit"}, demand : 0..CrpcQlen])
    BY DEF WireTypes, Requests, Demands
<1>2. s2c \in Seq([op : {"call", "credit"}, credit : 0..(MaxWindow - 1)])
    <2> DEFINE R == [op : {"call", "credit"}, credit : Credits]
    <2>1. s2c \in Seq(Responses) /\ \A k \in 1..Len(s2c) : s2c[k].credit \in Credits
        BY DEF WireTypes, CreditInv
    <2>2. \A k \in 1..Len(s2c) : s2c[k] \in R
        <3> SUFFICES ASSUME NEW k \in 1..Len(s2c) PROVE s2c[k] \in R
            OBVIOUS
        <3>1. s2c[k] \in Responses /\ s2c[k].credit \in Credits
            BY <2>1
        <3> HIDE DEF IInv, TypeInv
        <3> QED
            BY <3>1 DEF Responses
    <2> HIDE DEF R
    <2>3. s2c \in Seq(R)
        BY <2>1, <2>2
    <2> QED
        BY <2>3 DEF R, Credits
<1>3. cCredit \in 0..(MaxWindow - 1) /\ cCreditUsed \in Nat
    BY WindowAssumption DEF CreditInv, UsedInv, Credits
<1>4. {waitingResp, init, running, open, mayDrain} \subseteq BOOLEAN
    BY Zenon DEF WireTypes, ClientTypes, SessionTypes
<1>5. /\ queued \in 0..CrpcQlen /\ expired \in 0..queued
      /\ timer \in {"awake", "waiting", "sleeping", "done"}
    BY DEF ClientTypes, Demands
<1>6. s \in [NumPending : 0..MaxWindow, Closed : BOOLEAN, Drained : BOOLEAN,
             List : {"none", "H", "L", "corrupt"}, WakeUp : BOOLEAN,
             Credit : 0..(MaxWindow - 1), Advertised : 0..(MaxWindow - 1),
             Demand : 0..CrpcQlen, NeedECredit : BOOLEAN]
    <2>1. s \in SessionFields
        BY DEF SessionTypes
    <2>2. s.NumPending \in 0..MaxWindow
        BY NumPendingNat, WindowAssumption
    <2>3. s.Credit \in Credits /\ s.Advertised \in Credits
        BY DEF CreditInv
    <2> HIDE DEF IInv, TypeInv
    <2> QED
        BY <2>1, <2>2, <2>3 DEF SessionFields, Demands, Credits
<1>7. /\ slots \in [Slots -> {"avail", "reading", "working", "served", "refused", "sent"}]
      /\ sending \subseteq Slots
      /\ sLock \in {"free", "receiver", "sender"} /\ listLock \in {"free", "waker"}
      /\ receiver \in {"reading", "payload", "unlinking", "ending", "unlinkingToClose",
                       "waiting", "done"}
      /\ request \in [slot : Slots \cup {NoSlot}, demand : 0..CrpcQlen]
      /\ sender \in {"loop", "asleep", "unlinking", "ecredit", "respond", "drain", "linking",
                     "close", "closeAsleep", "unlinkingToClose", "done"}
      /\ waker \in {"idle", "demoting", "popped", "chosen", "owing"}
    BY DEF SessionTypes, SlotUses, Demands
<1>8. share \in [used : Int, pending : Nat, drained : Int]
    <2>1. share \in [used : Int, pending : Int, drained : Int]
        BY DEF SessionTypes
    <2>2. Counted \subseteq Slots
        BY DEF Counted
    <2>3. share.pending \in Nat
        BY <2>2, SlotCounts DEF CountInv
    <2> HIDE DEF IInv, TypeInv
    <2> QED
        BY <2>1, <2>3
<1> HIDE DEF IInv, TypeInv
<1> QED
    BY <1>1, <1>2, <1>3, <1>4, <1>5, <1>6, <1>7, <1>8 DEF TypeOK

\* For every window, queue and choice of the pool: the variables keep their
\* types; cc.CreditUsed and s.NumPending never pass zero downwards, and no
\* credit reaches MaxWindow.
THEOREM TypeCorrect == Spec => []TypeOK
BY Inductive, TypeImplied, PTL DEF Spec

\* While the connection is open, cc.CreditUsed is exactly the calls in transit,
\* the requests in a slot without a response and the responses in transit.
THEOREM CreditConserved == Spec => []CreditConservation
<1>1. IInv => CreditConservation
    BY DEF IInv, UsedInv, CreditConservation, Calls, Waiting, Answers
<1> QED
    BY <1>1, Inductive, PTL DEF Spec

\* spccGetSlot finds a slot for every call that a client with a credit sends.
THEOREM SlotAlwaysFree == Spec => []SlotForEveryCall
<1>1. IInv => SlotForEveryCall
    BY SlotFree DEF IInv, TypeInv, SlotForEveryCall
<1> QED
    BY <1>1, Inductive, PTL DEF Spec

\* The session's part of SpccNumPending is exact, its close included.
THEOREM PendingExact == Spec => []PendingAccounting
<1>1. IInv => PendingAccounting
    BY DEF IInv, CountInv, Counted, PendingAccounting
<1> QED
    BY <1>1, Inductive, PTL DEF Spec

\* SpccCreditUsed never falls below what the session has, but for the credit of
\* a wake-up that is about to be counted.
THEOREM CreditCounted == Spec => []CreditNotUndercounted
<1>1. IInv => CreditNotUndercounted
    BY DEF IInv, CreditInv
<1> QED
    BY <1>1, Inductive, PTL DEF Spec

\* The first states are first states of the abstract session.
LEMMA AbstractInit == Init => Abstract!Init
<1> SUFFICES ASSUME Init PROVE Abstract!Init
    OBVIOUS
<1>1. CallsIn(c2s) = {} /\ CallsIn(s2c) = {}
    BY DEF Init, WireInit, CallsIn
<1>2. Cardinality(CallsIn(c2s)) = 0 /\ Cardinality(CallsIn(s2c)) = 0
    BY <1>1, FS_EmptySet
<1>3. Busy = {} /\ Answered = {} /\ open = TRUE /\ receiver # "done"
    BY DEF Init, WireInit, SessionInit, Busy, Answered, Avail
<1> QED
    BY <1>2, <1>3 DEF Abstract!Init, Busy, Answered

\* Every step is a step of the abstract session, or a stutter.
LEMMA AbstractStep == IInv /\ [Next]_vars => [Abstract!Next]_Abstract!vars
<1> SUFFICES ASSUME IInv, [Next]_vars PROVE [Abstract!Next]_Abstract!vars
    OBVIOUS
<1> USE DEF IInv, TypeInv
<1>1. CASE ClientNext /\ UNCHANGED sessionVars
    <2>1. UNCHANGED Abstract!vars \/ Abstract!Client \/ Abstract!Disconnect
        BY <1>1, ClientAbstractStep
    <2> HIDE DEF IInv, TypeInv
    <2> QED
        BY <2>1 DEF Abstract!Next
<1>2. CASE SessionNext /\ UNCHANGED clientVars
    <2>1. ServerStep
        BY <1>2, SessionAbstractStep
    <2> HIDE DEF IInv, TypeInv
    <2> QED
        BY <2>1 DEF ServerStep, Abstract!Next
<1>3. CASE UNCHANGED vars
    BY <1>3, QuietStutters DEF vars, wireVars, sessionVars
<1> QED
    BY <1>1, <1>2, <1>3 DEF Next

\* For every window, queue and choice of the pool, a PCC session does what
\* RpcSession promises, and turns no call away: a call the client has a credit
\* for gets a slot and one response, and the session ends only after its client
\* has left, with no slot in use.
THEOREM ConnectionImplements == Spec => ImplementsRpcSession
<1>1. IInv /\ [Next]_vars => IInv'
    BY Inductive
<1>2. Init => IInv
    BY Inductive
<1> QED
    BY <1>1, <1>2, AbstractInit, AbstractStep, PTL
    DEF Spec, ImplementsRpcSession, Abstract!Spec
=============================================================================

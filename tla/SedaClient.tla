----------------------------- MODULE SedaClient -----------------------------
(***************************************************************************)
(* The SEDA client (sd_client.go): each connection of a session has a      *)
(* token bucket, a ring of queued requests, a sender goroutine that waits  *)
(* for tokens and a timer goroutine that drops requests past their delay.  *)
(* A critical section of cc.Lock is one step.  The caller holds ss.Lock    *)
(* from its first look at a bucket to the end of CrpcSendOne, so there is  *)
(* one caller at a time; its look at Head and Tail in csdEnqueueOne takes  *)
(* no lock of the connection and is two steps.                             *)
(*                                                                         *)
(* A bucket is the number of whole tokens in it, all that the code tests.  *)
(* Requests queue in time order, so those past CsdMaxClientDelayUs are a   *)
(* prefix of the queue.  The server is the environment: it answers or not. *)
(***************************************************************************)
EXTENDS Integers, FiniteSets

CONSTANTS NConns,        \* ss.Cmn.NConns: connections are added before use
          CrpcQlen,      \* the capacity of QReq
          Word,          \* 2^32: Head and Tail are uint32
          MaxToken,      \* CsdTbMaxToken
          SedaNReq,      \* the number of response times kept
          MaxUnanswered  \* bound: requests counted as waiting for an answer

ASSUME SedaAssumption ==
    /\ {NConns, CrpcQlen, Word, MaxToken, SedaNReq, MaxUnanswered} \subseteq Nat \ {0}
    /\ Word % CrpcQlen = 0 /\ CrpcQlen < Word

VARIABLES head, tail,    \* cc.Head, cc.Tail
          expired,       \* the oldest queued requests, past their delay
          token,         \* whole tokens in cc.TbToken
          resIdx,        \* cc.ResIdx % SedaNReq
          unanswered,    \* requests the server may still answer
          timer,         \* where csdTimer is
          sender,        \* where csdSender is
          due,           \* the sender's sleep is long enough for a token
          open,          \* the connection is not shut down
          running,       \* cc.Running, of all connections
          call,          \* where the caller is in CrpcSendOne
          next           \* ss.NextConnIdx

connVars == <<head, tail, expired, token, resIdx, unanswered, timer, sender, due, open>>
vars == <<connVars, running, call, next>>

Conns == 0..(NConns - 1)
MinOf(a, b) == IF a < b THEN a ELSE b

\* uint32 subtraction, and the length of a queue.
Sub(a, b) == (a - b) % Word
Queued(c) == Sub(head[c], tail[c])

\* Mutant: the queue may hold one request more than the ring has places.
HasRoomOffByOne(n) == n <= CrpcQlen

HasRoom(n) == n < CrpcQlen

\* tbRefillToken on n whole tokens: any time may have passed.
Refilled(n) == n..MaxToken

NoCall == [at |-> "none", i |-> 0, h |-> 0, t |-> 0]
Each(x) == [c \in Conns |-> x]

CrpcOpen ==
    /\ head = Each(0) /\ tail = Each(0) /\ expired = Each(0)
    /\ token = Each(0) /\ resIdx = Each(0) /\ unanswered = Each(0)
    /\ timer = Each("awake") /\ sender = Each("awake") /\ due = Each(TRUE)
    /\ open = Each(TRUE)
    /\ running = TRUE /\ call = NoCall /\ next = 0
-----------------------------------------------------------------------------
(* CrpcSendOne *)

\* The connection the loops of CrpcSendOne and csdEnqueueOne are at, and the
\* place they go to after it: the next connection, or the place given.
Current == (next + call.i) % NConns
Onward(place) ==
    IF call.i + 1 < NConns THEN [call EXCEPT !.i = @ + 1]
    ELSE [NoCall EXCEPT !.at = place]

\* A caller refills the bucket of c before it takes ss.Lock.
Refill(c) ==
    /\ running
    /\ \E n \in Refilled(token[c]) : token' = [token EXCEPT ![c] = n]
    /\ UNCHANGED <<head, tail, expired, resIdx, unanswered, timer, sender, due, open>>
    /\ UNCHANGED <<running, call, next>>

CrpcSendOne ==
    /\ running /\ call.at = "none"
    /\ call' = [NoCall EXCEPT !.at = "hot"]
    /\ UNCHANGED connVars /\ UNCHANGED <<running, next>>

\* Hot path: nothing is queued and there is a token.  It leaves a sleeping
\* sender (of a queue the timer has emptied) with fewer tokens than it slept for.
HotPath ==
    /\ call.at = "hot"
    /\ LET c == Current
       IN  \/ /\ head[c] = tail[c] /\ token[c] >= 1
              /\ token' = [token EXCEPT ![c] = @ - 1]
              /\ due' = [due EXCEPT ![c] = FALSE]
              /\ unanswered' = [unanswered EXCEPT ![c] = IF open[c] THEN MinOf(@ + 1, MaxUnanswered)
                                                       ELSE @]
              /\ next' = (next + 1) % NConns
              /\ call' = NoCall
           \/ /\ ~(head[c] = tail[c] /\ token[c] >= 1)
              /\ call' = Onward("look")
              /\ UNCHANGED <<token, due, unanswered, next>>
    /\ UNCHANGED <<head, tail, expired, resIdx, timer, sender, open, running>>

\* csdEnqueueOne looks for a connection with room: it loads Head and Tail, in
\* either order, without cc.Lock.
LoadFirst ==
    /\ call.at = "look"
    /\ \/ call' = [call EXCEPT !.at = "loadTail", !.h = head[Current]]
       \/ call' = [call EXCEPT !.at = "loadHead", !.t = tail[Current]]
    /\ UNCHANGED connVars /\ UNCHANGED <<running, next>>

LoadSecond ==
    /\ call.at \in {"loadTail", "loadHead"}
    /\ LET h == IF call.at = "loadHead" THEN head[Current] ELSE call.h
           t == IF call.at = "loadTail" THEN tail[Current] ELSE call.t
           looking == [call EXCEPT !.at = "look", !.h = 0, !.t = 0]
       IN  \/ /\ HasRoom(Sub(h, t))
              /\ call' = [NoCall EXCEPT !.at = "enqueue", !.i = Current]
              /\ next' = (Current + 1) % NConns
           \/ /\ ~HasRoom(Sub(h, t))
              /\ call' = IF call.i + 1 < NConns THEN [looking EXCEPT !.i = @ + 1] ELSE NoCall
              /\ UNCHANGED next
    /\ UNCHANGED connVars /\ UNCHANGED running

\* Mutant: the first request of a queue wakes the timer only.
WakeTimerOnly(c) ==
    /\ timer' = [timer EXCEPT ![c] = IF @ = "waiting" THEN "awake" ELSE @]
    /\ UNCHANGED sender

\* Mutant: the first request of a queue wakes nobody.
WakeNobody(c) == UNCHANGED <<timer, sender>>

\* TimerCondVar.Signal() and SenderCondVar.Signal().
Wake(c) ==
    /\ timer' = [timer EXCEPT ![c] = IF @ = "waiting" THEN "awake" ELSE @]
    /\ sender' = [sender EXCEPT ![c] = IF @ = "waiting" THEN "awake" ELSE @]

Enqueue ==
    /\ call.at = "enqueue"
    /\ call' = NoCall
    /\ LET c == call.i
       IN  \/ /\ HasRoom(Queued(c))
              /\ head' = [head EXCEPT ![c] = (@ + 1) % Word]
              /\ IF Sub(head'[c], tail[c]) = 1 THEN Wake(c) ELSE UNCHANGED <<timer, sender>>
           \/ ~HasRoom(Queued(c)) /\ UNCHANGED <<head, timer, sender>>
    /\ UNCHANGED <<tail, expired, token, resIdx, unanswered, due, open, running, next>>
-----------------------------------------------------------------------------
(* The goroutines of a connection *)

\* The oldest request that was within its delay no longer is.
Expire(c) ==
    /\ expired[c] < Queued(c)
    /\ expired' = [expired EXCEPT ![c] = @ + 1]
    /\ UNCHANGED <<head, tail, token, resIdx, unanswered, timer, sender, due, open>>
    /\ UNCHANGED <<running, call, next>>

\* One turn of csdTimer: it drops the expired requests, and starts the ring
\* over when that empties the queue.
csdTimer(c) ==
    /\ timer[c] = "awake"
    /\ \/ /\ ~running
          /\ timer' = [timer EXCEPT ![c] = "done"]
          /\ UNCHANGED <<head, tail, expired>>
       \/ /\ running /\ Queued(c) = 0
          /\ timer' = [timer EXCEPT ![c] = "waiting"]
          /\ UNCHANGED <<head, tail, expired>>
       \/ /\ running /\ Queued(c) > 0
          /\ LET empty == expired[c] = Queued(c)
             IN  /\ head' = [head EXCEPT ![c] = IF empty THEN 0 ELSE @]
                 /\ tail' = [tail EXCEPT ![c] = IF empty THEN 0
                                                ELSE (@ + expired[c]) % Word]
                 /\ timer' = [timer EXCEPT ![c] = IF empty THEN "waiting" ELSE "sleeping"]
          /\ expired' = [expired EXCEPT ![c] = 0]
    /\ UNCHANGED <<token, resIdx, unanswered, sender, due, open, running, call, next>>

\* time.Sleep returns.
TimerWakes(c) ==
    /\ timer[c] = "sleeping"
    /\ timer' = [timer EXCEPT ![c] = "awake"]
    /\ UNCHANGED <<head, tail, expired, token, resIdx, unanswered, sender, due, open>>
    /\ UNCHANGED <<running, call, next>>

\* The sender with n tokens and a queue: it drops the expired requests, and
\* csdSendRequestVector sends the others while there are tokens.  When a write
\* fails the request is gone and its token is not, so all of them go.  The ring
\* starts over when the last request is sent.
DropAndSend(c, n) ==
    LET left == Queued(c) - expired[c]
        sent == IF open[c] THEN MinOf(left, n) ELSE 0
        gone == IF open[c] THEN expired[c] + sent ELSE Queued(c)
        over == open[c] /\ left > 0 /\ gone = Queued(c)
    IN  /\ head' = [head EXCEPT ![c] = IF over THEN 0 ELSE @]
        /\ tail' = [tail EXCEPT ![c] = IF over THEN 0 ELSE (@ + gone) % Word]
        /\ expired' = [expired EXCEPT ![c] = 0]
        /\ token' = [token EXCEPT ![c] = n - sent]
        /\ unanswered' = [unanswered EXCEPT ![c] = MinOf(@ + sent, MaxUnanswered)]
        /\ sender' = [sender EXCEPT ![c] = IF ~running THEN "done"
                                           ELSE IF gone = Queued(c) THEN "waiting"
                                           ELSE "sleeping"]
        /\ due' = [due EXCEPT ![c] = TRUE]

csdSender(c) ==
    /\ sender[c] = "awake"
    /\ \/ /\ ~running \/ Queued(c) = 0
          /\ sender' = [sender EXCEPT ![c] = IF running THEN "waiting" ELSE "done"]
          /\ UNCHANGED <<head, tail, expired, token, unanswered, due>>
       \/ /\ running /\ Queued(c) > 0 /\ token[c] = 0
          /\ sender' = [sender EXCEPT ![c] = "sleeping"]
          /\ due' = [due EXCEPT ![c] = TRUE]
          /\ UNCHANGED <<head, tail, expired, token, unanswered>>
       \/ /\ running /\ Queued(c) > 0 /\ token[c] > 0
          /\ DropAndSend(c, token[c])
    /\ UNCHANGED <<resIdx, timer, open, running, call, next>>

\* tbSleepUntilNextToken returns, with a token unless the rate went down or the
\* hot path took one meanwhile; without one the sender sleeps again.  Nobody
\* looks at Running here.
SenderWakes(c) ==
    /\ sender[c] = "sleeping"
    /\ \E n \in Refilled(token[c]) :
          \/ /\ n > 0
             /\ DropAndSend(c, n)
          \/ /\ n = 0 /\ ~due[c]
             /\ due' = [due EXCEPT ![c] = TRUE]
             /\ UNCHANGED <<head, tail, expired, token, unanswered, sender>>
    /\ UNCHANGED <<resIdx, timer, open, running, call, next>>

\* csdUpdateTbRate: with SedaTimeout passed, or every SedaNReq responses, the
\* rate goes down, up or neither, after a refill.
UpdateTbRate(c) ==
    LET n == resIdx[c] + 1
    IN  \/ /\ n < SedaNReq
           /\ resIdx' = [resIdx EXCEPT ![c] = n]
           /\ UNCHANGED <<token, due>>
        \/ /\ resIdx' = [resIdx EXCEPT ![c] = 0]
           /\ \E k \in Refilled(token[c]) : token' = [token EXCEPT ![c] = k]
           /\ \E lowered \in BOOLEAN : due' = [due EXCEPT ![c] = @ /\ ~lowered]

\* CrpcRecvOne: an empty response (a dropped request) changes nothing.
CrpcRecvOne(c) ==
    /\ open[c] /\ unanswered[c] > 0
    /\ unanswered' = [unanswered EXCEPT ![c] = @ - 1]
    /\ UpdateTbRate(c) \/ UNCHANGED <<token, due, resIdx>>
    /\ UNCHANGED <<head, tail, expired, timer, sender, open, running, call, next>>
-----------------------------------------------------------------------------
(* The end *)

Shutdown(c) ==
    /\ open[c]
    /\ open' = [open EXCEPT ![c] = FALSE]
    /\ UNCHANGED <<head, tail, expired, token, resIdx, unanswered, timer, sender, due>>
    /\ UNCHANGED <<running, call, next>>

\* Mutant: the senders are not signalled.
CrpcCloseTimersOnly ==
    /\ running /\ call.at = "none"
    /\ running' = FALSE
    /\ timer' = [c \in Conns |-> IF timer[c] = "waiting" THEN "awake" ELSE timer[c]]
    /\ UNCHANGED <<head, tail, expired, token, resIdx, unanswered, sender, due, open, call,
                   next>>

\* CrpcClose, up to its wait for the goroutines.
CrpcClose ==
    /\ running /\ call.at = "none"
    /\ running' = FALSE
    /\ timer' = [c \in Conns |-> IF timer[c] = "waiting" THEN "awake" ELSE timer[c]]
    /\ sender' = [c \in Conns |-> IF sender[c] = "waiting" THEN "awake" ELSE sender[c]]
    /\ UNCHANGED <<head, tail, expired, token, resIdx, unanswered, due, open, call, next>>

Joined == \A c \in Conns : timer[c] = "done" /\ sender[c] = "done"

\* The rest of CrpcClose: the connections are closed.
CrpcCloseConns ==
    /\ ~running /\ Joined /\ \E c \in Conns : open[c]
    /\ open' = Each(FALSE)
    /\ UNCHANGED <<head, tail, expired, token, resIdx, unanswered, timer, sender, due>>
    /\ UNCHANGED <<running, call, next>>

CallNext == HotPath \/ LoadFirst \/ LoadSecond \/ Enqueue

Next ==
    \/ CrpcSendOne \/ CallNext \/ CrpcClose \/ CrpcCloseConns
    \/ \E c \in Conns :
          \/ Refill(c) \/ Expire(c) \/ csdTimer(c) \/ TimerWakes(c)
          \/ csdSender(c) \/ SenderWakes(c) \/ CrpcRecvOne(c) \/ Shutdown(c)

Spec == CrpcOpen /\ [][Next]_vars

\* The runtime runs every runnable goroutine, sleeps end, and time passes.
\* Nothing is assumed of the application or of the server.
FairSpec ==
    /\ Spec
    /\ WF_vars(CallNext) /\ WF_vars(CrpcCloseConns)
    /\ \A c \in Conns :
          /\ WF_vars(Expire(c))
          /\ WF_vars(csdTimer(c)) /\ WF_vars(TimerWakes(c))
          /\ WF_vars(csdSender(c)) /\ WF_vars(SenderWakes(c))
-----------------------------------------------------------------------------
(* Properties *)

\* No queued request is overwritten: the ring never holds more requests than
\* it has places, though the look at Head and Tail races with the sender and
\* the timer, the counters wrap, and they start over while the caller looks.
QueueWithinRing == \A c \in Conns : Queued(c) <= CrpcQlen /\ expired[c] <= Queued(c)

\* No wake-up is lost: the timer and the sender wait on their condition
\* variables only while nothing is queued, though they are signalled only by
\* the request that enters an empty queue.
NoSleepOnWork ==
    \A c \in Conns :
        running /\ (timer[c] = "waiting" \/ sender[c] = "waiting") => Queued(c) = 0

\* Requests past their delay leave the queue.
ExpiredLeave == \A c \in Conns : expired[c] > 0 ~> (expired[c] = 0 \/ ~running)

\* CrpcClose returns, though its sender may be waiting for a token and does
\* not look at Running until it has one.
CloseCompletes == ~running ~> \A c \in Conns : ~open[c]
=============================================================================

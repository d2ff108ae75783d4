-------------------------- MODULE SedaClientProofs --------------------------
(***************************************************************************)
(* The queue of a connection of the SEDA client, for every number of       *)
(* connections, every size of the ring and every width of its counters.    *)
(*                                                                         *)
(* QueueWithinRing and NoSleepOnWork are inductive together with the types *)
(* of what the goroutines read: QueueInv.  The work is in the arithmetic   *)
(* of counters that wrap.                                                  *)
(***************************************************************************)
EXTENDS SedaClient, TLAPS

Index == 0..(Word - 1)
Places == {"awake", "waiting", "sleeping", "done"}
Calls == [at : {"none", "hot", "look", "loadTail", "loadHead", "enqueue"},
          i : Conns, h : Index, t : Index]

\* What a caller under way has, and the connection it will use.
CallInv == call \in Calls /\ next \in Conns

QueueInv ==
    /\ head \in [Conns -> Index] /\ tail \in [Conns -> Index]
    /\ expired \in [Conns -> Nat] /\ token \in [Conns -> Nat]
    /\ timer \in [Conns -> Places] /\ sender \in [Conns -> Places]
    /\ running \in BOOLEAN
    /\ QueueWithinRing /\ NoSleepOnWork
-----------------------------------------------------------------------------
(* Counters that wrap *)

\* The remainder of a sum and of a difference of two counters.
LEMMA Remainder ==
    ASSUME NEW a \in Int
    PROVE  /\ a \in 0..(Word - 1) => a % Word = a
           /\ a \in Word..(2 * Word - 1) => a % Word = a - Word
           /\ a \in (-Word)..(-1) => a % Word = a + Word
<1>0. Word \in Nat /\ Word > 0
    BY SedaAssumption
<1>1. a \in 0..(Word - 1) => a % Word = a
    BY <1>0
<1>2. a \in Word..(2 * Word - 1) => a % Word = a - Word
    BY <1>0
<1>3. a \in (-Word)..(-1) => a % Word = a + Word
    BY <1>0
<1> QED
    BY <1>1, <1>2, <1>3

\* The length of a queue by cases.
LEMMA Length ==
    ASSUME NEW h \in Index, NEW t \in Index
    PROVE  /\ Sub(h, t) = IF h >= t THEN h - t ELSE h - t + Word
           /\ Sub(h, t) \in Index
<1>0. Word \in Nat /\ Word > 0
    BY SedaAssumption
<1>1. h - t \in Int /\ (h >= t => h - t \in 0..(Word - 1))
        /\ (h < t => h - t \in (-Word)..(-1))
    BY <1>0 DEF Index
<1> QED
    BY <1>0, <1>1, Remainder DEF Sub, Index

\* A request more makes the queue longer by one, as long as it is shorter than
\* the counters are wide.
LEMMA OneMore ==
    ASSUME NEW h \in Index, NEW t \in Index, Sub(h, t) < Word - 1
    PROVE  (h + 1) % Word \in Index /\ Sub((h + 1) % Word, t) = Sub(h, t) + 1
<1>0. Word \in Nat /\ Word > 0 /\ h \in Int /\ t \in Int
    BY SedaAssumption DEF Index
<1>1. (h + 1) % Word = IF h + 1 < Word THEN h + 1 ELSE 0
    BY <1>0, Remainder DEF Index
<1>2. (h + 1) % Word \in Index
    BY <1>0, <1>1 DEF Index
<1> DEFINE after == (h + 1) % Word
<1>3. Sub(after, t) = IF after >= t THEN after - t ELSE after - t + Word
    BY <1>2, Length
<1>4. Sub(h, t) = IF h >= t THEN h - t ELSE h - t + Word
    BY Length
<1>5. after = IF h + 1 < Word THEN h + 1 ELSE 0
    BY <1>1
<1> HIDE DEF after
<1>6. Sub(after, t) = Sub(h, t) + 1
    BY <1>0, <1>3, <1>4, <1>5 DEF Index
<1> QED
    BY <1>2, <1>6 DEF after

\* Requests that leave at the tail make it shorter by their number.
LEMMA SomeLess ==
    ASSUME NEW h \in Index, NEW t \in Index, NEW k \in 0..Sub(h, t)
    PROVE  (t + k) % Word \in Index /\ Sub(h, (t + k) % Word) = Sub(h, t) - k
<1>0. Word \in Nat /\ Word > 0 /\ h \in Int /\ t \in Int
    BY SedaAssumption DEF Index
<1>1. Sub(h, t) \in Index /\ k \in Int
    BY Length DEF Index
<1>2. t + k \in Int /\ t + k \in 0..(2 * Word - 1)
    BY <1>0, <1>1 DEF Index
<1>3. (t + k) % Word = IF t + k < Word THEN t + k ELSE t + k - Word
    BY <1>0, <1>2, Remainder
<1>4. (t + k) % Word \in Index
    BY <1>0, <1>2, <1>3 DEF Index
<1> DEFINE u == (t + k) % Word
<1>5. Sub(h, u) = IF h >= u THEN h - u ELSE h - u + Word
    BY <1>4, Length
<1>6. Sub(h, t) = IF h >= t THEN h - t ELSE h - t + Word
    BY Length
<1>7. u = IF t + k < Word THEN t + k ELSE t + k - Word
    BY <1>3
<1> HIDE DEF u
<1>8. Sub(h, u) = Sub(h, t) - k
    BY <1>0, <1>1, <1>5, <1>6, <1>7 DEF Index
<1> QED
    BY <1>4, <1>8 DEF u
-----------------------------------------------------------------------------
(* The caller *)

\* The numbers of the connections.
LEMMA ConnsFacts ==
    /\ 0 \in Conns /\ 0 \in Index /\ NConns \in Nat /\ NConns > 0
    /\ CrpcQlen \in Nat /\ CrpcQlen < Word /\ MaxToken \in Nat
    /\ \A n \in Nat : n % NConns \in Conns
BY SedaAssumption DEF Conns, Index

\* No caller is under way at first.
LEMMA CallInit == CrpcOpen => CallInv
BY ConnsFacts DEF CrpcOpen, CallInv, Calls, NoCall

\* The caller goes from connection to connection, and round.
LEMMA CallStep == QueueInv /\ CallInv /\ [Next]_vars => CallInv'
<1> SUFFICES ASSUME QueueInv, CallInv, [Next]_vars PROVE CallInv'
    OBVIOUS
<1> USE DEF CallInv, Calls
<1>0. Current \in Conns /\ call.i + 1 \in Nat /\ (Current + 1) % NConns \in Conns
        /\ (next + 1) % NConns \in Conns
    BY ConnsFacts DEF Current, Conns
<1>1. NoCall = [at |-> "none", i |-> 0, h |-> 0, t |-> 0] /\ NoCall \in Calls
    BY ConnsFacts DEF NoCall
<1>2. \A place \in {"none", "look"} : Onward(place) \in Calls
    BY <1>0, <1>1, ConnsFacts DEF Onward, Conns
<1>3. CASE UNCHANGED <<call, next>>
    BY <1>3
<1>4. CASE CrpcSendOne
    BY <1>1, <1>4 DEF CrpcSendOne
<1>5. CASE HotPath
    <2>1. call' \in Calls
        BY <1>1, <1>2, <1>5 DEF HotPath
    <2>2. next' \in Conns
        BY <1>0, <1>5 DEF HotPath
    <2> QED
        BY <2>1, <2>2
<1>6. CASE LoadFirst
    <2>1. head[Current] \in Index /\ tail[Current] \in Index
        BY <1>0 DEF QueueInv
    <2> QED
        BY <1>6, <2>1 DEF LoadFirst
<1>7. CASE LoadSecond
    <2>1. next' \in Conns
        BY <1>0, <1>7 DEF LoadSecond
    <2>2. CASE call' = [NoCall EXCEPT !.at = "enqueue", !.i = Current]
        BY <1>0, <1>1, <2>1, <2>2
    <2>3. CASE call' = NoCall
        BY <1>1, <2>1, <2>3
    <2>4. CASE call.i + 1 < NConns
               /\ call' = [[call EXCEPT !.at = "look", !.h = 0, !.t = 0] EXCEPT !.i = @ + 1]
        <3>1. call' = [at |-> "look", i |-> call.i + 1, h |-> 0, t |-> 0]
            BY <2>4
        <3>2. call.i + 1 \in Conns
            BY <1>0, <2>4, ConnsFacts DEF Conns
        <3> QED
            BY <2>1, <3>1, <3>2, ConnsFacts
    <2> QED
        BY <1>7, <2>2, <2>3, <2>4 DEF LoadSecond
<1>8. CASE Enqueue
    BY <1>1, <1>8 DEF Enqueue
<1>9. CASE CrpcClose \/ CrpcCloseConns
    BY <1>3, <1>9 DEF CrpcClose, CrpcCloseConns
<1>10. ASSUME NEW c \in Conns,
              \/ Refill(c) \/ Expire(c) \/ csdTimer(c) \/ TimerWakes(c)
              \/ csdSender(c) \/ SenderWakes(c) \/ CrpcRecvOne(c) \/ Shutdown(c)
       PROVE  CallInv'
    BY <1>3, <1>10 DEF Refill, Expire, csdTimer, TimerWakes, csdSender, SenderWakes,
                       CrpcRecvOne, Shutdown
<1>11. CASE UNCHANGED vars
    BY <1>3, <1>11 DEF vars
<1> QED
    BY <1>4, <1>5, <1>6, <1>7, <1>8, <1>9, <1>10, <1>11 DEF Next, CallNext
-----------------------------------------------------------------------------
(* The queue *)

\* A step that gives one connection new counters keeps the invariant, if they
\* are within the ring and nobody waits on a queue that is not empty.
LEMMA OneConn ==
    ASSUME QueueInv, NEW c \in Conns, NEW h \in Index, NEW t \in Index, NEW e \in Nat,
           e <= Sub(h, t), Sub(h, t) <= CrpcQlen,
           head' = [head EXCEPT ![c] = h], tail' = [tail EXCEPT ![c] = t],
           expired' = [expired EXCEPT ![c] = e],
           token' \in [Conns -> Nat], timer' \in [Conns -> Places],
           sender' \in [Conns -> Places],
           \A d \in Conns \ {c} : timer'[d] = timer[d] /\ sender'[d] = sender[d],
           running' = running,
           running /\ (timer'[c] = "waiting" \/ sender'[c] = "waiting") => Sub(h, t) = 0
    PROVE  QueueInv'
<1> USE DEF QueueInv
<1>1. \A d \in Conns : Sub(head'[d], tail'[d]) = IF d = c THEN Sub(h, t) ELSE Queued(d)
    BY DEF Queued
<1>2. QueueWithinRing'
    BY <1>1 DEF QueueWithinRing, Queued
<1>3. NoSleepOnWork'
    BY <1>1 DEF NoSleepOnWork, Queued
<1> QED
    BY <1>2, <1>3

\* The same when the counters stay as they are.
LEMMA SameCounters ==
    ASSUME QueueInv, UNCHANGED <<head, tail, expired, running>>,
           token' \in [Conns -> Nat], timer' \in [Conns -> Places],
           sender' \in [Conns -> Places],
           \A d \in Conns : (timer'[d] = "waiting" \/ sender'[d] = "waiting")
              => Queued(d) = 0 \/ timer[d] = "waiting" \/ sender[d] = "waiting"
    PROVE  QueueInv'
<1> USE DEF QueueInv
<1>1. QueueWithinRing'
    BY DEF QueueWithinRing, Queued
<1>2. NoSleepOnWork'
    BY DEF NoSleepOnWork, Queued
<1> QED
    BY <1>1, <1>2

\* The queues are empty at first.
LEMMA QueueInit == CrpcOpen => QueueInv
<1> SUFFICES ASSUME CrpcOpen PROVE QueueInv
    OBVIOUS
<1>1. Sub(0, 0) = 0
    BY ConnsFacts, Length
<1>2. /\ head = [c \in Conns |-> 0] /\ tail = [c \in Conns |-> 0]
      /\ expired = [c \in Conns |-> 0] /\ token = [c \in Conns |-> 0]
      /\ timer = [c \in Conns |-> "awake"] /\ sender = [c \in Conns |-> "awake"]
      /\ running = TRUE
    BY DEF CrpcOpen, Each
<1>3. QueueWithinRing /\ NoSleepOnWork
    BY <1>1, <1>2, ConnsFacts DEF QueueWithinRing, NoSleepOnWork, Queued
<1> QED
    BY <1>2, <1>3, ConnsFacts DEF QueueInv, Places

\* What the sender does with its tokens keeps the counters within the ring, and
\* it waits for a signal only when it has emptied the queue.
LEMMA Sends ==
    ASSUME QueueInv, NEW c \in Conns, NEW n \in Nat, DropAndSend(c, n),
           UNCHANGED <<timer, running>>
    PROVE  QueueInv'
<1> DEFINE q == Queued(c)
           left == q - expired[c]
           sent == IF open[c] THEN MinOf(left, n) ELSE 0
           gone == IF open[c] THEN expired[c] + sent ELSE q
           over == open[c] /\ left > 0 /\ gone = q
           h == IF over THEN 0 ELSE head[c]
           t == IF over THEN 0 ELSE (tail[c] + gone) % Word
<1>1. head[c] \in Index /\ tail[c] \in Index /\ expired[c] \in Nat
    BY DEF QueueInv
<1>2. q \in Nat /\ q = Sub(head[c], tail[c]) /\ expired[c] <= q /\ q <= CrpcQlen
    BY <1>1, Length DEF QueueInv, QueueWithinRing, Queued, Index
<1>3. sent \in 0..n /\ gone \in 0..q
    BY <1>1, <1>2 DEF MinOf
<1>4. (tail[c] + gone) % Word \in Index /\ Sub(head[c], (tail[c] + gone) % Word) = q - gone
    BY <1>1, <1>2, <1>3, SomeLess
<1>5. Sub(0, 0) = 0
    BY ConnsFacts, Length
<1>6. h \in Index /\ t \in Index /\ Sub(h, t) = q - gone
    <2>1. CASE over
        BY <1>2, <1>5, <2>1, ConnsFacts
    <2>2. CASE ~over
        BY <1>1, <1>4, <2>2
    <2> QED
        BY <2>1, <2>2
<1>7. /\ head' = [head EXCEPT ![c] = h] /\ tail' = [tail EXCEPT ![c] = t]
      /\ expired' = [expired EXCEPT ![c] = 0]
      /\ token' = [token EXCEPT ![c] = n - sent]
      /\ sender' = [sender EXCEPT ![c] = IF ~running THEN "done"
                                         ELSE IF gone = q THEN "waiting" ELSE "sleeping"]
    <2>1. head' = [head EXCEPT ![c] = h]
        BY <1>1 DEF DropAndSend, QueueInv
    <2>2. tail' = [tail EXCEPT ![c] = t]
        BY <1>1 DEF DropAndSend, QueueInv
    <2> QED
        BY <2>1, <2>2 DEF DropAndSend
<1> HIDE DEF q, left, sent, gone, over, h, t
<1>8. Sub(h, t) \in Nat /\ Sub(h, t) <= CrpcQlen /\ n - sent \in Nat
        /\ 0 \in Nat /\ 0 <= Sub(h, t)
    BY <1>2, <1>3, <1>6, ConnsFacts
<1>9. token' \in [Conns -> Nat] /\ sender' \in [Conns -> Places]
    BY <1>7, <1>8 DEF QueueInv, Places
<1>10. running /\ (timer'[c] = "waiting" \/ sender'[c] = "waiting") => Sub(h, t) = 0
    <2>1. CASE running /\ timer[c] = "waiting"
        <3>1. Queued(c) = 0
            BY <2>1 DEF QueueInv, NoSleepOnWork
        <3>2. q = 0
            BY <3>1 DEF q
        <3>3. gone = 0
            BY <1>2, <1>3, <3>2
        <3> QED
            BY <1>6, <3>2, <3>3
    <2>2. CASE running /\ sender'[c] = "waiting"
        <3>1. gone = q
            BY <1>7, <2>2 DEF QueueInv
        <3> QED
            BY <1>2, <1>3, <1>6, <3>1
    <2> QED
        BY <2>1, <2>2
<1>11. \A d \in Conns \ {c} : timer'[d] = timer[d] /\ sender'[d] = sender[d]
    BY <1>7 DEF QueueInv
<1>12. timer' \in [Conns -> Places] /\ running' = running
    BY DEF QueueInv
<1> QED
    BY <1>6, <1>7, <1>8, <1>9, <1>10, <1>11, <1>12, OneConn

\* Every step keeps the queues within their rings and loses no wake-up.
LEMMA QueueStep == QueueInv /\ CallInv /\ [Next]_vars => QueueInv'
<1> SUFFICES ASSUME QueueInv, CallInv, [Next]_vars PROVE QueueInv'
    OBVIOUS
<1>0. \A c \in Conns : /\ head[c] \in Index /\ tail[c] \in Index /\ expired[c] \in Nat
                        /\ Queued(c) \in Nat /\ Queued(c) = Sub(head[c], tail[c])
                        /\ expired[c] <= Queued(c) /\ Queued(c) <= CrpcQlen
    BY Length DEF QueueInv, QueueWithinRing, Queued, Index
<1>1. ASSUME UNCHANGED <<head, tail, expired, timer, sender, running>>,
             token' \in [Conns -> Nat]
      PROVE  QueueInv'
    BY <1>1, SameCounters DEF QueueInv
<1>2. CASE CrpcSendOne \/ LoadFirst \/ LoadSecond \/ CrpcCloseConns \/ UNCHANGED vars
    BY <1>1, <1>2 DEF CrpcSendOne, LoadFirst, LoadSecond, CrpcCloseConns, vars, connVars, QueueInv
<1>3. CASE HotPath
    <2>1. token' \in [Conns -> Nat]
        <3>1. CASE token' = token
            BY <3>1 DEF QueueInv
        <3>2. CASE Current \in Conns /\ token[Current] >= 1
                   /\ token' = [token EXCEPT ![Current] = @ - 1]
            BY <3>2 DEF QueueInv
        <3>3. Current \in Conns
            BY ConnsFacts DEF CallInv, Calls, Current, Conns
        <3> QED
            BY <1>3, <3>1, <3>2, <3>3 DEF HotPath
    <2> QED
        BY <1>1, <1>3, <2>1 DEF HotPath
<1>4. CASE Enqueue
    <2> DEFINE c == call.i
    <2>1. c \in Conns
        BY DEF CallInv, Calls
    <2> HIDE DEF c
    <2>2. CASE ~HasRoom(Queued(c)) /\ UNCHANGED <<head, timer, sender>>
        BY <1>1, <1>4, <2>2 DEF Enqueue, QueueInv
    <2>3. CASE /\ HasRoom(Queued(c))
               /\ head' = [head EXCEPT ![c] = (@ + 1) % Word]
               /\ IF Sub(head'[c], tail[c]) = 1 THEN Wake(c) ELSE UNCHANGED <<timer, sender>>
        <3> DEFINE h == (head[c] + 1) % Word
        <3>0. Sub(head[c], tail[c]) < Word - 1
            BY <1>0, <2>1, <2>3, ConnsFacts, SedaAssumption DEF HasRoom
        <3>1. h \in Index /\ Sub(h, tail[c]) = Queued(c) + 1
            BY <1>0, <2>1, <3>0, OneMore
        <3>2. head' = [head EXCEPT ![c] = h] /\ head'[c] = h
            BY <2>1, <2>3 DEF QueueInv
        <3> HIDE DEF h
        <3>3. Sub(h, tail[c]) <= CrpcQlen /\ expired[c] <= Sub(h, tail[c])
            BY <1>0, <2>1, <2>3, <3>1, ConnsFacts DEF HasRoom
        <3>4. /\ timer' \in [Conns -> Places] /\ sender' \in [Conns -> Places]
              /\ \A d \in Conns \ {c} : timer'[d] = timer[d] /\ sender'[d] = sender[d]
            BY <2>1, <2>3 DEF QueueInv, Wake, Places
        <3>5. running => timer'[c] # "waiting" /\ sender'[c] # "waiting"
            <4>1. CASE Queued(c) = 0
                <5>1. Wake(c)
                    BY <2>3, <3>1, <3>2, <4>1
                <5> QED
                    BY <2>1, <5>1 DEF Wake, QueueInv
            <4>2. CASE Queued(c) # 0
                <5>1. UNCHANGED <<timer, sender>>
                    BY <1>0, <2>1, <2>3, <3>1, <3>2, <4>2
                <5> QED
                    BY <2>1, <4>2, <5>1 DEF QueueInv, NoSleepOnWork
            <4> QED
                BY <4>1, <4>2
        <3>6. /\ tail' = [tail EXCEPT ![c] = tail[c]] /\ expired' = [expired EXCEPT ![c] = expired[c]]
              /\ token' \in [Conns -> Nat] /\ running' = running
            BY <1>4 DEF Enqueue, QueueInv
        <3> QED
            BY <1>0, <2>1, <3>1, <3>2, <3>3, <3>4, <3>5, <3>6, OneConn
    <2> QED
        BY <1>4, <2>2, <2>3 DEF Enqueue, c
<1>5. CASE CrpcClose
    <2>1. running' = FALSE /\ UNCHANGED <<head, tail, expired, token>>
            /\ timer' \in [Conns -> Places] /\ sender' \in [Conns -> Places]
        BY <1>5 DEF CrpcClose, QueueInv, Places
    <2> QED
        BY <2>1 DEF QueueInv, QueueWithinRing, NoSleepOnWork, Queued
<1>6. ASSUME NEW c \in Conns, Refill(c) \/ CrpcRecvOne(c) \/ Shutdown(c) PROVE QueueInv'
    <2>1. token' \in [Conns -> Nat]
        <3>1. CASE token' = token
            BY <3>1 DEF QueueInv
        <3>2. ASSUME NEW n \in Refilled(token[c]), token' = [token EXCEPT ![c] = n]
              PROVE  token' \in [Conns -> Nat]
            BY <3>2, ConnsFacts DEF QueueInv, Refilled
        <3> QED
            BY <1>6, <3>1, <3>2 DEF Refill, CrpcRecvOne, UpdateTbRate, Shutdown
    <2> QED
        BY <1>1, <1>6, <2>1 DEF Refill, CrpcRecvOne, Shutdown
<1>7. ASSUME NEW c \in Conns, Expire(c) PROVE QueueInv'
    <2>1. expired[c] + 1 \in Nat /\ expired[c] + 1 <= Queued(c)
        BY <1>0, <1>7 DEF Expire
    <2>2. /\ head' = [head EXCEPT ![c] = head[c]] /\ tail' = [tail EXCEPT ![c] = tail[c]]
          /\ expired' = [expired EXCEPT ![c] = expired[c] + 1]
          /\ token' \in [Conns -> Nat] /\ timer' = timer /\ sender' = sender
          /\ running' = running
        BY <1>7 DEF Expire, QueueInv
    <2>3. timer' \in [Conns -> Places] /\ sender' \in [Conns -> Places]
            /\ (running /\ (timer'[c] = "waiting" \/ sender'[c] = "waiting")
                  => Sub(head[c], tail[c]) = 0)
        BY <1>0, <2>2 DEF QueueInv, NoSleepOnWork
    <2> QED
        BY <1>0, <2>1, <2>2, <2>3, OneConn
<1>8. ASSUME NEW c \in Conns, csdTimer(c) PROVE QueueInv'
    <2>0. token' \in [Conns -> Nat] /\ sender' = sender /\ sender' \in [Conns -> Places]
            /\ running' = running
        BY <1>8 DEF csdTimer, QueueInv
    <2>1. CASE UNCHANGED <<head, tail, expired>> /\ timer' = [timer EXCEPT ![c] = "done"]
        BY <2>0, <2>1, SameCounters DEF QueueInv, Places
    <2>2. CASE UNCHANGED <<head, tail, expired>> /\ Queued(c) = 0
               /\ timer' = [timer EXCEPT ![c] = "waiting"]
        BY <2>0, <2>2, SameCounters DEF QueueInv, Places
    <2>3. CASE running /\ Queued(c) > 0 /\ UNCHANGED <<token, sender, running>>
               /\ expired' = [expired EXCEPT ![c] = 0]
               /\ LET empty == expired[c] = Queued(c)
                  IN  /\ head' = [head EXCEPT ![c] = IF empty THEN 0 ELSE @]
                      /\ tail' = [tail EXCEPT ![c] = IF empty THEN 0
                                                     ELSE (@ + expired[c]) % Word]
                      /\ timer' = [timer EXCEPT ![c] = IF empty THEN "waiting" ELSE "sleeping"]
        <3> DEFINE empty == expired[c] = Queued(c)
                   h == IF empty THEN 0 ELSE head[c]
                   t == IF empty THEN 0 ELSE (tail[c] + expired[c]) % Word
        <3>1. (tail[c] + expired[c]) % Word \in Index
                /\ Sub(head[c], (tail[c] + expired[c]) % Word) = Queued(c) - expired[c]
            BY <1>0, SomeLess
        <3>2. Sub(0, 0) = 0
            BY ConnsFacts, Length
        <3>3. h \in Index /\ t \in Index /\ Sub(h, t) = Queued(c) - expired[c]
            <4>1. CASE empty
                BY <1>0, <3>2, <4>1, ConnsFacts
            <4>2. CASE ~empty
                BY <1>0, <3>1, <4>2
            <4> QED
                BY <4>1, <4>2
        <3>4. /\ head' = [head EXCEPT ![c] = h] /\ tail' = [tail EXCEPT ![c] = t]
              /\ timer' = [timer EXCEPT ![c] = IF empty THEN "waiting" ELSE "sleeping"]
            BY <2>3 DEF QueueInv
        <3> HIDE DEF h, t
        <3>5. sender[c] # "waiting"
            BY <1>0, <2>3 DEF QueueInv, NoSleepOnWork
        <3>6. Sub(h, t) \in Nat /\ Sub(h, t) <= CrpcQlen /\ (empty => Sub(h, t) = 0)
                /\ 0 \in Nat /\ 0 <= Sub(h, t)
            BY <1>0, <3>3, ConnsFacts
        <3>7. timer' \in [Conns -> Places] /\ (timer'[c] = "waiting" => empty)
                /\ \A d \in Conns \ {c} : timer'[d] = timer[d]
            BY <3>4 DEF QueueInv, Places
        <3> HIDE DEF empty
        <3>8. running /\ (timer'[c] = "waiting" \/ sender'[c] = "waiting") => Sub(h, t) = 0
            BY <2>0, <3>5, <3>6, <3>7
        <3> QED
            BY <2>0, <2>3, <3>3, <3>4, <3>6, <3>7, <3>8, OneConn
    <2> QED
        BY <1>8, <2>1, <2>2, <2>3 DEF csdTimer
<1>9. ASSUME NEW c \in Conns, TimerWakes(c) PROVE QueueInv'
    BY <1>9, SameCounters DEF TimerWakes, QueueInv, Places
<1>10. ASSUME NEW c \in Conns, csdSender(c) PROVE QueueInv'
    <2>1. token[c] \in Nat /\ UNCHANGED <<timer, running>>
        BY <1>10 DEF csdSender, QueueInv
    <2>2. CASE DropAndSend(c, token[c])
        BY <2>1, <2>2, Sends
    <2>3. CASE UNCHANGED <<head, tail, expired, token>>
               /\ \/ running /\ Queued(c) = 0 /\ sender' = [sender EXCEPT ![c] = "waiting"]
                  \/ sender' = [sender EXCEPT ![c] = "done"]
                  \/ sender' = [sender EXCEPT ![c] = "sleeping"]
        BY <2>1, <2>3, SameCounters DEF QueueInv, Places
    <2> QED
        BY <1>10, <2>2, <2>3 DEF csdSender
<1>11. ASSUME NEW c \in Conns, SenderWakes(c) PROVE QueueInv'
    <2>1. PICK n \in Refilled(token[c]) :
              DropAndSend(c, n) \/ UNCHANGED <<head, tail, expired, token, sender>>
        BY <1>11 DEF SenderWakes
    <2>2. n \in Nat /\ UNCHANGED <<timer, running>>
        BY <1>11, ConnsFacts DEF SenderWakes, QueueInv, Refilled
    <2>3. CASE DropAndSend(c, n)
        BY <2>2, <2>3, Sends
    <2>4. CASE UNCHANGED <<head, tail, expired, token, sender>>
        BY <1>1, <2>2, <2>4 DEF QueueInv
    <2> QED
        BY <2>1, <2>3, <2>4
<1> QED
    BY <1>2, <1>3, <1>4, <1>5, <1>6, <1>7, <1>8, <1>9, <1>10, <1>11 DEF Next, CallNext

\* No queued request is overwritten, whatever the size of the ring, the width of
\* Head and Tail and the number of connections.
THEOREM RingNeverOverrun == Spec => []QueueWithinRing
<1>1. QueueInv => QueueWithinRing
    BY DEF QueueInv
<1> QED
    BY <1>1, QueueInit, QueueStep, CallInit, CallStep, PTL DEF Spec

\* Neither goroutine of a connection waits for a signal while requests are
\* queued.
THEOREM NoLostWakeUp == Spec => []NoSleepOnWork
<1>1. QueueInv => NoSleepOnWork
    BY DEF QueueInv
<1> QED
    BY <1>1, QueueInit, QueueStep, CallInit, CallStep, PTL DEF Spec
=============================================================================

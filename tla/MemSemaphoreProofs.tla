------------------------- MODULE MemSemaphoreProofs -------------------------
(***************************************************************************)
(* The memory semaphore keeps its accounts for every number of goroutines  *)
(* and every maximal capacity, and implements AdaptiveSemaphore: its       *)
(* owners are the holders, and its line is the callers of the queued       *)
(* waiter objects, each of which is parked on one object of its own.       *)
(***************************************************************************)
EXTENDS MemSemaphore, FiniteSetTheorems, TLAPS

Parked(g) == pc[g] = "parked"
Waking(g) == pc[g] = "waking"

\* The roles of waiter objects, in first-order form.
QueueDistinct ==
    \A i, j \in 1..Len(waiters) : waiters[i] = waiters[j] => i = j
PoolUnqueued == \A w \in pool : w \notin Queued
EmptyChannels == \A w \in pool \cup Queued : ch[w] = 0
ParkedOnLive == \A g \in Goroutines : Parked(g) => node[g] \in Waiters \ pool
ParkedDistinct ==
    \A g, h \in Goroutines :
        Parked(g) /\ Parked(h) /\ node[g] = node[h] => g = h
LiveHasCaller ==
    \A w \in Waiters \ pool : \E g \in Goroutines : Parked(g) /\ node[g] = w
WakingTarget ==
    \A g \in Goroutines :
        Waking(g) => /\ node[g] \in Waiters \ (pool \cup Queued)
                     /\ ch[node[g]] = 0
WakingDistinct ==
    \A g, h \in Goroutines :
        Waking(g) /\ Waking(h) /\ node[g] = node[h] => g = h
GrantOnItsWay ==
    \A w \in Waiters \ (pool \cup Queued) :
        ch[w] = 0 => \E g \in Goroutines : Waking(g) /\ node[g] = w

Roles ==
    /\ QueueDistinct /\ PoolUnqueued /\ EmptyChannels
    /\ ParkedOnLive /\ ParkedDistinct /\ LiveHasCaller
    /\ WakingTarget /\ WakingDistinct /\ GrantOnItsWay

\* The inductive invariant.
IInv == TypeOK /\ Roles /\ SlotAccounting /\ NoStrandedWaiters

USE SemaphoreAssumption

-----------------------------------------------------------------------------
LEMMA OwnersFinite == IsFiniteSet(Owners) /\ Cardinality(Owners) \in Nat
  <1>1. Owners \in SUBSET Goroutines
    BY DEF Owners
  <1>2. QED
    BY <1>1, FS_Subset, FS_CardinalityType

LEMMA QueuedAreWaiters == ASSUME TypeOK PROVE Queued \subseteq Waiters
  BY DEF TypeOK, Queued, Elements

LEMMA UpdateInRange ==
    ASSUME TypeOK, updateCapacity
    PROVE  cap' \in 1..MaxCap
  BY DEF TypeOK, updateCapacity, updateCapacityEg, updateCapacityTs, Clamp

LEMMA DrainedBounds ==
    ASSUME TypeOK, NEW c \in 1..MaxCap
    PROVE  /\ Drained(c) \in 0..Len(waiters)
           /\ count + Drained(c) < c => Drained(c) = Len(waiters)
           /\ count >= c => Drained(c) = 0
           /\ count < c => count + Drained(c) <= c
  <1>1. Len(waiters) \in Nat
    BY DEF TypeOK
  <1>2. QED
    BY <1>1 DEF TypeOK, Drained

\* What a sequence without repetition looks like when it is cut at n.
LEMMA CutQueue ==
    ASSUME NEW s \in Seq(Waiters), NEW n \in 0..Len(s),
           \A i, j \in 1..Len(s) : s[i] = s[j] => i = j
    PROVE  LET front == SubSeq(s, 1, n)
               rest == SubSeq(s, n + 1, Len(s))
           IN  /\ front \in Seq(Waiters) /\ rest \in Seq(Waiters)
               /\ Len(rest) = Len(s) - n
               /\ \A i, j \in 1..Len(rest) : rest[i] = rest[j] => i = j
               /\ \A w : w \in Elements(front) <=> \E i \in 1..n : w = s[i]
               /\ Elements(s) = Elements(front) \cup Elements(rest)
               /\ Elements(front) \cap Elements(rest) = {}
  <1> DEFINE front == SubSeq(s, 1, n)
             rest == SubSeq(s, n + 1, Len(s))
  <1>1. /\ front \in Seq(Waiters) /\ Len(front) = n
        /\ \A i \in 1..n : front[i] = s[i]
    OBVIOUS
  <1>2. /\ rest \in Seq(Waiters) /\ Len(rest) = Len(s) - n
        /\ \A i \in 1..(Len(s) - n) : rest[i] = s[n + i]
    OBVIOUS
  <1>3. DOMAIN front = 1..n /\ DOMAIN rest = 1..(Len(s) - n) /\ DOMAIN s = 1..Len(s)
    BY <1>1, <1>2
  <1> HIDE DEF front, rest
  <1>4. \A w : w \in Elements(front) <=> \E i \in 1..n : w = s[i]
    BY <1>1, <1>3 DEF Elements
  <1>5. \A w : w \in Elements(rest) <=> \E i \in (n + 1)..Len(s) : w = s[i]
    <2>1. \A i \in (n + 1)..Len(s) : i - n \in 1..(Len(s) - n) /\ s[i] = rest[i - n]
      BY <1>2
    <2>2. \A i \in 1..(Len(s) - n) : n + i \in (n + 1)..Len(s)
      OBVIOUS
    <2>3. \A w : w \in Elements(rest) <=> \E k \in 1..(Len(s) - n) : w = rest[k]
      BY <1>3, Zenon DEF Elements
    <2>4. \A w : (\E k \in 1..(Len(s) - n) : w = rest[k])
                    => \E i \in (n + 1)..Len(s) : w = s[i]
      BY <1>2, <2>2
    <2>5. \A w : (\E i \in (n + 1)..Len(s) : w = s[i])
                    => \E k \in 1..(Len(s) - n) : w = rest[k]
      BY <2>1
    <2>6. QED
      BY <2>3, <2>4, <2>5, Zenon
  <1>6. Elements(s) = Elements(front) \cup Elements(rest)
    <2>1. 1..Len(s) = 1..n \cup (n + 1)..Len(s)
      OBVIOUS
    <2>2. \A w : w \in Elements(s) <=> \E i \in 1..Len(s) : w = s[i]
      BY <1>3 DEF Elements
    <2>3. QED
      BY <2>1, <2>2, <1>4, <1>5
  <1>7. Elements(front) \cap Elements(rest) = {}
    BY <1>4, <1>5
  <1>8. \A i, j \in 1..Len(rest) : rest[i] = rest[j] => i = j
    BY <1>2
  <1>9. QED
    BY <1>1, <1>2, <1>4, <1>6, <1>7, <1>8 DEF front, rest

\* The callers parked on the first n objects of the queue.
FrontCallers(n) ==
    {h \in Goroutines : Parked(h) /\ node[h] \in Elements(SubSeq(waiters, 1, n))}

\* They are n.
LEMMA ServedCallers ==
    ASSUME TypeOK, Roles, NEW n \in 0..Len(waiters)
    PROVE  IsFiniteSet(FrontCallers(n)) /\ Cardinality(FrontCallers(n)) = n
  <1> DEFINE served == Elements(SubSeq(waiters, 1, n))
             S == {h \in Goroutines : Parked(h) /\ node[h] \in served}
             f == [i \in 1..n |->
                     CHOOSE h \in Goroutines : Parked(h) /\ node[h] = waiters[i]]
  <1>1. \A w : w \in served <=> \E i \in 1..n : w = waiters[i]
    BY CutQueue DEF TypeOK, Roles, QueueDistinct
  <1>2. \A i \in 1..n : waiters[i] \in Waiters \ pool
    BY DEF TypeOK, Roles, PoolUnqueued, Queued, Elements
  <1>3. \A i \in 1..n : f[i] \in Goroutines /\ Parked(f[i]) /\ node[f[i]] = waiters[i]
    BY <1>2 DEF Roles, LiveHasCaller
  <1>4. \A i, j \in 1..n : waiters[i] = waiters[j] => i = j
    BY DEF TypeOK, Roles, QueueDistinct
  <1>5. f \in [1..n -> S]
    BY <1>1, <1>3
  <1>6. \A i, j \in 1..n : f[i] = f[j] => i = j
    BY <1>3, <1>4
  <1>7. \A h \in S : \E i \in 1..n : f[i] = h
    <2> SUFFICES ASSUME NEW h \in S PROVE \E i \in 1..n : f[i] = h
      OBVIOUS
    <2>1. PICK i \in 1..n : node[h] = waiters[i]
      BY <1>1
    <2>2. f[i] = h
      BY <1>3, <2>1 DEF Roles, ParkedDistinct
    <2>3. QED
      BY <2>2
  <1>8. f \in Bijection(1..n, S)
    BY <1>5, <1>6, <1>7, ZenonT(30) DEF Bijection, Injection, Surjection, IsInjective
  <1>9. ExistsBijection(1..n, S)
    BY <1>8 DEF ExistsBijection
  <1>10. n \in Nat
    OBVIOUS
  <1>11. Cardinality(S) = n /\ IsFiniteSet(S)
    BY <1>9, <1>10, FS_CountingElements, FS_NatBijection
  <1>12. QED
    BY <1>11 DEF FrontCallers

-----------------------------------------------------------------------------
(* Each action preserves the invariant, and what it does to the owners. *)

LEMMA TryWaitStep ==
    ASSUME IInv, NEW g \in Goroutines, TryWait(g)
    PROVE  IInv' /\ Owners' = IF count < cap' THEN Owners \cup {g} ELSE Owners
  <1> USE DEF IInv
  <1>1. cap' \in 1..MaxCap
    BY UpdateInRange DEF TryWait
  <1>2. TypeOK'
    BY <1>1 DEF TypeOK, TryWait
  <1>3. Queued' = Queued /\ \A h \in Goroutines : Parked(h)' = Parked(h) /\ Waking(h)' = Waking(h)
    BY DEF TryWait, Queued, Parked, Waking, TypeOK
  <1>4. Roles'
    BY <1>3 DEF TryWait, Roles, TypeOK, QueueDistinct, PoolUnqueued, EmptyChannels, ParkedOnLive,
        ParkedDistinct, LiveHasCaller, WakingTarget, WakingDistinct, GrantOnItsWay
  <1>5. CASE count < cap'
    <2>1. Owners' = Owners \cup {g} /\ g \notin Owners
      BY <1>3, <1>5 DEF TryWait, Owners, TypeOK, Parked
    <2>2. SlotAccounting'
      BY <1>5, <2>1, OwnersFinite, FS_AddElement, ZenonT(30) DEF SlotAccounting, TryWait
    <2>3. NoStrandedWaiters'
      BY <1>5 DEF NoStrandedWaiters, TryWait, TypeOK
    <2>4. QED
      BY <1>2, <1>4, <1>5, <2>1, <2>2, <2>3
  <1>6. CASE ~(count < cap')
    <2>1. Owners' = Owners /\ count' = count /\ waiters' = waiters
      BY <1>3, <1>6 DEF TryWait, Owners, TypeOK
    <2>2. QED
      BY <2>1, <1>2, <1>4, <1>6 DEF SlotAccounting, NoStrandedWaiters
  <1>7. QED
    BY <1>5, <1>6

LEMMA WaitReceiveStep ==
    ASSUME IInv, NEW g \in Goroutines, WaitReceive(g)
    PROVE  IInv' /\ Owners' = Owners
  <1> USE DEF IInv
  <1> DEFINE w == node[g]
  <1>1. w \in Waiters /\ w \notin pool /\ w \notin Queued /\ ch[w] = 1
    BY DEF WaitReceive, TypeOK, Roles, Parked, ParkedOnLive, EmptyChannels
  <1>2. TypeOK'
    BY <1>1 DEF TypeOK, WaitReceive
  <1>3. /\ Queued' = Queued /\ Elements(waiters') = Elements(waiters)
        /\ \A h \in Goroutines \ {g} :
              Parked(h)' = Parked(h) /\ Waking(h)' = Waking(h) /\ node'[h] = node[h]
        /\ ~Parked(g)' /\ ~Waking(g)' /\ Parked(g) /\ ~Waking(g)
    BY DEF WaitReceive, Queued, Parked, Waking, TypeOK
  <1>4. \A h \in Goroutines : ~(Waking(h) /\ node[h] = w)
    BY <1>1 DEF Roles, WakingTarget
  <1>5. ch'[w] = 0 /\ \A v \in Waiters \ {w} : ch'[v] = ch[v]
    BY <1>1 DEF WaitReceive, TypeOK
  <1>6. pool' = pool \cup {w} /\ waiters' = waiters
    BY DEF WaitReceive
  <1>7. Roles'
    <2>1. QueueDistinct'
      BY <1>1, <1>3, <1>4, <1>5, <1>6 DEF Roles, TypeOK, QueueDistinct
    <2>2. PoolUnqueued'
      BY <1>1, <1>3, <1>4, <1>5, <1>6 DEF Roles, TypeOK, PoolUnqueued
    <2>3. EmptyChannels'
      BY <1>1, <1>3, <1>4, <1>5, <1>6, QueuedAreWaiters DEF Roles, TypeOK, EmptyChannels, PoolUnqueued
    <2>4. ParkedOnLive'
      BY <1>1, <1>3, <1>4, <1>5, <1>6 DEF Roles, TypeOK, ParkedOnLive, ParkedDistinct
    <2>5. ParkedDistinct'
      BY <1>1, <1>3, <1>4, <1>5, <1>6 DEF Roles, TypeOK, ParkedDistinct
    <2>6. LiveHasCaller'
      BY <1>1, <1>3, <1>4, <1>5, <1>6 DEF Roles, TypeOK, LiveHasCaller
    <2>7. WakingTarget'
      BY <1>1, <1>3, <1>4, <1>5, <1>6 DEF Roles, TypeOK, WakingTarget, WakingDistinct
    <2>8. WakingDistinct'
      BY <1>1, <1>3, <1>4, <1>5, <1>6 DEF Roles, TypeOK, WakingDistinct
    <2>9. GrantOnItsWay'
      BY <1>1, <1>3, <1>4, <1>5, <1>6 DEF Roles, TypeOK, GrantOnItsWay, LiveHasCaller
    <2>10. QED
      BY <2>1, <2>2, <2>3, <2>4, <2>5, <2>6, <2>7, <2>8, <2>9 DEF Roles
  <1>8. Owners' = Owners
    BY <1>1, <1>3 DEF Owners, WaitReceive, TypeOK
  <1>9. SlotAccounting' /\ NoStrandedWaiters'
    BY <1>8 DEF SlotAccounting, NoStrandedWaiters, WaitReceive
  <1>10. QED
    BY <1>2, <1>7, <1>8, <1>9

LEMMA PostSendStep ==
    ASSUME IInv, NEW g \in Goroutines, PostSend(g)
    PROVE  IInv' /\ Owners' = Owners
  <1> USE DEF IInv
  <1> DEFINE w == node[g]
  <1>1. w \in Waiters /\ w \notin pool /\ w \notin Queued /\ ch[w] = 0
    BY DEF PostSend, TypeOK, Roles, Waking, WakingTarget
  <1>2. TypeOK'
    BY <1>1 DEF TypeOK, PostSend
  <1>3. /\ Queued' = Queued
        /\ \A h \in Goroutines \ {g} :
              Parked(h)' = Parked(h) /\ Waking(h)' = Waking(h) /\ node'[h] = node[h]
        /\ ~Parked(g)' /\ ~Waking(g)' /\ ~Parked(g) /\ Waking(g)
    BY DEF PostSend, Queued, Parked, Waking, TypeOK
  <1>4. ch'[w] = 1 /\ \A v \in Waiters \ {w} : ch'[v] = ch[v]
    BY <1>1 DEF PostSend, TypeOK
  <1>5. pool' = pool /\ waiters' = waiters
    BY DEF PostSend
  <1>6. Roles'
    <2>1. QueueDistinct'
      BY <1>1, <1>3, <1>4, <1>5 DEF Roles, TypeOK, QueueDistinct
    <2>2. PoolUnqueued'
      BY <1>1, <1>3, <1>4, <1>5 DEF Roles, TypeOK, PoolUnqueued
    <2>3. EmptyChannels'
      BY <1>1, <1>3, <1>4, <1>5, QueuedAreWaiters DEF Roles, TypeOK, EmptyChannels, PoolUnqueued
    <2>4. ParkedOnLive'
      BY <1>1, <1>3, <1>4, <1>5 DEF Roles, TypeOK, ParkedOnLive, ParkedDistinct
    <2>5. ParkedDistinct'
      BY <1>1, <1>3, <1>4, <1>5 DEF Roles, TypeOK, ParkedDistinct
    <2>6. LiveHasCaller'
      BY <1>1, <1>3, <1>4, <1>5 DEF Roles, TypeOK, LiveHasCaller
    <2>7. WakingTarget'
      BY <1>1, <1>3, <1>4, <1>5 DEF Roles, TypeOK, WakingTarget, WakingDistinct
    <2>8. WakingDistinct'
      BY <1>1, <1>3, <1>4, <1>5 DEF Roles, TypeOK, WakingDistinct
    <2>9. GrantOnItsWay'
      BY <1>1, <1>3, <1>4, <1>5 DEF Roles, TypeOK, GrantOnItsWay, LiveHasCaller
    <2>10. QED
      BY <2>1, <2>2, <2>3, <2>4, <2>5, <2>6, <2>7, <2>8, <2>9 DEF Roles
  <1>7. Owners' = Owners
    BY <1>3 DEF Owners, PostSend, TypeOK
  <1>8. SlotAccounting' /\ NoStrandedWaiters'
    BY <1>7 DEF SlotAccounting, NoStrandedWaiters, PostSend
  <1>9. QED
    BY <1>2, <1>6, <1>7, <1>8

LEMMA PostStep ==
    ASSUME IInv, NEW g \in Goroutines, Post(g)
    PROVE  /\ IInv' /\ g \in Owners
           /\ \/ (count > cap' \/ waiters = <<>>) /\ Owners' = Owners \ {g}
              \/ /\ count <= cap' /\ waiters # <<>>
                 /\ \E h \in Goroutines : /\ Parked(h) /\ node[h] = Head(waiters)
                                          /\ Owners' = (Owners \ {g}) \cup {h}
  <1> USE DEF IInv
  <1>1. cap' \in 1..MaxCap
    BY UpdateInRange DEF Post
  <1>2. g \in Owners /\ ~Parked(g) /\ ~Waking(g) /\ ~Parked(g)'
    BY DEF Post, Owners, Parked, Waking, TypeOK
  <1>3. count = Cardinality(Owners) /\ count \in Nat /\ count > 0
    BY <1>2, OwnersFinite, FS_EmptySet DEF SlotAccounting
  <1>4. CASE count > cap' \/ waiters = <<>>
    <2>1. count' = count - 1 /\ waiters' = waiters /\ Queued' = Queued
      BY <1>4, <1>1, <1>3 DEF Post, Queued, TypeOK
    <2>2. TypeOK'
      BY <1>1, <1>3, <1>4, <2>1 DEF Post, TypeOK
    <2>3. \A h \in Goroutines :
             /\ Parked(h)' = Parked(h) /\ Waking(h)' = Waking(h)
             /\ node'[h] = node[h]
      BY <1>1, <1>3, <1>4 DEF Post, Parked, Waking, TypeOK
    <2>4. Roles'
      BY <2>1, <2>3 DEF Post, Roles, TypeOK, QueueDistinct, PoolUnqueued,
         EmptyChannels, ParkedOnLive, ParkedDistinct, LiveHasCaller,
         WakingTarget, WakingDistinct, GrantOnItsWay
    <2>5. Owners' = Owners \ {g}
      BY <1>1, <1>3, <1>4, <2>1 DEF Post, Owners, TypeOK
    <2>6. SlotAccounting'
      BY <1>2, <1>3, <2>1, <2>5, OwnersFinite, FS_RemoveElement, ZenonT(30) DEF SlotAccounting
    <2>7. NoStrandedWaiters'
      BY <1>1, <1>3, <1>4, <2>1 DEF NoStrandedWaiters
    <2>8. QED
      BY <1>2, <1>4, <2>2, <2>4, <2>5, <2>6, <2>7
  <1>5. CASE count <= cap' /\ waiters # <<>>
    <2> DEFINE w == Head(waiters)
    <2>1. /\ waiters' = Tail(waiters) /\ count' = count
          /\ pool' = pool /\ ch' = ch
          /\ node'[g] = w /\ Waking(g)'
          /\ \A h \in Goroutines \ {g} :
                /\ Parked(h)' = Parked(h) /\ Waking(h)' = Waking(h)
                /\ node'[h] = node[h]
      BY <1>1, <1>3, <1>5 DEF Post, Parked, Waking, TypeOK
    <2>2. /\ w \in Waiters /\ w \in Queued
          /\ Tail(waiters) \in Seq(Waiters)
          /\ Len(Tail(waiters)) = Len(waiters) - 1
          /\ \A i \in 1..(Len(waiters) - 1) : Tail(waiters)[i] = waiters[i + 1]
      BY <1>5 DEF TypeOK, Queued, Elements
    <2>3. QueueDistinct'
      BY <2>1, <2>2 DEF Roles, QueueDistinct, TypeOK
    <2>4. Queued' = Queued \ {w}
      <3>1. \A i, j \in 1..Len(waiters) : waiters[i] = waiters[j] => i = j
        BY DEF Roles, QueueDistinct
      <3>2. \A v : v \in Queued <=> \E i \in 1..Len(waiters) : v = waiters[i]
        BY DEF TypeOK, Queued, Elements
      <3>3. \A v : v \in Queued' <=> \E i \in 1..(Len(waiters) - 1) : v = waiters[i + 1]
        <4>1. DOMAIN Tail(waiters) = 1..(Len(waiters) - 1)
          BY <2>2
        <4>2. Queued' = {Tail(waiters)[i] : i \in 1..(Len(waiters) - 1)}
          BY <2>1, <4>1, ZenonT(30) DEF Queued, Elements
        <4>3. QED
          BY <2>2, <4>2
      <3>4. w = waiters[1] /\ Len(waiters) \in Nat \ {0}
        BY <1>5 DEF TypeOK
      <3>5. \A v \in Queued' : v \in Queued /\ v # w
        BY <3>1, <3>2, <3>3, <3>4
      <3>6. ASSUME NEW v \in Queued, v # w PROVE v \in Queued'
        <4>1. PICK i \in 1..Len(waiters) : v = waiters[i]
          BY <3>2
        <4>2. i - 1 \in 1..(Len(waiters) - 1) /\ v = waiters[(i - 1) + 1]
          BY <4>1, <3>4, <3>6
        <4>3. QED
          BY <4>2, <3>3, ZenonT(30)
      <3>7. QED
        BY <3>5, <3>6
    <2>5. TypeOK'
      <3>1. pc' = [pc EXCEPT ![g] = "waking"] /\ node' = [node EXCEPT ![g] = w]
        BY <1>1, <1>3, <1>5 DEF Post, TypeOK
      <3>2. /\ pc' \in [Goroutines -> {"outside", "holding", "parked", "waking"}]
            /\ node' \in [Goroutines -> Waiters \cup {NoWaiter}]
        BY <2>2, <3>1 DEF TypeOK
      <3>3. waiters' \in Seq(Waiters) /\ count' \in Nat /\ ch' = ch /\ pool' = pool
        BY <1>3, <2>1, <2>2
      <3>4. QED
        BY <1>1, <3>2, <3>3 DEF TypeOK
    <2>6. w \notin pool /\ ch[w] = 0
      BY <2>2 DEF Roles, PoolUnqueued, EmptyChannels
    <2>7. Roles'
      <3>1. PoolUnqueued' /\ EmptyChannels'
        BY <2>1, <2>4 DEF Roles, PoolUnqueued, EmptyChannels
      <3>2. ParkedOnLive' /\ ParkedDistinct'
        BY <1>2, <2>1 DEF Roles, ParkedOnLive, ParkedDistinct
      <3>3. LiveHasCaller'
        BY <1>2, <2>1 DEF Roles, LiveHasCaller
      <3>4. WakingTarget'
        BY <1>2, <2>1, <2>2, <2>4, <2>6 DEF Roles, WakingTarget
      <3>5. WakingDistinct'
        BY <1>2, <2>1, <2>2 DEF Roles, WakingDistinct, WakingTarget
      <3>6. GrantOnItsWay'
        BY <1>2, <2>1, <2>2, <2>4 DEF Roles, GrantOnItsWay
      <3>7. QED
        BY <2>3, <3>1, <3>2, <3>3, <3>4, <3>5, <3>6 DEF Roles
    <2>8. PICK h \in Goroutines : Parked(h) /\ node[h] = w
      BY <2>2, <2>6 DEF Roles, LiveHasCaller
    <2>9. h \notin Owners /\ h # g
      BY <1>2, <2>2, <2>8 DEF Owners, Parked
    <2>10. Owners' = (Owners \ {g}) \cup {h}
      <3>1. \A x \in Goroutines \ {g} :
               x \in Owners' <=> \/ pc[x] = "holding"
                                 \/ Parked(x) /\ node[x] \notin Queued \ {w}
        BY <1>1, <1>3, <1>5, <2>1, <2>4 DEF Owners, Parked, Post, TypeOK
      <3>2. \A x \in Goroutines :
               x \in Owners <=> \/ pc[x] = "holding"
                                \/ Parked(x) /\ node[x] \notin Queued
        BY DEF Owners, Parked
      <3>3. \A x \in Goroutines : Parked(x) /\ node[x] = w => x = h
        BY <2>8 DEF Roles, ParkedDistinct
      <3>4. g \notin Owners'
        BY <2>1 DEF Owners, Waking
      <3>5. Owners' \subseteq Goroutines /\ Owners \subseteq Goroutines
        BY DEF Owners
      <3>6. QED
        BY <2>2, <2>8, <2>9, <3>1, <3>2, <3>3, <3>4, <3>5
    <2>11. SlotAccounting'
      <3>1. /\ IsFiniteSet(Owners \ {g})
            /\ Cardinality(Owners \ {g}) = Cardinality(Owners) - 1
        BY <1>2, OwnersFinite, FS_RemoveElement
      <3>2. Cardinality(Owners') = Cardinality(Owners \ {g}) + 1
        BY <3>1, <2>9, <2>10, FS_AddElement, ZenonT(30)
      <3>3. QED
        BY <1>3, <2>1, <3>1, <3>2, OwnersFinite DEF SlotAccounting
    <2>12. NoStrandedWaiters'
      BY <1>3, <2>1 DEF NoStrandedWaiters
    <2>13. QED
      BY <1>2, <1>5, <2>5, <2>7, <2>8, <2>10, <2>11, <2>12
  <1>6. QED
    BY <1>1, <1>3, <1>4, <1>5

LEMMA WaitStep ==
    ASSUME IInv, NEW g \in Goroutines, Wait(g)
    PROVE  /\ IInv'
           /\ LET n == Drained(cap')
              IN  \/ count + n < cap' /\ Owners' = (Owners \cup FrontCallers(n)) \cup {g}
                  \/ count + n >= cap' /\ Owners' = Owners \cup FrontCallers(n)
  <1> USE DEF IInv
  <1> DEFINE n == Drained(cap')
             front == SubSeq(waiters, 1, n)
             served == Elements(front)
             rest == SubSeq(waiters, n + 1, Len(waiters))
             S == FrontCallers(n)
  <1>1. cap' \in 1..MaxCap
    BY UpdateInRange DEF Wait
  <1>2. /\ n \in 0..Len(waiters) /\ n \in Nat
        /\ count + n < cap' => n = Len(waiters)
        /\ count >= cap' => n = 0
        /\ count < cap' => count + n <= cap'
    <2>1. Len(waiters) \in Nat
      BY DEF TypeOK
    <2>2. QED
      BY <1>1, <2>1, DrainedBounds
  <1>3. /\ rest \in Seq(Waiters) /\ Len(rest) = Len(waiters) - n
        /\ \A i, j \in 1..Len(rest) : rest[i] = rest[j] => i = j
        /\ Queued = served \cup Elements(rest)
        /\ served \cap Elements(rest) = {}
    BY <1>2, CutQueue, ZenonT(30) DEF TypeOK, Roles, QueueDistinct, Queued
  <1>4. IsFiniteSet(S) /\ Cardinality(S) = n
    BY <1>2, ServedCallers
  <1>5. served \subseteq Waiters /\ \A w \in served : ch[w] = 0 /\ w \notin pool
    BY <1>3, QueuedAreWaiters DEF Roles, EmptyChannels, PoolUnqueued
  <1>6. ch' = [w \in Waiters |-> IF w \in served THEN ch[w] + 1 ELSE ch[w]]
    BY DEF Wait
  <1>7. ch' \in [Waiters -> {0, 1}]
    BY <1>5, <1>6 DEF TypeOK
  <1>8. pc[g] = "outside" /\ ~Parked(g) /\ ~Waking(g) /\ g \notin Owners
    BY DEF Wait, Parked, Waking, Owners
  <1>0. S = {h \in Goroutines : Parked(h) /\ node[h] \in served}
    BY DEF FrontCallers
  <1> HIDE DEF n, front, served, rest, S
  \* The callers whose objects were drained become owners.
  <1>9. /\ Owners \cap S = {} /\ Owners \cup S \in SUBSET Goroutines
        /\ IsFiniteSet(Owners \cup S) /\ Cardinality(Owners \cup S) = count + n
        /\ g \notin Owners \cup S
    <2>1. Owners \cap S = {}
      BY <1>0, <1>3 DEF Owners, Parked
    <2>2. g \notin S /\ S \in SUBSET Goroutines /\ Owners \in SUBSET Goroutines
      BY <1>0, <1>8 DEF Owners
    <2>3. /\ IsFiniteSet(Owners \cup S)
          /\ Cardinality(Owners \cup S) =
               Cardinality(Owners) + Cardinality(S) - Cardinality(Owners \cap S)
      BY <1>4, OwnersFinite, FS_Union
    <2>4. Cardinality(Owners \cap S) = 0
      BY <2>1, FS_EmptySet
    <2>5. QED
      BY <1>2, <1>4, <1>8, <2>1, <2>2, <2>3, <2>4, OwnersFinite DEF SlotAccounting
  <1>10. \A h \in Goroutines :
            h \in Owners \cup S <=> \/ pc[h] = "holding"
                                    \/ Parked(h) /\ node[h] \notin Elements(rest)
    BY <1>0, <1>3 DEF Owners, Parked
  <1>11. CASE count + n < cap'
    <2>1. /\ count' = count + n + 1 /\ waiters' = rest
          /\ pc' = [pc EXCEPT ![g] = "holding"]
          /\ pool' = pool /\ node' = node
      BY <1>1, <1>2, <1>11 DEF Wait, n, rest, TypeOK
    <2>2. rest = <<>> /\ Elements(rest) = {} /\ Queued' = {}
      <3>1. rest = <<>>
        BY <1>2, <1>3, <1>11
      <3>2. QED
        BY <3>1, <2>1 DEF Elements, Queued
    <2>3. \A h \in Goroutines :
             Parked(h)' = Parked(h) /\ Waking(h)' = Waking(h) /\ node'[h] = node[h]
      BY <1>8, <2>1 DEF Parked, Waking, TypeOK
    <2>4. TypeOK'
      BY <1>1, <1>2, <1>3, <1>7, <2>1 DEF TypeOK
    <2>5. Roles'
      <3>1. QueueDistinct' /\ PoolUnqueued'
        BY <1>3, <2>1, <2>2 DEF QueueDistinct, PoolUnqueued
      <3>2. EmptyChannels'
        BY <1>5, <1>6, <2>1, <2>2 DEF Roles, EmptyChannels, TypeOK
      <3>3. ParkedOnLive' /\ ParkedDistinct' /\ LiveHasCaller' /\ WakingDistinct'
        BY <2>1, <2>3 DEF Roles, ParkedOnLive, ParkedDistinct, LiveHasCaller, WakingDistinct
      <3>4. WakingTarget'
        BY <1>3, <1>6, <2>1, <2>2, <2>3 DEF Roles, WakingTarget, TypeOK
      <3>5. GrantOnItsWay'
        BY <1>2, <1>3, <1>5, <1>6, <2>1, <2>2, <2>3 DEF Roles, GrantOnItsWay, TypeOK
      <3>6. QED
        BY <3>1, <3>2, <3>3, <3>4, <3>5 DEF Roles
    <2>6. Owners' = (Owners \cup S) \cup {g}
      <3>1. \A h \in Goroutines :
               h \in Owners' <=> \/ pc'[h] = "holding"
                                 \/ pc'[h] = "parked" /\ node'[h] \notin Queued'
        BY DEF Owners
      <3>2. \A h \in Goroutines \ {g} : h \in Owners' <=> h \in Owners \cup S
        BY <1>10, <2>1, <2>2, <3>1 DEF Parked, TypeOK
      <3>3. g \in Owners' /\ Owners' \subseteq Goroutines
        BY <2>1, <3>1 DEF TypeOK, Owners
      <3>4. QED
        BY <1>9, <3>2, <3>3
    <2>7. SlotAccounting'
      <3>1. Cardinality((Owners \cup S) \cup {g}) = Cardinality(Owners \cup S) + 1
        BY <1>9, FS_AddElement, ZenonT(30)
      <3>2. Cardinality(Owners') = count + n + 1
        BY <1>9, <2>6, <3>1
      <3>3. QED
        BY <2>1, <3>2 DEF SlotAccounting
    <2>8. NoStrandedWaiters'
      BY <2>1, <2>2 DEF NoStrandedWaiters
    <2>9. QED
      BY <1>11, <2>4, <2>5, <2>6, <2>7, <2>8 DEF n, S
  <1>12. CASE count + n >= cap'
    <2>1. /\ count' = count + n /\ pc' = [pc EXCEPT ![g] = "parked"]
          /\ \E w \in pool : /\ waiters' = Append(rest, w)
                             /\ pool' = pool \ {w}
                             /\ node' = [node EXCEPT ![g] = w]
      BY <1>1, <1>2, <1>12 DEF Wait, n, rest, TypeOK
    <2>2. PICK w \in pool : /\ waiters' = Append(rest, w)
                            /\ pool' = pool \ {w}
                            /\ node' = [node EXCEPT ![g] = w]
      BY <2>1, ZenonT(30)
    <2>3. w \in Waiters /\ w \notin Queued /\ ch[w] = 0 /\ w \notin served
      BY <1>3 DEF Roles, PoolUnqueued, EmptyChannels, TypeOK
    <2>4. /\ waiters' \in Seq(Waiters) /\ Len(waiters') = Len(rest) + 1
          /\ waiters'[Len(rest) + 1] = w
          /\ \A i \in 1..Len(rest) : waiters'[i] = rest[i]
          /\ Len(rest) \in Nat
      BY <1>3, <2>2, <2>3
    <2>5. Queued' = Elements(rest) \cup {w}
      <3>1. DOMAIN waiters' = 1..(Len(rest) + 1) /\ DOMAIN rest = 1..Len(rest)
        BY <1>3, <2>4
      <3>2. \A v : v \in Queued' <=> \E i \in 1..(Len(rest) + 1) : v = waiters'[i]
        BY <3>1 DEF Queued, Elements
      <3>3. \A v : v \in Elements(rest) <=> \E i \in 1..Len(rest) : v = rest[i]
        BY <3>1 DEF Elements
      <3>4. 1..(Len(rest) + 1) = 1..Len(rest) \cup {Len(rest) + 1}
        BY <2>4
      <3>5. QED
        BY <2>4, <3>2, <3>3, <3>4
    <2>6. /\ Parked(g)' /\ ~Waking(g)' /\ node'[g] = w
          /\ \A h \in Goroutines \ {g} :
                Parked(h)' = Parked(h) /\ Waking(h)' = Waking(h) /\ node'[h] = node[h]
      BY <2>1, <2>2 DEF Parked, Waking, TypeOK
    <2>7. TypeOK'
      <3>1. /\ pc' \in [Goroutines -> {"outside", "holding", "parked", "waking"}]
            /\ node' \in [Goroutines -> Waiters \cup {NoWaiter}]
        BY <2>1, <2>2, <2>3 DEF TypeOK
      <3>2. count' \in Nat /\ pool' \in SUBSET Waiters
        BY <1>2, <2>1, <2>2 DEF TypeOK
      <3>3. QED
        BY <1>1, <1>7, <2>4, <3>1, <3>2 DEF TypeOK
    <2>8. Roles'
      <3>1. QueueDistinct'
        <4>1. \A i \in 1..Len(rest) : rest[i] # w
          <5>1. \A i \in 1..Len(rest) : rest[i] \in Elements(rest)
            BY <1>3 DEF Elements
          <5>2. QED
            BY <1>3, <2>3, <5>1
        <4>2. QED
          BY <1>3, <2>4, <4>1 DEF QueueDistinct
      <3>2. PoolUnqueued'
        BY <1>3, <2>2, <2>5 DEF Roles, PoolUnqueued
      <3>3. EmptyChannels'
        BY <1>3, <1>5, <1>6, <2>2, <2>3, <2>5, QueuedAreWaiters
           DEF Roles, EmptyChannels, TypeOK
      <3>4. ParkedOnLive' /\ ParkedDistinct'
        BY <1>8, <2>2, <2>3, <2>6 DEF Roles, ParkedOnLive, ParkedDistinct
      <3>5. LiveHasCaller'
        BY <1>8, <2>2, <2>6 DEF Roles, LiveHasCaller
      <3>6. WakingTarget'
        BY <1>3, <1>6, <1>8, <2>2, <2>3, <2>5, <2>6 DEF Roles, WakingTarget, TypeOK
      <3>7. WakingDistinct'
        BY <1>8, <2>6 DEF Roles, WakingDistinct
      <3>8. GrantOnItsWay'
        <4> SUFFICES ASSUME NEW v \in Waiters \ (pool' \cup Queued'), ch'[v] = 0
                     PROVE  \E h \in Goroutines : Waking(h)' /\ node'[h] = v
          BY DEF GrantOnItsWay
        <4>1. v # w /\ v \notin pool /\ v \notin Elements(rest)
          BY <2>2, <2>5
        <4>2. v \notin served /\ ch[v] = 0
          BY <1>5, <1>6
        <4>3. PICK h \in Goroutines : Waking(h) /\ node[h] = v
          BY <1>3, <4>1, <4>2 DEF Roles, GrantOnItsWay
        <4>4. QED
          BY <1>8, <2>6, <4>3
      <3>9. QED
        BY <3>1, <3>2, <3>3, <3>4, <3>5, <3>6, <3>7, <3>8 DEF Roles
    <2>9. Owners' = Owners \cup S
      <3>1. \A h \in Goroutines :
               h \in Owners' <=> \/ pc'[h] = "holding"
                                 \/ Parked(h)' /\ node'[h] \notin Queued'
        BY DEF Owners, Parked
      <3>2. \A h \in Goroutines : Parked(h) => node[h] # w
        BY DEF Roles, ParkedOnLive
      <3>3. \A h \in Goroutines \ {g} : pc'[h] = pc[h]
        BY <2>1 DEF TypeOK
      <3>4. \A h \in Goroutines \ {g} : h \in Owners' <=> h \in Owners \cup S
        BY <1>10, <2>5, <2>6, <3>1, <3>2, <3>3
      <3>5. g \notin Owners'
        BY <2>1, <2>5, <2>6, <3>1 DEF TypeOK
      <3>6. Owners' \subseteq Goroutines
        BY DEF Owners
      <3>7. QED
        BY <1>9, <3>4, <3>5, <3>6
    <2>10. SlotAccounting'
      BY <1>9, <2>1, <2>9 DEF SlotAccounting
    <2>11. NoStrandedWaiters'
      BY <1>1, <1>2, <1>12, <2>1 DEF NoStrandedWaiters, TypeOK
    <2>12. QED
      BY <1>12, <2>7, <2>8, <2>9, <2>10, <2>11 DEF n, S
  <1>13. QED
    BY <1>1, <1>2, <1>11, <1>12 DEF TypeOK

LEMMA InitEstablishes == newMemSemaphore => IInv
  <1> SUFFICES ASSUME newMemSemaphore PROVE IInv
    OBVIOUS
  <1> USE DEF newMemSemaphore
  <1>1. TypeOK
    BY DEF TypeOK
  <1>2. Queued = {} /\ \A g \in Goroutines : ~Parked(g) /\ ~Waking(g)
    BY DEF Queued, Elements, Parked, Waking
  <1>3. Roles
    BY <1>2 DEF Roles, QueueDistinct, PoolUnqueued, EmptyChannels, ParkedOnLive,
       ParkedDistinct, LiveHasCaller, WakingTarget, WakingDistinct, GrantOnItsWay
  <1>4. Owners = {}
    BY DEF Owners
  <1>5. SlotAccounting /\ NoStrandedWaiters
    BY <1>4, FS_EmptySet DEF SlotAccounting, NoStrandedWaiters
  <1>6. QED
    BY <1>1, <1>3, <1>5 DEF IInv

LEMMA StepPreserves == IInv /\ [Next]_vars => IInv'
  <1> SUFFICES ASSUME IInv, [Next]_vars PROVE IInv'
    OBVIOUS
  <1>1. CASE UNCHANGED vars
    BY <1>1 DEF vars, IInv, TypeOK, Roles, QueueDistinct, PoolUnqueued,
       EmptyChannels, ParkedOnLive, ParkedDistinct, LiveHasCaller, WakingTarget,
       WakingDistinct, GrantOnItsWay, Queued, Parked, Waking, SlotAccounting,
       Owners, NoStrandedWaiters
  <1>2. ASSUME NEW g \in Goroutines,
               TryWait(g) \/ Wait(g) \/ WaitReceive(g) \/ Post(g) \/ PostSend(g)
        PROVE  IInv'
    BY <1>2, TryWaitStep, WaitStep, WaitReceiveStep, PostStep, PostSendStep
  <1>3. QED
    BY <1>1, <1>2 DEF Next

LEMMA Inductive == Spec => []IInv
  BY InitEstablishes, StepPreserves, PTL DEF Spec

\* Every variable keeps its type; in particular the capacity that
\* updateCapacity computes stays within 1..maxCap and no channel ever holds
\* two tokens.
THEOREM TypeCorrect == Spec => []TypeOK
  <1>1. IInv => TypeOK
    BY DEF IInv
  <1>2. QED
    BY <1>1, Inductive, PTL

\* count is exactly the number of slots owned, through hand-overs, drains and
\* capacity changes: Post never decrements zero.
THEOREM SlotsAccounted == Spec => []SlotAccounting
  <1>1. IInv => SlotAccounting
    BY DEF IInv
  <1>2. QED
    BY <1>1, Inductive, PTL

\* A parked caller always has an owner before it whose Post is to come.
THEOREM NobodyStranded == Spec => []NoStrandedWaiters
  <1>1. IInv => NoStrandedWaiters
    BY DEF IInv
  <1>2. QED
    BY <1>1, Inductive, PTL

\* A pooled waiter object is never confused with the one it was before it was
\* recycled: every parked caller gets one wake-up, meant for it.
THEOREM WaitersDisciplined == Spec => []WaiterDiscipline
  <1>1. IInv => WaiterDiscipline
    <2> SUFFICES ASSUME IInv PROVE WaiterDiscipline
      OBVIOUS
    <2> USE DEF IInv, Roles
    <2>1. \A i, j \in DOMAIN waiters : waiters[i] = waiters[j] => i = j
      BY DEF QueueDistinct, TypeOK
    <2>2. \A w \in pool :
             w \notin Queued /\ ch[w] = 0 /\ ParkedOn(w) = {} /\ WakersOf(w) = {}
      BY DEF PoolUnqueued, EmptyChannels, ParkedOnLive, WakingTarget, ParkedOn,
         WakersOf, Parked, Waking
    <2>3. \A w \in Waiters \ pool : \E g \in Goroutines : ParkedOn(w) = {g}
      <3> SUFFICES ASSUME NEW w \in Waiters \ pool
                   PROVE \E g \in Goroutines : ParkedOn(w) = {g}
        OBVIOUS
      <3>1. PICK g \in Goroutines : Parked(g) /\ node[g] = w
        BY DEF LiveHasCaller
      <3>2. ParkedOn(w) = {g}
        BY <3>1 DEF ParkedDistinct, ParkedOn, Parked
      <3>3. QED
        BY <3>2
    <2>4. \A w \in Queued : ch[w] = 0 /\ WakersOf(w) = {}
      BY DEF EmptyChannels, WakingTarget, WakersOf, Waking
    <2>5. ASSUME NEW w \in Waiters \ (pool \cup Queued)
          PROVE  \/ ch[w] = 1 /\ WakersOf(w) = {}
                 \/ ch[w] = 0 /\ \E g \in Goroutines : WakersOf(w) = {g}
      <3>1. CASE ch[w] = 1
        BY <3>1 DEF WakingTarget, WakersOf, Waking
      <3>2. CASE ch[w] = 0
        <4>1. PICK g \in Goroutines : Waking(g) /\ node[g] = w
          BY <3>2 DEF GrantOnItsWay
        <4>2. WakersOf(w) = {g}
          BY <4>1 DEF WakingDistinct, WakersOf, Waking
        <4>3. QED
          BY <3>2, <4>2
      <3>3. QED
        BY <3>1, <3>2 DEF TypeOK
    <2>6. QED
      BY <2>1, <2>2, <2>3, <2>4, <2>5 DEF WaiterDiscipline
  <1>2. QED
    BY <1>1, Inductive, PTL

\* New slots are granted only within the capacity just computed.
THEOREM CapacityRespected == Spec => GrantsWithinCapacity
  <1>1. IInv /\ [Next]_vars => [count' > count => count' <= cap']_vars
    <2> SUFFICES ASSUME IInv, NEW g \in Goroutines,
                        TryWait(g) \/ Wait(g) \/ WaitReceive(g) \/ Post(g) \/ PostSend(g)
                 PROVE  count' > count => count' <= cap'
      BY DEF Next
    <2> USE DEF IInv
    <2>1. CASE TryWait(g)
      BY <2>1, UpdateInRange DEF TryWait, TypeOK
    <2>2. CASE Wait(g)
      <3>1. cap' \in 1..MaxCap /\ Len(waiters) \in Nat
        BY <2>2, UpdateInRange DEF Wait, TypeOK
      <3>2. /\ Drained(cap') \in Nat
            /\ count >= cap' => Drained(cap') = 0
            /\ count < cap' => count + Drained(cap') <= cap'
        BY <3>1, DrainedBounds
      <3>3. \/ count + Drained(cap') < cap' /\ count' = count + Drained(cap') + 1
            \/ count' = count + Drained(cap')
        BY <2>2 DEF Wait
      <3>4. QED
        BY <3>1, <3>2, <3>3 DEF TypeOK
    <2>3. CASE Post(g)
      BY <2>3 DEF Post, TypeOK
    <2>4. CASE WaitReceive(g) \/ PostSend(g)
      BY <2>4 DEF WaitReceive, PostSend, TypeOK
    <2>5. QED
      BY <2>1, <2>2, <2>3, <2>4
  <1>2. QED
    BY <1>1, Inductive, PTL DEF Spec, GrantsWithinCapacity

-----------------------------------------------------------------------------
(* The refinement of AdaptiveSemaphore. *)

\* The abstract line: the callers of the queued waiter objects.
Line == [i \in DOMAIN waiters |-> CallerOf(waiters[i])]

\* The caller that a waiter object stands for, now and after a step.
LEMMA SoleCaller == 
    ASSUME Roles, NEW g \in Goroutines, Parked(g)
    PROVE  CallerOf(node[g]) = g
  <1>1. ParkedOn(node[g]) = {g}
    BY DEF Roles, ParkedDistinct, ParkedOn, Parked
  <1>2. QED
    BY <1>1 DEF CallerOf

LEMMA SoleCallerNext ==
    ASSUME Roles', NEW g \in Goroutines, Parked(g)'
    PROVE  \A w : w = node'[g] => CallerOf(w)' = g
  <1> SUFFICES ASSUME NEW w, w = node'[g] PROVE CallerOf(w)' = g
    OBVIOUS
  <1>1. ParkedOn(w)' = {g}
    BY DEF Roles, ParkedDistinct, ParkedOn, Parked
  <1>2. QED
    BY <1>1 DEF CallerOf

\* The line is as long as the queue, and its callers are parked on the queued
\* objects, in the same order.
LEMMA LineFacts ==
    ASSUME IInv
    PROVE  /\ Line \in Seq(Goroutines) /\ Len(Line) = Len(waiters)
           /\ \A i \in 1..Len(waiters) :
                 /\ Line[i] \in Goroutines /\ Parked(Line[i]) /\ node[Line[i]] = waiters[i]
                 /\ Line[i] \notin Owners
  <1> USE DEF IInv
  <1>1. DOMAIN waiters = 1..Len(waiters) /\ Len(waiters) \in Nat
    BY DEF TypeOK
  <1>2. ASSUME NEW i \in 1..Len(waiters)
        PROVE  /\ Line[i] \in Goroutines /\ Parked(Line[i]) /\ node[Line[i]] = waiters[i]
               /\ Line[i] \notin Owners
    <2>1. waiters[i] \in Waiters \ pool /\ waiters[i] \in Queued
      BY <1>1 DEF TypeOK, Roles, PoolUnqueued, Queued, Elements
    <2>2. PICK h \in Goroutines : Parked(h) /\ node[h] = waiters[i]
      BY <2>1 DEF Roles, LiveHasCaller
    <2>3. Line[i] = h
      BY <1>1, <2>2, SoleCaller DEF Line
    <2>4. QED
      BY <2>1, <2>2, <2>3 DEF Owners, Parked
  <1>3. Line = [i \in 1..Len(waiters) |-> Line[i]]
    BY <1>1 DEF Line
  <1>4. QED
    BY <1>1, <1>2, <1>3

\* When the first k objects leave the queue, the callers behind them move up.
LEMMA LineMovesUp ==
    ASSUME IInv, IInv', NEW k \in 0..Len(waiters),
           Len(waiters') >= Len(waiters) - k,
           \A i \in 1..(Len(waiters) - k) : waiters'[i] = waiters[i + k],
           \A h \in Goroutines :
               Parked(h) /\ node[h] \in Queued' => Parked(h)' /\ node'[h] = node[h]
    PROVE  /\ Line' \in Seq(Goroutines) /\ Len(Line') = Len(waiters')
           /\ \A i \in 1..(Len(waiters) - k) : Line'[i] = Line[i + k]
  <1>1. /\ DOMAIN waiters = 1..Len(waiters) /\ Len(waiters) \in Nat
        /\ DOMAIN waiters' = 1..Len(waiters') /\ Len(waiters') \in Nat
    BY DEF IInv, TypeOK
  <1>2. ASSUME NEW i \in 1..Len(waiters') PROVE Line'[i] \in Goroutines
    <2>0. waiters'[i] \in Queued' /\ waiters'[i] \in Waiters
      BY <1>1 DEF IInv, TypeOK, Queued, Elements
    <2>1. waiters'[i] \in Waiters \ pool'
      BY <2>0 DEF IInv, Roles, PoolUnqueued
    <2>2. PICK h \in Goroutines : Parked(h)' /\ node'[h] = waiters'[i]
      BY <2>1 DEF IInv, Roles, LiveHasCaller
    <2>3. QED
      BY <1>1, <2>2, SoleCallerNext DEF Line, IInv
  <1>3. ASSUME NEW i \in 1..(Len(waiters) - k) PROVE Line'[i] = Line[i + k]
    <2>1. i \in 1..Len(waiters') /\ i + k \in 1..Len(waiters)
      BY <1>1
    <2>2. waiters'[i] \in Queued'
      BY <1>1, <2>1 DEF Queued, Elements
    <2>3. PICK h \in Goroutines : h = Line[i + k] /\ Parked(h) /\ node[h] = waiters[i + k]
      BY <2>1, LineFacts
    <2>4. Parked(h)' /\ node'[h] = waiters'[i]
      BY <2>2, <2>3
    <2>5. QED
      BY <1>1, <2>1, <2>3, <2>4, SoleCallerNext DEF Line, IInv
  <1>4. Line' = [i \in 1..Len(waiters') |-> Line'[i]]
    BY <1>1 DEF Line
  <1>5. QED
    BY <1>1, <1>2, <1>3, <1>4

\* Both modules count with the Cardinality of FiniteSets.
LEMMA SameCardinality == \A S : Abstract!Cardinality(S) = Cardinality(S)
  BY DEF Abstract!Cardinality, Cardinality, Abstract!IsFiniteSet, IsFiniteSet

\* The abstract steps, in terms of the owners and the line.
LEMMA AbstractTryWait ==
    ASSUME NEW g \in Goroutines, g \in TryCallers, g \notin Owners, g \notin Elements(Line),
           cap' \in 1..MaxCap, Line' = Line,
           Owners' = IF Cardinality(Owners) < cap' THEN Owners \cup {g} ELSE Owners
    PROVE  Abstract!Next
  <1>1. Abstract!Resize
    BY DEF Abstract!Resize
  <1>2. g \in Abstract!Outside
    BY Zenon DEF Abstract!Outside, Abstract!Elements, Elements, Line
  <1>3. Abstract!TryWait(g)
    BY <1>2, SameCardinality, Zenon DEF Abstract!TryWait, Line
  <1>4. QED
    BY <1>1, <1>3 DEF Abstract!Next

LEMMA AbstractWait ==
    ASSUME NEW g \in Goroutines, g \notin Owners, g \notin Elements(Line), cap' \in 1..MaxCap,
           NEW n, n = Abstract!Fitting(Owners, Append(Line, g)),
           Owners' = Owners \cup Elements(SubSeq(Append(Line, g), 1, n)),
           Line' = SubSeq(Append(Line, g), n + 1, Len(Append(Line, g)))
    PROVE  Abstract!Next
  <1>1. Abstract!Resize
    BY DEF Abstract!Resize
  <1>2. Abstract!Grant(Owners, Append(Line, g), n) /\ g \in Abstract!Outside
    BY Zenon DEF Abstract!Grant, Abstract!Outside, Abstract!Elements, Elements, Line
  <1>3. Abstract!Wait(g)
    BY <1>2, Zenon DEF Abstract!Wait, Line
  <1>4. QED
    BY <1>1, <1>3 DEF Abstract!Next

LEMMA AbstractPost ==
    ASSUME NEW g \in Goroutines, g \in Owners, cap' \in 1..MaxCap,
           NEW n, n = Abstract!Fitting(Owners \ {g}, Line),
           NEW m, m = IF n > 1 THEN 1 ELSE n,
           Owners' = (Owners \ {g}) \cup Elements(SubSeq(Line, 1, m)),
           Line' = SubSeq(Line, m + 1, Len(Line))
    PROVE  Abstract!Next
  <1>1. Abstract!Resize
    BY DEF Abstract!Resize
  <1>2. Abstract!Grant(Owners \ {g}, Line, m)
    BY Zenon DEF Abstract!Grant, Abstract!Elements, Elements, Line
  <1>3. Abstract!Post(g)
    BY <1>2, Zenon DEF Abstract!Post, Line
  <1>4. QED
    BY <1>1, <1>3 DEF Abstract!Next

\* The slots left beside c at capacity a, and how many of k callers get one.
Room(a, c) == IF a > c THEN a - c ELSE 0
Least(x, y) == IF x < y THEN x ELSE y

\* The number of callers that the abstract semaphore lets in.
LEMMA FittingIs ==
    ASSUME NEW o, NEW l
    PROVE  Abstract!Fitting(o, l) = Least(Room(cap', Cardinality(o)), Len(l))
  BY SameCardinality DEF Abstract!Fitting, Room, Least

\* The callers at the front of the queue are the front of the line.
LEMMA FrontOfLine ==
    ASSUME IInv, NEW n \in 0..Len(waiters)
    PROVE  \A h : h \in FrontCallers(n) <=> \E i \in 1..n : h = Line[i]
  <1>1. \A w : w \in Elements(SubSeq(waiters, 1, n)) <=> \E i \in 1..n : w = waiters[i]
    BY CutQueue DEF IInv, TypeOK, Roles, QueueDistinct
  <1>2. \A i \in 1..n : i \in 1..Len(waiters) /\ i \in DOMAIN waiters
    BY DEF IInv, TypeOK
  <1>3. ASSUME NEW h \in FrontCallers(n) PROVE \E i \in 1..n : h = Line[i]
    <2>1. h \in Goroutines /\ Parked(h)
      BY DEF FrontCallers
    <2>2. PICK i \in 1..n : node[h] = waiters[i]
      BY <1>1 DEF FrontCallers
    <2>3. h = Line[i]
      BY <1>2, <2>1, <2>2, SoleCaller DEF Line, IInv
    <2>4. QED
      BY <2>3
  <1>4. ASSUME NEW i \in 1..n PROVE Line[i] \in FrontCallers(n)
    BY <1>1, <1>2, LineFacts DEF FrontCallers
  <1>5. QED
    BY <1>3, <1>4

\* A caller that is outside has no place in the line.
LEMMA OutsideIsOut ==
    ASSUME IInv, NEW g \in Goroutines, pc[g] = "outside"
    PROVE  g \notin Owners /\ g \notin Elements(Line)
  <1>1. DOMAIN Line = 1..Len(waiters)
    BY DEF Line, IInv, TypeOK
  <1>2. QED
    BY <1>1, LineFacts DEF Owners, Parked, Elements

\* Where no object leaves the queue, the line stays.
LEMMA LineStays ==
    ASSUME IInv, IInv', waiters' = waiters,
           \A h \in Goroutines :
               Parked(h) /\ node[h] \in Queued => Parked(h)' /\ node'[h] = node[h]
    PROVE  Line' = Line
  <1>1. Len(waiters) \in Nat /\ Queued' = Queued
    BY DEF IInv, TypeOK, Queued
  <1>2. /\ Line' \in Seq(Goroutines) /\ Len(Line') = Len(waiters)
        /\ \A i \in 1..Len(waiters) : Line'[i] = Line[i]
    BY <1>1, LineMovesUp
  <1>3. Line \in Seq(Goroutines) /\ Len(Line) = Len(waiters)
    BY LineFacts
  <1>4. QED
    BY <1>2, <1>3

LEMMA TryWaitImplements ==
    ASSUME IInv, NEW g \in Goroutines, TryWait(g)
    PROVE  Abstract!Next
  <1>1. IInv' /\ Owners' = IF count < cap' THEN Owners \cup {g} ELSE Owners
    BY TryWaitStep
  <1>2. \A h \in Goroutines : Parked(h) => Parked(h)' /\ node'[h] = node[h]
    BY DEF TryWait, Parked, IInv, TypeOK
  <1>3. Line' = Line
    BY <1>1, <1>2, LineStays DEF TryWait
  <1>4. g \notin Owners /\ g \notin Elements(Line)
    BY OutsideIsOut DEF TryWait
  <1>5. cap' \in 1..MaxCap /\ g \in TryCallers
    BY UpdateInRange DEF TryWait, IInv
  <1>6. QED
    BY <1>1, <1>3, <1>4, <1>5, AbstractTryWait DEF IInv, SlotAccounting

\* At most one caller takes the place of the one that leaves, if there is one
\* and the place remains.
LEMMA OneFits ==
    ASSUME NEW a \in Nat, NEW c \in Nat \ {0}, NEW k \in Nat
    PROVE  LET n == Least(Room(a, c - 1), k)
               m == IF n > 1 THEN 1 ELSE n
           IN  (c > a \/ k = 0 => m = 0) /\ (c <= a /\ k >= 1 => m = 1)
  <1>1. Room(a, c - 1) \in Nat /\ (c <= a => Room(a, c - 1) >= 1) /\ (c > a => Room(a, c - 1) = 0)
    BY DEF Room
  <1>2. QED
    BY <1>1 DEF Least

LEMMA PostImplements ==
    ASSUME IInv, NEW g \in Goroutines, Post(g)
    PROVE  Abstract!Next
  <1> DEFINE n == Abstract!Fitting(Owners \ {g}, Line)
             m == IF n > 1 THEN 1 ELSE n
  <1>1. IInv' /\ g \in Owners /\ cap' \in 1..MaxCap
    BY PostStep, UpdateInRange DEF Post, IInv
  <1>2. Line \in Seq(Goroutines) /\ Len(Line) = Len(waiters) /\ Len(waiters) \in Nat
    BY LineFacts DEF IInv, TypeOK
  <1>3. count \in Nat \ {0} /\ Cardinality(Owners \ {g}) = count - 1
    <2>1. IsFiniteSet(Owners) /\ Cardinality(Owners) = count /\ count \in Nat
      BY OwnersFinite DEF IInv, SlotAccounting
    <2>2. Cardinality(Owners \ {g}) = count - 1 /\ IsFiniteSet(Owners \ {g})
      BY <1>1, <2>1, FS_RemoveElement
    <2>3. Cardinality(Owners \ {g}) \in Nat
      BY <2>2, FS_CardinalityType
    <2>4. QED
      BY <2>1, <2>2, <2>3
  <1>4. n = Least(Room(cap', count - 1), Len(waiters))
    BY <1>2, <1>3, FittingIs
  <1>8. (count > cap' \/ Len(waiters) = 0 => m = 0) /\ (count <= cap' /\ Len(waiters) >= 1 => m = 1)
    <2>1. cap' \in Nat
      BY <1>1
    <2> HIDE DEF n
    <2>2. QED
      BY <1>2, <1>3, <1>4, <2>1, OneFits
  <1> HIDE DEF n, m
  <1>5. CASE (count > cap' \/ waiters = <<>>) /\ Owners' = Owners \ {g}
    <2>1. waiters' = waiters /\ \A h \in Goroutines : Parked(h) => Parked(h)' /\ node'[h] = node[h]
      BY <1>1, <1>3, <1>5 DEF Post, Parked, IInv, TypeOK
    <2>2. Line' = Line
      BY <1>1, <2>1, LineStays
    <2>3. m = 0
      BY <1>5, <1>8
    <2>4. SubSeq(Line, 1, m) = <<>> /\ SubSeq(Line, m + 1, Len(Line)) = Line
      BY <1>2, <2>3
    <2>5. Elements(SubSeq(Line, 1, m)) = {}
      <3>1. \A s : s = <<>> => Elements(s) = {}
        BY DEF Elements
      <3>2. QED
        BY <2>4, <3>1, Zenon
    <2>6. QED
      BY <1>1, <1>5, <2>2, <2>4, <2>5, AbstractPost, Zenon DEF n, m
  <1>6. ASSUME count <= cap', waiters # <<>>, NEW h \in Goroutines,
               Parked(h), node[h] = Head(waiters), Owners' = (Owners \ {g}) \cup {h}
        PROVE  Abstract!Next
    <2>1. /\ waiters' = Tail(waiters)
          /\ \A x \in Goroutines : Parked(x) => Parked(x)' /\ node'[x] = node[x]
      BY <1>1, <1>3, <1>6 DEF Post, Parked, IInv, TypeOK
    <2>2. /\ Len(waiters) >= 1 /\ Len(waiters') = Len(waiters) - 1 /\ Head(waiters) = waiters[1]
          /\ \A i \in 1..(Len(waiters) - 1) : waiters'[i] = waiters[i + 1]
      BY <1>2, <1>6, <2>1 DEF IInv, TypeOK
    <2>3. /\ Line' \in Seq(Goroutines) /\ Len(Line') = Len(waiters) - 1
          /\ \A i \in 1..(Len(waiters) - 1) : Line'[i] = Line[i + 1]
      BY <1>1, <1>2, <2>1, <2>2, LineMovesUp
    <2>4. m = 1
      BY <1>6, <1>8, <2>2
    <2>5. Line' = SubSeq(Line, m + 1, Len(Line))
      BY <1>2, <2>2, <2>3, <2>4
    <2>6. h = Line[1]
      BY <1>6, <2>2, SoleCaller DEF Line, IInv, TypeOK
    <2>7. Elements(SubSeq(Line, 1, m)) = {h}
      <3>1. /\ SubSeq(Line, 1, m) \in Seq(Goroutines) /\ Len(SubSeq(Line, 1, m)) = 1
            /\ SubSeq(Line, 1, m)[1] = h
        BY <1>2, <2>2, <2>4, <2>6
      <3>2. QED
        BY <3>1 DEF Elements
    <2>8. QED
      BY <1>1, <1>6, <2>5, <2>7, AbstractPost, Zenon DEF n, m
  <1>7. QED
    BY <1>5, <1>6, PostStep

\* Wait's drain loop serves whom the abstract semaphore lets in: everybody and
\* the caller, or as many of the line as there is room for.
LEMMA DrainedFit ==
    ASSUME NEW a \in Nat, NEW c \in Nat, NEW k \in Nat
    PROVE  LET n == Least(Room(a, c), k)
               f == Least(Room(a, c), k + 1)
           IN  /\ n \in 0..k
               /\ c + n < a => n = k /\ f = k + 1
               /\ c + n >= a => f = n
  <1>1. Room(a, c) \in Nat /\ (a > c => Room(a, c) = a - c) /\ (a <= c => Room(a, c) = 0)
    BY DEF Room
  <1>2. QED
    BY <1>1 DEF Least

\* The queue without its first n objects.
LEMMA RestOfQueue ==
    ASSUME NEW S, NEW s \in Seq(S), NEW n \in 0..Len(s)
    PROVE  LET rest == SubSeq(s, n + 1, Len(s))
           IN  /\ rest \in Seq(S) /\ Len(rest) = Len(s) - n
               /\ \A i \in 1..(Len(s) - n) : rest[i] = s[i + n]
  OBVIOUS

LEMMA WaitImplements ==
    ASSUME IInv, NEW g \in Goroutines, Wait(g)
    PROVE  Abstract!Next
  <1> DEFINE n == Drained(cap')
             l == Append(Line, g)
             f == Abstract!Fitting(Owners, l)
             k == Len(waiters)
  <1>1. IInv' /\ cap' \in 1..MaxCap /\ cap' \in Nat
    <2>1. IInv' /\ cap' \in 1..MaxCap
      BY WaitStep, UpdateInRange, Zenon DEF Wait, IInv
    <2>2. QED
      BY <2>1
  <1>2. Line \in Seq(Goroutines) /\ Len(Line) = k /\ k \in Nat
    BY LineFacts DEF IInv, TypeOK
  <1>3. /\ l \in Seq(Goroutines) /\ Len(l) = k + 1 /\ l[k + 1] = g
        /\ \A i \in 1..k : l[i] = Line[i]
    BY <1>2
  <1>4. count \in Nat /\ Cardinality(Owners) = count
    BY DEF IInv, TypeOK, SlotAccounting
  <1>5. g \notin Owners /\ g \notin Elements(Line)
    BY OutsideIsOut DEF Wait
  <1>6. /\ n \in 0..k
        /\ count + n < cap' => n = k /\ f = k + 1
        /\ count + n >= cap' => f = n
    <2>1. n = Least(Room(cap', count), k)
      BY DEF Drained, Least, Room
    <2>2. f = Least(Room(cap', count), k + 1)
      BY <1>3, <1>4, FittingIs, Zenon
    <2> HIDE DEF n, f, k
    <2>3. /\ Least(Room(cap', count), k) \in 0..k
          /\ count + Least(Room(cap', count), k) < cap' =>
                /\ Least(Room(cap', count), k) = k
                /\ Least(Room(cap', count), k + 1) = k + 1
          /\ count + Least(Room(cap', count), k) >= cap' =>
                Least(Room(cap', count), k + 1) = Least(Room(cap', count), k)
      BY <1>1, <1>2, <1>4, DrainedFit
    <2>4. QED
      BY <2>1, <2>2, <2>3, Zenon
  <1>7. \A h : h \in FrontCallers(n) <=> \E i \in 1..n : h = Line[i]
    BY <1>6, FrontOfLine
  <1>8. \/ count + n < cap' /\ Owners' = (Owners \cup FrontCallers(n)) \cup {g}
        \/ count + n >= cap' /\ Owners' = Owners \cup FrontCallers(n)
    BY WaitStep
  <1>9. /\ count + n < cap' => /\ waiters' = SubSeq(waiters, n + 1, k)
                               /\ pc' = [pc EXCEPT ![g] = "holding"] /\ node' = node
        /\ count + n >= cap' => /\ pc' = [pc EXCEPT ![g] = "parked"]
                                /\ \E w \in pool : /\ waiters' = Append(SubSeq(waiters, n + 1, k), w)
                                                   /\ node' = [node EXCEPT ![g] = w]
    <2>1. \/ /\ count + n < cap' /\ waiters' = SubSeq(waiters, n + 1, k)
             /\ pc' = [pc EXCEPT ![g] = "holding"] /\ node' = node
          \/ /\ count + n >= cap' /\ pc' = [pc EXCEPT ![g] = "parked"]
             /\ \E w \in pool : /\ waiters' = Append(SubSeq(waiters, n + 1, k), w)
                                /\ node' = [node EXCEPT ![g] = w]
      BY Zenon DEF Wait
    <2>2. n \in Nat
      BY <1>2, <1>6
    <2> HIDE DEF n, k
    <2>3. ~(count + n < cap' /\ count + n >= cap')
      BY <1>1, <1>4, <2>2
    <2>4. QED
      BY <2>1, <2>3, Zenon
  <1>10. \A h \in Goroutines : Parked(h) => Parked(h)' /\ node'[h] = node[h]
    BY <1>8, <1>9 DEF Wait, Parked, IInv, TypeOK
  <1>11. waiters \in Seq(Waiters) /\ pool \subseteq Waiters
    BY DEF IInv, TypeOK
  <1> HIDE DEF n, l, f, k
  <1>12. /\ SubSeq(waiters, n + 1, k) \in Seq(Waiters) /\ Len(SubSeq(waiters, n + 1, k)) = k - n
         /\ \A i \in 1..(k - n) : SubSeq(waiters, n + 1, k)[i] = waiters[i + n]
    BY <1>6, <1>11, RestOfQueue DEF k
  <1>13. CASE count + n < cap'
    <2>1. n = k /\ f = k + 1 /\ waiters' = SubSeq(waiters, n + 1, k) /\ Len(waiters') = 0
      BY <1>2, <1>6, <1>9, <1>12, <1>13
    <2>2. Line' \in Seq(Goroutines) /\ Len(Line') = 0
      BY <1>1, <1>2, <1>10, <2>1, LineMovesUp DEF k
    <2>3. Line' = SubSeq(l, f + 1, Len(l))
      BY <1>2, <1>3, <2>1, <2>2
    <2>4. Elements(SubSeq(l, 1, f)) = FrontCallers(n) \cup {g}
      <3>1. SubSeq(l, 1, f) = l /\ DOMAIN l = 1..(k + 1)
        BY <1>2, <1>3, <2>1
      <3>2. \A h : h \in Elements(l) <=> \E i \in 1..(k + 1) : h = l[i]
        BY <3>1 DEF Elements
      <3>3. 1..(k + 1) = 1..k \cup {k + 1}
        BY <1>2
      <3>4. \A h : h \in Elements(l) <=> (\E i \in 1..k : h = Line[i]) \/ h = g
        BY <1>3, <3>2, <3>3
      <3>5. QED
        BY <1>7, <2>1, <3>1, <3>4, Zenon
    <2>5. Owners' = Owners \cup Elements(SubSeq(l, 1, f))
      BY <1>1, <1>2, <1>4, <1>6, <1>8, <1>13, <2>4
    <2>6. QED
      BY <1>1, <1>5, <2>3, <2>5, AbstractWait, Zenon DEF f, l
  <1>14. CASE count + n >= cap'
    <2>1. PICK w \in pool : /\ waiters' = Append(SubSeq(waiters, n + 1, k), w)
                            /\ node' = [node EXCEPT ![g] = w]
      BY <1>9, <1>14, Zenon
    <2>2. /\ Len(waiters') = (k - n) + 1 /\ waiters'[(k - n) + 1] = w
          /\ \A i \in 1..(k - n) : waiters'[i] = waiters[i + n]
      BY <1>2, <1>6, <1>11, <1>12, <2>1
    <2>3. /\ Line' \in Seq(Goroutines) /\ Len(Line') = (k - n) + 1
          /\ \A i \in 1..(k - n) : Line'[i] = Line[i + n]
      BY <1>1, <1>2, <1>6, <1>10, <2>2, LineMovesUp DEF k
    <2>4. Line'[(k - n) + 1] = g
      <3>1. Parked(g)' /\ node'[g] = w
        BY <1>9, <1>14, <2>1 DEF Parked, IInv, TypeOK
      <3>2. (k - n) + 1 \in DOMAIN waiters'
        BY <1>1, <1>2, <1>6, <2>2 DEF IInv, TypeOK
      <3>3. QED
        BY <1>1, <2>2, <3>1, <3>2, SoleCallerNext DEF Line, IInv
    <2>5. f = n
      BY <1>6, <1>14
    <2>6. Line' = SubSeq(l, f + 1, Len(l))
      <3> DEFINE t == SubSeq(l, n + 1, k + 1)
      <3>1. t \in Seq(Goroutines) /\ Len(t) = (k - n) + 1
        BY <1>2, <1>3, <1>6
      <3>2. \A i \in 1..((k - n) + 1) : t[i] = l[i + n]
        <4>1. k + 1 \in Nat /\ n \in 0..(k + 1) /\ (k + 1) - n = (k - n) + 1
          BY <1>2, <1>6
        <4>2. \A i \in 1..((k + 1) - n) : SubSeq(l, n + 1, k + 1)[i] = l[i + n]
          BY <1>3, <4>1, RestOfQueue
        <4>3. QED
          BY <4>1, <4>2
      <3> HIDE DEF t
      <3>3. \A i \in 1..(k - n) : i + n \in 1..k /\ t[i] = Line'[i]
        BY <1>2, <1>3, <1>6, <2>3, <3>2
      <3>4. t[(k - n) + 1] = Line'[(k - n) + 1]
        BY <1>2, <1>3, <1>6, <2>4, <3>2
      <3>5. \A i \in 1..((k - n) + 1) : t[i] = Line'[i]
        BY <1>2, <1>6, <3>3, <3>4
      <3>6. t = Line'
        BY <2>3, <3>1, <3>5
      <3>7. QED
        BY <1>3, <2>5, <3>6 DEF t
    <2>7. Elements(SubSeq(l, 1, f)) = FrontCallers(n)
      <3> DEFINE t == SubSeq(l, 1, n)
      <3>1. DOMAIN t = 1..n /\ \A i \in 1..n : t[i] = Line[i]
        BY <1>2, <1>3, <1>6
      <3> HIDE DEF t
      <3>2. \A h : h \in Elements(t) <=> \E i \in 1..n : h = Line[i]
        BY <3>1 DEF Elements
      <3>3. QED
        BY <1>7, <2>5, <3>2 DEF t
    <2>8. Owners' = Owners \cup Elements(SubSeq(l, 1, f))
      BY <1>1, <1>2, <1>4, <1>6, <1>8, <1>14, <2>7
    <2>9. QED
      BY <1>1, <1>5, <2>6, <2>8, AbstractWait, Zenon DEF f, l
  <1>15. QED
    BY <1>8, <1>13, <1>14

\* Receiving a token and sending one change nothing the callers agreed on.
LEMMA SendsAreInvisible ==
    ASSUME IInv, NEW g \in Goroutines, WaitReceive(g) \/ PostSend(g)
    PROVE  UNCHANGED Abstract!vars
  <1>1. IInv' /\ Owners' = Owners
    BY WaitReceiveStep, PostSendStep
  <1>2. waiters' = waiters /\ cap' = cap
    BY DEF WaitReceive, PostSend
  <1>3. \A h \in Goroutines :
           Parked(h) /\ node[h] \in Queued => Parked(h)' /\ node'[h] = node[h]
    <2>1. CASE WaitReceive(g)
      <3>1. node[g] \notin Queued
        BY <2>1 DEF WaitReceive, IInv, Roles, EmptyChannels
      <3>2. QED
        BY <2>1, <3>1 DEF WaitReceive, Parked, IInv, TypeOK
    <2>2. CASE PostSend(g)
      BY <2>2 DEF PostSend, Parked, IInv, TypeOK
    <2>3. QED
      BY <2>1, <2>2
  <1>4. Line' = Line
    BY <1>1, <1>2, <1>3, LineStays
  <1>5. QED
    BY <1>1, <1>2, <1>4 DEF Abstract!vars, Line

LEMMA AbstractInit == newMemSemaphore => Abstract!Init
  <1> SUFFICES ASSUME newMemSemaphore PROVE Abstract!Init
    OBVIOUS
  <1>1. Owners = {}
    BY DEF newMemSemaphore, Owners
  <1>2. [i \in DOMAIN waiters |-> CallerOf(waiters[i])] = <<>>
    BY DEF newMemSemaphore
  <1>3. QED
    BY <1>1, <1>2 DEF newMemSemaphore, Abstract!Init

LEMMA AbstractStep == IInv /\ [Next]_vars => [Abstract!Next]_Abstract!vars
  <1> SUFFICES ASSUME IInv, [Next]_vars PROVE [Abstract!Next]_Abstract!vars
    OBVIOUS
  <1>1. CASE UNCHANGED vars
    BY <1>1 DEF vars, Abstract!vars, Owners, Queued, CallerOf, ParkedOn
  <1>2. ASSUME NEW g \in Goroutines,
               TryWait(g) \/ Wait(g) \/ WaitReceive(g) \/ Post(g) \/ PostSend(g)
        PROVE  [Abstract!Next]_Abstract!vars
    BY <1>2, TryWaitImplements, WaitImplements, PostImplements, SendsAreInvisible
  <1>3. QED
    BY <1>1, <1>2 DEF Next

\* The semaphore is AdaptiveSemaphore: with its mutex released between the
\* hand-over of a slot and the wake-up, with recycled waiter objects and with
\* a capacity that moves at every call, its callers own slots and wait in line
\* as if each call were one step.
THEOREM SemaphoreImplements == Spec => ImplementsAdaptiveSemaphore
  BY Inductive, AbstractInit, AbstractStep, PTL
     DEF Spec, ImplementsAdaptiveSemaphore, Abstract!Spec
=============================================================================

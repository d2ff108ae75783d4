---------------------------- MODULE MemSemaphore ----------------------------
(***************************************************************************)
(* The memory semaphore of msemaphore/: a counting semaphore whose         *)
(* capacity is moved by a multi-armed bandit (epsilon-greedy in eg.go,     *)
(* Thompson sampling in ts.go; the two share TryWait, Wait and Post).      *)
(*                                                                         *)
(* Every critical section of mu is one step.  The two places where a       *)
(* goroutine runs outside mu are steps of their own: a parked caller       *)
(* receiving on its waiter's channel, and Post sending on the channel of   *)
(* the waiter it popped before it unlocked.  Waiter objects come from, and *)
(* go back to, a sync.Pool, so one object serves many callers over time.   *)
(***************************************************************************)
EXTENDS Integers, Sequences, FiniteSets

CONSTANTS Goroutines,    \* goroutines that use the semaphore
          TryCallers,    \* those that also call TryWait
          Waiters,       \* the waiter objects the sync.Pool has or can make
          NoWaiter,      \* nil
          MaxCap,        \* maxCap = runtime.GOMAXPROCS(0)
          Impls          \* implChoice: among "eg" (eg.go) and "ts" (ts.go)

ASSUME SemaphoreAssumption ==
    /\ IsFiniteSet(Goroutines)
    /\ TryCallers \subseteq Goroutines
    /\ IsFiniteSet(Waiters)
    /\ Cardinality(Waiters) >= Cardinality(Goroutines)
    /\ NoWaiter \notin Waiters
    /\ MaxCap \in Nat \ {0}
    /\ Impls \subseteq {"eg", "ts"}

VARIABLES cap,      \* current capacity
          count,    \* number of slots taken
          waiters,  \* waiterQueue: the parked waiter objects, oldest first
          ch,       \* ch[w]: tokens in the channel of w, which holds one
          pool,     \* waiterPool: the objects no goroutine uses
          pc,       \* where each goroutine is
          node      \* the object a goroutine is parked on, or about to wake

vars == <<cap, count, waiters, ch, pool, pc, node>>

Elements(s) == {s[i] : i \in DOMAIN s}


Clamp(x) == IF x < 1 THEN 1 ELSE IF x > MaxCap THEN MaxCap ELSE x

-----------------------------------------------------------------------------
newMemSemaphore ==
    /\ cap = 1
    /\ count = 0
    /\ waiters = <<>>
    /\ ch = [w \in Waiters |-> 0]
    /\ pool = Waiters
    /\ pc = [g \in Goroutines |-> "outside"]
    /\ node = [g \in Goroutines |-> NoWaiter]

\* eg.go: too early, or exploit the best arm, or explore one step around it.
\* Which arm is best depends on measured bandwidth and is left open.
updateCapacityEg ==
    \/ cap' = cap
    \/ \E bestCap \in 1..MaxCap, dir \in {-1, 0, 1} : cap' = Clamp(bestCap + dir)

\* ts.go: too early (or rounding left no arm), or a softmax draw over the
\* arms up to cap, or the arm with the best posterior sample.
updateCapacityTs ==
    \/ cap' = cap
    \/ cap' \in 1..cap
    \/ cap' \in 1..MaxCap

\* Both bandits can move the capacity to any arm, so a semaphore that may use
\* either has the behaviours of both.
updateCapacity ==
    \/ "eg" \in Impls /\ updateCapacityEg
    \/ "ts" \in Impls /\ updateCapacityTs


TryWait(g) ==
    /\ pc[g] = "outside"
    /\ g \in TryCallers
    /\ updateCapacity
    /\ IF count < cap'
       THEN /\ count' = count + 1
            /\ pc' = [pc EXCEPT ![g] = "holding"]
       ELSE UNCHANGED <<count, pc>>
    /\ UNCHANGED <<waiters, ch, pool, node>>

\* Mutant: Wait does not serve the queue before itself.
DrainedNone(c) == 0

\* The number of queued waiters that Wait's drain loop serves at capacity c.
Drained(c) ==
    LET room == IF c > count THEN c - count ELSE 0
    IN  IF room < Len(waiters) THEN room ELSE Len(waiters)

Wait(g) ==
    /\ pc[g] = "outside"
    /\ updateCapacity
    /\ LET n == Drained(cap')
           served == Elements(SubSeq(waiters, 1, n))
           rest == SubSeq(waiters, n + 1, Len(waiters))
       IN  /\ ch' = [w \in Waiters |-> IF w \in served THEN ch[w] + 1 ELSE ch[w]]
           /\ \/ /\ count + n < cap'
                 /\ count' = count + n + 1
                 /\ waiters' = rest
                 /\ pc' = [pc EXCEPT ![g] = "holding"]
                 /\ UNCHANGED <<pool, node>>
              \/ /\ count + n >= cap'
                 /\ count' = count + n
                 /\ \E w \in pool :
                       /\ waiters' = Append(rest, w)
                       /\ pool' = pool \ {w}
                       /\ node' = [node EXCEPT ![g] = w]
                 /\ pc' = [pc EXCEPT ![g] = "parked"]

\* Mutant: the waiter object goes back to the pool with its token.
WaitReceiveKeepsToken(g) ==
    /\ pc[g] = "parked"
    /\ ch[node[g]] > 0
    /\ pool' = pool \cup {node[g]}
    /\ pc' = [pc EXCEPT ![g] = "holding"]
    /\ node' = [node EXCEPT ![g] = NoWaiter]
    /\ UNCHANGED <<cap, count, waiters, ch>>

\* The parked caller receives its token and recycles the waiter object.
WaitReceive(g) ==
    /\ pc[g] = "parked"
    /\ ch[node[g]] > 0
    /\ ch' = [ch EXCEPT ![node[g]] = @ - 1]
    /\ pool' = pool \cup {node[g]}
    /\ pc' = [pc EXCEPT ![g] = "holding"]
    /\ node' = [node EXCEPT ![g] = NoWaiter]
    /\ UNCHANGED <<cap, count, waiters>>

\* Mutant: the test for a surplus slot is off by one.
PostOffByOne(g) ==
    /\ pc[g] = "holding"
    /\ updateCapacity
    /\ \/ /\ count >= cap' \/ waiters = <<>>
          /\ count' = count - 1
          /\ pc' = [pc EXCEPT ![g] = "outside"]
          /\ UNCHANGED <<waiters, node>>
       \/ /\ count < cap' /\ waiters # <<>>
          /\ waiters' = Tail(waiters)
          /\ pc' = [pc EXCEPT ![g] = "waking"]
          /\ node' = [node EXCEPT ![g] = Head(waiters)]
          /\ UNCHANGED count
    /\ UNCHANGED <<ch, pool>>

\* Mutant: the slot is both handed over and freed.
PostFreesHandedSlot(g) ==
    /\ pc[g] = "holding"
    /\ updateCapacity
    /\ count' = count - 1
    /\ \/ /\ count > cap' \/ waiters = <<>>
          /\ pc' = [pc EXCEPT ![g] = "outside"]
          /\ UNCHANGED <<waiters, node>>
       \/ /\ count <= cap' /\ waiters # <<>>
          /\ waiters' = Tail(waiters)
          /\ pc' = [pc EXCEPT ![g] = "waking"]
          /\ node' = [node EXCEPT ![g] = Head(waiters)]
    /\ UNCHANGED <<ch, pool>>


Post(g) ==
    /\ pc[g] = "holding"
    /\ updateCapacity
    /\ \/ /\ count > cap' \/ waiters = <<>>
          /\ count' = count - 1
          /\ pc' = [pc EXCEPT ![g] = "outside"]
          /\ UNCHANGED <<waiters, node>>
       \/ /\ count <= cap' /\ waiters # <<>>
          /\ waiters' = Tail(waiters)
          /\ pc' = [pc EXCEPT ![g] = "waking"]
          /\ node' = [node EXCEPT ![g] = Head(waiters)]
          /\ UNCHANGED count
    /\ UNCHANGED <<ch, pool>>

\* Post's send, after it has unlocked mu.
PostSend(g) ==
    /\ pc[g] = "waking"
    /\ ch[node[g]] < 1
    /\ ch' = [ch EXCEPT ![node[g]] = @ + 1]
    /\ pc' = [pc EXCEPT ![g] = "outside"]
    /\ node' = [node EXCEPT ![g] = NoWaiter]
    /\ UNCHANGED <<cap, count, waiters, pool>>

Next == \E g \in Goroutines :
    TryWait(g) \/ Wait(g) \/ WaitReceive(g) \/ Post(g) \/ PostSend(g)

Spec == newMemSemaphore /\ [][Next]_vars

\* A holder finishes its work and calls Post (NetbenchReqHandler does), the
\* runtime runs every runnable goroutine: nothing is assumed of new callers.
FairSpec ==
    /\ Spec
    /\ \A g \in Goroutines :
          WF_vars(WaitReceive(g)) /\ WF_vars(Post(g)) /\ WF_vars(PostSend(g))
-----------------------------------------------------------------------------
(* Properties *)

\* Every variable has its type; in particular the capacity stays within 1 and
\* the bandit's greatest arm, and a waiter's channel never holds two tokens.
TypeOK ==
    /\ cap \in 1..MaxCap
    /\ count \in Nat
    /\ waiters \in Seq(Waiters)
    /\ ch \in [Waiters -> {0, 1}]
    /\ pool \in SUBSET Waiters
    /\ pc \in [Goroutines -> {"outside", "holding", "parked", "waking"}]
    /\ node \in [Goroutines -> Waiters \cup {NoWaiter}]

\* Goroutines parked on w, and goroutines inside Post that will send to w.
ParkedOn(w) == {g \in Goroutines : pc[g] = "parked" /\ node[g] = w}
WakersOf(w) == {g \in Goroutines : pc[g] = "waking" /\ node[g] = w}

Queued == Elements(waiters)

\* The callers that own a slot: they run, or their wake-up is on its way.
Owners ==
    {g \in Goroutines : \/ pc[g] = "holding"
                        \/ pc[g] = "parked" /\ node[g] \notin Queued}

\* count is the number of slots in use, those being handed over included: a
\* slot is neither lost nor counted twice when Post hands it to a waiter, when
\* Wait drains the queue, or when the capacity shrinks under its holders.  In
\* particular the uint32 count-- of Post never wraps.
SlotAccounting == count = Cardinality(Owners)

\* A waiter object has one role at a time.  In the pool it is clean: no token,
\* nobody parked on it, no Post about to send to it.  In the queue it stands
\* once, for one caller, with an empty channel.  Popped, it gets exactly one
\* token.  So a recycled object never wakes the wrong caller, and a send on
\* the one-slot channel never blocks, under mu (Wait) or outside it (Post).
WaiterDiscipline ==
    /\ \A i, j \in DOMAIN waiters : waiters[i] = waiters[j] => i = j
    /\ \A w \in pool :
          w \notin Queued /\ ch[w] = 0 /\ ParkedOn(w) = {} /\ WakersOf(w) = {}
    /\ \A w \in Waiters \ pool : \E g \in Goroutines : ParkedOn(w) = {g}
    /\ \A w \in Queued : ch[w] = 0 /\ WakersOf(w) = {}
    /\ \A w \in Waiters \ (pool \cup Queued) :
          \/ ch[w] = 1 /\ WakersOf(w) = {}
          \/ ch[w] = 0 /\ \E g \in Goroutines : WakersOf(w) = {g}

\* Somebody owns a slot as long as anybody is queued, however the capacity
\* moved meanwhile: the Post that will wake the head of the queue is to come.
NoStrandedWaiters == waiters # <<>> => count > 0

\* A call takes new slots only within the capacity it has just computed; the
\* count exceeds the capacity only because the capacity shrank.
GrantsWithinCapacity == [][count' > count => count' <= cap']_vars

\* The semaphore implements its abstract specification: the caller a waiter
\* object stands for waits in line until its object leaves the queue.
CallerOf(w) == CHOOSE g \in ParkedOn(w) : TRUE
Abstract == INSTANCE AdaptiveSemaphore WITH
                owners <- Owners,
                line <- [i \in DOMAIN waiters |-> CallerOf(waiters[i])]
ImplementsAdaptiveSemaphore == Abstract!Spec

\* TryWait takes a slot that parked callers are waiting for.
Overtakes ==
    \E g \in Goroutines :
        pc[g] = "outside" /\ pc'[g] = "holding" /\ waiters # <<>> /\ waiters' = waiters

\* A caller of Wait gets its slot, if holders release theirs and callers of
\* TryWait do not go on overtaking the queue for ever (Post frees the slot when
\* the capacity has shrunk, and TryWait does not look at the queue).
WaitIsGranted ==
    \/ []<><<Overtakes>>_vars
    \/ \A g \in Goroutines : pc[g] = "parked" ~> pc[g] = "holding"
=============================================================================

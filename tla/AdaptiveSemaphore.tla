------------------------- MODULE AdaptiveSemaphore -------------------------
(***************************************************************************)
(* What msemaphore.MemSemaphore promises its callers, with no mutex, no    *)
(* counter, no channels and no recycled waiter objects: a set of owners, a *)
(* line of goroutines waiting their turn, and a capacity that the          *)
(* controller may move at every call.                                      *)
(***************************************************************************)
EXTENDS Naturals, Sequences, FiniteSets

CONSTANTS Goroutines,  \* the callers of the semaphore
          TryCallers,  \* those that also call TryWait
          MaxCap       \* runtime.GOMAXPROCS(0): the largest capacity

VARIABLES cap,      \* the current capacity
          owners,   \* the callers that own a slot
          line      \* the callers inside Wait, oldest first

vars == <<cap, owners, line>>

Elements(s) == {s[i] : i \in DOMAIN s}

Outside == Goroutines \ (owners \cup Elements(line))

\* The number of callers at the head of l that fit beside the set o.
Fitting(o, l) ==
    LET room == IF cap' > Cardinality(o) THEN cap' - Cardinality(o) ELSE 0
    IN  IF room < Len(l) THEN room ELSE Len(l)

\* Grant slots to the first n callers of l.
Grant(o, l, n) ==
    /\ owners' = o \cup Elements(SubSeq(l, 1, n))
    /\ line' = SubSeq(l, n + 1, Len(l))

Init ==
    /\ cap = 1
    /\ owners = {}
    /\ line = <<>>

Resize == cap' \in 1..MaxCap

\* A caller that does not wait: it may overtake the line, never the capacity.
TryWait(g) ==
    /\ g \in Outside \cap TryCallers
    /\ owners' = IF Cardinality(owners) < cap' THEN owners \cup {g} ELSE owners
    /\ UNCHANGED line

\* A caller joins the line, then everybody at its head who fits is granted.
Wait(g) ==
    /\ g \in Outside
    /\ LET l == Append(line, g) IN Grant(owners, l, Fitting(owners, l))

\* A slot is given up, and goes to the head of the line if it still exists.
Post(g) ==
    /\ g \in owners
    /\ LET o == owners \ {g}
           n == Fitting(o, line)
       IN  Grant(o, line, IF n > 1 THEN 1 ELSE n)

Next == Resize /\ \E g \in Goroutines : TryWait(g) \/ Wait(g) \/ Post(g)

Spec == Init /\ [][Next]_vars
=============================================================================

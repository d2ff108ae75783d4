------------------------- MODULE PccLifecycleProofs -------------------------
(***************************************************************************)
(* The global counters of the credit-based servers, for every number of    *)
(* connections, every word size and every step of the controllers.         *)
(*                                                                         *)
(* ServingCounted is not inductive: that some session serves and the count *)
(* is positive does not say that the count stays positive when another     *)
(* session leaves.  NumSessExact gives the count its exact value.          *)
(* AsNewWhenIdle is not inductive either: Owed says who will still reset a *)
(* counter that is not as new when nobody is counted.  OverloadNeverRaises *)
(* needs the range of what the controllers have loaded.                    *)
(* OnlyReinitMiscounts is about the size of a set: a step changes the part *)
(* of one session, and RestOf are the credits of the others.               *)
(*                                                                         *)
(* The second half is about the drained lists of PccDrained, for every     *)
(* number of sessions and of processors: ListInv says who is on which      *)
(* list, ScanInv where a search still has to look.                         *)
(***************************************************************************)
EXTENDS PccLifecycle, PccDrained, FiniteSetTheorems, TLAPS

Places == {"absent", "serving", "closed", "waiting", "resetUsed", "resetPool"}

\* The sessions between the two steps of spccServer that count them.
CountedIn(where) == {s \in Sessions : where[s] \in {"serving", "closed"}}

\* SpccNumSess is the number of those sessions.
NumSessExact ==
    /\ at \in [Sessions -> Places]
    /\ numSess = Cardinality(CountedIn(at))

\* The sessions counted are finitely many.
LEMMA CountedFinite ==
    ASSUME NEW where PROVE IsFiniteSet(CountedIn(where))
BY LifecycleAssumption, FS_Subset DEF CountedIn

\* The count is exact when the server starts.
LEMMA NumSessInit == Init => NumSessExact
<1> SUFFICES ASSUME Init PROVE NumSessExact
    OBVIOUS
<1>1. CountedIn(at) = {}
    BY DEF Init, CountedIn
<1>2. at \in [Sessions -> Places]
    BY DEF Init, Places
<1> QED
    BY <1>1, <1>2, FS_EmptySet DEF Init, NumSessExact

\* A session's step between places that are both counted, or both not, leaves
\* the set of counted sessions alone.
LEMMA NumSessStep == NumSessExact /\ [Next]_vars => NumSessExact'
<1> SUFFICES ASSUME NumSessExact, [Next]_vars PROVE NumSessExact'
    OBVIOUS
<1> USE DEF NumSessExact, Places
<1>0. IsFiniteSet(CountedIn(at))
    BY CountedFinite
<1>1. ASSUME NEW s \in Sessions, Accept(s) PROVE NumSessExact'
    <2>1. CountedIn(at') = CountedIn(at) \cup {s} /\ s \notin CountedIn(at)
        BY <1>1 DEF Accept, CountedIn
    <2>2. Cardinality(CountedIn(at')) = Cardinality(CountedIn(at)) + 1
        BY <1>0, <2>1, FS_AddElement
    <2> QED
        BY <1>1, <2>2 DEF Accept
<1>2. ASSUME NEW s \in Sessions, Uncount(s) PROVE NumSessExact'
    <2>1. CountedIn(at') = CountedIn(at) \ {s} /\ s \in CountedIn(at)
        BY <1>2 DEF Uncount, CountedIn
    <2>2. Cardinality(CountedIn(at')) = Cardinality(CountedIn(at)) - 1
        BY <1>0, <2>1, FS_RemoveElement
    <2> QED
        BY <1>2, <2>2 DEF Uncount
<1>3. ASSUME NEW s \in Sessions, Close(s) \/ CheckLast(s) \/ ResetUsed(s) \/ ResetPool(s)
      PROVE  NumSessExact'
    <2>1. numSess' = numSess /\ at' \in [Sessions -> Places]
        BY <1>3 DEF Close, CheckLast, ResetUsed, ResetPool
    <2>2. CountedIn(at') = CountedIn(at)
        BY <1>3 DEF Close, CheckLast, ResetUsed, ResetPool, CountedIn
    <2> QED
        BY <2>1, <2>2
<1>4. ASSUME NEW s \in Sessions, Update(s) PROVE NumSessExact'
    BY <1>4 DEF Update
<1>5. ASSUME NEW s \in Sessions, LoadPool(s) \/ ComputePool(s) \/ StorePool(s)
      PROVE  NumSessExact'
    BY <1>5 DEF LoadPool, ComputePool, StorePool
<1>6. CASE UNCHANGED vars
    BY <1>6 DEF vars
<1> QED
    BY <1>1, <1>2, <1>3, <1>4, <1>5, <1>6 DEF Next

\* A session that is counted makes the count positive.
LEMMA CountedPositive ==
    ASSUME NumSessExact, NEW s \in Sessions, at[s] \in {"serving", "closed"}
    PROVE  numSess > 0
<1>1. s \in CountedIn(at)
    BY DEF CountedIn
<1>2. IsFiniteSet(CountedIn(at))
    BY CountedFinite
<1>3. Cardinality(CountedIn(at)) \in Nat /\ Cardinality(CountedIn(at)) # 0
    BY <1>1, <1>2, FS_CardinalityType, FS_EmptySet
<1> QED
    BY <1>3 DEF NumSessExact

\* A session that may still call spccUpdateCredit is counted in SpccNumSess, so
\* the division of the unused credits by the number of sessions is defined.
THEOREM SessionsCounted == Spec => []ServingCounted
<1>1. NumSessExact => ServingCounted
    BY CountedPositive DEF ServingCounted
<1> QED
    BY <1>1, NumSessInit, NumSessStep, PTL DEF Spec
-----------------------------------------------------------------------------
(* The range of the pools *)

Pools == 0..(Word - 1)
Dirs == {"none", "loaded", "down", "up", "stay"}

\* Pools and plans are unsigned words, and a plan that lowers the pool does.
PoolInv ==
    /\ numSess \in Nat /\ algo \in {"pcc", "breakwater", "protego"}
    /\ creditPool \in Pools /\ origCp \in Pools
    /\ plan \in [Sessions -> [newCp : Pools, from : Pools, dir : Dirs]]
    /\ OverloadNeverRaises

\* What the two limits make of a value is a word, and no more than the value or
\* the lower limit.
LEMMA ClampRange ==
    ASSUME NEW pool \in Int, NEW n \in Nat
    PROVE  ClampPool(pool, n) \in Pools /\ ClampPool(pool, n) <= MaxOf(pool, Procs)
<1>1. n * MaxWindow \in Nat
    BY WindowAssumption
<1>2. (n * MaxWindow) % Word \in Pools
    BY <1>1, PoolAssumption, ProcsAssumption DEF Pools
<1> DEFINE limit == (n * MaxWindow) % Word
<1> HIDE DEF limit
<1>3. limit \in Pools
    BY <1>2 DEF limit
<1>4. MinOf(MaxOf(pool, Procs), limit) \in Pools
        /\ MinOf(MaxOf(pool, Procs), limit) <= MaxOf(pool, Procs)
    BY <1>3, PoolAssumption, ProcsAssumption DEF MinOf, MaxOf, Pools
<1> QED
    BY <1>4 DEF ClampPool, limit

\* A controller computes a word, and under overload none that is larger than the
\* pool and the lower limit: no subtraction wraps, except PCC's from a pool that
\* is smaller than its step.
LEMMA NewPoolsRange ==
    ASSUME NEW pool \in Pools, NEW n \in Nat, NEW dir \in {"down", "up", "stay"},
           algo \in {"pcc", "breakwater", "protego"}, origCp \in Pools,
           NEW cp \in NewPools(pool, n)[dir]
    PROVE  /\ cp \in Pools
           /\ dir = "down" /\ (algo = "pcc" => pool >= SpccEpsilon) => cp <= MaxOf(pool, Procs)
<1> USE PoolAssumption, ProcsAssumption
<1>0. pool \in Int
    BY DEF Pools
<1>1. \A k \in Int : Add(pool, k) \in Int /\ Sub(pool, k) \in Int
    BY <1>0 DEF Add, Sub
<1>2. CASE algo = "pcc"
    <2>1. SpccEpsilon \in Int
        OBVIOUS
    <2>2. Sub(pool, SpccEpsilon) \in Int /\ Add(pool, SpccEpsilon) \in Int
        BY <1>1, <2>1
    <2>3. pool >= SpccEpsilon => Sub(pool, SpccEpsilon) <= pool
        BY DEF Sub, Pools
    <2>4. CASE dir = "down"
        <3>1. cp = ClampPool(Sub(pool, SpccEpsilon), n)
            BY <1>2, <2>4 DEF NewPools, spccDecrCp
        <3>2. cp \in Pools /\ cp <= MaxOf(Sub(pool, SpccEpsilon), Procs)
            BY <2>2, <3>1, ClampRange
        <3> QED
            BY <1>0, <1>2, <2>2, <2>3, <3>2 DEF MaxOf, Pools
    <2>5. CASE dir = "up"
        BY <1>2, <2>2, <2>5, ClampRange DEF NewPools, spccIncrCp
    <2>6. CASE dir = "stay"
        BY <1>2, <2>6 DEF NewPools
    <2> QED
        BY <2>4, <2>5, <2>6
<1>3. CASE algo = "breakwater"
    <2>1. CASE dir = "down"
        <3>1. PICK k \in (pool \div 2)..pool : cp = ClampPool(MinOf(k, Sub(pool, 1)), n)
            BY <1>3, <2>1 DEF NewPools, sbwDecrCreditPool
        <3>2. k \in Int /\ k <= pool
            BY <1>0
        <3>3. MinOf(k, Sub(pool, 1)) \in Int /\ MinOf(k, Sub(pool, 1)) <= pool
            BY <1>0, <1>1, <3>2 DEF MinOf
        <3>4. cp \in Pools /\ cp <= MaxOf(MinOf(k, Sub(pool, 1)), Procs)
            BY <3>1, <3>3, ClampRange
        <3> HIDE <3>1
        <3> QED
            BY <1>0, <3>3, <3>4 DEF MaxOf, Pools
    <2>2. CASE dir = "up"
        <3>1. PICK k \in 0..MaxStep : cp = ClampPool(Add(pool, k), n)
            BY <1>3, <2>2 DEF NewPools, sbwIncrCreditPool
        <3> QED
            BY <1>1, <2>2, <3>1, ClampRange
    <2>3. CASE dir = "stay"
        BY <1>3, <2>3 DEF NewPools
    <2> QED
        BY <2>1, <2>2, <2>3
<1>4. CASE algo = "protego"
    <2>1. CASE dir = "down"
        <3>1. PICK k \in 1..MaxStep : cp = ClampPool(AsInt(pool) - k, n)
            BY <1>4, <2>1 DEF NewPools, spgDecrCreditPool
        <3>2. AsInt(pool) - k \in Int /\ AsInt(pool) - k <= pool
            BY <1>0 DEF AsInt, Pools
        <3>3. cp \in Pools /\ cp <= MaxOf(AsInt(pool) - k, Procs)
            BY <3>1, <3>2, ClampRange
        <3> QED
            BY <1>0, <3>2, <3>3 DEF MaxOf, Pools
    <2>2. CASE dir = "up"
        <3>1. PICK k \in 1..MaxStep : cp = ClampPool(Add(pool, k), n)
            BY <1>4, <2>2 DEF NewPools, spgIncrCreditPool
        <3> QED
            BY <1>1, <2>2, <3>1, ClampRange
    <2>3. CASE dir = "stay"
        BY <1>4, <2>3 DEF NewPools
    <2> QED
        BY <2>1, <2>2, <2>3
<1> QED
    BY <1>2, <1>3, <1>4

\* The pools are in range when the server starts.
LEMMA PoolInit == Init => PoolInv
<1> SUFFICES ASSUME Init PROVE PoolInv
    OBVIOUS
<1>1. algo \in {"pcc", "breakwater", "protego"}
    BY LifecycleAssumption DEF Init
<1>2. creditPool \in Pools /\ origCp \in Pools /\ 0 \in Pools
    BY PoolAssumption, ProcsAssumption DEF Init, Pools
<1>3. plan \in [Sessions -> [newCp : Pools, from : Pools, dir : Dirs]]
    BY <1>2 DEF Init, NoPlan, Dirs
<1>4. OverloadNeverRaises
    BY DEF Init, NoPlan, OverloadNeverRaises
<1> QED
    BY <1>1, <1>2, <1>3, <1>4 DEF Init, PoolInv

\* Steps that touch neither a pool nor a plan keep the range; a worker's steps
\* keep it by NewPoolsRange.
LEMMA PoolStep == NumSessExact' /\ PoolInv /\ [Next]_vars => PoolInv'
<1> SUFFICES ASSUME NumSessExact', PoolInv, [Next]_vars PROVE PoolInv'
    OBVIOUS
<1>0. numSess' \in Nat
    BY CountedFinite, FS_CardinalityType DEF NumSessExact
<1>1. ASSUME UNCHANGED <<creditPool, plan, origCp, algo>> PROVE PoolInv'
    BY <1>0, <1>1 DEF PoolInv, OverloadNeverRaises
<1>2. ASSUME NEW s \in Sessions,
             \/ Accept(s) \/ Update(s) \/ Close(s) \/ Uncount(s) \/ CheckLast(s) \/ ResetUsed(s)
      PROVE  PoolInv'
    BY <1>1, <1>2 DEF Accept, Update, Close, Uncount, CheckLast, ResetUsed
<1>3. ASSUME NEW s \in Sessions, ResetPool(s) PROVE PoolInv'
    <2>1. creditPool' \in Pools
        BY <1>3, PoolAssumption, ProcsAssumption DEF ResetPool, Pools
    <2> QED
        BY <1>0, <1>3, <2>1 DEF ResetPool, PoolInv, OverloadNeverRaises
<1>4. ASSUME NEW s \in Sessions, LoadPool(s) PROVE PoolInv'
    <2>1. plan' = [plan EXCEPT ![s] = [newCp |-> 0, from |-> creditPool, dir |-> "loaded"]]
        BY <1>4 DEF LoadPool, NoPlan
    <2>2. 0 \in Pools
        BY PoolAssumption, ProcsAssumption DEF Pools
    <2>3. plan' \in [Sessions -> [newCp : Pools, from : Pools, dir : Dirs]]
        BY <2>1, <2>2 DEF PoolInv, Dirs
    <2>4. OverloadNeverRaises'
        BY <1>4, <2>1 DEF LoadPool, PoolInv, OverloadNeverRaises
    <2> QED
        BY <1>0, <1>4, <2>3, <2>4 DEF LoadPool, PoolInv
<1>5. ASSUME NEW s \in Sessions, ComputePool(s) PROVE PoolInv'
    <2>1. PICK dir \in {"down", "up", "stay"} :
              \E cp \in NewPools(plan[s].from, numSess)[dir] :
                  plan' = [plan EXCEPT ![s] = [newCp |-> cp, from |-> @.from, dir |-> dir]]
        BY <1>5 DEF ComputePool
    <2>2. PICK cp \in NewPools(plan[s].from, numSess)[dir] :
              plan' = [plan EXCEPT ![s] = [newCp |-> cp, from |-> @.from, dir |-> dir]]
        BY <2>1
    <2>3. plan[s].from \in Pools
        BY DEF PoolInv
    <2>4. /\ cp \in Pools
          /\ dir = "down" /\ (algo = "pcc" => plan[s].from >= SpccEpsilon)
                => cp <= MaxOf(plan[s].from, Procs)
        BY <2>3, NewPoolsRange DEF PoolInv
    <2>5. plan' = [plan EXCEPT ![s] = [newCp |-> cp, from |-> plan[s].from, dir |-> dir]]
        BY <2>2 DEF PoolInv
    <2>6. plan' \in [Sessions -> [newCp : Pools, from : Pools, dir : Dirs]]
        BY <2>3, <2>4, <2>5 DEF PoolInv, Dirs
    <2>7. OverloadNeverRaises'
        BY <1>5, <2>4, <2>5 DEF ComputePool, PoolInv, OverloadNeverRaises
    <2> QED
        BY <1>0, <1>5, <2>6, <2>7 DEF ComputePool, PoolInv
<1>6. ASSUME NEW s \in Sessions, StorePool(s) PROVE PoolInv'
    <2>1. plan' = [plan EXCEPT ![s] = [newCp |-> 0, from |-> 0, dir |-> "none"]]
        BY <1>6 DEF StorePool, NoPlan
    <2>2. 0 \in Pools
        BY PoolAssumption, ProcsAssumption DEF Pools
    <2>3. plan' \in [Sessions -> [newCp : Pools, from : Pools, dir : Dirs]]
        BY <2>1, <2>2 DEF PoolInv, Dirs
    <2>4. creditPool' \in Pools /\ origCp' \in Pools
        BY <1>6 DEF StorePool, PoolInv
    <2>5. OverloadNeverRaises'
        BY <1>6, <2>1 DEF StorePool, PoolInv, OverloadNeverRaises
    <2> QED
        BY <1>0, <1>6, <2>3, <2>4, <2>5 DEF StorePool, PoolInv
<1>7. CASE UNCHANGED vars
    BY <1>1, <1>7 DEF vars
<1> QED
    BY <1>2, <1>3, <1>4, <1>5, <1>6, <1>7 DEF Next

\* Whichever of the three controllers runs, and however its loads and stores
\* interleave with others' and with sessions that come and go, a reaction to
\* overload computes no pool above the one it loaded (and the lower limit),
\* except where PCC subtracts its step from a smaller pool.
THEOREM OverloadLowers == Spec => []OverloadNeverRaises
<1>1. PoolInv => OverloadNeverRaises
    BY DEF PoolInv
<1> QED
    BY <1>1, NumSessInit, NumSessStep, PoolInit, PoolStep, PTL DEF Spec
-----------------------------------------------------------------------------
(* The counters are as new when all sessions are gone *)

\* A session that is still to reset SpccCreditUsed (or to see that another one
\* is counted), and one that is still to reset the pool.
OwesUsed(s) == at[s] \in {"waiting", "resetUsed"}
OwesPool(s) == at[s] \in {"waiting", "resetUsed", "resetPool"}

\* While nobody is counted, some session on its way out owes the reset of a
\* counter that is not as new; only a session that is not gone has a plan.
Owed ==
    /\ numSess = 0 /\ creditUsed # 0 => \E s \in Sessions : OwesUsed(s)
    /\ numSess = 0 /\ creditPool # Procs => \E s \in Sessions : OwesPool(s)
    /\ \A s \in Sessions : plan[s] # NoPlan => at[s] \in {"serving", "closed", "waiting"}

\* Nothing is owed when the server starts.
LEMMA OwedInit == Init => Owed
BY DEF Init, Owed

\* A session pays what it owes before it is gone, or leaves the debt to one that
\* is counted.
LEMMA OwedStep ==
    NumSessExact /\ NumSessExact' /\ PoolInv /\ Owed /\ [Next]_vars => Owed'
<1> SUFFICES ASSUME NumSessExact, NumSessExact', PoolInv, Owed, [Next]_vars PROVE Owed'
    OBVIOUS
<1> USE DEF Owed, OwesUsed, OwesPool
<1>0. numSess \in Nat /\ at \in [Sessions -> Places]
    BY CountedFinite, FS_CardinalityType DEF NumSessExact
<1>1. ASSUME NEW s \in Sessions, Accept(s) PROVE Owed'
    BY <1>0, <1>1 DEF Accept
<1>2. ASSUME NEW s \in Sessions, Update(s) \/ Close(s) PROVE Owed'
    <2>1. numSess > 0 /\ numSess' = numSess
        BY <1>2, CountedPositive DEF Update, Close
    <2>2. plan' = plan /\ \A t \in Sessions : plan[t] # NoPlan
                             => at'[t] \in {"serving", "closed", "waiting"}
        BY <1>0, <1>2 DEF Update, Close
    <2> QED
        BY <2>1, <2>2
<1>3. ASSUME NEW s \in Sessions, Uncount(s) PROVE Owed'
    <2>1. at'[s] = "waiting"
        BY <1>0, <1>3 DEF Uncount
    <2>2. \A t \in Sessions : plan'[t] # NoPlan => at'[t] \in {"serving", "closed", "waiting"}
        BY <1>0, <1>3 DEF Uncount
    <2> QED
        BY <2>1, <2>2
<1>4. ASSUME NEW s \in Sessions, CheckLast(s) PROVE Owed'
    <2>1. \A t \in Sessions : plan'[t] # NoPlan => at'[t] \in {"serving", "closed", "waiting"}
        BY <1>0, <1>4 DEF CheckLast
    <2>2. CASE numSess = 0
        <3>1. at'[s] = "resetUsed"
            BY <1>0, <1>4, <2>2 DEF CheckLast
        <3> QED
            BY <2>1, <3>1
    <2>3. CASE numSess # 0
        BY <1>4, <2>1, <2>3 DEF CheckLast
    <2> QED
        BY <2>2, <2>3
<1>5. ASSUME NEW s \in Sessions, ResetUsed(s) PROVE Owed'
    <2>1. at'[s] = "resetPool" /\ creditUsed' = 0
        BY <1>0, <1>5 DEF ResetUsed
    <2>2. \A t \in Sessions : plan'[t] # NoPlan => at'[t] \in {"serving", "closed", "waiting"}
        BY <1>0, <1>5 DEF ResetUsed
    <2> QED
        BY <2>1, <2>2
<1>6. ASSUME NEW s \in Sessions, ResetPool(s) PROVE Owed'
    <2>1. creditPool' = Procs /\ creditUsed' = creditUsed /\ numSess' = numSess
        BY <1>6 DEF ResetPool
    <2>2. \A t \in Sessions : OwesUsed(t) => at'[t] = at[t]
        BY <1>0, <1>6 DEF ResetPool
    <2>3. \A t \in Sessions : plan'[t] # NoPlan => at'[t] \in {"serving", "closed", "waiting"}
        BY <1>0, <1>6 DEF ResetPool
    <2> QED
        BY <2>1, <2>2, <2>3
<1>7. ASSUME NEW s \in Sessions, LoadPool(s) \/ ComputePool(s) PROVE Owed'
    <2>1. UNCHANGED <<numSess, creditUsed, creditPool, at>>
        BY <1>7 DEF LoadPool, ComputePool
    <2>2. at[s] \in {"serving", "closed", "waiting"}
        BY <1>7 DEF LoadPool, ComputePool, NoPlan
    <2>3. \A t \in Sessions : t # s => plan'[t] = plan[t]
        BY <1>7 DEF LoadPool, ComputePool, PoolInv
    <2> QED
        BY <2>1, <2>2, <2>3
<1>8. ASSUME NEW s \in Sessions, StorePool(s) PROVE Owed'
    <2>1. UNCHANGED <<numSess, creditUsed, at>>
        BY <1>8 DEF StorePool
    <2>2. at[s] \in {"serving", "closed", "waiting"}
        BY <1>8 DEF StorePool, NoPlan
    <2>3. \A t \in Sessions : plan'[t] # NoPlan => plan[t] # NoPlan
        BY <1>8 DEF StorePool, PoolInv
    <2>4. numSess = 0 => OwesPool(s)
        BY <2>2, CountedPositive
    <2> QED
        BY <2>1, <2>3, <2>4
<1>9. CASE UNCHANGED vars
    BY <1>9 DEF vars
<1> QED
    BY <1>1, <1>2, <1>3, <1>4, <1>5, <1>6, <1>7, <1>8, <1>9 DEF Next

\* Once every session is gone the counters are as new, for any number of
\* sessions that come, close and re-initialise in any order, with a controller
\* that stores a pool it computed long ago in the middle of it.
THEOREM IdleServerAsNew == Spec => []AsNewWhenIdle
<1>1. NumSessExact /\ Owed => AsNewWhenIdle
    <2> SUFFICES ASSUME NumSessExact, Owed, \A s \in Sessions : at[s] = "absent"
                 PROVE  creditUsed = 0 /\ creditPool = Procs
        BY DEF AsNewWhenIdle
    <2>1. CountedIn(at) = {}
        BY DEF CountedIn
    <2>2. numSess = 0
        BY <2>1, FS_EmptySet DEF NumSessExact
    <2> QED
        BY <2>2 DEF Owed, OwesUsed, OwesPool
<1> QED
    BY <1>1, NumSessInit, NumSessStep, PoolInit, PoolStep, OwedInit, OwedStep, PTL DEF Spec
-----------------------------------------------------------------------------
(* The account of the credits.  A step changes the credits of one session;   *)
(* RestOf are those of the others.                                           *)

RestOf(where, cr, s) ==
    UNION {{t} \X (1..cr[t]) : t \in {u \in Sessions : where[u] = "serving"} \ {s}}

\* Credits and their count are words.
CreditTypes ==
    /\ creditUsed \in Pools
    /\ credit \in [Sessions -> 0..(MaxWindow - 1)]

\* All the windows together do not overflow a word.
CreditsFit == Cardinality(Sessions) * (MaxWindow - 1) < Word

LEMMA SumSplit ==
    ASSUME NEW where, NEW cr \in [Sessions -> Nat], NEW s \in Sessions
    PROVE  /\ Cardinality(RestOf(where, cr, s)) \in Nat
           /\ where[s] = "serving" =>
                 SumOfCredits(where, cr) = Cardinality(RestOf(where, cr, s)) + cr[s]
           /\ where[s] # "serving" => SumOfCredits(where, cr) = Cardinality(RestOf(where, cr, s))
<1> DEFINE Serving == {t \in Sessions : where[t] = "serving"}
           All == UNION {{t} \X (1..cr[t]) : t \in Serving}
           Rest == UNION {{t} \X (1..cr[t]) : t \in Serving \ {s}}
           Own == {s} \X (1..cr[s])
<1>1. IsFiniteSet(Rest)
    <2>1. IsFiniteSet(Serving \ {s})
        BY LifecycleAssumption, FS_Subset
    <2> DEFINE f == [t \in Serving \ {s} |-> {t} \X (1..cr[t])]
               Parts == {{t} \X (1..cr[t]) : t \in Serving \ {s}}
    <2>2. IsFiniteSet(Parts)
        <3>1. Parts = {f[t] : t \in Serving \ {s}}
            BY Zenon
        <3>2. f \in Surjection(Serving \ {s}, Parts)
            BY <3>1, Zenon DEF Surjection
        <3> QED
            BY <2>1, <3>2, FS_Surjection
    <2>3. \A T \in Parts : IsFiniteSet(T)
        <3> SUFFICES ASSUME NEW t \in Sessions PROVE IsFiniteSet({t} \X (1..cr[t]))
            OBVIOUS
        <3>1. IsFiniteSet({t})
            BY FS_Singleton, Zenon
        <3>2. 1 \in Int /\ cr[t] \in Int
            OBVIOUS
        <3>3. IsFiniteSet(1..cr[t])
            BY <3>2, FS_Interval
        <3> QED
            BY <3>1, <3>3, FS_Product
    <2> QED
        BY <2>2, <2>3, FS_UNION, Zenon
<1>2. IsFiniteSet(Own) /\ Cardinality(Own) = cr[s]
    <2>1. cr[s] \in Nat
        OBVIOUS
    <2>2. IsFiniteSet({s}) /\ Cardinality({s}) = 1
        BY FS_Singleton, Zenon
    <2>3. IsFiniteSet(1..cr[s]) /\ Cardinality(1..cr[s]) = cr[s]
        BY <2>1, FS_Interval
    <2>4. IsFiniteSet(Own) /\ Cardinality(Own) = Cardinality({s}) * Cardinality(1..cr[s])
        BY <2>2, <2>3, FS_Product
    <2> QED
        BY <2>1, <2>2, <2>3, <2>4
<1>3. Rest \cap Own = {}
    OBVIOUS
<1>4. Cardinality(Rest) \in Nat
    BY <1>1, FS_CardinalityType
<1>5. where[s] = "serving" => All = Rest \cup Own
    OBVIOUS
<1>6. where[s] # "serving" => All = Rest
    OBVIOUS
<1>7. RestOf(where, cr, s) = Rest /\ SumOfCredits(where, cr) = Cardinality(All)
    BY DEF RestOf, SumOfCredits
<1> HIDE DEF Rest, Own, All
<1>8. Cardinality(Rest \cup Own) = Cardinality(Rest) + cr[s]
    <2>1. Cardinality(Rest \cup Own) = Cardinality(Rest) + Cardinality(Own) - Cardinality({})
        BY <1>1, <1>2, <1>3, FS_Union
    <2> QED
        BY <1>2, <1>4, <2>1, FS_EmptySet
<1> QED
    BY <1>4, <1>5, <1>6, <1>7, <1>8

LEMMA SumFits ==
    ASSUME CreditsFit, NEW where, NEW cr \in [Sessions -> 0..(MaxWindow - 1)]
    PROVE  SumOfCredits(where, cr) \in Pools
<1> DEFINE Slots == Sessions \X (1..(MaxWindow - 1))
           All == UNION {{t} \X (1..cr[t]) : t \in {u \in Sessions : where[u] = "serving"}}
<1>1. MaxWindow - 1 \in Nat /\ Word \in Nat /\ Cardinality(Sessions) \in Nat
    BY WindowAssumption, PoolAssumption, LifecycleAssumption, FS_CardinalityType
<1>2. IsFiniteSet(1..(MaxWindow - 1)) /\ Cardinality(1..(MaxWindow - 1)) = MaxWindow - 1
    BY <1>1, FS_Interval
<1>3. IsFiniteSet(Slots) /\ Cardinality(Slots) = Cardinality(Sessions) * (MaxWindow - 1)
    BY <1>2, LifecycleAssumption, FS_Product, Zenon
<1>4. \A t \in Sessions : {t} \X (1..cr[t]) \subseteq Slots
    <2>1. \A t \in Sessions : 1..cr[t] \subseteq 1..(MaxWindow - 1)
        BY <1>1
    <2> QED
        BY <2>1
<1>5. All \subseteq Slots
    BY <1>4
<1> HIDE DEF All, Slots
<1>6. IsFiniteSet(All) /\ Cardinality(All) <= Cardinality(Slots)
    BY <1>3, <1>5, FS_Subset
<1>7. Cardinality(All) \in Nat /\ Cardinality(Slots) \in Nat
    BY <1>3, <1>6, FS_CardinalityType
<1>8. Cardinality(Slots) < Word
    BY <1>3 DEF CreditsFit
<1>9. Cardinality(All) \in Pools
    BY <1>1, <1>6, <1>7, <1>8 DEF Pools
<1> QED
    BY <1>9 DEF SumOfCredits, All

\* spccUpdateCredit stays between zero and the window.
LEMMA NewCreditRange ==
    ASSUME NEW cr \in Nat, NEW dem \in Nat, NEW dropped,
           NEW unused \in Int, NEW n \in Nat \ {0}
    PROVE  UpdateCredit(cr, 0, dem, FALSE, dropped, unused, n) \in 0..(MaxWindow - 1)
<1> DEFINE over == MaxOverprovision(unused, n)
           moved == IF unused > 0 THEN MinOf(0 + dem + over, cr + unused)
                    ELSE IF unused < 0 THEN cr - 1
                    ELSE cr
           woken == IF FALSE \/ n <= Procs THEN MaxOf(moved, over) ELSE moved
           kept == IF cr > 0 /\ woken = 0 /\ ~dropped THEN over ELSE woken
           new == MinOf(CapCredit(MaxOf(kept, 0)), 0 + dem + over)
<1>1. over \in Int /\ over >= 1
    <2>1. unused \div n \in Int
        OBVIOUS
    <2> QED
        BY <2>1 DEF MaxOverprovision, MaxOf
<1> HIDE DEF over
<1>2. moved \in Int
    BY <1>1 DEF MinOf
<1> HIDE DEF moved
<1>3. woken \in Int
    BY <1>1, <1>2 DEF MaxOf
<1> HIDE DEF woken
<1>4. kept \in Int
    BY <1>1, <1>3
<1> HIDE DEF kept
<1>5. new \in 0..(MaxWindow - 1)
    BY <1>1, <1>4, WindowAssumption DEF MinOf, MaxOf, CapCredit
<1> QED
    BY <1>5 DEF UpdateCredit, over, moved, woken, kept

LEMMA UpdateStep ==
    ASSUME NumSessExact, PoolInv, CreditTypes, NEW s \in Sessions, Update(s)
    PROVE  \E c \in 0..(MaxWindow - 1) : /\ credit' = [credit EXCEPT ![s] = c]
                                         /\ creditUsed' = Add(creditUsed, c - credit[s])
<1>1. numSess \in Nat \ {0}
    BY CountedPositive DEF Update, PoolInv
<1>2. AsInt(creditPool) - AsInt(creditUsed) \in Int
    BY PoolAssumption DEF AsInt, PoolInv, CreditTypes, Pools
<1>3. credit[s] \in Nat /\ 0..MaxDemand \subseteq Nat
    BY WindowAssumption, LifecycleAssumption DEF CreditTypes
<1> DEFINE New(dem, dropped) == UpdateCredit(credit[s], 0, dem, FALSE, dropped,
                                                AsInt(creditPool) - AsInt(creditUsed), numSess)
<1>4. \A dem \in 0..MaxDemand, dropped \in BOOLEAN : New(dem, dropped) \in 0..(MaxWindow - 1)
    BY <1>1, <1>2, <1>3, NewCreditRange, Zenon
<1>5. PICK dem \in 0..MaxDemand, dropped \in BOOLEAN :
          /\ credit' = [credit EXCEPT ![s] = New(dem, dropped)]
          /\ creditUsed' = Add(creditUsed, New(dem, dropped) - credit[s])
    BY Zenon DEF Update
<1> HIDE DEF New
<1> QED
    BY <1>4, <1>5, Zenon

LEMMA CreditTypesInit == Init => CreditTypes
BY WindowAssumption, PoolAssumption, ProcsAssumption DEF Init, CreditTypes, Pools

LEMMA Wraps ==
    ASSUME NEW a \in Int
    PROVE  /\ a % Word \in Pools
           /\ a \in Pools => a % Word = a
<1>1. Word \in Nat /\ Word > 0
    BY PoolAssumption, ProcsAssumption
<1> QED
    BY <1>1 DEF Pools

LEMMA CreditTypesStep == NumSessExact /\ PoolInv /\ CreditTypes /\ [Next]_vars => CreditTypes'
<1> SUFFICES ASSUME NumSessExact, PoolInv, CreditTypes, [Next]_vars PROVE CreditTypes'
    OBVIOUS
<1>0. /\ 0 \in 0..(MaxWindow - 1) /\ 0 \in Pools /\ Pools \subseteq Int
      /\ 0..(MaxWindow - 1) \subseteq Int
    BY WindowAssumption, PoolAssumption, ProcsAssumption DEF Pools
<1>1. ASSUME NEW s \in Sessions, Update(s) PROVE CreditTypes'
    <2>1. PICK c \in 0..(MaxWindow - 1) : /\ credit' = [credit EXCEPT ![s] = c]
                                          /\ creditUsed' = Add(creditUsed, c - credit[s])
        BY <1>1, UpdateStep
    <2>2. creditUsed + (c - credit[s]) \in Int
        BY <1>0 DEF CreditTypes
    <2> QED
        BY <2>1, <2>2, Wraps DEF CreditTypes, Add
<1>2. ASSUME NEW s \in Sessions, Close(s) PROVE CreditTypes'
    <2>1. creditUsed - credit[s] \in Int
        BY <1>0 DEF CreditTypes
    <2> QED
        BY <1>2, <2>1, Wraps DEF Close, CreditTypes, Sub
<1>3. ASSUME NEW s \in Sessions, Accept(s) \/ ResetUsed(s) PROVE CreditTypes'
    BY <1>0, <1>3 DEF Accept, ResetUsed, CreditTypes
<1>4. ASSUME UNCHANGED <<creditUsed, credit>> PROVE CreditTypes'
    BY <1>4 DEF CreditTypes
<1>5. ASSUME NEW s \in Sessions, Uncount(s) \/ CheckLast(s) \/ ResetPool(s)
      PROVE  CreditTypes'
    BY <1>4, <1>5 DEF Uncount, CheckLast, ResetPool
<1>6. ASSUME NEW s \in Sessions, LoadPool(s) \/ ComputePool(s) \/ StorePool(s)
      PROVE  CreditTypes'
    BY <1>4, <1>6 DEF LoadPool, ComputePool, StorePool
<1>7. CASE UNCHANGED vars
    BY <1>4, <1>7 DEF vars
<1> QED
    BY <1>1, <1>2, <1>3, <1>5, <1>6, <1>7 DEF Next

\* A step that leaves the other sessions alone leaves their credits alone.
LEMMA RestKept ==
    ASSUME NEW w1, NEW w2, NEW c1, NEW c2, NEW s,
           \A t \in Sessions \ {s} : (w1[t] = "serving" <=> w2[t] = "serving") /\ c1[t] = c2[t]
    PROVE  RestOf(w1, c1, s) = RestOf(w2, c2, s)
<1>1. {u \in Sessions : w1[u] = "serving"} \ {s} = {u \in Sessions : w2[u] = "serving"} \ {s}
    OBVIOUS
<1> DEFINE T == {u \in Sessions : w1[u] = "serving"} \ {s}
<1>2. {{t} \X (1..c1[t]) : t \in T} = {{t} \X (1..c2[t]) : t \in T}
    OBVIOUS
<1> QED
    BY <1>1, <1>2, Zenon DEF RestOf

\* The account stays right, unless it is re-initialised with a client there.
AccountStep ==
    \/ creditUsed' = SumOfCredits(at', credit')
    \/ numSess > 0 /\ \E s \in Sessions : at[s] = "resetUsed" /\ at'[s] # at[s]

LEMMA AccountKept ==
    ASSUME CreditsFit, NumSessExact, PoolInv, CreditTypes, CreditTypes', Next,
           creditUsed = SumOfCredits(at, credit)
    PROVE  AccountStep
<1>0. /\ credit \in [Sessions -> Nat] /\ credit' \in [Sessions -> Nat]
      /\ creditUsed \in Nat /\ creditUsed' \in Nat
      /\ SumOfCredits(at', credit') \in Pools
    <2>1. SumOfCredits(at', credit') \in Pools
        BY SumFits DEF CreditTypes
    <2> QED
        BY <2>1, WindowAssumption DEF CreditTypes, Pools
<1>1. ASSUME NEW s \in Sessions, Update(s) PROVE AccountStep
    <2>1. PICK c \in 0..(MaxWindow - 1) : /\ credit' = [credit EXCEPT ![s] = c]
                                          /\ creditUsed' = Add(creditUsed, c - credit[s])
        BY <1>1, UpdateStep
    <2>2. at' = at /\ at[s] = "serving"
        BY <1>1 DEF Update
    <2>3. credit'[s] = c /\ c \in Nat /\ credit[s] \in Nat
          /\ \A t \in Sessions \ {s} : credit[t] = credit'[t]
        BY <1>0, <2>1
    <2>4. RestOf(at', credit', s) = RestOf(at, credit, s)
        BY <2>2, <2>3, RestKept
    <2> DEFINE rest == Cardinality(RestOf(at, credit, s))
    <2>5. rest \in Nat /\ creditUsed = rest + credit[s]
        BY <1>0, <2>2, SumSplit
    <2>6. SumOfCredits(at', credit') = rest + c
        BY <1>0, <2>2, <2>3, <2>4, SumSplit
    <2> HIDE DEF rest
    <2>7. creditUsed + (c - credit[s]) = rest + c
        BY <2>3, <2>5
    <2>8. (rest + c) % Word = rest + c
        BY <1>0, <2>3, <2>5, <2>6, Wraps
    <2> QED
        BY <2>1, <2>6, <2>7, <2>8, Zenon DEF Add, AccountStep
<1>2. ASSUME NEW s \in Sessions, Close(s) PROVE AccountStep
    <2>1. /\ at' = [at EXCEPT ![s] = "closed"] /\ at[s] = "serving" /\ credit' = credit
          /\ creditUsed' = Sub(creditUsed, credit[s])
        BY <1>2 DEF Close
    <2>2. at'[s] # "serving" /\ \A t \in Sessions \ {s} : at'[t] = at[t]
        BY <2>1 DEF NumSessExact
    <2>3. \A t \in Sessions \ {s} : /\ at'[t] = "serving" <=> at[t] = "serving"
                                    /\ credit'[t] = credit[t]
        BY <2>1, <2>2
    <2>4. RestOf(at', credit', s) = RestOf(at, credit, s)
        BY <2>3, RestKept
    <2> DEFINE rest == Cardinality(RestOf(at, credit, s))
    <2>5. rest \in Nat /\ creditUsed = rest + credit[s]
        BY <1>0, <2>1, SumSplit
    <2>6. SumOfCredits(at', credit') = rest
        BY <1>0, <2>2, <2>4, SumSplit
    <2> HIDE DEF rest
    <2>7. creditUsed - credit[s] = rest
        BY <1>0, <2>5
    <2>8. rest % Word = rest
        BY <1>0, <2>5, <2>6, Wraps
    <2> QED
        BY <2>1, <2>6, <2>7, <2>8, Zenon DEF Sub, AccountStep
<1>3. ASSUME NEW s \in Sessions, Accept(s) PROVE AccountStep
    <2>1. /\ at' = [at EXCEPT ![s] = "serving"] /\ at[s] = "absent"
          /\ credit' = [credit EXCEPT ![s] = 0] /\ creditUsed' = creditUsed
        BY <1>3 DEF Accept
    <2>2. /\ at[s] # "serving" /\ credit'[s] = 0
          /\ \A t \in Sessions \ {s} : at'[t] = at[t] /\ credit'[t] = credit[t]
        BY <1>0, <2>1 DEF NumSessExact
    <2>4. RestOf(at', credit', s) = RestOf(at, credit, s)
        BY <2>2, RestKept
    <2>5. at'[s] = "serving"
        BY <2>1 DEF NumSessExact
    <2> DEFINE rest == Cardinality(RestOf(at, credit, s))
    <2>6. rest \in Nat /\ creditUsed = rest
        BY <1>0, <2>2, SumSplit
    <2>7. SumOfCredits(at', credit') = rest + 0
        BY <1>0, <2>2, <2>4, <2>5, SumSplit
    <2> QED
        BY <2>1, <2>6, <2>7 DEF AccountStep
<1>4. ASSUME NEW s \in Sessions, ResetUsed(s) PROVE AccountStep
    <2>1. at[s] = "resetUsed" /\ at' = [at EXCEPT ![s] = "resetPool"] /\ creditUsed' = 0
        BY <1>4 DEF ResetUsed
    <2>2. CASE numSess > 0
        BY <2>1, <2>2 DEF AccountStep, NumSessExact
    <2>3. CASE ~(numSess > 0)
        <3>1. \A t \in Sessions : at[t] # "serving"
            BY <2>3, CountedPositive
        <3>2. \A t \in Sessions : at'[t] # "serving"
            BY <2>1, <3>1 DEF NumSessExact
        <3>3. UNION {{t} \X (1..credit'[t]) : t \in {u \in Sessions : at'[u] = "serving"}} = {}
            BY <3>2
        <3>4. SumOfCredits(at', credit') = 0
            BY <3>3, FS_EmptySet, Zenon DEF SumOfCredits
        <3> QED
            BY <2>1, <3>4, Zenon DEF AccountStep
    <2> QED
        BY <2>2, <2>3
<1>5. ASSUME UNCHANGED <<creditUsed, credit>>,
             \A t \in Sessions : at[t] = "serving" <=> at'[t] = "serving"
      PROVE  AccountStep
    <2>1. {t \in Sessions : at'[t] = "serving"} = {t \in Sessions : at[t] = "serving"}
        BY <1>5
    <2>2. SumOfCredits(at', credit') = SumOfCredits(at, credit)
        BY <1>5, <2>1, Zenon DEF SumOfCredits
    <2> QED
        BY <1>5, <2>2, Zenon DEF AccountStep
<1>6. ASSUME NEW s \in Sessions, Uncount(s) \/ CheckLast(s) \/ ResetPool(s)
      PROVE  AccountStep
    <2>1. UNCHANGED <<creditUsed, credit>>
        BY <1>6 DEF Uncount, CheckLast, ResetPool
    <2>2. \A t \in Sessions : at[t] = "serving" <=> at'[t] = "serving"
        BY <1>6 DEF Uncount, CheckLast, ResetPool, NumSessExact
    <2> QED
        BY <1>5, <2>1, <2>2
<1>7. ASSUME NEW s \in Sessions, LoadPool(s) \/ ComputePool(s) \/ StorePool(s)
      PROVE  AccountStep
    <2>1. UNCHANGED <<creditUsed, credit, at>>
        BY <1>7 DEF LoadPool, ComputePool, StorePool
    <2> QED
        BY <1>5, <2>1
<1> HIDE DEF AccountStep
<1> QED
    BY <1>1, <1>2, <1>3, <1>4, <1>6, <1>7, Zenon DEF Next

\* Only a re-initialisation with a client connected makes SpccCreditUsed wrong,
\* for any number of connections whose windows together fit into the word (with
\* 64 credits and uint64, 2^58 of them).
THEOREM MiscountsOnlyByReinit == CreditsFit /\ Spec => OnlyReinitMiscounts
<1> SUFFICES ASSUME CreditsFit PROVE Spec => OnlyReinitMiscounts
    OBVIOUS
<1> DEFINE Inv == NumSessExact /\ PoolInv /\ CreditTypes
<1>1. Init => Inv
    BY NumSessInit, PoolInit, CreditTypesInit
<1>2. Inv /\ [Next]_vars => Inv'
    BY NumSessStep, PoolStep, CreditTypesStep
<1>3. Inv /\ [Next]_vars =>
        [creditUsed = SumOfCredits(at, credit) =>
          \/ creditUsed' = SumOfCredits(at', credit')
          \/ numSess > 0 /\ \E s \in Sessions : at[s] = "resetUsed" /\ at'[s] # at[s]]_vars
    <2> SUFFICES ASSUME Inv, Next, creditUsed = SumOfCredits(at, credit) PROVE AccountStep
        BY DEF AccountStep
    <2>1. CreditTypes'
        BY CreditTypesStep
    <2> QED
        BY <2>1, AccountKept
<1> QED
    BY <1>1, <1>2, <1>3, PTL DEF Spec, OnlyReinitMiscounts
-----------------------------------------------------------------------------
(* The drained lists.  OnOneList counts positions; ListInv says the same of  *)
(* who is on a list, and that nobody is on a list twice.                     *)

Distinct(l) == \A i, j \in 1..Len(l) : l[i] = l[j] => i = j

OnH(p, s) == Contains(listH[p], s)
OnL(p, s) == Contains(listL[p], s)

ListInv ==
    /\ listH \in [ProcIds -> Seq(Clients)] /\ listL \in [ProcIds -> Seq(Clients)]
    /\ drainedProc \in [Clients -> ProcIds \cup {-1}]
    /\ \A p \in ProcIds : Distinct(listH[p]) /\ Distinct(listL[p])
    /\ \A p \in ProcIds, s \in Clients :
          /\ OnH(p, s) \/ OnL(p, s) <=> drainedProc[s] = p
          /\ ~(OnH(p, s) /\ OnL(p, s))

\* What the operations of list.go do to who is on a list.
LEMMA ListAdd ==
    ASSUME NEW S, NEW l \in Seq(S), NEW e \in S, Distinct(l), ~Contains(l, e)
    PROVE  /\ <<e>> \o l \in Seq(S) /\ Distinct(<<e>> \o l)
           /\ \A x : Contains(<<e>> \o l, x) <=> Contains(l, x) \/ x = e
<1> DEFINE n == <<e>> \o l
<1>1. n \in Seq(S) /\ Len(n) = Len(l) + 1 /\ Len(l) \in Nat
    OBVIOUS
<1>2. n[1] = e /\ \A i \in 1..Len(l) : n[i + 1] = l[i]
    OBVIOUS
<1> HIDE DEF n
<1>3. \A i \in 1..Len(n) : i = 1 \/ (i - 1 \in 1..Len(l) /\ n[i] = l[i - 1])
    BY <1>1, <1>2
<1>4. \A i \in 1..Len(l) : l[i] # e
    BY DEF Contains
<1>5. Distinct(n)
    <2> SUFFICES ASSUME NEW i \in 1..Len(n), NEW j \in 1..Len(n), n[i] = n[j] PROVE i = j
        BY DEF Distinct
    <2>1. i # 1 => n[i] # e
        BY <1>3, <1>4, Zenon
    <2>2. j # 1 => n[j] # e
        BY <1>3, <1>4, Zenon
    <2>3. CASE i # 1 /\ j # 1
        <3>1. i - 1 = j - 1
            BY <1>3, <2>3, Zenon DEF Distinct
        <3> QED
            BY <1>1, <3>1
    <2> QED
        BY <1>2, <2>1, <2>2, <2>3
<1>6. ASSUME NEW x PROVE Contains(n, x) <=> Contains(l, x) \/ x = e
    <2>1. ASSUME Contains(n, x) PROVE Contains(l, x) \/ x = e
        BY <1>2, <1>3, <2>1 DEF Contains
    <2>2. ASSUME NEW i \in 1..Len(l), l[i] = x PROVE Contains(n, x)
        <3>1. i + 1 \in 1..Len(n) /\ n[i + 1] = x
            BY <1>1, <1>2, <2>2
        <3> QED
            BY <3>1 DEF Contains
    <2>3. ASSUME x = e PROVE Contains(n, x)
        <3>1. 1 \in 1..Len(n)
            BY <1>1
        <3> QED
            BY <1>2, <2>3, <3>1 DEF Contains
    <2> QED
        BY <2>1, <2>2, <2>3 DEF Contains
<1> QED
    BY <1>1, <1>5, <1>6 DEF n

LEMMA ListAddTail ==
    ASSUME NEW S, NEW l \in Seq(S), NEW e \in S, Distinct(l), ~Contains(l, e)
    PROVE  /\ Append(l, e) \in Seq(S) /\ Distinct(Append(l, e))
           /\ \A x : Contains(Append(l, e), x) <=> Contains(l, x) \/ x = e
<1> DEFINE n == Append(l, e)
<1>1. n \in Seq(S) /\ Len(n) = Len(l) + 1 /\ Len(l) \in Nat
    OBVIOUS
<1>2. n[Len(l) + 1] = e /\ \A i \in 1..Len(l) : n[i] = l[i]
    OBVIOUS
<1> HIDE DEF n
<1>3. \A i \in 1..Len(n) : i = Len(l) + 1 \/ i \in 1..Len(l)
    BY <1>1
<1>4. \A i \in 1..Len(l) : l[i] # e
    BY DEF Contains
<1>5. Distinct(n)
    BY <1>1, <1>2, <1>3, <1>4 DEF Distinct
<1>6. ASSUME NEW x PROVE Contains(n, x) <=> Contains(l, x) \/ x = e
    <2>1. ASSUME Contains(n, x) PROVE Contains(l, x) \/ x = e
        BY <1>2, <1>3, <2>1 DEF Contains
    <2>2. \A i \in 1..Len(l) : i \in 1..Len(n)
        BY <1>1
    <2>3. Len(l) + 1 \in 1..Len(n)
        BY <1>1
    <2> QED
        BY <1>2, <2>1, <2>2, <2>3 DEF Contains
<1> QED
    BY <1>1, <1>5, <1>6 DEF n

LEMMA ListPop ==
    ASSUME NEW S, NEW l \in Seq(S), l # <<>>, Distinct(l)
    PROVE  /\ Head(l) \in S /\ Contains(l, Head(l))
           /\ Tail(l) \in Seq(S) /\ Distinct(Tail(l))
           /\ \A x : Contains(Tail(l), x) <=> Contains(l, x) /\ x # Head(l)
<1> DEFINE n == Tail(l)
           h == Head(l)
<1>1. n \in Seq(S) /\ Len(n) = Len(l) - 1 /\ Len(l) \in Nat /\ Len(l) >= 1 /\ h \in S
    OBVIOUS
<1>2. h = l[1] /\ \A i \in 1..Len(n) : n[i] = l[i + 1]
    OBVIOUS
<1> HIDE DEF n, h
<1>3. \A i \in 1..Len(n) : i + 1 \in 1..Len(l)
    BY <1>1
<1>4. \A i \in 1..Len(l) : i = 1 \/ (i - 1 \in 1..Len(n) /\ n[i - 1] = l[i])
    BY <1>1, <1>2
<1>5. 1 \in 1..Len(l)
    BY <1>1
<1>6. \A i \in 1..Len(n) : n[i] # h
    BY <1>1, <1>2, <1>3, <1>5 DEF Distinct
<1>7. Distinct(n)
    BY <1>1, <1>2, <1>3 DEF Distinct
<1>8. ASSUME NEW x PROVE Contains(n, x) <=> Contains(l, x) /\ x # h
    <2>1. ASSUME Contains(n, x) PROVE Contains(l, x) /\ x # h
        BY <1>2, <1>3, <1>6, <2>1 DEF Contains
    <2>2. ASSUME Contains(l, x), x # h PROVE Contains(n, x)
        BY <1>2, <1>4, <2>2 DEF Contains
    <2> QED
        BY <2>1, <2>2
<1> QED
    BY <1>1, <1>2, <1>5, <1>7, <1>8 DEF n, h, Contains

\* spccChooseDrainedH takes the list from its tail.
LEMMA ListReverse ==
    ASSUME NEW S, NEW h \in Seq(S), Distinct(h)
    PROVE  /\ Reverse(h) \in Seq(S) /\ Distinct(Reverse(h))
           /\ \A x : Contains(Reverse(h), x) <=> Contains(h, x)
<1> DEFINE r == Reverse(h)
<1>1. Len(h) \in Nat
    OBVIOUS
<1>2. r = [i \in 1..Len(h) |-> h[(Len(h) - i) + 1]]
    BY DEF Reverse
<1>3. \A i \in 1..Len(h) : /\ (Len(h) - i) + 1 \in 1..Len(h)
                           /\ (Len(h) - ((Len(h) - i) + 1)) + 1 = i
    BY <1>1
<1>4. \A i \in 1..Len(h) : h[(Len(h) - i) + 1] \in S
    BY <1>3
<1> HIDE DEF r
<1>5. r \in [1..Len(h) -> S]
    BY <1>2, <1>4
<1>6. r \in Seq(S) /\ Len(r) = Len(h)
    BY <1>1, <1>5
<1>7. \A i \in 1..Len(h) : r[i] = h[(Len(h) - i) + 1]
    BY <1>2, Zenon
<1>8. Distinct(r)
    <2> SUFFICES ASSUME NEW i \in 1..Len(h), NEW j \in 1..Len(h), r[i] = r[j] PROVE i = j
        BY <1>6, Zenon DEF Distinct
    <2>1. (Len(h) - i) + 1 = (Len(h) - j) + 1
        <3>1. h[(Len(h) - i) + 1] = h[(Len(h) - j) + 1]
            BY <1>7, Zenon
        <3>2. (Len(h) - i) + 1 \in 1..Len(h) /\ (Len(h) - j) + 1 \in 1..Len(h)
            BY <1>3, Zenon
        <3> QED
            BY <3>1, <3>2, Zenon DEF Distinct
    <2> QED
        BY <1>1, <2>1
<1>9. ASSUME NEW x PROVE Contains(r, x) <=> Contains(h, x)
    <2>1. ASSUME NEW i \in 1..Len(h), r[i] = x PROVE Contains(h, x)
        BY <1>3, <1>7, <2>1, Zenon DEF Contains
    <2>2. ASSUME NEW i \in 1..Len(h), h[i] = x PROVE Contains(r, x)
        <3>1. r[(Len(h) - i) + 1] = x
            BY <1>3, <1>7, <2>2, Zenon
        <3> QED
            BY <1>3, <1>6, <3>1, Zenon DEF Contains
    <2> QED
        BY <1>6, <2>1, <2>2, Zenon DEF Contains
<1> QED
    BY <1>6, <1>8, <1>9, Zenon DEF r

\* One list after the other, when nobody is on both.
LEMMA ListJoin ==
    ASSUME NEW S, NEW l \in Seq(S), NEW r \in Seq(S), Distinct(l), Distinct(r),
           \A x \in S : ~(Contains(l, x) /\ Contains(r, x))
    PROVE  /\ l \o r \in Seq(S) /\ Distinct(l \o r)
           /\ \A x : Contains(l \o r, x) <=> Contains(l, x) \/ Contains(r, x)
<1> DEFINE n == l \o r
<1>1. Len(r) \in Nat /\ Len(l) \in Nat
    OBVIOUS
<1>2. n \in Seq(S)
    OBVIOUS
<1>3. Len(n) = Len(l) + Len(r)
    OBVIOUS
<1>4. \A i \in 1..Len(l) : n[i] = l[i]
    OBVIOUS
<1>5. \A i \in 1..Len(r) : n[Len(l) + i] = r[i]
    OBVIOUS
<1> HIDE DEF n
<1>6. ASSUME NEW i \in 1..Len(n)
      PROVE  \/ i \in 1..Len(l) /\ n[i] = l[i]
             \/ i - Len(l) \in 1..Len(r) /\ n[i] = r[i - Len(l)]
    <2>1. CASE i <= Len(l)
        <3>1. i \in 1..Len(l)
            BY <1>1, <2>1
        <3> QED
            BY <1>4, <3>1, Zenon
    <2>2. CASE i > Len(l)
        <3>1. i - Len(l) \in 1..Len(r) /\ Len(l) + (i - Len(l)) = i
            BY <1>1, <1>3, <2>2
        <3>2. n[Len(l) + (i - Len(l))] = r[i - Len(l)]
            BY <1>5, <3>1, Zenon
        <3> QED
            BY <3>1, <3>2, Zenon
    <2> QED
        BY <1>1, <1>3, <2>1, <2>2
<1>7. \A i \in 1..Len(l), j \in 1..Len(r) : l[i] # r[j]
    <2>1. \A i \in 1..Len(l) : l[i] \in S
        OBVIOUS
    <2> QED
        BY <2>1, Zenon DEF Contains
<1>8. Distinct(n)
    <2> SUFFICES ASSUME NEW i \in 1..Len(n), NEW j \in 1..Len(n), n[i] = n[j] PROVE i = j
        BY DEF Distinct
    <2>1. CASE i \in 1..Len(l) /\ n[i] = l[i] /\ j \in 1..Len(l) /\ n[j] = l[j]
        BY <2>1, Zenon DEF Distinct
    <2>2. CASE /\ i - Len(l) \in 1..Len(r) /\ n[i] = r[i - Len(l)]
               /\ j - Len(l) \in 1..Len(r) /\ n[j] = r[j - Len(l)]
        <3>1. i - Len(l) = j - Len(l)
            BY <2>2, Zenon DEF Distinct
        <3> QED
            BY <1>1, <3>1
    <2> QED
        BY <1>6, <1>7, <2>1, <2>2, Zenon
<1>9. ASSUME NEW x PROVE Contains(n, x) <=> Contains(l, x) \/ Contains(r, x)
    <2>1. ASSUME Contains(n, x) PROVE Contains(l, x) \/ Contains(r, x)
        BY <1>6, <2>1, Zenon DEF Contains
    <2>2. /\ \A i \in 1..Len(l) : i \in 1..Len(n)
          /\ \A i \in 1..Len(r) : Len(l) + i \in 1..Len(n)
        BY <1>1, <1>3
    <2> QED
        BY <1>4, <1>5, <2>1, <2>2, Zenon DEF Contains
<1> QED
    BY <1>2, <1>8, <1>9, Zenon DEF n

\* DrainedLink.Del() on a list where the session is at most once.
LEMMA ListDel ==
    ASSUME NEW S, NEW l \in Seq(S), NEW e, Distinct(l)
    PROVE  /\ RemoveFirst(l, e) \in Seq(S) /\ Distinct(RemoveFirst(l, e))
           /\ \A x : Contains(RemoveFirst(l, e), x) <=> Contains(l, x) /\ x # e
<1> DEFINE n == RemoveFirst(l, e)
<1>1. CASE ~Contains(l, e)
    <2>1. n = l
        BY <1>1 DEF RemoveFirst, Contains
    <2> QED
        BY <1>1, <2>1 DEF Contains
<1>2. ASSUME NEW k \in 1..Len(l), l[k] = e
      PROVE  /\ n \in Seq(S) /\ Distinct(n)
             /\ \A x : Contains(n, x) <=> Contains(l, x) /\ x # e
    <2>1. {i \in 1..Len(l) : l[i] = e} = {k}
        BY <1>2 DEF Distinct
    <2>2. SelectInSeq(l, LAMBDA v : v = e) = k
        <3>1. Min({k}) = k
            BY DEF Min
        <3>2. SelectInSeq(l, LAMBDA v : v = e) = IF {i \in 1..Len(l) : l[i] = e} # {}
                                                 THEN Min({i \in 1..Len(l) : l[i] = e}) ELSE 0
            BY Zenon DEF SelectInSeq
        <3> QED
            BY <2>1, <3>1, <3>2, Zenon
    <2>3. n = SubSeq(l, 1, k - 1) \o SubSeq(l, k + 1, Len(l))
        BY <1>2, <2>2, Zenon DEF RemoveFirst, RemoveAt
    <2>4. Len(l) \in Nat /\ k \in Int
        OBVIOUS
    <2>5. /\ n \in Seq(S) /\ Len(n) = Len(l) - 1
          /\ \A i \in 1..(Len(l) - 1) : n[i] = IF i < k THEN l[i] ELSE l[i + 1]
        <3> DEFINE a == SubSeq(l, 1, k - 1)
                   b == SubSeq(l, k + 1, Len(l))
        <3>1. a \in Seq(S) /\ Len(a) = k - 1 /\ \A i \in 1..(k - 1) : a[i] = l[i]
            BY <2>4
        <3>2. b \in Seq(S) /\ Len(b) = Len(l) - k /\ \A i \in 1..(Len(l) - k) : b[i] = l[k + i]
            BY <2>4
        <3> HIDE DEF a, b, n
        <3>3. n = a \o b
            BY <2>3 DEF a, b
        <3>7. /\ a \o b \in Seq(S) /\ Len(a \o b) = Len(a) + Len(b)
              /\ \A i \in 1..Len(a) : (a \o b)[i] = a[i]
              /\ \A i \in 1..Len(b) : (a \o b)[Len(a) + i] = b[i]
            <4>0. a \in Seq(S) /\ b \in Seq(S)
                BY <3>1, <3>2
            <4>1. a \o b \in Seq(S)
                BY <4>0
            <4>2. Len(a \o b) = Len(a) + Len(b)
                BY <4>0
            <4>3. \A i \in 1..Len(a) : (a \o b)[i] = a[i]
                BY <4>0
            <4>4. \A i \in 1..Len(b) : (a \o b)[Len(a) + i] = b[i]
                BY <4>0
            <4> QED
                BY <4>1, <4>2, <4>3, <4>4, Zenon
        <3>4. n \in Seq(S) /\ Len(n) = Len(a) + Len(b)
              /\ (\A i \in 1..Len(a) : n[i] = a[i]) /\ \A i \in 1..Len(b) : n[Len(a) + i] = b[i]
            BY <3>3, <3>7, Zenon
        <3>5. Len(n) = Len(l) - 1
            BY <2>4, <3>1, <3>2, <3>4
        <3>6. ASSUME NEW i \in 1..(Len(l) - 1) PROVE n[i] = IF i < k THEN l[i] ELSE l[i + 1]
            <4>1. CASE i < k
                <5>1. i \in 1..(k - 1)
                    BY <2>4, <4>1
                <5> QED
                    BY <3>1, <3>4, <4>1, <5>1, Zenon
            <4>2. CASE ~(i < k)
                <5>1. (i - k) + 1 \in 1..(Len(l) - k) /\ (k - 1) + ((i - k) + 1) = i
                      /\ k + ((i - k) + 1) = i + 1
                    BY <2>4, <4>2
                <5>2. n[(k - 1) + ((i - k) + 1)] = b[(i - k) + 1]
                      /\ b[(i - k) + 1] = l[k + ((i - k) + 1)]
                    BY <3>1, <3>2, <3>4, <5>1, Zenon
                <5> QED
                    BY <4>2, <5>1, <5>2, Zenon
            <4> QED
                BY <4>1, <4>2
        <3> QED
            BY <3>4, <3>5, <3>6
    <2> HIDE DEF n
    <2>6. ASSUME NEW i \in 1..Len(n)
          PROVE  \/ i < k /\ i \in 1..Len(l) /\ n[i] = l[i]
                 \/ i >= k /\ i + 1 \in 1..Len(l) /\ n[i] = l[i + 1]
        BY <2>4, <2>5
    <2>7. Distinct(n)
        <3> SUFFICES ASSUME NEW i \in 1..Len(n), NEW j \in 1..Len(n), n[i] = n[j] PROVE i = j
            BY DEF Distinct
        <3>1. \/ i < k /\ i \in 1..Len(l) /\ n[i] = l[i]
              \/ i >= k /\ i + 1 \in 1..Len(l) /\ n[i] = l[i + 1]
            BY <2>6
        <3>2. \/ j < k /\ j \in 1..Len(l) /\ n[j] = l[j]
              \/ j >= k /\ j + 1 \in 1..Len(l) /\ n[j] = l[j + 1]
            BY <2>6
        <3>3. i = j \/ i + 1 = j + 1 \/ (i < k /\ j >= k /\ i = j + 1)
              \/ (j < k /\ i >= k /\ j = i + 1)
            BY <3>1, <3>2, Zenon DEF Distinct
        <3> QED
            BY <2>4, <3>3
    <2>8. ASSUME NEW x PROVE Contains(n, x) <=> Contains(l, x) /\ x # e
        <3>1. ASSUME NEW i \in 1..Len(n), n[i] = x PROVE Contains(l, x) /\ x # e
            <4>1. PICK j \in 1..Len(l) : j # k /\ l[j] = x
                BY <2>4, <2>6, <3>1
            <4> QED
                BY <1>2, <4>1 DEF Contains, Distinct
        <3>2. ASSUME NEW j \in 1..Len(l), l[j] = x, x # e PROVE Contains(n, x)
            <4>1. j # k
                BY <1>2, <3>2
            <4>2. CASE j < k
                <5>1. j \in 1..(Len(l) - 1) /\ j \in 1..Len(n)
                    BY <2>4, <2>5, <4>2
                <5> QED
                    BY <2>5, <3>2, <4>2, <5>1 DEF Contains
            <4>3. CASE j > k
                <5>1. j - 1 \in 1..(Len(l) - 1) /\ j - 1 \in 1..Len(n) /\ ~(j - 1 < k)
                      /\ (j - 1) + 1 = j
                    BY <2>4, <2>5, <4>3
                <5>2. n[j - 1] = x
                    BY <2>5, <3>2, <5>1, Zenon
                <5> QED
                    BY <5>1, <5>2, Zenon DEF Contains
            <4> QED
                BY <2>4, <4>1, <4>2, <4>3
        <3> QED
            BY <3>1, <3>2 DEF Contains
    <2> QED
        BY <2>5, <2>7, <2>8
<1> QED
    BY <1>1, <1>2 DEF Contains

\* Every step changes the lists of one processor at most.
LEMMA OneProcessor ==
    ASSUME ListInv, NEW p \in ProcIds, NEW h \in Seq(Clients), NEW l \in Seq(Clients),
           listH' = [listH EXCEPT ![p] = h], listL' = [listL EXCEPT ![p] = l],
           drainedProc' \in [Clients -> ProcIds \cup {-1}], Distinct(h), Distinct(l),
           \A s \in Clients : /\ Contains(h, s) \/ Contains(l, s) <=> drainedProc'[s] = p
                              /\ ~(Contains(h, s) /\ Contains(l, s)),
           \A s \in Clients, q \in ProcIds :
              q # p => (drainedProc'[s] = q <=> drainedProc[s] = q)
    PROVE  /\ ListInv'
           /\ \A q \in ProcIds, s \in Clients :
                 /\ OnH(q, s)' <=> IF q = p THEN Contains(h, s) ELSE OnH(q, s)
                 /\ OnL(q, s)' <=> IF q = p THEN Contains(l, s) ELSE OnL(q, s)
<1>1. /\ listH' \in [ProcIds -> Seq(Clients)] /\ listL' \in [ProcIds -> Seq(Clients)]
      /\ listH'[p] = h /\ listL'[p] = l
      /\ \A q \in ProcIds : q # p => listH'[q] = listH[q] /\ listL'[q] = listL[q]
    BY DEF ListInv
<1>2. \A q \in ProcIds, s \in Clients :
          /\ OnH(q, s)' <=> IF q = p THEN Contains(h, s) ELSE OnH(q, s)
          /\ OnL(q, s)' <=> IF q = p THEN Contains(l, s) ELSE OnL(q, s)
    BY <1>1, Zenon DEF OnH, OnL
<1>3. \A q \in ProcIds : Distinct(listH'[q]) /\ Distinct(listL'[q])
    BY <1>1, Zenon DEF ListInv
<1>4. ASSUME NEW q \in ProcIds, NEW s \in Clients
      PROVE  /\ OnH(q, s)' \/ OnL(q, s)' <=> drainedProc'[s] = q
             /\ ~(OnH(q, s)' /\ OnL(q, s)')
    <2>1. CASE q = p
        BY <1>2, <2>1, Zenon
    <2>2. CASE q # p
        BY <1>2, <2>2, Zenon DEF ListInv
    <2> QED
        BY <2>1, <2>2
<1>5. ListInv'
    BY <1>1, <1>3, <1>4, Zenon DEF ListInv
<1> QED
    BY <1>2, <1>5

\* No session but c moves.
Stays(c) ==
    \A s \in Clients : s # c =>
        /\ drainedProc'[s] = drainedProc[s]
        /\ \A q \in ProcIds : (OnH(q, s)' <=> OnH(q, s)) /\ (OnL(q, s)' <=> OnL(q, s))

LEMMA DrainStep ==
    ASSUME ListInv, NEW c \in Clients, NEW p \in ProcIds, Drain(c, p)
    PROVE  ListInv' /\ Stays(c)
<1>1. /\ listH[p] \in Seq(Clients) /\ listL[p] \in Seq(Clients)
      /\ Distinct(listH[p]) /\ Distinct(listL[p])
      /\ drainedProc[c] = -1
    BY DEF ListInv, Drain, IsDrained
<1>2. -1 \notin ProcIds
    BY DrainedAssumption DEF ProcIds
<1>3. \A q \in ProcIds : ~OnH(q, c) /\ ~OnL(q, c)
    <2>1. \A q \in ProcIds : drainedProc[c] # q
        BY <1>1, <1>2
    <2> QED
        BY <2>1, Zenon DEF ListInv
<1>4. ~Contains(listH[p], c) /\ ~Contains(listL[p], c)
    BY <1>3, Zenon DEF OnH, OnL
<1>5. /\ drainedProc' \in [Clients -> ProcIds \cup {-1}]
      /\ drainedProc'[c] = p /\ \A s \in Clients : s # c => drainedProc'[s] = drainedProc[s]
    BY DEF ListInv, Drain
<1>6. \A s \in Clients, q \in ProcIds :
          q # p => (drainedProc'[s] = q <=> drainedProc[s] = q)
    BY <1>1, <1>2, <1>5, Zenon
<1>7. \A s \in Clients : /\ Contains(listH[p], s) \/ Contains(listL[p], s) <=> drainedProc[s] = p
                         /\ ~(Contains(listH[p], s) /\ Contains(listL[p], s))
    BY Zenon DEF ListInv, OnH, OnL
<1>8. CASE demand[c]
    <2> DEFINE h == <<c>> \o listH[p]
    <2>1. listH' = [listH EXCEPT ![p] = h] /\ listL' = [listL EXCEPT ![p] = listL[p]]
        BY <1>8 DEF Drain, ListInv
    <2>2. h \in Seq(Clients) /\ Distinct(h)
          /\ \A s : Contains(h, s) <=> Contains(listH[p], s) \/ s = c
        BY <1>1, <1>4, ListAdd
    <2> HIDE DEF h
    <2>3. \A s \in Clients : /\ Contains(h, s) \/ Contains(listL[p], s) <=> drainedProc'[s] = p
                             /\ ~(Contains(h, s) /\ Contains(listL[p], s))
        BY <1>4, <1>5, <1>7, <2>2, Zenon
    <2>4. /\ ListInv'
          /\ \A q \in ProcIds, s \in Clients :
                /\ OnH(q, s)' <=> IF q = p THEN Contains(h, s) ELSE OnH(q, s)
                /\ OnL(q, s)' <=> IF q = p THEN Contains(listL[p], s) ELSE OnL(q, s)
        BY <1>1, <1>5, <1>6, <2>1, <2>2, <2>3, OneProcessor, Zenon
    <2> QED
        BY <1>5, <2>2, <2>4, Zenon DEF Stays, OnH, OnL
<1>9. CASE ~demand[c]
    <2> DEFINE l == Append(listL[p], c)
    <2>1. listH' = [listH EXCEPT ![p] = listH[p]] /\ listL' = [listL EXCEPT ![p] = l]
        BY <1>9 DEF Drain, ListInv
    <2>2. l \in Seq(Clients) /\ Distinct(l)
          /\ \A s : Contains(l, s) <=> Contains(listL[p], s) \/ s = c
        BY <1>1, <1>4, ListAddTail
    <2> HIDE DEF l
    <2>3. \A s \in Clients : /\ Contains(listH[p], s) \/ Contains(l, s) <=> drainedProc'[s] = p
                             /\ ~(Contains(listH[p], s) /\ Contains(l, s))
        BY <1>4, <1>5, <1>7, <2>2, Zenon
    <2>4. /\ ListInv'
          /\ \A q \in ProcIds, s \in Clients :
                /\ OnH(q, s)' <=> IF q = p THEN Contains(listH[p], s) ELSE OnH(q, s)
                /\ OnL(q, s)' <=> IF q = p THEN Contains(l, s) ELSE OnL(q, s)
        BY <1>1, <1>5, <1>6, <2>1, <2>2, <2>3, OneProcessor, Zenon
    <2> QED
        BY <1>5, <2>2, <2>4, Zenon DEF Stays, OnH, OnL
<1> QED
    BY <1>8, <1>9

LEMMA RemoveStep ==
    ASSUME ListInv, NEW c \in Clients, spccRemoveFromDrainedList(c)
    PROVE  ListInv' /\ Stays(c)
<1> DEFINE p == drainedProc[c]
           h == RemoveFirst(listH[p], c)
           l == RemoveFirst(listL[p], c)
<1>1. p \in ProcIds
    BY DEF ListInv, spccRemoveFromDrainedList, IsDrained
<1>2. listH' = [listH EXCEPT ![p] = h] /\ listL' = [listL EXCEPT ![p] = l]
    BY <1>1 DEF spccRemoveFromDrainedList, Unlink, ListInv
<1>3. /\ drainedProc' \in [Clients -> ProcIds \cup {-1}]
      /\ drainedProc'[c] = -1 /\ \A s \in Clients : s # c => drainedProc'[s] = drainedProc[s]
    BY DEF ListInv, spccRemoveFromDrainedList
<1>4. -1 \notin ProcIds /\ drainedProc[c] = p
    BY DrainedAssumption DEF ProcIds
<1> HIDE DEF p
<1>5. /\ listH[p] \in Seq(Clients) /\ listL[p] \in Seq(Clients)
      /\ Distinct(listH[p]) /\ Distinct(listL[p])
    BY <1>1 DEF ListInv
<1>6. h \in Seq(Clients) /\ Distinct(h) /\ \A s : Contains(h, s) <=> Contains(listH[p], s) /\ s # c
    BY <1>5, ListDel
<1>7. l \in Seq(Clients) /\ Distinct(l) /\ \A s : Contains(l, s) <=> Contains(listL[p], s) /\ s # c
    BY <1>5, ListDel
<1> HIDE DEF h, l
<1>8. \A s \in Clients : /\ Contains(listH[p], s) \/ Contains(listL[p], s) <=> drainedProc[s] = p
                         /\ ~(Contains(listH[p], s) /\ Contains(listL[p], s))
    BY <1>1, Zenon DEF ListInv, OnH, OnL
<1>9. \A s \in Clients : /\ Contains(h, s) \/ Contains(l, s) <=> drainedProc'[s] = p
                         /\ ~(Contains(h, s) /\ Contains(l, s))
    <2> SUFFICES ASSUME NEW s \in Clients
                 PROVE  /\ Contains(h, s) \/ Contains(l, s) <=> drainedProc'[s] = p
                        /\ ~(Contains(h, s) /\ Contains(l, s))
        OBVIOUS
    <2>1. CASE s = c
        <3>1. p # -1
            BY <1>1, <1>4
        <3>2. ~Contains(h, c) /\ ~Contains(l, c)
            BY <1>6, <1>7, Zenon
        <3> QED
            BY <1>3, <2>1, <3>1, <3>2
    <2>2. CASE s # c
        <3>1. (Contains(h, s) <=> Contains(listH[p], s)) /\ (Contains(l, s) <=> Contains(listL[p], s))
            BY <1>6, <1>7, <2>2, Zenon
        <3> QED
            BY <1>3, <1>8, <2>2, <3>1, Zenon
    <2> QED
        BY <2>1, <2>2
<1>10. \A s \in Clients, q \in ProcIds :
          q # p => (drainedProc'[s] = q <=> drainedProc[s] = q)
    BY <1>3, <1>4, Zenon
<1>11. /\ ListInv'
       /\ \A q \in ProcIds, s \in Clients :
             /\ OnH(q, s)' <=> IF q = p THEN Contains(h, s) ELSE OnH(q, s)
             /\ OnL(q, s)' <=> IF q = p THEN Contains(l, s) ELSE OnL(q, s)
    BY <1>1, <1>2, <1>3, <1>6, <1>7, <1>9, <1>10, OneProcessor, Zenon
<1> QED
    BY <1>3, <1>6, <1>7, <1>11, Zenon DEF Stays, OnH, OnL

\* A visit to a high-priority list empties it and loses nobody.
LEMMA ChooseHStep ==
    ASSUME ListInv, scan.proc \in ProcIds, spccChooseDrainedH
    PROVE  /\ ListInv'
           /\ \A q \in ProcIds, s \in Clients :
                 OnH(q, s)' <=> q # scan.proc /\ OnH(q, s)
<1> DEFINE p == scan.proc
           l == listL[p] \o Reverse(listH[p])
           none == <<>>
<1>1. p \in ProcIds /\ p = scan.proc
    OBVIOUS
<1>2. listH' = [listH EXCEPT ![p] = none] /\ listL' = [listL EXCEPT ![p] = l]
      /\ drainedProc' = drainedProc
    BY DEF spccChooseDrainedH, ListInv
<1> HIDE DEF p
<1>3. /\ listH[p] \in Seq(Clients) /\ listL[p] \in Seq(Clients)
      /\ Distinct(listH[p]) /\ Distinct(listL[p])
    BY <1>1 DEF ListInv
<1>4. \A s \in Clients : /\ Contains(listH[p], s) \/ Contains(listL[p], s) <=> drainedProc[s] = p
                         /\ ~(Contains(listH[p], s) /\ Contains(listL[p], s))
    BY <1>1, Zenon DEF ListInv, OnH, OnL
<1>5. l \in Seq(Clients) /\ Distinct(l)
      /\ \A s : Contains(l, s) <=> Contains(listL[p], s) \/ Contains(listH[p], s)
    <2> DEFINE r == Reverse(listH[p])
    <2>1. r \in Seq(Clients) /\ Distinct(r) /\ \A s : Contains(r, s) <=> Contains(listH[p], s)
        BY <1>3, ListReverse
    <2> HIDE DEF r
    <2>2. \A s \in Clients : ~(Contains(listL[p], s) /\ Contains(r, s))
        BY <1>4, <2>1, Zenon
    <2>3. /\ listL[p] \o r \in Seq(Clients) /\ Distinct(listL[p] \o r)
          /\ \A s : Contains(listL[p] \o r, s) <=> Contains(listL[p], s) \/ Contains(r, s)
        BY <1>3, <2>1, <2>2, ListJoin, Zenon
    <2> QED
        BY <2>1, <2>3, Zenon DEF r
<1> HIDE DEF l
<1>6. /\ none \in Seq(Clients) /\ Distinct(none) /\ \A s : ~Contains(none, s)
    BY DEF Distinct, Contains
<1> HIDE DEF none
<1>7. \A s \in Clients : /\ Contains(none, s) \/ Contains(l, s) <=> drainedProc'[s] = p
                         /\ ~(Contains(none, s) /\ Contains(l, s))
    BY <1>2, <1>4, <1>5, <1>6, Zenon
<1>8. drainedProc' \in [Clients -> ProcIds \cup {-1}]
    BY <1>2 DEF ListInv
<1>9. \A s \in Clients, q \in ProcIds :
          q # p => (drainedProc'[s] = q <=> drainedProc[s] = q)
    BY <1>2, Zenon
<1>10. /\ ListInv'
       /\ \A q \in ProcIds, s \in Clients :
             /\ OnH(q, s)' <=> IF q = p THEN Contains(none, s) ELSE OnH(q, s)
             /\ OnL(q, s)' <=> IF q = p THEN Contains(l, s) ELSE OnL(q, s)
    BY <1>1, <1>2, <1>5, <1>6, <1>7, <1>8, <1>9, OneProcessor, ZenonT(60)
<1> QED
    BY <1>1, <1>6, <1>10, Zenon

\* A visit to a low-priority list takes its first session, if it has one.
LEMMA ChooseLStep ==
    ASSUME ListInv, scan.proc \in ProcIds, spccChooseDrainedL
    PROVE  /\ ListInv'
           /\ \/ /\ UNCHANGED <<listH, listL, drainedProc, steady>> /\ scan' = Advance(scan)
                 /\ \A s \in Clients : ~OnL(scan.proc, s)
              \/ \E c \in Clients : /\ drainedProc[c] # -1 /\ drainedProc'[c] = -1
                                    /\ Stays(c) /\ steady' = steady \ {c}
                                    /\ scan' = NotScanning
<1> DEFINE p == scan.proc
           c == Head(listL[p])
           l == Tail(listL[p])
<1>1. p \in ProcIds /\ p = scan.proc
    OBVIOUS
<1>2. /\ listH[p] \in Seq(Clients) /\ listL[p] \in Seq(Clients)
      /\ Distinct(listH[p]) /\ Distinct(listL[p])
    BY <1>1 DEF ListInv
<1>3. CASE listL[p] = <<>>
    <2>1. UNCHANGED <<listH, listL, drainedProc, steady>> /\ scan' = Advance(scan)
        BY <1>3 DEF spccChooseDrainedL
    <2>2. \A s \in Clients : ~OnL(p, s)
        BY <1>3 DEF OnL, Contains
    <2>3. ListInv'
        BY <2>1 DEF ListInv, OnH, OnL
    <2> QED
        BY <2>1, <2>2, <2>3
<1>4. CASE listL[p] # <<>>
    <2>1. /\ listL' = [listL EXCEPT ![p] = l] /\ listH' = listH
          /\ drainedProc' = [drainedProc EXCEPT ![c] = -1] /\ steady' = steady \ {c}
          /\ scan' = NotScanning
        BY <1>4 DEF spccChooseDrainedL
    <2>2. /\ c \in Clients /\ Contains(listL[p], c) /\ l \in Seq(Clients) /\ Distinct(l)
          /\ \A s : Contains(l, s) <=> Contains(listL[p], s) /\ s # c
        BY <1>2, <1>4, ListPop
    <2> HIDE DEF p, c, l
    <2>3. \A s \in Clients :
              /\ Contains(listH[p], s) \/ Contains(listL[p], s) <=> drainedProc[s] = p
              /\ ~(Contains(listH[p], s) /\ Contains(listL[p], s))
        BY <1>1, Zenon DEF ListInv, OnH, OnL
    <2>4. -1 \notin ProcIds
        BY DrainedAssumption DEF ProcIds
    <2>5. drainedProc[c] = p /\ ~Contains(listH[p], c)
        BY <2>2, <2>3, Zenon
    <2>6. /\ drainedProc' \in [Clients -> ProcIds \cup {-1}] /\ drainedProc'[c] = -1
          /\ \A s \in Clients : s # c => drainedProc'[s] = drainedProc[s]
        BY <2>1, <2>2 DEF ListInv
    <2>7. listH' = [listH EXCEPT ![p] = listH[p]]
        BY <2>1 DEF ListInv
    <2>8. \A s \in Clients : /\ Contains(listH[p], s) \/ Contains(l, s) <=> drainedProc'[s] = p
                             /\ ~(Contains(listH[p], s) /\ Contains(l, s))
        BY <1>1, <2>2, <2>3, <2>4, <2>5, <2>6, Zenon
    <2>9. \A s \in Clients, q \in ProcIds :
              q # p => (drainedProc'[s] = q <=> drainedProc[s] = q)
        BY <2>4, <2>5, <2>6, Zenon
    <2>10. /\ ListInv'
           /\ \A q \in ProcIds, s \in Clients :
                 /\ OnH(q, s)' <=> IF q = p THEN Contains(listH[p], s) ELSE OnH(q, s)
                 /\ OnL(q, s)' <=> IF q = p THEN Contains(l, s) ELSE OnL(q, s)
        BY <1>1, <1>2, <2>1, <2>2, <2>6, <2>7, <2>8, <2>9, OneProcessor, Zenon
    <2>11. Stays(c)
        BY <2>2, <2>6, <2>10, Zenon DEF Stays, OnH, OnL
    <2>12. drainedProc[c] # -1
        BY <1>1, <2>4, <2>5
    <2> QED
        BY <2>1, <2>2, <2>6, <2>10, <2>11, <2>12, Zenon
<1> QED
    BY <1>3, <1>4

-----------------------------------------------------------------------------
(* The search.  Ahead is how far the search is from a processor; ScanInv says *)
(* that a session drained all along is still ahead: with its high-priority    *)
(* list in the first pass, or anywhere, since the second pass comes after it. *)

Ahead(sc, q) == IF q >= sc.proc THEN q - sc.proc ELSE (q - sc.proc) + MaxProcs

ToVisit(sc) == {q \in ProcIds : Ahead(sc, q) < sc.left}

ScanType == [phase : {"none", "H", "L"}, proc : ProcIds, left : 0..MaxProcs]

ScanInv ==
    /\ scan \in ScanType
    /\ scan.phase # "none" => scan.left > 0
    /\ steady \subseteq Clients /\ \A s \in steady : drainedProc[s] # -1
    /\ scan.phase = "H" =>
          \A s \in steady : OnH(drainedProc[s], s) => drainedProc[s] \in ToVisit(scan)
    /\ scan.phase = "L" =>
          \A s \in steady : OnL(drainedProc[s], s) /\ drainedProc[s] \in ToVisit(scan)

\* (p + 1) % runtime.GOMAXPROCS(0) is the next processor, and around.
LEMMA NextProcessor ==
    ASSUME NEW p \in ProcIds
    PROVE  /\ (p + 1) % MaxProcs \in ProcIds
           /\ (p + 1) % MaxProcs = IF p + 1 = MaxProcs THEN 0 ELSE p + 1
<1>1. MaxProcs \in Nat /\ MaxProcs > 0 /\ p \in Nat /\ p < MaxProcs
    BY DrainedAssumption DEF ProcIds
<1>2. p + 1 = MaxProcs => (p + 1) % MaxProcs = 0
    BY <1>1
<1>3. p + 1 < MaxProcs => (p + 1) % MaxProcs = p + 1
    BY <1>1
<1> QED
    BY <1>1, <1>2, <1>3 DEF ProcIds

\* Where the search goes leaves every processor ahead but the one at hand, and
\* the second pass has them all ahead.
LEMMA Advances ==
    ASSUME NEW sc \in ScanType, sc.phase # "none", sc.left > 0
    PROVE  /\ Advance(sc) \in ScanType
           /\ Advance(sc).phase # "none" => Advance(sc).left > 0
           /\ \/ Advance(sc).phase = sc.phase /\ ToVisit(sc) \subseteq ToVisit(Advance(sc)) \cup {sc.proc}
              \/ /\ ToVisit(sc) \subseteq {sc.proc}
                 /\ \/ sc.phase = "H" /\ Advance(sc).phase = "L" /\ ToVisit(Advance(sc)) = ProcIds
                    \/ sc.phase = "L" /\ Advance(sc) = NotScanning
<1> DEFINE next == (sc.proc + 1) % MaxProcs
           adv == Advance(sc)
<1>1. /\ MaxProcs \in Nat /\ MaxProcs > 0 /\ sc.proc \in Nat /\ sc.proc < MaxProcs
      /\ sc.left \in 1..MaxProcs /\ sc.proc \in ProcIds /\ sc.phase \in {"H", "L"}
    BY DrainedAssumption DEF ProcIds, ScanType
<1>2. next \in ProcIds /\ next = IF sc.proc + 1 = MaxProcs THEN 0 ELSE sc.proc + 1
    BY <1>1, NextProcessor
<1>3. adv = IF sc.left > 1 THEN [sc EXCEPT !.proc = next, !.left = @ - 1]
            ELSE IF sc.phase = "H" THEN [phase |-> "L", proc |-> next, left |-> MaxProcs]
            ELSE NotScanning
    BY Zenon DEF Advance
<1> HIDE DEF next, adv
<1>4. \A q \in ProcIds : q \in Nat /\ q < MaxProcs
    BY <1>1 DEF ProcIds
<1>5. CASE sc.left > 1
    <2>1. /\ adv \in ScanType /\ adv.phase = sc.phase /\ adv.proc = next
          /\ adv.left = sc.left - 1 /\ adv.left > 0
        <3>1. adv = [sc EXCEPT !.proc = next, !.left = sc.left - 1]
            BY <1>3, <1>5
        <3>2. adv = [phase |-> sc.phase, proc |-> next, left |-> sc.left - 1]
            BY <3>1, Zenon DEF ScanType
        <3>3. sc.left - 1 \in 0..MaxProcs /\ sc.left - 1 > 0
            BY <1>1, <1>5
        <3> QED
            BY <1>1, <1>2, <3>2, <3>3 DEF ScanType
    <2>2. ASSUME NEW q \in ToVisit(sc), q # sc.proc PROVE q \in ToVisit(adv)
        <3>1. q \in ProcIds /\ Ahead(sc, q) < sc.left
            BY <2>2 DEF ToVisit
        <3>2. Ahead(adv, q) = Ahead(sc, q) - 1
            BY <1>1, <1>2, <1>4, <2>1, <2>2, <3>1 DEF Ahead
        <3>3. Ahead(sc, q) \in Int
            BY <1>1, <1>4, <3>1 DEF Ahead
        <3> QED
            BY <1>1, <2>1, <3>1, <3>2, <3>3 DEF ToVisit
    <2>3. ToVisit(sc) \subseteq ToVisit(adv) \cup {sc.proc}
        BY <2>2
    <2> QED
        BY <2>1, <2>3 DEF adv
<1>6. CASE ~(sc.left > 1)
    <2>1. sc.left = 1
        BY <1>1, <1>6
    <2>2. ToVisit(sc) \subseteq {sc.proc}
        BY <1>1, <1>4, <2>1 DEF ToVisit, Ahead
    <2>3. CASE sc.phase = "H"
        <3>1. adv = [phase |-> "L", proc |-> next, left |-> MaxProcs]
            BY <1>3, <1>6, <2>3
        <3>2. adv \in ScanType /\ adv.phase = "L" /\ adv.left = MaxProcs /\ adv.proc = next
            BY <1>1, <1>2, <3>1 DEF ScanType
        <3>3. next \in Nat /\ next < MaxProcs
            BY <1>2, <1>4
        <3>4. ToVisit(adv) = ProcIds
            BY <1>1, <1>4, <3>2, <3>3 DEF ToVisit, Ahead
        <3> QED
            BY <1>1, <2>2, <2>3, <3>2, <3>4 DEF adv
    <2>4. CASE sc.phase = "L"
        <3>1. adv = NotScanning
            BY <1>3, <1>6, <2>4
        <3>2. NotScanning \in ScanType /\ NotScanning.phase = "none"
            BY <1>1 DEF NotScanning, ScanType, ProcIds
        <3> QED
            BY <2>2, <2>4, <3>1, <3>2 DEF adv
    <2> QED
        BY <1>1, <2>3, <2>4
<1> QED
    BY <1>5, <1>6

\* A step of a session's own, while the search stands still.
LEMMA SessionStep ==
    ASSUME ListInv, ScanInv, NEW c \in Clients, Stays(c), scan' = scan,
           steady' \subseteq steady \ {c}
    PROVE  ScanInv'
<1>1. ASSUME NEW s \in steady'
      PROVE  /\ drainedProc'[s] # -1
             /\ scan.phase = "H" => (OnH(drainedProc[s], s)' => drainedProc'[s] \in ToVisit(scan))
             /\ scan.phase = "L" => OnL(drainedProc[s], s)' /\ drainedProc'[s] \in ToVisit(scan)
    <2>1. s \in steady /\ s \in Clients /\ s # c
        BY DEF ScanInv
    <2>2. PICK q \in ProcIds : q = drainedProc[s]
        BY <2>1 DEF ScanInv, ListInv
    <2>3. drainedProc'[s] = q /\ (OnH(q, s)' <=> OnH(q, s)) /\ (OnL(q, s)' <=> OnL(q, s))
        BY <2>1, <2>2, Zenon DEF Stays
    <2>4. /\ q # -1
          /\ scan.phase = "H" => (OnH(q, s) => q \in ToVisit(scan))
          /\ scan.phase = "L" => OnL(q, s) /\ q \in ToVisit(scan)
        BY <2>1, <2>2, Zenon DEF ScanInv
    <2> QED
        BY <2>3, <2>4, Zenon DEF OnH, OnL
<1>2. ToVisit(scan)' = ToVisit(scan)
    BY DEF ToVisit, Ahead
<1>3. steady' \subseteq Clients /\ scan' \in ScanType /\ (scan'.phase # "none" => scan'.left > 0)
    BY DEF ScanInv
<1> QED
    BY <1>1, <1>2, <1>3, Zenon DEF ScanInv

DrainedInv == ListInv /\ ScanInv

LEMMA DrainedInvInit == DrainedInit => DrainedInv
<1> SUFFICES ASSUME DrainedInit PROVE DrainedInv
    OBVIOUS
<1>1. /\ listH \in [ProcIds -> Seq(Clients)] /\ listL \in [ProcIds -> Seq(Clients)]
      /\ drainedProc \in [Clients -> ProcIds \cup {-1}]
    BY DEF DrainedInit
<1>2. \A p \in ProcIds : listH[p] = <<>> /\ listL[p] = <<>>
    BY DEF DrainedInit
<1>3. Distinct(<<>>) /\ \A s : ~Contains(<<>>, s)
    BY DEF Distinct, Contains
<1>4. \A s \in Clients, p \in ProcIds : drainedProc[s] # p
    BY DrainedAssumption DEF DrainedInit, ProcIds
<1>5. ListInv
    BY <1>1, <1>2, <1>3, <1>4, Zenon DEF ListInv, OnH, OnL
<1>6. ScanInv
    BY DrainedAssumption DEF DrainedInit, ScanInv, ScanType, NotScanning, ProcIds
<1> QED
    BY <1>5, <1>6 DEF DrainedInv

LEMMA StartStep ==
    ASSUME ListInv, ScanInv, NEW p \in ProcIds, StartSearch(p)
    PROVE  ListInv' /\ ScanInv'
<1>1. UNCHANGED <<listH, listL, drainedProc>>
    BY DEF StartSearch
<1>2. ListInv'
    BY <1>1 DEF ListInv, OnH, OnL
<1>3. MaxProcs \in Nat /\ MaxProcs > 0 /\ p \in Nat /\ p < MaxProcs
      /\ \A q \in ProcIds : q \in Nat /\ q < MaxProcs
    BY DrainedAssumption DEF ProcIds
<1>4. scan' \in ScanType /\ scan'.phase = "H" /\ scan'.left = MaxProcs /\ scan'.proc = p
    BY <1>3 DEF StartSearch, ScanType
<1>5. ToVisit(scan)' = ProcIds
    <2>1. ASSUME NEW q \in ProcIds PROVE Ahead(scan', q) < MaxProcs
        <3>1. Ahead(scan', q) = IF q >= p THEN q - p ELSE (q - p) + MaxProcs
            BY <1>4, Zenon DEF Ahead
        <3> QED
            BY <1>3, <3>1
    <2>2. ToVisit(scan') = ProcIds
        BY <1>4, <2>1 DEF ToVisit
    <2>3. ToVisit(scan)' = ToVisit(scan')
        BY DEF ToVisit, Ahead
    <2> QED
        BY <2>2, <2>3, Zenon
<1>6. steady' \subseteq Clients /\ \A s \in steady' : drainedProc'[s] # -1 /\ drainedProc'[s] \in ProcIds
    BY <1>1 DEF StartSearch, IsDrained, ListInv
<1>7. ScanInv'
    BY <1>3, <1>4, <1>5, <1>6 DEF ScanInv
<1> QED
    BY <1>2, <1>7

\* The list at hand is done with: what is ahead of the search it was before.
LEMMA AdvanceStep ==
    ASSUME ListInv, ScanInv, ListInv', scan.phase # "none", scan' = Advance(scan),
           UNCHANGED <<drainedProc, steady>>,
           \A q \in ProcIds, s \in Clients : OnH(q, s)' => OnH(q, s),
           scan.phase = "H" =>
              \A q \in ProcIds, s \in Clients : OnH(q, s)' => q # scan.proc,
           scan.phase = "L" => /\ \A s \in Clients : ~OnL(scan.proc, s)
                               /\ UNCHANGED listL
    PROVE  ScanInv'
<1>1. scan \in ScanType /\ scan.left > 0 /\ scan.phase \in {"H", "L"} /\ scan.proc \in ProcIds
    BY DEF ScanInv, ScanType
<1>2. /\ scan' \in ScanType
      /\ scan'.phase # "none" => scan'.left > 0
      /\ \/ scan'.phase = scan.phase /\ ToVisit(scan) \subseteq ToVisit(scan') \cup {scan.proc}
         \/ /\ ToVisit(scan) \subseteq {scan.proc}
            /\ \/ scan.phase = "H" /\ scan'.phase = "L" /\ ToVisit(scan') = ProcIds
               \/ scan.phase = "L" /\ scan' = NotScanning
    BY <1>1, Advances, Zenon
<1>3. NotScanning.phase = "none"
    BY DEF NotScanning
<1>4. ASSUME NEW s \in steady
      PROVE  /\ drainedProc[s] # -1
             /\ scan'.phase = "H" => (OnH(drainedProc[s], s)' => drainedProc[s] \in ToVisit(scan'))
             /\ scan'.phase = "L" => OnL(drainedProc[s], s)' /\ drainedProc[s] \in ToVisit(scan')
    <2>1. s \in Clients /\ drainedProc[s] # -1
        BY DEF ScanInv
    <2>2. PICK q \in ProcIds : q = drainedProc[s]
        BY <2>1 DEF ListInv
    <2>3. drainedProc'[s] = q
        BY <2>2
    <2>4. OnH(q, s)' \/ OnL(q, s)'
        BY <2>1, <2>3, Zenon DEF ListInv
    <2>5. /\ scan.phase = "H" => (OnH(q, s) => q \in ToVisit(scan))
          /\ scan.phase = "L" => OnL(q, s) /\ q \in ToVisit(scan)
        BY <2>2, Zenon DEF ScanInv
    <2>6. CASE scan.phase = "H"
        <3>1. OnH(q, s)' => q \in ToVisit(scan) /\ q # scan.proc
            BY <2>1, <2>5, <2>6, Zenon
        <3>2. /\ scan'.phase = "H" => (OnH(q, s)' => q \in ToVisit(scan'))
              /\ scan'.phase = "L" => OnL(q, s)' /\ q \in ToVisit(scan')
            <4>1. CASE scan'.phase = scan.phase /\ ToVisit(scan) \subseteq ToVisit(scan') \cup {scan.proc}
                BY <2>6, <3>1, <4>1
            <4>2. CASE /\ ToVisit(scan) \subseteq {scan.proc} /\ scan'.phase = "L"
                       /\ ToVisit(scan') = ProcIds
                BY <2>4, <3>1, <4>2
            <4> QED
                BY <1>2, <2>6, <4>1, <4>2
        <3> QED
            BY <2>1, <2>2, <2>3, <3>2, Zenon DEF OnH, OnL
    <2>7. CASE scan.phase = "L"
        <3>1. OnL(q, s) /\ q \in ToVisit(scan) /\ q # scan.proc
            BY <2>1, <2>5, <2>7, Zenon
        <3>2. OnL(q, s)'
            BY <2>7, <3>1, Zenon DEF OnL
        <3>3. scan'.phase = "L" => q \in ToVisit(scan')
            BY <1>2, <1>3, <2>7, <3>1
        <3>4. scan'.phase # "H"
            BY <1>2, <1>3, <2>7
        <3> QED
            BY <2>1, <2>2, <2>3, <3>2, <3>3, <3>4, Zenon DEF OnL
    <2> QED
        BY <1>1, <2>6, <2>7
<1>5. ToVisit(scan)' = ToVisit(scan')
    BY DEF ToVisit, Ahead
<1>6. steady' = steady /\ drainedProc' = drainedProc /\ steady \subseteq Clients
    BY DEF ScanInv
<1> QED
    BY <1>2, <1>4, <1>5, <1>6, Zenon DEF ScanInv

LEMMA DrainedInvStep == DrainedInv /\ [DrainedNext]_drainedVars => DrainedInv'
<1> SUFFICES ASSUME ListInv, ScanInv, [DrainedNext]_drainedVars PROVE ListInv' /\ ScanInv'
    BY DEF DrainedInv
<1>0. scan.proc \in ProcIds
    BY DEF ScanInv, ScanType
<1>1. ASSUME NEW c \in Clients, NEW p \in ProcIds, Drain(c, p) PROVE ListInv' /\ ScanInv'
    <2>1. ListInv' /\ Stays(c)
        BY <1>1, DrainStep
    <2>2. scan' = scan /\ steady' \subseteq steady \ {c}
        BY <1>1 DEF Drain, IsDrained, ScanInv
    <2> QED
        BY <2>1, <2>2, SessionStep
<1>2. ASSUME NEW c \in Clients, spccRemoveFromDrainedList(c) PROVE ListInv' /\ ScanInv'
    <2>1. ListInv' /\ Stays(c)
        BY <1>2, RemoveStep
    <2>2. scan' = scan /\ steady' \subseteq steady \ {c}
        BY <1>2 DEF spccRemoveFromDrainedList
    <2> QED
        BY <2>1, <2>2, SessionStep
<1>3. ASSUME UNCHANGED <<listH, listL, drainedProc, scan, steady>> PROVE ListInv' /\ ScanInv'
    BY <1>3 DEF ListInv, ScanInv, OnH, OnL, ToVisit, Ahead
<1>4. ASSUME NEW c \in Clients, UpdateDemand(c) PROVE ListInv' /\ ScanInv'
    BY <1>3, <1>4 DEF UpdateDemand
<1>5. ASSUME NEW p \in ProcIds, StartSearch(p) PROVE ListInv' /\ ScanInv'
    BY <1>5, StartStep
<1>6. ASSUME spccChooseDrainedH PROVE ListInv' /\ ScanInv'
    <2>1. /\ ListInv'
          /\ \A q \in ProcIds, s \in Clients : OnH(q, s)' <=> q # scan.proc /\ OnH(q, s)
        BY <1>0, <1>6, ChooseHStep
    <2>2. /\ scan.phase = "H" /\ scan.phase # "none" /\ scan.phase # "L"
          /\ scan' = Advance(scan) /\ UNCHANGED <<drainedProc, steady>>
        BY <1>6 DEF spccChooseDrainedH
    <2>3. \A q \in ProcIds, s \in Clients : OnH(q, s)' => OnH(q, s) /\ q # scan.proc
        BY <2>1, Zenon
    <2> QED
        BY <2>1, <2>2, <2>3, AdvanceStep
<1>7. ASSUME spccChooseDrainedL PROVE ListInv' /\ ScanInv'
    <2>1. /\ ListInv'
          /\ \/ /\ UNCHANGED <<listH, listL, drainedProc, steady>> /\ scan' = Advance(scan)
                /\ \A s \in Clients : ~OnL(scan.proc, s)
             \/ \E c \in Clients : /\ drainedProc[c] # -1 /\ drainedProc'[c] = -1
                                   /\ Stays(c) /\ steady' = steady \ {c}
                                   /\ scan' = NotScanning
        BY <1>0, <1>7, ChooseLStep
    <2>2. scan.phase = "L" /\ scan.phase # "none" /\ scan.phase # "H"
        BY <1>7 DEF spccChooseDrainedL
    <2>3. CASE /\ UNCHANGED <<listH, listL, drainedProc, steady>> /\ scan' = Advance(scan)
               /\ \A s \in Clients : ~OnL(scan.proc, s)
        <3>1. \A q \in ProcIds, s \in Clients : OnH(q, s)' => OnH(q, s)
            BY <2>3 DEF OnH
        <3> QED
            BY <2>1, <2>2, <2>3, <3>1, AdvanceStep
    <2>4. ASSUME NEW c \in Clients, Stays(c), steady' = steady \ {c}, scan' = NotScanning
          PROVE  ScanInv'
        <3>1. \A s \in steady' : drainedProc'[s] # -1
            BY <2>4 DEF Stays, ScanInv
        <3>2. NotScanning \in ScanType /\ NotScanning.phase = "none"
            BY <1>0, DrainedAssumption DEF NotScanning, ScanType, ProcIds
        <3>3. steady' \subseteq Clients /\ scan' \in ScanType /\ scan'.phase = "none"
            BY <2>4, <3>2 DEF ScanInv
        <3> QED
            BY <3>1, <3>3 DEF ScanInv
    <2> QED
        BY <2>1, <2>3, <2>4
<1> QED
    BY <1>1, <1>2, <1>3, <1>4, <1>5, <1>6, <1>7 DEF DrainedNext, drainedVars

\* The demotions of spccChooseDrainedH, spccRemoveFromDrainedList and the
\* wake-ups keep every drained session on one list, once, and nobody else on
\* any, for any number of sessions and processors.
THEOREM DrainedOnOneList == DrainedSpec => []OnOneList
<1>1. DrainedInv => OnOneList
    <2> SUFFICES ASSUME ListInv, NEW s \in Clients, NEW p \in ProcIds
                 PROVE  Cardinality({i \in DOMAIN (listH[p] \o listL[p]) :
                                        (listH[p] \o listL[p])[i] = s}) =
                            IF drainedProc[s] = p THEN 1 ELSE 0
        BY Zenon DEF DrainedInv, OnOneList
    <2> DEFINE n == listH[p] \o listL[p]
               I == {i \in DOMAIN n : n[i] = s}
    <2>1. /\ listH[p] \in Seq(Clients) /\ listL[p] \in Seq(Clients)
          /\ Distinct(listH[p]) /\ Distinct(listL[p])
        BY DEF ListInv
    <2>2. /\ \A x \in Clients : ~(Contains(listH[p], x) /\ Contains(listL[p], x))
          /\ Contains(listH[p], s) \/ Contains(listL[p], s) <=> drainedProc[s] = p
        BY Zenon DEF ListInv, OnH, OnL
    <2>3. /\ n \in Seq(Clients) /\ Distinct(n)
          /\ \A x : Contains(n, x) <=> Contains(listH[p], x) \/ Contains(listL[p], x)
        BY <2>1, <2>2, ListJoin, Zenon
    <2> HIDE DEF n
    <2>4. DOMAIN n = 1..Len(n)
        BY <2>3
    <2>5. CASE drainedProc[s] = p
        <3>1. PICK i \in 1..Len(n) : n[i] = s
            BY <2>2, <2>3, <2>5, Zenon DEF Contains
        <3>2. I = {i}
            BY <2>3, <2>4, <3>1 DEF Distinct
        <3> HIDE DEF I
        <3>3. Cardinality(I) = 1
            BY <3>2, FS_Singleton, Zenon
        <3> QED
            BY <2>5, <3>3, Zenon DEF I, n
    <2>6. CASE drainedProc[s] # p
        <3>1. I = {}
            BY <2>2, <2>3, <2>4, <2>6, Zenon DEF Contains
        <3> HIDE DEF I
        <3>2. Cardinality(I) = 0
            BY <3>1, FS_EmptySet
        <3> QED
            BY <2>6, <3>2, Zenon DEF I, n
    <2> QED
        BY <2>5, <2>6, Zenon
<1> QED
    BY <1>1, DrainedInvInit, DrainedInvStep, PTL DEF DrainedSpec

\* When the loops of spccWakeUpDrainedSession find nobody, nobody has been
\* drained all along, for any number of sessions and processors and whatever
\* the sessions did between two visits.
THEOREM NobodyOverlooked == DrainedSpec => SearchIsComplete
<1>1. DrainedInv /\ [DrainedNext]_drainedVars =>
          [scan.phase = "L" /\ scan' = NotScanning /\ drainedProc' = drainedProc
              => steady = {}]_drainedVars
    <2> SUFFICES ASSUME ListInv, ScanInv, DrainedNext, scan.phase = "L",
                        scan' = NotScanning, drainedProc' = drainedProc
                 PROVE  steady = {}
        BY DEF DrainedInv
    <2>1. NotScanning.phase = "none"
        BY DEF NotScanning
    <2>2. scan' # scan
        BY <2>1
    <2>3. scan \in ScanType /\ scan.proc \in ProcIds /\ scan.left > 0 /\ scan.phase # "none"
        BY DEF ScanInv, ScanType
    <2>4. spccChooseDrainedL
        BY <2>2, Zenon DEF DrainedNext, Drain, spccRemoveFromDrainedList, UpdateDemand, StartSearch,
                    NotScanning, spccChooseDrainedH
    <2>5. scan' = Advance(scan) /\ \A s \in Clients : ~OnL(scan.proc, s)
        BY <2>3, <2>4, ChooseLStep
    <2>6. ToVisit(scan) \subseteq {scan.proc}
        BY <2>1, <2>3, <2>5, Advances
    <2> QED
        BY <2>5, <2>6 DEF ScanInv
<1> QED
    BY <1>1, DrainedInvInit, DrainedInvStep, PTL DEF DrainedSpec, SearchIsComplete
=============================================================================

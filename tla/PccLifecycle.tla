---------------------------- MODULE PccLifecycle ----------------------------
(***************************************************************************)
(* The life of the sessions of a credit-based server (spccListener,        *)
(* spccServer) and the global counters they share, which are updated with  *)
(* atomic operations and without a lock: SpccNumSess, SpccCreditUsed and   *)
(* SpccCreditPool.  Breakwater and Protego have the same code here, except *)
(* for the controller of the pool.  Inside a session only its credit is    *)
(* kept; what it does with it is in PccSession.                            *)
(***************************************************************************)
EXTENDS PccPool, FiniteSets

CONSTANTS Sessions,    \* connections the listener may have at a time
          MaxDemand,   \* bound on the demand a client reports
          Algos        \* the servers: "pcc", "breakwater" or "protego"

ASSUME LifecycleAssumption ==
    /\ IsFiniteSet(Sessions) /\ MaxDemand \in Nat
    /\ Algos \subseteq {"pcc", "breakwater", "protego"}

VARIABLES numSess,     \* SpccNumSess
          creditUsed,  \* SpccCreditUsed
          creditPool,  \* SpccCreditPool
          at,          \* where each session's spccServer is
          credit,      \* s.Credit
          plan,        \* what a worker of each session that runs the controller
                       \* has loaded (from) and computed (newCp)
          origCp,      \* SpccOrigCp
          algo         \* which server this is

vars == <<numSess, creditUsed, creditPool, at, credit, plan, origCp, algo>>

NoPlan == [newCp |-> 0, from |-> 0, dir |-> "none"]

Init ==
    /\ algo \in Algos
    /\ numSess = 0 /\ creditUsed = 0 /\ creditPool = Procs /\ origCp = Procs
    /\ at = [s \in Sessions |-> "absent"]
    /\ credit = [s \in Sessions |-> 0]
    /\ plan = [s \in Sessions |-> NoPlan]

\* A connection is accepted and its session counted.
Accept(s) ==
    /\ at[s] = "absent"
    /\ at' = [at EXCEPT ![s] = "serving"]
    /\ credit' = [credit EXCEPT ![s] = 0]
    /\ numSess' = numSess + 1
    /\ UNCHANGED <<creditUsed, creditPool, plan, origCp, algo>>

\* The sender of a session that is not drained calls spccUpdateCredit.
Update(s) ==
    /\ at[s] = "serving"
    /\ \E demand \in 0..MaxDemand, dropped \in BOOLEAN :
          LET c == UpdateCredit(credit[s], 0, demand, FALSE, dropped,
                                AsInt(creditPool) - AsInt(creditUsed), numSess)
          IN  /\ credit' = [credit EXCEPT ![s] = c]
              /\ creditUsed' = Add(creditUsed, c - credit[s])
    /\ UNCHANGED <<numSess, creditPool, at, plan, origCp, algo>>

\* A worker enters the controller and loads the pool.  SpccCtlLock and SpgCmLock
\* let one worker in at a time; Breakwater has no lock.
LoadPool(s) ==
    /\ at[s] \in {"serving", "closed", "waiting"} /\ plan[s] = NoPlan
    /\ algo # "breakwater" => \A t \in Sessions : plan[t] = NoPlan
    /\ plan' = [plan EXCEPT ![s] = [newCp |-> 0, from |-> creditPool, dir |-> "loaded"]]
    /\ UNCHANGED <<numSess, creditUsed, creditPool, at, credit, origCp, algo>>

\* The pools the controller may move to from the one it has loaded: down under
\* overload, up when there is room, and with PCC no move, or back to the pool
\* that was perturbed.
NewPools(pool, n) ==
    CASE algo = "pcc" -> [down |-> {spccDecrCp(pool, n)}, up |-> {spccIncrCp(pool, n)},
                          stay |-> {pool, origCp}]
      [] algo = "breakwater" -> [down |-> sbwDecrCreditPool(pool, n),
                                 up |-> sbwIncrCreditPool(pool, n), stay |-> {}]
      [] algo = "protego" -> [down |-> spgDecrCreditPool(pool, n),
                              up |-> spgIncrCreditPool(pool, n), stay |-> {}]

\* The worker loads the number of sessions and computes the pool ...
ComputePool(s) ==
    /\ plan[s].dir = "loaded"
    /\ \E dir \in {"down", "up", "stay"} :
          \E cp \in NewPools(plan[s].from, numSess)[dir] :
              plan' = [plan EXCEPT ![s] = [newCp |-> cp, from |-> @.from, dir |-> dir]]
    /\ UNCHANGED <<numSess, creditUsed, creditPool, at, credit, origCp, algo>>

\* ... and, when it has woken drained sessions, stores it.  PCC remembers the pool
\* a decision chose, also where strict labelling skips the decision.
StorePool(s) ==
    /\ plan[s].dir \in {"down", "up", "stay"}
    /\ \/ creditPool' = plan[s].newCp
       \/ algo = "pcc" /\ plan[s].dir = "stay" /\ UNCHANGED creditPool
    /\ origCp' \in IF algo = "pcc" THEN {origCp, plan[s].newCp} ELSE {origCp}
    /\ plan' = [plan EXCEPT ![s] = NoPlan]
    /\ UNCHANGED <<numSess, creditUsed, at, credit, algo>>

\* Mutant: the session does not return its credit.
CloseKeepsCredit(s) ==
    /\ at[s] = "serving"
    /\ at' = [at EXCEPT ![s] = "closed"]
    /\ UNCHANGED <<numSess, creditUsed, creditPool, credit, plan, origCp, algo>>

\* The client is gone: the session returns its credit and is Closed ...
Close(s) ==
    /\ at[s] = "serving"
    /\ at' = [at EXCEPT ![s] = "closed"]
    /\ creditUsed' = Sub(creditUsed, credit[s])
    /\ UNCHANGED <<numSess, creditPool, credit, plan, origCp, algo>>

\* Mutant: the session is not counted any more before it is closed.
UncountEarly(s) ==
    /\ at[s] \in {"serving", "closed"} /\ numSess > 0
    /\ at' = [at EXCEPT ![s] = IF at[s] = "closed" THEN "waiting" ELSE at[s]]
    /\ numSess' = numSess - 1
    /\ UNCHANGED <<creditUsed, creditPool, credit, plan, origCp, algo>>

\* ... and no longer counted ...
Uncount(s) ==
    /\ at[s] = "closed"
    /\ at' = [at EXCEPT ![s] = "waiting"]
    /\ numSess' = numSess - 1
    /\ UNCHANGED <<creditUsed, creditPool, credit, plan, origCp, algo>>

\* Mutant: the session does not wait until its workers are done.
CheckLastEarly(s) ==
    /\ at[s] = "waiting"
    /\ at' = [at EXCEPT ![s] = IF numSess = 0 THEN "resetUsed" ELSE "absent"]
    /\ UNCHANGED <<numSess, creditUsed, creditPool, credit, plan, origCp, algo>>

\* ... and, once its sender is done, which waits for its workers, looks whether
\* it was the last one.
CheckLast(s) ==
    /\ at[s] = "waiting" /\ plan[s] = NoPlan
    /\ at' = [at EXCEPT ![s] = IF numSess = 0 THEN "resetUsed" ELSE "absent"]
    /\ UNCHANGED <<numSess, creditUsed, creditPool, credit, plan, origCp, algo>>

\* "Re-Initialize credits, if there are no clients": two atomic stores.
ResetUsed(s) ==
    /\ at[s] = "resetUsed"
    /\ at' = [at EXCEPT ![s] = "resetPool"]
    /\ creditUsed' = 0
    /\ UNCHANGED <<numSess, creditPool, credit, plan, origCp, algo>>

ResetPool(s) ==
    /\ at[s] = "resetPool"
    /\ at' = [at EXCEPT ![s] = "absent"]
    /\ creditPool' = Procs
    /\ UNCHANGED <<numSess, creditUsed, credit, plan, origCp, algo>>

Next ==
    \E s \in Sessions :
          \/ Accept(s) \/ Update(s) \/ Close(s) \/ Uncount(s)
          \/ CheckLast(s) \/ ResetUsed(s) \/ ResetPool(s)
          \/ LoadPool(s) \/ ComputePool(s) \/ StorePool(s)

Spec == Init /\ [][Next]_vars
-----------------------------------------------------------------------------
(* Properties *)

\* A session that may still update its credit is counted, so spccUpdateCredit
\* never divides by a number of sessions of zero, whichever sessions come and
\* go meanwhile.
ServingCounted == (\E s \in Sessions : at[s] = "serving") => numSess > 0

\* However sessions come and go, and whatever was reset or stored too late
\* meanwhile, the counters are as new once all of them are gone:
\* "Re-Initialize credits, if there are no clients".
AsNewWhenIdle ==
    (\A s \in Sessions : at[s] = "absent") => creditUsed = 0 /\ creditPool = Procs

\* A controller that reacts to overload does not raise the pool above what it
\* was (and the least it may be): the subtractions do not wrap, at a pool of
\* zero in particular.  PCC's does where the pool is smaller than its step.
OverloadNeverRaises ==
    \A s \in Sessions :
        plan[s].dir = "down" /\ (algo = "pcc" => plan[s].from >= SpccEpsilon)
            => plan[s].newCp <= MaxOf(plan[s].from, Procs)

\* The credits of the sessions that serve, counted one by one.
SumOfCredits(where, cr) ==
    Cardinality(UNION {{s} \X (1..cr[s]) : s \in {t \in Sessions : where[t] = "serving"}})

\* Only a re-initialisation that comes while a client is connected makes
\* SpccCreditUsed wrong: every other step that finds it right leaves it right,
\* a close of one session between two steps of another's included.
OnlyReinitMiscounts ==
    [][creditUsed = SumOfCredits(at, credit) =>
          \/ creditUsed' = SumOfCredits(at', credit')
          \/ numSess > 0 /\ \E s \in Sessions : at[s] = "resetUsed" /\ at'[s] # at[s]]_vars
=============================================================================

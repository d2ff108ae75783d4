------------------------ MODULE PccControllerProofs ------------------------
(***************************************************************************)
(* The cycle of the utility controller, for every number of requests and   *)
(* sessions and all sizes of pool, window and step.                        *)
(*                                                                         *)
(* ExperimentPhases is inductive with the types of what it speaks of.      *)
(* DecisionFromBase needs to know that SpccOrigCp is the pool of the last  *)
(* decision throughout the cycle.  PlusAboveMinus needs the pool of the    *)
(* first experiment to be the one the second is perturbed from, and the    *)
(* range of the pool: the limits must not turn the perturbation around.    *)
(***************************************************************************)
EXTENDS PccController, TLAPS

PhaseInv ==
    /\ ctlState \in {"prepare", "start", "end", "decide"} /\ numMicroExps \in Nat
    /\ dirs \in Directions
    /\ ExperimentPhases

BaseInv ==
    ~leaving => /\ origCp = base
                /\ ~PerturbCp => creditPool = base
                /\ DecisionFromBase

\* A pool between its two limits, where no session has left; the upper one
\* comes into effect with the first perturbation.
InLimits(pool, n) ==
    pool \in Int /\ pool >= Procs /\ (pool <= n * MaxWindow \/ pool = Procs)

\* The pools a and b of the two experiments are in the order of their labels.
InOrder(a, b) == IF dirs[1] = 1 THEN a >= b ELSE a <= b

RateInv ==
    UsualSizes /\ ~leaving =>
        /\ numSess \in 0..MaxSess /\ (Busy => numSess > 0)
        /\ InLimits(creditPool, numSess) /\ InLimits(origCp, numSess)
        /\ rate \in [Exps -> Int]
        /\ ctlState = "end" /\ numMicroExps = 0 => rate[1] = creditPool
        /\ ctlState = "prepare" /\ numMicroExps = 1 => rate[1] = creditPool
        /\ ctlState = "start" /\ numMicroExps = 1 => InOrder(rate[1], creditPool)
        /\ ctlState = "end" /\ numMicroExps = 1 => InOrder(rate[1], rate[2])
        /\ ctlState = "decide" => InOrder(rate[1], rate[2])
-----------------------------------------------------------------------------
(* The phases *)

\* spccListener starts before the first experiment.
LEMMA PhaseInit == spccListener => PhaseInv
BY DEF spccListener, PhaseInv, ExperimentPhases

\* Each case of spccUpdateCreditPool leads to the next phase.
LEMMA PhaseStep == PhaseInv /\ [Next]_vars => PhaseInv'
<1> SUFFICES ASSUME PhaseInv, [Next]_vars PROVE PhaseInv'
    OBVIOUS
<1> USE DEF PhaseInv, ExperimentPhases
<1>1. CASE PrepareMicroExp
    BY <1>1 DEF PrepareMicroExp
<1>2. CASE StartMicroExp
    BY <1>2 DEF StartMicroExp
<1>3. CASE EndMicroExp
    BY <1>3 DEF EndMicroExp
<1>4. CASE MakeDecision
    <2>1. \E cp : Decide(cp)
        BY <1>4 DEF MakeDecision
    <2> QED
        BY <2>1 DEF Decide
<1>5. ASSUME NEW r \in Requests, Receive(r) \/ CountIn(r) \/ Finish(r) PROVE PhaseInv'
    BY <1>5 DEF Receive, CountIn, Finish
<1>6. CASE Join \/ Leave \/ Reinitialize
    BY <1>6 DEF Join, Leave, Reinitialize
<1>7. CASE UNCHANGED vars
    BY <1>7 DEF vars
<1> QED
    BY <1>1, <1>2, <1>3, <1>4, <1>5, <1>6, <1>7 DEF Next

\* Requests carry the number of an experiment exactly while it runs, and the
\* decision of spccUpdateCreditPool has two experiments behind it.
THEOREM PhasesInOrder == Spec => []ExperimentPhases
<1>1. PhaseInv => ExperimentPhases
    BY DEF PhaseInv
<1> QED
    BY <1>1, PhaseInit, PhaseStep, PTL DEF Spec
-----------------------------------------------------------------------------
(* The base of a decision *)

\* All pools start with one credit per processor.
LEMMA BaseInit == spccListener => BaseInv
BY DEF spccListener, BaseInv, DecisionFromBase

\* SpccOrigCp changes only with the decision.
LEMMA BaseStep == PhaseInv /\ BaseInv /\ [Next]_vars => BaseInv'
<1> SUFFICES ASSUME PhaseInv, BaseInv, [Next]_vars PROVE BaseInv'
    OBVIOUS
<1> USE DEF BaseInv, DecisionFromBase
<1>1. CASE PrepareMicroExp
    BY <1>1 DEF PrepareMicroExp
<1>2. CASE StartMicroExp
    BY <1>2 DEF StartMicroExp
<1>3. CASE EndMicroExp
    BY <1>3 DEF EndMicroExp
<1>4. CASE MakeDecision
    <2>1. \E cp : Decide(cp)
        BY <1>4 DEF MakeDecision
    <2> QED
        BY <2>1 DEF Decide
<1>5. ASSUME NEW r \in Requests, Receive(r) \/ CountIn(r) \/ Finish(r) PROVE BaseInv'
    BY <1>5 DEF Receive, CountIn, Finish
<1>6. CASE Join \/ Leave \/ Reinitialize
    BY <1>6 DEF Join, Leave, Reinitialize
<1>7. CASE UNCHANGED vars
    BY <1>7 DEF vars
<1> QED
    BY <1>1, <1>2, <1>3, <1>4, <1>5, <1>6, <1>7 DEF Next

\* While clients stay, the decision of spccUpdateCreditPool moves the pool that
\* the last one chose, whatever the experiments did to it.
THEOREM DecisionsFromBase == Spec => []DecisionFromBase
<1>1. BaseInv => DecisionFromBase
    BY DEF BaseInv, DecisionFromBase
<1> QED
    BY <1>1, PhaseInit, PhaseStep, BaseInit, BaseStep, PTL DEF Spec
-----------------------------------------------------------------------------
(* The rates of the two experiments *)

\* n windows, of as many sessions as there may be.
LEMMA Windows ==
    ASSUME UsualSizes, NEW n \in 1..MaxSess
    PROVE  /\ n * MaxWindow \in Nat /\ n * MaxWindow >= Procs
           /\ n * MaxWindow + SpccEpsilon < Word
           /\ (n * MaxWindow) % Word = n * MaxWindow
<1> USE WindowAssumption, ProcsAssumption, PoolAssumption, ControllerAssumption
<1>1. n \in Nat /\ n >= 1 /\ MaxSess \in Nat /\ n <= MaxSess /\ MaxWindow \in Nat
    OBVIOUS
<1>2. n * MaxWindow \in Nat /\ MaxSess * MaxWindow \in Nat
    BY <1>1
<1>3. n * MaxWindow >= MaxWindow
    BY <1>1
<1>4. n * MaxWindow <= MaxSess * MaxWindow
    BY <1>1
<1> HIDE DEF UsualSizes
<1>5. n * MaxWindow + SpccEpsilon < Word
    BY <1>2, <1>4 DEF UsualSizes
<1>6. n * MaxWindow >= Procs
    BY <1>2, <1>3 DEF UsualSizes
<1>7. (n * MaxWindow) % Word = n * MaxWindow
    <2> DEFINE m == n * MaxWindow
    <2>1. m \in Nat /\ m < Word
        BY <1>2, <1>5
    <2> HIDE DEF m
    <2>2. m % Word = m
        BY <2>1
    <2> QED
        BY <2>2 DEF m
<1> QED
    BY <1>2, <1>5, <1>6, <1>7

\* What spccUpdateCp, spccIncrCp and spccDecrCp make of a pool within its limits.
LEMMA Moves ==
    ASSUME UsualSizes, NEW n \in 1..MaxSess, NEW p, InLimits(p, n)
    PROVE  /\ InLimits(spccDecrCp(p, n), n) /\ InLimits(spccIncrCp(p, n), n)
           /\ p <= n * MaxWindow
           /\ spccDecrCp(p, n) <= p /\ spccIncrCp(p, n) >= p
<1> USE ProcsAssumption, PoolAssumption
<1> DEFINE limit == n * MaxWindow
<1>1. limit \in Nat /\ limit >= Procs /\ limit + SpccEpsilon < Word /\ limit % Word = limit
    BY Windows
<1>2. p \in Int /\ p >= Procs /\ (p <= limit \/ p = Procs)
    BY DEF InLimits
<1>3. \A q : ClampPool(q, n) = MinOf(MaxOf(q, Procs), limit)
    BY <1>1 DEF ClampPool
<1>4. \A q : InLimits(q, n) <=> q \in Int /\ q >= Procs /\ (q <= limit \/ q = Procs)
    BY DEF InLimits
<1> HIDE DEF limit
<1>5. p <= limit
    BY <1>1, <1>2
<1>6. p - SpccEpsilon \in 0..(Word - 1) /\ p + SpccEpsilon \in 0..(Word - 1)
    BY <1>1, <1>2, <1>5 DEF UsualSizes
<1>7. Sub(p, SpccEpsilon) = p - SpccEpsilon /\ Add(p, SpccEpsilon) = p + SpccEpsilon
    BY <1>6 DEF Sub, Add
<1>8. /\ spccDecrCp(p, n) = MinOf(MaxOf(p - SpccEpsilon, Procs), limit)
      /\ spccIncrCp(p, n) = MinOf(MaxOf(p + SpccEpsilon, Procs), limit)
    BY <1>3, <1>7 DEF spccDecrCp, spccIncrCp
<1>9. /\ MinOf(MaxOf(p - SpccEpsilon, Procs), limit) \in Procs..p
      /\ MinOf(MaxOf(p + SpccEpsilon, Procs), limit) \in p..limit
    BY <1>1, <1>2, <1>5 DEF MinOf, MaxOf
<1>10. spccDecrCp(p, n) \in Procs..p /\ spccIncrCp(p, n) \in p..limit
    BY <1>8, <1>9
<1>11. InLimits(spccDecrCp(p, n), n) /\ InLimits(spccIncrCp(p, n), n)
    BY <1>1, <1>2, <1>4, <1>5, <1>10
<1> QED
    BY <1>2, <1>5, <1>10, <1>11 DEF limit

\* The limits widen when a session joins.
LEMMA Widened ==
    ASSUME UsualSizes, NEW n \in Nat, NEW p, InLimits(p, n)
    PROVE  InLimits(p, n + 1)
<1>1. (n + 1) * MaxWindow = n * MaxWindow + MaxWindow /\ n * MaxWindow \in Nat
    BY WindowAssumption
<1> QED
    BY <1>1, WindowAssumption DEF InLimits

\* The cycle starts with no experiment behind it.
LEMMA RateInit == spccListener => RateInv
<1> SUFFICES ASSUME spccListener PROVE RateInv
    OBVIOUS
<1>1. ~Busy /\ numSess \in 0..MaxSess
    BY ControllerAssumption DEF spccListener, Busy
<1>2. InLimits(creditPool, numSess) /\ InLimits(origCp, numSess)
    BY ProcsAssumption DEF spccListener, InLimits
<1>3. rate \in [Exps -> Int]
    BY ProcsAssumption DEF spccListener, Exps
<1> QED
    BY <1>1, <1>2, <1>3 DEF spccListener, RateInv

\* The second experiment is perturbed from the pool of the first, the other way.
LEMMA RateStep == PhaseInv /\ RateInv /\ [Next]_vars => RateInv'
<1> SUFFICES ASSUME PhaseInv, RateInv, [Next]_vars, UsualSizes, ~leaving' PROVE RateInv'
    BY DEF RateInv
<1>0. ~leaving
    BY DEF Next, vars, PrepareMicroExp, StartMicroExp, EndMicroExp, MakeDecision, Decide, Receive,
           CountIn, Finish, Join, Leave, Reinitialize
<1> USE DEF PhaseInv, ExperimentPhases
<1>01. /\ numSess \in 0..MaxSess /\ (Busy => numSess > 0)
       /\ InLimits(creditPool, numSess) /\ InLimits(origCp, numSess)
       /\ rate \in [Exps -> Int]
    BY <1>0 DEF RateInv
<1>02. Busy => numSess \in 1..MaxSess
    BY <1>01, ControllerAssumption
<1>03. dirs[1] \in {-1, 1} /\ dirs[2] = -dirs[1]
    BY DEF Directions, Exps
<1>1. CASE PrepareMicroExp
    <2> DEFINE d == dirs[numMicroExps + 1]
    <2>1. numMicroExps \in {0, 1} /\ UNCHANGED <<numMicroExps, dirs, origCp, numSess, req, rate>>
            /\ ctlState' = "start" /\ numSess \in 1..MaxSess /\ Busy' = Busy
        BY <1>1, <1>02 DEF PrepareMicroExp, Busy
    <2>2. creditPool' = creditPool \/ creditPool' = spccUpdateCp(creditPool, numSess, d)
        BY <1>1 DEF PrepareMicroExp
    <2>3. d \in {-1, 1} /\ (numMicroExps = 1 => d = -dirs[1])
        BY <1>03, <2>1
    <2>4. /\ d = -1 => spccUpdateCp(creditPool, numSess, d) = spccDecrCp(creditPool, numSess)
          /\ d = 1 => spccUpdateCp(creditPool, numSess, d) = spccIncrCp(creditPool, numSess)
        BY <2>3 DEF spccUpdateCp
    <2> HIDE DEF d
    <2>5. creditPool \in Int
        BY <1>01 DEF InLimits
    <2>6. /\ InLimits(creditPool', numSess)
          /\ d = -1 => creditPool' <= creditPool
          /\ d = 1 => creditPool' >= creditPool
        BY <1>01, <2>1, <2>2, <2>3, <2>4, <2>5, Moves
    <2>7. numMicroExps = 1 => rate[1] = creditPool
        BY <1>0, <1>1 DEF RateInv, PrepareMicroExp
    <2>8. numMicroExps = 1 => InOrder(rate[1], creditPool)'
        BY <1>03, <2>1, <2>3, <2>5, <2>6, <2>7 DEF InOrder, InLimits
    <2> QED
        BY <1>01, <2>1, <2>6, <2>8 DEF RateInv, InOrder
<1>2. CASE StartMicroExp
    <2>1. numMicroExps \in {0, 1} /\ UNCHANGED <<numMicroExps, dirs, creditPool, origCp, numSess, req>>
            /\ ctlState' = "end" /\ Busy' = Busy
        BY <1>2 DEF StartMicroExp, Busy
    <2>2. rate' = [rate EXCEPT ![numMicroExps + 1] = creditPool] /\ creditPool \in Int
        BY <1>01, <1>2 DEF StartMicroExp, InLimits
    <2>3. /\ rate' \in [Exps -> Int]
          /\ numMicroExps = 0 => rate'[1] = creditPool
          /\ numMicroExps = 1 => rate'[1] = rate[1] /\ rate'[2] = creditPool
        BY <1>01, <2>1, <2>2 DEF Exps
    <2>4. numMicroExps = 1 => InOrder(rate[1], creditPool)
        BY <1>0, <1>2 DEF RateInv, StartMicroExp
    <2> QED
        BY <1>01, <2>1, <2>3, <2>4 DEF RateInv, InOrder
<1>3. CASE EndMicroExp
    <2>1. UNCHANGED <<dirs, origCp, numSess, req, rate>> /\ Busy' = Busy
        BY <1>3 DEF EndMicroExp, Busy
    <2>2. CASE numMicroExps + 1 < 2
        <3>1. numMicroExps = 0 /\ numMicroExps' = 1 /\ ctlState' = "prepare" /\ creditPool' = creditPool
            BY <1>3, <2>2 DEF EndMicroExp
        <3>2. rate[1] = creditPool
            BY <1>0, <1>3, <3>1 DEF RateInv, EndMicroExp
        <3> QED
            BY <1>01, <2>1, <3>1, <3>2 DEF RateInv
    <2>3. CASE numMicroExps + 1 >= 2
        <3>1. numMicroExps = 1 /\ ctlState' = "decide" /\ creditPool' \in {creditPool, origCp}
            BY <1>3, <2>3 DEF EndMicroExp
        <3>2. InOrder(rate[1], rate[2])
            BY <1>0, <1>3, <3>1 DEF RateInv, EndMicroExp
        <3> QED
            BY <1>01, <2>1, <3>1, <3>2 DEF RateInv, InOrder
    <2> QED
        BY <2>2, <2>3
<1>4. CASE MakeDecision
    <2>1. \E cp \in {creditPool, spccDecrCp(creditPool, numSess), spccIncrCp(creditPool, numSess)} :
              Decide(cp)
        <3>1. CASE Decide(creditPool)
            BY <3>1
        <3>2. ASSUME NEW dir \in UpdateDirs, NEW spare \in BOOLEAN,
                     Decide(CASE dir = -1 -> spccDecrCp(creditPool, numSess)
                              [] dir = 0 -> IF spare THEN spccDecrCp(creditPool, numSess)
                                            ELSE creditPool
                              [] dir = 1 -> IF spare THEN spccDecrCp(creditPool, numSess)
                                            ELSE spccIncrCp(creditPool, numSess))
              PROVE  \E cp \in {creditPool, spccDecrCp(creditPool, numSess),
                                 spccIncrCp(creditPool, numSess)} : Decide(cp)
            <4>1. dir = -1 \/ dir = 0 \/ dir = 1
                BY DEF UpdateDirs
            <4> QED
                BY <3>2, <4>1
        <3> QED
            BY <1>4, <3>1, <3>2 DEF MakeDecision
    <2>2. PICK cp \in {creditPool, spccDecrCp(creditPool, numSess), spccIncrCp(creditPool, numSess)} :
              Decide(cp)
        BY <2>1
    <2>3. InLimits(cp, numSess)
        BY <1>01, <1>02, <1>4, Moves DEF MakeDecision
    <2>4. creditPool' = cp /\ origCp' = cp /\ ctlState' = "prepare" /\ numMicroExps' = 0
            /\ numSess' = numSess /\ rate' = rate /\ Busy' = Busy
        BY <2>2 DEF Decide, Busy
    <2> QED
        BY <1>01, <2>3, <2>4 DEF RateInv
<1>5. ASSUME NEW r \in Requests, Receive(r) \/ CountIn(r) \/ Finish(r) PROVE RateInv'
    <2>1. numSess > 0
        BY <1>01, <1>5 DEF Receive, CountIn, Finish, Busy
    <2>2. UNCHANGED <<ctlState, numMicroExps, dirs, creditPool, origCp, numSess, rate>>
        BY <1>5 DEF Receive, CountIn, Finish
    <2> QED
        BY <1>0, <1>01, <2>1, <2>2 DEF RateInv, InOrder
<1>6. CASE Join
    <2>1. UNCHANGED <<ctlState, numMicroExps, dirs, creditPool, origCp, rate>>
            /\ numSess' = numSess + 1 /\ numSess < MaxSess
        BY <1>6 DEF Join
    <2>2. numSess \in Nat /\ numSess' \in 0..MaxSess /\ numSess' > 0
        BY <1>01, <2>1, ControllerAssumption
    <2>3. InLimits(creditPool, numSess') /\ InLimits(origCp, numSess')
        BY <1>01, <2>1, <2>2, Widened
    <2> QED
        BY <1>0, <1>01, <2>1, <2>2, <2>3 DEF RateInv, InOrder
<1>7. CASE Leave \/ Reinitialize
    BY <1>0, <1>7 DEF Leave, Reinitialize
<1>8. CASE UNCHANGED vars
    BY <1>8 DEF vars, RateInv, InOrder, Busy
<1> QED
    BY <1>1, <1>2, <1>3, <1>4, <1>5, <1>6, <1>7, <1>8 DEF Next

\* Where a step does not exhaust the pool and a window has a credit for every
\* processor, the experiment that spccUpdateCreditPool takes for the one with
\* the larger pool had no smaller one, whoever joined between the two.
THEOREM ExperimentsOrdered == Spec => []PlusAboveMinus
<1>1. PhaseInv /\ RateInv => PlusAboveMinus
    <2> SUFFICES ASSUME PhaseInv, RateInv, UsualSizes, ctlState = "decide", ~leaving,
                        NEW p \in Exps, NEW m \in Exps, dirs[p] = 1, dirs[m] = -1
                 PROVE  rate[p] >= rate[m]
        BY DEF PlusAboveMinus
    <2>1. InOrder(rate[1], rate[2]) /\ rate \in [Exps -> Int]
        BY DEF RateInv
    <2>2. dirs[1] \in {-1, 1} /\ dirs[2] = -dirs[1]
        BY DEF PhaseInv, Directions, Exps
    <2> QED
        BY <2>1, <2>2 DEF InOrder, Exps
<1> QED
    BY <1>1, PhaseInit, PhaseStep, RateInit, RateStep, PTL DEF Spec
=============================================================================

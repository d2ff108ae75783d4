--------------------------- MODULE PccController ---------------------------
(***************************************************************************)
(* Svalinn's utility-based controller (spccUpdateCreditPool): a cycle of   *)
(* two micro-experiments, each at a perturbed credit pool, and a decision  *)
(* that moves the pool.  Workers and receivers run it, one at a time       *)
(* (SpccCtlLock.TryLock), and label the requests they count with the       *)
(* experiment that is on.                                                  *)
(*                                                                         *)
(* Utilities are floating-point measurements: a comparison may come out    *)
(* any way.  Whether credits are left (creditUsed < newCp) is the sessions'*)
(* doing and is open too.  An update may be due whenever a goroutine calls.*)
(***************************************************************************)
EXTENDS PccPool, FiniteSets

CONSTANTS Requests,          \* requests the server handles at a time
          MaxSess,           \* bound on the number of client sessions
          MaxCount,          \* bound on the counter of one experiment
          LeaveChoices,      \* whether clients may disconnect: a set of BOOLEANs
          PerturbCp,         \* SpccMicroExpPerturbCp
          StrictChoices      \* values of SpccMicroExpStrictLabelling

ASSUME ControllerAssumption ==
    /\ MaxSess \in Nat \ {0} /\ MaxCount \in Nat
    /\ LeaveChoices \subseteq BOOLEAN /\ StrictChoices \subseteq BOOLEAN
    /\ PerturbCp \in BOOLEAN

VARIABLES ctlState,      \* SpccCtlState
          numMicroExps,  \* SpccNumMicroExps
          microExpId,    \* SpccMicroExpId: the experiment that is on, or 0
          dirs,          \* SpccMicroExpDirs
          creditPool,    \* SpccCreditPool
          origCp,        \* SpccOrigCp
          numSess,       \* SpccNumSess
          inReqs,        \* SpccInReqs (index 0, no experiment, is never read)
          req,           \* where each request is, and its label (Opaque)
          rate,          \* history: the pool in each experiment of the cycle
          base,          \* history: the pool the last decision, or the last
                         \* re-initialisation, chose
          leaving        \* whether clients disconnect in this behaviour

vars == <<ctlState, numMicroExps, microExpId, dirs, creditPool, origCp, numSess, inReqs,
          req, rate, base, leaving>>

Exps == {1, 2}
Directions == {d \in [Exps -> {-1, 1}] : d[2] = -d[1]}

\* spccListener's initialisation; spccGenMicroExpDirs draws the directions.
spccListener ==
    /\ ctlState = "prepare"
    /\ numMicroExps = 0 /\ microExpId = 0
    /\ dirs \in Directions
    /\ creditPool = Procs /\ origCp = Procs
    /\ numSess = 0
    /\ inReqs = [i \in Exps |-> 0]
    /\ req = [r \in Requests |-> [at |-> "out", label |-> 0]]
    /\ rate = [i \in Exps |-> Procs] /\ base = Procs
    /\ leaving \in LeaveChoices

\* The controller runs in the goroutine of some request, or of a request of a
\* session that has just closed.
Busy == \E r \in Requests : req[r].at # "out"

PrepareMicroExp ==
    /\ Busy /\ ctlState = "prepare"
    /\ creditPool' = IF PerturbCp
                     THEN spccUpdateCp(creditPool, numSess, dirs[numMicroExps + 1])
                     ELSE creditPool
    /\ ctlState' = "start"
    /\ UNCHANGED <<numMicroExps, microExpId, dirs, origCp, numSess, inReqs, req,
                   rate, base, leaving>>

StartMicroExp ==
    /\ Busy /\ ctlState = "start"
    /\ LET i == numMicroExps + 1
       IN  /\ inReqs' = [inReqs EXCEPT ![i] = 0]
           /\ microExpId' = i
           /\ rate' = [rate EXCEPT ![i] = creditPool]
    /\ ctlState' = "end"
    /\ UNCHANGED <<numMicroExps, dirs, creditPool, origCp, numSess, req, base, leaving>>

\* Mutant: requests go on being labelled after the experiment.
EndMicroExpKeepsId ==
    /\ Busy /\ ctlState = "end"
    /\ numMicroExps' = numMicroExps + 1
    /\ ctlState' = IF numMicroExps + 1 < 2 THEN "prepare" ELSE "decide"
    /\ UNCHANGED <<creditPool, microExpId, dirs, origCp, numSess, inReqs, req,
                   rate, base, leaving>>

\* Mutant: the pool keeps the last experiment's perturbation.
EndMicroExpNoReset ==
    /\ Busy /\ ctlState = "end"
    /\ microExpId' = 0
    /\ numMicroExps' = numMicroExps + 1
    /\ ctlState' = IF numMicroExps + 1 < 2 THEN "prepare" ELSE "decide"
    /\ UNCHANGED <<creditPool, dirs, origCp, numSess, inReqs, req, rate, base, leaving>>

EndMicroExp ==
    /\ Busy /\ ctlState = "end"
    /\ microExpId' = 0
    /\ numMicroExps' = numMicroExps + 1
    /\ \/ /\ numMicroExps + 1 < 2
          /\ ctlState' = "prepare"
          /\ UNCHANGED creditPool
       \/ /\ numMicroExps + 1 >= 2
          /\ ctlState' = "decide"
          /\ creditPool' = IF PerturbCp THEN origCp ELSE creditPool
    /\ UNCHANGED <<dirs, origCp, numSess, inReqs, req, rate, base, leaving>>

\* The directions a decision may take: plus when an experiment saw no request,
\* either way (or stay, in the evaluation's configuration) when one saw more
\* than the other, and stay, the zero value, when both saw as many.
UpdateDirs ==
    IF inReqs[1] = 0 \/ inReqs[2] = 0 THEN {1}
    ELSE IF inReqs[1] # inReqs[2] THEN {-1, 0, 1}
    ELSE {0}

\* Strict labelling skips the decision when the plus experiment saw no more
\* requests than the minus experiment.
Skip == \E p, m \in Exps : dirs[p] = 1 /\ dirs[m] = -1 /\ inReqs[p] <= inReqs[m]

Decide(cp) ==
    /\ creditPool' = cp /\ origCp' = cp /\ base' = cp
    /\ numMicroExps' = 0 /\ microExpId' = 0
    /\ dirs' \in Directions
    /\ ctlState' = "prepare"
    /\ UNCHANGED <<numSess, inReqs, req, rate, leaving>>

MakeDecision ==
    /\ Busy /\ ctlState = "decide"
    /\ \/ TRUE \in StrictChoices /\ Skip /\ Decide(creditPool)
       \/ /\ ~Skip \/ FALSE \in StrictChoices
          /\ \E dir \in UpdateDirs, spare \in BOOLEAN :
                Decide(CASE dir = -1 -> spccDecrCp(creditPool, numSess)
                         [] dir = 0 -> IF spare THEN spccDecrCp(creditPool, numSess)
                                       ELSE creditPool
                         [] dir = 1 -> IF spare THEN spccDecrCp(creditPool, numSess)
                                       ELSE spccIncrCp(creditPool, numSess))
-----------------------------------------------------------------------------
(* Requests, labelled and counted *)

\* The atomic add to a counter of the labelled experiment.
Count(counter, label) ==
    IF label = 0 THEN counter ELSE [counter EXCEPT ![label] = @ + 1]
Countable(counter, label) == IF label = 0 THEN TRUE ELSE counter[label] < MaxCount

\* spccRecvOne reads SpccMicroExpId twice and counts if it got the same value;
\* the count is a step after the second read.
Receive(r) ==
    /\ req[r].at = "out" /\ numSess > 0
    /\ req' = [req EXCEPT ![r] = [at |-> "counting", label |-> microExpId]]
    /\ UNCHANGED <<ctlState, numMicroExps, microExpId, dirs, creditPool, origCp, numSess,
                   inReqs, rate, base, leaving>>

CountIn(r) ==
    /\ req[r].at = "counting" /\ Countable(inReqs, req[r].label)
    /\ inReqs' = Count(inReqs, req[r].label)
    /\ req' = [req EXCEPT ![r].at = "running"]
    /\ UNCHANGED <<ctlState, numMicroExps, microExpId, dirs, creditPool, origCp, numSess,
                   rate, base, leaving>>

\* spccWorker is done with the request.  Its counts of outcomes only feed the
\* utilities, whose comparison is open.
Finish(r) ==
    /\ req[r].at = "running"
    /\ req' = [req EXCEPT ![r] = [at |-> "out", label |-> 0]]
    /\ UNCHANGED <<ctlState, numMicroExps, microExpId, dirs, creditPool, origCp, numSess,
                   inReqs, rate, base, leaving>>
-----------------------------------------------------------------------------
(* Sessions come and go *)

Join ==
    /\ numSess < MaxSess
    /\ numSess' = numSess + 1
    /\ UNCHANGED <<ctlState, numMicroExps, microExpId, dirs, creditPool, origCp, inReqs,
                   req, rate, base, leaving>>

Leave ==
    /\ leaving /\ numSess > 0
    /\ numSess' = numSess - 1
    /\ UNCHANGED <<ctlState, numMicroExps, microExpId, dirs, creditPool, origCp, inReqs,
                   req, rate, base, leaving>>

\* "Re-Initialize credits, if there are no clients", by a session that left.
Reinitialize ==
    /\ leaving /\ numSess = 0
    /\ creditPool' = Procs /\ base' = Procs
    /\ UNCHANGED <<ctlState, numMicroExps, microExpId, dirs, origCp, numSess, inReqs,
                   req, rate, leaving>>

Next ==
    \/ PrepareMicroExp \/ StartMicroExp \/ EndMicroExp \/ MakeDecision
    \/ \E r \in Requests : Receive(r) \/ CountIn(r) \/ Finish(r)
    \/ Join \/ Leave \/ Reinitialize

Spec == spccListener /\ [][Next]_vars
-----------------------------------------------------------------------------
(* Properties *)

\* Requests are labelled with an experiment exactly while one runs, the two of
\* a cycle run in order, and a decision has both behind it.
ExperimentPhases ==
    /\ microExpId = IF ctlState = "end" THEN numMicroExps + 1 ELSE 0
    /\ IF ctlState = "decide" THEN numMicroExps = 2 ELSE numMicroExps < 2

\* The decision starts from the pool of the last decision (or of the last
\* re-initialisation), not from an experiment's: "Reset the rate".
DecisionFromBase == ctlState = "decide" /\ ~leaving => creditPool = base

\* A pool that a step does not exhaust, a window with a credit for every
\* processor, and no overflow.
UsualSizes ==
    SpccEpsilon <= Procs /\ Procs <= MaxWindow /\ MaxSess * MaxWindow + SpccEpsilon < Word

\* When the decision compares them, the experiment labelled plus ran with no
\* smaller pool than the one labelled minus, although sessions join in between
\* and move the limits of the pool.
PlusAboveMinus ==
    UsualSizes /\ ctlState = "decide" /\ ~leaving =>
        \A p, m \in Exps : dirs[p] = 1 /\ dirs[m] = -1 => rate[p] >= rate[m]
=============================================================================

----------------------------- MODULE PccCredit -----------------------------
(***************************************************************************)
(* How the PCC server sizes the credit of one session: the arithmetic of   *)
(* spccUpdateCredit and of the demand adjustments in spccRecvOne, as       *)
(* operators.  Breakwater and Protego use the same arithmetic.             *)
(***************************************************************************)
EXTENDS Integers

CONSTANTS MaxWindow,   \* SpccMaxWindow
          Procs        \* runtime.GOMAXPROCS(0)

ASSUME WindowAssumption == MaxWindow \in Nat /\ MaxWindow >= 2
ASSUME ProcsAssumption == Procs \in Nat \ {0}

\* utils.Min and utils.Max.
MinOf(a, b) == IF a < b THEN a ELSE b
MaxOf(a, b) == IF a > b THEN a ELSE b

\* Go's division truncates toward zero; the floor of \div differs from it only
\* below zero, where both are below the 1 that spccUpdateCredit raises them to.
MaxOverprovision(unused, numSess) == MaxOf(unused \div numSess, 1)

\* Mutant: the window itself, not one less, is the limit.
CapCreditOffByOne(c) == MinOf(c, MaxWindow)

CapCredit(c) == MinOf(c, MaxWindow - 1)

\* The new credit of a session that is not drained.  unused is the credit pool
\* (capped by the downstream credit) minus the credits in use.
UpdateCredit(credit, numPending, demand, wakeUp, reqDropped, unused, numSess) ==
    LET over == MaxOverprovision(unused, numSess)
        moved == IF unused > 0 THEN MinOf(numPending + demand + over, credit + unused)
                 ELSE IF unused < 0 THEN credit - 1
                 ELSE credit
        woken == IF wakeUp \/ numSess <= Procs THEN MaxOf(moved, over) ELSE moved
        kept == IF credit > 0 /\ woken = 0 /\ ~reqDropped THEN over ELSE woken
    IN  MinOf(CapCredit(MaxOf(kept, numPending)), numPending + demand + over)

\* "Adjust the credits if demand changed": credits beyond what the client can
\* use are taken back.
AdjustCredit(credit, numPending, demand) == MinOf(credit, numPending + demand)
=============================================================================

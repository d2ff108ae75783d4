------------------------------- MODULE PccPool -------------------------------
(***************************************************************************)
(* The arithmetic on the credit pools of the PCC, Breakwater and Protego   *)
(* servers.  The counters are uint64: they wrap at Word.                   *)
(***************************************************************************)
EXTENDS PccCredit

CONSTANTS Word,         \* 2^64
          SpccEpsilon,  \* the step of PCC's credit pool
          MaxStep       \* bound on the steps of the other two, numSess times
                        \* SbwAI or SpgAI with the carry

ASSUME PoolAssumption ==
    /\ Word \in Nat /\ Procs < Word
    /\ SpccEpsilon \in 1..(Word - 1) /\ MaxStep \in Nat \ {0}

\* uint64 addition and subtraction, and the conversion to int.
Add(a, b) == (a + b) % Word
Sub(a, b) == (a - b) % Word
AsInt(a) == IF 2 * a >= Word THEN a - Word ELSE a

\* At least one credit per processor, at most a window per session.
ClampPool(pool, numSess) == MinOf(MaxOf(pool, Procs), (numSess * MaxWindow) % Word)

spccDecrCp(pool, numSess) == ClampPool(Sub(pool, SpccEpsilon), numSess)
spccIncrCp(pool, numSess) == ClampPool(Add(pool, SpccEpsilon), numSess)

\* Mutant: the directions are swapped.
spccUpdateCpSwapped(pool, numSess, dir) ==
    IF dir = -1 THEN spccIncrCp(pool, numSess) ELSE spccDecrCp(pool, numSess)

spccUpdateCp(pool, numSess, dir) ==
    CASE dir = -1 -> spccDecrCp(pool, numSess)
      [] dir = 1 -> spccIncrCp(pool, numSess)
      [] OTHER -> ClampPool(pool, numSess)

\* sbwDecrCreditPool: a factor between a half and one, by the delay, and at
\* least one less; one less than zero wraps and does not count.
sbwDecrCreditPool(pool, numSess) ==
    {ClampPool(MinOf(k, Sub(pool, 1)), numSess) : k \in (pool \div 2)..pool}

\* sbwIncrCreditPool: the whole part of the carry, which may be zero.
sbwIncrCreditPool(pool, numSess) ==
    {ClampPool(Add(pool, k), numSess) : k \in 0..MaxStep}

\* Mutant: the subtraction is unsigned.
spgDecrUnsigned(pool, numSess) ==
    {ClampPool(Sub(pool, k), numSess) : k \in 1..MaxStep}

\* spgDecrCreditPool: signed, at least one.
spgDecrCreditPool(pool, numSess) ==
    {ClampPool(AsInt(pool) - k, numSess) : k \in 1..MaxStep}

\* spgIncrCreditPool: at least one.
spgIncrCreditPool(pool, numSess) ==
    {ClampPool(Add(pool, k), numSess) : k \in 1..MaxStep}
=============================================================================

-------------------------------- MODULE Perf --------------------------------
(***************************************************************************)
(* perf.go: the cached performance counters.  PerfInit starts a refresher  *)
(* goroutine that copies the counters of the pmc module, and the delay of  *)
(* netdelay, into a perfState; PerfDeInit stops it and then frees what it  *)
(* reads.  Servers and semaphores call both at any time, under perfMu.     *)
(*                                                                         *)
(* The memory counter stands for the pmc counters; it is the clock, which  *)
(* never goes back.  The energy counter and runtime.QueueDelay are read    *)
(* and cached in the same way, between it and the delay.                   *)
(***************************************************************************)
EXTENDS NetDelay

CONSTANTS Callers,   \* the goroutines that call PerfInit and PerfDeInit
          MaxInit    \* bound on the number of initialisations

ASSUME PerfAssumption == MaxInit \in Nat /\ Readers = 1..MaxInit

VARIABLES perfStPtr,  \* perfStPtr: the current perfState, or 0 for nil
          st,         \* the perfStates
          refresher,  \* where the refresher of each perfState is
          got,        \* the counter a refresher has read
          caller,     \* where each caller is
          pmcUp       \* whether the pmc modules are initialised

perfVars == <<perfStPtr, st, refresher, got, caller, pmcUp>>
vars == <<delayVars, perfVars>>

States == 1..MaxInit
Running(i) == refresher[i] \notin {"none", "exited"}

Init ==
    /\ DelayInit
    /\ perfStPtr = 0
    /\ st = [i \in States |-> [totAccesses |-> 0, netStackDelay |-> 0, stop |-> FALSE,
                               done |-> FALSE]]
    /\ refresher = [i \in States |-> "none"] /\ got = [i \in States |-> 0]
    /\ caller = [c \in Callers |-> "out"]
    /\ pmcUp = FALSE

MuFree == \A c \in Callers : caller[c] = "out"
Unused == {i \in States : refresher[i] = "none"}
-----------------------------------------------------------------------------
(* PerfInit *)

\* It returns at once if there is a state, or initialises the C modules ...
PerfInit(c) ==
    /\ MuFree /\ perfStPtr = 0 /\ Unused # {}
    /\ caller' = [caller EXCEPT ![c] = "init"]
    /\ pmcUp' = TRUE
    /\ netdelay_init
    /\ UNCHANGED <<perfStPtr, st, refresher, got>>

\* ... and publishes a new state and starts its refresher.
PerfStart(c) ==
    /\ caller[c] = "init"
    /\ \E i \in Unused :
          /\ \A j \in Unused : i <= j
          /\ perfStPtr' = i
          /\ refresher' = [refresher EXCEPT ![i] = "spin"]
    /\ caller' = [caller EXCEPT ![c] = "out"]
    /\ UNCHANGED <<st, got, pmcUp, delayVars>>
-----------------------------------------------------------------------------
(* PerfDeInit *)

PerfStop(c) ==
    /\ MuFree /\ perfStPtr # 0
    /\ st' = [st EXCEPT ![perfStPtr].stop = TRUE]
    /\ caller' = [caller EXCEPT ![c] = "wait"]
    /\ UNCHANGED <<perfStPtr, refresher, got, pmcUp, delayVars>>

\* Mutant: the C modules are freed without waiting for the refresher.
PerfTearDownEarly(c) ==
    /\ caller[c] = "wait"
    /\ netdelay_deinit
    /\ pmcUp' = FALSE /\ perfStPtr' = 0
    /\ caller' = [caller EXCEPT ![c] = "out"]
    /\ UNCHANGED <<st, refresher, got>>

\* <-st.done, then the C modules go, then the pointer.
PerfTearDown(c) ==
    /\ caller[c] = "wait" /\ st[perfStPtr].done
    /\ netdelay_deinit
    /\ pmcUp' = FALSE /\ perfStPtr' = 0
    /\ caller' = [caller EXCEPT ![c] = "out"]
    /\ UNCHANGED <<st, refresher, got>>
-----------------------------------------------------------------------------
(* perfRefresher *)

Goto(i, place) == refresher' = [refresher EXCEPT ![i] = place]

\* The busy wait: it sees the stop flag, or the deadline has passed.
Spin(i) ==
    /\ refresher[i] = "spin"
    /\ \/ ~st[i].stop /\ Goto(i, "mem") /\ UNCHANGED st
       \/ st[i].stop /\ Goto(i, "exited") /\ st' = [st EXCEPT ![i].done = TRUE]
    /\ UNCHANGED <<perfStPtr, got, caller, pmcUp, delayVars>>

\* Mutant: the counter is read as the accesses since the last read.
ReadCounterDelta(i) ==
    /\ refresher[i] = "mem"
    /\ got' = [got EXCEPT ![i] = now - st[i].totAccesses]
    /\ Goto(i, "memStore")
    /\ UNCHANGED <<perfStPtr, st, caller, pmcUp, delayVars>>

ReadCounter(i) ==
    /\ refresher[i] = "mem"
    /\ got' = [got EXCEPT ![i] = now]
    /\ Goto(i, "memStore")
    /\ UNCHANGED <<perfStPtr, st, caller, pmcUp, delayVars>>

StoreCounter(i) ==
    /\ refresher[i] = "memStore"
    /\ st' = [st EXCEPT ![i].totAccesses = got[i]]
    /\ got' = [got EXCEPT ![i] = 0]
    /\ Goto(i, "net")
    /\ UNCHANGED <<perfStPtr, caller, pmcUp, delayVars>>

ReadDelay(i) ==
    /\ refresher[i] = "net"
    /\ ReadMax(i)
    /\ Goto(i, "netReset")
    /\ UNCHANGED <<perfStPtr, st, got, caller, pmcUp>>

\* Mutant: the goroutine goes on without looking at the stop flag again.
StoreDelayNoSpin(i) ==
    /\ refresher[i] = "netReset"
    /\ ResetMax(i)
    /\ st' = [st EXCEPT ![i].netStackDelay = Delay(reader[i])]
    /\ Goto(i, "mem")
    /\ UNCHANGED <<perfStPtr, got, caller, pmcUp>>

\* The C function resets the maximum and returns; the result is cached.
StoreDelay(i) ==
    /\ refresher[i] = "netReset"
    /\ ResetMax(i)
    /\ st' = [st EXCEPT ![i].netStackDelay = Delay(reader[i])]
    /\ Goto(i, "spin")
    /\ UNCHANGED <<perfStPtr, got, caller, pmcUp>>

perfRefresher(i) ==
    \/ Spin(i) \/ ReadCounter(i) \/ StoreCounter(i)
    \/ ReadDelay(i) \/ StoreDelay(i)
-----------------------------------------------------------------------------
Next ==
    \/ Kernel /\ UNCHANGED perfVars
    \/ \E c \in Callers : PerfInit(c) \/ PerfStart(c) \/ PerfStop(c) \/ PerfTearDown(c)
    \/ \E i \in States : perfRefresher(i)

Spec == Init /\ [][Next]_vars

\* The refresher is a goroutine on a thread of its own, and a caller inside
\* PerfInit or PerfDeInit goes on when it can.
FairSpec ==
    /\ Spec
    /\ \A i \in States : WF_vars(perfRefresher(i))
    /\ \A c \in Callers : WF_vars(PerfStart(c) \/ PerfTearDown(c))
-----------------------------------------------------------------------------
(* Properties *)

\* A refresher never reads a C module that PerfDeInit has freed, whenever the
\* callers stop and start the package.
NoReadAfterTearDown == \A i \in States : Running(i) => pmcUp /\ perfStPtr = i

\* The cached counter of a state never goes back, so the unsigned differences
\* that the controllers and the semaphores take of it do not wrap.
CounterNeverGoesBack ==
    [][\A i \in States : st'[i].totAccesses >= st[i].totAccesses]_vars

\* PerfDeInit, which waits for the refresher with perfMu held, returns.
DeInitReturns == \A c \in Callers : caller[c] = "wait" ~> caller[c] = "out"
=============================================================================

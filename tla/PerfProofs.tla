----------------------------- MODULE PerfProofs -----------------------------
(***************************************************************************)
(* The life of the perf package, for any number of callers, of             *)
(* initialisations and of sockets.                                         *)
(*                                                                         *)
(* NoReadAfterTearDown is not inductive: that the counters are there while *)
(* a refresher runs does not say that PerfDeInit, which frees them, has    *)
(* waited for it.  LifeInv adds that one caller at a time is inside, what  *)
(* that caller has done so far, and that a refresher that has closed its   *)
(* done channel has left.  CounterInv orders what a refresher has read     *)
(* and what it has cached.                                                 *)
(*                                                                         *)
(* StampOfUnread and NoTimeChargedTwice relate a socket's stamp, what it   *)
(* holds unread and what has been measured.  UnreadInv and ChargeInv say   *)
(* where the stamp stands relative to the arrivals and to the end of the   *)
(* last measured wait, also while the refresher is inside NetDelayReset.   *)
(***************************************************************************)
EXTENDS Perf, TLAPS

Places == {"none", "spin", "mem", "memStore", "net", "netReset", "exited"}

\* The functions are functions, and the clock and the cached counters numbers.
Shape ==
    /\ DOMAIN st = States
    /\ \A i \in States : DOMAIN st[i] = {"totAccesses", "netStackDelay", "stop", "done"}
    /\ refresher \in [States -> Places]
    /\ got \in [States -> Nat]
    /\ caller \in [Callers -> {"out", "init", "wait"}]
    /\ now \in Nat /\ \A i \in States : st[i].totAccesses \in Nat

\* perfMu, and what the caller that holds it has done.
LifeInv ==
    /\ \A c, d \in Callers : caller[c] # "out" /\ caller[d] # "out" => c = d
    /\ \A c \in Callers : caller[c] = "init" => pmcUp /\ perfStPtr = 0
    /\ \A c \in Callers : caller[c] = "wait" => perfStPtr \in States
    /\ perfStPtr # 0 => perfStPtr \in States
    /\ \A i \in States : st[i].done => refresher[i] = "exited"
    /\ NoReadAfterTearDown

\* The counter that was read is no less than the one cached before, and neither
\* is ahead of the clock.
CounterInv ==
    \A i \in States :
        /\ st[i].totAccesses <= now /\ got[i] <= now
        /\ refresher[i] = "memStore" => st[i].totAccesses <= got[i]

\* The three hold when the program starts.
LEMMA PerfInvInit == Init => Shape /\ LifeInv /\ CounterInv
<1> SUFFICES ASSUME Init PROVE Shape /\ LifeInv /\ CounterInv
    OBVIOUS
<1>1. Shape
    BY DEF Init, DelayInit, Shape, Places
<1>2. LifeInv
    BY DEF Init, LifeInv, NoReadAfterTearDown, Running
<1>3. CounterInv
    BY DEF Init, DelayInit, CounterInv
<1> QED
    BY <1>1, <1>2, <1>3

\* The C modules' own steps keep the clock going forward.
LEMMA ClockForward ==
    ASSUME Shape, [Next]_vars PROVE now' \in Nat /\ now' >= now
<1> USE DEF Shape
<1>1. CASE Kernel
    BY <1>1 DEF Kernel, Tick, Arrive, ExitLookup, ExitCompare, ExitStore, ExitDelete, Copy
<1>2. ASSUME NEW c \in Callers, PerfInit(c) \/ PerfStart(c) \/ PerfStop(c) \/ PerfTearDown(c)
      PROVE  now' = now
    BY <1>2 DEF PerfInit, PerfStart, PerfStop, PerfTearDown, netdelay_init, netdelay_deinit,
                FreshMaps, delayVars
<1>3. ASSUME NEW i \in States, perfRefresher(i) PROVE now' = now
    BY <1>3 DEF perfRefresher, Spin, ReadCounter, StoreCounter, ReadDelay, StoreDelay,
                ReadMax, ResetMax, delayVars
<1>4. CASE UNCHANGED vars
    BY <1>4 DEF vars, delayVars
<1> QED
    BY <1>1, <1>2, <1>3, <1>4 DEF Next

\* Every step keeps the three, and no cached counter goes back in it.
LEMMA PerfInvStep ==
    ASSUME Shape, LifeInv, CounterInv, [Next]_vars
    PROVE  /\ Shape' /\ LifeInv' /\ CounterInv'
           /\ \A i \in States : st'[i].totAccesses >= st[i].totAccesses
<1> DEFINE Goal == /\ Shape' /\ LifeInv' /\ CounterInv'
                   /\ \A i \in States : st'[i].totAccesses >= st[i].totAccesses
<1> SUFFICES Goal
    OBVIOUS
<1>0. now' \in Nat /\ now' >= now
    BY ClockForward
<1>1. ASSUME UNCHANGED perfVars PROVE Goal
    <2>1. UNCHANGED <<perfStPtr, st, refresher, got, caller, pmcUp>>
        BY <1>1 DEF perfVars
    <2>2. Shape' /\ LifeInv'
        BY <1>0, <2>1 DEF Shape, LifeInv, NoReadAfterTearDown, Running
    <2> QED
        BY <1>0, <2>1, <2>2 DEF Shape, CounterInv
<1>2. ASSUME NEW c \in Callers, PerfInit(c) PROVE Goal
    <2>1. UNCHANGED <<perfStPtr, st, refresher, got>> /\ pmcUp' /\ perfStPtr = 0
            /\ caller' = [caller EXCEPT ![c] = "init"]
            /\ \A d \in Callers : caller[d] = "out"
        BY <1>2 DEF PerfInit, MuFree
    <2>2. Shape' /\ LifeInv'
        BY <1>0, <2>1 DEF Shape, LifeInv, NoReadAfterTearDown, Running
    <2> QED
        BY <1>0, <2>1, <2>2 DEF Shape, CounterInv
<1>3. ASSUME NEW c \in Callers, PerfStart(c) PROVE Goal
    <2>1. PICK i \in Unused : perfStPtr' = i /\ refresher' = [refresher EXCEPT ![i] = "spin"]
        BY <1>3 DEF PerfStart
    <2>2. UNCHANGED <<st, got, pmcUp, now>> /\ caller[c] = "init"
            /\ caller' = [caller EXCEPT ![c] = "out"]
        BY <1>3 DEF PerfStart, delayVars
    <2>3. i \in States /\ refresher[i] = "none"
        BY DEF Unused
    <2>4. i # 0
        BY <2>3, PerfAssumption DEF States
    <2>5. \A j \in States : ~Running(j)
        BY <2>2, PerfAssumption DEF LifeInv, NoReadAfterTearDown, States
    <2>6. Shape'
        BY <2>1, <2>2, <2>3 DEF Shape, Places
    <2>7. \A d \in Callers : caller'[d] = "out"
        BY <2>2 DEF Shape, LifeInv
    <2>8. NoReadAfterTearDown'
        BY <2>1, <2>2, <2>3, <2>5 DEF Shape, LifeInv, NoReadAfterTearDown, Running
    <2>9. \A j \in States : st'[j].done => refresher'[j] = "exited"
        BY <2>1, <2>2, <2>3 DEF Shape, LifeInv
    <2>10. LifeInv'
        BY <2>1, <2>3, <2>7, <2>8, <2>9 DEF LifeInv
    <2> QED
        BY <2>1, <2>2, <2>3, <2>6, <2>10 DEF Shape, CounterInv
<1>4. ASSUME NEW c \in Callers, PerfStop(c) PROVE Goal
    <2>1. perfStPtr \in States /\ \A d \in Callers : caller[d] = "out"
        BY <1>4 DEF PerfStop, MuFree, LifeInv
    <2>2. UNCHANGED <<perfStPtr, refresher, got, pmcUp, now>>
            /\ caller' = [caller EXCEPT ![c] = "wait"]
        BY <1>4 DEF PerfStop, delayVars
    <2>3. \A i \in States : /\ DOMAIN st'[i] = DOMAIN st[i]
                            /\ st'[i].totAccesses = st[i].totAccesses
                            /\ st'[i].done = st[i].done
        BY <1>4, <2>1 DEF PerfStop, Shape
    <2>4. Shape'
        BY <1>4, <2>2, <2>3 DEF PerfStop, Shape
    <2>5. LifeInv'
        BY <2>1, <2>2, <2>3 DEF Shape, LifeInv, NoReadAfterTearDown, Running
    <2> QED
        BY <2>2, <2>3, <2>4, <2>5 DEF Shape, CounterInv
<1>5. ASSUME NEW c \in Callers, PerfTearDown(c) PROVE Goal
    <2>1. UNCHANGED <<st, refresher, got>> /\ ~pmcUp' /\ perfStPtr' = 0
            /\ caller' = [caller EXCEPT ![c] = "out"] /\ caller[c] = "wait"
            /\ st[perfStPtr].done
        BY <1>5 DEF PerfTearDown
    <2>2. \A i \in States : ~Running(i)
        BY <2>1 DEF LifeInv, NoReadAfterTearDown, Running
    <2>3. \A d \in Callers : caller'[d] = "out"
        BY <2>1 DEF Shape, LifeInv
    <2>4. Shape' /\ LifeInv'
        BY <1>0, <2>1, <2>2, <2>3 DEF Shape, LifeInv, NoReadAfterTearDown, Running
    <2> QED
        BY <1>0, <2>1, <2>4 DEF Shape, CounterInv
<1>6. ASSUME NEW i \in States, Spin(i) PROVE Goal
    <2>1. UNCHANGED <<perfStPtr, got, caller, pmcUp, now>> /\ refresher[i] = "spin"
        BY <1>6 DEF Spin, delayVars
    <2>2. PICK place \in {"mem", "exited"} : refresher' = [refresher EXCEPT ![i] = place]
        BY <1>6 DEF Spin, Goto
    <2>3. \A j \in States : /\ DOMAIN st'[j] = DOMAIN st[j]
                            /\ st'[j].totAccesses = st[j].totAccesses
                            /\ st'[j].done => (st[j].done \/ (j = i /\ refresher'[i] = "exited"))
        <3>1. CASE st' = st
            BY <3>1
        <3>2. CASE st' = [st EXCEPT ![i].done = TRUE] /\ Goto(i, "exited")
            BY <3>2 DEF Goto, Shape
        <3> QED
            BY <1>6, <3>1, <3>2 DEF Spin
    <2>4. DOMAIN st' = States
        BY <1>6 DEF Spin, Shape
    <2>5. Shape'
        BY <2>1, <2>2, <2>3, <2>4 DEF Shape, Places
    <2>6. NoReadAfterTearDown'
        BY <2>1, <2>2 DEF Shape, LifeInv, NoReadAfterTearDown, Running
    <2>7. \A j \in States : st'[j].done => refresher'[j] = "exited"
        BY <2>1, <2>2, <2>3 DEF Shape, LifeInv
    <2>8. LifeInv'
        BY <2>1, <2>6, <2>7 DEF LifeInv
    <2> QED
        BY <2>1, <2>2, <2>3, <2>5, <2>8 DEF Shape, CounterInv
<1>7. ASSUME NEW i \in States, ReadCounter(i) PROVE Goal
    <2>1. UNCHANGED <<perfStPtr, st, caller, pmcUp, now>> /\ refresher[i] = "mem"
            /\ got' = [got EXCEPT ![i] = now]
            /\ refresher' = [refresher EXCEPT ![i] = "memStore"]
        BY <1>7 DEF ReadCounter, Goto, delayVars
    <2>2. Shape' /\ LifeInv'
        BY <2>1 DEF Shape, Places, LifeInv, NoReadAfterTearDown, Running
    <2> QED
        BY <2>1, <2>2 DEF Shape, CounterInv
<1>8. ASSUME NEW i \in States, StoreCounter(i) PROVE Goal
    <2>1. UNCHANGED <<perfStPtr, caller, pmcUp, now>> /\ refresher[i] = "memStore"
            /\ got' = [got EXCEPT ![i] = 0]
            /\ refresher' = [refresher EXCEPT ![i] = "net"]
        BY <1>8 DEF StoreCounter, Goto, delayVars
    <2>2. \A j \in States :
              /\ DOMAIN st'[j] = DOMAIN st[j]
              /\ st'[j].totAccesses = IF j = i THEN got[i] ELSE st[j].totAccesses
              /\ st'[j].done = st[j].done
        BY <1>8 DEF StoreCounter, Shape
    <2>3. DOMAIN st' = States
        BY <1>8 DEF StoreCounter, Shape
    <2>4. Shape'
        BY <2>1, <2>2, <2>3 DEF Shape, Places
    <2>5. LifeInv'
        BY <2>1, <2>2 DEF Shape, LifeInv, NoReadAfterTearDown, Running
    <2> QED
        BY <2>1, <2>2, <2>4, <2>5 DEF Shape, CounterInv
<1>9. ASSUME NEW i \in States, ReadDelay(i) \/ StoreDelay(i) PROVE Goal
    <2>1. UNCHANGED <<perfStPtr, got, caller, pmcUp, now>>
            /\ refresher[i] \in {"net", "netReset"}
        BY <1>9 DEF ReadDelay, StoreDelay, ReadMax, ResetMax
    <2>2. PICK place \in {"netReset", "spin"} : refresher' = [refresher EXCEPT ![i] = place]
        BY <1>9 DEF ReadDelay, StoreDelay, Goto
    <2>3. \A j \in States : /\ DOMAIN st'[j] = DOMAIN st[j]
                            /\ st'[j].totAccesses = st[j].totAccesses
                            /\ st'[j].done = st[j].done
        BY <1>9 DEF ReadDelay, StoreDelay, Shape
    <2>4. DOMAIN st' = States
        BY <1>9 DEF ReadDelay, StoreDelay, Shape
    <2>5. Shape'
        BY <2>1, <2>2, <2>3, <2>4 DEF Shape, Places
    <2>6. LifeInv'
        BY <2>1, <2>2, <2>3 DEF Shape, LifeInv, NoReadAfterTearDown, Running
    <2> QED
        BY <2>1, <2>2, <2>3, <2>5, <2>6 DEF Shape, CounterInv
<1>10. CASE UNCHANGED vars
    BY <1>1, <1>10 DEF vars
<1> HIDE DEF Goal
<1> QED
    BY <1>1, <1>2, <1>3, <1>4, <1>5, <1>6, <1>7, <1>8, <1>9, <1>10 DEF Next, perfRefresher

\* A refresher that runs finds the C modules initialised, for any number of
\* callers that start and stop the package.
THEOREM NoUseAfterFree == Spec => []NoReadAfterTearDown
<1>1. Shape /\ LifeInv /\ CounterInv /\ [Next]_vars => (Shape /\ LifeInv /\ CounterInv)'
    BY PerfInvStep
<1>2. LifeInv => NoReadAfterTearDown
    BY DEF LifeInv
<1> QED
    BY <1>1, <1>2, PerfInvInit, PTL DEF Spec

\* The cached counter of a perfState never goes back.
THEOREM CountersAdvance == Spec => CounterNeverGoesBack
<1>1. Shape /\ LifeInv /\ CounterInv /\ [Next]_vars => (Shape /\ LifeInv /\ CounterInv)'
    BY PerfInvStep
<1>2. Shape /\ LifeInv /\ CounterInv /\ [Next]_vars
        => [\A i \in States : st'[i].totAccesses >= st[i].totAccesses]_vars
    BY PerfInvStep
<1> QED
    BY <1>1, <1>2, PerfInvInit, PTL DEF Spec, CounterNeverGoesBack

-----------------------------------------------------------------------------
(* The delays.  Samples of a socket follow one another: the exit probe takes *)
(* one from a stamp and deletes the stamp before the next look-up, so that a *)
(* newer stamp is no older than the end of the sample.  ChargeInv says so of *)
(* the samples that were reported, the one in delay_map and the one a probe  *)
(* is about to store there.  That a sample is reported once needs the        *)
(* refreshers: the only one that runs has reset delay_map since it last read *)
(* it.                                                                       *)

Recvs == {"out", "compare", "store", "delete", "copy"}
Measured == [sock : Socks, from : Nat \ {0}, to : Nat]

DelayShape ==
    /\ stamp \in [Socks -> Nat] /\ recv \in [Socks -> Recvs]
    /\ sample \in [Socks -> Measured \cup {NoSample}]
    /\ maxDelay \in Measured \cup {NoSample} /\ reported \subseteq Measured
    /\ DOMAIN reader = Readers

\* What the program was given of a socket, or is given at its next read.
Charged(s) == {y \in reported \cup {maxDelay} : y # NoSample /\ y.sock = s}

\* A socket's next sample begins after those that were charged.
SocketInv(s) ==
    /\ stamp[s] # 0 /\ recv[s] \in {"out", "copy"} => \A y \in Charged(s) : y.to <= stamp[s]
    /\ recv[s] \in {"compare", "store"} =>
          /\ sample[s] # NoSample /\ sample[s].sock = s /\ sample[s].to <= now
          /\ \A y \in Charged(s) : y.to <= sample[s].from
    /\ \A y \in Charged(s) : y.to <= now

\* netdelay_read_and_reset has reset what it reported, unless it is at work.
ReportedOnce ==
    (\A i \in States : refresher[i] # "netReset") =>
        \A y \in reported :
            maxDelay # NoSample /\ y.sock = maxDelay.sock => y.to <= maxDelay.from

\* Without the probes there is nothing to report.
ProbesInv ==
    ~initialized => /\ "exit" \notin probes /\ maxDelay = NoSample
                    /\ \A s \in Socks : recv[s] \in {"out", "copy"}

ChargeInv == ProbesInv /\ ReportedOnce /\ \A s \in Socks : SocketInv(s)

\* The stamps of data that was queued while it was read.
UnreadInv ==
    "exit" \in probes =>
        \A s \in Socks : stamp[s] # 0 =>
            /\ recv[s] = "out" => s \in unread \cup raced
            /\ recv[s] = "copy" => s \in raced

\* The three hold when the program starts.
LEMMA DelayInvInit == Init => DelayShape /\ ChargeInv /\ UnreadInv
<1> SUFFICES ASSUME Init PROVE DelayShape /\ ChargeInv /\ UnreadInv
    OBVIOUS
<1>1. DelayInit
    BY DEF Init
<1>2. DelayShape
    BY <1>1 DEF DelayInit, DelayShape, Recvs
<1>3. \A s \in Socks : Charged(s) = {}
    BY <1>1 DEF DelayInit, Charged
<1>4. \A s \in Socks : SocketInv(s)
    BY <1>1, <1>3 DEF DelayInit, SocketInv
<1>5. ProbesInv /\ ReportedOnce
    BY <1>1 DEF DelayInit, ProbesInv, ReportedOnce
<1>6. UnreadInv
    BY <1>1 DEF DelayInit, UnreadInv
<1> QED
    BY <1>2, <1>4, <1>5, <1>6 DEF ChargeInv

\* A socket that a step leaves alone, whatever else it does with the samples.
LEMMA SocketKept ==
    ASSUME NEW s \in Socks, DelayShape, now \in Nat, now' \in Nat, now' >= now, SocketInv(s),
           stamp'[s] = stamp[s], recv'[s] = recv[s], sample'[s] = sample[s],
           \A y \in Charged(s)' : y \in Charged(s)
    PROVE  SocketInv(s)'
<1>1. \A y \in Charged(s) : y \in Measured /\ y.to \in Nat
    BY DEF Charged, DelayShape, Measured
<1>2. \A y \in Charged(s) : y.to <= now
    BY DEF SocketInv
<1>3. \A y \in Charged(s)' : y.to <= now'
    BY <1>1, <1>2
<1>4. recv[s] \in {"compare", "store"} => sample[s].to <= now'
    <2>1. sample[s] # NoSample => sample[s].to \in Nat
        BY DEF DelayShape, Measured
    <2> QED
        BY <2>1 DEF SocketInv
<1> QED
    BY <1>3, <1>4 DEF SocketInv

\* What was charged comes from the reports and delay_map.
LEMMA ChargedKept ==
    ASSUME maxDelay' = maxDelay \/ maxDelay' = NoSample,
           \A y \in reported' : y \in reported \/ y = maxDelay
    PROVE  \A s : \A y \in Charged(s)' : y \in Charged(s)
BY DEF Charged

\* The kernel's steps.
LEMMA KernelStep ==
    ASSUME Shape, DelayShape, ChargeInv, UnreadInv, Kernel, refresher' = refresher,
           now' \in Nat, now' >= now
    PROVE  DelayShape' /\ ChargeInv' /\ UnreadInv' /\ reader' = reader
<1>0. now \in Nat
    BY DEF Shape
<1>1. CASE Tick
    <2>1. UNCHANGED <<unread, stamp, maxDelay, probes, initialized, recv, sample, reader, raced,
                      reported>>
        BY <1>1 DEF Tick
    <2>2. \A s \in Socks : SocketInv(s)'
        BY <1>0, <2>1, SocketKept, ChargedKept DEF ChargeInv
    <2> QED
        BY <2>1, <2>2 DEF DelayShape, ChargeInv, ProbesInv, ReportedOnce, UnreadInv
<1>2. ASSUME NEW t \in Socks, Arrive(t) PROVE DelayShape' /\ ChargeInv' /\ UnreadInv' /\ reader' = reader
    <2>1. UNCHANGED <<now, maxDelay, probes, initialized, recv, sample, reader, reported>>
        BY <1>2 DEF Arrive
    <2>2. CASE stamp' = stamp
        <3>1. \A s \in Socks : SocketInv(s)'
            BY <1>0, <2>1, <2>2, SocketKept, ChargedKept DEF ChargeInv
        <3>2. UNCHANGED <<unread, raced>>
            BY <1>2, <2>2 DEF Arrive
        <3> QED
            BY <2>1, <2>2, <3>1, <3>2 DEF DelayShape, ChargeInv, ProbesInv, ReportedOnce, UnreadInv
    <2>3. CASE stamp' # stamp
        <3>1. stamp[t] = 0 /\ stamp' = [stamp EXCEPT ![t] = now]
            BY <1>2, <2>3 DEF Arrive, EntryProbe
        <3>2. /\ unread' = unread \cup {t}
              /\ raced' = IF recv[t] = "out" THEN raced \ {t} ELSE raced \cup {t}
            BY <1>2, <2>3 DEF Arrive
        <3>3. stamp'[t] = now /\ \A s \in Socks \ {t} : stamp'[s] = stamp[s]
            BY <3>1 DEF DelayShape
        <3>4. ASSUME NEW s \in Socks PROVE SocketInv(s)'
            <4>1. CASE s = t
                <5>1. Charged(t)' = Charged(t)
                    BY <2>1 DEF Charged
                <5>2. SocketInv(t)
                    BY DEF ChargeInv
                <5> QED
                    BY <2>1, <3>3, <4>1, <5>1, <5>2 DEF SocketInv
            <4>2. CASE s # t
                BY <1>0, <2>1, <3>3, <4>2, SocketKept, ChargedKept DEF ChargeInv
            <4> QED
                BY <4>1, <4>2
        <3>5. UnreadInv'
            BY <2>1, <3>2, <3>3 DEF UnreadInv
        <3>6. DelayShape'
            BY <1>0, <2>1, <3>1 DEF DelayShape
        <3> QED
            BY <2>1, <3>4, <3>5, <3>6 DEF ChargeInv, ProbesInv, ReportedOnce
    <2> QED
        BY <2>2, <2>3
<1>3. ASSUME NEW t \in Socks, ExitLookup(t)
      PROVE  DelayShape' /\ ChargeInv' /\ UnreadInv' /\ reader' = reader
    <2>1. UNCHANGED <<now, unread, stamp, maxDelay, probes, initialized, reader, raced, reported>>
          /\ recv[t] = "out"
        BY <1>3 DEF ExitLookup
    <2>2. \/ /\ "exit" \in probes /\ stamp[t] # 0
             /\ sample' = [sample EXCEPT ![t] = [sock |-> t, from |-> stamp[t], to |-> now]]
             /\ recv' = [recv EXCEPT ![t] = "compare"]
          \/ "exit" \in probes /\ recv' = [recv EXCEPT ![t] = "delete"] /\ sample' = sample
          \/ "exit" \notin probes /\ recv' = [recv EXCEPT ![t] = "copy"] /\ sample' = sample
        BY <1>3 DEF ExitLookup
    <2>3. \A s \in Socks \ {t} : recv'[s] = recv[s] /\ sample'[s] = sample[s]
        BY <2>2 DEF DelayShape
    <2>4. DelayShape'
        <3>1. stamp[t] # 0 => [sock |-> t, from |-> stamp[t], to |-> now] \in Measured
            BY <1>0 DEF DelayShape, Measured
        <3>2. sample' \in [Socks -> Measured \cup {NoSample}]
            BY <2>2, <3>1 DEF DelayShape
        <3>3. recv' \in [Socks -> Recvs]
            BY <2>2 DEF DelayShape, Recvs
        <3> QED
            BY <2>1, <3>2, <3>3 DEF DelayShape
    <2>5. SocketInv(t)'
        <3>1. Charged(t)' = Charged(t) /\ SocketInv(t)
            BY <2>1 DEF Charged, ChargeInv
        <3>2. CASE /\ "exit" \in probes /\ stamp[t] # 0
                   /\ sample' = [sample EXCEPT ![t] = [sock |-> t, from |-> stamp[t], to |-> now]]
                   /\ recv' = [recv EXCEPT ![t] = "compare"]
            <4>1. recv'[t] = "compare" /\ sample'[t] = [sock |-> t, from |-> stamp[t], to |-> now]
                BY <3>2 DEF DelayShape
            <4>2. /\ sample'[t].sock = t /\ sample'[t].from = stamp[t] /\ sample'[t].to = now
                  /\ sample'[t] # NoSample
                BY <3>2, <4>1 DEF NoSample
            <4>3. \A y \in Charged(t) : y.to <= stamp[t] /\ y.to <= now
                BY <2>1, <3>1, <3>2 DEF SocketInv
            <4> QED
                BY <1>0, <2>1, <3>1, <4>1, <4>2, <4>3 DEF SocketInv
        <3>3. CASE recv' = [recv EXCEPT ![t] = "delete"] \/ recv' = [recv EXCEPT ![t] = "copy"]
            <4>1. recv'[t] \in {"delete", "copy"}
                BY <3>3 DEF DelayShape
            <4> QED
                BY <2>1, <3>1, <4>1 DEF SocketInv
        <3> QED
            BY <2>2, <3>2, <3>3
    <2>6. ASSUME NEW s \in Socks PROVE SocketInv(s)'
        <3>1. CASE s # t
            BY <1>0, <2>1, <2>3, <3>1, SocketKept, ChargedKept DEF ChargeInv
        <3> QED
            BY <2>5, <3>1
    <2>7. ProbesInv'
        BY <2>1, <2>2, <2>3 DEF ChargeInv, ProbesInv, DelayShape
    <2>8. UnreadInv'
        <3>1. "exit" \in probes => recv'[t] \notin {"out", "copy"}
            BY <2>2 DEF DelayShape
        <3> QED
            BY <2>1, <2>3, <3>1 DEF UnreadInv
    <2> QED
        BY <2>1, <2>4, <2>6, <2>7, <2>8 DEF ChargeInv, ReportedOnce
<1>4. ASSUME NEW t \in Socks, ExitCompare(t)
      PROVE  DelayShape' /\ ChargeInv' /\ UnreadInv' /\ reader' = reader
    <2>1. UNCHANGED <<now, unread, stamp, maxDelay, probes, initialized, sample, reader, raced,
                      reported>> /\ recv[t] = "compare"
        BY <1>4 DEF ExitCompare
    <2>2. PICK p \in {"delete", "store"} : recv' = [recv EXCEPT ![t] = p]
        BY <1>4, Zenon DEF ExitCompare
    <2>3. recv'[t] \in {"delete", "store"} /\ \A s \in Socks \ {t} : recv'[s] = recv[s]
        BY <2>2 DEF DelayShape
    <2>4. DelayShape'
        BY <2>1, <2>2 DEF DelayShape, Recvs
    <2>5. SocketInv(t)'
        <3>1. Charged(t)' = Charged(t) /\ SocketInv(t)
            BY <2>1 DEF Charged, ChargeInv
        <3> QED
            BY <2>1, <2>3, <3>1 DEF SocketInv
    <2>6. ASSUME NEW s \in Socks PROVE SocketInv(s)'
        <3>1. CASE s # t
            BY <1>0, <2>1, <2>3, <3>1, SocketKept, ChargedKept DEF ChargeInv
        <3> QED
            BY <2>5, <3>1
    <2>7. ProbesInv'
        BY <2>1 DEF ChargeInv, ProbesInv
    <2>8. UnreadInv'
        BY <2>1, <2>3 DEF UnreadInv
    <2> QED
        BY <2>1, <2>4, <2>6, <2>7, <2>8 DEF ChargeInv, ReportedOnce
<1>5. ASSUME NEW t \in Socks, ExitStore(t)
      PROVE  DelayShape' /\ ChargeInv' /\ UnreadInv' /\ reader' = reader
    <2>1. UNCHANGED <<now, unread, stamp, probes, initialized, sample, reader, raced, reported>>
          /\ recv[t] = "store" /\ maxDelay' = sample[t] /\ recv' = [recv EXCEPT ![t] = "delete"]
        BY <1>5 DEF ExitStore
    <2>2. recv'[t] = "delete" /\ \A s \in Socks \ {t} : recv'[s] = recv[s]
        BY <2>1 DEF DelayShape
    <2>3. SocketInv(t) /\ sample[t] \in Measured /\ sample[t].sock = t /\ sample[t].to <= now
        BY <2>1 DEF ChargeInv, SocketInv, DelayShape
    <2>4. DelayShape'
        BY <2>1, <2>3 DEF DelayShape, Recvs
    <2>5. SocketInv(t)'
        <3>1. \A y \in Charged(t)' : y \in Charged(t) \/ y = sample[t]
            BY <2>1 DEF Charged
        <3>2. \A y \in Charged(t)' : y.to <= now
            BY <2>3, <3>1 DEF SocketInv
        <3> QED
            BY <2>1, <2>2, <3>2 DEF SocketInv
    <2>6. ASSUME NEW s \in Socks PROVE SocketInv(s)'
        <3>1. CASE s # t
            <4>1. \A y \in Charged(s)' : y \in Charged(s)
                BY <2>1, <2>3, <3>1 DEF Charged
            <4> QED
                BY <1>0, <2>1, <2>2, <3>1, <4>1, SocketKept DEF ChargeInv
        <3> QED
            BY <2>5, <3>1
    <2>7. ProbesInv'
        BY <2>1 DEF ChargeInv, ProbesInv
    <2>8. ReportedOnce'
        <3>1. \A y \in reported : y.sock = t => y \in Charged(t)
            <4>1. \A y \in reported : y # NoSample
                BY DEF DelayShape, Measured, NoSample
            <4> QED
                BY <4>1 DEF Charged
        <3>2. \A y \in reported : y.sock = t => y.to <= sample[t].from
            BY <2>1, <2>3, <3>1 DEF SocketInv
        <3> QED
            BY <2>1, <2>3, <3>2 DEF ReportedOnce
    <2>9. UnreadInv'
        BY <2>1, <2>2 DEF UnreadInv
    <2> QED
        BY <2>1, <2>4, <2>6, <2>7, <2>8, <2>9 DEF ChargeInv
<1>6. ASSUME NEW t \in Socks, ExitDelete(t)
      PROVE  DelayShape' /\ ChargeInv' /\ UnreadInv' /\ reader' = reader
    <2>1. /\ UNCHANGED <<now, maxDelay, probes, initialized, reader, reported>>
          /\ recv[t] = "delete" /\ recv' = [recv EXCEPT ![t] = "copy"]
          /\ stamp' = [stamp EXCEPT ![t] = 0] /\ sample' = [sample EXCEPT ![t] = NoSample]
          /\ unread' = unread \ {t} /\ raced' = raced \ {t}
        BY <1>6 DEF ExitDelete
    <2>2. /\ recv'[t] = "copy" /\ stamp'[t] = 0
          /\ \A s \in Socks \ {t} : recv'[s] = recv[s] /\ stamp'[s] = stamp[s]
                                    /\ sample'[s] = sample[s]
        BY <2>1 DEF DelayShape
    <2>3. DelayShape'
        BY <2>1 DEF DelayShape, Recvs
    <2>4. SocketInv(t)'
        <3>1. Charged(t)' = Charged(t) /\ SocketInv(t)
            BY <2>1 DEF Charged, ChargeInv
        <3> QED
            BY <2>1, <2>2, <3>1 DEF SocketInv
    <2>5. ASSUME NEW s \in Socks PROVE SocketInv(s)'
        <3>1. CASE s # t
            BY <1>0, <2>1, <2>2, <3>1, SocketKept, ChargedKept DEF ChargeInv
        <3> QED
            BY <2>4, <3>1
    <2>6. ProbesInv'
        BY <2>1 DEF ChargeInv, ProbesInv
    <2>7. UnreadInv'
        BY <2>1, <2>2 DEF UnreadInv
    <2> QED
        BY <2>1, <2>3, <2>5, <2>6, <2>7 DEF ChargeInv, ReportedOnce
<1>7. ASSUME NEW t \in Socks, Copy(t)
      PROVE  DelayShape' /\ ChargeInv' /\ UnreadInv' /\ reader' = reader
    <2>1. /\ UNCHANGED <<now, stamp, maxDelay, probes, initialized, sample, reader, raced, reported>>
          /\ recv[t] = "copy" /\ recv' = [recv EXCEPT ![t] = "out"]
          /\ unread' \in {unread, unread \ {t}}
        BY <1>7 DEF Copy
    <2>2. recv'[t] = "out" /\ \A s \in Socks \ {t} : recv'[s] = recv[s]
        BY <2>1 DEF DelayShape
    <2>3. DelayShape'
        BY <2>1 DEF DelayShape, Recvs
    <2>4. SocketInv(t)'
        <3>1. Charged(t)' = Charged(t) /\ SocketInv(t)
            BY <2>1 DEF Charged, ChargeInv
        <3> QED
            BY <2>1, <2>2, <3>1 DEF SocketInv
    <2>5. ASSUME NEW s \in Socks PROVE SocketInv(s)'
        <3>1. CASE s # t
            BY <1>0, <2>1, <2>2, <3>1, SocketKept, ChargedKept DEF ChargeInv
        <3> QED
            BY <2>4, <3>1
    <2>6. ProbesInv'
        BY <2>1, <2>2 DEF ChargeInv, ProbesInv
    <2>7. UnreadInv'
        BY <2>1, <2>2 DEF UnreadInv
    <2> QED
        BY <2>1, <2>3, <2>5, <2>6, <2>7 DEF ChargeInv, ReportedOnce
<1> QED
    BY <1>1, <1>2, <1>3, <1>4, <1>5, <1>6, <1>7 DEF Kernel

\* netdelay_init and netdelay_deinit.
LEMMA ModuleStep ==
    ASSUME Shape, DelayShape, ChargeInv, UnreadInv, netdelay_init \/ netdelay_deinit,
           refresher' = refresher
    PROVE  DelayShape' /\ ChargeInv' /\ UnreadInv' /\ reader' = reader
<1>1. CASE UNCHANGED delayVars
    <2>1. UNCHANGED <<now, unread, stamp, maxDelay, probes, initialized, recv, sample, reader,
                      raced, reported>>
        BY <1>1 DEF delayVars
    <2>2. \A s \in Socks : Charged(s)' = Charged(s)
        BY <2>1 DEF Charged
    <2>3. \A s \in Socks : SocketInv(s)'
        BY <2>1, <2>2 DEF ChargeInv, SocketInv
    <2> QED
        BY <2>1, <2>3 DEF DelayShape, ChargeInv, ProbesInv, ReportedOnce, UnreadInv
<1>2. CASE FreshMaps /\ (~initialized' => "exit" \notin probes')
    <2>1. /\ stamp' = [s \in Socks |-> 0] /\ maxDelay' = NoSample
          /\ recv' = [s \in Socks |-> IF recv[s] = "out" THEN "out" ELSE "copy"]
          /\ sample' = [s \in Socks |-> NoSample]
          /\ UNCHANGED <<now, reader, reported>>
        BY <1>2 DEF FreshMaps
    <2>2. \A s \in Socks : stamp'[s] = 0 /\ recv'[s] \in {"out", "copy"}
        BY <2>1
    <2>3. DelayShape'
        BY <2>1 DEF DelayShape, Recvs
    <2>4. ASSUME NEW s \in Socks PROVE SocketInv(s)'
        <3>1. \A y \in Charged(s)' : y \in Charged(s)
            BY <2>1, ChargedKept
        <3>2. \A y \in Charged(s) : y.to <= now
            BY DEF ChargeInv, SocketInv
        <3> QED
            BY <2>1, <2>2, <3>1, <3>2 DEF SocketInv
    <2>5. ProbesInv' /\ ReportedOnce' /\ UnreadInv'
        BY <1>2, <2>1, <2>2 DEF ProbesInv, ReportedOnce, UnreadInv
    <2> QED
        BY <2>1, <2>3, <2>4, <2>5 DEF ChargeInv
<1>3. CASE netdelay_init
    BY <1>1, <1>2, <1>3 DEF netdelay_init, ChargeInv, ProbesInv
<1>4. CASE netdelay_deinit
    BY <1>1, <1>2, <1>4 DEF netdelay_deinit
<1> QED
    BY <1>3, <1>4

\* A step of the program that does not touch the delays, or end a read of them.
LEMMA OtherStep ==
    ASSUME DelayShape, ChargeInv, UnreadInv, UNCHANGED delayVars,
           \A i \in States : refresher[i] = "netReset" => refresher'[i] = "netReset"
    PROVE  DelayShape' /\ ChargeInv' /\ UnreadInv' /\ reader' = reader
<1>1. UNCHANGED <<now, unread, stamp, maxDelay, probes, initialized, recv, sample, reader,
                  raced, reported>>
    BY DEF delayVars
<1>2. \A s \in Socks : Charged(s)' = Charged(s)
    BY <1>1 DEF Charged
<1>3. \A s \in Socks : SocketInv(s)'
    BY <1>1, <1>2 DEF ChargeInv, SocketInv
<1>4. ReportedOnce'
    BY <1>1 DEF ChargeInv, ReportedOnce
<1> QED
    BY <1>1, <1>3, <1>4 DEF DelayShape, ChargeInv, ProbesInv, UnreadInv

\* The sample that a refresher reads follows all that were reported before.
LEMMA ReadStep ==
    ASSUME Shape, LifeInv, DelayShape, ChargeInv, UnreadInv, NEW i \in States, ReadDelay(i)
    PROVE  /\ DelayShape' /\ ChargeInv' /\ UnreadInv'
           /\ \A r \in Readers : reader'[r] # reader[r] /\ reader'[r] # NoSample
                => \A y \in reported :
                      y.sock = reader'[r].sock => y.to <= reader'[r].from
<1>1. /\ reader' = [reader EXCEPT ![i] = IF initialized THEN maxDelay ELSE NoSample]
      /\ reported' = IF initialized /\ maxDelay # NoSample
                     THEN reported \cup {maxDelay} ELSE reported
      /\ UNCHANGED <<now, unread, stamp, maxDelay, probes, initialized, recv, sample, raced>>
      /\ refresher[i] = "net" /\ refresher' = [refresher EXCEPT ![i] = "netReset"]
    BY DEF ReadDelay, ReadMax, Goto
<1>2. \A j \in States : refresher[j] # "netReset"
    <2>1. \A j \in States : Running(j) => j = i
        BY <1>1 DEF LifeInv, NoReadAfterTearDown, Running
    <2> QED
        BY <1>1, <2>1 DEF Running
<1>3. \A y \in reported : maxDelay # NoSample /\ y.sock = maxDelay.sock => y.to <= maxDelay.from
    BY <1>2 DEF ChargeInv, ReportedOnce
<1>4. refresher'[i] = "netReset"
    BY <1>1 DEF Shape
<1>5. DelayShape'
    BY <1>1 DEF DelayShape
<1>6. ASSUME NEW s \in Socks PROVE SocketInv(s)'
    <2>1. \A y \in Charged(s)' : y \in Charged(s)
        BY <1>1, ChargedKept
    <2>2. now \in Nat /\ now' \in Nat /\ now' >= now
        BY <1>1 DEF Shape
    <2>3. stamp'[s] = stamp[s] /\ recv'[s] = recv[s] /\ sample'[s] = sample[s]
        BY <1>1
    <2>4. SocketInv(s)
        BY DEF ChargeInv
    <2> QED
        BY <2>1, <2>2, <2>3, <2>4, SocketKept
<1>7. ProbesInv' /\ ReportedOnce' /\ UnreadInv'
    BY <1>1, <1>4 DEF ChargeInv, ProbesInv, ReportedOnce, UnreadInv
<1>8. ASSUME NEW r \in Readers, reader'[r] # reader[r], reader'[r] # NoSample
      PROVE  reader'[r] = maxDelay
    BY <1>1, <1>8 DEF DelayShape
<1> QED
    BY <1>3, <1>5, <1>6, <1>7, <1>8 DEF ChargeInv

\* The reset.
LEMMA ResetStep ==
    ASSUME Shape, DelayShape, ChargeInv, UnreadInv, NEW i \in States, StoreDelay(i)
    PROVE  /\ DelayShape' /\ ChargeInv' /\ UnreadInv'
           /\ \A r \in Readers : reader'[r] = reader[r] \/ reader'[r] = NoSample
<1>1. /\ maxDelay' = IF initialized THEN NoSample ELSE maxDelay
      /\ reader' = [reader EXCEPT ![i] = NoSample]
      /\ UNCHANGED <<now, unread, stamp, probes, initialized, recv, sample, raced, reported>>
    BY DEF StoreDelay, ResetMax
<1>2. maxDelay' = NoSample
    BY <1>1 DEF ChargeInv, ProbesInv
<1>3. DelayShape'
    BY <1>1, <1>2 DEF DelayShape
<1>4. ASSUME NEW s \in Socks PROVE SocketInv(s)'
    <2>1. \A y \in Charged(s)' : y \in Charged(s)
        BY <1>1, <1>2, ChargedKept
    <2>2. now \in Nat /\ now' \in Nat /\ now' >= now
        BY <1>1 DEF Shape
    <2>3. stamp'[s] = stamp[s] /\ recv'[s] = recv[s] /\ sample'[s] = sample[s]
        BY <1>1
    <2>4. SocketInv(s)
        BY DEF ChargeInv
    <2> QED
        BY <2>1, <2>2, <2>3, <2>4, SocketKept
<1>5. ProbesInv' /\ ReportedOnce' /\ UnreadInv'
    BY <1>1, <1>2 DEF ChargeInv, ProbesInv, ReportedOnce, UnreadInv
<1> QED
    BY <1>1, <1>3, <1>4, <1>5 DEF ChargeInv, DelayShape

\* What NoTimeChargedTwice says of a step.
NothingChargedTwice ==
    \A r \in Readers : reader'[r] # reader[r] /\ reader'[r] # NoSample
        => \A y \in reported :
              y.sock = reader'[r].sock => y.to <= reader'[r].from \/ reader'[r].to <= y.from

LEMMA DelayInvStep ==
    ASSUME Shape, LifeInv, DelayShape, ChargeInv, UnreadInv, [Next]_vars
    PROVE  DelayShape' /\ ChargeInv' /\ UnreadInv' /\ NothingChargedTwice
<1> DEFINE Goal == DelayShape' /\ ChargeInv' /\ UnreadInv' /\ NothingChargedTwice
<1>0. now' \in Nat /\ now' >= now
    BY ClockForward
<1>1. ASSUME DelayShape', ChargeInv', UnreadInv', reader' = reader PROVE Goal
    BY <1>1 DEF NothingChargedTwice
<1>2. ASSUME Kernel /\ UNCHANGED perfVars PROVE Goal
    <2>1. refresher' = refresher
        BY <1>2 DEF perfVars
    <2> QED
        BY <1>0, <1>1, <1>2, <2>1, KernelStep
<1>3. ASSUME NEW c \in Callers, PerfInit(c) \/ PerfTearDown(c) PROVE Goal
    <2>1. refresher' = refresher /\ (netdelay_init \/ netdelay_deinit)
        BY <1>3 DEF PerfInit, PerfTearDown
    <2> QED
        BY <1>1, <2>1, ModuleStep
<1>4. ASSUME NEW c \in Callers, PerfStart(c) \/ PerfStop(c) PROVE Goal
    <2>1. UNCHANGED delayVars
        BY <1>4 DEF PerfStart, PerfStop
    <2>2. \A i \in States : refresher[i] = "netReset" => refresher'[i] = "netReset"
        BY <1>4 DEF PerfStart, PerfStop, Unused, Shape
    <2> QED
        BY <1>1, <2>1, <2>2, OtherStep
<1>5. ASSUME NEW i \in States, Spin(i) \/ ReadCounter(i) \/ StoreCounter(i) PROVE Goal
    <2>1. UNCHANGED delayVars
        BY <1>5 DEF Spin, ReadCounter, StoreCounter
    <2>2. \A j \in States : refresher[j] = "netReset" => refresher'[j] = "netReset"
        BY <1>5 DEF Spin, ReadCounter, StoreCounter, Goto, Shape
    <2> QED
        BY <1>1, <2>1, <2>2, OtherStep
<1>6. ASSUME NEW i \in States, ReadDelay(i) PROVE Goal
    BY <1>6, ReadStep DEF NothingChargedTwice
<1>7. ASSUME NEW i \in States, StoreDelay(i) PROVE Goal
    BY <1>7, ResetStep DEF NothingChargedTwice
<1>8. ASSUME UNCHANGED vars PROVE Goal
    <2>1. UNCHANGED delayVars /\ refresher' = refresher
        BY <1>8 DEF vars, perfVars
    <2> QED
        BY <1>1, <2>1, OtherStep
<1> HIDE DEF Goal
<1>9. ASSUME NEW i \in States, perfRefresher(i) PROVE Goal
    BY <1>5, <1>6, <1>7, <1>9, Zenon DEF perfRefresher
<1>10. ASSUME NEW c \in Callers, PerfInit(c) \/ PerfStart(c) \/ PerfStop(c) \/ PerfTearDown(c)
       PROVE  Goal
    BY <1>3, <1>4, <1>10, Zenon
<1>11. ASSUME Next PROVE Goal
    <2>1. \/ Kernel /\ UNCHANGED perfVars
          \/ \E c \in Callers : PerfInit(c) \/ PerfStart(c) \/ PerfStop(c) \/ PerfTearDown(c)
          \/ \E i \in States : perfRefresher(i)
        BY <1>11 DEF Next
    <2> QED
        BY <1>2, <1>9, <1>10, <2>1
<1>12. Goal
    BY <1>8, <1>11
<1> QED
    BY <1>12 DEF Goal

\* netdelay.h: the stamp of a socket that nobody reads is of data that is
\* unread or came between the probe and the copying, for any number of sockets,
\* whatever the size of the stamp map.
THEOREM StampsAreOfUnread == Spec => []StampOfUnread
<1> DEFINE Inv == Shape /\ LifeInv /\ CounterInv /\ DelayShape /\ ChargeInv /\ UnreadInv
<1>1. Inv /\ [Next]_vars => Inv'
    BY PerfInvStep, DelayInvStep
<1>2. Init => Inv
    BY PerfInvInit, DelayInvInit
<1>3. Inv => StampOfUnread
    BY DEF UnreadInv, StampOfUnread
<1> QED
    BY <1>1, <1>2, <1>3, PTL DEF Spec

\* netdelay_read_and_reset_max_delay: no two samples of a socket that the
\* program is given overlap, for any number of sockets, callers and refreshers.
THEOREM TimeIsChargedOnce == Spec => NoTimeChargedTwice
<1> DEFINE Inv == Shape /\ LifeInv /\ CounterInv /\ DelayShape /\ ChargeInv /\ UnreadInv
<1>1. Inv /\ [Next]_vars => Inv'
    BY PerfInvStep, DelayInvStep
<1>2. Init => Inv
    BY PerfInvInit, DelayInvInit
<1>3. Inv /\ [Next]_vars =>
        [\A r \in Readers : reader'[r] # reader[r] /\ reader'[r] # NoSample
            => \A y \in reported :
                  y.sock = reader'[r].sock =>
                      y.to <= reader'[r].from \/ reader'[r].to <= y.from]_delayVars
    BY DelayInvStep DEF NothingChargedTwice
<1> QED
    BY <1>1, <1>2, <1>3, PTL DEF Spec, NoTimeChargedTwice
=============================================================================

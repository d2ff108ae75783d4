------------------------------ MODULE NetDelay ------------------------------
(***************************************************************************)
(* netdelay.h: how long data sits in the socket buffers, measured by two   *)
(* kernel probes.  The entry probe, on sock_def_readable, stamps a socket  *)
(* when data is queued for it; the exit probe, on tcp_recvmsg, turns the   *)
(* stamp into a delay, keeps the largest delay and deletes the stamp.  The *)
(* program reads the largest delay and sets it to zero.                    *)
(*                                                                         *)
(* Probes run on every processor at once.  The exit probe is four steps,   *)
(* between which the other processors and the reader run; it comes before  *)
(* tcp_recvmsg takes the socket's lock, under which data is queued (and    *)
(* the entry probe runs) and is copied to the program.                     *)
(***************************************************************************)
EXTENDS Integers, FiniteSets

CONSTANTS Socks,     \* the sockets
          Readers,   \* the threads that may call netdelay_read_and_reset
          MaxTime,   \* bound on the clock
          MaxStamps  \* max_entries of sock_ts_map

ASSUME NetDelayAssumption ==
    IsFiniteSet(Socks) /\ MaxTime \in Nat \ {0} /\ MaxStamps \in Nat

VARIABLES now,          \* ktime_get_ns(): 1 is the first time
          unread,       \* the sockets with the data their stamp is of unread
          stamp,        \* sock_ts_map: the stamp of each socket, or 0
          maxDelay,     \* delay_map: the sample with the largest delay
          probes,       \* the probes that are attached
          initialized,  \* g_initialized
          recv,         \* where each socket's tcp_recvmsg is
          sample,       \* what its exit probe has measured
          reader,       \* where each thread's read-and-reset is
          raced,        \* history: the sockets stamped between the exit probe
                        \* and the copying of a read
          reported      \* history: the samples that were read

delayVars == <<now, unread, stamp, maxDelay, probes, initialized, recv, sample, reader,
               raced, reported>>

Times == 1..MaxTime

\* A sample: the socket, its stamp and the time of the read.
Samples == [sock : Socks, from : Times, to : Times]
NoSample == [sock |-> "none", from |-> 0, to |-> 0]

Delay(x) == x.to - x.from

Stamped == {s \in Socks : stamp[s] # 0}

DelayInit ==
    /\ now = 1
    /\ stamp = [s \in Socks |-> 0] /\ maxDelay = NoSample
    /\ probes = {} /\ initialized = FALSE
    /\ recv = [s \in Socks |-> "out"] /\ sample = [s \in Socks |-> NoSample]
    /\ reader = [r \in Readers |-> NoSample]
    /\ unread = {} /\ raced = {} /\ reported = {}

Tick ==
    /\ now < MaxTime
    /\ now' = now + 1
    /\ UNCHANGED <<unread, stamp, maxDelay, probes, initialized, recv, sample, reader, raced,
                   reported>>
-----------------------------------------------------------------------------
(* The kernel and the probes *)

\* Only the first stamp is kept, if the map has room for it.
EntryProbe(s) ==
    IF "entry" \in probes /\ stamp[s] = 0 /\ Cardinality(Stamped) < MaxStamps
    THEN [stamp EXCEPT ![s] = now] ELSE stamp

\* Data is queued for the socket.
Arrive(s) ==
    /\ stamp' = EntryProbe(s)
    /\ IF EntryProbe(s) = stamp THEN UNCHANGED <<unread, raced>>
       ELSE /\ unread' = unread \cup {s}
            /\ raced' = IF recv[s] = "out" THEN raced \ {s} ELSE raced \cup {s}
    /\ UNCHANGED <<now, maxDelay, probes, initialized, recv, sample, reader, reported>>

\* tcp_recvmsg is called; its probe looks the stamp up and takes the time.
ExitLookup(s) ==
    /\ recv[s] = "out"
    /\ \/ /\ "exit" \in probes /\ stamp[s] # 0
          /\ sample' = [sample EXCEPT ![s] = [sock |-> s, from |-> stamp[s], to |-> now]]
          /\ recv' = [recv EXCEPT ![s] = "compare"]
       \/ /\ "exit" \in probes /\ stamp[s] = 0
          /\ recv' = [recv EXCEPT ![s] = "delete"]
          /\ UNCHANGED sample
       \/ /\ "exit" \notin probes
          /\ recv' = [recv EXCEPT ![s] = "copy"]
          /\ UNCHANGED sample
    /\ UNCHANGED <<now, unread, stamp, maxDelay, probes, initialized, reader, raced, reported>>

\* Mutant: the jump for a delay that is not the largest goes past the deletion.
ExitCompareJumpsTooFar(s) ==
    /\ recv[s] = "compare"
    /\ recv' = [recv EXCEPT ![s] = IF Delay(maxDelay) >= Delay(sample[s])
                                   THEN "copy" ELSE "store"]
    /\ UNCHANGED <<now, unread, stamp, maxDelay, probes, initialized, sample, reader, raced,
                   reported>>

\* The probe compares its delay with the largest ...
ExitCompare(s) ==
    /\ recv[s] = "compare"
    /\ recv' = [recv EXCEPT ![s] = IF Delay(maxDelay) >= Delay(sample[s])
                                   THEN "delete" ELSE "store"]
    /\ UNCHANGED <<now, unread, stamp, maxDelay, probes, initialized, sample, reader, raced,
                   reported>>

\* ... and stores it, whatever the map holds by now.
ExitStore(s) ==
    /\ recv[s] = "store"
    /\ maxDelay' = sample[s]
    /\ recv' = [recv EXCEPT ![s] = "delete"]
    /\ UNCHANGED <<now, unread, stamp, probes, initialized, sample, reader, raced, reported>>

\* The stamp is deleted, be it the one that was looked up or a newer one.
ExitDelete(s) ==
    /\ recv[s] = "delete"
    /\ stamp' = [stamp EXCEPT ![s] = 0]
    /\ unread' = unread \ {s} /\ raced' = raced \ {s}
    /\ recv' = [recv EXCEPT ![s] = "copy"] /\ sample' = [sample EXCEPT ![s] = NoSample]
    /\ UNCHANGED <<now, maxDelay, probes, initialized, reader, reported>>

\* tcp_recvmsg copies what is queued, or a part of it.
Copy(s) ==
    /\ recv[s] = "copy"
    /\ recv' = [recv EXCEPT ![s] = "out"]
    /\ unread' \in {unread, unread \ {s}}
    /\ UNCHANGED <<now, stamp, maxDelay, probes, initialized, sample, reader, raced, reported>>

Kernel ==
    \/ Tick
    \/ \E s \in Socks : \/ Arrive(s) \/ ExitLookup(s) \/ ExitCompare(s) \/ ExitStore(s)
                        \/ ExitDelete(s) \/ Copy(s)
-----------------------------------------------------------------------------
(* What the program calls: operators for the actions of Perf *)

\* New maps; a probe that is running ends on the old ones.
FreshMaps ==
    /\ stamp' = [s \in Socks |-> 0] /\ maxDelay' = NoSample
    /\ recv' = [s \in Socks |-> IF recv[s] = "out" THEN "out" ELSE "copy"]
    /\ sample' = [s \in Socks |-> NoSample]
    /\ unread' = {} /\ raced' = {}
    /\ UNCHANGED <<now, reader, reported>>

\* netdelay_init: nothing when initialised.  It may fail at any of its stages,
\* with the entry probe attached when only the exit probe cannot be.
netdelay_init ==
    \/ initialized /\ UNCHANGED delayVars
    \/ /\ ~initialized
       /\ FreshMaps
       /\ \/ initialized' = TRUE /\ probes' = {"entry", "exit"}
          \/ initialized' = FALSE /\ probes' \in {probes, {"entry"}}

\* netdelay_deinit: nothing when not initialised, after a failure in
\* particular, whatever that has left attached.
netdelay_deinit ==
    IF ~initialized THEN UNCHANGED delayVars
    ELSE FreshMaps /\ initialized' = FALSE /\ probes' = {}

\* netdelay_read_and_reset_max_delay: the look-up ...
ReadMax(r) ==
    /\ reader' = [reader EXCEPT ![r] = IF initialized THEN maxDelay ELSE NoSample]
    /\ reported' = IF initialized /\ maxDelay # NoSample
                   THEN reported \cup {maxDelay} ELSE reported
    /\ UNCHANGED <<now, unread, stamp, maxDelay, probes, initialized, recv, sample, raced>>

\* Mutant: the maximum is not reset.
ResetMaxNot(r) ==
    /\ reader' = [reader EXCEPT ![r] = NoSample]
    /\ UNCHANGED <<now, unread, stamp, maxDelay, probes, initialized, recv, sample, raced,
                   reported>>

\* ... and the reset, after which the call returns.
ResetMax(r) ==
    /\ maxDelay' = IF initialized THEN NoSample ELSE maxDelay
    /\ reader' = [reader EXCEPT ![r] = NoSample]
    /\ UNCHANGED <<now, unread, stamp, probes, initialized, recv, sample, raced, reported>>
-----------------------------------------------------------------------------
(* Properties *)

\* No moment of a socket's life is charged twice: a sample that the program is
\* given overlaps no other sample of that socket it was given before (itself
\* included), whatever the probes and the resets do to one another.
NoTimeChargedTwice ==
    [][\A r \in Readers : reader'[r] # reader[r] /\ reader'[r] # NoSample
          => \A y \in reported :
                y.sock = reader'[r].sock =>
                    y.to <= reader'[r].from \/ reader'[r].to <= y.from]_delayVars

\* The stamp of a socket nobody reads is of data that is unread, unless that
\* data was queued between the probe and the copying of the read that took it.
StampOfUnread ==
    \A s \in Socks : "exit" \in probes /\ recv[s] = "out" /\ stamp[s] # 0
        => s \in unread \cup raced
=============================================================================

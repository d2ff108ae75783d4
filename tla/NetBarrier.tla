----------------------------- MODULE NetBarrier -----------------------------
(***************************************************************************)
(* The benchmark's clients on several machines (netbench_client.go): the   *)
(* NetBarrier that makes them start together and collects their results,   *)
(* and the part of RunExperiment and ClientWorker that it synchronises.    *)
(*                                                                         *)
(* One master and its agents, a TCP stream in each direction between them. *)
(* A process may die at any point; a read from a dead peer returns an      *)
(* error, which Wait and EndExperiment ignore, once the stream is empty.   *)
(***************************************************************************)
EXTENDS Integers, FiniteSets, Sequences

CONSTANTS Agents,     \* the clients other than the master
          Master,     \* the master client
          NumConns,   \* gSettings.NumConns, of each client
          MaxDeaths   \* bound on the clients that die

ASSUME BarrierAssumption ==
    IsFiniteSet(Agents) /\ Master \notin Agents /\ NumConns \in Nat /\ MaxDeaths \in Nat

VARIABLES place,      \* where each client is
          dialled,    \* the agents whose DialTCP has succeeded
          conns,      \* nb.conns of the master: the agents in order of accept
          next,       \* the index of the master's loops
          toMaster,   \* each agent's stream to the master
          toAgent,    \* the master's stream to each agent
          ready,      \* workers that have called starterWg.Done
          finished,   \* workers that have called enderWg.Done
          read,       \* what the master has read as barrier byte, stats and units
          deaths      \* clients that have died

vars == <<place, dialled, conns, next, toMaster, toAgent, ready, finished, read, deaths>>

Clients == Agents \cup {Master}
Ended(c) == place[c] \in {"done", "dead"}
Nothing == "nothing"

Init ==
    /\ place = [c \in Clients |-> "start"]
    /\ dialled = {} /\ conns = <<>> /\ next = 1
    /\ toMaster = [a \in Agents |-> <<>>] /\ toAgent = [a \in Agents |-> <<>>]
    /\ ready = [c \in Clients |-> 0] /\ finished = [c \in Clients |-> 0]
    /\ read = [a \in Agents |-> <<>>]
    /\ deaths = 0

Go(c, to) == place' = [place EXCEPT ![c] = to]

\* What a ReadFull of the master from an agent returns: the next message, or
\* an error if the agent is gone and has left none.
CanRead(a) == toMaster[a] # <<>> \/ Ended(a)
ReadOf(a) == IF toMaster[a] # <<>> THEN Head(toMaster[a]) ELSE Nothing
ReadFrom(a) ==
    /\ CanRead(a)
    /\ toMaster' = [toMaster EXCEPT ![a] = IF @ # <<>> THEN Tail(@) ELSE @]
    /\ read' = [read EXCEPT ![a] = Append(@, ReadOf(a))]

WriteFull(a, msg) == toMaster' = [toMaster EXCEPT ![a] = Append(@, msg)]
-----------------------------------------------------------------------------
(* MasterNetBarrierInit and NonMasterNetBarrierInit *)

Listen ==
    /\ place[Master] = "start"
    /\ Go(Master, "accept")
    /\ UNCHANGED <<dialled, conns, next, toMaster, toAgent, ready, finished, read, deaths>>

\* The connection is set up while the master listens; without, the agent panics.
Dial(a) ==
    /\ place[a] = "start"
    /\ IF place[Master] \in {"start", "done", "dead"}
       THEN Go(a, "dead") /\ UNCHANGED dialled
       ELSE Go(a, "settings") /\ dialled' = dialled \cup {a}
    /\ UNCHANGED <<conns, next, toMaster, toAgent, ready, finished, read, deaths>>

\* The master accepts an agent and sends it the settings.
Accept(a) ==
    /\ place[Master] = "accept" /\ next <= Cardinality(Agents)
    /\ a \in dialled /\ \A i \in DOMAIN conns : conns[i] # a
    /\ conns' = Append(conns, a) /\ next' = next + 1
    /\ toAgent' = [toAgent EXCEPT ![a] = Append(@, "settings")]
    /\ UNCHANGED <<place, dialled, toMaster, ready, finished, read, deaths>>

AcceptedAll ==
    /\ place[Master] = "accept" /\ next > Cardinality(Agents)
    /\ Go(Master, "prepare") /\ next' = 1
    /\ UNCHANGED <<dialled, conns, toMaster, toAgent, ready, finished, read, deaths>>

\* Settings that cannot be deserialised, those of a dead master, are a panic.
GetSettings(a) ==
    /\ place[a] = "settings"
    /\ \/ /\ toAgent[a] # <<>>
          /\ Go(a, "prepare") /\ toAgent' = [toAgent EXCEPT ![a] = Tail(@)]
       \/ /\ toAgent[a] = <<>> /\ Ended(Master)
          /\ Go(a, "dead") /\ UNCHANGED toAgent
    /\ UNCHANGED <<dialled, conns, next, toMaster, ready, finished, read, deaths>>
-----------------------------------------------------------------------------
(* The workers, and the barrier *)

\* A ClientWorker has its trace: starterWg.Done().
WorkerReady(c) ==
    /\ place[c] = "prepare" /\ ready[c] < NumConns
    /\ ready' = [ready EXCEPT ![c] = @ + 1]
    /\ UNCHANGED <<place, dialled, conns, next, toMaster, toAgent, finished, read, deaths>>

\* starterWg.Wait(); netBarrier.Wait() of an agent writes a byte ...
WaitAgent(a) ==
    /\ place[a] = "prepare" /\ ready[a] = NumConns
    /\ WriteFull(a, "byte") /\ Go(a, "wait")
    /\ UNCHANGED <<dialled, conns, next, toAgent, ready, finished, read, deaths>>

\* ... and reads one, or an error; starter2Wg.Done().
Released(a) ==
    /\ place[a] = "wait"
    /\ toAgent[a] # <<>> \/ Ended(Master)
    /\ toAgent' = [toAgent EXCEPT ![a] = IF @ # <<>> THEN Tail(@) ELSE @]
    /\ Go(a, "run")
    /\ UNCHANGED <<dialled, conns, next, toMaster, ready, finished, read, deaths>>

\* Wait of the master reads a byte from every agent ...
WaitMaster ==
    /\ place[Master] = "prepare" /\ ready[Master] = NumConns
    /\ Go(Master, "collect")
    /\ UNCHANGED <<dialled, conns, next, toMaster, toAgent, ready, finished, read, deaths>>

\* Mutant: the barrier waits for all agents but one.
CollectOffByOne ==
    /\ place[Master] = "collect"
    /\ \/ /\ next < Len(conns)
          /\ ReadFrom(conns[next])
          /\ next' = next + 1 /\ UNCHANGED place
       \/ /\ next >= Len(conns)
          /\ next' = 1 /\ Go(Master, "release") /\ UNCHANGED <<toMaster, read>>
    /\ UNCHANGED <<dialled, conns, toAgent, ready, finished, deaths>>

Collect ==
    /\ place[Master] = "collect"
    /\ \/ /\ next <= Len(conns)
          /\ ReadFrom(conns[next])
          /\ next' = next + 1 /\ UNCHANGED place
       \/ /\ next > Len(conns)
          /\ next' = 1 /\ Go(Master, "release") /\ UNCHANGED <<toMaster, read>>
    /\ UNCHANGED <<dialled, conns, toAgent, ready, finished, deaths>>

\* Mutant: the last agent is not released.
ReleaseOffByOne ==
    /\ place[Master] = "release"
    /\ \/ /\ next < Len(conns)
          /\ toAgent' = [toAgent EXCEPT ![conns[next]] = Append(@, "byte")]
          /\ next' = next + 1 /\ UNCHANGED place
       \/ /\ next >= Len(conns)
          /\ next' = 1 /\ Go(Master, "run") /\ UNCHANGED toAgent
    /\ UNCHANGED <<dialled, conns, toMaster, ready, finished, read, deaths>>

\* ... and then writes one to every agent.
Release ==
    /\ place[Master] = "release"
    /\ \/ /\ next <= Len(conns)
          /\ toAgent' = [toAgent EXCEPT ![conns[next]] = Append(@, "byte")]
          /\ next' = next + 1 /\ UNCHANGED place
       \/ /\ next > Len(conns)
          /\ next' = 1 /\ Go(Master, "run") /\ UNCHANGED toAgent
    /\ UNCHANGED <<dialled, conns, toMaster, ready, finished, read, deaths>>

\* A ClientWorker sends its requests and is done: enderWg.Done().
WorkerFinish(c) ==
    /\ place[c] = "run" /\ finished[c] < NumConns
    /\ finished' = [finished EXCEPT ![c] = @ + 1]
    /\ UNCHANGED <<place, dialled, conns, next, toMaster, toAgent, ready, read, deaths>>
-----------------------------------------------------------------------------
(* EndExperiment *)

\* enderWg.Wait(); an agent sends its statistics ...
SendStats(a) ==
    /\ place[a] = "run" /\ finished[a] = NumConns
    /\ WriteFull(a, "stats") /\ Go(a, "units")
    /\ UNCHANGED <<dialled, conns, next, toAgent, ready, finished, read, deaths>>

\* ... and its work units, and closes.
SendUnits(a) ==
    /\ place[a] = "units"
    /\ WriteFull(a, "units") /\ Go(a, "done")
    /\ UNCHANGED <<dialled, conns, next, toAgent, ready, finished, read, deaths>>

EndMaster ==
    /\ place[Master] = "run" /\ finished[Master] = NumConns
    /\ Go(Master, "stats")
    /\ UNCHANGED <<dialled, conns, next, toMaster, toAgent, ready, finished, read, deaths>>

\* The master adds up the statistics of all agents, zeros for a read error ...
ReadStats ==
    /\ place[Master] = "stats"
    /\ \/ /\ next <= Len(conns)
          /\ ReadFrom(conns[next])
          /\ next' = next + 1 /\ UNCHANGED place
       \/ /\ next > Len(conns)
          /\ next' = 1 /\ Go(Master, "units") /\ UNCHANGED <<toMaster, read>>
    /\ UNCHANGED <<dialled, conns, toAgent, ready, finished, deaths>>

\* Mutant: work units that cannot be deserialised are left out.
ReadUnitsNoPanic ==
    /\ place[Master] = "units"
    /\ \/ /\ next <= Len(conns)
          /\ ReadFrom(conns[next])
          /\ next' = next + 1 /\ UNCHANGED place
       \/ /\ next > Len(conns)
          /\ Go(Master, "done") /\ UNCHANGED <<toMaster, read, next>>
    /\ UNCHANGED <<dialled, conns, toAgent, ready, finished, deaths>>

\* ... and then the work units; those of a read error are a panic.
ReadUnits ==
    /\ place[Master] = "units"
    /\ \/ /\ next <= Len(conns)
          /\ ReadFrom(conns[next])
          /\ next' = next + 1
          /\ IF ReadOf(conns[next]) = Nothing THEN Go(Master, "dead") ELSE UNCHANGED place
       \/ /\ next > Len(conns)
          /\ Go(Master, "done") /\ UNCHANGED <<toMaster, read, next>>
    /\ UNCHANGED <<dialled, conns, toAgent, ready, finished, deaths>>
-----------------------------------------------------------------------------
\* The process dies: a panic of its own, or its machine.
Die(c) ==
    /\ ~Ended(c) /\ deaths < MaxDeaths
    /\ Go(c, "dead") /\ deaths' = deaths + 1
    /\ UNCHANGED <<dialled, conns, next, toMaster, toAgent, ready, finished, read>>

MasterStep ==
    \/ Listen \/ (\E a \in Agents : Accept(a)) \/ AcceptedAll \/ WaitMaster \/ Collect
    \/ Release \/ EndMaster \/ ReadStats \/ ReadUnits

AgentStep(a) ==
    Dial(a) \/ GetSettings(a) \/ WaitAgent(a) \/ Released(a) \/ SendStats(a) \/ SendUnits(a)

Worker(c) == WorkerReady(c) \/ WorkerFinish(c)

Next ==
    \/ MasterStep
    \/ \E a \in Agents : AgentStep(a)
    \/ \E c \in Clients : Worker(c) \/ Die(c)

Spec == Init /\ [][Next]_vars

\* Every client that does not die is started and goes on when it can; nobody
\* has to die.
FairSpec ==
    /\ Spec
    /\ WF_vars(MasterStep)
    /\ \A a \in Agents : WF_vars(AgentStep(a))
    /\ \A c \in Clients : WF_vars(Worker(c))
-----------------------------------------------------------------------------
(* Properties *)

\* "Synchronize the start of the experiment across all clients": while the
\* master lives, no client generates load before the workers of every client
\* that lives are ready.
StartTogether ==
    \A c \in Clients : place[c] = "run" /\ place[Master] # "dead" =>
        \A d \in Clients : ready[d] = NumConns \/ place[d] = "dead"

\* A master that reports has the statistics and the work units of every agent,
\* each once: an agent that died is never silently left out of the totals.
ReportIsComplete ==
    place[Master] = "done" =>
        \A a \in Agents : read[a] = <<"byte", "stats", "units">>

\* If every agent reaches the master, every client comes to an end, whoever
\* dies on the way.
EveryoneEnds ==
    (\A a \in Agents : <>(a \in dialled)) => \A c \in Clients : <>Ended(c)
=============================================================================

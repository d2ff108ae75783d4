-------------------------- MODULE NetBarrierProofs --------------------------
(***************************************************************************)
(* The benchmark's barrier, for any number of agents, of connections and   *)
(* of deaths.                                                              *)
(*                                                                         *)
(* StartTogether is not inductive.  BarrierInv follows the phases: who has *)
(* been accepted, what is in the streams to the agents, and that the       *)
(* agents the master has collected a byte (or an error) from are past      *)
(* their preparation.                                                      *)
(*                                                                         *)
(* ReportIsComplete needs what the master has read of each agent so far:   *)
(* ReportInv splits an agent's message into what the master has, what is   *)
(* in the stream and what is not yet written.                              *)
(***************************************************************************)
EXTENDS NetBarrier, FiniteSetTheorems, SequenceTheorems, TLAPS

Places == {"start", "accept", "settings", "prepare", "wait", "collect", "release", "run",
           "stats", "units", "done", "dead"}

\* An agent that has written its byte, or is dead; a master that has collected
\* the bytes.
Arrived == {"wait", "run", "units", "done", "dead"}
Past == {"release", "run", "stats", "units", "done"}

Msgs == {"settings", "byte", "stats", "units"}

Accepted == {conns[i] : i \in 1..Len(conns)}

Types ==
    /\ place \in [Clients -> Places]
    /\ dialled \subseteq Agents
    /\ conns \in Seq(Agents) /\ next \in Nat \ {0}
    /\ toMaster \in [Agents -> Seq(Msgs)] /\ toAgent \in [Agents -> Seq(Msgs)]
    /\ ready \in [Clients -> Nat] /\ finished \in [Clients -> Nat]

\* The master's loops, and whom it has accepted.
MasterInv ==
    /\ Cardinality(Accepted) = Len(conns)
    /\ place[Master] \notin {"wait", "settings"}
    /\ place[Master] = "start" => conns = <<>> /\ next = 1
    /\ place[Master] = "accept" => next = Len(conns) + 1
    /\ place[Master] \in Past \cup {"prepare", "collect"} => Accepted = Agents
    /\ place[Master] = "prepare" => next = 1
    /\ place[Master] \in Past \cup {"collect"} => ready[Master] = NumConns

\* An agent's place, and its streams.
AgentInv(a) ==
    /\ place[a] \in Arrived \cup {"start", "settings", "prepare"}
    /\ a \in dialled => place[a] # "start"
    /\ a \notin Accepted => toAgent[a] = <<>> /\ place[a] \in {"start", "settings", "dead"}
    /\ place[Master] \notin Past \cup {"dead"} =>
          /\ Len(toAgent[a]) <= 1
          /\ toAgent[a] # <<>> => place[a] \in {"settings", "dead"}
          /\ place[a] \notin {"run", "units", "done"}
    /\ toMaster[a] # <<>> => place[a] \in Arrived
    /\ place[a] \in Arrived \ {"dead"} => ready[a] = NumConns

\* Those the master has heard from have arrived.
HeardInv ==
    /\ place[Master] = "collect" =>
          \A i \in 1..Len(conns) : i < next => place[conns[i]] \in Arrived
    /\ place[Master] \in Past => \A a \in Agents : place[a] \in Arrived

BarrierInv == MasterInv /\ (\A a \in Agents : AgentInv(a)) /\ HeardInv

\* What appending to a stream and taking from it does.
LEMMA Streams ==
    ASSUME NEW S, NEW seq \in Seq(S)
    PROVE  /\ seq # <<>> => Tail(seq) \in Seq(S) /\ Len(Tail(seq)) = Len(seq) - 1
           /\ \A x \in S : /\ Append(seq, x) \in Seq(S) /\ Append(seq, x) # <<>>
                            /\ Len(Append(seq, x)) = Len(seq) + 1
           /\ Len(seq) \in Nat /\ (Len(seq) = 0 <=> seq = <<>>)
BY EmptySeq, AppendProperties, HeadTailProperties

\* The types hold at first ...
LEMMA TypesInit == Init => Types
BY DEF Init, Types, Places, Clients

\* ... and are kept.
LEMMA TypesStep == Types /\ [Next]_vars => Types'
<1> SUFFICES ASSUME Types, [Next]_vars PROVE Types'
    OBVIOUS
<1> USE DEF Types
<1>0. Master \in Clients /\ Agents \subseteq Clients
    BY DEF Clients
<1>1. ASSUME NEW c \in Clients, NEW p \in Places, Go(c, p) PROVE place' \in [Clients -> Places]
    BY <1>1 DEF Go
<1>2. CASE Listen \/ AcceptedAll \/ WaitMaster \/ EndMaster
    BY <1>0, <1>1, <1>2 DEF Listen, AcceptedAll, WaitMaster, EndMaster, Places
<1>3. ASSUME NEW a \in Agents, Accept(a) PROVE Types'
    <2>1. conns' \in Seq(Agents) /\ next' \in Nat \ {0}
        BY <1>3, Streams DEF Accept
    <2>2. toAgent' \in [Agents -> Seq(Msgs)]
        <3>1. "settings" \in Msgs /\ toAgent[a] \in Seq(Msgs)
            BY DEF Msgs
        <3>2. Append(toAgent[a], "settings") \in Seq(Msgs)
            BY <3>1, Streams
        <3> QED
            BY <1>3, <3>2 DEF Accept
    <2> QED
        BY <1>3, <2>1, <2>2 DEF Accept
<1>4. ASSUME NEW a \in Agents, ReadFrom(a) PROVE toMaster' \in [Agents -> Seq(Msgs)]
    <2>1. toMaster[a] # <<>> => Tail(toMaster[a]) \in Seq(Msgs)
        BY Streams
    <2> QED
        BY <1>4, <2>1 DEF ReadFrom
<1>5. \A i \in Nat \ {0} : i <= Len(conns) => conns[i] \in Agents
    OBVIOUS
<1>6. CASE Collect \/ ReadStats \/ ReadUnits
    <2>1. toMaster' \in [Agents -> Seq(Msgs)]
        <3>1. CASE toMaster' = toMaster
            BY <3>1
        <3>2. CASE next <= Len(conns) /\ ReadFrom(conns[next])
            BY <1>4, <1>5, <3>2
        <3> QED
            BY <1>6, <3>1, <3>2 DEF Collect, ReadStats, ReadUnits
    <2>2. next' \in Nat \ {0}
        BY <1>6 DEF Collect, ReadStats, ReadUnits
    <2>3. place' \in [Clients -> Places]
        BY <1>0, <1>1, <1>6 DEF Collect, ReadStats, ReadUnits, Places
    <2> QED
        BY <1>6, <2>1, <2>2, <2>3 DEF Collect, ReadStats, ReadUnits
<1>7. CASE Release
    <2>1. toAgent' \in [Agents -> Seq(Msgs)]
        <3>1. CASE toAgent' = toAgent
            BY <3>1
        <3>2. CASE next <= Len(conns)
                   /\ toAgent' = [toAgent EXCEPT ![conns[next]] = Append(@, "byte")]
            <4>1. "byte" \in Msgs /\ conns[next] \in Agents
                BY <1>5, <3>2 DEF Msgs
            <4>2. Append(toAgent[conns[next]], "byte") \in Seq(Msgs)
                BY <4>1, Streams
            <4> QED
                BY <3>2, <4>1, <4>2
        <3> QED
            BY <1>7, <3>1, <3>2 DEF Release
    <2>2. next' \in Nat \ {0}
        BY <1>7 DEF Release
    <2>3. place' \in [Clients -> Places]
        <3>1. "run" \in Places
            BY DEF Places
        <3> QED
            BY <1>0, <1>1, <1>7, <3>1 DEF Release
    <2> QED
        BY <1>7, <2>1, <2>2, <2>3 DEF Release
<1>8. ASSUME NEW a \in Agents, Dial(a) PROVE Types'
    BY <1>0, <1>1, <1>8 DEF Dial, Places
<1>9. ASSUME NEW a \in Agents, GetSettings(a) \/ Released(a) PROVE Types'
    <2>1. toAgent[a] # <<>> => Tail(toAgent[a]) \in Seq(Msgs)
        BY Streams
    <2>2. toAgent' \in [Agents -> Seq(Msgs)]
        BY <1>9, <2>1, Zenon DEF GetSettings, Released
    <2>3. place' \in [Clients -> Places]
        BY <1>0, <1>1, <1>9 DEF GetSettings, Released, Places
    <2> QED
        BY <1>9, <2>2, <2>3 DEF GetSettings, Released
<1>10. ASSUME NEW a \in Agents, WaitAgent(a) \/ SendStats(a) \/ SendUnits(a) PROVE Types'
    <2>1. \A m \in Msgs : Append(toMaster[a], m) \in Seq(Msgs)
        BY Streams
    <2>2. PICK m \in Msgs : toMaster' = [toMaster EXCEPT ![a] = Append(@, m)]
        BY <1>10 DEF WaitAgent, SendStats, SendUnits, WriteFull, Msgs
    <2>3. toMaster' \in [Agents -> Seq(Msgs)]
        BY <2>1, <2>2
    <2>4. place' \in [Clients -> Places]
        BY <1>0, <1>1, <1>10 DEF WaitAgent, SendStats, SendUnits, Places
    <2> QED
        BY <1>10, <2>3, <2>4 DEF WaitAgent, SendStats, SendUnits
<1>11. ASSUME NEW c \in Clients, Worker(c) \/ Die(c) PROVE Types'
    <2>1. CASE Worker(c)
        BY <2>1 DEF Worker, WorkerReady, WorkerFinish
    <2>2. CASE Die(c)
        <3>1. "dead" \in Places
            BY DEF Places
        <3>2. place' \in [Clients -> Places]
            BY <1>1, <2>2, <3>1 DEF Die
        <3> QED
            BY <2>2, <3>2 DEF Die
    <2> QED
        BY <1>11, <2>1, <2>2
<1>12. CASE UNCHANGED vars
    BY <1>12 DEF vars
<1> QED
    BY <1>2, <1>3, <1>6, <1>7, <1>8, <1>9, <1>10, <1>11, <1>12
    DEF Next, MasterStep, AgentStep

\* The barrier's invariant holds at first ...
LEMMA BarrierInit == Init => BarrierInv
<1> SUFFICES ASSUME Init PROVE BarrierInv
    OBVIOUS
<1>1. Len(conns) = 0 /\ Accepted = {}
    BY DEF Init, Accepted
<1> QED
    BY <1>1, FS_EmptySet, BarrierAssumption
    DEF Init, BarrierInv, MasterInv, AgentInv, HeardInv, Clients, Past, Arrived

\* ... and is kept.
LEMMA BarrierStep == Types /\ BarrierInv /\ [Next]_vars => BarrierInv'
<1> SUFFICES ASSUME Types, BarrierInv, [Next]_vars PROVE BarrierInv'
    OBVIOUS
<1>0. /\ Master \in Clients /\ Agents \subseteq Clients /\ Master \notin Agents
      /\ \A i \in 1..Len(conns) : conns[i] \in Agents
    BY BarrierAssumption DEF Clients, Types
<1> USE DEF Past, Arrived
<1>1. conns' = conns => Accepted' = Accepted
    BY DEF Accepted
<1>2. CASE Listen
    BY <1>0, <1>1, <1>2 DEF Listen, Go, BarrierInv, MasterInv, AgentInv, HeardInv, Types
<1>3. ASSUME NEW a \in Agents, Accept(a) PROVE BarrierInv'
    <2>1. Accepted' = Accepted \cup {a} /\ a \notin Accepted
        <3>1. /\ a \notin Accepted /\ Len(conns') = Len(conns) + 1
              /\ \A i \in 1..Len(conns') :
                    conns'[i] = IF i <= Len(conns) THEN conns[i] ELSE a
            <4>1. conns \in Seq(Agents) /\ conns' = Append(conns, a)
                BY <1>3 DEF Accept, Types
            <4>2. \A i \in 1..Len(conns) : conns[i] # a
                BY <1>3 DEF Accept
            <4>3. a \notin Accepted
                BY <4>2 DEF Accepted
            <4> QED
                BY <4>1, <4>3
        <3>2. Len(conns) \in Nat
            BY DEF Types
        <3>3. Accepted' = {conns'[i] : i \in 1..Len(conns')}
            BY DEF Accepted
        <3>4. ASSUME NEW x \in Accepted' PROVE x \in Accepted \cup {a}
            BY <3>1, <3>2, <3>3 DEF Accepted
        <3>5. ASSUME NEW x \in Accepted \cup {a} PROVE x \in Accepted'
            <4>1. CASE x = a
                <5>1. Len(conns') \in 1..Len(conns') /\ conns'[Len(conns')] = a
                    BY <3>1, <3>2
                <5> QED
                    BY <3>3, <4>1, <5>1
            <4>2. CASE x \in Accepted
                <5>1. PICK i \in 1..Len(conns) : x = conns[i]
                    BY <4>2 DEF Accepted
                <5>2. i \in 1..Len(conns') /\ conns'[i] = x
                    BY <3>1, <3>2, <5>1
                <5> QED
                    BY <3>3, <5>2
            <4> QED
                BY <4>1, <4>2
        <3> QED
            BY <3>1, <3>4, <3>5
    <2>2. IsFiniteSet(Accepted)
        BY <1>0, FS_Subset, BarrierAssumption DEF Accepted
    <2>3. Cardinality(Accepted') = Len(conns')
        <3>1. Cardinality(Accepted) = Len(conns) /\ Len(conns') = Len(conns) + 1
            BY <1>3 DEF Accept, BarrierInv, MasterInv, Types
        <3> QED
            BY <2>1, <2>2, <3>1, FS_AddElement, Zenon
    <2>4. MasterInv'
        BY <1>0, <1>3, <2>3 DEF Accept, BarrierInv, MasterInv, Types
    <2>5. ASSUME NEW b \in Agents PROVE AgentInv(b)'
        <3>1. Append(<<>>, "settings") # <<>> /\ Len(Append(<<>>, "settings")) = 1
            OBVIOUS
        <3>2. AgentInv(b) /\ place' = place /\ place[Master] = "accept" /\ toMaster' = toMaster
              /\ ready' = ready /\ dialled' = dialled
            BY <1>3 DEF Accept, BarrierInv
        <3>3. CASE b = a
            <4>1. toAgent'[b] = Append(<<>>, "settings")
                BY <1>3, <2>1, <3>2, <3>3, Zenon DEF Accept, AgentInv, Types
            <4>2. place[b] \in {"settings", "dead"}
                BY <1>3, <2>1, <3>2, <3>3 DEF Accept, AgentInv
            <4> QED
                BY <2>1, <3>1, <3>2, <3>3, <4>1, <4>2, SMTT(60) DEF AgentInv
        <3>4. CASE b # a
            <4>1. toAgent'[b] = toAgent[b] /\ (b \in Accepted' <=> b \in Accepted)
                BY <1>3, <2>1, <3>4 DEF Accept, Types
            <4> QED
                BY <3>2, <4>1 DEF AgentInv
        <3> QED
            BY <3>3, <3>4
    <2>6. HeardInv'
        BY <1>3 DEF Accept, HeardInv
    <2> QED
        BY <2>4, <2>5, <2>6 DEF BarrierInv
<1>4. CASE AcceptedAll
    <2>1. Accepted = Agents
        <3>1. Accepted \subseteq Agents
            BY <1>0 DEF Accepted
        <3>2. Cardinality(Accepted) = Len(conns) /\ next = Len(conns) + 1
              /\ next > Cardinality(Agents) /\ Len(conns) \in Nat
            BY <1>4 DEF AcceptedAll, BarrierInv, MasterInv, Types
        <3> QED
            BY <3>1, <3>2, FS_Subset, FS_CardinalityType, BarrierAssumption
    <2> QED
        BY <1>0, <1>1, <1>4, <2>1, ZenonT(60) DEF AcceptedAll, Go, BarrierInv, MasterInv, AgentInv, HeardInv, Types
<1>5. CASE WaitMaster
    BY <1>0, <1>1, <1>5 DEF WaitMaster, Go, BarrierInv, MasterInv, AgentInv, HeardInv, Types
<1>6. CASE Collect
    <2>1. CASE next <= Len(conns) /\ ReadFrom(conns[next])
        <3>1. place[conns[next]] \in Arrived
            <4>1. conns[next] \in Agents /\ CanRead(conns[next])
                BY <1>0, <2>1 DEF ReadFrom, Types
            <4>2. AgentInv(conns[next])
                BY <4>1 DEF BarrierInv
            <4> QED
                BY <4>1, <4>2 DEF CanRead, Ended, AgentInv
        <3>2. \A b \in Agents : toMaster'[b] # <<>> => toMaster[b] # <<>>
            BY <2>1, Zenon DEF ReadFrom, Types
        <3>3. /\ place' = place /\ conns' = conns /\ ready' = ready /\ toAgent' = toAgent
              /\ dialled' = dialled /\ Accepted' = Accepted /\ next' = next + 1
              /\ place[Master] = "collect"
            BY <1>1, <1>6, <2>1 DEF Collect, Types
        <3>4. MasterInv'
            BY <3>3 DEF BarrierInv, MasterInv
        <3>5. ASSUME NEW b \in Agents PROVE AgentInv(b)'
            BY <3>2, <3>3 DEF BarrierInv, AgentInv
        <3>6. HeardInv'
            <4>1. ASSUME NEW i \in 1..Len(conns), i < next + 1 PROVE place[conns[i]] \in Arrived
                <5>1. i = next \/ i < next
                    BY <4>1 DEF Types
                <5> QED
                    BY <3>1, <3>3, <5>1 DEF BarrierInv, HeardInv
            <4> QED
                BY <3>3, <4>1 DEF HeardInv
        <3> QED
            BY <3>4, <3>5, <3>6 DEF BarrierInv
    <2>2. CASE next > Len(conns)
        <3>1. \A b \in Agents : place[b] \in Arrived
            <4>1. Accepted = Agents /\ \A i \in 1..Len(conns) : i < next
                BY <1>6, <2>2 DEF Collect, BarrierInv, MasterInv, Types
            <4>2. \A i \in 1..Len(conns) : place[conns[i]] \in Arrived
                BY <1>6, <4>1 DEF Collect, BarrierInv, HeardInv
            <4> QED
                BY <4>1, <4>2 DEF Accepted
        <3>2. /\ place'[Master] = "release" /\ place[Master] = "collect"
              /\ conns' = conns /\ ready' = ready /\ toAgent' = toAgent
              /\ dialled' = dialled /\ Accepted' = Accepted /\ toMaster' = toMaster
              /\ \A b \in Agents : place'[b] = place[b]
            BY <1>0, <1>1, <1>6, <2>2 DEF Collect, Go, Types
        <3>3. MasterInv'
            BY <3>2 DEF BarrierInv, MasterInv
        <3>4. ASSUME NEW b \in Agents PROVE AgentInv(b)'
            BY <3>2 DEF BarrierInv, AgentInv
        <3>5. HeardInv'
            BY <3>1, <3>2 DEF HeardInv
        <3> QED
            BY <3>3, <3>4, <3>5 DEF BarrierInv
    <2> QED
        BY <1>6, <2>1, <2>2 DEF Collect
<1>7. CASE Release
    <2>1. /\ place[Master] = "release" /\ place'[Master] \in {"release", "run"}
          /\ conns' = conns /\ ready' = ready /\ toMaster' = toMaster
          /\ dialled' = dialled /\ Accepted' = Accepted
          /\ \A b \in Agents : place'[b] = place[b]
        BY <1>0, <1>1, <1>7 DEF Release, Go, Types
    <2>2. MasterInv'
        BY <2>1 DEF BarrierInv, MasterInv
    <2>3. ASSUME NEW b \in Agents PROVE AgentInv(b)'
        <3>1. AgentInv(b) /\ b \in Accepted
            BY <2>1 DEF BarrierInv, MasterInv
        <3> QED
            BY <2>1, <3>1 DEF AgentInv
    <2>4. HeardInv'
        BY <2>1 DEF BarrierInv, HeardInv
    <2> QED
        BY <2>2, <2>3, <2>4 DEF BarrierInv
<1>8. CASE EndMaster
    BY <1>0, <1>1, <1>8, SMTT(60) DEF EndMaster, Go, BarrierInv, MasterInv, AgentInv, HeardInv, Types
<1>9. CASE ReadStats \/ ReadUnits
    <2>1. \A b \in Agents : toMaster'[b] # <<>> => toMaster[b] # <<>>
        BY <1>9, Zenon DEF ReadStats, ReadUnits, ReadFrom, Types
    <2>2. /\ place[Master] \in Past /\ place'[Master] \in Past \cup {"dead"}
          /\ place'[Master] \notin {"start", "prepare", "accept", "collect"}
          /\ \A b \in Agents : place'[b] = place[b]
        BY <1>0, <1>9, Zenon DEF ReadStats, ReadUnits, Go, Types
    <2>3. /\ conns' = conns /\ ready' = ready /\ toAgent' = toAgent /\ dialled' = dialled
          /\ Accepted' = Accepted
        BY <1>1, <1>9 DEF ReadStats, ReadUnits
    <2>4. MasterInv'
        BY <2>2, <2>3 DEF BarrierInv, MasterInv
    <2>5. ASSUME NEW b \in Agents PROVE AgentInv(b)'
        BY <2>1, <2>2, <2>3 DEF BarrierInv, AgentInv
    <2>6. HeardInv'
        BY <2>2, <2>3 DEF BarrierInv, HeardInv
    <2> QED
        BY <2>4, <2>5, <2>6 DEF BarrierInv
<1>10. ASSUME NEW a \in Agents, AgentStep(a) \/ Die(a) PROVE BarrierInv'
    <2>1. /\ place'[Master] = place[Master] /\ conns' = conns /\ next' = next
          /\ ready' = ready /\ Accepted' = Accepted
          /\ \A b \in Agents \ {a} :
                /\ place'[b] = place[b] /\ toAgent'[b] = toAgent[b]
                /\ toMaster'[b] = toMaster[b]
                /\ b \in dialled' => b \in dialled
        BY <1>0, <1>1, <1>10, Zenon DEF AgentStep, Dial, GetSettings, WaitAgent, Released, SendStats,
           SendUnits, Die, Go, WriteFull, Types
    <2>2. place[a] \in Arrived => place'[a] \in Arrived
        BY <1>0, <1>10 DEF AgentStep, Dial, GetSettings, WaitAgent, Released, SendStats,
           SendUnits, Die, Go, Types
    <2>3. AgentInv(a)'
        <3>1. AgentInv(a) /\ MasterInv /\ HeardInv
            BY DEF BarrierInv
        <3>2. /\ toAgent[a] # <<>> => Len(Tail(toAgent[a])) = Len(toAgent[a]) - 1
              /\ Len(toAgent[a]) \in Nat /\ (Len(toAgent[a]) = 0 <=> toAgent[a] = <<>>)
              /\ toAgent[a] # <<>> => (Len(Tail(toAgent[a])) = 0 <=> Tail(toAgent[a]) = <<>>)
            BY Streams, Zenon DEF Types
        <3>3. CASE Dial(a)
            BY <1>0, <2>1, <3>1, <3>3, Zenon DEF Dial, Go, AgentInv, MasterInv, Types
        <3>4. CASE GetSettings(a)
            BY <1>0, <2>1, <3>1, <3>2, <3>4
            DEF GetSettings, Go, Ended, AgentInv, HeardInv, Types
        <3>5. CASE WaitAgent(a)
            BY <1>0, <2>1, <3>1, <3>5 DEF WaitAgent, Go, AgentInv, Types
        <3>6. CASE Released(a)
            BY <1>0, <2>1, <3>1, <3>2, <3>6 DEF Released, Ended, Go, AgentInv, Types
        <3>7. CASE SendStats(a) \/ SendUnits(a)
            BY <1>0, <2>1, <3>1, <3>7 DEF SendStats, SendUnits, Go, AgentInv, Types
        <3>8. CASE Die(a)
            BY <1>0, <2>1, <3>1, <3>8 DEF Die, Ended, Go, AgentInv, Types
        <3> QED
            BY <1>10, <3>3, <3>4, <3>5, <3>6, <3>7, <3>8 DEF AgentStep
    <2>4. ASSUME NEW b \in Agents \ {a} PROVE AgentInv(b)'
        <3>1. AgentInv(b) /\ place'[b] = place[b] /\ toAgent'[b] = toAgent[b]
              /\ toMaster'[b] = toMaster[b] /\ (b \in dialled' => b \in dialled)
            BY <2>1 DEF BarrierInv
        <3> QED
            BY <2>1, <3>1 DEF AgentInv
    <2>5. MasterInv'
        BY <2>1 DEF BarrierInv, MasterInv
    <2>6. \A b \in Agents : place[b] \in Arrived => place'[b] \in Arrived
        BY <2>1, <2>2
    <2>7. HeardInv'
        BY <1>0, <2>1, <2>6 DEF BarrierInv, HeardInv
    <2> QED
        BY <2>3, <2>4, <2>5, <2>7 DEF BarrierInv
<1>11. ASSUME NEW c \in Clients, Worker(c) PROVE BarrierInv'
    <2>1. /\ place' = place /\ conns' = conns /\ next' = next /\ toAgent' = toAgent
          /\ toMaster' = toMaster /\ dialled' = dialled /\ Accepted' = Accepted
        BY <1>1, <1>11 DEF Worker, WorkerReady, WorkerFinish
    <2>2. \A d \in Clients : place[d] # "prepare" => ready'[d] = ready[d]
        BY <1>11 DEF Worker, WorkerReady, WorkerFinish, Types
    <2>3. MasterInv'
        BY <1>0, <2>1, <2>2 DEF BarrierInv, MasterInv
    <2>4. ASSUME NEW b \in Agents PROVE AgentInv(b)'
        <3>1. AgentInv(b) /\ (place[b] # "prepare" => ready'[b] = ready[b])
            BY <1>0, <2>2 DEF BarrierInv
        <3> QED
            BY <2>1, <3>1 DEF AgentInv
    <2>5. HeardInv'
        BY <2>1 DEF BarrierInv, HeardInv
    <2> QED
        BY <2>3, <2>4, <2>5 DEF BarrierInv
<1>12. CASE Die(Master)
    <2>1. /\ conns' = conns /\ ready' = ready /\ toAgent' = toAgent /\ dialled' = dialled
          /\ Accepted' = Accepted /\ toMaster' = toMaster /\ place'[Master] = "dead"
          /\ \A b \in Agents : place'[b] = place[b]
        BY <1>0, <1>1, <1>12 DEF Die, Go, Types
    <2>2. MasterInv'
        BY <2>1 DEF BarrierInv, MasterInv
    <2>3. ASSUME NEW b \in Agents PROVE AgentInv(b)'
        BY <2>1 DEF BarrierInv, AgentInv
    <2>4. HeardInv'
        BY <2>1 DEF HeardInv
    <2> QED
        BY <2>2, <2>3, <2>4 DEF BarrierInv
<1>13. CASE UNCHANGED vars
    BY <1>1, <1>13 DEF vars, BarrierInv, MasterInv, AgentInv, HeardInv
<1> QED
    BY <1>2, <1>3, <1>4, <1>5, <1>6, <1>7, <1>8, <1>9, <1>10, <1>11, <1>12, <1>13
    DEF Next, MasterStep, Clients

\* While the master lives, no client of netbench_client.go generates load
\* before the workers of every client that lives are ready, for any number of
\* agents and of connections, whoever dies and when.
THEOREM ClientsStartTogether == Spec => []StartTogether
<1>1. Types /\ BarrierInv => StartTogether
    BY BarrierAssumption
    DEF Types, BarrierInv, MasterInv, AgentInv, HeardInv, StartTogether, Past, Arrived, Places, Clients
<1> QED
    BY <1>1, TypesInit, TypesStep, BarrierInit, BarrierStep, PTL DEF Spec

-----------------------------------------------------------------------------
(* The report.  ReportIsComplete needs to know what each stream has carried: *)
(* what was read from an agent and what is under way to the master are the   *)
(* messages the agent has written, in order, until a read fails; and after a *)
(* failed read every later one of that agent fails as well, since it has     *)
(* ended and its stream is empty.  So a master that got the work units of an *)
(* agent has got its byte and its statistics before.                         *)

\* The i-th message of an agent.
Message == [i \in Nat |-> IF i = 1 THEN "byte" ELSE IF i = 2 THEN "stats" ELSE "units"]

Written(a) == Len(read[a]) + Len(toMaster[a])

\* Everything that the agent has written was read or is under way.
Whole(a) ==
    /\ Written(a) <= 3
    /\ place[a] \in {"start", "settings", "prepare"} => Written(a) = 0
    /\ place[a] \in {"wait", "run"} => Written(a) = 1
    /\ place[a] = "units" => Written(a) = 2
    /\ \A i \in 1..Len(read[a]) : read[a][i] = Message[i]
    /\ \A i \in 1..Len(toMaster[a]) : toMaster[a][i] = Message[Len(read[a]) + i]

\* The last read of the agent has failed, as will all that follow.
Failed(a) ==
    /\ Ended(a) /\ toMaster[a] = <<>>
    /\ Len(read[a]) >= 1 /\ read[a][Len(read[a])] = Nothing

\* The master has read once more from the first agents, k times from the others.
Rounds(k) ==
    \A i \in 1..Len(conns) : Len(read[conns[i]]) = IF i < next THEN k + 1 ELSE k

\* How far the master's loops over its agents have come.
LoopInv ==
    /\ \A i, j \in 1..Len(conns) : conns[i] = conns[j] => i = j
    /\ place[Master] = "run" => next = 1
    /\ place[Master] \in {"start", "accept", "prepare"} => \A a \in Agents : Len(read[a]) = 0
    /\ place[Master] = "collect" => Rounds(0)
    /\ place[Master] \in {"release", "run"} => \A a \in Agents : Len(read[a]) = 1
    /\ place[Master] = "stats" => Rounds(1)
    /\ place[Master] = "units" =>
          Rounds(2) /\ \A i \in 1..Len(conns) : i < next => read[conns[i]][3] # Nothing
    /\ place[Master] = "done" => \A a \in Agents : Len(read[a]) = 3 /\ read[a][3] # Nothing

ReportInv ==
    /\ read \in [Agents -> Seq(Msgs \cup {Nothing})]
    /\ \A a \in Agents : Whole(a) \/ Failed(a)
    /\ LoopInv

\* Appending to a sequence, and taking its head, by positions.
LEMMA Positions ==
    ASSUME NEW S, NEW seq \in Seq(S)
    PROVE  /\ \A x \in S : \A i \in 1..(Len(seq) + 1) :
                 Append(seq, x)[i] = IF i = Len(seq) + 1 THEN x ELSE seq[i]
           /\ seq # <<>> => /\ Head(seq) = seq[1]
                            /\ \A i \in 1..(Len(seq) - 1) : Tail(seq)[i] = seq[i + 1]
BY EmptySeq, AppendProperties, HeadTailProperties

LEMMA Sums ==
    ASSUME NEW x \in Nat, NEW y \in Nat
    PROVE  /\ (x + 1) + (y - 1) = x + y /\ x + (y + 1) = (x + 1) + y
           /\ x + (y + 1) = (x + y) + 1 /\ x + y \in Nat
OBVIOUS

\* A read of the master adds one message to what it has of that agent, and
\* keeps the rest of the stream in order.
LEMMA ReadStep ==
    ASSUME Types, ReportInv, NEW a \in Agents, ReadFrom(a), place'[a] = place[a]
    PROVE  /\ read' \in [Agents -> Seq(Msgs \cup {Nothing})]
           /\ \A b \in Agents \ {a} : read'[b] = read[b] /\ toMaster'[b] = toMaster[b]
           /\ Len(read'[a]) = Len(read[a]) + 1
           /\ read'[a][Len(read[a]) + 1] = ReadOf(a)
           /\ (Whole(a) \/ Failed(a))'
<1> DEFINE M == Msgs \cup {Nothing}
<1>1. read[a] \in Seq(M) /\ toMaster[a] \in Seq(Msgs)
    BY DEF Types, ReportInv
<1>2. ReadOf(a) \in M
    <2>1. CASE toMaster[a] # <<>>
        <3>1. Head(toMaster[a]) \in Msgs
            BY <1>1, <2>1, HeadTailProperties
        <3> QED
            BY <2>1, <3>1 DEF ReadOf
    <2>2. CASE toMaster[a] = <<>>
        BY <2>2 DEF ReadOf
    <2> QED
        BY <2>1, <2>2
<1>3. /\ read' = [read EXCEPT ![a] = Append(read[a], ReadOf(a))]
      /\ toMaster' = [toMaster EXCEPT ![a] = IF toMaster[a] # <<>> THEN Tail(toMaster[a])
                                                                    ELSE toMaster[a]]
    BY DEF ReadFrom
<1>4. /\ read'[a] = Append(read[a], ReadOf(a))
      /\ toMaster'[a] = IF toMaster[a] # <<>> THEN Tail(toMaster[a]) ELSE toMaster[a]
      /\ \A b \in Agents \ {a} : read'[b] = read[b] /\ toMaster'[b] = toMaster[b]
    BY <1>3 DEF Types, ReportInv
<1>5. Append(read[a], ReadOf(a)) \in Seq(M) /\ Len(Append(read[a], ReadOf(a))) = Len(read[a]) + 1
    BY <1>1, <1>2, Streams
<1>6. read' \in [Agents -> Seq(M)]
    BY <1>3, <1>5 DEF ReportInv
<1>7. Len(read[a]) \in Nat /\ Len(toMaster[a]) \in Nat
    BY <1>1, Streams
<1>8. \A i \in 1..(Len(read[a]) + 1) :
         read'[a][i] = IF i = Len(read[a]) + 1 THEN ReadOf(a) ELSE read[a][i]
    BY <1>1, <1>2, <1>4, Positions
<1>9. Len(read'[a]) = Len(read[a]) + 1 /\ read'[a][Len(read[a]) + 1] = ReadOf(a)
    BY <1>4, <1>5, <1>7, <1>8
<1>10. (Whole(a) \/ Failed(a))'
    <2>1. CASE toMaster[a] = <<>>
        <3>1. ReadOf(a) = Nothing /\ toMaster'[a] = <<>> /\ Ended(a)
            BY <1>4, <2>1 DEF ReadOf, ReadFrom, CanRead
        <3>2. Ended(a)'
            BY <3>1 DEF Ended
        <3>3. Len(read'[a]) >= 1 /\ read'[a][Len(read'[a])] = Nothing
            BY <1>7, <1>9, <3>1
        <3> QED
            BY <3>1, <3>2, <3>3 DEF Failed
    <2>2. CASE toMaster[a] # <<>>
        <3>1. Whole(a)
            BY <2>2 DEF ReportInv, Failed
        <3>2. /\ toMaster'[a] = Tail(toMaster[a]) /\ ReadOf(a) = toMaster[a][1]
              /\ Len(toMaster'[a]) = Len(toMaster[a]) - 1 /\ Len(toMaster[a]) >= 1
              /\ \A i \in 1..(Len(toMaster[a]) - 1) : toMaster'[a][i] = toMaster[a][i + 1]
            BY <1>1, <1>4, <1>7, <2>2, Streams, Positions, SMTT(60) DEF ReadOf
        <3>3. Written(a)' = Written(a)
            <4>1. (Len(read[a]) + 1) + (Len(toMaster[a]) - 1) = Len(read[a]) + Len(toMaster[a])
                BY <1>7, Sums, Zenon
            <4> QED
                BY <1>9, <3>2, <4>1, Zenon DEF Written
        <3>4. ReadOf(a) = Message[Len(read[a]) + 1]
            BY <1>7, <3>1, <3>2, SMTT(60) DEF Whole
        <3>5. \A i \in 1..Len(read'[a]) : read'[a][i] = Message[i]
            BY <1>7, <1>8, <1>9, <3>1, <3>4 DEF Whole
        <3>6. ASSUME NEW i \in 1..Len(toMaster'[a])
              PROVE  toMaster'[a][i] = Message[Len(read'[a]) + i]
            <4>1. i + 1 \in 1..Len(toMaster[a]) /\ i \in 1..(Len(toMaster[a]) - 1)
                BY <1>7, <3>2
            <4>2. toMaster[a][i + 1] = Message[Len(read[a]) + (i + 1)]
                BY <3>1, <4>1, Zenon DEF Whole
            <4>3. Len(read[a]) + (i + 1) = Len(read'[a]) + i
                <5>1. i \in Nat
                    BY <4>1
                <5>2. Len(read[a]) + (i + 1) = (Len(read[a]) + 1) + i
                    BY <1>7, <5>1, Sums, Zenon
                <5> QED
                    BY <1>9, <5>2, Zenon
            <4> QED
                BY <3>2, <4>1, <4>2, <4>3, Zenon
        <3> QED
            BY <3>1, <3>3, <3>5, <3>6 DEF Whole
    <2> QED
        BY <2>1, <2>2
<1> QED
    BY <1>4, <1>6, <1>9, <1>10, Zenon

\* Nothing but reads and writes touches what a stream has carried.
LEMMA StreamKept ==
    ASSUME NEW a \in Agents, Whole(a) \/ Failed(a),
           read'[a] = read[a], toMaster'[a] = toMaster[a],
           place'[a] = place[a] \/ place'[a] = "dead"
    PROVE  (Whole(a) \/ Failed(a))'
<1>1. Written(a)' = Written(a)
    BY DEF Written
<1>2. CASE Whole(a)
    BY <1>1, <1>2 DEF Whole
<1>3. CASE Failed(a)
    BY <1>3 DEF Failed, Ended
<1> QED
    BY <1>2, <1>3

\* A write of an agent is its next message.
LEMMA WriteStep ==
    ASSUME Types, ReportInv, NEW a \in Agents, NEW m \in Msgs, WriteFull(a, m), ~Ended(a),
           read'[a] = read[a], m = Message[Written(a) + 1],
           \/ Written(a) = 0 /\ place'[a] = "wait"
           \/ Written(a) = 1 /\ place'[a] = "units"
           \/ Written(a) = 2 /\ place'[a] = "done"
    PROVE  Whole(a)'
<1>1. Whole(a) /\ read[a] \in Seq(Msgs \cup {Nothing}) /\ toMaster[a] \in Seq(Msgs)
    BY DEF ReportInv, Failed, Types
<1>2. toMaster'[a] = Append(toMaster[a], m)
    BY DEF WriteFull, Types
<1>3. Len(read[a]) \in Nat /\ Len(toMaster[a]) \in Nat
    BY <1>1, Streams
<1>4. Len(toMaster'[a]) = Len(toMaster[a]) + 1
    BY <1>1, <1>2, Streams
<1>5. \A i \in 1..(Len(toMaster[a]) + 1) :
         toMaster'[a][i] = IF i = Len(toMaster[a]) + 1 THEN m ELSE toMaster[a][i]
    BY <1>1, <1>2, Positions
<1>6. Written(a)' = Written(a) + 1 /\ Written(a) \in Nat
    <2>1. Len(read[a]) + (Len(toMaster[a]) + 1) = (Len(read[a]) + Len(toMaster[a])) + 1
          /\ Len(read[a]) + Len(toMaster[a]) \in Nat
        BY <1>3, Sums, Zenon
    <2> QED
        BY <1>4, <2>1, Zenon DEF Written
<1>7. ASSUME NEW i \in 1..Len(toMaster'[a])
      PROVE  toMaster'[a][i] = Message[Len(read[a]) + i]
    <2>1. CASE i = Len(toMaster[a]) + 1
        <3>1. Len(read[a]) + i = Written(a) + 1
            BY <1>3, <2>1, Sums, Zenon DEF Written
        <3> QED
            BY <1>4, <1>5, <2>1, <3>1, Zenon
    <2>2. CASE i # Len(toMaster[a]) + 1
        BY <1>1, <1>3, <1>4, <1>5, <2>2 DEF Whole
    <2> QED
        BY <2>1, <2>2
<1>8. \A i \in 1..Len(read[a]) : read[a][i] = Message[i]
    BY <1>1 DEF Whole
<1>9. /\ Written(a)' <= 3
      /\ place'[a] \in {"start", "settings", "prepare"} => Written(a)' = 0
      /\ place'[a] \in {"wait", "run"} => Written(a)' = 1
      /\ place'[a] = "units" => Written(a)' = 2
    BY <1>6
<1> QED
    BY <1>7, <1>8, <1>9, Zenon DEF Whole

\* A step of a loop over the agents, and its end.
LEMMA RoundStep ==
    ASSUME Types, ReportInv, NEW k \in Nat, Rounds(k), conns' = conns, next' = next + 1,
           next <= Len(conns), ReadFrom(conns[next]), \A a \in Agents : place'[a] = place[a]
    PROVE  /\ Rounds(k)' /\ conns[next] \in Agents
           /\ read'[conns[next]][k + 1] = ReadOf(conns[next])
           /\ \A i \in 1..Len(conns) : i < next => read'[conns[i]] = read[conns[i]]
           /\ read' \in [Agents -> Seq(Msgs \cup {Nothing})]
           /\ \A a \in Agents : (Whole(a) \/ Failed(a))'
<1>1. /\ next \in 1..Len(conns) /\ Len(conns) \in Nat
      /\ \A i \in 1..Len(conns) : conns[i] \in Agents
    BY DEF Types
<1>2. PICK c \in Agents : c = conns[next]
    BY <1>1
<1>3. \A i \in 1..Len(conns) : i # next => conns[i] \in Agents \ {c}
    BY <1>1, <1>2 DEF ReportInv, LoopInv
<1>4. /\ read' \in [Agents -> Seq(Msgs \cup {Nothing})]
      /\ \A b \in Agents \ {c} : read'[b] = read[b] /\ toMaster'[b] = toMaster[b]
      /\ Len(read'[c]) = Len(read[c]) + 1
      /\ read'[c][Len(read[c]) + 1] = ReadOf(c)
      /\ (Whole(c) \/ Failed(c))'
    BY <1>2, ReadStep
<1>5. Len(read[c]) = k
    BY <1>1, <1>2 DEF Rounds
<1>6. ASSUME NEW i \in 1..Len(conns)
      PROVE  Len(read'[conns[i]]) = IF i < next + 1 THEN k + 1 ELSE k
    <2>1. CASE i = next
        <3>1. i < next + 1
            BY <1>1, <2>1
        <3> QED
            BY <1>2, <1>4, <1>5, <2>1, <3>1, Zenon
    <2>2. CASE i # next
        <3>1. read'[conns[i]] = read[conns[i]]
            BY <1>3, <1>4, <2>2, Zenon
        <3>2. i < next + 1 <=> i < next
            BY <1>1, <2>2
        <3>3. Len(read[conns[i]]) = IF i < next THEN k + 1 ELSE k
            BY Zenon DEF Rounds
        <3> QED
            BY <3>1, <3>2, <3>3, Zenon
    <2> QED
        BY <2>1, <2>2
<1>7. Rounds(k)'
    BY <1>6, Zenon DEF Rounds
<1>8. \A i \in 1..Len(conns) : i < next => read'[conns[i]] = read[conns[i]]
    <2>1. \A i \in 1..Len(conns) : i < next => i # next
        BY <1>1
    <2> QED
        BY <1>3, <1>4, <2>1, Zenon
<1>9. ASSUME NEW b \in Agents PROVE (Whole(b) \/ Failed(b))'
    <2>1. CASE b = c
        BY <1>4, <2>1
    <2>2. CASE b # c
        <3>1. read'[b] = read[b] /\ toMaster'[b] = toMaster[b] /\ place'[b] = place[b]
              /\ (Whole(b) \/ Failed(b))
            BY <1>4, <2>2 DEF ReportInv
        <3> QED
            BY <3>1, StreamKept
    <2> QED
        BY <2>1, <2>2
<1> QED
    BY <1>2, <1>4, <1>5, <1>7, <1>8, <1>9, Zenon

LEMMA RoundEnd ==
    ASSUME Types, NEW k \in Nat, Rounds(k), next > Len(conns), Accepted = Agents
    PROVE  \A a \in Agents : Len(read[a]) = k + 1
<1>1. \A i \in 1..Len(conns) : i < next
    BY DEF Types
<1>2. \A i \in 1..Len(conns) : Len(read[conns[i]]) = k + 1
    BY <1>1, Zenon DEF Rounds
<1> QED
    BY <1>2 DEF Accepted

\* What the master has of the agents holds at first ...
LEMMA ReportInit == Init => ReportInv
<1> SUFFICES ASSUME Init PROVE ReportInv
    OBVIOUS
<1>1. read = [a \in Agents |-> <<>>] /\ <<>> \in Seq(Msgs \cup {Nothing}) /\ conns = <<>>
    BY DEF Init
<1>2. place[Master] = "start" /\ \A a \in Agents : place[a] = "start"
    BY DEF Init, Clients
<1>3. \A a \in Agents : read[a] = <<>> /\ toMaster[a] = <<>>
    BY DEF Init
<1>4. \A a \in Agents : Len(read[a]) = 0 /\ Len(toMaster[a]) = 0
    BY <1>3
<1>5. ASSUME NEW a \in Agents PROVE Whole(a)
    <2>1. Written(a) = 0 /\ place[a] = "start"
        <3>1. 0 + 0 = 0
            OBVIOUS
        <3> QED
            BY <1>2, <1>4, <3>1, Zenon DEF Written
    <2>2. 1..Len(read[a]) = {} /\ 1..Len(toMaster[a]) = {}
        BY <1>4
    <2>3. /\ \A i \in 1..Len(read[a]) : read[a][i] = Message[i]
          /\ \A i \in 1..Len(toMaster[a]) : toMaster[a][i] = Message[Len(read[a]) + i]
        BY <2>2, Zenon
    <2>4. /\ Written(a) <= 3
          /\ place[a] \in {"wait", "run"} => Written(a) = 1
          /\ place[a] = "units" => Written(a) = 2
        BY <2>1
    <2> QED
        BY <2>1, <2>3, <2>4, Zenon DEF Whole
<1>6. LoopInv
    BY <1>1, <1>2, <1>4 DEF LoopInv
<1> QED
    BY <1>1, <1>5, <1>6 DEF ReportInv

\* ... and is kept.
LEMMA ReportStep == Types /\ BarrierInv /\ ReportInv /\ [Next]_vars => ReportInv'
<1> SUFFICES ASSUME Types, BarrierInv, ReportInv, [Next]_vars PROVE ReportInv'
    OBVIOUS
<1>0. /\ Master \in Clients /\ Agents \subseteq Clients /\ Master \notin Agents
      /\ Len(conns) \in Nat /\ next \in Nat
      /\ \A i \in 1..Len(conns) : conns[i] \in Agents
    BY BarrierAssumption DEF Clients, Types
<1>1. ASSUME read' = read, toMaster' = toMaster, LoopInv',
             \A a \in Agents : place'[a] = place[a] \/ place'[a] = "dead"
      PROVE  ReportInv'
    <2>1. ASSUME NEW a \in Agents PROVE (Whole(a) \/ Failed(a))'
        <3>1. read'[a] = read[a] /\ toMaster'[a] = toMaster[a] /\ (Whole(a) \/ Failed(a))
            BY <1>1 DEF ReportInv
        <3> QED
            BY <1>1, <3>1, StreamKept
    <2> QED
        BY <1>1, <2>1 DEF ReportInv
<1>2. ASSUME NEW p, Go(Master, p)
      PROVE  place'[Master] = p /\ \A a \in Agents : place'[a] = place[a]
    BY <1>0, <1>2 DEF Go, Types
<1>3. ASSUME conns' = conns PROVE Accepted' = Accepted
    BY <1>3 DEF Accepted
<1>4. CASE Listen \/ AcceptedAll
    <2>1. /\ read' = read /\ toMaster' = toMaster /\ conns' = conns
          /\ place[Master] \in {"start", "accept"} /\ place'[Master] \in {"accept", "prepare"}
          /\ \A a \in Agents : place'[a] = place[a]
        BY <1>2, <1>4 DEF Listen, AcceptedAll
    <2>2. LoopInv'
        BY <2>1 DEF ReportInv, LoopInv
    <2> QED
        BY <1>1, <2>1, <2>2
<1>5. CASE WaitMaster \/ EndMaster
    <2>1. /\ read' = read /\ toMaster' = toMaster /\ conns' = conns /\ next' = next /\ next = 1
          /\ \A a \in Agents : place'[a] = place[a]
          /\ \/ place[Master] = "prepare" /\ place'[Master] = "collect"
             \/ place[Master] = "run" /\ place'[Master] = "stats"
        BY <1>2, <1>5 DEF WaitMaster, EndMaster, BarrierInv, MasterInv, ReportInv, LoopInv
    <2>2. \A i \in 1..Len(conns) : ~(i < next)
        BY <2>1
    <2>3. /\ place[Master] = "prepare" => Rounds(0)'
          /\ place[Master] = "run" => Rounds(1)'
        BY <1>0, <2>1, <2>2, Zenon DEF Rounds, ReportInv, LoopInv
    <2>4. LoopInv'
        BY <2>1, <2>3 DEF ReportInv, LoopInv
    <2> QED
        BY <1>1, <2>1, <2>4
<1>6. ASSUME NEW a \in Agents, Accept(a) PROVE ReportInv'
    <2>1. /\ conns \in Seq(Agents) /\ conns' = Append(conns, a) /\ place' = place /\ read' = read
          /\ toMaster' = toMaster /\ place[Master] = "accept"
          /\ \A i \in 1..Len(conns) : conns[i] # a
        <3>1. conns \in Seq(Agents) /\ DOMAIN conns = 1..Len(conns)
            BY DEF Types
        <3> QED
            BY <1>6, <3>1, Zenon DEF Accept
    <2>2. /\ Len(conns') = Len(conns) + 1
          /\ \A i \in 1..(Len(conns) + 1) :
                conns'[i] = IF i = Len(conns) + 1 THEN a ELSE conns[i]
        BY <2>1, Streams, Positions, SMTT(60)
    <2>3. \A i, j \in 1..Len(conns) : conns[i] = conns[j] => i = j
        BY DEF ReportInv, LoopInv
    <2>4. \A i, j \in 1..Len(conns') : conns'[i] = conns'[j] => i = j
        BY <1>0, <2>1, <2>2, <2>3
    <2>5. LoopInv'
        BY <2>1, <2>4 DEF ReportInv, LoopInv
    <2> QED
        BY <1>1, <2>1, <2>5
<1>7. CASE Collect
    <2>1. place[Master] = "collect" /\ conns' = conns /\ Rounds(0) /\ Accepted = Agents
        BY <1>7 DEF Collect, ReportInv, LoopInv, BarrierInv, MasterInv, Past
    <2>2. CASE next <= Len(conns) /\ ReadFrom(conns[next]) /\ next' = next + 1 /\ UNCHANGED place
        <3>1. /\ Rounds(0)' /\ read' \in [Agents -> Seq(Msgs \cup {Nothing})]
              /\ \A a \in Agents : (Whole(a) \/ Failed(a))'
            BY <2>1, <2>2, RoundStep
        <3>2. LoopInv'
            BY <2>1, <2>2, <3>1 DEF ReportInv, LoopInv
        <3> QED
            BY <3>1, <3>2 DEF ReportInv
    <2>3. CASE next > Len(conns) /\ next' = 1 /\ Go(Master, "release")
               /\ UNCHANGED <<toMaster, read>>
        <3>1. \A a \in Agents : Len(read[a]) = 0 + 1
            BY <2>1, <2>3, RoundEnd, Zenon
        <3>2. place'[Master] = "release" /\ \A a \in Agents : place'[a] = place[a]
            BY <1>2, <2>3
        <3>3. LoopInv'
            BY <2>1, <2>3, <3>1, <3>2 DEF ReportInv, LoopInv
        <3> QED
            BY <1>1, <2>3, <3>2, <3>3
    <2> QED
        BY <1>7, <2>2, <2>3 DEF Collect
<1>8. CASE Release
    <2>1. /\ place[Master] = "release" /\ conns' = conns /\ read' = read /\ toMaster' = toMaster
          /\ \/ place' = place
             \/ /\ next' = 1 /\ place'[Master] = "run"
                /\ \A a \in Agents : place'[a] = place[a]
        BY <1>2, <1>8 DEF Release
    <2>2. LoopInv'
        BY <2>1 DEF ReportInv, LoopInv
    <2> QED
        BY <1>1, <2>1, <2>2
<1>9. CASE ReadStats
    <2>1. place[Master] = "stats" /\ conns' = conns /\ Rounds(1) /\ Accepted = Agents
        BY <1>9 DEF ReadStats, ReportInv, LoopInv, BarrierInv, MasterInv, Past
    <2>2. CASE next <= Len(conns) /\ ReadFrom(conns[next]) /\ next' = next + 1 /\ UNCHANGED place
        <3>1. /\ Rounds(1)' /\ read' \in [Agents -> Seq(Msgs \cup {Nothing})]
              /\ \A a \in Agents : (Whole(a) \/ Failed(a))'
            BY <2>1, <2>2, RoundStep
        <3>2. LoopInv'
            BY <2>1, <2>2, <3>1 DEF ReportInv, LoopInv
        <3> QED
            BY <3>1, <3>2 DEF ReportInv
    <2>3. CASE next > Len(conns) /\ next' = 1 /\ Go(Master, "units")
               /\ UNCHANGED <<toMaster, read>>
        <3>1. \A a \in Agents : Len(read[a]) = 1 + 1
            BY <2>1, <2>3, RoundEnd, Zenon
        <3>2. place'[Master] = "units" /\ \A a \in Agents : place'[a] = place[a]
            BY <1>2, <2>3
        <3>3. \A i \in 1..Len(conns) : ~(i < next')
            BY <1>0, <2>3
        <3>4. Rounds(2)'
            BY <1>0, <2>1, <2>3, <3>1, <3>3 DEF Rounds
        <3>5. LoopInv'
            BY <2>1, <2>3, <3>2, <3>3, <3>4 DEF ReportInv, LoopInv
        <3> QED
            BY <1>1, <2>3, <3>2, <3>5
    <2> QED
        BY <1>9, <2>2, <2>3 DEF ReadStats
<1>10. CASE ReadUnits
    <2>1. /\ place[Master] = "units" /\ conns' = conns /\ Rounds(2) /\ Accepted = Agents
          /\ \A i \in 1..Len(conns) : i < next => read[conns[i]][3] # Nothing
        BY <1>10 DEF ReadUnits, ReportInv, LoopInv, BarrierInv, MasterInv, Past
    <2>2. CASE /\ next <= Len(conns) /\ ReadFrom(conns[next]) /\ next' = next + 1
               /\ IF ReadOf(conns[next]) = Nothing THEN Go(Master, "dead") ELSE UNCHANGED place
        <3>1. \A a \in Agents : place'[a] = place[a]
            BY <1>2, <2>2
        <3>2. /\ Rounds(2)' /\ conns[next] \in Agents
              /\ read'[conns[next]][2 + 1] = ReadOf(conns[next])
              /\ \A i \in 1..Len(conns) : i < next => read'[conns[i]] = read[conns[i]]
              /\ read' \in [Agents -> Seq(Msgs \cup {Nothing})]
              /\ \A a \in Agents : (Whole(a) \/ Failed(a))'
            BY <2>1, <2>2, <3>1, RoundStep
        <3>3. CASE ReadOf(conns[next]) = Nothing
            <4>1. place'[Master] = "dead"
                BY <1>2, <2>2, <3>3
            <4>2. LoopInv'
                BY <2>1, <4>1 DEF ReportInv, LoopInv
            <4> QED
                BY <3>2, <4>2 DEF ReportInv
        <3>4. CASE ReadOf(conns[next]) # Nothing
            <4>1. place' = place
                BY <2>2, <3>4
            <4>2. ASSUME NEW i \in 1..Len(conns), i < next + 1
                  PROVE  read'[conns[i]][3] # Nothing
                <5>1. i = next \/ i < next
                    BY <1>0, <4>2
                <5>2. 2 + 1 = 3
                    OBVIOUS
                <5> QED
                    BY <2>1, <3>2, <3>4, <5>1, <5>2, Zenon
            <4>3. LoopInv'
                BY <2>1, <2>2, <3>2, <4>1, <4>2 DEF ReportInv, LoopInv
            <4> QED
                BY <3>2, <4>3 DEF ReportInv
        <3> QED
            BY <3>3, <3>4
    <2>3. CASE next > Len(conns) /\ Go(Master, "done") /\ UNCHANGED <<toMaster, read, next>>
        <3>1. \A a \in Agents : Len(read[a]) = 2 + 1
            BY <2>1, <2>3, RoundEnd, Zenon
        <3>2. \A a \in Agents : read[a][3] # Nothing
            <4>1. \A i \in 1..Len(conns) : i < next
                BY <1>0, <2>3
            <4> QED
                BY <2>1, <4>1, Zenon DEF Accepted
        <3>3. place'[Master] = "done" /\ \A a \in Agents : place'[a] = place[a]
            BY <1>2, <2>3
        <3>4. LoopInv'
            <4>1. \A i, j \in 1..Len(conns') : conns'[i] = conns'[j] => i = j
                BY <2>1 DEF ReportInv, LoopInv
            <4>2. 2 + 1 = 3
                OBVIOUS
            <4>3. \A a \in Agents : Len(read'[a]) = 3 /\ read'[a][3] # Nothing
                BY <2>3, <3>1, <3>2, <4>2, Zenon
            <4>4. place'[Master] \notin {"start", "accept", "prepare", "collect", "release",
                                         "run", "stats", "units"}
                BY <3>3
            <4> QED
                BY <3>3, <4>1, <4>3, <4>4 DEF LoopInv
        <3> QED
            BY <1>1, <2>3, <3>3, <3>4
    <2> QED
        BY <1>10, <2>2, <2>3 DEF ReadUnits
<1>11. ASSUME place'[Master] = place[Master], conns' = conns, next' = next, read' = read
       PROVE  LoopInv'
    <2>1. \A k : Rounds(k)' <=> Rounds(k)
        BY <1>11 DEF Rounds
    <2> QED
        BY <1>11, <2>1 DEF ReportInv, LoopInv
<1>12. ASSUME NEW a \in Agents, AgentStep(a) PROVE ReportInv'
    <2>1. /\ place'[Master] = place[Master] /\ conns' = conns /\ next' = next /\ read' = read
          /\ \A b \in Agents \ {a} : place'[b] = place[b] /\ toMaster'[b] = toMaster[b]
        BY <1>0, <1>12 DEF AgentStep, Dial, GetSettings, WaitAgent, Released, SendStats,
           SendUnits, Go, WriteFull, Types
    <2>2. Whole(a) \/ Failed(a)
        BY DEF ReportInv
    <2>3. ASSUME Dial(a) \/ GetSettings(a) \/ Released(a) PROVE Whole(a)'
        <3>1. /\ toMaster' = toMaster /\ ~Ended(a)
              /\ \/ /\ place[a] \in {"start", "settings", "prepare"}
                    /\ place'[a] \in {"start", "settings", "prepare", "dead"}
                 \/ place[a] = "wait" /\ place'[a] = "run"
            BY <1>0, <2>3 DEF Dial, GetSettings, Released, Go, Ended, Types
        <3>2. Whole(a) /\ Written(a)' = Written(a)
            BY <2>1, <2>2, <3>1 DEF Failed, Written
        <3> QED
            BY <2>1, <3>1, <3>2 DEF Whole
    <2>4. ASSUME WaitAgent(a) \/ SendStats(a) \/ SendUnits(a) PROVE Whole(a)'
        <3>1. ~Ended(a) /\ Whole(a)
            BY <2>2, <2>4 DEF WaitAgent, SendStats, SendUnits, Ended, Failed
        <3>2. PICK m \in Msgs :
                /\ WriteFull(a, m)
                /\ \/ m = "byte" /\ Written(a) = 0 /\ place'[a] = "wait"
                   \/ m = "stats" /\ Written(a) = 1 /\ place'[a] = "units"
                   \/ m = "units" /\ Written(a) = 2 /\ place'[a] = "done"
            <4>1. "byte" \in Msgs /\ "stats" \in Msgs /\ "units" \in Msgs
                BY DEF Msgs
            <4>2. CASE WaitAgent(a)
                <5>1. Written(a) = 0 /\ place'[a] = "wait"
                    BY <1>0, <3>1, <4>2 DEF WaitAgent, Go, Whole, Types
                <5> QED
                    BY <4>1, <4>2, <5>1, Zenon DEF WaitAgent
            <4>3. CASE SendStats(a)
                <5>1. Written(a) = 1 /\ place'[a] = "units"
                    BY <1>0, <3>1, <4>3 DEF SendStats, Go, Whole, Types
                <5> QED
                    BY <4>1, <4>3, <5>1, Zenon DEF SendStats
            <4>4. CASE SendUnits(a)
                <5>1. Written(a) = 2 /\ place'[a] = "done"
                    BY <1>0, <3>1, <4>4 DEF SendUnits, Go, Whole, Types
                <5> QED
                    BY <4>1, <4>4, <5>1, Zenon DEF SendUnits
            <4> QED
                BY <2>4, <4>2, <4>3, <4>4
        <3>3. m = Message[Written(a) + 1]
            <4>1. Message[0 + 1] = "byte" /\ Message[1 + 1] = "stats" /\ Message[2 + 1] = "units"
                BY DEF Message
            <4> QED
                BY <3>2, <4>1, Zenon
        <3> QED
            BY <2>1, <3>1, <3>2, <3>3, WriteStep
    <2>5. ASSUME NEW b \in Agents \ {a} PROVE (Whole(b) \/ Failed(b))'
        <3>1. Whole(b) \/ Failed(b)
            BY DEF ReportInv
        <3> QED
            BY <2>1, <3>1, StreamKept
    <2>6. Whole(a)'
        BY <1>12, <2>3, <2>4 DEF AgentStep
    <2>7. LoopInv'
        BY <1>11, <2>1
    <2> QED
        BY <2>1, <2>5, <2>6, <2>7 DEF ReportInv
<1>13. ASSUME NEW c \in Clients, Worker(c) PROVE ReportInv'
    <2>1. place' = place /\ conns' = conns /\ next' = next /\ read' = read /\ toMaster' = toMaster
        BY <1>13 DEF Worker, WorkerReady, WorkerFinish
    <2> QED
        BY <1>1, <1>11, <2>1
<1>14. ASSUME NEW c \in Clients, Die(c) PROVE ReportInv'
    <2>1. /\ conns' = conns /\ next' = next /\ read' = read /\ toMaster' = toMaster
          /\ \A d \in Clients : place'[d] = place[d] \/ place'[d] = "dead"
        BY <1>14 DEF Die, Go, Types
    <2>2. LoopInv'
        <3>1. CASE place'[Master] = place[Master]
            BY <1>11, <2>1, <3>1
        <3>2. CASE place'[Master] = "dead"
            BY <2>1, <3>2 DEF ReportInv, LoopInv
        <3> QED
            BY <1>0, <2>1, <3>1, <3>2
    <2> QED
        BY <1>0, <1>1, <2>1, <2>2
<1>15. CASE UNCHANGED vars
    <2>1. place' = place /\ conns' = conns /\ next' = next /\ read' = read /\ toMaster' = toMaster
        BY <1>15 DEF vars
    <2> QED
        BY <1>1, <1>11, <2>1
<1> QED
    BY <1>4, <1>5, <1>6, <1>7, <1>8, <1>9, <1>10, <1>12, <1>13, <1>14, <1>15
    DEF Next, MasterStep

\* EndExperiment: a master that comes to its report has read the byte, the
\* statistics and the work units of every agent, each once, whoever dies and
\* however many agents there are; an agent that died early makes it panic.
THEOREM MasterReportsEverything == Spec => []ReportIsComplete
<1>1. Types /\ ReportInv => ReportIsComplete
    <2> SUFFICES ASSUME Types, ReportInv, place[Master] = "done", NEW a \in Agents
                 PROVE  read[a] = <<"byte", "stats", "units">>
        BY DEF ReportIsComplete
    <2>1. read[a] \in Seq(Msgs \cup {Nothing}) /\ Len(read[a]) = 3 /\ read[a][3] # Nothing
        BY DEF ReportInv, LoopInv
    <2>2. Whole(a)
        <3>1. ~Failed(a)
            BY <2>1, Zenon DEF Failed
        <3> QED
            BY <3>1 DEF ReportInv
    <2>3. read[a][1] = Message[1] /\ read[a][2] = Message[2] /\ read[a][3] = Message[3]
        <3>1. 1 \in 1..Len(read[a]) /\ 2 \in 1..Len(read[a]) /\ 3 \in 1..Len(read[a])
            BY <2>1
        <3> QED
            BY <2>2, <3>1, Zenon DEF Whole
    <2>4. Message[1] = "byte" /\ Message[2] = "stats" /\ Message[3] = "units"
        BY DEF Message
    <2>5. read[a][1] = "byte" /\ read[a][2] = "stats" /\ read[a][3] = "units"
        BY <2>3, <2>4
    <2> QED
        BY <2>1, <2>5
<1> QED
    BY <1>1, TypesInit, TypesStep, BarrierInit, BarrierStep, ReportInit, ReportStep, PTL DEF Spec
=============================================================================

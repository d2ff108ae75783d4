----------------------------- MODULE PccDrained -----------------------------
(***************************************************************************)
(* The drained-session lists of the PCC server: per processor, a high- and *)
(* a low-priority list.  Sessions put themselves there when they have no   *)
(* credit and nothing pending, leave when a request of theirs arrives or   *)
(* their client goes, and are woken, one per unused credit, by the holder  *)
(* of SpccCtlLock.  One step is one list operation under its lock, and     *)
(* taking a session off its list includes waking it: what can happen to    *)
(* the session between the two is the subject of PccSession.  The search   *)
(* itself takes one step per list, and the sessions move meanwhile.        *)
(***************************************************************************)
EXTENDS Integers, Sequences, SequencesExt, FiniteSets

CONSTANTS Clients,   \* client sessions
          MaxProcs    \* runtime.GOMAXPROCS(0)

ASSUME DrainedAssumption == MaxProcs \in Nat \ {0}

ProcIds == 0..(MaxProcs - 1)

VARIABLES listH,        \* ListH of each processor's drained list
          listL,        \* ListL
          drainedProc,  \* s.DrainedProc, or -1
          demand,       \* whether s.Demand > 0
          scan,         \* the waker: where it is in its search
          steady        \* history: sessions drained since the search began

drainedVars == <<listH, listL, drainedProc, demand, scan, steady>>

NotScanning == [phase |-> "none", proc |-> 0, left |-> 0]

IsDrained(s) == drainedProc[s] # -1

DrainedInit ==
    /\ listH = [p \in ProcIds |-> <<>>]
    /\ listL = [p \in ProcIds |-> <<>>]
    /\ drainedProc = [s \in Clients |-> -1]
    /\ demand \in [Clients -> BOOLEAN]
    /\ scan = NotScanning
    /\ steady = {}

\* Mutant: the session goes to the head of the low-priority list.
DrainToHead(s, p) ==
    /\ ~IsDrained(s)
    /\ \/ /\ demand[s]
          /\ listH' = [listH EXCEPT ![p] = <<s>> \o @]
          /\ UNCHANGED listL
       \/ /\ ~demand[s]
          /\ listL' = [listL EXCEPT ![p] = <<s>> \o @]
          /\ UNCHANGED listH
    /\ drainedProc' = [drainedProc EXCEPT ![s] = p]
    /\ UNCHANGED <<demand, scan, steady>>

\* The session, on processor p, has no credit left and nothing pending.
Drain(s, p) ==
    /\ ~IsDrained(s)
    /\ \/ /\ demand[s]
          /\ listH' = [listH EXCEPT ![p] = <<s>> \o @]
          /\ UNCHANGED listL
       \/ /\ ~demand[s]
          /\ listL' = [listL EXCEPT ![p] = Append(@, s)]
          /\ UNCHANGED listH
    /\ drainedProc' = [drainedProc EXCEPT ![s] = p]
    /\ UNCHANGED <<demand, scan, steady>>

\* Mutant: the session is looked for on the low-priority list only.
UnlinkFromLOnly(s) ==
    /\ listL' = [p \in ProcIds |-> RemoveFirst(listL[p], s)]
    /\ UNCHANGED listH

\* DrainedLink.Del(), whichever list the session is on.
Unlink(s) ==
    /\ listH' = [listH EXCEPT ![drainedProc[s]] = RemoveFirst(@, s)]
    /\ listL' = [listL EXCEPT ![drainedProc[s]] = RemoveFirst(@, s)]

\* A request of s arrives with a new demand, or its client disconnects.
spccRemoveFromDrainedList(s) ==
    /\ IsDrained(s)
    /\ Unlink(s)
    /\ drainedProc' = [drainedProc EXCEPT ![s] = -1]
    /\ steady' = steady \ {s}
    /\ \E d \in BOOLEAN : demand' = [demand EXCEPT ![s] = d]
    /\ UNCHANGED scan

\* A credit update brings a new demand; the session stays where it is.
UpdateDemand(s) ==
    /\ demand' = [demand EXCEPT ![s] = ~@]
    /\ UNCHANGED <<listH, listL, drainedProc, scan, steady>>

\* spccWakeUpDrainedSession looks for a session, from the local processor p on.
StartSearch(p) ==
    /\ scan = NotScanning
    /\ scan' = [phase |-> "H", proc |-> p, left |-> MaxProcs]
    /\ steady' = {s \in Clients : IsDrained(s)}
    /\ UNCHANGED <<listH, listL, drainedProc, demand>>

\* Mutant: the search stops one remote processor short.
AdvanceSkipsLast(sc) ==
    LET next == (sc.proc + 1) % MaxProcs
    IN  IF sc.left > 2 THEN [sc EXCEPT !.proc = next, !.left = @ - 1]
        ELSE IF sc.phase = "H" THEN [phase |-> "L", proc |-> next, left |-> MaxProcs]
        ELSE NotScanning

\* Where the search goes when the list at hand yields nothing: the next
\* processor, then the low-priority lists from the local processor on.
Advance(sc) ==
    LET next == (sc.proc + 1) % MaxProcs
    IN  IF sc.left > 1 THEN [sc EXCEPT !.proc = next, !.left = @ - 1]
        ELSE IF sc.phase = "H" THEN [phase |-> "L", proc |-> next, left |-> MaxProcs]
        ELSE NotScanning

\* From the tail, the sessions past their demand timeout move to the tail of
\* the low-priority list.  DrainedTs is 0 in every session, so all of them do
\* and the list yields nothing.
spccChooseDrainedH ==
    /\ scan.phase = "H"
    /\ listL' = [listL EXCEPT ![scan.proc] = @ \o Reverse(listH[scan.proc])]
    /\ listH' = [listH EXCEPT ![scan.proc] = <<>>]
    /\ scan' = Advance(scan)
    /\ UNCHANGED <<drainedProc, demand, steady>>

\* The oldest session of the list, if any, gets a credit, which ends the search.
spccChooseDrainedL ==
    /\ scan.phase = "L"
    /\ LET l == listL[scan.proc]
       IN  \/ /\ l = <<>>
              /\ scan' = Advance(scan)
              /\ UNCHANGED <<listL, drainedProc, steady>>
           \/ /\ l # <<>>
              /\ listL' = [listL EXCEPT ![scan.proc] = Tail(l)]
              /\ drainedProc' = [drainedProc EXCEPT ![Head(l)] = -1]
              /\ steady' = steady \ {Head(l)}
              /\ scan' = NotScanning
    /\ UNCHANGED <<listH, demand>>

DrainedNext ==
    \/ \E s \in Clients, p \in ProcIds : Drain(s, p)
    \/ \E s \in Clients : \/ spccRemoveFromDrainedList(s) \/ UpdateDemand(s)
    \/ \E p \in ProcIds : StartSearch(p)
    \/ spccChooseDrainedH \/ spccChooseDrainedL

DrainedSpec == DrainedInit /\ [][DrainedNext]_drainedVars

\* A search that has begun goes on.  On every processor workers go on finding
\* unused credits: without requests nobody runs the controller, and a session
\* whose list's processor never searches can be passed over for ever.
FairDrainedSpec ==
    /\ DrainedSpec
    /\ WF_drainedVars(spccChooseDrainedH) /\ WF_drainedVars(spccChooseDrainedL)
    /\ \A p \in ProcIds : SF_drainedVars(StartSearch(p))
-----------------------------------------------------------------------------
\* A drained session is on exactly one list, once, of the processor that its
\* DrainedProc names, and another session is on none: spccChooseDrainedH's
\* demotions, spccRemoveFromDrainedList and the wake-ups lose no session and
\* leave none behind on a list.
OnOneList ==
    \A s \in Clients, p \in ProcIds :
        LET both == listH[p] \o listL[p]
        IN  Cardinality({i \in DOMAIN both : both[i] = s}) =
                IF drainedProc[s] = p THEN 1 ELSE 0

\* The loops of spccWakeUpDrainedSession visit every list: when a search finds
\* nobody, no session has been drained from its beginning to its end, wherever
\* the others moved meanwhile.
SearchIsComplete ==
    [][scan.phase = "L" /\ scan' = NotScanning /\ drainedProc' = drainedProc
          => steady = {}]_drainedVars

\* A drained session gets a credit, whatever lists it is moved between and
\* whoever is drained after it, under the fairness of FairDrainedSpec: its list
\* is first in, first out, though a search prefers the list of its own processor.
DrainedIsWoken == \A s \in Clients : IsDrained(s) ~> ~IsDrained(s)
=============================================================================

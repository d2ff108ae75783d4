----------------------------- MODULE PccClient -----------------------------
(***************************************************************************)
(* The client of the PCC protocol (pcc_client.go; the clients of Breakwater*)
(* and Protego are the same code) with one connection.  The session lock   *)
(* makes each operation one step; the timer goroutine sleeps on a          *)
(* condition variable or in time.Sleep between its steps.                  *)
(*                                                                         *)
(* The request queue is its length, and the number of its oldest requests  *)
(* that are past CpccMaxClientDelayUs: requests queue in time order, so    *)
(* the expired ones are a prefix.                                          *)
(***************************************************************************)
EXTENDS PccWire, PccCredit

CONSTANTS CrpcQlen,   \* the capacity of QReq
          MaxDelay    \* CpccMaxClientDelayUs > 0: queued requests expire

ASSUME ClientAssumption == CrpcQlen \in Nat \ {0} /\ MaxDelay \in BOOLEAN

VARIABLES cCredit,      \* cc.Credit
          cCreditUsed,  \* cc.CreditUsed
          waitingResp,  \* cc.WaitingResp
          init,         \* s.Init
          queued,       \* s.Head - s.Tail
          expired,      \* the oldest requests of the queue, past their delay
          running,      \* s.Running
          timer         \* where cpccTimer is

clientVars == <<cCredit, cCreditUsed, waitingResp, init, queued, expired, running, timer>>

CrpcOpen ==
    /\ cCredit = 0 /\ cCreditUsed = 0 /\ waitingResp = FALSE
    /\ init = FALSE /\ queued = 0 /\ expired = 0
    /\ running = TRUE /\ timer = IF MaxDelay THEN "awake" ELSE "done"

\* cpccDrainQueue on a queue of q requests, e of them expired, with the
\* connection's fields as given and wire holding what was sent before: drop the
\* expired ones, then cpccSendRequestVector sends while credit remains.
cpccDrainQueue(q, e, waiting, credit, used, wire) ==
    LET left == q - e
        sent == IF ~waiting /\ used < credit THEN MinOf(left, credit - used) ELSE 0
    IN  /\ queued' = left - sent
        /\ expired' = 0
        /\ cCreditUsed' = used + sent
        /\ c2s' = wire \o [i \in 1..sent |-> Call(left - i)]

\* Mutant: the condition variable is not signalled.
TimerNotSignalled == timer

\* TimerCondVar.Signal(), where the timer waits or not.
TimerSignalled == IF timer = "waiting" THEN "awake" ELSE timer

\* Mutant: the hot path sends one request more than the credit allows.
HotPathOffByOne == cCreditUsed <= cCredit /\ queued = 0

HotPath == cCreditUsed < cCredit /\ queued = 0

\* CrpcSendOne: send at once, or enqueue (dropping the oldest request of a full
\* queue), ask for credit with the very first message, and drain the queue.
CrpcSendOne ==
    /\ open /\ running
    /\ \/ /\ HotPath
          /\ cCreditUsed' = cCreditUsed + 1
          /\ c2s' = Append(c2s, Call(0))
          /\ UNCHANGED <<waitingResp, init, queued, expired, timer>>
       \/ /\ ~HotPath
          /\ LET full == queued >= CrpcQlen
                 q == IF full THEN queued ELSE queued + 1
                 e == IF full /\ expired > 0 THEN expired - 1 ELSE expired
             IN  /\ init' = TRUE
                 /\ waitingResp' = (waitingResp \/ ~init)
                 /\ timer' = IF q = 1 THEN TimerSignalled ELSE timer
                 /\ cpccDrainQueue(q, e, waitingResp', cCredit, cCreditUsed,
                                   IF init THEN c2s ELSE Append(c2s, CUpdate(q)))
    /\ UNCHANGED <<cCredit, running, s2c, open>>

\* CrpcRecvOne: a response returns a credit, and both kinds of message carry
\* the session's new credit.
CrpcRecvOne ==
    /\ open /\ s2c # <<>>
    /\ s2c' = Tail(s2c)
    /\ LET m == Head(s2c)
           used == IF m.op = "call" THEN cCreditUsed - 1 ELSE cCreditUsed
       IN  /\ cCredit' = m.credit
           /\ waitingResp' = FALSE
           /\ IF m.credit > 0
              THEN cpccDrainQueue(queued, expired, FALSE, m.credit, used, c2s)
              ELSE cCreditUsed' = used /\ UNCHANGED <<queued, expired, c2s>>
    /\ UNCHANGED <<init, running, timer, open>>

\* Time passes: the oldest request that was within its delay no longer is.
Expire ==
    /\ MaxDelay /\ expired < queued
    /\ expired' = expired + 1
    /\ UNCHANGED <<cCredit, cCreditUsed, waitingResp, init, queued, running, timer>>
    /\ UNCHANGED wireVars

\* cpccTimer: one turn of the loop under the lock.
cpccTimer ==
    /\ timer = "awake"
    /\ \/ /\ running /\ queued = 0
          /\ timer' = "waiting"
          /\ UNCHANGED <<queued, expired>>
       \/ /\ running /\ queued > 0
          /\ queued' = queued - expired
          /\ expired' = 0
          /\ timer' = IF queued = expired THEN "awake" ELSE "sleeping"
       \/ /\ ~running
          /\ timer' = "done"
          /\ UNCHANGED <<queued, expired>>
    /\ UNCHANGED <<cCredit, cCreditUsed, waitingResp, init, running>>
    /\ UNCHANGED wireVars

\* time.Sleep returns.
cpccTimerWake ==
    /\ timer = "sleeping"
    /\ timer' = "awake"
    /\ UNCHANGED <<cCredit, cCreditUsed, waitingResp, init, queued, expired, running>>
    /\ UNCHANGED wireVars

\* RpcClient.Shutdown closes both directions; the client sends no more.
Shutdown ==
    /\ open
    /\ open' = FALSE
    /\ UNCHANGED clientVars /\ UNCHANGED <<c2s, s2c>>

\* CrpcClose, up to its wait for the timer.
CrpcClose ==
    /\ running
    /\ running' = FALSE
    /\ timer' = TimerSignalled
    /\ UNCHANGED <<cCredit, cCreditUsed, waitingResp, init, queued, expired>>
    /\ UNCHANGED wireVars

\* CrpcClose after it: the connection is closed.
CrpcCloseConn ==
    /\ ~running /\ timer = "done" /\ open
    /\ open' = FALSE
    /\ UNCHANGED clientVars /\ UNCHANGED <<c2s, s2c>>

ClientNext ==
    \/ CrpcSendOne \/ CrpcRecvOne \/ Expire
    \/ cpccTimer \/ cpccTimerWake
    \/ Shutdown \/ CrpcClose \/ CrpcCloseConn
=============================================================================

-------------------------- MODULE PeerClientProofs --------------------------
(***************************************************************************)
(* Proofs about the client: PeerClientWorker and its handlers, for any     *)
(* number of neighbours, handlers and retries.                             *)
(***************************************************************************)
EXTENDS PeerClient, FiniteSetTheorems, TLAPS

-----------------------------------------------------------------------------
(* The attempts per neighbour. *)

(* The updater has seen the penalty of n run out and is about to clear its  *)
(* counter.                                                                 *)
Stale(n) == uPc = "reset" /\ InHand(n)

(* The counter the worker consults is behind the attempts it stands for by  *)
(* no more than one clearing can wipe out; a neighbour without an entry, or *)
(* whose penalty has run out, has no attempts to its name; and while a      *)
(* clearing is pending the counter is not behind at all.                    *)
CandidatesInv ==
  /\ attempts \in [Neighbour -> {Never} \cup 0..(Retries + 1)]
  /\ penalty \in [Neighbour -> {0, 1}] /\ tries \in [Neighbour -> Nat]
  /\ \A n \in Neighbour :
       /\ attempts[n] = Never \/ penalty[n] = 0 => tries[n] = 0
       /\ attempts[n] # Never => tries[n] <= attempts[n] + Retries + 1
       /\ Stale(n) => attempts[n] # Never /\ tries[n] <= attempts[n]

(* The worker and its list. *)
WorkerInv ==
  /\ app \in {"up", "crashed"} /\ isConnected \in {0, 1} /\ going \in {0, 1}
  /\ wPc \in {"top", "select", "pick", "connect", "drowse", "asleep", "done"}
  /\ target \in Neighbour \cup {NULL} /\ (wPc = "connect" => target # NULL)
  /\ mPc \in {"idle", "stopping", "stopped"} /\ mVisit \in Handler \cup {NULL}
  /\ mPc = "stopping" => mVisit # NULL
  /\ peer \in [Handler -> Neighbour \cup {NULL}]
  /\ table \subseteq Neighbour /\ neighbors \subseteq Neighbour /\ changes \in 0..MaxChanges
  /\ uPc \in {"idle", "check", "reset", "walk", "adopt", "wake"} /\ punishmentExpired \in {0, 1}
  /\ freshTable \subseteq Neighbour /\ uLeft \subseteq neighbors
  /\ uPc \in {"idle", "adopt", "wake"} => uLeft = {}
  /\ managementConnections \subseteq {h \in Handler : peer[h] # NULL}
  /\ \A g, h \in managementConnections : g = h
  /\ wPc = "connect" => managementConnections = {}

(* Of a handler's steps only two touch the counters. *)
LEMMA HandlerCandidates ==
  ASSUME NEW h \in Handler, HandlerNext(h)
  PROVE  \/ UNCHANGED candidates
         \/ ReceiveNoOffer(h)
         \/ \E t \in Thread : reportToWorkerThread(h, t)
<1> USE DEF shared, haltRest
<1>1. CASE ReceiverRuns(h)
  BY <1>1 DEF ReceiverRuns, SendHello, ReceiveFails, Loop, TestService, WaitForService, AnswerPSI,
     SendACK, ReportRefused, generateClientConfig, launchVPN, startKeepAliveTimer, EndConnect
<1>2. CASE TimerRuns(h)
  BY <1>2 DEF TimerRuns, TimerResets, TimerHalts
<1>3. CASE GatewaySends(h)
  BY <1>3 DEF GatewaySends, ReceiveNeedPSI, ReceivePSINACK, ReceiveOffer, ReceiveKeepAlive,
     ReceiveRefused, ReceiveGranted
<1>4. CASE Happens(h)
  BY <1>4 DEF Happens, ServiceConnected, RequestRepeats, RequestFails, KeepAliveDelayed, LinkBreaks
<1> QED BY <1>1, <1>2, <1>3, <1>4 DEF HandlerNext

(* Every step keeps the counters honest. *)
LEMMA CandidatesStep == CandidatesInv /\ WorkerInv /\ [Next]_vars => CandidatesInv'
<1> SUFFICES ASSUME CandidatesInv, WorkerInv, [Next]_vars PROVE CandidatesInv'
  OBVIOUS
<1> USE ManagementClientAssumption DEF Never
<1>0. ASSUME UNCHANGED updater, NEW n PROVE Stale(n)' <=> Stale(n)
  BY <1>0 DEF updater, Stale, InHand
<1>1. CASE UNCHANGED candidates /\ UNCHANGED updater
  BY <1>0, <1>1 DEF candidates, CandidatesInv
<1>2. CASE PickNeighbor /\ ~UNCHANGED candidates
  <2>1. PICK n \in Neighbour : /\ MayTry(n)
                               /\ attempts' = [attempts EXCEPT ![n] = NewAttempt(n)]
                               /\ penalty' = [penalty EXCEPT ![n] = 1]
                               /\ tries' = [tries EXCEPT ![n] = @ + 1]
    <3>1. \/ UNCHANGED candidates
          \/ \E n \in neighbors : /\ Chosen(n) /\ MayTry(n)
                                  /\ attempts' = [attempts EXCEPT ![n] = NewAttempt(n)]
                                  /\ penalty' = [penalty EXCEPT ![n] = 1]
                                  /\ tries' = [tries EXCEPT ![n] = @ + 1]
      BY <1>2 DEF PickNeighbor, candidates
    <3>2. PICK n \in neighbors : /\ MayTry(n)
                                 /\ attempts' = [attempts EXCEPT ![n] = NewAttempt(n)]
                                 /\ penalty' = [penalty EXCEPT ![n] = 1]
                                 /\ tries' = [tries EXCEPT ![n] = @ + 1]
      BY <1>2, <3>1
    <3>3. n \in Neighbour
      <4>1. CASE n \notin Neighbour
        <5>1. UNCHANGED candidates BY <3>2, <4>1 DEF CandidatesInv, candidates
        <5> QED BY <1>2, <5>1
      <4> QED BY <4>1
    <3> QED BY <3>2, <3>3
  <2>2. /\ NewAttempt(n) \in 0..(Retries + 1) /\ tries[n] + 1 <= NewAttempt(n) + Retries + 1
        /\ tries[n] \in Nat /\ (Stale(n) => tries[n] + 1 <= NewAttempt(n))
    BY <2>1 DEF NewAttempt, MayTry, CandidatesInv
  <2>3. UNCHANGED updater BY <1>2 DEF PickNeighbor
  <2> QED BY <1>0, <2>1, <2>2, <2>3 DEF CandidatesInv
<1>3. CASE Update
  <2>1. UNCHANGED <<penalty, tries>>
    BY <1>3 DEF Update, ReadTable, TestPenalty, ResetAttempts, WalkConnections, Adopt, WakeIfNeeded, updaterRest
  <2>2. CASE ReadTable \/ WalkConnections \/ Adopt \/ WakeIfNeeded
    <3>1. uPc' # "reset" /\ UNCHANGED attempts
      BY <2>2 DEF ReadTable, WalkConnections, Adopt, WakeIfNeeded, UGoto, NextPenalty
    <3> QED BY <2>1, <3>1 DEF CandidatesInv, Stale
  <2>3. CASE TestPenalty
    <3>1. PICK n \in uLeft : /\ InHand(n)
                             /\ IF PenaltyOver(n) THEN UGoto("reset") /\ UNCHANGED uLeft
                                                  ELSE NextPenalty(uLeft \ {n})
      BY <2>3 DEF TestPenalty
    <3>2. UNCHANGED attempts BY <2>3 DEF TestPenalty
    <3>3. CASE ~PenaltyOver(n)
      <4>1. uPc' # "reset" BY <3>1, <3>3 DEF NextPenalty, UGoto
      <4> QED BY <2>1, <3>2, <4>1 DEF CandidatesInv, Stale
    <3>4. CASE PenaltyOver(n)
      <4>1. ASSUME NEW m \in Neighbour, Stale(m)' PROVE attempts[m] # Never /\ tries[m] <= attempts[m]
        <5>1. InHand(m) BY <3>1, <3>4, <4>1 DEF Stale, InHand
        <5>2. uLeft \subseteq Int BY DEF WorkerInv, Neighbour
        <5>3. m = n BY <3>1, <5>1, <5>2 DEF InHand
        <5> QED BY <3>4, <5>3 DEF PenaltyOver, CandidatesInv
      <4> QED BY <2>1, <3>2, <4>1 DEF CandidatesInv
    <3> QED BY <3>3, <3>4
  <2>4. CASE ResetAttempts
    <3>1. PICK n \in uLeft : InHand(n) /\ attempts' = [attempts EXCEPT ![n] = 0]
      BY <2>4 DEF ResetAttempts
    <3>2. n \in Neighbour /\ Stale(n) /\ uPc' # "reset"
      BY <2>4, <3>1 DEF ResetAttempts, UGoto, WorkerInv, Stale
    <3>3. tries[n] <= Retries + 1 BY <3>2 DEF CandidatesInv
    <3> QED BY <2>1, <3>1, <3>2, <3>3 DEF CandidatesInv, Stale
  <2> QED BY <1>3, <2>2, <2>3, <2>4 DEF Update
<1>4. CASE \E n \in Neighbour : PenaltyEnds(n)
  <2>1. UNCHANGED updater BY <1>4 DEF PenaltyEnds, workerVars
  <2> QED BY <1>0, <1>4, <2>1 DEF PenaltyEnds, CandidatesInv
<1>5. ASSUME NEW h \in Handler, ReceiveNoOffer(h), UNCHANGED updater PROVE CandidatesInv'
  <2>1. /\ attempts' = [attempts EXCEPT ![peer[h]] = IF @ = Never THEN @ ELSE Retries + 1]
        /\ UNCHANGED <<penalty, tries>>
    BY <1>5 DEF ReceiveNoOffer
  <2> DEFINE p == peer[h]
  <2>2. CASE p \notin Neighbour \/ attempts[p] = Never
    <3>1. UNCHANGED candidates BY <2>1, <2>2 DEF CandidatesInv, candidates
    <3> QED BY <1>1, <1>5, <3>1
  <2>3. CASE p \in Neighbour /\ attempts[p] # Never
    <3>1. attempts' = [attempts EXCEPT ![p] = Retries + 1] BY <2>1, <2>3
    <3>2. /\ tries[p] <= 2 * (Retries + 1) /\ p \in Neighbour /\ attempts[p] # Never
          /\ Stale(p) => tries[p] <= Retries + 1
      BY <2>3 DEF CandidatesInv
    <3>3. UNCHANGED <<penalty, tries>> BY <2>1
    <3> HIDE DEF p
    <3>4. attempts' \in [Neighbour -> {Never} \cup 0..(Retries + 1)]
      <4>1. Retries + 1 \in {Never} \cup 0..(Retries + 1) OBVIOUS
      <4>2. attempts \in [Neighbour -> {Never} \cup 0..(Retries + 1)] BY DEF CandidatesInv
      <4> QED BY ONLY <3>1, <4>1, <4>2
    <3>5. \A n \in Neighbour : attempts'[n] = IF n = p THEN Retries + 1 ELSE attempts[n]
      BY <3>1 DEF CandidatesInv
    <3> QED BY <1>0, <1>5, <3>2, <3>3, <3>4, <3>5 DEF CandidatesInv
  <2> QED BY <2>2, <2>3
<1>6. ASSUME NEW h \in Handler, NEW t \in Thread, reportToWorkerThread(h, t), UNCHANGED updater
      PROVE  CandidatesInv'
  <2> DEFINE p == peer[h]
  <2>1. /\ attempts' = [attempts EXCEPT ![p] = IF @ = Never THEN @ ELSE 0]
        /\ penalty' = [penalty EXCEPT ![p] = 1] /\ tries' = [tries EXCEPT ![p] = 0]
    BY <1>6 DEF reportToWorkerThread
  <2> HIDE DEF p
  <2>2. CASE p \notin Neighbour
    <3>1. UNCHANGED candidates BY <2>1, <2>2 DEF CandidatesInv, candidates
    <3> QED BY <1>1, <1>6, <3>1
  <2>3. CASE p \in Neighbour
    BY <1>0, <1>6, <2>1, <2>3 DEF CandidatesInv
  <2> QED BY <2>2, <2>3
<1>7. ASSUME NEW h \in Handler, HandlerNext(h), UNCHANGED updater PROVE CandidatesInv'
  BY <1>1, <1>5, <1>6, <1>7, HandlerCandidates
<1>8. CASE Branch \/ SelectRouter \/ Connect \/ Sleep \/ SelectRaces \/ PickRaces \/ WalkRaces
           \/ TableChanges \/ Stop \/ StopHandler \/ UNCHANGED vars
  <2>1. UNCHANGED candidates /\ UNCHANGED updater
    BY <1>8 DEF Branch, SelectRouter, Connect, Sleep, SelectRaces, PickRaces, WalkRaces, TableChanges, Stop,
       StopHandler, Crash, vars, shared, haltRest, workerVars
  <2> QED BY <1>1, <2>1
<1>9. CASE PickNeighbor /\ UNCHANGED candidates
  BY <1>1, <1>9 DEF PickNeighbor
<1> QED BY <1>2, <1>3, <1>4, <1>7, <1>8, <1>9 DEF Next, Worker, workerVars

-----------------------------------------------------------------------------
(* The handlers. *)
Stages == {"setup", "launch", "route", "report", "mask"}
Before == {"setup", "launch", "route"}
Place == {"none", "hello", "receive", "loop", "psi", "park", "wait", "ack", "refused", "ended"} \cup Stages
Protocol == {"start", "helloSent", "psiMiddle", "psiDone", "finished", "offered", "established",
             "vpnRequested", "openVPN"}

HandlerTypes ==
  /\ pc \in [Handler -> Place] /\ rPc \in [Handler -> {"idle", "done"} \cup Stages]
  /\ tPc \in [Handler -> {"idle", "halting"}] /\ state \in [Handler -> Protocol]
  /\ established \in [Handler -> {0, 1}] /\ running \in [Handler -> {0, 1}]
  /\ bound \in [Handler -> {0, 1}] /\ liable \in [Handler -> {0, 1}]
  /\ fresh \in [Handler -> {0, 1}] /\ timer \in [Handler -> {0, 1}] /\ blocked \in [Handler -> {0, 1}]
  /\ timers \in [Handler -> Nat]
  /\ link \in [Handler -> {"up", "broken", "closed"}]
  /\ vpnd \in {0, 1} /\ ipqd \in {0, 1}

(* Only a granted VPN is set up, a granted VPN stays granted, and the       *)
(* request thread repeats the set-up only while the receiver is in it.      *)
SetUp(h) ==
  /\ pc[h] \in Stages => state[h] = "openVPN"
  /\ state[h] = "openVPN" => pc[h] \in Stages \cup {"loop", "receive", "ended"}
  /\ pc[h] \in {"none", "ended"} => rPc[h] \in {"idle", "done"}
  /\ peer[h] = NULL => pc[h] = "none"

(* The receiver and the request thread have a timer each to start yet, or   *)
(* have started it; the field refers to a timer that is alive.              *)
Left(h) ==
  (IF state[h] # "openVPN" \/ pc[h] \in Before THEN 1 ELSE 0)
    + (IF rPc[h] \in {"idle"} \cup Before THEN 1 ELSE 0)
TimersLeft(h) == timer[h] <= timers[h] /\ timers[h] + Left(h) <= 2

(* Where a start was issued last some receiver has not ended: its last halt *)
(* is still to come.                                                        *)
Alive(d) == d = 1 => \E h \in Handler : pc[h] \notin {"none", "ended"}

HandlersInv ==
  /\ HandlerTypes
  /\ \A h \in Handler : SetUp(h) /\ TimersLeft(h)
  /\ Alive(vpnd) /\ Alive(ipqd)

(* What a step of h must show: the others are as before. *)
Others(h) ==
  \A g \in Handler : g # h => /\ pc'[g] = pc[g] /\ rPc'[g] = rPc[g] /\ state'[g] = state[g]
                             /\ timer'[g] = timer[g] /\ timers'[g] = timers[g] /\ peer'[g] = peer[g]
Kept(h) ==
  HandlerTypes' /\ SetUp(h)' /\ TimersLeft(h)' /\ Others(h) /\ Alive(vpnd)' /\ Alive(ipqd)'

(* Closing the streams and cancelling the timer. *)
LEMMA CloseKeeps ==
  ASSUME HandlersInv, NEW h \in Handler, closeStreams(h), cancelTimer(h)
  PROVE  /\ running' \in [Handler -> {0, 1}] /\ link' \in [Handler -> {"up", "broken", "closed"}]
         /\ timer' \in [Handler -> {0, 1}] /\ timers' \in [Handler -> Nat]
         /\ timer'[h] = 0 /\ timers'[h] <= timers[h]
         /\ \A g \in Handler : g # h => timer'[g] = timer[g] /\ timers'[g] = timers[g]
<1>1. /\ timer \in [Handler -> {0, 1}] /\ timers \in [Handler -> Nat] /\ timer[h] <= timers[h]
      /\ running \in [Handler -> {0, 1}] /\ link \in [Handler -> {"up", "broken", "closed"}]
  BY DEF HandlersInv, HandlerTypes, TimersLeft
<1>2. timers[h] - timer[h] \in Nat /\ timers[h] - timer[h] <= timers[h] BY <1>1
<1> QED BY <1>1, <1>2 DEF closeStreams, cancelTimer

(* halt, where the program counters and the protocol's state go on as       *)
(* allowed: both daemons have been killed.                                  *)
LEMMA ClosingKeeps ==
  ASSUME HandlersInv, NEW h \in Handler, UNCHANGED <<liable, fresh, peer>>,
         closeStreams(h), cancelTimer(h), killDaemons, deleteHandler(h),
         established' \in [Handler -> {0, 1}],
         bound' \in [Handler -> {0, 1}], tPc' \in [Handler -> {"idle", "halting"}],
         pc' \in [Handler -> Place], rPc' \in [Handler -> {"idle", "done"} \cup Stages],
         state' \in [Handler -> Protocol],
         \A g \in Handler : g # h => pc'[g] = pc[g] /\ rPc'[g] = rPc[g] /\ state'[g] = state[g],
         SetUp(h)', state[h] = "openVPN" => state'[h] = "openVPN",
         pc'[h] \in Before => pc[h] \in Before \/ state[h] # "openVPN",
         rPc'[h] \in {"idle"} \cup Before => rPc[h] \in {"idle"} \cup Before
  PROVE  Kept(h)
<1>1. /\ running' \in [Handler -> {0, 1}] /\ link' \in [Handler -> {"up", "broken", "closed"}]
      /\ timer' \in [Handler -> {0, 1}] /\ timers' \in [Handler -> Nat]
      /\ timer'[h] = 0 /\ timers'[h] <= timers[h]
      /\ \A g \in Handler : g # h => timer'[g] = timer[g] /\ timers'[g] = timers[g]
  BY CloseKeeps
<1>2. /\ blocked' \in [Handler -> {0, 1}]
      /\ vpnd' = 0 /\ ipqd' = 0
  BY DEF killDaemons, stopIpqServer, haltClientVPNDaemons, deleteHandler, HandlersInv, HandlerTypes
<1>3. liable' \in [Handler -> {0, 1}] /\ fresh' \in [Handler -> {0, 1}]
  BY DEF HandlersInv, HandlerTypes
<1>4. HandlerTypes' BY <1>1, <1>2, <1>3 DEF HandlerTypes, Place, Stages, Protocol
<1>5. TimersLeft(h)'
  <2>1. timers[h] + Left(h) <= 2 /\ timers[h] \in Nat /\ timers'[h] \in Nat
    BY <1>1 DEF HandlersInv, HandlerTypes, TimersLeft
  <2> QED BY <1>1, <2>1 DEF TimersLeft, Left, Before
<1> QED BY <1>1, <1>2, <1>4, <1>5 DEF Kept, Others, Alive, NULL

(* The same of halt as it is called elsewhere. *)
LEMMA HaltKeeps ==
  ASSUME HandlersInv, NEW h \in Handler, halt(h), UNCHANGED <<liable, fresh, peer>>,
         bound' \in [Handler -> {0, 1}], tPc' \in [Handler -> {"idle", "halting"}],
         pc' \in [Handler -> Place], rPc' \in [Handler -> {"idle", "done"} \cup Stages],
         state' \in [Handler -> Protocol],
         \A g \in Handler : g # h => pc'[g] = pc[g] /\ rPc'[g] = rPc[g] /\ state'[g] = state[g],
         SetUp(h)', state[h] = "openVPN" => state'[h] = "openVPN",
         pc'[h] \in Before => pc[h] \in Before \/ state[h] # "openVPN",
         rPc'[h] \in {"idle"} \cup Before => rPc[h] \in {"idle"} \cup Before
  PROVE  Kept(h)
<1>1. established' \in [Handler -> {0, 1}] BY DEF halt, HandlersInv, HandlerTypes
<1> QED BY <1>1, ClosingKeeps DEF halt

(* Every step of a handler. *)
LEMMA HandlerKeeps ==
  ASSUME HandlersInv, NEW h \in Handler, HandlerNext(h)
  PROVE  Kept(h)
<1> USE DEF shared, candidates, main, alarm, life, daemons, haltRest, Goto, Becomes
<1> USE DEF HandlersInv, HandlerTypes, SetUp, Stages, Before, Place, Protocol
<1>1. CASE SendHello(h)
  <2>1. CASE link[h] # "up" BY <1>1, <2>1, HaltKeeps DEF SendHello
  <2>2. CASE link[h] = "up" BY <1>1, <2>2 DEF SendHello, Kept, Others, TimersLeft, Left, Alive, NULL
  <2> QED BY <2>1, <2>2
<1>2. CASE ReceiveFails(h)
  BY <1>2, HaltKeeps DEF ReceiveFails, Receives
<1>3. CASE Loop(h)
  <2>1. CASE running[h] = 0 BY <1>3, <2>1, HaltKeeps DEF Loop, LockFree
  <2>2. CASE running[h] = 1 BY <1>3, <2>2 DEF Loop, Kept, Others, TimersLeft, Left, Alive, NULL
  <2> QED BY <1>3, <2>1, <2>2 DEF Loop
<1>4. CASE TestService(h)
  BY <1>4 DEF TestService, Kept, Others, TimersLeft, Left, Alive, NULL
<1>5. CASE WaitForService(h)
  BY <1>5 DEF WaitForService, Kept, Others, TimersLeft, Left, Alive, NULL
<1>6. CASE AnswerPSI(h)
  <2>1. CASE halt(h) /\ Goto(h, "loop") /\ UNCHANGED <<peer, liable, fresh, tPc, rPc, state>>
    BY <1>6, <2>1, HaltKeeps DEF AnswerPSI
  <2>2. CASE Becomes(h, "psiDone") /\ Goto(h, "receive")
             /\ UNCHANGED <<peer, rPc, established, liable, alarm, life, daemons>>
    BY <1>6, <2>2 DEF AnswerPSI, Kept, Others, TimersLeft, Left, Alive, NULL
  <2> QED BY <1>6, <2>1, <2>2 DEF AnswerPSI
<1>7. CASE ReportRefused(h)
  BY <1>7, HaltKeeps DEF ReportRefused
<1>8. CASE TimerResets(h)
  BY <1>8 DEF TimerResets, Kept, Others, TimersLeft, Left, Alive, NULL
<1>9. CASE TimerHalts(h)
  BY <1>9, HaltKeeps DEF TimerHalts
<1>10. CASE ReceiveNeedPSI(h)
  BY <1>10 DEF ReceiveNeedPSI, Receives, Kept, Others, TimersLeft, Left, Alive, NULL
<1>11. CASE ReceivePSINACK(h)
  BY <1>11, HaltKeeps DEF ReceivePSINACK, Receives
<1>12. CASE ReceiveOffer(h)
  BY <1>12 DEF ReceiveOffer, Receives, Kept, Others, TimersLeft, Left, Alive, NULL
<1>13. CASE ReceiveNoOffer(h)
  BY <1>13, HaltKeeps DEF ReceiveNoOffer, Receives
<1>14. CASE ReceiveKeepAlive(h)
  BY <1>14 DEF ReceiveKeepAlive, Receives, Kept, Others, TimersLeft, Left, Alive, NULL
<1>15. CASE ReceiveRefused(h)
  BY <1>15 DEF ReceiveRefused, Receives, Kept, Others, TimersLeft, Left, Alive, NULL
<1>16. CASE ReceiveGranted(h)
  BY <1>16 DEF ReceiveGranted, Receives, Kept, Others, TimersLeft, Left, Alive, NULL
<1>17. CASE ServiceConnected(h)
  BY <1>17 DEF ServiceConnected, Kept, Others, TimersLeft, Left, Alive, NULL
<1>18. CASE RequestRepeats(h)
  BY <1>18 DEF RequestRepeats, Kept, Others, TimersLeft, Left, Alive, NULL
<1>19. CASE RequestFails(h)
  BY <1>19, HaltKeeps DEF RequestFails
<1>20. CASE KeepAliveDelayed(h)
  BY <1>20 DEF KeepAliveDelayed, Kept, Others, TimersLeft, Left, Alive, NULL
<1>21. CASE LinkBreaks(h)
  BY <1>21 DEF LinkBreaks, Kept, Others, TimersLeft, Left, Alive, NULL
<1>22. ASSUME NEW t \in Thread, generateClientConfig(h, t) PROVE Kept(h)
  <2>1. CASE halt(h) /\ UNCHANGED <<haltRest, tPc, state>>
    <3>1. CASE t = "receiver" BY <1>22, <2>1, <3>1, HaltKeeps DEF generateClientConfig, At, To
    <3>2. CASE t = "request" BY <1>22, <2>1, <3>2, HaltKeeps DEF generateClientConfig, At, To
    <3> QED BY <3>1, <3>2 DEF Thread
  <2>2. CASE vpnd' = 0 /\ UNCHANGED ipqd /\ UNCHANGED <<peer, state, established, bound, liable, alarm, life>>
    <3>1. CASE t = "receiver"
      BY <1>22, <2>2, <3>1 DEF generateClientConfig, At, To, Kept, Others, TimersLeft, Left, Alive, NULL
    <3>2. CASE t = "request"
      BY <1>22, <2>2, <3>2 DEF generateClientConfig, At, To, Kept, Others, TimersLeft, Left, Alive, NULL
    <3> QED BY <3>1, <3>2 DEF Thread
  <2> QED BY <1>22, <2>1, <2>2 DEF generateClientConfig, haltClientVPNDaemons
<1>23. ASSUME NEW t \in Thread, launchVPN(h, t) PROVE Kept(h)
  <2>1. CASE halt(h) /\ UNCHANGED <<haltRest, tPc, state>>
    <3>1. CASE t = "receiver"
      <4>1. /\ pc[h] = "launch" /\ rPc' = rPc
            /\ pc' = [pc EXCEPT ![h] = "route"] \/ pc' = [pc EXCEPT ![h] = "loop"]
        BY <1>23, <2>1, <3>1 DEF launchVPN, At, To, AfterConnect
      <4>2. CASE pc' = [pc EXCEPT ![h] = "route"] BY <2>1, <4>1, <4>2, HaltKeeps
      <4>3. CASE pc' = [pc EXCEPT ![h] = "loop"] BY <2>1, <4>1, <4>3, HaltKeeps
      <4> QED BY <4>1, <4>2, <4>3
    <3>2. CASE t = "request" BY <1>23, <2>1, <3>2, HaltKeeps DEF launchVPN, At, To, AfterConnect
    <3> QED BY <3>1, <3>2 DEF Thread
  <2>2. CASE vpnd' = 1 /\ UNCHANGED ipqd /\ UNCHANGED <<peer, state, established, bound, liable, alarm, life>>
    <3>1. CASE t = "receiver"
      BY <1>23, <2>2, <3>1 DEF launchVPN, At, To, AfterConnect, Kept, Others, TimersLeft, Left, Alive, NULL
    <3>2. CASE t = "request"
      BY <1>23, <2>2, <3>2 DEF launchVPN, At, To, AfterConnect, Kept, Others, TimersLeft, Left, Alive, NULL
    <3> QED BY <3>1, <3>2 DEF Thread
  <2> QED BY <1>23, <2>1, <2>2 DEF launchVPN
<1>24. ASSUME NEW t \in Thread, startKeepAliveTimer(h, t) PROVE Kept(h)
  <2>1. CASE t = "receiver"
    BY <1>24, <2>1 DEF startKeepAliveTimer, At, To, Kept, Others, TimersLeft, Left, Alive, NULL
  <2>2. CASE t = "request"
    BY <1>24, <2>2 DEF startKeepAliveTimer, At, To, Kept, Others, TimersLeft, Left, Alive, NULL
  <2> QED BY <2>1, <2>2 DEF Thread
<1>25. ASSUME NEW t \in Thread, reportToWorkerThread(h, t) PROVE Kept(h)
  <2>1. CASE t = "receiver"
    BY <1>25, <2>1 DEF reportToWorkerThread, At, To, Kept, Others, TimersLeft, Left, Alive, NULL
  <2>2. CASE t = "request"
    BY <1>25, <2>2 DEF reportToWorkerThread, At, To, Kept, Others, TimersLeft, Left, Alive, NULL
  <2> QED BY <2>1, <2>2 DEF Thread
<1>26. ASSUME NEW t \in Thread, EndConnect(h, t) PROVE Kept(h)
  <2>1. CASE halt(h) /\ UNCHANGED <<haltRest, tPc, state>>
    <3>1. CASE t = "receiver" BY <1>26, <2>1, <3>1, HaltKeeps, SMTT(30) DEF EndConnect, At, To, AfterConnect
    <3>2. CASE t = "request" BY <1>26, <2>1, <3>2, HaltKeeps, SMTT(30) DEF EndConnect, At, To, AfterConnect
    <3> QED BY <3>1, <3>2 DEF Thread
  <2>2. CASE UNCHANGED daemons /\ UNCHANGED <<peer, state, established, bound, liable, alarm, life>>
    <3>1. CASE t = "receiver"
      BY <1>26, <2>2, <3>1 DEF EndConnect, At, To, AfterConnect, Kept, Others, TimersLeft, Left, Alive, NULL
    <3>2. CASE t = "request"
      BY <1>26, <2>2, <3>2 DEF EndConnect, At, To, AfterConnect, Kept, Others, TimersLeft, Left, Alive, NULL
    <3> QED BY <3>1, <3>2 DEF Thread
  <2> QED BY <1>26, <2>1, <2>2 DEF EndConnect
<1>27. CASE SendACK(h)
  <2>1. CASE link[h] = "up" BY <1>27, <2>1, SMTT(30) DEF SendACK, Kept, Others, TimersLeft, Left, Alive, NULL
  <2>2. CASE link[h] # "up" BY <1>27, <2>2, ClosingKeeps DEF SendACK
  <2> QED BY <2>1, <2>2
<1> QED
  BY <1>1, <1>2, <1>3, <1>4, <1>5, <1>6, <1>7, <1>8, <1>9, <1>10, <1>11, <1>12, <1>13, <1>14, <1>15, <1>16, <1>17, <1>18, <1>19, <1>20, <1>21, <1>22, <1>23, <1>24, <1>25, <1>26, <1>27
     DEF HandlerNext, ReceiverRuns, TimerRuns, GatewaySends, Happens

(* A step of one handler keeps the invariant of all. *)
LEMMA KeptByOne ==
  ASSUME HandlersInv, NEW h \in Handler, Kept(h)
  PROVE  HandlersInv'
<1>1. ASSUME NEW g \in Handler PROVE SetUp(g)' /\ TimersLeft(g)'
  <2>1. CASE g = h BY <2>1 DEF Kept
  <2>2. CASE g # h
    <3>1. /\ pc'[g] = pc[g] /\ rPc'[g] = rPc[g] /\ state'[g] = state[g]
          /\ timer'[g] = timer[g] /\ timers'[g] = timers[g] /\ peer'[g] = peer[g]
      BY <2>2 DEF Kept, Others
    <3> QED BY <3>1 DEF HandlersInv, SetUp, TimersLeft, Left, Stages, Before, NULL
  <2> QED BY <2>1, <2>2
<1> QED BY <1>1 DEF Kept, HandlersInv

(* The worker, the main thread and the environment keep it as well. *)
LEMMA WorkerKeepsHandlers ==
  ASSUME HandlersInv, WorkerInv,
         \/ Worker \/ SelectRaces \/ PickRaces \/ WalkRaces \/ Update \/ TableChanges
         \/ (\E n \in Neighbour : PenaltyEnds(n)) \/ Stop \/ StopHandler \/ UNCHANGED vars
  PROVE  HandlersInv'
<1> USE DEF shared, candidates, main, alarm, life, daemons, haltRest
<1>1. CASE UNCHANGED <<handlerVars, daemons>>
  BY <1>1 DEF handlerVars, HandlersInv, HandlerTypes, SetUp, TimersLeft, Left, Alive, Stages, Before,
     Place, Protocol, NULL
<1>2. CASE Stop
  <2>1. UNCHANGED <<handlerVars, ipqd>> /\ vpnd' \in {vpnd, 0} BY <1>2 DEF Stop, haltClientVPNDaemons
  <2> QED BY <2>1 DEF handlerVars, HandlersInv, HandlerTypes, SetUp, TimersLeft, Left, Alive, Stages,
       Before, Place, Protocol, NULL
<1>3. ASSUME NEW h \in Handler, closeStreams(h), cancelTimer(h), killDaemons,
             established' = [established EXCEPT ![h] = 0], blocked' \in [Handler -> {0, 1}],
             UNCHANGED <<peer, bound, liable, fresh, tPc, pc, rPc, state>>
      PROVE  HandlersInv'
  <2>1. /\ running' \in [Handler -> {0, 1}] /\ link' \in [Handler -> {"up", "broken", "closed"}]
        /\ timer' \in [Handler -> {0, 1}] /\ timers' \in [Handler -> Nat]
        /\ timer'[h] = 0 /\ timers'[h] <= timers[h]
        /\ \A g \in Handler : g # h => timer'[g] = timer[g] /\ timers'[g] = timers[g]
    BY <1>3, CloseKeeps
  <2>2. HandlerTypes'
    BY <1>3, <2>1 DEF HandlersInv, HandlerTypes, killDaemons, stopIpqServer, haltClientVPNDaemons, Place, Stages, Protocol, NULL
  <2>3. SetUp(h)' BY <1>3 DEF HandlersInv, SetUp, Stages, NULL
  <2>4. TimersLeft(h)'
    <3>1. timers[h] + Left(h) <= 2 /\ timers[h] \in Nat /\ timers'[h] \in Nat /\ Left(h)' = Left(h)
      BY <1>3, <2>1 DEF HandlersInv, HandlerTypes, TimersLeft, Left, Before
    <3>2. Left(h) \in Nat BY DEF Left
    <3> QED BY <2>1, <3>1, <3>2 DEF TimersLeft
  <2>5. Kept(h)
    BY <1>3, <2>1, <2>2, <2>3, <2>4 DEF Kept, Others, killDaemons, stopIpqServer,
       haltClientVPNDaemons, Alive, NULL
  <2> QED BY <2>5, KeptByOne
<1>4. CASE SelectRouter
  <2>1. CASE \A h \in managementConnections : established[h] = 0
    <3>1. ~ \E h \in Handler : Best(h)
      BY <2>1 DEF Best
    <3> QED BY <1>1, <1>4, <3>1 DEF SelectRouter, handlerVars
  <2>2. ASSUME NEW h \in Handler, link[h] = "up",
               state' = [state EXCEPT ![h] = IF @ = "established" THEN "vpnRequested" ELSE @],
               established' = [established EXCEPT ![h] = 0],
               UNCHANGED <<peer, pc, rPc, bound, liable, alarm, life, daemons>>
        PROVE  HandlersInv'
    <3>1. /\ state'[h] = "openVPN" <=> state[h] = "openVPN"
          /\ \A g \in Handler : g # h => state'[g] = state[g]
          /\ state' \in [Handler -> Protocol]
      BY <2>2 DEF HandlersInv, HandlerTypes, Protocol
    <3>2. HandlerTypes'
      BY <2>2, <3>1 DEF HandlersInv, HandlerTypes, Place, Stages, Protocol, NULL
    <3>3. Kept(h)
      BY <2>2, <3>1, <3>2 DEF HandlersInv, SetUp, TimersLeft, Left, Alive, Stages, Before, NULL, Kept, Others
    <3> QED BY <3>3, KeptByOne
  <2>3. ASSUME NEW h \in Handler, closeStreams(h), cancelTimer(h), killDaemons,
               established' = [established EXCEPT ![h] = 0],
               blocked' = [blocked EXCEPT ![h] = IF mPc = "stopping" THEN 1 ELSE 0],
               UNCHANGED <<haltRest, tPc, pc, rPc, state>>
        PROVE  HandlersInv'
    <3>1. blocked' \in [Handler -> {0, 1}] BY <2>3 DEF HandlersInv, HandlerTypes
    <3> QED BY <1>3, <2>3, <3>1
  <2> QED BY <1>4, <2>1, <2>2, <2>3 DEF SelectRouter
<1>5. CASE Connect
  <2>1. CASE UNCHANGED <<managementConnections, peer, pc>>
    BY <1>1, <1>5, <2>1 DEF Connect, handlerVars
  <2>2. ASSUME NEW h \in Handler, peer[h] = NULL, peer' = [peer EXCEPT ![h] = target],
               pc' = [pc EXCEPT ![h] = "hello"],
               UNCHANGED <<rPc, state, established, bound, liable, alarm, life, daemons>>
        PROVE  HandlersInv'
    <3>1. target # NULL /\ peer \in [Handler -> Neighbour \cup {NULL}]
      BY <1>5 DEF Connect, WorkerInv
    <3>2. pc[h] = "none" BY <2>2 DEF HandlersInv, SetUp
    <3>3. /\ pc'[h] = "hello" /\ peer'[h] # NULL /\ pc' \in [Handler -> Place]
          /\ \A g \in Handler : g # h => pc'[g] = pc[g] /\ peer'[g] = peer[g]
      BY <2>2, <3>1 DEF HandlersInv, HandlerTypes, Place
    <3>4. HandlerTypes'
      BY <2>2, <3>3 DEF HandlersInv, HandlerTypes, Place, Stages, Protocol, NULL
    <3>5. state[h] # "openVPN" BY <3>2 DEF HandlersInv, SetUp, Stages
    <3>6. Kept(h)
      BY <2>2, <3>2, <3>3, <3>4, <3>5 DEF HandlersInv, SetUp, TimersLeft, Left, Alive, Stages, Before, NULL,
         Kept, Others
    <3> QED BY <3>6, KeptByOne
  <2> QED BY <1>5, <2>1, <2>2 DEF Connect
<1>6. CASE StopHandler
  <2>1. mVisit \in Handler BY <1>6 DEF StopHandler, WorkerInv
  <2>2. blocked' \in [Handler -> {0, 1}] BY <1>6 DEF StopHandler
  <2> QED BY <1>3, <1>6, <2>1, <2>2 DEF StopHandler
<1>7. CASE Branch \/ PickNeighbor \/ Sleep \/ SelectRaces \/ PickRaces \/ WalkRaces \/ TableChanges
           \/ (\E n \in Neighbour : PenaltyEnds(n)) \/ UNCHANGED vars
  BY <1>1, <1>7 DEF Branch, PickNeighbor, Sleep, SelectRaces, PickRaces, WalkRaces, TableChanges,
     PenaltyEnds, Crash, vars
<1>8. CASE Update
  BY <1>1, <1>8 DEF Update, ReadTable, TestPenalty, ResetAttempts, WalkConnections, Adopt, WakeIfNeeded,
     updaterRest
<1> QED BY <1>2, <1>4, <1>5, <1>6, <1>7, <1>8 DEF Worker

-----------------------------------------------------------------------------
(* The worker's list of connections. *)

(* What a handler may do to what it shares with the worker. *)
LEMMA HandlerShares ==
  ASSUME NEW h \in Handler, HandlerNext(h)
  PROVE  /\ UNCHANGED <<app, main, peer>>
         /\ managementConnections' \subseteq managementConnections
         /\ wPc' = wPc \/ (wPc = "asleep" /\ wPc' = "top")
         /\ isConnected' \in {isConnected, 0, 1}
<1> USE DEF shared, candidates, main, haltRest, halt, deleteHandler, notifyAll
<1>1. CASE ReceiverRuns(h)
  BY <1>1 DEF ReceiverRuns, SendHello, ReceiveFails, Loop, TestService, WaitForService, AnswerPSI,
     SendACK, ReportRefused, generateClientConfig, launchVPN, startKeepAliveTimer, reportToWorkerThread,
     EndConnect
<1>2. CASE TimerRuns(h)
  BY <1>2 DEF TimerRuns, TimerResets, TimerHalts
<1>3. CASE GatewaySends(h)
  BY <1>3 DEF GatewaySends, ReceiveNeedPSI, ReceivePSINACK, ReceiveOffer, ReceiveNoOffer,
     ReceiveKeepAlive, ReceiveRefused, ReceiveGranted
<1>4. CASE Happens(h)
  BY <1>4 DEF Happens, ServiceConnected, RequestRepeats, RequestFails, KeepAliveDelayed, LinkBreaks
<1> QED BY <1>1, <1>2, <1>3, <1>4 DEF HandlerNext

(* The worker connects only when its list is empty, and nobody else adds. *)
LEMMA WorkerStep == WorkerInv /\ [Next]_vars => WorkerInv'
<1> SUFFICES ASSUME WorkerInv, [Next]_vars PROVE WorkerInv'
  OBVIOUS
<1> USE DEF shared, main, handlerVars, workerVars, updater, mesh, WGoto, NULL
<1>1. ASSUME NEW h \in Handler, HandlerNext(h), UNCHANGED <<workerVars, mesh>> PROVE WorkerInv'
  BY <1>1, HandlerShares DEF WorkerInv
<1>2. CASE Branch
  BY <1>2 DEF Branch, WorkerInv
<1>3. CASE SelectRouter
  <2>1. /\ UNCHANGED <<app, main, peer, isConnected, workerVars, mesh>> /\ wPc' = "top"
        /\ managementConnections' \subseteq managementConnections
    BY <1>3 DEF SelectRouter, haltRest
  <2> QED BY <2>1 DEF WorkerInv
<1>4. CASE PickNeighbor
  <2>1. UNCHANGED <<app, managementConnections, isConnected, main, peer, neighbors, going, updater, mesh>>
    BY <1>4 DEF PickNeighbor
  <2>2. CASE wPc' \in {"top", "drowse"} /\ target' = target
    BY <2>1, <2>2 DEF WorkerInv
  <2>3. CASE wPc' = "connect" /\ needMore /\ target' \in neighbors
    <3>1. managementConnections = {}
      <4>1. IsFiniteSet(Handler) BY FS_Interval, ManagementClientAssumption DEF Handler
      <4>2. IsFiniteSet(managementConnections) BY <4>1, FS_Subset DEF WorkerInv
      <4>3. Cardinality(managementConnections) = 0
        BY <2>3, <4>2, FS_CardinalityType DEF needMore, Needed
      <4> QED BY <4>2, <4>3, FS_EmptySet
    <3>2. target' \in Neighbour /\ target' # NULL BY <2>3 DEF WorkerInv, Neighbour
    <3> QED BY <2>1, <2>3, <3>1, <3>2 DEF WorkerInv
  <2> QED BY <1>4, <2>2, <2>3 DEF PickNeighbor
<1>5. CASE Connect
  <2>1. /\ wPc' = "pick" /\ target' = NULL /\ managementConnections = {} /\ target \in Neighbour
        /\ UNCHANGED <<app, isConnected, main, neighbors, going, updater, mesh>>
    BY <1>5 DEF Connect, WorkerInv
  <2>2. CASE UNCHANGED <<managementConnections, peer, pc>>
    BY <2>1, <2>2 DEF WorkerInv
  <2>3. ASSUME NEW h \in Handler, peer' = [peer EXCEPT ![h] = target],
               managementConnections' = managementConnections \cup {h}
        PROVE  WorkerInv'
    <3>1. managementConnections' = {h} BY <2>1, <2>3
    <3>2. /\ peer' \in [Handler -> Neighbour \cup {NULL}] /\ peer'[h] # NULL
      BY <2>1, <2>3 DEF WorkerInv, Neighbour
    <3> QED BY <2>1, <3>1, <3>2 DEF WorkerInv
  <2> QED BY <1>5, <2>2, <2>3 DEF Connect
<1>6. CASE Sleep
  BY <1>6 DEF Sleep, WorkerInv
<1>7. CASE SelectRaces \/ PickRaces \/ WalkRaces
  BY <1>7 DEF SelectRaces, PickRaces, WalkRaces, Crash, WorkerInv
<1>8. CASE Update
  <2>1. /\ UNCHANGED <<app, managementConnections, isConnected, main, peer, going, target, mesh>>
        /\ wPc' = wPc \/ (wPc = "asleep" /\ wPc' = "top")
    BY <1>8 DEF Update, ReadTable, TestPenalty, ResetAttempts, WalkConnections, Adopt, WakeIfNeeded,
       updaterRest, notifyAll
  <2>2. /\ uPc' \in {"idle", "check", "reset", "walk", "adopt", "wake"} /\ punishmentExpired' \in {0, 1}
        /\ freshTable' \subseteq Neighbour /\ neighbors' \subseteq Neighbour /\ uLeft' \subseteq neighbors'
        /\ uPc' \in {"idle", "adopt", "wake"} => uLeft' = {}
    <3> USE DEF WorkerInv, UGoto
    <3>1. CASE ReadTable BY <3>1 DEF ReadTable
    <3>2. CASE TestPenalty BY <3>2 DEF TestPenalty, NextPenalty
    <3>3. CASE ResetAttempts BY <3>3 DEF ResetAttempts
    <3>4. CASE WalkConnections BY <3>4 DEF WalkConnections, NextPenalty
    <3>5. CASE Adopt BY <3>5 DEF Adopt
    <3>6. CASE WakeIfNeeded BY <3>6 DEF WakeIfNeeded
    <3> QED BY <1>8, <3>1, <3>2, <3>3, <3>4, <3>5, <3>6 DEF Update
  <2> QED BY <2>1, <2>2 DEF WorkerInv
<1>9. CASE TableChanges
  BY <1>9, PeerClientAssumption DEF TableChanges, WorkerInv
<1>10. CASE \E n \in Neighbour : PenaltyEnds(n)
  BY <1>10 DEF PenaltyEnds, WorkerInv
<1>11. CASE Stop
  <2>1. /\ UNCHANGED <<app, managementConnections, isConnected, peer, neighbors, target, updater, mesh>>
        /\ going' = 0 /\ (wPc' = wPc \/ (wPc = "asleep" /\ wPc' = "top"))
        /\ (mPc' = "stopped" /\ mVisit' = NULL) \/ (mPc' = "stopping" /\ mVisit' \in managementConnections)
    BY <1>11 DEF Stop, notifyAll
  <2>2. managementConnections \subseteq Handler /\ NULL \notin Handler
    BY DEF WorkerInv, Handler
  <2> QED BY <2>1, <2>2 DEF WorkerInv
<1>12. CASE StopHandler
  <2>1. /\ UNCHANGED <<app, isConnected, peer, workerVars, mesh>>
        /\ managementConnections' \subseteq managementConnections
        /\ (wPc' = wPc \/ (wPc = "asleep" /\ wPc' = "top")) /\ mPc' = "stopped" /\ mVisit' = NULL
    BY <1>12 DEF StopHandler, notifyAll
  <2> QED BY <2>1 DEF WorkerInv
<1>13. CASE UNCHANGED vars
  BY <1>13 DEF vars, WorkerInv
<1> QED
  BY <1>1, <1>2, <1>3, <1>4, <1>5, <1>6, <1>7, <1>8, <1>9, <1>10, <1>11, <1>12, <1>13 DEF Next, Worker

(* Everything together is inductive. *)
LEMMA ClientInvariant == Spec => [](CandidatesInv /\ HandlersInv /\ WorkerInv)
<1>1. Init => CandidatesInv /\ HandlersInv /\ WorkerInv
  <2> SUFFICES ASSUME Init PROVE CandidatesInv /\ HandlersInv /\ WorkerInv
    OBVIOUS
  <2> USE DEF Init, HandlerInit
  <2>1. CandidatesInv BY ManagementClientAssumption DEF CandidatesInv, Never, Stale
  <2>2. HandlersInv
    BY DEF HandlersInv, HandlerTypes, SetUp, TimersLeft, Left, Alive, Stages, Before, Place, Protocol, NULL
  <2>3. WorkerInv BY PeerClientAssumption DEF WorkerInv, NULL
  <2> QED BY <2>1, <2>2, <2>3
<1>2. HandlersInv /\ WorkerInv /\ [Next]_vars => HandlersInv'
  <2> SUFFICES ASSUME HandlersInv, WorkerInv, [Next]_vars PROVE HandlersInv'
    OBVIOUS
  <2> QED BY HandlerKeeps, KeptByOne, WorkerKeepsHandlers DEF Next
<1> QED BY <1>1, <1>2, CandidatesStep, WorkerStep, PTL DEF Spec

(* Types: at most one connection is listed, a handler has at most two       *)
(* timers, whichever of its threads starts and cancels them.                *)
THEOREM ClientTypes == Spec => []TypeOK
<1>1. CandidatesInv /\ HandlersInv /\ WorkerInv => TypeOK
  <2> SUFFICES ASSUME CandidatesInv, HandlersInv, WorkerInv PROVE TypeOK
    OBVIOUS
  <2>1. Cardinality(managementConnections) <= Needed
    <3>1. CASE managementConnections = {}
      BY <3>1, FS_EmptySet DEF Needed
    <3>2. CASE managementConnections # {}
      <4>1. PICK h \in managementConnections : TRUE BY <3>2
      <4>2. managementConnections = {h} BY <4>1 DEF WorkerInv
      <4> QED BY <4>2, FS_Singleton DEF Needed
    <3> QED BY <3>1, <3>2
  <2>2. timers \in [Handler -> 0..2]
    <3>1. timers \in [Handler -> Nat] BY DEF HandlersInv, HandlerTypes
    <3>2. ASSUME NEW h \in Handler PROVE timers[h] \in 0..2
      BY <3>1 DEF HandlersInv, TimersLeft, Left
    <3> QED BY <3>1, <3>2
  <2>3. \A f \in {established, running, bound, liable, fresh, timer, blocked} : f \in [Handler -> {0, 1}]
    BY DEF HandlersInv, HandlerTypes
  <2> QED
    BY <2>1, <2>2, <2>3 DEF TypeOK, CandidatesInv, HandlersInv, HandlerTypes, WorkerInv, Place, Stages,
       Protocol
<1> QED BY <1>1, ClientInvariant, PTL

(* However the updater's test and reset, the worker's choice, the handlers' *)
(* reports and new tables interleave, a neighbour that refuses or does not  *)
(* answer is contacted at most 2 * (management_connection_retries + 1)      *)
(* times until its delay has passed: one stale reset is all that can come   *)
(* in between.                                                              *)
THEOREM NeighboursSpared == Spec => []NoHammering
<1>1. CandidatesInv => NoHammering
  BY ManagementClientAssumption DEF CandidatesInv, NoHammering, Never
<1> QED BY <1>1, ClientInvariant, PTL

(* For any number of connections, the handlers that have ended have called  *)
(* for a kill of OpenVPN and of ipqserver after every start of either:      *)
(* while a start is the last call a receiver is still to run its last halt. *)
THEOREM KillsComeLast == Spec => []KilledLast
<1>1. HandlersInv => KilledLast
  BY DEF HandlersInv, HandlerTypes, Alive, KilledLast
<1> QED BY <1>1, ClientInvariant, PTL
=============================================================================

-------------------------- MODULE ManagementClient --------------------------
(***************************************************************************)
(* ManagementClientHandler: a client's connections to gateways.  A handler *)
(* has a receiver thread (run), keep-alive timers and, if the gateway      *)
(* wants liability, the thread that sends resource requests.  What the     *)
(* handlers share with PeerClientWorker is here too: the list of           *)
(* connections, isConnected, the attempts per neighbour, and whether the   *)
(* worker sleeps in wait().                                                *)
(*                                                                         *)
(* sendMessage and halt are synchronized.  They are single steps, except   *)
(* that halt waits for the worker's lock (to notify it) when the main      *)
(* thread holds that in PeerClientWorker.halt, and that a resource request *)
(* sent while VPNGranted is still being handled runs connectToVPN a second *)
(* time, inside sendMessage.  The gateway's messages are those of          *)
(* ManagementServer.                                                       *)
(*                                                                         *)
(* Utilities.runCommand writes a command to a shell of su and does not     *)
(* wait for it: a daemon comes up some time after its start was issued, or *)
(* not at all, and even after a kill that was issued later.  A kill whose  *)
(* shell fails is logged and forgotten.  What is modelled is therefore     *)
(* which of these calls are made, and in which order.                      *)
(***************************************************************************)
EXTENDS Integers

CONSTANTS
  MaxNeighbours, \* neighbours, numbered by increasing metric
  MaxHandlers,   \* bound on the connections made
  Retries        \* management_connection_retries

ASSUME ManagementClientAssumption ==
  MaxNeighbours \in Nat /\ MaxHandlers \in Nat /\ Retries \in Nat

Neighbour == 1..MaxNeighbours
Handler == 1..MaxHandlers
NULL == 0
Never == -1   \* no entry in connectionAttempts

VARIABLES
  app,          \* "up" or "crashed"
  \* shared with the worker
  managementConnections, isConnected,
  attempts,     \* connectionAttempts: the counter of each neighbour, or Never
  penalty,      \* 1: the delay since its last attempt has not passed yet
  tries,        \* attempts since the penalty last ran out or VPN was connected
  wPc,          \* where the worker is
  mPc, mVisit,  \* main thread in PeerClientWorker.halt, the handler it visits
  \* one handler
  peer,         \* the neighbour it talks to, NULL before it is made
  pc, rPc, tPc, \* receiver; request thread, while it repeats connectToVPN; timer
  state,        \* protocolState
  established,  \* 1: currentStatus is EstablishedManagementConnection
  running, link,
  bound,        \* 1: mIRemoteService is set; kept while the intersection lasts
  liable,       \* 1: the ResourceRequestManager was started
  fresh,        \* 1: lastKeepAlive is within the tolerated delay
  timer, timers,\* 1: the field timer is set; timers alive
  blocked,      \* 1: its halt waits for the worker's lock
  \* processes of the phone
  vpnd, ipqd    \* 1: a start of OpenVPN, of ipqserver was issued after the last
                \* call that kills it, so that it runs or comes up

candidates == <<attempts, penalty, tries>>
shared == <<managementConnections, isConnected, candidates, wPc>>
main == <<mPc, mVisit>>
alarm == <<fresh, timer, timers, tPc>>
life == <<running, link, blocked>>
daemons == <<vpnd, ipqd>>
handlerVars == <<peer, pc, rPc, state, established, bound, liable, alarm, life>>

HandlerInit ==
  /\ managementConnections = {} /\ isConnected = 0
  /\ attempts = [n \in Neighbour |-> Never]
  /\ penalty = [n \in Neighbour |-> 0] /\ tries = [n \in Neighbour |-> 0]
  /\ peer = [h \in Handler |-> NULL]
  /\ pc = [h \in Handler |-> "none"] /\ rPc = [h \in Handler |-> "idle"]
  /\ tPc = [h \in Handler |-> "idle"]
  /\ state = [h \in Handler |-> "start"]
  /\ established = [h \in Handler |-> 0]
  /\ running = [h \in Handler |-> 1] /\ link = [h \in Handler |-> "up"]
  /\ bound = [h \in Handler |-> 0] /\ liable = [h \in Handler |-> 0]
  /\ fresh = [h \in Handler |-> 0]
  /\ timer = [h \in Handler |-> 0] /\ timers = [h \in Handler |-> 0]
  /\ blocked = [h \in Handler |-> 0]
  /\ vpnd = 0 /\ ipqd = 0

-----------------------------------------------------------------------------
Goto(h, l) == pc' = [pc EXCEPT ![h] = l]
Becomes(h, s) == state' = [state EXCEPT ![h] = s]

(* The handler's threads go on. *)
Free(h) == blocked[h] = 0

(* The handler's lock, seen from another thread than the request thread. *)
LockFree(h) == Free(h) /\ rPc[h] \in {"idle", "done"}

notifyAll == wPc' = IF wPc = "asleep" THEN "top" ELSE wPc

(* deleteHandler: the list is changed without the lock, the worker notified *)
(* with it.                                                                 *)
deleteHandler(h) ==
  /\ managementConnections' = managementConnections \ {h}
  /\ IF mPc = "stopping"
     THEN blocked' = [blocked EXCEPT ![h] = 1] /\ UNCHANGED wPc
     ELSE notifyAll /\ UNCHANGED blocked

(* Closing the streams works, or throws on a connection that is gone. *)
closeStreams(h) ==
  \/ /\ link' = [link EXCEPT ![h] = "closed"]
     /\ running' = [running EXCEPT ![h] = 0]
  \/ link[h] # "up" /\ UNCHANGED <<link, running>>

(* Mutated form: cancelled without a look at the field. *)
MutCancelTimer(h) ==
  /\ timers' = [timers EXCEPT ![h] = @ - 1]
  /\ timer' = [timer EXCEPT ![h] = 0]

(* Only the timer the field refers to is reached. *)
cancelTimer(h) ==
  /\ timers' = [timers EXCEPT ![h] = @ - timer[h]]
  /\ timer' = [timer EXCEPT ![h] = 0]

(* ps and kill, for every OpenVPN client of the phone. *)
haltClientVPNDaemons == vpnd' = 0

(* killall ipqserver *)
stopIpqServer == ipqd' = 0

(* Mutated form: the daemons are killed only where the streams are closed. *)
MutKillDaemons ==
  \/ link' # link /\ stopIpqServer /\ haltClientVPNDaemons
  \/ link' = link /\ UNCHANGED daemons

(* The calls of halt that kill, whoever started the daemons. *)
killDaemons == stopIpqServer /\ haltClientVPNDaemons

(* halt, on a thread of the handler. *)
halt(h) ==
  /\ closeStreams(h) /\ cancelTimer(h)
  /\ killDaemons
  /\ established' = [established EXCEPT ![h] = 0]
  /\ deleteHandler(h)

(* What halt leaves alone besides the program counters. *)
haltRest == <<app, main, candidates, peer, bound, liable, fresh>>

-----------------------------------------------------------------------------
(* The receiver, run and receiveMessage. *)

(* Hello is written; the connection may be gone already. *)
SendHello(h) ==
  /\ pc[h] = "hello" /\ LockFree(h)
  /\ \/ /\ link[h] = "up" /\ Becomes(h, "helloSent") /\ Goto(h, "receive")
        /\ UNCHANGED <<app, shared, main, peer, rPc, established, bound, liable, alarm, life, daemons>>
     \/ /\ link[h] # "up" /\ halt(h) /\ Goto(h, "loop")
        /\ UNCHANGED <<haltRest, isConnected, tPc, rPc, state>>

(* readObject throws. *)
ReceiveFails(h) ==
  /\ pc[h] = "receive" /\ link[h] # "up" /\ LockFree(h)
  /\ halt(h) /\ Goto(h, "loop")
  /\ isConnected' = IF state[h] = "openVPN" THEN 0 ELSE isConnected
  /\ UNCHANGED <<haltRest, tPc, rPc, state>>

(* while(running), and the halt(false) after it. *)
Loop(h) ==
  /\ pc[h] = "loop" /\ LockFree(h)
  /\ \/ /\ running[h] = 1 /\ Goto(h, "receive")
        /\ UNCHANGED <<app, shared, main, peer, rPc, state, established, bound, liable, alarm, life, daemons>>
     \/ /\ running[h] = 0 /\ halt(h) /\ Goto(h, "ended")
        /\ UNCHANGED <<haltRest, isConnected, tPc, rPc, state>>

Receives(h, s) == pc[h] = "receive" /\ link[h] = "up" /\ state[h] = s /\ Free(h)

(* NeedPrivateSetIntersection; the service may have been connected before. *)
ReceiveNeedPSI(h) ==
  /\ Receives(h, "helloSent")
  /\ Becomes(h, "psiMiddle") /\ Goto(h, "psi")
  /\ \E b \in {0, 1} : bound' = [bound EXCEPT ![h] = b]
  /\ UNCHANGED <<app, shared, main, peer, rPc, established, liable, alarm, life, daemons>>

(* while (mIRemoteService == null): the test, and the wait, which come      *)
(* without the lock held in between.                                        *)
TestService(h) ==
  /\ pc[h] = "psi" /\ bound[h] = 0 /\ Goto(h, "park")
  /\ UNCHANGED <<app, shared, main, peer, rPc, state, established, bound, liable, alarm, life, daemons>>

WaitForService(h) ==
  /\ pc[h] = "park" /\ LockFree(h) /\ Goto(h, "wait")
  /\ UNCHANGED <<app, shared, main, peer, rPc, state, established, bound, liable, alarm, life, daemons>>

(* onServiceConnected sets the field and notifies. *)
ServiceConnected(h) ==
  /\ pc[h] \in {"psi", "park", "wait"} /\ bound[h] = 0 /\ LockFree(h)
  /\ bound' = [bound EXCEPT ![h] = 1]
  /\ Goto(h, IF pc[h] = "wait" THEN "psi" ELSE pc[h])
  /\ UNCHANGED <<app, shared, main, peer, rPc, state, established, liable, alarm, life, daemons>>

(* The client's round; the engine answers null when there are no friends,   *)
(* and the exception ends the session, as does a write that fails.          *)
AnswerPSI(h) ==
  /\ pc[h] = "psi" /\ bound[h] = 1 /\ LockFree(h)
  /\ bound' = [bound EXCEPT ![h] = 0]
  /\ \/ /\ link[h] = "up" /\ Becomes(h, "psiDone") /\ Goto(h, "receive")
        /\ UNCHANGED <<app, shared, main, peer, rPc, established, liable, alarm, life, daemons>>
     \/ /\ halt(h) /\ Goto(h, "loop")
        /\ UNCHANGED <<app, main, candidates, peer, liable, fresh, isConnected, tPc, rPc, state>>

(* PrivateSetIntersectionNACK, and FINISHED_STATE's own reaction. *)
ReceivePSINACK(h) ==
  /\ Receives(h, "psiDone") /\ LockFree(h)
  /\ halt(h) /\ Becomes(h, "finished") /\ Goto(h, "loop")
  /\ UNCHANGED <<haltRest, isConnected, tPc, rPc>>

(* HelloResponse with an offer: ipqserver is started if the gateway wants   *)
(* liability.                                                               *)
ReceiveOffer(h) ==
  /\ \/ Receives(h, "helloSent") \/ Receives(h, "psiDone")
  /\ Becomes(h, "offered") /\ Goto(h, "ack")
  /\ \/ UNCHANGED <<liable, ipqd>>
     \/ liable' = [liable EXCEPT ![h] = 1] /\ ipqd' = 1
  /\ UNCHANGED <<app, shared, main, peer, rPc, established, bound, alarm, life, vpnd>>

(* ConnectionACK: the status becomes established also when the write fails  *)
(* and halt has run.                                                        *)
SendACK(h) ==
  /\ pc[h] = "ack" /\ LockFree(h)
  /\ established' = [established EXCEPT ![h] = 1]
  /\ \/ /\ link[h] = "up" /\ Becomes(h, "established") /\ Goto(h, "receive")
        /\ UNCHANGED <<app, shared, main, peer, rPc, bound, liable, alarm, life, daemons>>
     \/ /\ link[h] # "up" /\ Goto(h, "loop")
        /\ closeStreams(h) /\ cancelTimer(h) /\ killDaemons /\ deleteHandler(h)
        /\ UNCHANGED <<haltRest, isConnected, tPc, rPc, state>>

(* HelloResponse without one: sendNack. *)
ReceiveNoOffer(h) ==
  /\ \/ Receives(h, "helloSent") \/ Receives(h, "psiDone")
  /\ LockFree(h)
  /\ attempts' = [attempts EXCEPT ![peer[h]] = IF @ = Never THEN @ ELSE Retries + 1]
  /\ isConnected' = 0
  /\ halt(h) /\ Becomes(h, "finished") /\ Goto(h, "loop")
  /\ UNCHANGED <<app, main, penalty, tries, peer, bound, liable, fresh, tPc, rPc>>

ReceiveKeepAlive(h) ==
  /\ \E s \in {"established", "vpnRequested", "openVPN"} : Receives(h, s)
  /\ LockFree(h) /\ fresh[h] = 0
  /\ fresh' = [fresh EXCEPT ![h] = 1]
  /\ UNCHANGED <<app, shared, main, peer, pc, rPc, state, established, bound, liable, timer, timers, tPc, life, daemons>>

(* VPNRefused: the status is set to established once more, then halt. *)
ReceiveRefused(h) ==
  /\ Receives(h, "vpnRequested")
  /\ Becomes(h, "established") /\ Goto(h, "refused")
  /\ established' = [established EXCEPT ![h] = 1]
  /\ UNCHANGED <<app, shared, main, peer, rPc, bound, liable, alarm, life, daemons>>

ReportRefused(h) ==
  /\ pc[h] = "refused" /\ LockFree(h)
  /\ halt(h) /\ Goto(h, "loop")
  /\ UNCHANGED <<haltRest, isConnected, tPc, rPc, state>>

(* VPNGranted: isConnected is set before the VPN is there. *)
ReceiveGranted(h) ==
  /\ Receives(h, "vpnRequested")
  /\ Becomes(h, "openVPN") /\ Goto(h, "setup")
  /\ isConnected' = 1
  /\ UNCHANGED <<app, managementConnections, candidates, wPc, main, peer, rPc, established, bound,
                 liable, alarm, life, daemons>>

-----------------------------------------------------------------------------
(* connectToVPN, on the receiver or on the request thread t; after a failed *)
(* step halt is called and the method goes on.                              *)
Thread == {"receiver", "request"}
At(h, t, l) ==
  /\ Free(h)
  /\ IF t = "receiver" THEN pc[h] = l ELSE rPc[h] = l
To(h, t, l) ==
  IF t = "receiver" THEN Goto(h, l) /\ UNCHANGED rPc
  ELSE rPc' = [rPc EXCEPT ![h] = l] /\ UNCHANGED pc
CanHalt(h, t) == t = "request" \/ LockFree(h)
AfterConnect(t) == IF t = "receiver" THEN "loop" ELSE "done"

(* haltClientVPNDaemons and generateClientConfig *)
generateClientConfig(h, t) ==
  /\ At(h, t, "setup") /\ To(h, t, "launch")
  /\ \/ haltClientVPNDaemons
        /\ UNCHANGED <<app, shared, main, peer, state, established, bound, liable, alarm, life, ipqd>>
     \/ CanHalt(h, t) /\ halt(h) /\ UNCHANGED <<haltRest, isConnected, tPc, state>>

(* The client's configuration is found, be it an old one, and OpenVPN's     *)
(* start given to a shell, or it is not found.  Without a shell the log of  *)
(* a null answer throws, and connectToVPN is over.                          *)
launchVPN(h, t) ==
  /\ At(h, t, "launch")
  /\ \/ /\ vpnd' = 1 /\ To(h, t, "route")
        /\ UNCHANGED <<app, shared, main, peer, state, established, bound, liable, alarm, life, ipqd>>
     \/ /\ CanHalt(h, t) /\ halt(h) /\ (To(h, t, "route") \/ To(h, t, AfterConnect(t)))
        /\ UNCHANGED <<haltRest, isConnected, tPc, state>>

(* changeRouting polls for tun1 for up to 25 s; then startKeepAliveTimer,   *)
(* whose first run is due at once.                                          *)
startKeepAliveTimer(h, t) ==
  /\ At(h, t, "route") /\ To(h, t, "report")
  /\ timers' = [timers EXCEPT ![h] = @ + 1] /\ timer' = [timer EXCEPT ![h] = 1]
  /\ UNCHANGED <<app, shared, main, peer, state, established, bound, liable, fresh, tPc, life, daemons>>

(* reportToWorkerThread: PeerClientWorker.setConnected(handler) *)
reportToWorkerThread(h, t) ==
  /\ At(h, t, "report") /\ To(h, t, "mask")
  /\ attempts' = [attempts EXCEPT ![peer[h]] = IF @ = Never THEN @ ELSE 0]
  /\ penalty' = [penalty EXCEPT ![peer[h]] = 1] /\ tries' = [tries EXCEPT ![peer[h]] = 0]
  /\ isConnected' = 1
  /\ UNCHANGED <<app, managementConnections, wPc, main, peer, state, established, bound,
                 liable, alarm, life, daemons>>

(* setInterfaceAddressNetmask, which may throw; the end of connectToVPN. *)
EndConnect(h, t) ==
  /\ At(h, t, "mask")
  /\ To(h, t, AfterConnect(t))
  /\ \/ UNCHANGED <<app, shared, main, peer, state, established, bound, liable, alarm, life, daemons>>
     \/ CanHalt(h, t) /\ halt(h) /\ UNCHANGED <<haltRest, isConnected, tPc, state>>

(* A packet on tun1 makes the request thread send a request while the       *)
(* receiver is still in connectToVPN: latestMessage is VPNGranted, and the  *)
(* reaction runs again.  Modelled once per connection.                      *)
RequestRepeats(h) ==
  /\ liable[h] = 1 /\ state[h] = "openVPN" /\ link[h] = "up" /\ Free(h)
  /\ pc[h] \in {"route", "report", "mask"} /\ rPc[h] = "idle"
  /\ rPc' = [rPc EXCEPT ![h] = "setup"]
  /\ isConnected' = 1
  /\ UNCHANGED <<app, managementConnections, candidates, wPc, main, peer, pc, state, established, bound, liable,
                 alarm, life, daemons>>

(* A request cannot be written: sendMessage calls halt. *)
RequestFails(h) ==
  /\ liable[h] = 1 /\ state[h] = "openVPN" /\ link[h] # "up" /\ LockFree(h)
  /\ halt(h)
  /\ UNCHANGED <<haltRest, isConnected, tPc, pc, rPc, state>>

-----------------------------------------------------------------------------
(* Keep-alive timers. *)

(* The tolerated delay passes without a keep-alive. *)
KeepAliveDelayed(h) ==
  /\ fresh[h] = 1
  /\ fresh' = [fresh EXCEPT ![h] = 0]
  /\ UNCHANGED <<app, shared, main, peer, pc, rPc, state, established, bound, liable, timer, timers, tPc,
                 life, daemons>>

TimerResets(h) ==
  /\ timers[h] > 0 /\ tPc[h] = "idle" /\ fresh[h] = 0 /\ Free(h)
  /\ isConnected' = 0
  /\ tPc' = [tPc EXCEPT ![h] = "halting"]
  /\ UNCHANGED <<app, managementConnections, candidates, wPc, main, peer, pc, rPc, state, established, bound,
                 liable, fresh, timer, timers, life, daemons>>

TimerHalts(h) ==
  /\ tPc[h] = "halting" /\ LockFree(h)
  /\ halt(h)
  /\ tPc' = [tPc EXCEPT ![h] = "idle"]
  /\ UNCHANGED <<haltRest, isConnected, pc, rPc, state>>

(* External: the gateway or the radio link goes away. *)
LinkBreaks(h) ==
  /\ peer[h] # NULL /\ link[h] = "up"
  /\ link' = [link EXCEPT ![h] = "broken"]
  /\ UNCHANGED <<app, shared, main, peer, pc, rPc, state, established, bound, liable, alarm, running, blocked,
                 daemons>>

(* What the handler's threads do by themselves. *)
ReceiverRuns(h) ==
  \/ SendHello(h) \/ ReceiveFails(h) \/ Loop(h) \/ TestService(h) \/ WaitForService(h) \/ AnswerPSI(h)
  \/ SendACK(h) \/ ReportRefused(h)
  \/ \E t \in Thread : generateClientConfig(h, t) \/ launchVPN(h, t) \/ startKeepAliveTimer(h, t)
       \/ reportToWorkerThread(h, t) \/ EndConnect(h, t)
TimerRuns(h) == TimerResets(h) \/ TimerHalts(h)

(* What the gateway, the system and the time do. *)
GatewaySends(h) ==
  \/ ReceiveNeedPSI(h) \/ ReceivePSINACK(h) \/ ReceiveOffer(h) \/ ReceiveNoOffer(h)
  \/ ReceiveKeepAlive(h) \/ ReceiveRefused(h) \/ ReceiveGranted(h)
Happens(h) == ServiceConnected(h) \/ RequestRepeats(h) \/ RequestFails(h) \/ KeepAliveDelayed(h) \/ LinkBreaks(h)

HandlerNext(h) == ReceiverRuns(h) \/ TimerRuns(h) \/ GatewaySends(h) \/ Happens(h)
=============================================================================

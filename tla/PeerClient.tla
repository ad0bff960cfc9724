----------------------------- MODULE PeerClient -----------------------------
(***************************************************************************)
(* PeerClientWorker with its handlers (ManagementClient): the worker looks *)
(* for a gateway among the neighbours of the mesh, connects, and asks an   *)
(* established connection for a VPN; the updater reads the routing table   *)
(* every five seconds, lifts penalties that have run out, and wakes it;    *)
(* PeerClientCommunicator stops it from the main thread.  The updater      *)
(* holds no lock, so its tests, writes and walks are steps of their own;   *)
(* the worker's choice of a neighbour is one step.                         *)
(*                                                                         *)
(* management_connections is 1, as in assets/properties.                   *)
(* isConnectedAlready compares a mesh address with one of tun1 and is      *)
(* never true.                                                             *)
(***************************************************************************)
EXTENDS ManagementClient, FiniteSets

CONSTANTS
  MaxChanges, \* bound on the changes of the routing table
  MaxKnown,   \* bound on the neighbours where there is a connection
  MayStop     \* may the owner stop the service?

ASSUME PeerClientAssumption ==
  MaxChanges \in Nat /\ MaxKnown \in Nat /\ MayStop \in BOOLEAN

Needed == 1 \* management_connections

VARIABLES
  table,      \* destinations in the mesh's routing table
  changes,    \* changes of it so far
  neighbors,  \* the worker's copy
  going,      \* the worker's field running
  target,     \* the neighbour being connected
  \* the updater
  uPc,        \* where it is in its run
  freshTable, \* the routing table as it read it
  uLeft,      \* neighbours whose penalty it has yet to look at
  punishmentExpired

updater == <<uPc, freshTable, uLeft, punishmentExpired>>
workerVars == <<neighbors, going, target, updater>>
mesh == <<table, changes>>
vars == <<app, shared, main, handlerVars, daemons, workerVars, mesh>>

Init ==
  /\ app = "up"
  /\ HandlerInit
  /\ wPc = "top" /\ mPc = "idle" /\ mVisit = NULL
  /\ table \in SUBSET Neighbour /\ changes = 0
  /\ neighbors = {} /\ going = 1 /\ target = NULL
  /\ uPc = "idle" /\ freshTable = {} /\ uLeft = {} /\ punishmentExpired = 0

Crash ==
  /\ app' = "crashed"
  /\ UNCHANGED <<shared, main, handlerVars, daemons, workerVars, mesh>>

(* Bound: where there is a connection the table never changes, and only     *)
(* neighbours up to MaxKnown are in it.                                     *)
Known == table \cup neighbors \cup {n \in Neighbour : attempts[n] # Never}
Connected == \E h \in Handler : peer[h] # NULL

needMore == Cardinality(managementConnections) < Needed

-----------------------------------------------------------------------------
(* The worker, PeerClientWorker.run. *)
WGoto(l) == wPc' = l

(* The three branches of the loop. *)
Branch ==
  /\ wPc = "top"
  /\ WGoto(IF going = 0 THEN "done"
           ELSE IF managementConnections # {} /\ isConnected = 0 THEN "select"
           ELSE IF needMore THEN "pick"
           ELSE "drowse")
  /\ UNCHANGED <<app, managementConnections, isConnected, candidates, main, handlerVars, daemons, workerVars, mesh>>

(* selectRouter: the established connection of least metric is asked for a  *)
(* VPN (requestVPN); a write that fails halts its handler.                  *)
Best(h) ==
  /\ h \in managementConnections /\ established[h] = 1
  /\ \A g \in managementConnections : established[g] = 1 => peer[h] <= peer[g]

SelectRouter ==
  /\ wPc = "select"
  /\ \/ /\ \A h \in managementConnections : established[h] = 0
        /\ WGoto("top")
        /\ UNCHANGED <<app, managementConnections, isConnected, candidates, main, handlerVars, daemons>>
     \/ \E h \in Handler :
          /\ Best(h) /\ LockFree(h)
          /\ IF link[h] = "up"
             THEN /\ state' = [state EXCEPT ![h] = IF @ = "established" THEN "vpnRequested" ELSE @]
                  /\ established' = [established EXCEPT ![h] = 0]
                  /\ WGoto("top")
                  /\ UNCHANGED <<app, managementConnections, isConnected, candidates, main, peer, pc, rPc, bound,
                                 liable, alarm, life, daemons>>
             ELSE /\ closeStreams(h) /\ cancelTimer(h) /\ killDaemons
                  /\ established' = [established EXCEPT ![h] = 0]
                  /\ managementConnections' = managementConnections \ {h}
                  /\ blocked' = [blocked EXCEPT ![h] = IF mPc = "stopping" THEN 1 ELSE 0]
                  /\ WGoto("top")
                  /\ UNCHANGED <<haltRest, isConnected, tPc, pc, rPc, state>>
  /\ UNCHANGED <<workerVars, mesh>>

(* A handler that leaves the list while it is walked makes the iterator     *)
(* throw.                                                                   *)
HandlerLeaves == \E h \in managementConnections : link[h] # "up" /\ LockFree(h)

SelectRaces == wPc = "select" /\ HandlerLeaves /\ Crash

(* The counter of n after the attempt, once a penalty that has run out was  *)
(* reset.                                                                   *)
NewAttempt(n) ==
  IF attempts[n] = Never \/ penalty[n] = 0 THEN 1 ELSE attempts[n] + 1

(* getFirstUnconnectedBestNeighbor: the first neighbour never tried, else   *)
(* the first of those with the fewest attempts, if it may be tried again.   *)
Chosen(n) ==
  /\ n \in neighbors
  /\ IF \E m \in neighbors : attempts[m] = Never
     THEN attempts[n] = Never /\ \A m \in neighbors : m < n => attempts[m] # Never
     ELSE /\ \A m \in neighbors : attempts[n] <= attempts[m]
          /\ \A m \in neighbors : m < n => attempts[n] < attempts[m]

(* Mutated form: one attempt too many. *)
MutMayTry(n) == attempts[n] = Never \/ penalty[n] = 0 \/ attempts[n] <= Retries + 1

MayTry(n) == attempts[n] = Never \/ penalty[n] = 0 \/ attempts[n] <= Retries

PickNeighbor ==
  /\ wPc = "pick"
  /\ \/ /\ ~(going = 1 /\ needMore)
        /\ WGoto("top") /\ UNCHANGED <<candidates, target>>
     \/ /\ going = 1 /\ needMore
        /\ ~ \E n \in neighbors : Chosen(n) /\ MayTry(n)
        /\ WGoto("drowse") /\ UNCHANGED <<candidates, target>>
     \/ /\ going = 1 /\ needMore
        /\ \E n \in neighbors :
             /\ Chosen(n) /\ MayTry(n)
             /\ attempts' = [attempts EXCEPT ![n] = NewAttempt(n)]
             /\ penalty' = [penalty EXCEPT ![n] = 1]
             /\ tries' = [tries EXCEPT ![n] = @ + 1]
             /\ target' = n
        /\ WGoto("connect")
  /\ UNCHANGED <<app, managementConnections, isConnected, main, handlerVars, daemons, neighbors, going, updater, mesh>>

(* subsequentiallyConnect: connecting, the handshake or the streams fail,   *)
(* or a handler is added and started.                                       *)
Connect ==
  /\ wPc = "connect"
  /\ \/ UNCHANGED <<managementConnections, peer, pc>>
     \/ \E h \in Handler :
          /\ Known \subseteq 1..MaxKnown /\ changes = 0
          /\ peer[h] = NULL /\ \A g \in Handler : g < h => peer[g] # NULL
          /\ peer' = [peer EXCEPT ![h] = target]
          /\ pc' = [pc EXCEPT ![h] = "hello"]
          /\ managementConnections' = managementConnections \cup {h}
  /\ WGoto("pick") /\ target' = NULL
  /\ UNCHANGED <<app, isConnected, candidates, main, rPc, state, established, bound, liable, alarm, life, daemons,
                 neighbors, going, updater, mesh>>

(* waitToBeNotified: the lock is taken only after the decision to wait. *)
Sleep ==
  /\ wPc = "drowse" /\ mPc # "stopping"
  /\ WGoto("asleep")
  /\ UNCHANGED <<app, managementConnections, isConnected, candidates, main, handlerVars, daemons, workerVars, mesh>>

-----------------------------------------------------------------------------
(* The updater, a timer task every five seconds. *)
UGoto(l) == uPc' = l
updaterRest == <<app, managementConnections, isConnected, penalty, tries, main, handlerVars, daemons, going, target,
                 mesh>>

(* On to the next neighbour of left; after the last one the table is taken  *)
(* over if a penalty has run out.                                           *)
NextPenalty(left) ==
  /\ uLeft' = left
  /\ \/ left # {} /\ UGoto("check") /\ UNCHANGED <<freshTable, punishmentExpired>>
     \/ left = {} /\ punishmentExpired = 1
        /\ UGoto("adopt") /\ punishmentExpired' = 0 /\ UNCHANGED freshTable
     \/ left = {} /\ punishmentExpired = 0
        /\ UGoto("idle") /\ freshTable' = {} /\ UNCHANGED punishmentExpired

(* The test of resetConnectionAttempts. *)
PenaltyOver(n) == attempts[n] # Never /\ penalty[n] = 0

(* The table is read; if it has a destination the worker's copy has not it  *)
(* is taken over, else the penalties of the copy's neighbours are looked at.*)
(* A run in which there is nothing to find is left out.                     *)
ReadTable ==
  /\ uPc = "idle" /\ going = 1
  /\ freshTable' = table
  /\ \/ table \ neighbors # {} /\ UGoto("adopt") /\ UNCHANGED uLeft
     \/ /\ table \subseteq neighbors /\ \E n \in neighbors : PenaltyOver(n)
        /\ UGoto("check") /\ uLeft' = neighbors
  /\ UNCHANGED <<updaterRest, attempts, wPc, neighbors, punishmentExpired>>

InHand(n) == n \in uLeft /\ \A m \in uLeft : n <= m

(* checkExpirationTimers, for one neighbour: the test of its time. *)
TestPenalty ==
  /\ uPc = "check"
  /\ \E n \in uLeft :
       /\ InHand(n)
       /\ IF PenaltyOver(n)
          THEN UGoto("reset") /\ UNCHANGED <<uLeft, freshTable, punishmentExpired>>
          ELSE NextPenalty(uLeft \ {n})
  /\ UNCHANGED <<updaterRest, attempts, wPc, neighbors>>

(* Mutated form: a penalty that has run out does not wake the worker. *)
MutResetAttempts ==
  /\ uPc = "reset" /\ UGoto("walk")
  /\ \E n \in uLeft : InHand(n) /\ attempts' = [attempts EXCEPT ![n] = 0]
  /\ UNCHANGED <<updaterRest, wPc, neighbors, freshTable, uLeft, punishmentExpired>>

(* The counter is cleared, whatever the worker has done since the test. *)
ResetAttempts ==
  /\ uPc = "reset" /\ UGoto("walk")
  /\ \E n \in uLeft : InHand(n) /\ attempts' = [attempts EXCEPT ![n] = 0]
  /\ punishmentExpired' = 1
  /\ UNCHANGED <<updaterRest, wPc, neighbors, freshTable, uLeft>>

(* isConnectedAlready takes the lock of each handler in the list. *)
WalkConnections ==
  /\ uPc = "walk" /\ (\A h \in managementConnections : LockFree(h))
  /\ \E n \in uLeft : InHand(n) /\ NextPenalty(uLeft \ {n})
  /\ UNCHANGED <<updaterRest, attempts, wPc, neighbors>>

WalkRaces == uPc = "walk" /\ HandlerLeaves /\ Crash

Adopt ==
  /\ uPc = "adopt" /\ UGoto("wake")
  /\ neighbors' = freshTable /\ freshTable' = {}
  /\ UNCHANGED <<updaterRest, attempts, wPc, uLeft, punishmentExpired>>

(* decideIfNeedsWakeup; size and notify take the worker's lock. *)
WakeIfNeeded ==
  /\ uPc = "wake" /\ mPc # "stopping" /\ UGoto("idle")
  /\ IF isConnected = 0 \/ needMore THEN notifyAll ELSE UNCHANGED wPc
  /\ UNCHANGED <<updaterRest, attempts, neighbors, freshTable, uLeft, punishmentExpired>>

Update ==
  ReadTable \/ TestPenalty \/ ResetAttempts \/ WalkConnections \/ Adopt \/ WakeIfNeeded

(* neighbors is replaced by a shorter list between the worker's size() and  *)
(* get().                                                                   *)
PickRaces ==
  /\ wPc = "pick" /\ going = 1 /\ needMore
  /\ uPc = "adopt" /\ Cardinality(freshTable) < Cardinality(neighbors)
  /\ Crash

(* External: routes come and go; the delay between retries passes. *)
TableChanges ==
  /\ changes < MaxChanges /\ ~Connected
  /\ changes' = changes + 1 /\ table' \in SUBSET Neighbour
  /\ UNCHANGED <<app, shared, main, handlerVars, daemons, workerVars>>

PenaltyEnds(n) ==
  /\ penalty[n] = 1
  /\ penalty' = [penalty EXCEPT ![n] = 0] /\ tries' = [tries EXCEPT ![n] = 0]
  /\ UNCHANGED <<app, managementConnections, isConnected, attempts, wPc, main, handlerVars, daemons, workerVars, mesh>>

-----------------------------------------------------------------------------
(* The main thread, PeerClientWorker.halt: it holds the worker's lock while *)
(* it waits for that of the handler it halts.                               *)
Stop ==
  /\ MayStop /\ mPc = "idle"
  /\ going' = 0 /\ notifyAll
  /\ \/ managementConnections = {} /\ mPc' = "stopped" /\ mVisit' = NULL /\ haltClientVPNDaemons
     \/ mVisit' \in managementConnections /\ mPc' = "stopping" /\ UNCHANGED vpnd
  /\ UNCHANGED <<app, managementConnections, isConnected, candidates, handlerVars, ipqd, neighbors, target, updater,
                 mesh>>

StopHandler ==
  /\ mPc = "stopping" /\ LockFree(mVisit)
  /\ closeStreams(mVisit) /\ cancelTimer(mVisit) /\ killDaemons
  /\ established' = [established EXCEPT ![mVisit] = 0]
  /\ managementConnections' = managementConnections \ {mVisit}
  /\ blocked' = [h \in Handler |-> 0] /\ notifyAll
  /\ mPc' = "stopped" /\ mVisit' = NULL
  /\ UNCHANGED <<app, isConnected, candidates, peer, bound, liable, fresh, tPc, pc, rPc, state, workerVars, mesh>>

-----------------------------------------------------------------------------
Worker == Branch \/ SelectRouter \/ PickNeighbor \/ Connect \/ Sleep

Next ==
  /\ app = "up"
  /\ \/ Worker \/ SelectRaces \/ PickRaces \/ Update \/ WalkRaces
     \/ TableChanges \/ \E n \in Neighbour : PenaltyEnds(n)
     \/ \E h \in Handler : HandlerNext(h) /\ UNCHANGED <<workerVars, mesh>>
     \/ Stop \/ StopHandler

Spec == Init /\ [][Next]_vars

(* Worker and updater keep running and time passes.  Nothing is assumed of  *)
(* the handlers, the gateways, the routing table, the shells or the owner.  *)
Fairness ==
  /\ WF_vars(app = "up" /\ Worker)
  /\ WF_vars(app = "up" /\ Update)
  /\ \A n \in Neighbour : WF_vars(app = "up" /\ PenaltyEnds(n))

FairSpec == Spec /\ Fairness

-----------------------------------------------------------------------------
(* Properties. *)

(* Types; at most one management connection is listed, and only handlers    *)
(* that have been made.                                                     *)
TypeOK ==
  /\ app \in {"up", "crashed"}
  /\ managementConnections \subseteq {h \in Handler : peer[h] # NULL}
  /\ Cardinality(managementConnections) <= Needed
  /\ isConnected \in {0, 1} /\ going \in {0, 1}
  /\ attempts \in [Neighbour -> {Never} \cup 0..(Retries + 1)]
  /\ penalty \in [Neighbour -> {0, 1}] /\ tries \in [Neighbour -> Nat]
  /\ wPc \in {"top", "select", "pick", "connect", "drowse", "asleep", "done"}
  /\ target \in Neighbour \cup {NULL} /\ (wPc = "connect" => target # NULL)
  /\ mPc \in {"idle", "stopping", "stopped"} /\ mVisit \in Handler \cup {NULL}
  /\ peer \in [Handler -> Neighbour \cup {NULL}]
  /\ pc \in [Handler -> {"none", "hello", "receive", "loop", "psi", "park", "wait", "ack", "refused",
                         "setup", "launch", "route", "report", "mask", "ended"}]
  /\ rPc \in [Handler -> {"idle", "setup", "launch", "route", "report", "mask", "done"}]
  /\ tPc \in [Handler -> {"idle", "halting"}]
  /\ state \in [Handler -> {"start", "helloSent", "psiMiddle", "psiDone", "finished", "offered", "established",
                            "vpnRequested", "openVPN"}]
  /\ \A f \in {established, running, bound, liable, fresh, timer, blocked} : f \in [Handler -> {0, 1}]
  /\ timers \in [Handler -> 0..2]
  /\ link \in [Handler -> {"up", "broken", "closed"}]
  /\ vpnd \in {0, 1} /\ ipqd \in {0, 1}
  /\ uPc \in {"idle", "check", "reset", "walk", "adopt", "wake"} /\ punishmentExpired \in {0, 1}
  /\ freshTable \subseteq Neighbour /\ uLeft \subseteq neighbors
  /\ table \subseteq Neighbour /\ neighbors \subseteq Neighbour /\ changes \in 0..MaxChanges

(* Before its delay has passed or a VPN to it was up, a neighbour is        *)
(* contacted at most management_connection_retries + 1 times, and once more *)
(* as often if the updater, having seen an earlier delay run out, clears    *)
(* the counter only now: no other interleaving of the updater's unlocked    *)
(* test and reset, the worker, the handlers' reports and new tables gives a *)
(* neighbour more.                                                          *)
NoHammering == \A n \in Neighbour : tries[n] <= 2 * (Retries + 1)

(* When no handler's thread is left, the last call for OpenVPN and for      *)
(* ipqserver is one that kills them: each of the ways a set-up can fail     *)
(* half way and go on to start a daemon is followed by another halt.  (The  *)
(* shells may still carry out a start after that kill, or the kill fail.)   *)
KilledLast ==
  (\A h \in Handler : pc[h] \in {"none", "ended"}) => vpnd = 0 /\ ipqd = 0

(* Without a connection, a neighbour that was tried before and is still     *)
(* known is enough to make the worker connect to somebody again, although   *)
(* waitToBeNotified can miss a notification: the end of the penalty is seen *)
(* by every later run of the updater.                                       *)
KeepsLooking ==
  \A n \in Neighbour :
    (managementConnections = {} /\ n \in neighbors /\ attempts[n] # Never)
      ~> (wPc = "connect" \/ managementConnections # {} \/ n \notin neighbors \/ going = 0 \/ app = "crashed")

(* "dont need anything, we are connected and have enough management         *)
(* connections", PeerClientWorker.run says before it waits: a worker asleep *)
(* beside a management connection has one with a VPN, up or being set up.   *)
(* Not so: isConnected outlives the handler that set it.                    *)
IdleMeansConnected ==
  wPc = "asleep" /\ managementConnections # {}
    => \E h \in managementConnections : state[h] = "openVPN"
=============================================================================

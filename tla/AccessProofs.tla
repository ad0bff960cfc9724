---------------------------- MODULE AccessProofs ----------------------------
(***************************************************************************)
(* Proof that once all handlers of a client have ended no rule accepts its *)
(* packets to the OpenVPN port any more (DestinationPortClosed), for any   *)
(* number of handlers, timers and requests.                                *)
(* A handler opens the OpenVPN port at most twice, once in its main thread *)
(* and once in a timer; its last halt removes two rules.  The invariant    *)
(* bounds the rules by what the handlers that still run may have opened.   *)
(***************************************************************************)
EXTENDS ManagementServerProofs, FiniteSetTheorems

(* A handler that may have opened the port, and one that may have done so  *)
(* twice: its main thread has reacted, and the grant was sent too.         *)
OpenedBy(h) ==
  /\ ~Ended(h)
  /\ state[h] = "openVPN" \/ (state[h] = "vpnRequested" /\ pc[h] # "react")
TwiceBy(h) ==
  /\ ~Ended(h) /\ state[h] = "openVPN"
  /\ ~(pc[h] = "react" /\ entered[h] = "vpnRequested")
Opened == {h \in Handler : OpenedBy(h)}
OpenedTwice == {h \in Handler : TwiceBy(h)}

(* Where a handler is with its client's VPN request. *)
Asked(h) ==
  /\ entered[h] = "openVPN" => state[h] = "openVPN"
  /\ state[h] = "vpnRequested" => pc[h] \in {"react", "grant", "loop", "read", "dead"}
  /\ state[h] = "vpnRequested" /\ pc[h] = "react" => entered[h] = "vpnRequested" /\ latest[h] = "VPNRequest"
  /\ pc[h] = "grant" \/ (pc[h] = "react" /\ entered[h] = "vpnRequested")
       => state[h] \in {"vpnRequested", "openVPN"}
(* A handler that has given up does not write again. *)
Silenced(h) ==
  pc[h] = "dead" \/ (state[h] = "vpnRequested" /\ pc[h] \in {"loop", "read"}) => ~CanWrite(h)
(* Requests are processed only once the VPN is open. *)
Served(h) == \A r \in Request, s \in Stage : rr[<<h, r, s>>] > 0 => state[h] = "openVPN"
Unborn(h) == cli[h] = "absent" => pc[h] = "off"

Local(h) == Asked(h) /\ Silenced(h) /\ Served(h) /\ Unborn(h)

AccessInv ==
  /\ \A h \in Handler : Local(h)
  /\ IsFiniteSet(Opened) /\ IsFiniteSet(OpenedTwice)
  /\ dport <= Cardinality(Opened) + Cardinality(OpenedTwice)

-----------------------------------------------------------------------------
(* What a step of one handler may do to its own share of the rules, and to *)
(* the other handlers.                                                     *)
One(b) == IF b THEN 1 ELSE 0
Bounded(h) ==
  \/ dport' = 0
  \/ dport' + One(OpenedBy(h)) + One(TwiceBy(h)) <= dport + One(OpenedBy(h)') + One(TwiceBy(h)')
Same(g) ==
  /\ pc'[g] = pc[g] /\ entered'[g] = entered[g] /\ state'[g] = state[g] /\ latest'[g] = latest[g]
  /\ streams'[g] = streams[g] /\ link'[g] = link[g] /\ cli'[g] = cli[g]
  /\ \A r \in Request, s \in Stage : rr'[<<g, r, s>>] = rr[<<g, r, s>>]
Alone(h) == \A g \in Handler : g # h => Same(g)

(* Which messages bring the protocol to the VPN's states. *)
LEMMA OpeningEvents ==
  ASSUME NEW s \in ProtocolState, NEW m
  PROVE  /\ NextState(s, m) = "openVPN" <=> (s = "openVPN" \/ (s = "vpnRequested" /\ m = "VPNGranted"))
         /\ NextState(s, m) = "vpnRequested" <=>
              ((s = "vpnRequested" /\ m # "VPNGranted") \/ (s = "established" /\ m = "VPNRequest"))
<1>1. CASE s = "openVPN" BY <1>1 DEF NextState
<1>2. CASE s = "vpnRequested" BY <1>2 DEF NextState
<1>3. CASE s = "established" BY <1>3 DEF NextState
<1>4. CASE s \in {"start", "helloSent", "psiMiddle", "psiDone", "responseSent", "finished"}
  BY <1>4 DEF NextState
<1> QED BY <1>1, <1>2, <1>3, <1>4 DEF ProtocolState

(* Closing the streams, whether or not it works, ends the writing. *)
LEMMA CloseSilences ==
  ASSUME TypeOK, NEW h \in Handler, NEW o, closeStreams(h, o)
  PROVE  ~CanWrite(h)'
<1>1. CASE streams'[h] = "closed"
  BY <1>1 DEF CanWrite
<1>2. CASE "fails" \in CloseOutcomes(h) /\ UNCHANGED <<streams, link>>
  <2>1. streams[h] \in {"none", "open", "closed"} BY DEF TypeOK, TypeLife
  <2>2. streams[h] = "none" \/ (streams[h] = "open" /\ link[h] = "broken")
    BY <1>2, <2>1 DEF CloseOutcomes
  <2> QED BY <1>2, <2>2 DEF CanWrite
<1> QED
  BY <1>1, <1>2 DEF closeStreams, TypeOK, TypeLife

(* The last halt takes two rules away; the other handlers keep their state. *)
LEMMA HaltRemoves ==
  ASSUME TypeOK, NEW h \in Handler, NEW o, closeStreams(h, o), closeVPN(h)
  PROVE  /\ dport' \in Nat
         /\ dport' = 0 \/ dport' + 2 <= dport
         /\ \A g \in Handler : g # h => streams'[g] = streams[g] /\ link'[g] = link[g]
<1>1. dport \in Nat /\ dport' = Del(Del(dport)) BY DEF TypeOK, TypeLife, closeVPN, blockOVpnAccessForIP
<1> QED BY <1>1 DEF Del, closeStreams, TypeOK, TypeLife

(* A write leaves a connection that is not writable as it is. *)
LEMMA WriteOnly ==
  ASSUME TypeOK, NEW h \in Handler, NEW m, write(h, m)
  PROVE  \A g \in Handler : g # h => link'[g] = link[g]
  BY DEF write, TypeOK, TypeLife

(* The main thread's answers keep the other handlers and the rules. *)
LEMMA AnswerLocal ==
  ASSUME TypeOK, NEW h \in Handler, NEW m, NEW e \in {"NeedPSI", "HelloResponse", "PSINACK", "VPNGranted"},
         MainSends(h, m, e)
  PROVE  /\ dport' \in Nat /\ dport' <= dport
         /\ \A g \in Handler : g # h => streams'[g] = streams[g] /\ link'[g] = link[g] /\ state'[g] = state[g]
         /\ state'[h] = "openVPN" <=>
              (state[h] = "openVPN" \/ (state[h] = "vpnRequested" /\ e = "VPNGranted" /\ CanWrite(h)))
         /\ state'[h] = "vpnRequested" <=>
              (state[h] = "vpnRequested" /\ ~(e = "VPNGranted" /\ CanWrite(h)))
         /\ ~CanWrite(h) => ~CanWrite(h)'
<1>0. state \in [Handler -> ProtocolState] /\ dport \in Nat BY DEF TypeOK, TypeMain, TypeLife
<1>1. CASE ~CanWrite(h) /\ halt(h) /\ UNCHANGED <<s2c, state>>
  BY <1>0, <1>1, HaltRemoves, CloseSilences DEF halt
<1>2. CASE CanWrite(h) /\ write(h, m) /\ state' = [state EXCEPT ![h] = NextState(@, e)]
             /\ UNCHANGED <<life, vpn, rules, registered>>
  <2>1. state'[h] = NextState(state[h], e) /\ \A g \in Handler : g # h => state'[g] = state[g]
    BY <1>0, <1>2
  <2>2. /\ NextState(state[h], e) = "openVPN" <=> (state[h] = "openVPN" \/ (state[h] = "vpnRequested" /\ e = "VPNGranted"))
        /\ NextState(state[h], e) = "vpnRequested" <=> (state[h] = "vpnRequested" /\ e # "VPNGranted")
    BY <1>0, OpeningEvents
  <2> QED BY <1>0, <1>2, <2>1, <2>2, WriteOnly DEF life, rules
<1> QED
  BY <1>1, <1>2 DEF MainSends

(* Every action of the main thread: a step of the handler that leaves the   *)
(* others alone and adds a rule only for itself.                            *)
LEMMA MainLocal ==
  ASSUME TypeOK, NEW h \in Handler, Local(h), Main(h)
  PROVE  Local(h)' /\ Bounded(h) /\ Alone(h)
<1> USE DEF environment, wire, life, rules, requests, NextMessage, Reacts, CanWrite
<1>0. /\ dport \in Nat
      /\ pc \in [Handler -> Place] /\ entered \in [Handler -> ProtocolState]
      /\ state \in [Handler -> ProtocolState] /\ latest \in [Handler -> Message \cup {"none"}]
      /\ streams \in [Handler -> {"none", "open", "closed"}]
      /\ link \in [Handler -> {"up", "fin", "broken"}]
  BY DEF TypeOK, TypeMain, TypeLife
<1> USE <1>0 DEF Local, Asked, Silenced, Served, Unborn, Bounded, One, OpenedBy, TwiceBy, Ended, Alone, Same
<1>1. CASE GetStreams(h)
  BY <1>1 DEF GetStreams
<1>2. CASE NoStreams(h)
  BY <1>2, HaltRemoves, CloseSilences DEF NoStreams, halt
<1>3. CASE Loop(h)
  BY <1>3 DEF Loop
<1>4. CASE EndOfProtocol(h)
  BY <1>4, HaltRemoves, CloseSilences DEF EndOfProtocol, halt
<1>5. CASE Receive(h)
  BY <1>5 DEF Receive
<1>6. CASE ReceiveFails(h)
  BY <1>6, HaltRemoves, CloseSilences DEF ReceiveFails, halt
<1>7. CASE Event(h)
  <2>1. /\ NextState(state[h], latest[h]) = "openVPN" => state[h] = "openVPN"
        /\ state[h] = "openVPN" => NextState(state[h], latest[h]) = "openVPN"
        /\ NextState(state[h], latest[h]) = "vpnRequested" => latest[h] = "VPNRequest"
    BY <1>7, OpeningEvents DEF Event
  <2> QED BY <1>7, <2>1 DEF Event
<1>8. CASE EventOfNull(h)
  BY <1>8, HaltRemoves, CloseSilences DEF EventOfNull, halt
<1>9. CASE ReactHello(h)
  BY <1>9 DEF ReactHello
<1>10. CASE Wait(h)
  BY <1>10 DEF Wait
<1>11. CASE AnswerHello(h)
  <2>1. PICK m : \E e \in {"NeedPSI", "HelloResponse"} : MainSends(h, m, e) BY <1>11 DEF AnswerHello
  <2> QED BY <1>11, <2>1, AnswerLocal DEF AnswerHello
<1>20. CASE AnswerWithoutService(h)
  BY <1>20, HaltRemoves, CloseSilences DEF AnswerWithoutService, halt
<1>21. CASE ServiceFails(h)
  BY <1>21 DEF ServiceFails
<1>12. CASE ReactPSI(h)
  <2>0. service[h] = "null" \/ service[h] = "bound" BY DEF TypeOK, TypeMain
  <2>1. CASE halt(h) /\ UNCHANGED <<s2c, state>>
    BY <1>12, <2>1, HaltRemoves, CloseSilences DEF ReactPSI, halt
  <2>2. CASE \E m : \E e \in {"HelloResponse", "PSINACK"} : MainSends(h, m, e)
    BY <1>12, <2>2, AnswerLocal DEF ReactPSI
  <2> QED BY <1>12, <2>0, <2>1, <2>2 DEF ReactPSI
<1>13. CASE ReactACK(h)
  BY <1>13 DEF ReactACK, startKeepAliveTimer
<1>14. CASE ReactClose(h)
  BY <1>14, HaltRemoves, CloseSilences DEF ReactClose, halt
<1>15. CASE ReactVPNRequest(h)
  BY <1>15 DEF ReactVPNRequest, openVPN, allowOVpnAccessForIP
<1>16. CASE SendVPNGranted(h)
  BY <1>16, AnswerLocal DEF SendVPNGranted
<1>17. CASE ReactRequest(h)
  <2>1. PICK r \in Request : Reacts(h, "openVPN", r) /\ spawn(h, r) BY <1>17 DEF ReactRequest
  <2>2. \A g \in Handler, q \in Request, s \in Stage : g # h => rr'[<<g, q, s>>] = rr[<<g, q, s>>]
    BY <2>1 DEF spawn, TypeOK, TypeThreads
  <2> QED BY <1>17, <2>1, <2>2 DEF ReactRequest
<1>18. CASE ClearLatest(h)
  BY <1>18 DEF ClearLatest
<1>19. CASE ReactNothing(h)
  BY <1>19 DEF ReactNothing, Ignored
<1> QED
  BY <1>1, <1>2, <1>3, <1>4, <1>5, <1>6, <1>7, <1>8, <1>9, <1>10, <1>11, <1>12, <1>13, <1>14, <1>15, <1>16, <1>17, <1>18, <1>19, <1>20, <1>21 DEF Main

(* Every action of a timer.  *)
LEMMA TimerLocal ==
  ASSUME TypeOK, NEW h \in Handler, Local(h), Timer(h)
  PROVE  Local(h)' /\ Bounded(h) /\ Alone(h)
<1> USE DEF environment, wire, life, rules, requests, CanWrite
<1>0. /\ dport \in Nat
      /\ pc \in [Handler -> Place] /\ entered \in [Handler -> ProtocolState]
      /\ state \in [Handler -> ProtocolState] /\ latest \in [Handler -> Message \cup {"none"}]
      /\ streams \in [Handler -> {"none", "open", "closed"}]
      /\ link \in [Handler -> {"up", "fin", "broken"}]
  BY DEF TypeOK, TypeMain, TypeLife
<1> USE <1>0 DEF Local, Asked, Silenced, Served, Unborn, Bounded, One, OpenedBy, TwiceBy, Ended, Alone, Same
<1>1. CASE TimerTicks(h)
  BY <1>1 DEF TimerTicks, written
<1>2. CASE TimerRepeatsACK(h)
  BY <1>2 DEF TimerRepeatsACK, written, startKeepAliveTimer
<1>3. CASE TimerRepeatsClose(h)
  BY <1>3, HaltRemoves, CloseSilences DEF TimerRepeatsClose, halt
<1>4. CASE TimerRepeatsVPNRequest(h)
  <2>1. NextState(state[h], "VPNGranted") = "openVPN"
    BY <1>4, OpeningEvents DEF TimerRepeatsVPNRequest
  <2> QED
    BY <1>4, <2>1 DEF TimerRepeatsVPNRequest, Ticks, openVPN, allowOVpnAccessForIP, write
<1>5. CASE TimerRepeatsRequest(h)
  <2>1. PICK r \in Request : latest[h] = r /\ spawn(h, r) BY <1>5 DEF TimerRepeatsRequest
  <2>2. \A g \in Handler, q \in Request, s \in Stage : g # h => rr'[<<g, q, s>>] = rr[<<g, q, s>>]
    BY <2>1 DEF spawn, TypeOK, TypeThreads
  <2> QED BY <1>5, <2>1, <2>2 DEF TimerRepeatsRequest, written
<1>6. CASE TimerFails(h)
  BY <1>6, HaltRemoves, CloseSilences DEF TimerFails, halt
<1> QED
  BY <1>1, <1>2, <1>3, <1>4, <1>5, <1>6 DEF Timer

(* Every action of the handler's other threads.  *)
LEMMA WorkerLocal ==
  ASSUME TypeOK, NEW h \in Handler, Local(h), Worker(h)
  PROVE  Local(h)' /\ Bounded(h) /\ Alone(h)
<1> USE DEF environment, wire, life, rules, requests, CanWrite
<1>0. /\ dport \in Nat
      /\ pc \in [Handler -> Place] /\ entered \in [Handler -> ProtocolState]
      /\ state \in [Handler -> ProtocolState] /\ latest \in [Handler -> Message \cup {"none"}]
      /\ streams \in [Handler -> {"none", "open", "closed"}]
      /\ link \in [Handler -> {"up", "fin", "broken"}]
  BY DEF TypeOK, TypeMain, TypeLife
<1> USE <1>0 DEF Local, Asked, Silenced, Served, Unborn, Bounded, One, OpenedBy, TwiceBy, Ended, Alone, Same
<1>1. CASE OpenerFinds(h)
  BY <1>1 DEF OpenerFinds
<1>2. CASE OpenerGivesUp(h)
  BY <1>2 DEF OpenerGivesUp
<1>3. ASSUME NEW r \in Request,
             \/ Persist(h, r) \/ DropRequest(h, r) \/ AllowRequest(h, r)
             \/ StartExpiry(h, r) \/ ForgetLatest(h, r) \/ SendGrant(h, r) \/ SendGrantFails(h, r)
      PROVE  Local(h)' /\ Bounded(h) /\ Alone(h)
  <2>1. state[h] = "openVPN"
    BY <1>3 DEF Persist, DropRequest, AllowRequest, StartExpiry, ForgetLatest, SendGrant, SendGrantFails, At, Stage
  <2>2. \A g \in Handler, q \in Request, s \in Stage : g # h => rr'[<<g, q, s>>] = rr[<<g, q, s>>]
    BY <1>3 DEF Persist, DropRequest, AllowRequest, StartExpiry, ForgetLatest, SendGrant, SendGrantFails, Advance,
       TypeOK, TypeThreads
  <2>3. CASE Persist(h, r) \/ DropRequest(h, r) \/ AllowRequest(h, r) \/ StartExpiry(h, r) \/ ForgetLatest(h, r)
    BY <2>1, <2>2, <2>3 DEF Persist, DropRequest, AllowRequest, StartExpiry, ForgetLatest
  <2>4. CASE SendGrant(h, r)
    BY <2>1, <2>2, <2>4 DEF SendGrant, written
  <2>5. CASE SendGrantFails(h, r)
    BY <2>1, <2>2, <2>5, HaltRemoves, CloseSilences DEF SendGrantFails, halt
  <2> QED BY <1>3, <2>3, <2>4, <2>5
<1> QED
  BY <1>1, <1>2, <1>3 DEF Worker

(* The service's callbacks, the listener and the client's end.  *)
LEMMA OtherLocal ==
  ASSUME TypeOK, NEW h \in Handler, Local(h), onServiceConnected(h) \/ onServiceDisconnected(h) \/ Accept(h) \/ Shutdown(h) \/ Client(h)
  PROVE  Local(h)' /\ Bounded(h) /\ Alone(h)
<1> USE DEF environment, wire, life, rules, requests, CanWrite
<1>0. /\ dport \in Nat
      /\ pc \in [Handler -> Place] /\ entered \in [Handler -> ProtocolState]
      /\ state \in [Handler -> ProtocolState] /\ latest \in [Handler -> Message \cup {"none"}]
      /\ streams \in [Handler -> {"none", "open", "closed"}]
      /\ link \in [Handler -> {"up", "fin", "broken"}]
  BY DEF TypeOK, TypeMain, TypeLife
<1> USE <1>0 DEF Local, Asked, Silenced, Served, Unborn, Bounded, One, OpenedBy, TwiceBy, Ended, Alone, Same
<1>1. CASE onServiceConnected(h)
  BY <1>1 DEF onServiceConnected
<1>2. CASE onServiceDisconnected(h)
  BY <1>2 DEF onServiceDisconnected
<1>3. CASE Accept(h)
  BY <1>3 DEF Accept, TypeOK, TypeEnv
<1>4. CASE Shutdown(h)
  BY <1>4, HaltRemoves, CloseSilences DEF Shutdown
<1>5. CASE Client(h)
  <2>1. /\ \A g \in Handler : g # h => link'[g] = link[g] /\ cli'[g] = cli[g]
        /\ link[h] = "broken" => link'[h] = "broken"
        /\ cli'[h] = "absent" => cli[h] = "absent"
    <3>0. cli \in [Handler -> {"absent", "connected", "greeted", "acked", "asked", "open", "closed"}]
      BY DEF TypeOK, TypeEnv
    <3>1. CASE ClientHello(h) BY <3>0, <3>1 DEF ClientHello, ClientSays
    <3>2. CASE ClientReads(h) BY <3>0, <3>2 DEF ClientReads, ClientSays
    <3>3. CASE ClientRequestsVPN(h) BY <3>0, <3>3 DEF ClientRequestsVPN, ClientSays
    <3>4. CASE ClientCloses(h) BY <3>0, <3>4 DEF ClientCloses, ClientSays
    <3>5. CASE LinkBreaks(h) BY <3>0, <3>5 DEF LinkBreaks
    <3>6. CASE \E r \in Request : ClientRequests(h, r) BY <3>0, <3>6 DEF ClientRequests, ClientSays
    <3> QED BY <1>5, <3>1, <3>2, <3>3, <3>4, <3>5, <3>6 DEF Client
  <2> QED BY <1>5, <2>1 DEF Client
<1> QED
  BY <1>1, <1>2, <1>3, <1>4, <1>5

-----------------------------------------------------------------------------
(* How many members a set has when one element may have come or gone. *)
LEMMA CountOne ==
  ASSUME NEW S, NEW T, IsFiniteSet(S), NEW x, \A y : y # x => (y \in S <=> y \in T)
  PROVE  /\ IsFiniteSet(T)
         /\ Cardinality(S) \in Nat /\ Cardinality(T) \in Nat
         /\ Cardinality(T) + One(x \in S) = Cardinality(S) + One(x \in T)
<1>0. Cardinality(S) \in Nat BY FS_CardinalityType
<1>1. CASE x \in S <=> x \in T
  <2>1. S = T BY <1>1
  <2> QED BY <1>0, <2>1
<1>2. CASE x \in S /\ x \notin T
  <2>1. T = S \ {x} BY <1>2
  <2>2. IsFiniteSet(T) /\ Cardinality(T) = Cardinality(S) - 1
    BY <1>2, <2>1, FS_RemoveElement
  <2> QED BY <1>0, <1>2, <2>2, FS_CardinalityType DEF One
<1>3. CASE x \notin S /\ x \in T
  <2>1. T = S \cup {x} BY <1>3
  <2>2. IsFiniteSet(T) /\ Cardinality(T) = Cardinality(S) + 1
    BY <1>3, <2>1, FS_AddElement
  <2> QED BY <1>0, <1>3, <2>2 DEF One
<1> QED BY <1>1, <1>2, <1>3

(* A step of one handler keeps the invariant. *)
LEMMA LocalStep ==
  ASSUME TypeOK, dport' \in Nat, AccessInv, NEW h \in Handler, Local(h)', Bounded(h), Alone(h)
  PROVE  AccessInv'
<1>1. ASSUME NEW g \in Handler PROVE Local(g)'
  <2>1. CASE g = h BY <2>1
  <2>2. CASE g # h
    <3>1. Same(g) /\ Local(g) BY <2>2 DEF Alone, AccessInv
    <3> QED BY <3>1 DEF Same, Local, Asked, Silenced, Served, Unborn, CanWrite
  <2> QED BY <2>1, <2>2
<1>2. \A g : g # h => (g \in Opened <=> g \in Opened') /\ (g \in OpenedTwice <=> g \in OpenedTwice')
  BY DEF Alone, Same, Opened, OpenedTwice, OpenedBy, TwiceBy, Ended
<1>3. /\ IsFiniteSet(Opened') /\ Cardinality(Opened) \in Nat /\ Cardinality(Opened') \in Nat
      /\ Cardinality(Opened') + One(h \in Opened) = Cardinality(Opened) + One(h \in Opened')
  BY <1>2, CountOne DEF AccessInv
<1>4. /\ IsFiniteSet(OpenedTwice') /\ Cardinality(OpenedTwice) \in Nat /\ Cardinality(OpenedTwice') \in Nat
      /\ Cardinality(OpenedTwice') + One(h \in OpenedTwice) = Cardinality(OpenedTwice) + One(h \in OpenedTwice')
  BY <1>2, CountOne DEF AccessInv
<1>5. /\ One(h \in Opened) = One(OpenedBy(h)) /\ One(h \in Opened') = One(OpenedBy(h)')
      /\ One(h \in OpenedTwice) = One(TwiceBy(h)) /\ One(h \in OpenedTwice') = One(TwiceBy(h)')
  BY DEF Opened, OpenedTwice, One
<1>6. \A b : One(b) \in Nat BY DEF One
<1>7. dport' <= Cardinality(Opened') + Cardinality(OpenedTwice')
  <2>1. dport \in Nat /\ dport <= Cardinality(Opened) + Cardinality(OpenedTwice)
    BY DEF AccessInv, TypeOK, TypeLife
  <2>2. CASE dport' = 0 BY <2>2, <1>3, <1>4
  <2>3. CASE dport' + One(h \in Opened) + One(h \in OpenedTwice)
               <= dport + One(h \in Opened') + One(h \in OpenedTwice')
    <3>1. \A a, b, c, d, m, n, p, q, i, j \in Nat :
             /\ i <= m + p /\ j + a + c <= i + b + d /\ n + a = m + b /\ q + c = p + d
             => j <= n + q
      OBVIOUS
    <3> QED BY <1>3, <1>4, <1>6, <2>1, <2>3, <3>1
  <2> QED BY <1>5, <2>2, <2>3 DEF Bounded
<1> QED BY <1>1, <1>3, <1>4, <1>7 DEF AccessInv

(* Every step does. *)
LEMMA AccessStep == TypeOK /\ TypeOK' /\ AccessInv /\ [Next]_vars => AccessInv'
<1> SUFFICES ASSUME TypeOK, TypeOK', AccessInv, [Next]_vars PROVE AccessInv'
  OBVIOUS
<1>0. dport' \in Nat BY DEF TypeOK, TypeLife
<1>1. ASSUME NEW h \in Handler, 
             \/ Main(h) \/ Timer(h) \/ Worker(h) \/ onServiceConnected(h) \/ onServiceDisconnected(h)
             \/ Accept(h) \/ Shutdown(h) \/ Client(h)
      PROVE  AccessInv'
  <2>1. Local(h) BY DEF AccessInv
  <2>2. Local(h)' /\ Bounded(h) /\ Alone(h)
    BY <1>1, <2>1, MainLocal, TimerLocal, WorkerLocal, OtherLocal
  <2> QED BY <1>0, <2>2, LocalStep
<1>2. ASSUME \/ \E r \in Request : Expire(r)
             \/ flushRules \/ Network \/ UNCHANGED vars
      PROVE  AccessInv'
  <2>1. /\ UNCHANGED <<pc, entered, state, latest, streams, link, cli, rr>>
        /\ dport' = dport \/ dport' = 0
    BY <1>2 DEF Expire, flushRules, Network, OpenVPNStatus, vars, environment, life, rules, requests
  <2>2. Opened' = Opened /\ OpenedTwice' = OpenedTwice
    BY <2>1 DEF Opened, OpenedTwice, OpenedBy, TwiceBy, Ended
  <2>3. \A h \in Handler : Local(h)'
    BY <2>1 DEF AccessInv, Local, Asked, Silenced, Served, Unborn, CanWrite
  <2>4. Cardinality(Opened) \in Nat /\ Cardinality(OpenedTwice) \in Nat
    BY FS_CardinalityType DEF AccessInv
  <2> QED BY <2>1, <2>2, <2>3, <2>4 DEF AccessInv
<1> QED BY <1>1, <1>2 DEF Next

(* However many handlers served the client and however often their threads  *)
(* opened the port, none of the rules by destination port outlives the last *)
(* of them (halt, closeVPN).  The rules by source port do.                  *)
THEOREM AccessEnds == Spec => []DestinationPortClosed
<1>1. Init => AccessInv
  <2> SUFFICES ASSUME Init PROVE AccessInv OBVIOUS
  <2>1. Opened = {} /\ OpenedTwice = {}
    BY DEF Init, Opened, OpenedTwice, OpenedBy, TwiceBy, Ended
  <2>2. \A h \in Handler : Local(h)
    BY DEF Init, Local, Asked, Silenced, Served, Unborn, CanWrite
  <2> QED BY <2>1, <2>2, FS_EmptySet DEF Init, AccessInv
<1>2. TypeOK /\ AccessInv => DestinationPortClosed
  <2> SUFFICES ASSUME TypeOK, AccessInv, \A h \in Handler : Ended(h) PROVE dport = 0
    BY DEF DestinationPortClosed
  <2>1. Opened = {} /\ OpenedTwice = {} BY DEF Opened, OpenedTwice, OpenedBy, TwiceBy
  <2> QED BY <2>1, FS_EmptySet DEF AccessInv, TypeOK, TypeLife
<1> QED
  BY <1>1, <1>2, AccessStep, TypeCorrect, PTL DEF Spec
=============================================================================

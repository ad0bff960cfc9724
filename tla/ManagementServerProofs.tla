----------------------- MODULE ManagementServerProofs -----------------------
(***************************************************************************)
(* Proofs about the gateway's handlers, for any number of handlers,        *)
(* requests and timers and any preferences: the types, and the three       *)
(* safety properties whose inductive invariants are small.                 *)
(***************************************************************************)
EXTENDS ManagementServer, TLAPS

(* The protocol's transitions stay within its states. *)
LEMMA NextStateType ==
  ASSUME NEW s \in ProtocolState, NEW m
  PROVE  NextState(s, m) \in ProtocolState
  BY DEF NextState, ProtocolState

(* The answer to a Hello is a reply the client knows. *)
LEMMA HelloAnswerType ==
  ASSUME NEW p
  PROVE  HelloAnswer(p) \in Reply
  BY DEF HelloAnswer, Reply

(* closeVPN keeps the counts of rules natural numbers. *)
LEMMA CloseTypes ==
  ASSUME TypeOK, NEW h \in Handler, closeVPN(h)
  PROVE  /\ vpn' \in [Handler -> Flag]
         /\ dport' \in Nat /\ sport' \in Nat /\ masq' \in Nat
  BY DEF closeVPN, blockOVpnAccessForIP, removeMasqueradeForIP, getVpnAddress, Del, TypeOK,
         TypeLife, TypeEnv, Flag

(* What closing the streams leaves. *)
LEMMA CloseStreamsTypes ==
  ASSUME TypeOK, NEW h \in Handler, NEW o \in Flag, closeStreams(h, o)
  PROVE  /\ link' \in [Handler -> {"up", "fin", "broken"}]
         /\ running' \in [Handler -> Flag] /\ streams' \in [Handler -> {"none", "open", "closed"}]
         /\ timer' \in [Handler -> 0..MaxTimers] /\ timers' \in [Handler -> SUBSET (1..MaxTimers)]
  BY ManagementServerAssumption DEF closeStreams, TypeOK, TypeLife, Flag

(* halt keeps the types of everything it changes. *)
LEMMA HaltTypes ==
  ASSUME TypeOK, NEW h \in Handler, halt(h)
  PROVE  TypeLife'
<1>1. running[h] \in Flag
  BY DEF TypeOK, TypeLife
<1> QED
  BY <1>1, CloseTypes, CloseStreamsTypes DEF halt, TypeLife, TypeOK

(* So does sending a message from the main thread. *)
LEMMA SendTypes ==
  ASSUME TypeOK, NEW h \in Handler, NEW m \in Reply, NEW e, MainSends(h, m, e)
  PROVE  /\ TypeLife'
         /\ s2c' \in [Handler -> Seq(Reply)]
         /\ state' \in [Handler -> ProtocolState]
<1>1. CASE ~CanWrite(h) /\ halt(h) /\ UNCHANGED <<s2c, state>>
  BY <1>1, HaltTypes DEF TypeOK, TypeEnv, TypeMain
<1>2. CASE CanWrite(h) /\ write(h, m) /\ state' = [state EXCEPT ![h] = NextState(@, e)]
             /\ UNCHANGED <<life, vpn, rules, registered>>
  <2>1. NextState(state[h], e) \in ProtocolState
    BY NextStateType DEF TypeOK, TypeMain
  <2> QED
    BY <1>2, <2>1 DEF write, TypeOK, TypeEnv, TypeMain, TypeLife, life, rules
<1> QED
  BY <1>1, <1>2 DEF MainSends

(* Every action of the main thread. *)
LEMMA MainTypes ==
  ASSUME TypeOK, NEW h \in Handler, Main(h)
  PROVE  TypeOK'
<1> USE DEF environment, wire, life, rules, requests, NextMessage
<1>1. CASE GetStreams(h)
  BY <1>1 DEF GetStreams, TypeOK, TypeEnv, TypeMain, TypeLife, TypeThreads, Place
<1>2. CASE NoStreams(h)
  BY <1>2, HaltTypes DEF NoStreams, TypeOK, TypeEnv, TypeMain, TypeThreads, Place
<1>3. CASE Loop(h)
  BY <1>3 DEF Loop, TypeOK, TypeEnv, TypeMain, TypeLife, TypeThreads, Place
<1>4. CASE EndOfProtocol(h)
  BY <1>4, HaltTypes DEF EndOfProtocol, TypeOK, TypeEnv, TypeMain, TypeThreads, Place
<1>5. CASE Receive(h)
  BY <1>5, SMTT(30) DEF Receive, TypeOK, TypeEnv, TypeMain, TypeLife, TypeThreads, Place
<1>6. CASE ReceiveFails(h)
  BY <1>6, HaltTypes DEF ReceiveFails, TypeOK, TypeEnv, TypeMain, TypeThreads, Place
<1>7. CASE Event(h)
  <2>1. NextState(state[h], latest[h]) \in ProtocolState
    BY NextStateType DEF TypeOK, TypeMain
  <2> QED
    BY <1>7, <2>1 DEF Event, TypeOK, TypeEnv, TypeMain, TypeLife, TypeThreads, Place
<1>8. CASE EventOfNull(h)
  BY <1>8, HaltTypes DEF EventOfNull, TypeOK, TypeEnv, TypeMain, TypeThreads, Place
<1>9. CASE ReactHello(h)
  BY <1>9 DEF ReactHello, TypeOK, TypeEnv, TypeMain, TypeLife, TypeThreads, Place
<1>10. CASE Wait(h)
  BY <1>10 DEF Wait, TypeOK, TypeEnv, TypeMain, TypeLife, TypeThreads, Place
<1>11. CASE AnswerHello(h)
  <2>1. PICK m \in Reply : \E e : MainSends(h, m, e)
    BY <1>11, HelloAnswerType DEF AnswerHello, Reply
  <2> QED
    BY <1>11, <2>1, SendTypes DEF AnswerHello, TypeOK, TypeEnv, TypeMain, TypeThreads, Place
<1>20. CASE AnswerWithoutService(h)
  BY <1>20, HaltTypes DEF AnswerWithoutService, TypeOK, TypeEnv, TypeMain, TypeThreads, Place
<1>21. CASE ServiceFails(h)
  BY <1>21 DEF ServiceFails, TypeOK, TypeEnv, TypeMain, TypeLife, TypeThreads, Place
<1>12. CASE ReactPSI(h)
  <2>1. CASE halt(h) /\ UNCHANGED <<s2c, state>>
    BY <1>12, <2>1, HaltTypes DEF ReactPSI, TypeOK, TypeEnv, TypeMain, TypeThreads, Place
  <2>2. CASE \E m \in Reply : \E e : MainSends(h, m, e)
    BY <1>12, <2>2, SendTypes DEF ReactPSI, TypeOK, TypeEnv, TypeMain, TypeThreads, Place
  <2>3. service[h] = "null" \/ service[h] = "bound"
    BY DEF TypeOK, TypeMain
  <2> QED
    BY <1>12, <2>1, <2>2, <2>3, HelloAnswerType DEF ReactPSI, Reply
<1>13. CASE ReactACK(h)
  BY <1>13, ManagementServerAssumption, SMTT(30)
     DEF ReactACK, startKeepAliveTimer, TypeOK, TypeEnv, TypeMain, TypeLife, TypeThreads, Place
<1>14. CASE ReactClose(h)
  BY <1>14, HaltTypes DEF ReactClose, TypeOK, TypeEnv, TypeMain, TypeThreads, Place
<1>15. CASE ReactVPNRequest(h)
  BY <1>15, SMTT(30) DEF ReactVPNRequest, openVPN, allowOVpnAccessForIP, TypeOK, TypeEnv, TypeMain, TypeLife,
               TypeThreads, Place
<1>16. CASE SendVPNGranted(h)
  <2>1. "VPNGranted" \in Reply
    BY DEF Reply
  <2> QED
    BY <1>16, <2>1, SendTypes DEF SendVPNGranted, TypeOK, TypeEnv, TypeMain, TypeThreads, Place
<1>17. CASE ReactRequest(h)
  <2>1. PICK r \in Request : spawn(h, r)
    BY <1>17 DEF ReactRequest
  <2>2. <<h, r, "persist">> \in Handler \X Request \X Stage
    BY DEF Stage
  <2>3. rr' \in [Handler \X Request \X Stage -> Nat]
    BY <2>1, <2>2 DEF spawn, TypeOK, TypeThreads
  <2> QED
    BY <1>17, <2>3 DEF ReactRequest, TypeOK, TypeEnv, TypeMain, TypeLife, TypeThreads, Place
<1>18. CASE ClearLatest(h)
  BY <1>18 DEF ClearLatest, TypeOK, TypeEnv, TypeMain, TypeLife, TypeThreads, Place
<1>19. CASE ReactNothing(h)
  BY <1>19 DEF ReactNothing, TypeOK, TypeEnv, TypeMain, TypeLife, TypeThreads, Place
<1> QED
  BY <1>1, <1>2, <1>3, <1>4, <1>5, <1>6, <1>7, <1>8, <1>9, <1>10, <1>11, <1>12, <1>13, <1>14,
     <1>15, <1>16, <1>17, <1>18, <1>19, <1>20, <1>21 DEF Main

(* Moving one from a positive count to another. *)
LEMMA MoveCount ==
  ASSUME NEW D, NEW f \in [D -> Nat], NEW x \in D, NEW y \in D, f[x] > 0
  PROVE  [f EXCEPT ![x] = @ - 1, ![y] = @ + 1] \in [D -> Nat]
  OBVIOUS

(* The counts of request threads after one thread moves on, ends or starts. *)
LEMMA ThreadTypes ==
  ASSUME TypeOK, NEW h \in Handler, NEW r \in Request, NEW s \in Stage, At(h, r, s)
  PROVE  /\ [rr EXCEPT ![<<h, r, s>>] = @ - 1] \in [Handler \X Request \X Stage -> Nat]
         /\ \A q \in Request, t \in Stage :
               [rr EXCEPT ![<<h, r, s>>] = @ - 1, ![<<h, q, t>>] = @ + 1]
                  \in [Handler \X Request \X Stage -> Nat]
<1>1. <<h, r, s>> \in Handler \X Request \X Stage
  OBVIOUS
<1>2. [rr EXCEPT ![<<h, r, s>>] = @ - 1] \in [Handler \X Request \X Stage -> Nat]
  BY <1>1 DEF At, TypeOK, TypeThreads
<1>3. ASSUME NEW q \in Request, NEW t \in Stage
      PROVE  [rr EXCEPT ![<<h, r, s>>] = @ - 1, ![<<h, q, t>>] = @ + 1]
                \in [Handler \X Request \X Stage -> Nat]
  <2>1. <<h, q, t>> \in Handler \X Request \X Stage
    OBVIOUS
  <2>2. rr[<<h, r, s>>] > 0 /\ rr \in [Handler \X Request \X Stage -> Nat]
    BY DEF At, TypeOK, TypeThreads
  <2> QED BY <1>1, <2>1, <2>2, MoveCount, Zenon
<1> QED BY <1>2, <1>3

(* Every action of a timer. *)
LEMMA TimerTypes ==
  ASSUME TypeOK, NEW h \in Handler, Timer(h)
  PROVE  TypeOK'
<1> USE DEF environment, wire, life, rules, requests
<1>1. CASE TimerTicks(h)
  BY <1>1 DEF TimerTicks, written, TypeOK, TypeEnv, TypeMain, TypeLife, TypeThreads
<1>2. CASE TimerRepeatsACK(h)
  BY <1>2, ManagementServerAssumption, SMTT(30)
     DEF TimerRepeatsACK, written, startKeepAliveTimer, TypeOK, TypeEnv, TypeMain, TypeLife,
         TypeThreads
<1>3. CASE TimerRepeatsClose(h)
  BY <1>3, HaltTypes DEF TimerRepeatsClose, TypeOK, TypeEnv, TypeMain, TypeThreads
<1>4. CASE TimerRepeatsVPNRequest(h)
  <2>1. NextState(state[h], "VPNGranted") \in ProtocolState
    BY NextStateType DEF TypeOK, TypeMain
  <2>2. "VPNGranted" \in Reply
    BY DEF Reply
  <2> QED
    BY <1>4, <2>1, <2>2, SMTT(30) DEF TimerRepeatsVPNRequest, openVPN, allowOVpnAccessForIP, write, TypeOK,
                            TypeEnv, TypeMain, TypeLife, TypeThreads
<1>5. CASE TimerRepeatsRequest(h)
  <2>1. PICK r \in Request : spawn(h, r)
    BY <1>5 DEF TimerRepeatsRequest
  <2>2. <<h, r, "persist">> \in Handler \X Request \X Stage
    BY DEF Stage
  <2>3. rr' \in [Handler \X Request \X Stage -> Nat]
    BY <2>1, <2>2 DEF spawn, TypeOK, TypeThreads
  <2> QED
    BY <1>5, <2>3 DEF TimerRepeatsRequest, written, TypeOK, TypeEnv, TypeMain, TypeLife,
                      TypeThreads
<1>6. CASE TimerFails(h)
  BY <1>6, HaltTypes DEF TimerFails, TypeOK, TypeEnv, TypeMain, TypeThreads
<1> QED
  BY <1>1, <1>2, <1>3, <1>4, <1>5, <1>6 DEF Timer

(* Every action of the other threads of a handler. *)
LEMMA WorkerTypes ==
  ASSUME TypeOK, NEW h \in Handler, Worker(h)
  PROVE  TypeOK'
<1> USE DEF environment, wire, life, rules, requests
<1>1. getVpnAddress(h) \in Flag
  BY DEF getVpnAddress, TypeOK, TypeEnv, TypeLife
<1>2. CASE OpenerFinds(h)
  BY <1>2, SMTT(30) DEF OpenerFinds, Flag, TypeOK, TypeEnv, TypeMain, TypeLife, TypeThreads
<1>3. CASE OpenerGivesUp(h)
  BY <1>3, SMTT(30) DEF OpenerGivesUp, TypeOK, TypeEnv, TypeMain, TypeLife, TypeThreads
<1>4. ASSUME NEW r \in Request, Persist(h, r)
      PROVE  TypeOK'
  <2>1. rr' \in [Handler \X Request \X Stage -> Nat]
    BY <1>4, ThreadTypes DEF Persist, Advance, Stage
  <2>2. persisted' \in SUBSET Request /\ overwritten' \in SUBSET Request
    BY <1>4 DEF Persist, TypeOK, TypeThreads
  <2> QED
    BY <1>4, <2>1, <2>2 DEF Persist, TypeOK, TypeEnv, TypeMain, TypeLife, TypeThreads
<1>5. ASSUME NEW r \in Request, DropRequest(h, r)
      PROVE  TypeOK'
  <2>1. rr' \in [Handler \X Request \X Stage -> Nat]
    BY <1>5, ThreadTypes DEF DropRequest, Stage
  <2> QED
    BY <1>5, <2>1 DEF DropRequest, TypeOK, TypeEnv, TypeMain, TypeLife, TypeThreads
<1>6. ASSUME NEW r \in Request, AllowRequest(h, r)
      PROVE  TypeOK'
  <2>1. rr' \in [Handler \X Request \X Stage -> Nat]
    BY <1>6, ThreadTypes DEF AllowRequest, Advance, Stage
  <2>2. masqFor' \in [Request -> Nat] /\ owed' \in [Request -> Nat]
    BY <1>6, <1>1 DEF AllowRequest, Flag, TypeOK, TypeThreads
  <2>3. vpn' \in [Handler -> Flag]
    BY <1>6, <1>1 DEF AllowRequest, TypeOK, TypeLife
  <2> QED
    BY <1>6, <2>1, <2>2, <2>3 DEF AllowRequest, TypeOK, TypeEnv, TypeMain, TypeLife, TypeThreads
<1>10. ASSUME NEW r \in Request, StartExpiry(h, r)
       PROVE  TypeOK'
  <2>1. rr' \in [Handler \X Request \X Stage -> Nat]
    BY <1>10, ThreadTypes DEF StartExpiry, Advance, Stage
  <2>2. owed' \in [Request -> Nat] /\ ttl' \in [Request -> Nat]
    BY <1>10 DEF StartExpiry, TypeOK, TypeThreads
  <2> QED
    BY <1>10, <2>1, <2>2 DEF StartExpiry, TypeOK, TypeEnv, TypeMain, TypeLife, TypeThreads
<1>7. ASSUME NEW r \in Request, ForgetLatest(h, r)
      PROVE  TypeOK'
  <2>1. rr' \in [Handler \X Request \X Stage -> Nat]
    BY <1>7, ThreadTypes DEF ForgetLatest, Advance, Stage
  <2> QED
    BY <1>7, <2>1 DEF ForgetLatest, TypeOK, TypeEnv, TypeMain, TypeLife, TypeThreads
<1>8. ASSUME NEW r \in Request, SendGrant(h, r)
      PROVE  TypeOK'
  <2>0. /\ "send" \in Stage /\ "persist" \in Stage
        /\ At(h, r, "send")
    BY <1>8 DEF SendGrant, Stage
  <2>1. rr' \in [Handler \X Request \X Stage -> Nat]
    <3>1. CASE state[h] = "openVPN" /\ latest[h] \in Request
      <4>1. rr' = [rr EXCEPT ![<<h, r, "send">>] = @ - 1, ![<<h, latest[h], "persist">>] = @ + 1]
        BY <1>8, <3>1 DEF SendGrant
      <4> QED BY <4>1, <3>1, <2>0, ThreadTypes
    <3>2. CASE ~(state[h] = "openVPN" /\ latest[h] \in Request)
      <4>1. rr' = [rr EXCEPT ![<<h, r, "send">>] = @ - 1]
        BY <1>8, <3>2 DEF SendGrant
      <4> QED BY <4>1, <2>0, ThreadTypes
    <3> QED BY <3>1, <3>2
  <2>2. latest' \in [Handler -> Message \cup {"none"}]
    BY <1>8 DEF SendGrant, TypeOK, TypeMain
  <2>3. link' \in [Handler -> {"up", "fin", "broken"}]
    BY <1>8 DEF SendGrant, written, TypeOK, TypeLife
  <2> QED
    BY <1>8, <2>1, <2>2, <2>3 DEF SendGrant, TypeOK, TypeEnv, TypeMain, TypeLife, TypeThreads
<1>9. ASSUME NEW r \in Request, SendGrantFails(h, r)
      PROVE  TypeOK'
  <2>1. rr' \in [Handler \X Request \X Stage -> Nat]
    BY <1>9, ThreadTypes DEF SendGrantFails, Stage
  <2> QED
    BY <1>9, <2>1, HaltTypes DEF SendGrantFails, TypeOK, TypeEnv, TypeMain, TypeThreads
<1> QED
  BY <1>2, <1>3, <1>4, <1>5, <1>6, <1>7, <1>8, <1>9, <1>10 DEF Worker

(* Every step of the client and of the network on one connection. *)
LEMMA ClientTypes ==
  ASSUME TypeOK, NEW h \in Handler, Client(h)
  PROVE  TypeOK'
<1> USE DEF environment, wire, life, rules, requests
<1>1. TypeMain' /\ TypeThreads'
  BY DEF Client, TypeOK, TypeMain, TypeThreads
<1>2. link' \in [Handler -> {"up", "fin", "broken"}] => TypeLife'
  BY DEF Client, TypeOK, TypeLife
<1>3. CASE ClientHello(h)
  BY <1>1, <1>2, <1>3, SMTT(30) DEF ClientHello, ClientSays, Message, TypeOK, TypeEnv, TypeLife
<1>4. CASE ClientReads(h)
  <2>1. prefs' = prefs /\ listed' = listed /\ requested' = requested
    BY <1>4 DEF ClientReads
  <2>2. s2c' \in [Handler -> Seq(Reply)]
    BY <1>4 DEF ClientReads, TypeOK, TypeEnv
  <2>3. /\ cli' \in [Handler -> {"absent", "connected", "greeted", "acked", "asked", "open", "closed"}]
        /\ c2s' \in [Handler -> Seq(Message)]
        /\ link' \in [Handler -> {"up", "fin", "broken"}]
    <3> DEFINE m == Head(s2c[h])
    <3>1. CASE m = "NeedPSI"
      <4>1. c2s' = [c2s EXCEPT ![h] = Append(@, "PSIResponse")] /\ cli' = [cli EXCEPT ![h] = "greeted"] /\ link' = link
        BY <1>4, <3>1 DEF ClientReads, ClientSays
      <4> QED BY <4>1 DEF Message, TypeOK, TypeEnv, TypeLife
    <3>2. CASE m \in {"Offer", "OfferLiable"}
      <4>1. c2s' = [c2s EXCEPT ![h] = Append(@, "ConnectionACK")] /\ cli' = [cli EXCEPT ![h] = "acked"] /\ link' = link
        BY <1>4, <3>2 DEF ClientReads, ClientSays
      <4> QED BY <4>1 DEF Message, TypeOK, TypeEnv, TypeLife
    <3>3. CASE m = "NoOffer"
      <4>1. c2s' = [c2s EXCEPT ![h] = Append(@, "ConnectionNACK")] /\ cli' = [cli EXCEPT ![h] = "closed"]
            /\ link' = [link EXCEPT ![h] = "fin"]
        BY <1>4, <3>3 DEF ClientReads, ClientSays
      <4> QED BY <4>1 DEF Message, TypeOK, TypeEnv, TypeLife
    <3>4. CASE m = "PSINACK"
      <4>1. cli' = [cli EXCEPT ![h] = "closed"] /\ link' = [link EXCEPT ![h] = "fin"] /\ c2s' = c2s
        BY <1>4, <3>4 DEF ClientReads
      <4> QED BY <4>1 DEF TypeOK, TypeEnv, TypeLife
    <3>5. CASE m \notin {"NeedPSI", "Offer", "OfferLiable", "NoOffer", "PSINACK"}
      <4>1. cli' = [cli EXCEPT ![h] = "open"] /\ c2s' = c2s /\ link' = link
        BY <1>4, <3>5 DEF ClientReads
      <4> QED BY <4>1 DEF TypeOK, TypeEnv, TypeLife
    <3> QED
      BY <3>1, <3>2, <3>3, <3>4, <3>5
  <2> QED
    BY <1>1, <1>2, <2>1, <2>2, <2>3 DEF TypeOK, TypeEnv
<1>5. CASE ClientRequestsVPN(h)
  BY <1>1, <1>2, <1>5, SMTT(30) DEF ClientRequestsVPN, ClientSays, Message, TypeOK, TypeEnv, TypeLife
<1>6. CASE ClientCloses(h)
  <2>1. /\ cli' \in [Handler -> {"absent", "connected", "greeted", "acked", "asked", "open", "closed"}]
        /\ c2s' \in [Handler -> Seq(Message)]
    <3>1. CASE ClientSays(h, "CloseManagementChannel", "closed")
      BY <3>1 DEF ClientSays, Message, TypeOK, TypeEnv
    <3>2. CASE cli' = [cli EXCEPT ![h] = "closed"] /\ UNCHANGED c2s
      BY <3>2 DEF TypeOK, TypeEnv
    <3> QED BY <1>6, <3>1, <3>2 DEF ClientCloses
  <2>2. link' \in [Handler -> {"up", "fin", "broken"}]
    BY <1>6 DEF ClientCloses, TypeOK, TypeLife
  <2> QED
    BY <1>1, <1>2, <1>6, <2>1, <2>2 DEF ClientCloses, TypeOK, TypeEnv
<1>7. CASE LinkBreaks(h)
  BY <1>1, <1>2, <1>7 DEF LinkBreaks, TypeOK, TypeEnv, TypeLife
<1>8. ASSUME NEW r \in Request, ClientRequests(h, r)
      PROVE  TypeOK'
  BY <1>1, <1>2, <1>8 DEF ClientRequests, ClientSays, Message, TypeOK, TypeEnv, TypeLife
<1> QED
  BY <1>3, <1>4, <1>5, <1>6, <1>7, <1>8 DEF Client

(* Every step keeps the types. *)
LEMMA TypeStep == TypeOK /\ [Next]_vars => TypeOK'
<1> SUFFICES ASSUME TypeOK, [Next]_vars
             PROVE  TypeOK'
  OBVIOUS
<1> USE DEF environment, wire, life, rules, requests
<1>1. ASSUME NEW h \in Handler, onServiceConnected(h)
      PROVE  TypeOK'
  BY <1>1 DEF onServiceConnected, TypeOK, TypeEnv, TypeMain, TypeLife, TypeThreads, Place
<1>2. ASSUME NEW h \in Handler, onServiceDisconnected(h)
      PROVE  TypeOK'
  BY <1>2 DEF onServiceDisconnected, TypeOK, TypeEnv, TypeMain, TypeLife, TypeThreads
<1>3. ASSUME NEW h \in Handler, Accept(h)
      PROVE  TypeOK'
  BY <1>3 DEF Accept, TypeOK, TypeEnv, TypeMain, TypeLife, TypeThreads, Place
<1>4. ASSUME NEW h \in Handler, Shutdown(h)
      PROVE  TypeOK'
  <2>1. TypeLife'
    BY <1>4, CloseStreamsTypes, CloseTypes DEF Shutdown, TypeOK, TypeLife, Flag
  <2> QED
    BY <1>4, <2>1 DEF Shutdown, TypeOK, TypeEnv, TypeMain, TypeThreads
<1>5. ASSUME NEW r \in Request, Expire(r)
      PROVE  TypeOK'
  BY <1>5 DEF Expire, Del, TypeOK, TypeEnv, TypeMain, TypeLife, TypeThreads
<1>6. CASE flushRules
  BY <1>6 DEF flushRules, Flag, TypeOK, TypeEnv, TypeMain, TypeLife, TypeThreads
<1>7. CASE Network
  BY <1>7 DEF Network, OpenVPNStatus, Flag, TypeOK, TypeEnv, TypeMain, TypeLife, TypeThreads
<1>8. CASE UNCHANGED vars
  BY <1>8 DEF vars, TypeOK, TypeEnv, TypeMain, TypeLife, TypeThreads
<1> QED
  BY <1>1, <1>2, <1>3, <1>4, <1>5, <1>6, <1>7, <1>8, MainTypes, TimerTypes, WorkerTypes, ClientTypes
     DEF Next

(* The handlers' fields, the messages under way and the counts of rules     *)
(* keep their types: no rule is removed that is not there.                  *)
THEOREM TypeCorrect == Spec => []TypeOK
<1>1. Init => TypeOK
  BY ManagementServerAssumption DEF Init, Flag, Stage, Message, Reply, Place, ProtocolState, TypeOK,
     TypeEnv, TypeMain, TypeLife, TypeThreads
<1> QED
  BY <1>1, TypeStep, PTL DEF Spec

-----------------------------------------------------------------------------
(* Who is not admitted: the whole exchange stays in its first phase. *)
Early == {"Hello", "PSIResponse", "ConnectionNACK", "CloseManagementChannel"}
EarlyState == {"start", "helloSent", "psiMiddle", "psiDone", "responseSent", "finished"}
RefusedWire ==
  /\ s2c \in [Handler -> Seq({"NeedPSI", "PSINACK", "NoOffer"})]
  /\ c2s \in [Handler -> Seq(Early)]
  /\ cli \in [Handler -> {"absent", "connected", "greeted", "closed"}]
RefusedMain ==
  /\ latest \in [Handler -> Early \cup {"none"}]
  /\ state \in [Handler -> EarlyState] /\ entered \in [Handler -> EarlyState]
  /\ pc \in [Handler -> Place \ {"grant"}]
RefusedRules ==
  /\ timers = [g \in Handler |-> {}]
  /\ dport = 0 /\ sport = 0 /\ masq = 0
RefusedThreads ==
  /\ openers = [g \in Handler |-> 0]
  /\ rr = [t \in Handler \X Request \X Stage |-> 0]
  /\ masqFor = [r \in Request |-> 0]
Refused == RefusedWire /\ RefusedMain /\ RefusedRules /\ RefusedThreads

(* No event of the first phase leaves its states. *)
LEMMA EarlyStays ==
  ASSUME NEW s \in EarlyState, NEW m \in Early \cup {"NeedPSI", "PSINACK", "HelloResponse"}
  PROVE  NextState(s, m) \in EarlyState
  BY DEF NextState, EarlyState, Early

(* closeVPN and halt leave no rule and no timer. *)
LEMMA RefusedHalt ==
  ASSUME TypeOK, Refused, NEW h \in Handler, NEW o, closeStreams(h, o), closeVPN(h)
  PROVE  RefusedRules'
<1>1. dport' = 0 /\ sport' = 0 /\ masq' = 0
  BY DEF closeVPN, blockOVpnAccessForIP, removeMasqueradeForIP, Del, Refused, RefusedRules
<1>2. timers' = timers \/ timers' = [timers EXCEPT ![h] = @ \ {timer[h]}]
  BY DEF closeStreams
<1>3. timers' = [g \in Handler |-> {}]
  BY <1>2 DEF Refused, RefusedRules
<1> QED BY <1>1, <1>3 DEF RefusedRules

(* The replies to a client that is not admitted. *)
LEMMA RefusedSend ==
  ASSUME TypeOK, Refused, NEW h \in Handler, NEW m \in {"NeedPSI", "PSINACK", "NoOffer"},
         NEW e \in {"NeedPSI", "PSINACK", "HelloResponse"}, MainSends(h, m, e)
  PROVE  /\ RefusedRules'
         /\ s2c' \in [Handler -> Seq({"NeedPSI", "PSINACK", "NoOffer"})]
         /\ state' \in [Handler -> EarlyState]
<1>1. CASE ~CanWrite(h) /\ halt(h) /\ UNCHANGED <<s2c, state>>
  BY <1>1, RefusedHalt DEF halt, Refused, RefusedWire, RefusedMain
<1>2. CASE CanWrite(h) /\ write(h, m) /\ state' = [state EXCEPT ![h] = NextState(@, e)]
             /\ UNCHANGED <<life, vpn, rules, registered>>
  <2>1. NextState(state[h], e) \in EarlyState
    BY EarlyStays DEF Refused, RefusedMain
  <2> QED
    BY <1>2, <2>1 DEF write, life, rules, Refused, RefusedWire, RefusedMain, RefusedRules
<1> QED
  BY <1>1, <1>2 DEF MainSends

(* The main thread. *)
LEMMA RefusedMainStep ==
  ASSUME TypeOK, Refused, ~Admits(prefs), NEW h \in Handler, Main(h)
  PROVE  Refused'
<1> USE DEF environment, wire, life, rules, requests, NextMessage
<1>0. /\ latest[h] \in Early \cup {"none"} /\ state[h] \in EarlyState /\ entered[h] \in EarlyState
      /\ pc[h] # "grant"
  BY DEF Refused, RefusedMain
<1>1. CASE GetStreams(h)
  BY <1>1 DEF GetStreams, Refused, RefusedWire, RefusedMain, RefusedRules, RefusedThreads, Place
<1>2. CASE NoStreams(h)
  BY <1>2, RefusedHalt DEF NoStreams, halt, Refused, RefusedWire, RefusedMain, RefusedThreads, Place
<1>3. CASE Loop(h)
  BY <1>3 DEF Loop, Refused, RefusedWire, RefusedMain, RefusedRules, RefusedThreads, Place
<1>4. CASE EndOfProtocol(h)
  BY <1>4, RefusedHalt DEF EndOfProtocol, halt, Refused, RefusedWire, RefusedMain, RefusedThreads, Place
<1>5. CASE Receive(h)
  BY <1>5 DEF Receive, Refused, RefusedWire, RefusedMain, RefusedRules, RefusedThreads, Place
<1>6. CASE ReceiveFails(h)
  BY <1>6, RefusedHalt DEF ReceiveFails, halt, Refused, RefusedWire, RefusedMain, RefusedThreads, Place
<1>7. CASE Event(h)
  <2>1. NextState(state[h], latest[h]) \in EarlyState
    BY <1>0, <1>7, EarlyStays DEF Event
  <2> QED
    BY <1>7, <2>1 DEF Event, Refused, RefusedWire, RefusedMain, RefusedRules, RefusedThreads, Place
<1>8. CASE EventOfNull(h)
  BY <1>8, RefusedHalt DEF EventOfNull, halt, Refused, RefusedWire, RefusedMain, RefusedThreads, Place
<1>9. CASE ReactHello(h)
  BY <1>9 DEF ReactHello, Refused, RefusedWire, RefusedMain, RefusedRules, RefusedThreads, Place
<1>10. CASE Wait(h)
  BY <1>10 DEF Wait, Refused, RefusedWire, RefusedMain, RefusedRules, RefusedThreads, Place
<1>11. CASE AnswerHello(h)
  <2>1. HelloAnswer(prefs) = "NoOffer"
    BY DEF HelloAnswer
  <2>2. MainSends(h, "NeedPSI", "NeedPSI") \/ MainSends(h, "NoOffer", "HelloResponse")
    BY <1>11, <2>1 DEF AnswerHello
  <2>3. /\ RefusedRules'
        /\ s2c' \in [Handler -> Seq({"NeedPSI", "PSINACK", "NoOffer"})]
        /\ state' \in [Handler -> EarlyState]
    BY <2>2, RefusedSend
  <2> QED
    BY <1>11, <2>3 DEF AnswerHello, Refused, RefusedWire, RefusedMain, RefusedThreads, Place
<1>20. CASE AnswerWithoutService(h)
  BY <1>20, RefusedHalt DEF AnswerWithoutService, halt, Refused, RefusedWire, RefusedMain, RefusedThreads, Place
<1>21. CASE ServiceFails(h)
  BY <1>21 DEF ServiceFails, Refused, RefusedWire, RefusedMain, RefusedRules, RefusedThreads, Place
<1>12. CASE ReactPSI(h)
  <2>1. (halt(h) /\ UNCHANGED <<s2c, state>>) \/ MainSends(h, "PSINACK", "PSINACK")
    BY <1>12 DEF ReactPSI
  <2>2. /\ RefusedRules'
        /\ s2c' \in [Handler -> Seq({"NeedPSI", "PSINACK", "NoOffer"})]
        /\ state' \in [Handler -> EarlyState]
    BY <2>1, RefusedSend, RefusedHalt DEF halt, Refused, RefusedWire, RefusedMain
  <2> QED
    BY <1>12, <2>2 DEF ReactPSI, Refused, RefusedWire, RefusedMain, RefusedThreads, Place
<1>13. CASE ReactClose(h)
  BY <1>13, RefusedHalt DEF ReactClose, halt, Refused, RefusedWire, RefusedMain, RefusedThreads, Place
<1>14. CASE ClearLatest(h)
  BY <1>14 DEF ClearLatest, Refused, RefusedWire, RefusedMain, RefusedRules, RefusedThreads, Place
<1>15. CASE ReactNothing(h)
  BY <1>15 DEF ReactNothing, Refused, RefusedWire, RefusedMain, RefusedRules, RefusedThreads, Place
<1>16. ~ReactACK(h) /\ ~ReactVPNRequest(h) /\ ~SendVPNGranted(h)
  BY <1>0 DEF ReactACK, ReactVPNRequest, SendVPNGranted, Reacts, Early
<1>17. ~ReactRequest(h)
  BY <1>0, ManagementServerAssumption DEF ReactRequest, Reacts, EarlyState
<1> QED
  BY <1>1, <1>2, <1>3, <1>4, <1>5, <1>6, <1>7, <1>8, <1>9, <1>10, <1>11, <1>12, <1>13, <1>14,
     <1>15, <1>16, <1>17, <1>20, <1>21 DEF Main

(* The environment of a client that is not admitted. *)
LEMMA RefusedClientStep ==
  ASSUME TypeOK, Refused, NEW h \in Handler, Client(h)
  PROVE  Refused'
<1> USE DEF environment, wire, life, rules, requests
<1>0. /\ s2c[h] \in Seq({"NeedPSI", "PSINACK", "NoOffer"})
      /\ cli[h] \notin {"acked", "asked", "open"}
  BY DEF Refused, RefusedWire
<1>1. RefusedMain' /\ RefusedRules' /\ RefusedThreads'
  BY DEF Client, Refused, RefusedMain, RefusedRules, RefusedThreads
<1>2. CASE ClientHello(h)
  BY <1>1, <1>2 DEF ClientHello, ClientSays, Refused, RefusedWire, Early
<1>3. CASE ClientReads(h)
  <2>0. Head(s2c[h]) \in {"NeedPSI", "PSINACK", "NoOffer"}
    BY <1>0, <1>3 DEF ClientReads
  <2>1. s2c' \in [Handler -> Seq({"NeedPSI", "PSINACK", "NoOffer"})]
    BY <1>3 DEF ClientReads, Refused, RefusedWire
  <2>2. CASE Head(s2c[h]) = "NeedPSI"
    <3>1. c2s' = [c2s EXCEPT ![h] = Append(@, "PSIResponse")] /\ cli' = [cli EXCEPT ![h] = "greeted"]
      BY <1>3, <2>2 DEF ClientReads, ClientSays
    <3> QED BY <1>1, <2>1, <3>1 DEF Refused, RefusedWire, Early
  <2>3. CASE Head(s2c[h]) = "NoOffer"
    <3>1. c2s' = [c2s EXCEPT ![h] = Append(@, "ConnectionNACK")] /\ cli' = [cli EXCEPT ![h] = "closed"]
      BY <1>3, <2>3 DEF ClientReads, ClientSays
    <3> QED BY <1>1, <2>1, <3>1 DEF Refused, RefusedWire, Early
  <2>4. CASE Head(s2c[h]) = "PSINACK"
    <3>1. c2s' = c2s /\ cli' = [cli EXCEPT ![h] = "closed"]
      BY <1>3, <2>4 DEF ClientReads
    <3> QED BY <1>1, <2>1, <3>1 DEF Refused, RefusedWire
  <2> QED BY <2>0, <2>2, <2>3, <2>4
<1>4. CASE ClientCloses(h)
  <2>1. \/ c2s' = [c2s EXCEPT ![h] = Append(@, "CloseManagementChannel")]
        \/ c2s' = c2s
    BY <1>4 DEF ClientCloses, ClientSays
  <2>2. cli' = [cli EXCEPT ![h] = "closed"] /\ s2c' = s2c
    BY <1>4 DEF ClientCloses, ClientSays
  <2>3. c2s' \in [Handler -> Seq(Early)]
    <3>1. CASE c2s' = c2s
      BY <3>1 DEF Refused, RefusedWire
    <3>2. CASE c2s' = [c2s EXCEPT ![h] = Append(@, "CloseManagementChannel")]
      BY <3>2 DEF Refused, RefusedWire, Early
    <3> QED BY <2>1, <3>1, <3>2
  <2> QED BY <1>1, <2>2, <2>3 DEF Refused, RefusedWire
<1>5. CASE LinkBreaks(h)
  BY <1>1, <1>5 DEF LinkBreaks, Refused, RefusedWire
<1>6. ~ClientRequestsVPN(h) /\ \A r \in Request : ~ClientRequests(h, r)
  BY <1>0 DEF ClientRequestsVPN, ClientRequests
<1> QED
  BY <1>2, <1>3, <1>4, <1>5, <1>6 DEF Client

(* A client that is not admitted never gets past the first phase. *)
LEMMA RefusedStep ==
  TypeOK /\ (~Admits(prefs) => Refused) /\ [Next]_vars => (~Admits(prefs) => Refused)'
<1> SUFFICES ASSUME TypeOK, ~Admits(prefs) => Refused, [Next]_vars, ~Admits(prefs)'
             PROVE  Refused'
  OBVIOUS
<1> USE DEF environment, wire, life, rules, requests
<1>0. prefs' = prefs
  <2>1. ASSUME NEW h \in Handler, Main(h)
        PROVE  prefs' = prefs
    BY <2>1 DEF Main, GetStreams, NoStreams, Loop, EndOfProtocol, Receive, ReceiveFails, Event,
       EventOfNull, ReactHello, Wait, AnswerHello, AnswerWithoutService, ServiceFails, ReactPSI, ReactACK, ReactClose,
       ReactVPNRequest, SendVPNGranted, ReactRequest, ClearLatest, ReactNothing
  <2>2. ASSUME NEW h \in Handler, Timer(h)
        PROVE  prefs' = prefs
    BY <2>2 DEF Timer, TimerTicks, TimerRepeatsACK, TimerRepeatsClose, TimerRepeatsVPNRequest,
       TimerRepeatsRequest, TimerFails
  <2>3. ASSUME NEW h \in Handler, Worker(h)
        PROVE  prefs' = prefs
    BY <2>3 DEF Worker, OpenerFinds, OpenerGivesUp, Persist, DropRequest, AllowRequest, StartExpiry,
       ForgetLatest, SendGrant, SendGrantFails
  <2>4. ASSUME NEW h \in Handler, Client(h)
        PROVE  prefs' = prefs
    BY <2>4 DEF Client, ClientHello, ClientReads, ClientRequestsVPN, ClientRequests, ClientCloses,
       LinkBreaks
  <2>5. ASSUME NEW h \in Handler,
               onServiceConnected(h) \/ onServiceDisconnected(h) \/ Accept(h) \/ Shutdown(h)
        PROVE  prefs' = prefs
    BY <2>5 DEF onServiceConnected, onServiceDisconnected, Accept, Shutdown
  <2>6. (\E r \in Request : Expire(r)) \/ flushRules \/ Network \/ UNCHANGED vars => prefs' = prefs
    BY DEF Expire, flushRules, Network, OpenVPNStatus, vars
  <2> QED
    BY <2>1, <2>2, <2>3, <2>4, <2>5, <2>6 DEF Next
<1>1. ~Admits(prefs) /\ Refused
  BY <1>0
<1>2. ASSUME NEW h \in Handler
      PROVE  ~Timer(h) /\ ~Worker(h)
  <2>1. timers[h] = {} /\ openers[h] = 0 /\ \A r \in Request, s \in Stage : ~At(h, r, s)
    BY <1>1 DEF Refused, RefusedRules, RefusedThreads, At
  <2>2. ~Timer(h)
    BY <2>1 DEF Timer, Ticks, TimerTicks, TimerRepeatsACK, TimerRepeatsClose,
       TimerRepeatsVPNRequest, TimerRepeatsRequest, TimerFails
  <2>3. ~OpenerFinds(h) /\ ~OpenerGivesUp(h)
    BY <2>1 DEF OpenerFinds, OpenerGivesUp
  <2>4. ASSUME NEW r \in Request
        PROVE  /\ ~Persist(h, r) /\ ~DropRequest(h, r) /\ ~AllowRequest(h, r)
               /\ ~StartExpiry(h, r) /\ ~ForgetLatest(h, r) /\ ~SendGrant(h, r) /\ ~SendGrantFails(h, r)
    BY <2>1 DEF Persist, DropRequest, AllowRequest, StartExpiry, ForgetLatest, SendGrant, SendGrantFails, Stage
  <2> QED
    BY <2>2, <2>3, <2>4 DEF Worker
<1>3. ASSUME NEW h \in Handler, onServiceConnected(h)
      PROVE  Refused'
  BY <1>1, <1>3 DEF onServiceConnected, Refused, RefusedWire, RefusedMain, RefusedRules,
     RefusedThreads, Place
<1>4. ASSUME NEW h \in Handler, onServiceDisconnected(h)
      PROVE  Refused'
  BY <1>1, <1>4 DEF onServiceDisconnected, Refused, RefusedWire, RefusedMain, RefusedRules,
     RefusedThreads
<1>5. ASSUME NEW h \in Handler, Accept(h)
      PROVE  Refused'
  BY <1>1, <1>5 DEF Accept, Refused, RefusedWire, RefusedMain, RefusedRules, RefusedThreads, Place
<1>6. ASSUME NEW h \in Handler, Shutdown(h)
      PROVE  Refused'
  BY <1>1, <1>6, RefusedHalt DEF Shutdown, Refused, RefusedWire, RefusedMain, RefusedThreads
<1>7. ASSUME NEW r \in Request, Expire(r)
      PROVE  Refused'
  BY <1>1, <1>7 DEF Expire, Del, Refused, RefusedWire, RefusedMain, RefusedRules, RefusedThreads
<1>8. CASE flushRules
  BY <1>1, <1>8 DEF flushRules, Refused, RefusedWire, RefusedMain, RefusedRules, RefusedThreads
<1>9. CASE Network
  BY <1>1, <1>9 DEF Network, OpenVPNStatus, Refused, RefusedWire, RefusedMain, RefusedRules,
     RefusedThreads
<1>10. CASE UNCHANGED vars
  BY <1>1, <1>10 DEF vars, Refused, RefusedWire, RefusedMain, RefusedRules, RefusedThreads
<1> QED
  BY <1>1, <1>2, <1>3, <1>4, <1>5, <1>6, <1>7, <1>8, <1>9, <1>10, RefusedMainStep, RefusedClientStep
     DEF Next

(* No rule is ever added for a client the owner's preferences do not admit. *)
THEOREM AdmittedOnly == Spec => []AccessOnlyIfAdmitted
<1>1. Init => (~Admits(prefs) => Refused)
  BY DEF Init, Refused, RefusedWire, RefusedMain, RefusedRules, RefusedThreads, Early, EarlyState,
     Place
<1>2. (~Admits(prefs) => Refused) => AccessOnlyIfAdmitted
  BY DEF AccessOnlyIfAdmitted, Refused, RefusedRules, RefusedThreads
<1> QED
  BY <1>1, <1>2, RefusedStep, TypeCorrect, PTL DEF Spec

-----------------------------------------------------------------------------
(* Resource requests. *)

(* The steps that touch resource requests; all others leave them alone. *)
Spawned(h, r) == spawn(h, r) /\ UNCHANGED <<masqFor, owed, ttl, persisted, overwritten>>
RequestStep(h, r) ==
  \/ Spawned(h, r) \/ Persist(h, r) \/ DropRequest(h, r) \/ AllowRequest(h, r)
  \/ StartExpiry(h, r) \/ ForgetLatest(h, r) \/ SendGrant(h, r) \/ SendGrantFails(h, r)

(* A step is one of those or leaves the requests alone. *)
LEMMA RequestSteps ==
  ASSUME [Next]_vars
  PROVE  \/ UNCHANGED requests
         \/ \E h \in Handler, r \in Request : RequestStep(h, r)
         \/ \E r \in Request : Expire(r)
         \/ flushRules
<1>1. ASSUME NEW h \in Handler, Main(h), ~ReactRequest(h)
      PROVE  UNCHANGED requests
  BY <1>1 DEF Main, GetStreams, NoStreams, Loop, EndOfProtocol, Receive, ReceiveFails, Event,
     EventOfNull, ReactHello, Wait, AnswerHello, AnswerWithoutService, ServiceFails, ReactPSI, ReactACK, ReactClose,
     ReactVPNRequest, SendVPNGranted, ClearLatest, ReactNothing
<1>2. ASSUME NEW h \in Handler, Timer(h), ~TimerRepeatsRequest(h)
      PROVE  UNCHANGED requests
  BY <1>2 DEF Timer, TimerTicks, TimerRepeatsACK, TimerRepeatsClose, TimerRepeatsVPNRequest, TimerFails
<1>3. ASSUME NEW h \in Handler, ReactRequest(h) \/ TimerRepeatsRequest(h)
      PROVE  \E r \in Request : RequestStep(h, r)
  BY <1>3 DEF ReactRequest, TimerRepeatsRequest, RequestStep, Spawned
<1>4. ASSUME NEW h \in Handler, Worker(h)
      PROVE  UNCHANGED requests \/ \E r \in Request : RequestStep(h, r)
  <2>1. CASE OpenerFinds(h) \/ OpenerGivesUp(h)
    BY <2>1 DEF OpenerFinds, OpenerGivesUp
  <2> QED
    BY <1>4, <2>1 DEF Worker, RequestStep
<1>5. ASSUME NEW h \in Handler,
             onServiceConnected(h) \/ onServiceDisconnected(h) \/ Accept(h) \/ Shutdown(h) \/ Client(h)
      PROVE  UNCHANGED requests
  BY <1>5 DEF onServiceConnected, onServiceDisconnected, Accept, Shutdown, Client
<1>6. Network \/ UNCHANGED vars => UNCHANGED requests
  BY DEF Network, vars
<1> QED
  BY <1>1, <1>2, <1>3, <1>4, <1>5, <1>6 DEF Next

(* A thread beyond its first stage has stored its request. *)
Past == Stage \ {"persist"}
Kept == persisted \cup overwritten
StoredInv ==
  /\ \A h \in Handler, r \in Request, s \in Past : At(h, r, s) => r \in Kept
  /\ \A r \in Request : masqFor[r] > 0 => r \in Kept
  /\ overwritten # {} => persisted # {}

(* A step that stores nothing anew, moves threads only of stored requests   *)
(* and opens destinations only for them keeps the invariant.                *)
LEMMA StoredKept ==
  ASSUME StoredInv, UNCHANGED <<persisted, overwritten>>,
         \A h \in Handler, r \in Request, s \in Past : At(h, r, s)' => At(h, r, s) \/ r \in Kept,
         \A r \in Request : masqFor'[r] > 0 => masqFor[r] > 0 \/ r \in Kept
  PROVE  StoredInv'
  BY DEF StoredInv, Kept, Past

(* One step keeps the evidence ahead of the rules and the grants. *)
LEMMA EvidenceStep == TypeOK /\ StoredInv /\ [Next]_vars => StoredInv'
<1> SUFFICES ASSUME TypeOK, StoredInv, [Next]_vars
             PROVE  StoredInv'
  OBVIOUS
<1>0. /\ rr \in [Handler \X Request \X Stage -> Nat]
      /\ masqFor \in [Request -> Nat]
  BY DEF TypeOK, TypeThreads
<1>1. CASE UNCHANGED requests
  BY <1>1, StoredKept DEF requests, At
<1>2. ASSUME NEW r \in Request, Expire(r)
      PROVE  StoredInv'
  BY <1>0, <1>2, StoredKept DEF Expire, Del, At
<1>3. CASE flushRules
  BY <1>3, StoredKept DEF flushRules, At
<1>4. ASSUME NEW h \in Handler, NEW r \in Request, RequestStep(h, r)
      PROVE  StoredInv'
  <2> DEFINE Others == \A g \in Handler, q \in Request, s \in Past :
                          q # r => rr'[<<g, q, s>>] = rr[<<g, q, s>>]
  <2>0. Past \subseteq Stage /\ "persist" \notin Past
    BY DEF Past
  <2>1. CASE Spawned(h, r)
    <3>1. \A g \in Handler, q \in Request, s \in Past : rr'[<<g, q, s>>] = rr[<<g, q, s>>]
      BY <1>0, <2>0, <2>1 DEF Spawned, spawn, Stage
    <3> QED BY <2>1, <3>1, StoredKept DEF Spawned, At
  <2>2. CASE Persist(h, r)
    <3>1. Others
      BY <1>0, <2>0, <2>2 DEF Persist, Advance, Stage
    <3>2. PICK replaced \in {{}} \cup {{q} : q \in persisted \ {r}} :
            /\ persisted' = (persisted \ replaced) \cup {r}
            /\ overwritten' = (overwritten \cup replaced) \ {r}
      BY <2>2 DEF Persist
    <3>3. Kept' = Kept \cup {r} /\ persisted' # {}
      BY <3>2 DEF Kept
    <3>4. masqFor' = masqFor
      BY <2>2 DEF Persist
    <3> QED BY <3>1, <3>3, <3>4 DEF StoredInv, At
  <2>3. CASE DropRequest(h, r)
    <3>1. \A g \in Handler, q \in Request, s \in Past : rr'[<<g, q, s>>] = rr[<<g, q, s>>]
      BY <1>0, <2>0, <2>3 DEF DropRequest, Stage
    <3> QED BY <2>3, <3>1, StoredKept DEF DropRequest, At
  <2>4. CASE AllowRequest(h, r) \/ StartExpiry(h, r) \/ ForgetLatest(h, r)
    <3>1. r \in Kept
      BY <2>4 DEF AllowRequest, StartExpiry, ForgetLatest, StoredInv, Past, Stage
    <3>2. Others
      BY <1>0, <2>0, <2>4 DEF AllowRequest, StartExpiry, ForgetLatest, Advance, Stage
    <3>3. \A q \in Request : q # r => masqFor'[q] = masqFor[q]
      BY <1>0, <2>4 DEF AllowRequest, StartExpiry, ForgetLatest
    <3>4. UNCHANGED <<persisted, overwritten>>
      BY <2>4 DEF AllowRequest, StartExpiry, ForgetLatest
    <3> QED BY <3>1, <3>2, <3>3, <3>4, StoredKept DEF At
  <2>5. CASE SendGrant(h, r) \/ SendGrantFails(h, r)
    <3>1. r \in Kept
      BY <2>5 DEF SendGrant, SendGrantFails, StoredInv, Past, Stage
    <3>2. Others
      BY <1>0, <2>0, <2>5 DEF SendGrant, SendGrantFails, Stage
    <3>3. UNCHANGED <<masqFor, persisted, overwritten>>
      BY <2>5 DEF SendGrant, SendGrantFails
    <3> QED BY <3>1, <3>2, <3>3, StoredKept DEF At
  <2> QED
    BY <1>4, <2>1, <2>2, <2>3, <2>4, <2>5 DEF RequestStep
<1> QED
  BY <1>1, <1>2, <1>3, <1>4, RequestSteps

(* The signed request is written to disk before its destination is opened   *)
(* and before the client is told; later only another request that takes its *)
(* file's name removes it, and the last one stored is always there.         *)
THEOREM EvidenceStored == Spec => []EvidenceFirst
<1>1. Init => StoredInv
  BY DEF Init, StoredInv, Past, Stage, At
<1>2. StoredInv => EvidenceFirst
  BY DEF StoredInv, EvidenceFirst, Kept, Past, Stage
<1> QED
  BY <1>1, <1>2, EvidenceStep, TypeCorrect, PTL DEF Spec

(* One step keeps a time-to-live thread for every rule. *)
LEMMA ExpiryStep == TypeOK /\ RulesExpire /\ [Next]_vars => RulesExpire'
<1> SUFFICES ASSUME TypeOK, RulesExpire, [Next]_vars
             PROVE  RulesExpire'
  OBVIOUS
<1>0. /\ masqFor \in [Request -> Nat] /\ owed \in [Request -> Nat] /\ ttl \in [Request -> Nat]
      /\ \A h \in Handler : getVpnAddress(h) \in Nat
  BY DEF TypeOK, TypeThreads, TypeEnv, TypeLife, getVpnAddress, Flag
<1>1. CASE UNCHANGED <<masqFor, owed, ttl>>
  BY <1>1 DEF RulesExpire
<1>2. ASSUME NEW r \in Request, Expire(r)
      PROVE  RulesExpire'
  BY <1>0, <1>2 DEF Expire, Del, RulesExpire
<1>3. CASE flushRules
  BY <1>0, <1>3 DEF flushRules, RulesExpire
<1>4. ASSUME NEW h \in Handler, NEW r \in Request, AllowRequest(h, r) \/ StartExpiry(h, r)
      PROVE  RulesExpire'
  <2>1. CASE AllowRequest(h, r)
    BY <1>0, <2>1 DEF AllowRequest, RulesExpire
  <2>2. CASE StartExpiry(h, r)
    BY <1>0, <2>2 DEF StartExpiry, RulesExpire
  <2> QED BY <1>4, <2>1, <2>2
<1>5. ASSUME NEW h \in Handler, NEW r \in Request, RequestStep(h, r),
             ~AllowRequest(h, r), ~StartExpiry(h, r)
      PROVE  UNCHANGED <<masqFor, owed, ttl>>
  BY <1>5 DEF RequestStep, Spawned, Persist, DropRequest, ForgetLatest, SendGrant, SendGrantFails
<1> QED
  BY <1>1, <1>2, <1>3, <1>4, <1>5, RequestSteps DEF requests

(* However often a request is processed, no rule for its destination        *)
(* outlives the threads that remove it.                                     *)
THEOREM RulesAreRemoved == Spec => []RulesExpire
<1>1. Init => RulesExpire
  BY DEF Init, RulesExpire
<1> QED
  BY <1>1, ExpiryStep, TypeCorrect, PTL DEF Spec
=============================================================================

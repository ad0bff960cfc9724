-------------------------- MODULE ManagementServer --------------------------
(***************************************************************************)
(* The gateway's end of the management protocol, ManagementServerHandler,  *)
(* with the firewall rules of RuntimeConfiguration it opens and removes.   *)
(* Every handler serves one connection of the same client phone; a client  *)
(* that reconnects gets a new handler while the old one may still run.     *)
(* A handler has several threads:                                          *)
(*   main     run / performProtocol: read a message, move the protocol     *)
(*            state, run the reactions of the state it entered;            *)
(*   timers   one per startKeepAliveTimer: send KeepAlive, and run the     *)
(*            reactions of the current state on whatever message is in     *)
(*            latestMessage;                                               *)
(*   openers  one per openVPN: poll for the client's VPN address, then     *)
(*            masquerade it;                                               *)
(*   requests one per resource request: persist it, masquerade its         *)
(*            destination, start its time-to-live thread, send the grant.  *)
(* sendMessage and halt are synchronized and are single steps; everything  *)
(* between them interleaves.  The client is the environment: it follows    *)
(* ManagementClientHandler's order of messages, and may close or vanish.   *)
(***************************************************************************)
EXTENDS Integers, Sequences, FiniteSets

CONSTANTS
  Handler,    \* connections of the client, one handler each
  Request,    \* resource requests (id and destination) the client may send
  Prefs,      \* the owner's possible preferences, see Admits
  MaxTimers,  \* bound on the keep-alive timers of one handler
  MayStop,    \* may the owner stop the service?
  MayBreak    \* may the connection end without CloseManagementChannel?

ASSUME ManagementServerAssumption ==
  /\ MaxTimers \in Nat \ {0}
  /\ MayStop \in BOOLEAN /\ MayBreak \in BOOLEAN
  /\ Request \cap {"none", "Hello", "PSIResponse", "ConnectionACK", "ConnectionNACK",
                   "VPNRequest", "CloseManagementChannel"} = {}

Message == Request \cup {"Hello", "PSIResponse", "ConnectionACK", "ConnectionNACK",
                         "VPNRequest", "CloseManagementChannel"}
Flag == 0..1
(* Where a resource request's thread is. *)
Stage == {"persist", "allow", "start", "forget", "send"}

VARIABLES
  prefs,      \* the owner's preferences and what the gateway knows of the peer
  \* environment
  cli,        \* the client's phase on each connection
  c2s, s2c,   \* messages under way
  link,       \* the TCP connection: "up", "fin" (one end closed), "broken"
  listed,     \* 1: OpenVPN's status file lists the client
  requested,  \* resource requests the client has sent
  \* handlers
  pc,         \* main thread
  entered,    \* the protocol state whose reactions the main thread runs
  state,      \* protocolState
  latest,     \* latestMessage
  running,    \* 0 or 1
  streams,    \* writer and reader: "none", "open", "closed"
  service,    \* mIRemoteService: "null" or "bound"
  timer,      \* the field: 0 is null, otherwise the number of a timer
  timers,     \* timers whose thread is alive
  made,       \* timers created so far
  vpn,        \* 1: the field vpnAddress is set
  openers,    \* openVPN threads still polling
  rr,         \* resource request threads at each stage
  registered, \* PeerServerWorker's list of handlers
  \* firewall rules for this client, counted as iptables does
  dport, sport, masq, masqFor,
  owed,       \* rules whose time-to-live thread is still to be started
  ttl,        \* sleeping time-to-live threads
  persisted,  \* requests in a file on disk
  overwritten \* history: requests whose file another request has replaced

environment == <<prefs, cli, listed, requested>>
wire == <<c2s, s2c>>
life == <<running, streams, timer, timers>>
rules == <<dport, sport, masq>>
requests == <<rr, masqFor, owed, ttl, persisted, overwritten>>
vars == <<environment, wire, link, pc, entered, state, latest, life, service, made, vpn,
          openers, registered, rules, requests>>

Init ==
  /\ prefs \in Prefs
  /\ cli = [h \in Handler |-> "absent"]
  /\ c2s = [h \in Handler |-> <<>>] /\ s2c = [h \in Handler |-> <<>>]
  /\ link = [h \in Handler |-> "up"]
  /\ listed = 0 /\ requested = {}
  /\ pc = [h \in Handler |-> "off"]
  /\ entered = [h \in Handler |-> "start"] /\ state = [h \in Handler |-> "start"]
  /\ latest = [h \in Handler |-> "none"]
  /\ running = [h \in Handler |-> 1] /\ streams = [h \in Handler |-> "none"]
  /\ service = [h \in Handler |-> "null"]
  /\ timer = [h \in Handler |-> 0] /\ timers = [h \in Handler |-> {}] /\ made = [h \in Handler |-> 0]
  /\ vpn = [h \in Handler |-> 0] /\ openers = [h \in Handler |-> 0]
  /\ rr = [t \in Handler \X Request \X Stage |-> 0]
  /\ registered = {}
  /\ dport = 0 /\ sport = 0 /\ masq = 0
  /\ masqFor = [r \in Request |-> 0] /\ owed = [r \in Request |-> 0] /\ ttl = [r \in Request |-> 0]
  /\ persisted = {} /\ overwritten = {}

-----------------------------------------------------------------------------
(* The protocol's state machine, PeerCommunicationStateContext, is not in   *)
(* the repository: its transitions are those the reactions of both ends     *)
(* rely on.  An event with no transition leaves the state.                  *)
NextState(s, m) ==
  CASE m = "Hello" /\ s = "start" -> "helloSent"
    [] m = "NeedPSI" /\ s = "helloSent" -> "psiMiddle"
    [] m = "PSIResponse" /\ s = "psiMiddle" -> "psiDone"
    [] m = "PSINACK" /\ s = "psiDone" -> "finished"
    [] m = "HelloResponse" /\ s \in {"helloSent", "psiDone"} -> "responseSent"
    [] m = "ConnectionNACK" /\ s = "responseSent" -> "finished"
    [] m = "ConnectionACK" /\ s = "responseSent" -> "established"
    [] m = "VPNRequest" /\ s = "established" -> "vpnRequested"
    [] m = "VPNGranted" /\ s = "vpnRequested" -> "openVPN"
    [] OTHER -> s

(* Who is offered the Internet: through the set intersection (its result,   *)
(* friend and enough, compared with the preferences), or by preference and  *)
(* friend list if there is an uplink.                                       *)
Admits(p) ==
  IF p.psi THEN (p.friend /\ p.directFriends) \/ p.enoughFoFs
           ELSE p.uplink /\ (p.anonymous \/ (p.friends /\ p.friend))

(* Mutant: any uplink is offered to anybody. *)
MutHelloAnswer(p) == IF p.uplink THEN "Offer" ELSE "NoOffer"

HelloAnswer(p) ==
  IF Admits(p) THEN (IF p.liability THEN "OfferLiable" ELSE "Offer") ELSE "NoOffer"

-----------------------------------------------------------------------------
(* Mutant: a rule that is not there is removed too. *)
MutDel(n) == n - 1

(* RuntimeConfiguration: -I and -A add a rule, -D removes one if there is one. *)
Del(n) == IF n > 0 THEN n - 1 ELSE 0

allowOVpnAccessForIP == dport' = dport + 1 /\ sport' = sport + 1

blockOVpnAccessForIP == dport' = Del(Del(dport)) /\ UNCHANGED sport

removeMasqueradeForIP(address) == masq' = IF address = 1 THEN Del(masq) ELSE masq

(* getVpnAddress: the cached address, or the one in OpenVPN's status. *)
getVpnAddress(h) == IF vpn[h] = 1 THEN 1 ELSE listed

(* Mutant: nothing is closed for a client whose VPN address is unknown. *)
MutCloseVPN(h) ==
  /\ vpn' = [vpn EXCEPT ![h] = getVpnAddress(h)]
  /\ IF getVpnAddress(h) = 1 THEN blockOVpnAccessForIP ELSE UNCHANGED <<dport, sport>>
  /\ removeMasqueradeForIP(getVpnAddress(h))

closeVPN(h) ==
  /\ vpn' = [vpn EXCEPT ![h] = getVpnAddress(h)]
  /\ blockOVpnAccessForIP
  /\ removeMasqueradeForIP(getVpnAddress(h))

openVPN(h) ==
  /\ allowOVpnAccessForIP
  /\ openers' = [openers EXCEPT ![h] = @ + 1]

(* halt closes the streams, which may fail: always before they exist, and   *)
(* possibly on a broken connection.  Only if it succeeds are running and    *)
(* the timer of the field reset; the rules and the list entry always go.    *)
CloseOutcomes(h) ==
  CASE streams[h] = "none" -> {"fails"}
    [] streams[h] = "open" /\ link[h] = "broken" -> {"fails", "works"}
    [] OTHER -> {"works"}

closeStreams(h, otherwise) ==
  \/ /\ "works" \in CloseOutcomes(h)
     /\ streams' = [streams EXCEPT ![h] = "closed"]
     /\ link' = [link EXCEPT ![h] = IF @ = "up" THEN "fin" ELSE @]
     /\ running' = [running EXCEPT ![h] = 0]
     /\ timers' = [timers EXCEPT ![h] = @ \ {timer[h]}]
     /\ timer' = [timer EXCEPT ![h] = 0]
  \/ /\ "fails" \in CloseOutcomes(h)
     /\ running' = [running EXCEPT ![h] = otherwise]
     /\ UNCHANGED <<streams, timer, timers, link>>

(* Mutant: the rules are removed only if the streams could be closed. *)
MutHalt(h) ==
  /\ closeStreams(h, running[h])
  /\ IF streams'[h] = "closed" THEN closeVPN(h) ELSE UNCHANGED <<vpn, rules>>
  /\ registered' = registered \ {h}

halt(h) ==
  /\ closeStreams(h, running[h])
  /\ closeVPN(h)
  /\ registered' = registered \ {h}

(* sendMessage: the write, and the protocol event of the message sent. *)
CanWrite(h) == streams[h] = "open" /\ link[h] # "broken"

write(h, m) ==
  /\ s2c' = [s2c EXCEPT ![h] = IF link[h] = "up" THEN Append(@, m) ELSE @]
  /\ link' = [link EXCEPT ![h] = IF @ = "fin" THEN "broken" ELSE @]

startKeepAliveTimer(h) ==
  /\ made[h] < MaxTimers
  /\ made' = [made EXCEPT ![h] = @ + 1]
  /\ timer' = [timer EXCEPT ![h] = made[h] + 1]
  /\ timers' = [timers EXCEPT ![h] = @ \cup {made[h] + 1}]

(* Mutant: the request is not stored first. *)
MutSpawn(h, r) == rr' = [rr EXCEPT ![<<h, r, "allow">>] = @ + 1]

spawn(h, r) == rr' = [rr EXCEPT ![<<h, r, "persist">>] = @ + 1]

(* The thread is done with a message: back to performProtocol's loop. *)
NextMessage(h) == pc' = [pc EXCEPT ![h] = "loop"]

(* The main thread sends m, or halts if it cannot; event is m's class. *)
MainSends(h, m, event) ==
  \/ /\ CanWrite(h)
     /\ write(h, m)
     /\ state' = [state EXCEPT ![h] = NextState(@, event)]
     /\ UNCHANGED <<life, vpn, rules, registered>>
  \/ /\ ~CanWrite(h)
     /\ halt(h)
     /\ UNCHANGED <<s2c, state>>

-----------------------------------------------------------------------------
(* The main thread. *)

(* run: get the streams, or halt and end. *)
GetStreams(h) ==
  /\ pc[h] = "streams" /\ link[h] # "broken"
  /\ streams' = [streams EXCEPT ![h] = "open"]
  /\ NextMessage(h)
  /\ UNCHANGED <<environment, wire, link, entered, state, latest, running, timer, timers, service,
                 made, vpn, openers, registered, rules, requests>>

NoStreams(h) ==
  /\ pc[h] = "streams" /\ link[h] # "up"
  /\ halt(h)
  /\ pc' = [pc EXCEPT ![h] = "dead"]
  /\ UNCHANGED <<environment, wire, entered, state, latest, service, made, openers, requests>>

(* performProtocol: go on while running, otherwise halt once more and end. *)
Loop(h) ==
  /\ pc[h] = "loop" /\ running[h] = 1
  /\ pc' = [pc EXCEPT ![h] = "read"]
  /\ UNCHANGED <<environment, wire, link, entered, state, latest, life, service, made, vpn,
                 openers, registered, rules, requests>>

EndOfProtocol(h) ==
  /\ pc[h] = "loop" /\ running[h] = 0
  /\ halt(h)
  /\ pc' = [pc EXCEPT ![h] = "dead"]
  /\ UNCHANGED <<environment, wire, entered, state, latest, service, made, openers, requests>>

(* receiveMessage: latestMessage is set, in a step of its own because       *)
(* other threads read and reset it before the event is dispatched.          *)
Receive(h) ==
  /\ pc[h] = "read" /\ streams[h] = "open" /\ link[h] # "broken" /\ c2s[h] # <<>>
  /\ latest' = [latest EXCEPT ![h] = Head(c2s[h])]
  /\ c2s' = [c2s EXCEPT ![h] = Tail(@)]
  /\ pc' = [pc EXCEPT ![h] = "event"]
  /\ UNCHANGED <<environment, s2c, link, entered, state, life, service, made, vpn, openers,
                 registered, rules, requests>>

ReceiveFails(h) ==
  /\ pc[h] = "read"
  /\ \/ streams[h] # "open"
     \/ link[h] = "broken"
     \/ link[h] = "fin" /\ c2s[h] = <<>>
  /\ halt(h)
  /\ NextMessage(h)
  /\ UNCHANGED <<environment, wire, entered, state, latest, service, made, openers, requests>>

(* receiveEvent(latestMessage.getClass()): a null pointer if another thread *)
(* has reset latestMessage meanwhile.                                       *)
Event(h) ==
  /\ pc[h] = "event" /\ latest[h] # "none"
  /\ state' = [state EXCEPT ![h] = NextState(@, latest[h])]
  /\ entered' = [entered EXCEPT ![h] = NextState(state[h], latest[h])]
  /\ pc' = [pc EXCEPT ![h] = "react"]
  /\ UNCHANGED <<environment, wire, link, latest, life, service, made, vpn, openers, registered,
                 rules, requests>>

EventOfNull(h) ==
  /\ pc[h] = "event" /\ latest[h] = "none"
  /\ halt(h)
  /\ NextMessage(h)
  /\ UNCHANGED <<environment, wire, entered, state, latest, service, made, openers, requests>>

Reacts(h, s, m) == pc[h] = "react" /\ entered[h] = s /\ latest[h] = m

(* reactOnHello: wait for the service; the test and the wait are not atomic. *)
ReactHello(h) ==
  /\ \/ Reacts(h, "helloSent", "Hello")
     \/ pc[h] = "service"
  /\ pc' = [pc EXCEPT ![h] = IF service[h] = "bound" THEN "answer" ELSE "toWait"]
  /\ UNCHANGED <<environment, wire, link, entered, state, latest, life, service, made, vpn,
                 openers, registered, rules, requests>>

Wait(h) ==
  /\ pc[h] = "toWait"
  /\ pc' = [pc EXCEPT ![h] = "waiting"]
  /\ UNCHANGED <<environment, wire, link, entered, state, latest, life, service, made, vpn,
                 openers, registered, rules, requests>>

AnswerHello(h) ==
  /\ pc[h] = "answer"
  /\ \/ prefs.psi /\ service[h] = "bound" /\ MainSends(h, "NeedPSI", "NeedPSI")
     \/ ~prefs.psi /\ MainSends(h, HelloAnswer(prefs), "HelloResponse")
  /\ latest' = [latest EXCEPT ![h] = "none"]
  /\ NextMessage(h)
  /\ UNCHANGED <<environment, c2s, entered, service, made, openers, requests>>

(* The service was lost since the wait: a null pointer. *)
AnswerWithoutService(h) ==
  /\ pc[h] = "answer" /\ prefs.psi /\ service[h] = "null"
  /\ halt(h)
  /\ NextMessage(h)
  /\ UNCHANGED <<environment, wire, entered, state, latest, service, made, openers, requests>>

(* A call of the service fails with a RemoteException, in the first or in   *)
(* the last step of the set intersection: logged, nothing is sent, and the  *)
(* session goes on.                                                         *)
ServiceFails(h) ==
  /\ prefs.psi /\ service[h] = "bound"
  /\ \/ pc[h] = "answer" /\ latest' = [latest EXCEPT ![h] = "none"]
     \/ Reacts(h, "psiDone", "PSIResponse") /\ UNCHANGED latest
  /\ NextMessage(h)
  /\ UNCHANGED <<environment, wire, link, entered, state, life, service, made, vpn, openers,
                 registered, rules, requests>>

(* The set intersection's last step; a lost service is a null pointer. *)
ReactPSI(h) ==
  /\ Reacts(h, "psiDone", "PSIResponse")
  /\ CASE service[h] = "null" -> halt(h) /\ UNCHANGED <<s2c, state>>
       [] service[h] = "bound" /\ Admits(prefs) -> MainSends(h, HelloAnswer(prefs), "HelloResponse")
       [] OTHER -> MainSends(h, "PSINACK", "PSINACK")
  /\ NextMessage(h)
  /\ UNCHANGED <<environment, c2s, entered, latest, service, made, openers, requests>>

ReactACK(h) ==
  /\ Reacts(h, "established", "ConnectionACK")
  /\ startKeepAliveTimer(h)
  /\ pc' = [pc EXCEPT ![h] = "clear"]
  /\ UNCHANGED <<environment, wire, link, entered, state, latest, running, streams, service, vpn,
                 openers, registered, rules, requests>>

ReactClose(h) ==
  /\ Reacts(h, "established", "CloseManagementChannel")
  /\ halt(h)
  /\ latest' = [latest EXCEPT ![h] = "none"]
  /\ NextMessage(h)
  /\ UNCHANGED <<environment, wire, entered, state, service, made, openers, requests>>

(* VPNRequestAnalyzer: open the firewall, then send the grant. *)
ReactVPNRequest(h) ==
  /\ Reacts(h, "vpnRequested", "VPNRequest")
  /\ openVPN(h)
  /\ pc' = [pc EXCEPT ![h] = "grant"]
  /\ UNCHANGED <<environment, wire, link, entered, state, latest, life, service, made, vpn,
                 registered, masq, requests>>

SendVPNGranted(h) ==
  /\ pc[h] = "grant"
  /\ MainSends(h, "VPNGranted", "VPNGranted")
  /\ NextMessage(h)
  /\ UNCHANGED <<environment, c2s, entered, latest, service, made, openers, requests>>

ReactRequest(h) ==
  /\ \E r \in Request : Reacts(h, "openVPN", r) /\ spawn(h, r)
  /\ pc' = [pc EXCEPT ![h] = "clear"]
  /\ UNCHANGED <<environment, wire, link, entered, state, latest, life, service, made, vpn,
                 openers, registered, rules, masqFor, owed, ttl, persisted, overwritten>>

ClearLatest(h) ==
  /\ pc[h] = "clear"
  /\ latest' = [latest EXCEPT ![h] = "none"]
  /\ NextMessage(h)
  /\ UNCHANGED <<environment, wire, link, entered, state, life, service, made, vpn, openers,
                 registered, rules, requests>>

(* No reaction of the entered state is about this message. *)
Ignored(h) ==
  ~ \/ entered[h] = "helloSent" /\ latest[h] = "Hello"
    \/ entered[h] = "psiDone" /\ latest[h] = "PSIResponse"
    \/ entered[h] = "established" /\ latest[h] \in {"ConnectionACK", "CloseManagementChannel"}
    \/ entered[h] = "vpnRequested" /\ latest[h] = "VPNRequest"
    \/ entered[h] = "openVPN" /\ latest[h] \in Request

ReactNothing(h) ==
  /\ pc[h] = "react" /\ Ignored(h)
  /\ NextMessage(h)
  /\ UNCHANGED <<environment, wire, link, entered, state, latest, life, service, made, vpn,
                 openers, registered, rules, requests>>

Main(h) ==
  \/ GetStreams(h) \/ NoStreams(h) \/ Loop(h) \/ EndOfProtocol(h)
  \/ Receive(h) \/ ReceiveFails(h) \/ Event(h) \/ EventOfNull(h)
  \/ ReactHello(h) \/ Wait(h) \/ AnswerHello(h) \/ AnswerWithoutService(h) \/ ServiceFails(h)
  \/ ReactPSI(h) \/ ReactACK(h) \/ ReactClose(h)
  \/ ReactVPNRequest(h) \/ SendVPNGranted(h) \/ ReactRequest(h) \/ ClearLatest(h)
  \/ ReactNothing(h)

-----------------------------------------------------------------------------
(* A keep-alive timer fires: sendMessage(KeepAlive), whose event runs the   *)
(* reactions of the current state on the message in latestMessage.          *)
Ticks(h) == timers[h] # {} /\ CanWrite(h)

(* A KeepAlive or the grant of a resource request goes out: the client's    *)
(* end answers neither, so only what the write does to the link is kept.    *)
written(h) ==
  link' = [link EXCEPT ![h] = IF @ = "fin" THEN "broken" ELSE @]

TimerTicks(h) ==
  /\ Ticks(h)
  /\ ~ \/ state[h] = "established" /\ latest[h] \in {"ConnectionACK", "CloseManagementChannel"}
       \/ state[h] = "vpnRequested" /\ latest[h] = "VPNRequest"
       \/ state[h] = "openVPN" /\ latest[h] \in Request
  /\ written(h)
  /\ UNCHANGED <<environment, wire, pc, entered, state, latest, life, service, made, vpn, openers,
                 registered, rules, requests>>

TimerRepeatsACK(h) ==
  /\ Ticks(h) /\ state[h] = "established" /\ latest[h] = "ConnectionACK"
  /\ written(h)
  /\ startKeepAliveTimer(h)
  /\ latest' = [latest EXCEPT ![h] = "none"]
  /\ UNCHANGED <<environment, wire, pc, entered, state, running, streams, service, vpn, openers,
                 registered, rules, requests>>

TimerRepeatsClose(h) ==
  /\ Ticks(h) /\ state[h] = "established" /\ latest[h] = "CloseManagementChannel"
  /\ halt(h)
  /\ latest' = [latest EXCEPT ![h] = "none"]
  /\ UNCHANGED <<environment, wire, pc, entered, state, service, made, openers, requests>>

TimerRepeatsVPNRequest(h) ==
  /\ Ticks(h) /\ state[h] = "vpnRequested" /\ latest[h] = "VPNRequest"
  /\ openVPN(h)
  /\ write(h, "VPNGranted")
  /\ state' = [state EXCEPT ![h] = NextState(@, "VPNGranted")]
  /\ UNCHANGED <<environment, c2s, pc, entered, latest, life, service, made, vpn, registered, masq,
                 requests>>

TimerRepeatsRequest(h) ==
  /\ Ticks(h) /\ state[h] = "openVPN"
  /\ \E r \in Request : latest[h] = r /\ spawn(h, r)
  /\ written(h)
  /\ latest' = [latest EXCEPT ![h] = "none"]
  /\ UNCHANGED <<environment, wire, pc, entered, state, life, service, made, vpn, openers,
                 registered, rules, masqFor, owed, ttl, persisted, overwritten>>

TimerFails(h) ==
  /\ timers[h] # {} /\ ~CanWrite(h)
  /\ halt(h)
  /\ UNCHANGED <<environment, wire, pc, entered, state, latest, service, made, openers, requests>>

Timer(h) ==
  \/ TimerTicks(h) \/ TimerRepeatsACK(h) \/ TimerRepeatsClose(h)
  \/ TimerRepeatsVPNRequest(h) \/ TimerRepeatsRequest(h) \/ TimerFails(h)

-----------------------------------------------------------------------------
(* openVPN's thread: once the client is listed, masquerade its address,     *)
(* unless the owner wants liability; after 120 polls it gives up and the    *)
(* rule it adds for "null" is refused by iptables.                          *)
OpenerFinds(h) ==
  /\ openers[h] > 0 /\ getVpnAddress(h) = 1
  /\ openers' = [openers EXCEPT ![h] = @ - 1]
  /\ vpn' = [vpn EXCEPT ![h] = 1]
  /\ masq' = IF prefs.liability THEN masq ELSE masq + 1
  /\ UNCHANGED <<environment, wire, link, pc, entered, state, latest, life, service, made,
                 registered, dport, sport, requests>>

OpenerGivesUp(h) ==
  /\ openers[h] > 0 /\ getVpnAddress(h) = 0
  /\ openers' = [openers EXCEPT ![h] = @ - 1]
  /\ UNCHANGED <<environment, wire, link, pc, entered, state, latest, life, service, made, vpn,
                 registered, rules, requests>>

(* The thread of a resource request. *)
At(h, r, stage) == rr[<<h, r, stage>>] > 0

Advance(h, r, from, to) ==
  rr' = [rr EXCEPT ![<<h, r, from>>] = @ - 1, ![<<h, r, to>>] = @ + 1]

(* persistRR: the file's name is the wall clock's millisecond, which two    *)
(* threads may read alike and which may be set back.  The file is new, or   *)
(* one that holds another request of this client, which it replaces; that   *)
(* one may still be in a second file if it was processed twice.             *)
Persist(h, r) ==
  /\ At(h, r, "persist")
  /\ Advance(h, r, "persist", "allow")
  /\ \E replaced \in {{}} \cup {{q} : q \in persisted \ {r}} :
       /\ persisted' = (persisted \ replaced) \cup {r}
       /\ overwritten' = (overwritten \cup replaced) \ {r}
  /\ UNCHANGED <<environment, wire, link, pc, entered, state, latest, life, service, made, vpn,
                 openers, registered, rules, masqFor, owed, ttl>>

(* An invalid signature, or the request could not be stored: no answer. *)
DropRequest(h, r) ==
  /\ At(h, r, "persist")
  /\ rr' = [rr EXCEPT ![<<h, r, "persist">>] = @ - 1]
  /\ UNCHANGED <<environment, wire, link, pc, entered, state, latest, life, service, made, vpn,
                 openers, registered, rules, masqFor, owed, ttl, persisted, overwritten>>

(* allowMasqueradeFor, then the start of the thread that will undo it; both *)
(* do nothing while the client has no VPN address.                          *)
AllowRequest(h, r) ==
  /\ At(h, r, "allow")
  /\ Advance(h, r, "allow", IF getVpnAddress(h) = 1 THEN "start" ELSE "forget")
  /\ vpn' = [vpn EXCEPT ![h] = getVpnAddress(h)]
  /\ masqFor' = [masqFor EXCEPT ![r] = @ + getVpnAddress(h)]
  /\ owed' = [owed EXCEPT ![r] = @ + getVpnAddress(h)]
  /\ UNCHANGED <<environment, wire, link, pc, entered, state, latest, life, service, made,
                 openers, registered, rules, ttl, persisted, overwritten>>

StartExpiry(h, r) ==
  /\ At(h, r, "start") /\ owed[r] > 0
  /\ Advance(h, r, "start", "forget")
  /\ owed' = [owed EXCEPT ![r] = @ - 1]
  /\ ttl' = [ttl EXCEPT ![r] = @ + 1]
  /\ UNCHANGED <<environment, wire, link, pc, entered, state, latest, life, service, made, vpn,
                 openers, registered, rules, masqFor, persisted, overwritten>>

ForgetLatest(h, r) ==
  /\ At(h, r, "forget")
  /\ Advance(h, r, "forget", "send")
  /\ latest' = [latest EXCEPT ![h] = "none"]
  /\ UNCHANGED <<environment, wire, link, pc, entered, state, life, service, made, vpn, openers,
                 registered, rules, masqFor, owed, ttl, persisted, overwritten>>

(* The grant is sent, and its event runs the reactions of the open VPN:     *)
(* a request just read is started here too.                                 *)
SendGrant(h, r) ==
  /\ At(h, r, "send") /\ CanWrite(h)
  /\ written(h)
  /\ IF state[h] = "openVPN" /\ latest[h] \in Request
     THEN /\ rr' = [rr EXCEPT ![<<h, r, "send">>] = @ - 1, ![<<h, latest[h], "persist">>] = @ + 1]
          /\ latest' = [latest EXCEPT ![h] = "none"]
     ELSE /\ rr' = [rr EXCEPT ![<<h, r, "send">>] = @ - 1]
          /\ UNCHANGED latest
  /\ UNCHANGED <<environment, wire, pc, entered, state, life, service, made, vpn, openers,
                 registered, rules, masqFor, owed, ttl, persisted, overwritten>>

SendGrantFails(h, r) ==
  /\ At(h, r, "send") /\ ~CanWrite(h)
  /\ rr' = [rr EXCEPT ![<<h, r, "send">>] = @ - 1]
  /\ halt(h)
  /\ UNCHANGED <<environment, wire, pc, entered, state, latest, service, made, openers,
                 masqFor, owed, ttl, persisted, overwritten>>

(* Mutant: the time-to-live thread ends without removing the rule. *)
MutExpire(r) ==
  /\ ttl[r] > 0
  /\ ttl' = [ttl EXCEPT ![r] = @ - 1]
  /\ UNCHANGED <<environment, wire, link, pc, entered, state, latest, life, service, made, vpn,
                 openers, registered, rules, rr, masqFor, owed, persisted, overwritten>>

Expire(r) ==
  /\ ttl[r] > 0
  /\ ttl' = [ttl EXCEPT ![r] = @ - 1]
  /\ masqFor' = [masqFor EXCEPT ![r] = Del(@)]
  /\ UNCHANGED <<environment, wire, link, pc, entered, state, latest, life, service, made, vpn,
                 openers, registered, rules, rr, owed, persisted, overwritten>>

Worker(h) ==
  \/ OpenerFinds(h) \/ OpenerGivesUp(h)
  \/ \E r \in Request : \/ Persist(h, r) \/ DropRequest(h, r) \/ AllowRequest(h, r) \/ StartExpiry(h, r)
                        \/ ForgetLatest(h, r) \/ SendGrant(h, r) \/ SendGrantFails(h, r)

-----------------------------------------------------------------------------
(* Callbacks of the fof service's connection. *)
onServiceConnected(h) ==
  /\ pc[h] # "off" /\ service[h] = "null"
  /\ service' = [service EXCEPT ![h] = "bound"]
  /\ pc' = [pc EXCEPT ![h] = IF @ = "waiting" THEN "service" ELSE @]
  /\ UNCHANGED <<environment, wire, link, entered, state, latest, life, made, vpn, openers,
                 registered, rules, requests>>

onServiceDisconnected(h) ==
  /\ pc[h] # "off" /\ service[h] = "bound" /\ MayStop
  /\ service' = [service EXCEPT ![h] = "null"]
  /\ UNCHANGED <<environment, wire, link, pc, entered, state, latest, life, made, vpn, openers,
                 registered, rules, requests>>

(* PeerServerWorker: accept a connection; shut a registered handler down    *)
(* (stopMe, then halt).                                                     *)
Accept(h) ==
  /\ cli[h] = "absent"
  /\ \A g \in Handler \ {h} : cli[g] \in {"absent", "closed"}
  /\ cli' = [cli EXCEPT ![h] = "connected"]
  /\ pc' = [pc EXCEPT ![h] = "streams"]
  /\ registered' = registered \cup {h}
  /\ UNCHANGED <<prefs, listed, requested, wire, link, entered, state, latest, life, service, made, vpn,
                 openers, rules, requests>>

Shutdown(h) ==
  /\ MayStop /\ h \in registered
  /\ closeStreams(h, 0)
  /\ closeVPN(h)
  /\ registered' = registered \ {h}
  /\ UNCHANGED <<environment, wire, pc, entered, state, latest, service, made, openers, requests>>

(* RuntimeConfiguration.stopMobileCloudService: OpenVPN ends, flushRules. *)
flushRules ==
  /\ MayStop
  /\ dport' = 0 /\ sport' = 0 /\ masq' = 0
  /\ masqFor' = [r \in Request |-> 0]
  /\ listed' = 0
  /\ UNCHANGED <<prefs, cli, requested, wire, link, pc, entered, state, latest, life, service, made, vpn,
                 openers, registered, rr, owed, ttl, persisted, overwritten>>

-----------------------------------------------------------------------------
(* The client's end, and the network. *)
ClientSays(h, m, phase) ==
  /\ link[h] = "up"
  /\ c2s' = [c2s EXCEPT ![h] = Append(@, m)]
  /\ cli' = [cli EXCEPT ![h] = phase]

ClientHello(h) ==
  /\ cli[h] = "connected"
  /\ ClientSays(h, "Hello", "greeted")
  /\ UNCHANGED <<prefs, listed, requested, s2c, link>>

ClientReads(h) ==
  /\ cli[h] \notin {"absent", "closed"} /\ s2c[h] # <<>> /\ link[h] = "up"
  /\ s2c' = [s2c EXCEPT ![h] = Tail(@)]
  /\ LET m == Head(s2c[h]) IN
     CASE m = "NeedPSI" -> ClientSays(h, "PSIResponse", "greeted") /\ UNCHANGED link
       [] m \in {"Offer", "OfferLiable"} -> ClientSays(h, "ConnectionACK", "acked") /\ UNCHANGED link
       [] m = "NoOffer" -> ClientSays(h, "ConnectionNACK", "closed") /\ link' = [link EXCEPT ![h] = "fin"]
       [] m = "PSINACK" -> /\ cli' = [cli EXCEPT ![h] = "closed"]
                           /\ link' = [link EXCEPT ![h] = "fin"]
                           /\ UNCHANGED c2s
       [] OTHER -> cli' = [cli EXCEPT ![h] = "open"] /\ UNCHANGED <<c2s, link>>  \* VPNGranted
  /\ UNCHANGED <<prefs, listed, requested>>

ClientRequestsVPN(h) ==
  /\ cli[h] = "acked"
  /\ ClientSays(h, "VPNRequest", "asked")
  /\ UNCHANGED <<prefs, listed, requested, s2c, link>>

ClientRequests(h, r) ==
  /\ cli[h] = "open" /\ prefs.liability
  /\ r \notin requested /\ requested' = requested \cup {r}
  /\ ClientSays(h, r, "open")
  /\ UNCHANGED <<prefs, listed, s2c, link>>

(* halt on the client: with or without CloseManagementChannel. *)
ClientCloses(h) ==
  /\ cli[h] \notin {"absent", "closed"}
  /\ \/ ClientSays(h, "CloseManagementChannel", "closed")
     \/ MayBreak /\ cli' = [cli EXCEPT ![h] = "closed"] /\ UNCHANGED c2s
  /\ link' = [link EXCEPT ![h] = IF @ = "up" THEN "fin" ELSE @]
  /\ UNCHANGED <<prefs, listed, requested, s2c>>

LinkBreaks(h) ==
  /\ MayBreak /\ cli[h] # "absent" /\ link[h] # "broken"
  /\ link' = [link EXCEPT ![h] = "broken"]
  /\ UNCHANGED <<environment, wire>>

(* The client's OpenVPN gets through, or its session times out. *)
OpenVPNStatus ==
  /\ \/ listed = 0 /\ dport > 0 /\ listed' = 1
     \/ listed = 1 /\ listed' = 0
  /\ UNCHANGED <<prefs, cli, requested, wire, link>>

Client(h) ==
  /\ \/ ClientHello(h) \/ ClientReads(h) \/ ClientRequestsVPN(h) \/ ClientCloses(h) \/ LinkBreaks(h)
     \/ \E r \in Request : ClientRequests(h, r)
  /\ UNCHANGED <<pc, entered, state, latest, life, service, made, vpn, openers, registered, rules,
                 requests>>

Network ==
  /\ OpenVPNStatus
  /\ UNCHANGED <<pc, entered, state, latest, life, service, made, vpn, openers, registered, rules,
                 requests>>

Next ==
  \/ \E h \in Handler : \/ Main(h) \/ Timer(h) \/ Worker(h)
                        \/ onServiceConnected(h) \/ onServiceDisconnected(h)
                        \/ Accept(h) \/ Shutdown(h) \/ Client(h)
  \/ \E r \in Request : Expire(r)
  \/ flushRules
  \/ Network

Spec == Init /\ [][Next]_vars

(* The handlers' main threads run.  Nothing is assumed of their timers and  *)
(* other threads, the client, the network, OpenVPN or the owner.            *)
FairSpec == Spec /\ \A h \in Handler : WF_vars(Main(h))

-----------------------------------------------------------------------------
ProtocolState == {"start", "helloSent", "psiMiddle", "psiDone", "responseSent", "established",
                  "vpnRequested", "openVPN", "finished"}
Place == {"off", "streams", "loop", "read", "event", "react", "service", "toWait", "waiting",
          "answer", "grant", "clear", "dead"}
Reply == {"NeedPSI", "PSINACK", "Offer", "OfferLiable", "NoOffer", "VPNGranted"}

TypeEnv ==
  /\ prefs \in Prefs /\ listed \in Flag /\ requested \in SUBSET Request
  /\ cli \in [Handler -> {"absent", "connected", "greeted", "acked", "asked", "open", "closed"}]
  /\ c2s \in [Handler -> Seq(Message)] /\ s2c \in [Handler -> Seq(Reply)]
TypeMain ==
  /\ pc \in [Handler -> Place]
  /\ entered \in [Handler -> ProtocolState] /\ state \in [Handler -> ProtocolState]
  /\ latest \in [Handler -> Message \cup {"none"}]
  /\ service \in [Handler -> {"null", "bound"}]
TypeLife ==
  /\ link \in [Handler -> {"up", "fin", "broken"}]
  /\ running \in [Handler -> Flag] /\ streams \in [Handler -> {"none", "open", "closed"}]
  /\ timer \in [Handler -> 0..MaxTimers] /\ timers \in [Handler -> SUBSET (1..MaxTimers)]
  /\ vpn \in [Handler -> Flag] /\ registered \in SUBSET Handler
  /\ dport \in Nat /\ sport \in Nat /\ masq \in Nat
TypeThreads ==
  /\ made \in [Handler -> 0..MaxTimers] /\ openers \in [Handler -> Nat]
  /\ rr \in [Handler \X Request \X Stage -> Nat]
  /\ masqFor \in [Request -> Nat] /\ owed \in [Request -> Nat] /\ ttl \in [Request -> Nat]
  /\ persisted \in SUBSET Request /\ overwritten \in SUBSET Request

(* Every field of a handler and every count of rules has its type: a rule   *)
(* that is not there is never removed, a thread ends once.                  *)
TypeOK == TypeEnv /\ TypeMain /\ TypeLife /\ TypeThreads

(* The main thread has ended, whatever else of the handler still runs. *)
Ended(h) == pc[h] \in {"off", "dead"}

(* Once the main threads of all handlers of the client have ended, none of  *)
(* the rules that accept its packets to destination port 1194 is left:      *)
(* however many threads opened it, the last halt comes after all of them,   *)
(* and each halt removes two (openVPN, closeVPN, blockOVpnAccessForIP).     *)
(* Nothing is said of the rules by source port: see GrantRemoved.           *)
DestinationPortClosed == (\A h \in Handler : Ended(h)) => dport = 0

(* closeVPN: "Block the OpenVPN server again for this client, i.e. remove   *)
(* the client's grant."  Once all its handlers have ended, none of the      *)
(* rules allowOVpnAccessForIP made for it is left.  Not so: the rule that   *)
(* accepts its packets from source port 1194 is never deleted.              *)
GrantRemoved == (\A h \in Handler : Ended(h)) => dport = 0 /\ sport = 0

(* A rule for the client exists only if the owner's preferences admit it:   *)
(* the answer to the Hello, the client's ACK and the VPN request lie        *)
(* between the decision and the rule (reactOnHello, VPNRequestAnalyzer).    *)
AccessOnlyIfAdmitted ==
  (dport > 0 \/ sport > 0 \/ masq > 0 \/ \E r \in Request : masqFor[r] > 0) => Admits(prefs)

(* A destination is opened, and its grant sent, only for a request that was *)
(* written to disk before.  Its file is missing later only if another       *)
(* request of this client took the file's name (persistRR), and then that   *)
(* one is on disk: the evidence is never all gone.                          *)
EvidenceFirst ==
  /\ \A r \in Request : masqFor[r] > 0 \/ (\E h \in Handler : At(h, r, "send"))
                        => r \in persisted \cup overwritten
  /\ overwritten # {} => persisted # {}

(* Every rule for a destination has its own time-to-live thread still to    *)
(* run or about to be started, although a request may be processed twice    *)
(* and expiry removes any one equal rule (allowMasqueradeFor,               *)
(* removeMasqueradeFor).                                                    *)
RulesExpire == \A r \in Request : masqFor[r] <= ttl[r] + owed[r]

(* openVPN: "open the connection for the requester".  While the client is   *)
(* told that its VPN is open and the connection is up, it has access.  Not  *)
(* so: the late halt of its previous handler closes it again.               *)
OpenHasAccess ==
  \A h \in Handler : (cli[h] = "open" /\ link[h] = "up" /\ streams[h] = "open") => dport > 0

(* A client that has gone loses the rules that accept its packets to        *)
(* destination port 1194, even if no stream can be closed (halt's finally). *)
AccessWithdrawn == \A h \in Handler : (link[h] = "broken") ~> (dport = 0)
=============================================================================

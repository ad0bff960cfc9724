-------------------------- MODULE ResourceRequests --------------------------
(***************************************************************************)
(* IpqReader, IpqWorker and ResourceRequestManager: what the client does   *)
(* with a packet that ipqserver asks about, when the gateway wants         *)
(* liability.  The reader queues the packet, the worker asks the gateway   *)
(* for its destination unless that is known, and a grant releases it.      *)
(*                                                                         *)
(* Two threads work on the lists pending, history and pendingIds:          *)
(*   worker    IpqWorker.run; it holds the manager's lock in addEntry, and *)
(*             sending a request runs the protocol's reactions once more   *)
(*             on this thread, with whatever latestMessage is then;        *)
(*   receiver  ManagementClientHandler.run; a grant runs verdict, which    *)
(*             takes no lock.                                              *)
(* A step is one call on a list.  Calls of the two threads on one          *)
(* ArrayList at the same time are actions of their own (Torn..., CME...):  *)
(* their outcomes are those of Android's ArrayList without a lock, a lost  *)
(* element, a null left in the list, or an exception.                      *)
(*                                                                         *)
(* A list element is the id of its packet, Null a null.  Packets are       *)
(* numbered in the order the reader sees them, so ids are distinct.        *)
(***************************************************************************)
EXTENDS Integers, Sequences

CONSTANTS
  Remote,       \* destinations (ip, layer 4 protocol, port) behind the gateway
  Local,        \* destinations in 127* or the phone's own networks
  TimeToLive,   \* resource_request_time_to_live
  PendingTime,  \* resource_request_pending_time
  MaxTime,      \* bound on the clock
  MaxPackets,   \* bound on the packets ipqserver asks about
  MayStop,      \* may the session end from outside?
  MayRepeat     \* may the gateway send keep-alives, and a grant twice?

ASSUME ResourceRequestsAssumption ==
  /\ Remote \cap Local = {}
  /\ TimeToLive \in Nat /\ PendingTime \in Nat
  /\ MaxTime \in Nat /\ MaxPackets \in Nat
  /\ MayStop \in BOOLEAN /\ MayRepeat \in BOOLEAN

VARIABLES
  now,        \* System.currentTimeMillis()
  packets,    \* destination of every packet, by id
  born,       \* timestamp of the entry made for a packet, by id
  workspace, pendingIds,        \* IpqWorker
  pending, history,             \* ResourceRequestManager
  pc,         \* where each thread is
  cur,        \* the packet id a thread works on
  idx,        \* the index a thread has got to in pending
  latest,     \* latestMessage: the id of a grant, KeepAlive or Null
  tun1,       \* is config's network of tun1 known?  "unset" or "set"
  link,       \* connection to the gateway: "up" or "broken"
  ipqserver,  \* "up", or "killed": stopRR has been called
  app,        \* "runs", or "crashed" by an uncaught exception of the worker
  sent,       \* ids of the requests the gateway was sent
  wire,       \* ids of the grants on their way to the client
  granted,    \* ids of the grants the gateway has ever sent
  released,   \* ids with a verdict line written to ipqserver
  dropped     \* ids isAlreadyPending removed as outdated, or a torn list lost

Null == 0
KeepAlive == -1
Thread == {"worker", "receiver"}

lists == <<pending, history, pendingIds>>
threads == <<pc, cur, idx, latest>>
outside == <<now, packets, tun1, link, wire, granted>>
life == <<ipqserver, app>>
vars == <<outside, born, workspace, lists, threads, life, sent, released, dropped>>

Id == 1..Len(packets)
Place == {"check", "wait", "waiting", "test", "history", "pending", "add", "send", "idle", "event",
          "react", "clear", "grant", "cast", "find", "look", "get", "keep", "forget", "ids", "write",
          "dead"}

(* rrManager.start and startRedirect have run and the VPN is being opened. *)
Init ==
  /\ now = 0 /\ packets = <<>> /\ born = <<>>
  /\ workspace = <<>> /\ pendingIds = {} /\ pending = <<>> /\ history = <<>>
  /\ pc = [t \in Thread |-> IF t = "worker" THEN "check" ELSE "idle"]
  /\ cur = [t \in Thread |-> Null] /\ idx = [t \in Thread |-> 0] /\ latest = Null
  /\ tun1 = "unset" /\ link = "up" /\ ipqserver = "up" /\ app = "runs"
  /\ sent = {} /\ wire = {} /\ granted = {} /\ released = {} /\ dropped = {}

-----------------------------------------------------------------------------
(* Lists. *)
Without(s, i) == [j \in 1..(Len(s) - 1) |-> IF j < i THEN s[j] ELSE s[j + 1]]

Members(s) == {s[i] : i \in 1..Len(s)}

(* A search for a member of hits walks the list and trips over a null. *)
FirstAt(s, i, hits) == s[i] \in hits \cup {Null} /\ \A j \in 1..(i - 1) : s[j] \notin hits \cup {Null}

NoneIn(s, hits) == Members(s) \cap (hits \cup {Null}) = {}

(* list.remove(element) *)
Removed(s, e) ==
  IF e \in Members(s)
  THEN Without(s, CHOOSE i \in 1..Len(s) : s[i] = e /\ \A j \in 1..(i - 1) : s[j] # e)
  ELSE s

(* Two unlocked calls on one ArrayList.  Both read size and the last one to *)
(* write it wins: add(e) and remove(x) lose e or leave a null, two adds     *)
(* lose one element, two removes keep one element or leave a null.          *)
AddRemoveTorn(s, e, x) == {Removed(s, x), Append(Append(Removed(s, x), Null), e)}

AddAddTorn(s, e, f) == {Append(s, e), Append(s, f)}

RemoveRemoveTorn(s, x, y) ==
  LET short == {Removed(s, x), Removed(s, y)}
  IN  short \cup {[q EXCEPT ![Len(q)] = Null] : q \in {p \in short : p # <<>>}}

-----------------------------------------------------------------------------
(* Threads. *)
Home(t) == IF t = "worker" THEN "check" ELSE "idle"

Goto(t, p) == pc' = [pc EXCEPT ![t] = p]

(* halt needs the handler's lock, which the worker holds while it sends and *)
(* runs the reactions (its last steps "ids" and "write" it also takes       *)
(* without sending; the model lets halt run then).                          *)
HaltCanRun ==
  pc["worker"] \notin {"react", "clear", "grant", "cast", "find", "look", "get", "keep", "forget"}

(* An exception ends the worker, and the app with it; the receiver catches  *)
(* it and calls halt, which stops the resource requests.                    *)
Exception(t) ==
  /\ t = "receiver" => HaltCanRun
  /\ Goto(t, "dead")
  /\ IF t = "worker" THEN app' = "crashed" /\ UNCHANGED ipqserver
                     ELSE ipqserver' = "killed" /\ UNCHANGED app
  /\ UNCHANGED <<outside, born, workspace, lists, cur, idx, latest, sent, released, dropped>>

-----------------------------------------------------------------------------
(* IpqReader.run and addElementToWorkspace.  The element is added and the   *)
(* worker notified under the workspace's lock; a worker that has not called *)
(* wait yet misses the notification.                                        *)
Arrive(d) ==
  /\ ipqserver = "up" /\ Len(packets) < MaxPackets
  /\ packets' = Append(packets, d)
  /\ born' = Append(born, 0)
  /\ workspace' = Append(workspace, Len(packets) + 1)
  /\ pc' = [pc EXCEPT !["worker"] = IF @ = "waiting" THEN "check" ELSE @]
  /\ UNCHANGED <<now, tun1, link, wire, granted, lists, cur, idx, latest, life, sent, released,
                 dropped>>

-----------------------------------------------------------------------------
(* IpqWorker.run: the test of the workspace and the wait are two steps.     *)
NotReady ==
  /\ pc["worker"] = "check" /\ workspace = <<>>
  /\ Goto("worker", "wait")
  /\ UNCHANGED <<outside, born, workspace, lists, cur, idx, latest, life, sent, released, dropped>>

Wait ==
  /\ pc["worker"] = "wait"
  /\ Goto("worker", "waiting")
  /\ UNCHANGED <<outside, born, workspace, lists, cur, idx, latest, life, sent, released, dropped>>

Take ==
  /\ pc["worker"] = "check" /\ workspace # <<>>
  /\ workspace' = Tail(workspace)
  /\ cur' = [cur EXCEPT !["worker"] = Head(workspace)]
  /\ Goto("worker", "test")
  /\ UNCHANGED <<outside, born, lists, idx, latest, life, sent, released, dropped>>

(* isTargetForTetheringToServer reads the network of tun1 for every address *)
(* outside the other networks: a null pointer until the VPN is up.          *)
TestUnknown ==
  /\ pc["worker"] = "test" /\ packets[cur["worker"]] \in Remote /\ tun1 = "unset"
  /\ Exception("worker")

NeedsRequest(i) == packets[i] \in Remote /\ i \notin pendingIds

TestRelease ==
  /\ pc["worker"] = "test" /\ ~NeedsRequest(cur["worker"])
  /\ Goto("worker", "ids")
  /\ UNCHANGED <<outside, born, workspace, lists, cur, idx, latest, life, sent, released, dropped>>

(* pendingIds.add may lose its element to a remove at the same time. *)
TestRequest ==
  /\ pc["worker"] = "test" /\ NeedsRequest(cur["worker"]) /\ tun1 = "set"
  /\ born' = [born EXCEPT ![cur["worker"]] = now]
  /\ \/ pendingIds' = pendingIds \cup {cur["worker"]}
     \/ pc["receiver"] = "ids" /\ UNCHANGED pendingIds
  /\ Goto("worker", "history")
  /\ UNCHANGED <<outside, workspace, pending, history, cur, idx, latest, life, sent, released,
                 dropped>>

-----------------------------------------------------------------------------
(* Mutant: only tells destinations behind the gateway from others. *)
MutSameSocket == {e \in Id : packets[e] \in Remote}

(* ResourceRequestManager.addEntry.  The age that is compared with the time *)
(* to live is the new entry's.                                              *)
SameSocket == {e \in Id : packets[e] = packets[cur["worker"]]}

Fresh(limit) == born[cur["worker"]] + limit > now

HistoryMiss ==
  /\ pc["worker"] = "history" /\ NoneIn(history, SameSocket)
  /\ Goto("worker", "pending")
  /\ UNCHANGED <<outside, born, workspace, lists, cur, idx, latest, life, sent, released, dropped>>

HistoryHit ==
  /\ pc["worker"] = "history"
  /\ \E i \in 1..Len(history) : FirstAt(history, i, SameSocket) /\ history[i] # Null
  /\ Fresh(TimeToLive)
  /\ Goto("worker", "ids")
  /\ UNCHANGED <<outside, born, workspace, lists, cur, idx, latest, life, sent, released, dropped>>

HistoryOutdated ==
  /\ pc["worker"] = "history" /\ ~Fresh(TimeToLive)
  /\ \E i \in 1..Len(history) :
       /\ FirstAt(history, i, SameSocket) /\ history[i] # Null
       /\ history' = Without(history, i)
  /\ Goto("worker", "pending")
  /\ UNCHANGED <<outside, born, workspace, pending, pendingIds, cur, idx, latest, life, sent,
                 released, dropped>>

PendingMiss ==
  /\ pc["worker"] = "pending" /\ NoneIn(pending, SameSocket)
  /\ Goto("worker", "add")
  /\ UNCHANGED <<outside, born, workspace, lists, cur, idx, latest, life, sent, released, dropped>>

PendingHit ==
  /\ pc["worker"] = "pending"
  /\ \E i \in 1..Len(pending) : FirstAt(pending, i, SameSocket) /\ pending[i] # Null
  /\ Fresh(PendingTime)
  /\ Goto("worker", "ids")
  /\ UNCHANGED <<outside, born, workspace, lists, cur, idx, latest, life, sent, released, dropped>>

PendingOutdated ==
  /\ pc["worker"] = "pending" /\ ~Fresh(PendingTime)
  /\ \E i \in 1..Len(pending) :
       /\ FirstAt(pending, i, SameSocket) /\ pending[i] # Null
       /\ pending' = Without(pending, i)
       /\ dropped' = dropped \cup {pending[i]}
  /\ Goto("worker", "add")
  /\ UNCHANGED <<outside, born, workspace, history, pendingIds, cur, idx, latest, life, sent,
                 released>>

(* A null in the list, or a change of it during the walk by the receiver    *)
(* (ConcurrentModificationException).                                       *)
WalkFails ==
  /\ \/ /\ pc["worker"] = "history"
        /\ \/ \E i \in 1..Len(history) : FirstAt(history, i, SameSocket) /\ history[i] = Null
           \/ history # <<>> /\ pc["receiver"] = "keep"
     \/ /\ pc["worker"] = "pending"
        /\ \/ \E i \in 1..Len(pending) : FirstAt(pending, i, SameSocket) /\ pending[i] = Null
           \/ pc["receiver"] = "forget" /\ cur["receiver"] \in Members(pending)
  /\ Exception("worker")

Add ==
  /\ pc["worker"] = "add"
  /\ pending' = Append(pending, cur["worker"])
  /\ Goto("worker", "send")
  /\ UNCHANGED <<outside, born, workspace, history, pendingIds, cur, idx, latest, life, sent,
                 released, dropped>>

(* generateResourceRequest returns null when the request cannot be signed. *)
GenerateFails ==
  /\ pc["worker"] = "add"
  /\ Exception("worker")

Send ==
  /\ pc["worker"] = "send" /\ link = "up" /\ ipqserver = "up"
  /\ sent' = sent \cup {cur["worker"]}
  /\ Goto("worker", "react")
  /\ UNCHANGED <<outside, born, workspace, lists, cur, idx, latest, life, released, dropped>>

SendFails ==
  /\ pc["worker"] = "send" /\ (link = "broken" \/ ipqserver = "killed")
  /\ ipqserver' = "killed"
  /\ Goto("worker", "check")
  /\ UNCHANGED <<outside, born, workspace, lists, cur, idx, latest, app, sent, released, dropped>>

-----------------------------------------------------------------------------
(* The reactions of the open VPN channel, on either thread: a keep-alive is *)
(* cleared from latestMessage, then a grant is looked up.                   *)
ReactKeepAlive(t) ==
  /\ pc[t] = "react"
  /\ Goto(t, IF latest = KeepAlive THEN "clear" ELSE "grant")
  /\ UNCHANGED <<outside, born, workspace, lists, cur, idx, latest, life, sent, released, dropped>>

ClearLatest(t) ==
  /\ pc[t] = "clear"
  /\ latest' = Null
  /\ Goto(t, "grant")
  /\ UNCHANGED <<outside, born, workspace, lists, cur, idx, life, sent, released, dropped>>

ReactGrant(t) ==
  /\ pc[t] = "grant"
  /\ Goto(t, IF latest \in Id THEN "cast" ELSE Home(t))
  /\ UNCHANGED <<outside, born, workspace, lists, cur, idx, latest, life, sent, released, dropped>>

(* Mutant: no test of the message's class. *)
MutReadGrant(t) ==
  /\ pc[t] = "cast"
  /\ cur' = [cur EXCEPT ![t] = latest] /\ idx' = [idx EXCEPT ![t] = 1]
  /\ Goto(t, "find")
  /\ UNCHANGED <<outside, born, workspace, lists, latest, life, sent, released, dropped>>

(* latestMessage is read a second time, after the test of its class. *)
ReadGrant(t) ==
  /\ pc[t] = "cast" /\ latest \in Id
  /\ cur' = [cur EXCEPT ![t] = latest] /\ idx' = [idx EXCEPT ![t] = 1]
  /\ Goto(t, "find")
  /\ UNCHANGED <<outside, born, workspace, lists, latest, life, sent, released, dropped>>

(* moveFromPendingToHistory: without a lock, a loop of pending.size() and   *)
(* pending.get(i), and a second pending.get(i) for the entry it has found.  *)
Find(t) ==
  /\ pc[t] = "find"
  /\ Goto(t, IF idx[t] <= Len(pending) THEN "look" ELSE Home(t))
  /\ UNCHANGED <<outside, born, workspace, lists, cur, idx, latest, life, sent, released, dropped>>

Look(t) ==
  /\ pc[t] = "look" /\ idx[t] <= Len(pending) /\ pending[idx[t]] # Null
  /\ \/ pending[idx[t]] = cur[t] /\ Goto(t, "get") /\ UNCHANGED idx
     \/ pending[idx[t]] # cur[t] /\ Goto(t, "find") /\ idx' = [idx EXCEPT ![t] = @ + 1]
  /\ UNCHANGED <<outside, born, workspace, lists, cur, latest, life, sent, released, dropped>>

Get(t) ==
  /\ pc[t] = "get" /\ idx[t] <= Len(pending)
  /\ cur' = [cur EXCEPT ![t] = pending[idx[t]]]
  /\ Goto(t, "keep")
  /\ UNCHANGED <<outside, born, workspace, lists, idx, latest, life, sent, released, dropped>>

Keep(t) ==
  /\ pc[t] = "keep"
  /\ history' = Append(history, cur[t])
  /\ Goto(t, "forget")
  /\ UNCHANGED <<outside, born, workspace, pending, pendingIds, cur, idx, latest, life, sent,
                 released, dropped>>

(* Mutant: removes the oldest pending entry. *)
MutForget(t) ==
  /\ pc[t] = "forget"
  /\ pending' = IF pending = <<>> THEN pending ELSE Without(pending, 1)
  /\ Goto(t, "ids")
  /\ UNCHANGED <<outside, born, workspace, history, pendingIds, cur, idx, latest, life, sent,
                 released, dropped>>

Forget(t) ==
  /\ pc[t] = "forget"
  /\ pending' = Removed(pending, cur[t])
  /\ Goto(t, "ids")
  /\ UNCHANGED <<outside, born, workspace, history, pendingIds, cur, idx, latest, life, sent,
                 released, dropped>>

(* Mutant: returns before the verdict line is written. *)
MutForgetId(t) ==
  /\ pc[t] = "ids" /\ cur[t] # Null
  /\ pendingIds' = pendingIds \ {cur[t]}
  /\ Goto(t, Home(t))
  /\ UNCHANGED <<outside, born, workspace, pending, history, cur, idx, latest, life, sent, released,
                 dropped>>

(* IpqWorker.verdict.  Once stopRR has been called (killed) the line may    *)
(* not arrive: killall is carried out some time later.                      *)
ForgetId(t) ==
  /\ pc[t] = "ids" /\ cur[t] # Null
  /\ pendingIds' = pendingIds \ {cur[t]}
  /\ Goto(t, "write")
  /\ UNCHANGED <<outside, born, workspace, pending, history, cur, idx, latest, life, sent, released,
                 dropped>>

Write(t) ==
  /\ pc[t] = "write"
  /\ \/ released' = released \cup {cur[t]}
     \/ ipqserver = "killed" /\ UNCHANGED released
  /\ Goto(t, Home(t))
  /\ UNCHANGED <<outside, born, workspace, lists, cur, idx, latest, life, sent, dropped>>

(* latestMessage changed between test and cast; a null in pending, or an    *)
(* element removed after the size was read.                                 *)
VerdictFails(t) ==
  /\ \/ pc[t] = "cast" /\ latest \notin Id
     \/ pc[t] \in {"look", "get"} /\ idx[t] > Len(pending)
     \/ pc[t] = "look" /\ idx[t] <= Len(pending) /\ pending[idx[t]] = Null
     \/ pc[t] = "ids" /\ cur[t] = Null
  /\ Exception(t)

(* Both threads in the same list at the same time. *)
TornPending ==
  /\ pc["receiver"] = "forget" /\ cur["receiver"] \in Members(pending)
  /\ \/ /\ pc["worker"] = "add"
        /\ pending' \in AddRemoveTorn(pending, cur["worker"], cur["receiver"])
        /\ pc' = [pc EXCEPT !["worker"] = "send", !["receiver"] = "ids"]
     \/ /\ pc["worker"] = "forget" /\ cur["worker"] \in Members(pending)
        /\ pending' \in RemoveRemoveTorn(pending, cur["worker"], cur["receiver"])
        /\ pc' = [pc EXCEPT !["worker"] = "ids", !["receiver"] = "ids"]
  /\ dropped' = dropped \cup (((Members(pending) \cup {cur["worker"]}) \ Members(pending'))
                                \ {cur["receiver"], Null})
  /\ UNCHANGED <<outside, born, workspace, history, pendingIds, cur, idx, latest, life, sent,
                 released>>

TornHistory ==
  /\ pc["receiver"] = "keep"
  /\ \/ /\ pc["worker"] = "keep"
        /\ history' \in AddAddTorn(history, cur["worker"], cur["receiver"])
        /\ pc' = [pc EXCEPT !["worker"] = "forget", !["receiver"] = "forget"]
     \/ /\ pc["worker"] = "history" /\ ~Fresh(TimeToLive)
        /\ \E i \in 1..Len(history) :
             /\ FirstAt(history, i, SameSocket) /\ history[i] # Null
             /\ history' \in AddRemoveTorn(history, cur["receiver"], history[i])
        /\ pc' = [pc EXCEPT !["worker"] = "pending", !["receiver"] = "forget"]
  /\ UNCHANGED <<outside, born, workspace, pending, pendingIds, cur, idx, latest, life, sent,
                 released, dropped>>

-----------------------------------------------------------------------------
(* ManagementClientHandler.receiveMessage. *)
ReceiveGrant(i) ==
  /\ pc["receiver"] = "idle" /\ link = "up" /\ ipqserver = "up"
  /\ i \in wire /\ wire' = wire \ {i}
  /\ latest' = i
  /\ Goto("receiver", "event")
  /\ UNCHANGED <<now, packets, tun1, link, granted, born, workspace, lists, cur, idx, life, sent,
                 released, dropped>>

ReceiveKeepAlive ==
  /\ MayRepeat
  /\ pc["receiver"] = "idle" /\ link = "up" /\ ipqserver = "up"
  /\ latest' = KeepAlive
  /\ Goto("receiver", "event")
  /\ UNCHANGED <<outside, born, workspace, lists, cur, idx, life, sent, released, dropped>>

(* receiveEvent(latestMessage.getClass()), unless the worker has cleared it *)
Event ==
  /\ pc["receiver"] = "event" /\ latest # Null
  /\ Goto("receiver", "react")
  /\ UNCHANGED <<outside, born, workspace, lists, cur, idx, latest, life, sent, released, dropped>>

ReceiveFails ==
  /\ \/ pc["receiver"] = "idle" /\ (link = "broken" \/ ipqserver = "killed")
     \/ pc["receiver"] = "event" /\ latest = Null
  /\ Exception("receiver")

(* stopRR, from halt on the keep-alive timer's or the user's thread. *)
StopRR ==
  /\ MayStop /\ HaltCanRun
  /\ ipqserver' = "killed"
  /\ UNCHANGED <<outside, born, workspace, lists, threads, app, sent, released, dropped>>

-----------------------------------------------------------------------------
(* The rest of the phone, the gateway and the network. *)
Tick == now < MaxTime /\ now' = now + 1 /\ UNCHANGED <<packets, tun1, link, wire, granted>>

VPNOpened == tun1' = "set" /\ UNCHANGED <<now, packets, link, wire, granted>>

GatewayGrants(i) ==
  /\ i \in granted => MayRepeat
  /\ wire' = wire \cup {i} /\ granted' = granted \cup {i}
  /\ UNCHANGED <<now, packets, tun1, link>>

LinkBreaks == MayStop /\ link' = "broken" /\ UNCHANGED <<now, packets, tun1, wire, granted>>

Environment ==
  /\ Tick \/ VPNOpened \/ (\E i \in sent : GatewayGrants(i)) \/ LinkBreaks
  /\ UNCHANGED <<born, workspace, lists, threads, life, sent, released, dropped>>

-----------------------------------------------------------------------------
AddEntry ==
  \/ HistoryMiss \/ HistoryHit \/ HistoryOutdated \/ PendingMiss \/ PendingHit \/ PendingOutdated
  \/ WalkFails \/ Add \/ GenerateFails \/ Send \/ SendFails

Worker == NotReady \/ Wait \/ Take \/ TestUnknown \/ TestRelease \/ TestRequest \/ AddEntry

Verdict(t) ==
  \/ ReactKeepAlive(t) \/ ClearLatest(t) \/ ReactGrant(t) \/ ReadGrant(t) \/ Find(t) \/ Look(t)
  \/ Get(t) \/ Keep(t) \/ Forget(t) \/ ForgetId(t) \/ Write(t) \/ VerdictFails(t)

Receiver == (\E i \in wire : ReceiveGrant(i)) \/ ReceiveKeepAlive \/ Event \/ ReceiveFails

Next ==
  /\ app = "runs"
  /\ \/ \E d \in Remote \cup Local : Arrive(d)
     \/ Worker
     \/ \E t \in Thread : Verdict(t)
     \/ TornPending \/ TornHistory
     \/ Receiver
     \/ StopRR
     \/ Environment

Spec == Init /\ [][Next]_vars

(* Nothing blocks a thread that runs the reactions; the scheduler runs it. *)
FairSpec == Spec /\ \A t \in Thread : WF_vars(app = "runs" /\ Verdict(t))

-----------------------------------------------------------------------------
(* Fields, lists and places keep their types. *)
TypeData ==
  /\ now \in 0..MaxTime
  /\ packets \in Seq(Remote \cup Local) /\ Len(packets) <= MaxPackets
  /\ born \in Seq(0..MaxTime) /\ Len(born) = Len(packets)

TypeLists ==
  /\ workspace \in Seq(Id)
  /\ pending \in Seq(Id \cup {Null}) /\ history \in Seq(Id \cup {Null})
  /\ pendingIds \subseteq Id

TypeThreads ==
  /\ pc \in [Thread -> Place] /\ cur \in [Thread -> Id \cup {Null}] /\ idx \in [Thread -> Nat]
  /\ latest \in Id \cup {Null, KeepAlive}

TypeOutside ==
  /\ tun1 \in {"unset", "set"} /\ link \in {"up", "broken"}
  /\ ipqserver \in {"up", "killed"} /\ app \in {"runs", "crashed"}
  /\ sent \subseteq Id /\ wire \subseteq Id /\ granted \subseteq Id
  /\ released \subseteq Id /\ dropped \subseteq Id

TypeOK == TypeData /\ TypeLists /\ TypeThreads /\ TypeOutside

(* No packet leaves for a destination behind the gateway unless a request   *)
(* for it was sent, is just being sent, or failed and ended the session,    *)
(* whatever the two threads do to the lists: the signed request is the      *)
(* gateway owner's evidence of who used the uplink.                         *)
Asking == {j \in {cur["worker"]} : pc["worker"] = "send"}

AskedFirst ==
  \A i \in released :
    packets[i] \in Remote =>
      ipqserver = "killed" \/ \E j \in sent \cup Asking : packets[j] = packets[i]

(* A packet that was read is never forgotten while the resource requests    *)
(* run: it waits in the workspace, is in a thread's hands, is pending or    *)
(* released.  Only an outdated entry and a torn list lose one.              *)
InHand(i) ==
  \E t \in Thread :
    /\ cur[t] = i
    /\ pc[t] \in {"test", "history", "pending", "add", "send", "keep", "forget", "ids", "write"}

NothingForgotten ==
  ipqserver = "up" /\ app = "runs" =>
    \A i \in Id :
      \/ i \in Members(workspace) \cup Members(pending) \cup released \cup dropped
      \/ InHand(i)

(* Thread t walks the list for the grant of i; the other thread is about to *)
(* take an entry out of the list.                                           *)
Searching(t, i) == pc[t] \in {"find", "look", "get"} /\ cur[t] = i

Removing(t) ==
  \/ pc[t] = "forget" /\ cur[t] \in Members(pending)
  \/ t = "worker" /\ pc[t] = "pending" /\ ~Fresh(PendingTime) /\ ~NoneIn(pending, SameSocket)

(* A grant that a thread begins to look up in the pending list releases its *)
(* packet, unless the other thread takes an entry out of the list during    *)
(* the walk (the index then skips one, or is a neighbour's), the list is    *)
(* torn, the session ends or the app crashes (moveFromPendingToHistory).    *)
VerdictReleases ==
  \A i \in 1..MaxPackets :
    (\E t \in Thread : pc[t] = "find" /\ cur[t] = i /\ idx[t] = 1 /\ i \in Members(pending))
      ~> \/ i \in released \cup dropped \/ ipqserver = "killed" \/ app = "crashed"
         \/ \E t \in Thread : Searching(t, i) /\ \E u \in Thread \ {t} : Removing(u)
=============================================================================

----------------------------- MODULE PeerServer -----------------------------
(***************************************************************************)
(* The gateway's listener: PeerServerWorker with the life of its           *)
(* ManagementServerHandlers, and the service that starts and stops it,     *)
(* PeerServerCommunicator.  Threads: the app's main thread (the service),  *)
(* one accepting thread per listener, and for each handler its receiver    *)
(* and its keep-alive timer.                                               *)
(*                                                                         *)
(* Two kinds of locks.  A listener's lock is held across steps only by the *)
(* main thread, in shutdownMobileCloudServer; deleteHandler is one step.   *)
(* A handler's lock is held by a thread of the handler that is in halt     *)
(* and waits for the listener's lock.  The accepting thread adds to the    *)
(* list of handlers without any lock.                                      *)
(*                                                                         *)
(* An exception on the main thread ends the app.  ArrayList's iterator is  *)
(* Android's: it counts the elements left and next() fails when the list   *)
(* has changed since the iterator was made.                                *)
(***************************************************************************)
EXTENDS Integers, Sequences

CONSTANTS
  MaxListeners, \* bound on the listeners the service creates
  MaxHandlers,  \* bound on the connections accepted
  MaxThreads    \* bound on both together

ASSUME PeerServerAssumption ==
  MaxListeners \in Nat \ {0} /\ MaxHandlers \in Nat /\ MaxThreads \in Nat

Listener == 1..MaxListeners
Handler == 1..MaxHandlers
NULL == 0

VARIABLES
  app,      \* "up" or "crashed"
  server,   \* the service's current listener
  mPc, mThen, mVisit, mLeft, mDirty,
            \* main thread: where it is, what follows the shutdown, the handler
            \*   it visits, elements left of the walk, list changed since it began
  lPc, lRunning, lSock, lField, lNew,
            \* listener: where it is, running, its server socket, whether the
            \*   field server is set, the handler just made
  handler,  \* listener: the list of handlers, 0 for a null
  owner, hPc, tPc, hRunning, link
            \* handler: its listener, receiver and timer, running, its streams

main == <<server, mPc, mThen, mVisit, mLeft, mDirty>>
listener == <<lPc, lRunning, lSock, lField, lNew>>
session == <<owner, hPc, tPc, hRunning, link>>
vars == <<app, main, listener, handler, session>>

(* The service has been created (onCreate) and nothing started. *)
Init ==
  /\ app = "up"
  /\ server = 1 /\ mPc = "idle" /\ mThen = "stop" /\ mVisit = NULL /\ mLeft = 0 /\ mDirty = 0
  /\ lPc = [w \in Listener |-> IF w = 1 THEN "new" ELSE "none"]
  /\ lRunning = [w \in Listener |-> 1]
  /\ lSock = [w \in Listener |-> "none"]
  /\ lField = [w \in Listener |-> 0]
  /\ lNew = [w \in Listener |-> NULL]
  /\ handler = [w \in Listener |-> <<>>]
  /\ owner = [h \in Handler |-> NULL]
  /\ hPc = [h \in Handler |-> "none"]
  /\ tPc = [h \in Handler |-> "off"]
  /\ hRunning = [h \in Handler |-> 1]
  /\ link = [h \in Handler |-> "up"]

(* The next listener or connection is within the bounds; connections are    *)
(* numbered in the order they are accepted.                                 *)
MayConnect(h) ==
  /\ owner[h] = NULL /\ \A g \in Handler : g < h => owner[g] # NULL
  /\ (IF mThen = "start" THEN server + 1 ELSE server) + h <= MaxThreads
MayRestart ==
  /\ server < MaxListeners
  /\ \A h \in Handler : owner[h] # NULL => server + 1 + h <= MaxThreads

-----------------------------------------------------------------------------
(* Locks. *)
ListenerLockFree(w) == ~(server = w /\ mPc \in {"walk", "stopMe", "halt"})
HandlerLockFree(h) == hPc[h] \notin {"halting", "last"} /\ tPc[h] # "halting"

(* ArrayList.remove(Object) on the listener's list. *)
Listed(w) == {handler[w][i] : i \in 1..Len(handler[w])}
Removed(w, h) ==
  IF h \notin Listed(w) THEN handler[w]
  ELSE LET s == handler[w]
           i == CHOOSE k \in 1..Len(s) : s[k] = h
       IN  [k \in 1..(Len(s) - 1) |-> IF k < i THEN s[k] ELSE s[k + 1]]

Crash ==
  /\ app' = "crashed"
  /\ UNCHANGED <<main, listener, handler, session>>

-----------------------------------------------------------------------------
(* The accepting thread, PeerServerWorker.run. *)
LGoto(w, pc) == lPc' = [lPc EXCEPT ![w] = pc]

(* Getting the TLS context and the server socket; that may fail. *)
ListenerCreate(w) ==
  /\ lPc[w] = "init"
  /\ \/ /\ LGoto(w, "bind")
        /\ lField' = [lField EXCEPT ![w] = 1]
        /\ lSock' = [lSock EXCEPT ![w] = "created"]
     \/ LGoto(w, "dead") /\ UNCHANGED <<lField, lSock>>
  /\ UNCHANGED <<app, main, lRunning, lNew, handler, session>>

PortFree == \A w \in Listener : lSock[w] # "bound"

(* server may have been closed and set to null meanwhile, or the port taken. *)
ListenerBind(w) ==
  /\ lPc[w] = "bind"
  /\ IF lField[w] = 1 /\ lSock[w] = "created" /\ PortFree
     THEN LGoto(w, "test") /\ lSock' = [lSock EXCEPT ![w] = "bound"]
     ELSE LGoto(w, "dead") /\ UNCHANGED lSock
  /\ UNCHANGED <<app, main, lRunning, lField, lNew, handler, session>>

(* while(running), and server.close() after it. *)
ListenerTest(w) ==
  /\ lPc[w] = "test"
  /\ IF lRunning[w] = 1
     THEN LGoto(w, "accept") /\ UNCHANGED lSock
     ELSE /\ LGoto(w, "dead")
          /\ lSock' = IF lField[w] = 1 THEN [lSock EXCEPT ![w] = "closed"] ELSE lSock
  /\ UNCHANGED <<app, main, lRunning, lField, lNew, handler, session>>

(* A client connects: the handler is made. *)
Accept(w) ==
  /\ lPc[w] = "accept" /\ lField[w] = 1 /\ lSock[w] = "bound"
  /\ \E h \in Handler :
       /\ MayConnect(h)
       /\ owner' = [owner EXCEPT ![h] = w]
       /\ hPc' = [hPc EXCEPT ![h] = "made"]
       /\ lNew' = [lNew EXCEPT ![w] = h]
  /\ LGoto(w, "add")
  /\ UNCHANGED <<app, main, lRunning, lSock, lField, handler, tPc, hRunning, link>>

(* accept throws: the socket was closed, the field set to null, or the      *)
(* system is out of resources.  The socket is not closed here.              *)
AcceptFails(w) ==
  /\ lPc[w] = "accept"
  /\ LGoto(w, "dead")
  /\ UNCHANGED <<app, main, lRunning, lSock, lField, lNew, handler, session>>

(* handler.add(handle), without the lock. *)
Add(w) ==
  /\ lPc[w] = "add"
  /\ handler' = [handler EXCEPT ![w] = Append(@, lNew[w])]
  /\ mDirty' = IF ListenerLockFree(w) THEN mDirty ELSE 1
  /\ LGoto(w, "start")
  /\ UNCHANGED <<app, server, mPc, mThen, mVisit, mLeft, lRunning, lSock, lField, lNew, session>>

(* handle.start() *)
StartHandler(w) ==
  /\ lPc[w] = "start"
  /\ hPc' = [hPc EXCEPT ![lNew[w]] = "streams"]
  /\ lNew' = [lNew EXCEPT ![w] = NULL]
  /\ LGoto(w, "test")
  /\ UNCHANGED <<app, main, lRunning, lSock, lField, handler, owner, tPc, hRunning, link>>

(* The list after handler.add and a removal of h that ran at the same time: *)
(* one of the two sizes is lost, and with it the new handler, or a null is  *)
(* left where the list was shortened.                                       *)
AddRemoveTorn(w, h) ==
  {Removed(w, h), Append(Append(Removed(w, h), NULL), lNew[w])}

(* deleteHandler's removal, alone or together with the unlocked add. *)
Unlist(w, h) ==
  \/ handler' = [handler EXCEPT ![w] = Removed(w, h)] /\ UNCHANGED lPc
  \/ /\ lPc[w] = "add" /\ h \in Listed(w)
     /\ \E s \in AddRemoveTorn(w, h) : handler' = [handler EXCEPT ![w] = s]
     /\ LGoto(w, "start")

-----------------------------------------------------------------------------
(* A handler, ManagementServerHandler: its receiver (run) and its timer.    *)
(* What it receives and sends is in ManagementServer; here it goes on or    *)
(* ends.                                                                    *)
HGoto(h, pc) == hPc' = [hPc EXCEPT ![h] = pc]

(* The object streams, which wait for the client's handshake and header. *)
StreamsReady(h) ==
  /\ hPc[h] = "streams" /\ link[h] = "up"
  /\ HGoto(h, "loop")
  /\ UNCHANGED <<app, main, listener, handler, owner, tPc, hRunning, link>>

(* run's catch: halt() fails at once on the missing stream. *)
StreamsFail(h) ==
  /\ hPc[h] = "streams" /\ link[h] # "up"
  /\ HGoto(h, "last")
  /\ UNCHANGED <<app, main, listener, handler, owner, tPc, hRunning, link>>

(* The body of halt's try: the streams are closed, running is reset and the *)
(* timer cancelled; or close() throws and none of it happens.               *)
CloseStreams(h) ==
  \/ /\ link' = [link EXCEPT ![h] = "closed"]
     /\ hRunning' = [hRunning EXCEPT ![h] = 0]
  \/ link[h] # "up" /\ UNCHANGED <<link, hRunning>>

(* while(running) receiveMessage(), and the halt() after it. *)
Loop(h) ==
  /\ hPc[h] = "loop"
  /\ \/ hRunning[h] = 1 /\ HGoto(h, "receive") /\ UNCHANGED <<link, hRunning>>
     \/ hRunning[h] = 0 /\ HandlerLockFree(h) /\ HGoto(h, "last") /\ CloseStreams(h)
  /\ UNCHANGED <<app, main, listener, handler, owner, tPc>>

(* A broken link, or a message that makes the handler end the connection;   *)
(* halt takes the handler's lock.                                           *)
ReceiveHalts(h) ==
  /\ hPc[h] = "receive" /\ HandlerLockFree(h)
  /\ HGoto(h, "halting") /\ CloseStreams(h)
  /\ UNCHANGED <<app, main, listener, handler, owner, tPc>>

(* Any other message; a reaction to it may start the keep-alive timer. *)
Receive(h) ==
  /\ hPc[h] = "receive" /\ link[h] = "up" /\ HandlerLockFree(h)
  /\ HGoto(h, "loop")
  /\ tPc' \in {tPc, [tPc EXCEPT ![h] = "idle"]}
  /\ UNCHANGED <<app, main, listener, handler, owner, hRunning, link>>

(* The timer's keep-alive cannot be written: sendMessage calls halt.  A run *)
(* that has begun is not stopped by cancel().                               *)
TimerHalts(h) ==
  /\ tPc[h] = "idle" /\ link[h] # "up" /\ HandlerLockFree(h)
  /\ tPc' = [tPc EXCEPT ![h] = "halting"] /\ CloseStreams(h)
  /\ UNCHANGED <<app, main, listener, handler, owner, hPc>>

(* Mutated form: deleteHandler is not in the finally block, and is skipped  *)
(* when close() threw.                                                      *)
MutDeregister(h) ==
  /\ hPc[h] \in {"halting", "last"} /\ ListenerLockFree(owner[h])
  /\ IF hRunning[h] = 0 THEN Unlist(owner[h], h) ELSE UNCHANGED <<handler, lPc>>
  /\ HGoto(h, IF hPc[h] = "last" THEN "done" ELSE "loop")
  /\ UNCHANGED <<app, main, lRunning, lSock, lField, lNew, owner, tPc, hRunning, link>>

(* halt's finally: deleteHandler takes the listener's lock. *)
Deregister(h) ==
  /\ hPc[h] \in {"halting", "last"} /\ ListenerLockFree(owner[h])
  /\ Unlist(owner[h], h)
  /\ HGoto(h, IF hPc[h] = "last" THEN "done" ELSE "loop")
  /\ UNCHANGED <<app, main, lRunning, lSock, lField, lNew, owner, tPc, hRunning, link>>

TimerDeregisters(h) ==
  /\ tPc[h] = "halting" /\ ListenerLockFree(owner[h])
  /\ Unlist(owner[h], h)
  /\ tPc' = [tPc EXCEPT ![h] = IF link[h] = "closed" THEN "off" ELSE "idle"]
  /\ UNCHANGED <<app, main, lRunning, lSock, lField, lNew, owner, hPc, hRunning, link>>

(* External: the client goes away. *)
LinkBreaks(h) ==
  /\ owner[h] # NULL /\ link[h] = "up"
  /\ link' = [link EXCEPT ![h] = "broken"]
  /\ UNCHANGED <<app, main, listener, handler, owner, hPc, tPc, hRunning>>

-----------------------------------------------------------------------------
(* The main thread, PeerServerCommunicator. *)
Alive(w) == lPc[w] \notin {"none", "new", "dead"}

(* shutdownMobileCloudServer: the lock is taken and the iterator made. *)
BeginShutdown(then) ==
  /\ mPc' = "walk" /\ mThen' = then
  /\ mLeft' = Len(handler[server]) /\ mDirty' = 0
  /\ UNCHANGED <<app, server, mVisit, listener, handler, session>>

(* onStart: a running server is replaced; a thread cannot be started twice. *)
OnStart ==
  /\ mPc = "idle"
  /\ \/ Alive(server) /\ MayRestart /\ BeginShutdown("start")
     \/ lPc[server] = "new" /\ LGoto(server, "init")
        /\ UNCHANGED <<app, main, lRunning, lSock, lField, lNew, handler, session>>
     \/ lPc[server] = "dead" /\ Crash

OnDestroy == mPc = "idle" /\ BeginShutdown("stop")

(* A new instance of the service. *)
OnCreate ==
  /\ mPc = "gone" /\ MayRestart
  /\ server' = server + 1 /\ mPc' = "idle"
  /\ LGoto(server + 1, "new")
  /\ UNCHANGED <<app, mThen, mVisit, mLeft, mDirty, lRunning, lSock, lField, lNew, handler, session>>

(* Mutated form: a list that has changed is not noticed. *)
MutWalkNext ==
  /\ mPc = "walk" /\ mLeft > 0
  /\ mPc' = "stopMe" /\ mLeft' = mLeft - 1
  /\ mVisit' = IF handler[server] = <<>> THEN NULL ELSE handler[server][1]
  /\ UNCHANGED <<app, server, mThen, mDirty, listener, handler, session>>

(* The iterator's next(), and stopMe on what it returns. *)
WalkNext ==
  /\ mPc = "walk" /\ mLeft > 0
  /\ LET h == handler[server][1]
     IN  IF mDirty = 1 \/ h = NULL
         THEN Crash
         ELSE /\ mPc' = "stopMe" /\ mVisit' = h /\ mLeft' = mLeft - 1
              /\ UNCHANGED <<app, server, mThen, mDirty, listener, handler, session>>

StopMe ==
  /\ mPc = "stopMe" /\ HandlerLockFree(mVisit)
  /\ hRunning' = [hRunning EXCEPT ![mVisit] = 0]
  /\ mPc' = "halt"
  /\ UNCHANGED <<app, server, mThen, mVisit, mLeft, mDirty, listener, handler, owner, hPc, tPc, link>>

(* Mutated form: the handlers are only told to stop. *)
MutHaltVisited ==
  /\ mPc = "halt" /\ HandlerLockFree(mVisit)
  /\ Unlist(server, mVisit)
  /\ mDirty' = 1 /\ mPc' = "walk"
  /\ UNCHANGED <<app, server, mThen, mVisit, mLeft, lRunning, lSock, lField, lNew, session>>

(* handle.halt() on the main thread and deleteHandler.  Without streams     *)
(* halt closes nothing.                                                     *)
HaltVisited ==
  /\ mPc = "halt" /\ HandlerLockFree(mVisit)
  /\ \/ hPc[mVisit] # "made" /\ CloseStreams(mVisit)
     \/ hPc[mVisit] \in {"made", "streams"} /\ UNCHANGED <<link, hRunning>>
  /\ Unlist(server, mVisit)
  /\ mDirty' = 1 /\ mPc' = "walk"
  /\ UNCHANGED <<app, server, mThen, mVisit, mLeft, lRunning, lSock, lField, lNew, owner, hPc, tPc>>

(* Mutated form: running stays set. *)
MutCloseServer ==
  /\ mPc = "walk" /\ mLeft = 0
  /\ lSock' = IF lField[server] = 1 THEN [lSock EXCEPT ![server] = "closed"] ELSE lSock
  /\ lField' = [lField EXCEPT ![server] = 0]
  /\ \/ /\ mThen = "start" /\ server' = server + 1 /\ mPc' = "idle"
        /\ LGoto(server + 1, "init")
     \/ mThen = "stop" /\ mPc' = "gone" /\ UNCHANGED <<server, lPc>>
  /\ mThen' = "stop" /\ mVisit' = NULL /\ mDirty' = 0
  /\ UNCHANGED <<app, mLeft, lRunning, lNew, handler, session>>

(* After the walk: running = false, the server socket is closed if there is *)
(* one yet, and the lock released; then onStart starts a new listener.      *)
CloseServer ==
  /\ mPc = "walk" /\ mLeft = 0
  /\ lRunning' = [lRunning EXCEPT ![server] = 0]
  /\ lSock' = IF lField[server] = 1 THEN [lSock EXCEPT ![server] = "closed"] ELSE lSock
  /\ lField' = [lField EXCEPT ![server] = 0]
  /\ \/ /\ mThen = "start" /\ server' = server + 1 /\ mPc' = "idle"
        /\ LGoto(server + 1, "init")
     \/ mThen = "stop" /\ mPc' = "gone" /\ UNCHANGED <<server, lPc>>
  /\ mThen' = "stop" /\ mVisit' = NULL /\ mDirty' = 0
  /\ UNCHANGED <<app, mLeft, lNew, handler, session>>

-----------------------------------------------------------------------------
ListenerStep(w) ==
  ListenerCreate(w) \/ ListenerBind(w) \/ ListenerTest(w) \/ Add(w) \/ StartHandler(w)
ReceiverStep(h) == StreamsFail(h) \/ Loop(h) \/ Deregister(h)
Shutdown == WalkNext \/ StopMe \/ HaltVisited \/ CloseServer

Next ==
  /\ app = "up"
  /\ \/ \E w \in Listener : ListenerStep(w) \/ Accept(w) \/ AcceptFails(w)
     \/ \E h \in Handler : ReceiverStep(h) \/ StreamsReady(h) \/ Receive(h) \/ ReceiveHalts(h)
          \/ TimerHalts(h) \/ TimerDeregisters(h) \/ LinkBreaks(h)
     \/ OnStart \/ OnDestroy \/ OnCreate \/ Shutdown

Spec == Init /\ [][Next]_vars

(* Every thread keeps running.  A lock is not withheld from a waiting       *)
(* thread for ever: the others who take it release it and, the keep-alive   *)
(* timer, sleep for seconds.  Nothing is assumed of clients, of the network *)
(* or of who starts and stops the service.                                  *)
Fairness ==
  /\ \A w \in Listener :
       /\ WF_vars(app = "up" /\ ListenerStep(w))
       /\ WF_vars(app = "up" /\ lSock[w] = "closed" /\ AcceptFails(w))
  /\ \A h \in Handler :
       /\ WF_vars(app = "up" /\ (StreamsFail(h) \/ Deregister(h)))
       /\ WF_vars(app = "up" /\ TimerDeregisters(h))
       /\ SF_vars(app = "up" /\ (Loop(h) \/ (link[h] # "up" /\ ReceiveHalts(h))))
  /\ SF_vars(app = "up" /\ Shutdown)

FairSpec == Spec /\ Fairness

-----------------------------------------------------------------------------
(* Properties. *)

(* Types: every entry of a list is null or an accepted connection of that   *)
(* listener, and the walk stands at one.                                    *)
TypeOK ==
  /\ app \in {"up", "crashed"}
  /\ server \in Listener
  /\ mPc \in {"idle", "walk", "stopMe", "halt", "gone"} /\ mThen \in {"start", "stop"}
  /\ mVisit \in Handler \cup {NULL} /\ mLeft \in 0..MaxHandlers /\ mDirty \in {0, 1}
  /\ mPc \in {"stopMe", "halt"} => mVisit # NULL /\ owner[mVisit] = server
  /\ lPc \in [Listener -> {"none", "new", "init", "bind", "test", "accept", "add", "start", "dead"}]
  /\ lRunning \in [Listener -> {0, 1}] /\ lField \in [Listener -> {0, 1}]
  /\ lSock \in [Listener -> {"none", "created", "bound", "closed"}]
  /\ lNew \in [Listener -> Handler \cup {NULL}]
  /\ \A w \in Listener : Listed(w) \subseteq {h \in Handler : owner[h] = w} \cup {NULL}
  /\ owner \in [Handler -> Listener \cup {NULL}]
  /\ hPc \in [Handler -> {"none", "made", "streams", "loop", "receive", "halting", "last", "done"}]
  /\ tPc \in [Handler -> {"off", "idle", "halting"}]
  /\ hRunning \in [Handler -> {0, 1}] /\ link \in [Handler -> {"up", "broken", "closed"}]

(* The main thread holds the listener's lock and waits for the handler's, a *)
(* thread of which holds that and waits for the listener's.                 *)
Deadlocked == mPc \in {"stopMe", "halt"} /\ ~HandlerLockFree(mVisit)

(* A handler whose receiver or timer calls halt leaves the listener's list, *)
(* also when closing its streams throws: halts never block each other, only *)
(* the lock order of shutdownMobileCloudServer stops them.                  *)
HaltDeregisters ==
  \A h \in Handler :
    ~HandlerLockFree(h)
      ~> (app = "crashed" \/ Deadlocked \/ \A w \in Listener : h \notin Listed(w))

(* A handler that is on the list when a shutdown begins ends, unless the    *)
(* shutdown itself does not return (the iterator's exception, the deadlock) *)
(* or the client has connected without ever sending its stream header.      *)
ShutdownEndsHandlers ==
  \A h \in Handler :
    (mPc = "walk" /\ mDirty = 0 /\ mLeft > 0 /\ h \in Listed(server))
      ~> (app = "crashed" \/ Deadlocked \/ hPc[h] \in {"streams", "done"})

(* A listener that was shut down gives its port back for good, at whichever *)
(* point of creating, binding or accepting its thread was: running, the     *)
(* closed socket and the null field stop it one way or another.             *)
OldListenerCloses ==
  \A w \in Listener :
    (w < server \/ (w = server /\ mPc = "gone"))
      ~> (app = "crashed" \/ [](lPc[w] \in {"new", "dead"} /\ lSock[w] # "bound"))
=============================================================================

-------------------------- MODULE PeerServerProofs --------------------------
(***************************************************************************)
(* Proofs about the gateway's listener, for any number of listeners and    *)
(* connections: the lists of handlers, although the accepting thread adds  *)
(* to them without the lock, hold only the listener's own connections, no  *)
(* more than were accepted, and the shutdown's walk stands at one of them. *)
(***************************************************************************)
EXTENDS PeerServer, FiniteSetTheorems, TLAPS

Owned(w) == {h \in Handler : owner[h] = w}
Adding(w) == IF lPc[w] = "add" THEN 1 ELSE 0

Types ==
  /\ app \in {"up", "crashed"} /\ server \in Listener
  /\ mPc \in {"idle", "walk", "stopMe", "halt", "gone"} /\ mThen \in {"start", "stop"}
  /\ mVisit \in Handler \cup {NULL} /\ mLeft \in 0..MaxHandlers /\ mDirty \in {0, 1}
  /\ lPc \in [Listener -> {"none", "new", "init", "bind", "test", "accept", "add", "start", "dead"}]
  /\ lRunning \in [Listener -> {0, 1}] /\ lField \in [Listener -> {0, 1}]
  /\ lSock \in [Listener -> {"none", "created", "bound", "closed"}]
  /\ lNew \in [Listener -> Handler \cup {NULL}]
  /\ owner \in [Handler -> Listener \cup {NULL}]
  /\ hPc \in [Handler -> {"none", "made", "streams", "loop", "receive", "halting", "last", "done"}]
  /\ tPc \in [Handler -> {"off", "idle", "halting"}]
  /\ hRunning \in [Handler -> {0, 1}] /\ link \in [Handler -> {"up", "broken", "closed"}]

(* A list holds nulls and connections of its listener, and is no longer     *)
(* than what was accepted and added.                                        *)
ListInv(w) ==
  /\ \A i \in 1..Len(handler[w]) : handler[w][i] \in Owned(w) \cup {NULL}
  /\ Len(handler[w]) + Adding(w) <= Cardinality(Owned(w))
  /\ lPc[w] \in {"add", "start"} => lNew[w] \in Owned(w)
ListsInv ==
  /\ handler \in [Listener -> Seq(Handler \cup {NULL})]
  /\ \A w \in Listener : ListInv(w)

(* A handler does nothing before it is accepted. *)
SessionsInv == \A h \in Handler : owner[h] = NULL => hPc[h] = "none" /\ tPc[h] = "off"

(* The walk: as long as the list is unchanged it has the elements to come.  *)
MainInv ==
  /\ mPc \in {"stopMe", "halt"} => mVisit \in Owned(server)
  /\ mPc = "walk" /\ mDirty = 0 => mLeft <= Len(handler[server])
  /\ mPc \in {"walk", "stopMe", "halt"} /\ mThen = "start" => server < MaxListeners

ServerInv == Types /\ ListsInv /\ SessionsInv /\ MainInv

-----------------------------------------------------------------------------
(* Removing one element of a sequence. *)
LEMMA RemoveAt ==
  ASSUME NEW S, NEW s \in Seq(S), NEW i \in 1..Len(s), NEW t,
         t = [k \in 1..(Len(s) - 1) |-> IF k < i THEN s[k] ELSE s[k + 1]]
  PROVE  /\ t \in Seq(S) /\ Len(t) = Len(s) - 1
         /\ \A k \in 1..Len(t) : \E j \in 1..Len(s) : t[k] = s[j]
<1>1. Len(s) \in Nat /\ \A j \in 1..Len(s) : s[j] \in S OBVIOUS
<1>2. \A k \in 1..(Len(s) - 1) : k \in 1..Len(s) /\ k + 1 \in 1..Len(s) BY <1>1
<1>3. \A k \in 1..(Len(s) - 1) : \E j \in 1..Len(s) : t[k] = s[j] BY <1>2
<1>4. t \in [1..(Len(s) - 1) -> S] BY <1>1, <1>3
<1>5. Len(s) - 1 \in Nat BY <1>1
<1>6. t \in Seq(S) /\ Len(t) = Len(s) - 1 BY <1>4, <1>5
<1> QED BY <1>3, <1>6

(* ArrayList.remove(Object). *)
LEMMA RemovedFacts ==
  ASSUME ListsInv, NEW w \in Listener, NEW h
  PROVE  /\ Removed(w, h) \in Seq(Handler \cup {NULL})
         /\ Len(Removed(w, h)) <= Len(handler[w])
         /\ h \in Listed(w) => Len(Removed(w, h)) = Len(handler[w]) - 1
         /\ \A k \in 1..Len(Removed(w, h)) : Removed(w, h)[k] \in Owned(w) \cup {NULL}
<1> DEFINE s == handler[w]
<1>0. s \in Seq(Handler \cup {NULL}) /\ Len(s) \in Nat /\ \A i \in 1..Len(s) : s[i] \in Owned(w) \cup {NULL}
  BY DEF ListsInv, ListInv
<1>1. CASE h \notin Listed(w)
  BY <1>0, <1>1 DEF Removed
<1>2. CASE h \in Listed(w)
  <2> DEFINE i == CHOOSE k \in 1..Len(s) : s[k] = h
  <2>1. i \in 1..Len(s) BY <1>2 DEF Listed
  <2>2. Removed(w, h) = [k \in 1..(Len(s) - 1) |-> IF k < i THEN s[k] ELSE s[k + 1]]
    BY <1>2 DEF Removed
  <2> HIDE DEF s, i
  <2>3. /\ Removed(w, h) \in Seq(Handler \cup {NULL}) /\ Len(Removed(w, h)) = Len(s) - 1
        /\ \A k \in 1..Len(Removed(w, h)) : \E j \in 1..Len(s) : Removed(w, h)[k] = s[j]
    BY <1>0, <2>1, <2>2, RemoveAt
  <2>4. \A k \in 1..Len(Removed(w, h)) : Removed(w, h)[k] \in Owned(w) \cup {NULL} BY <1>0, <2>3
  <2>5. Len(Removed(w, h)) <= Len(s) BY <1>0, <2>3
  <2> QED BY <2>3, <2>4, <2>5 DEF s
<1> QED BY <1>1, <1>2

(* The connections of a listener are finitely many. *)
LEMMA OwnedFinite ==
  ASSUME NEW w
  PROVE  /\ IsFiniteSet(Owned(w)) /\ Cardinality(Owned(w)) \in Nat
         /\ Cardinality(Owned(w)) <= MaxHandlers
<1>1. IsFiniteSet(Handler) /\ Cardinality(Handler) = MaxHandlers
  BY FS_Interval, PeerServerAssumption DEF Handler
<1>2. Owned(w) \subseteq Handler BY DEF Owned
<1> QED BY <1>1, <1>2, FS_Subset, FS_CardinalityType

(* Steps that leave the lists alone. *)
LEMMA SameLists ==
  ASSUME Types, ListsInv, UNCHANGED <<handler, owner, lNew>>,
         \A w \in Listener : lPc'[w] \in {"add", "start"} => lPc'[w] = lPc[w]
  PROVE  ListsInv'
<1>1. ASSUME NEW w \in Listener PROVE ListInv(w)'
  <2>1. Owned(w)' = Owned(w) BY DEF Owned
  <2>2. Adding(w)' <= Adding(w) /\ Adding(w)' \in Nat /\ Adding(w) \in Nat BY DEF Adding
  <2>3. Len(handler[w]) \in Nat BY DEF ListsInv
  <2>4. /\ \A i \in 1..Len(handler[w]) : handler[w][i] \in Owned(w) \cup {NULL}
        /\ Len(handler[w]) + Adding(w) <= Cardinality(Owned(w))
        /\ lPc[w] \in {"add", "start"} => lNew[w] \in Owned(w)
    BY DEF ListsInv, ListInv
  <2>5. Len(handler[w]) + Adding(w)' <= Cardinality(Owned(w)) BY <2>2, <2>3, <2>4, OwnedFinite
  <2> QED BY <2>1, <2>4, <2>5 DEF ListInv, NULL
<1> QED BY <1>1 DEF ListsInv, Handler, Listener, NULL

(* deleteHandler, alone or torn by the add. *)
LEMMA UnlistKeeps ==
  ASSUME Types, ListsInv, NEW w \in Listener, NEW h \in Handler, Unlist(w, h), UNCHANGED <<owner, lNew>>
  PROVE  /\ ListsInv'
         /\ lPc' \in [Listener -> {"none", "new", "init", "bind", "test", "accept", "add", "start", "dead"}]
         /\ \A v \in Listener : v # w => handler'[v] = handler[v]
<1> DEFINE r == Removed(w, h)
<1>0. /\ r \in Seq(Handler \cup {NULL}) /\ Len(r) \in Nat /\ Len(handler[w]) \in Nat
      /\ Len(r) <= Len(handler[w]) /\ (h \in Listed(w) => Len(r) = Len(handler[w]) - 1)
      /\ \A k \in 1..Len(r) : r[k] \in Owned(w) \cup {NULL}
      /\ handler \in [Listener -> Seq(Handler \cup {NULL})]
  BY RemovedFacts DEF ListsInv
<1>1. \A v : Owned(v)' = Owned(v) BY DEF Owned
<1>2. ASSUME NEW s \in Seq(Handler \cup {NULL}), handler' = [handler EXCEPT ![w] = s],
             \A k \in 1..Len(s) : s[k] \in Owned(w) \cup {NULL},
             Len(s) + Adding(w)' <= Cardinality(Owned(w)),
             lPc'[w] \in {"add", "start"} => lPc[w] \in {"add", "start"},
             \A v \in Listener : v # w => lPc'[v] = lPc[v]
      PROVE  ListsInv' /\ \A v \in Listener : v # w => handler'[v] = handler[v]
  <2>1. handler' \in [Listener -> Seq(Handler \cup {NULL})] /\ handler'[w] = s
        /\ \A v \in Listener : v # w => handler'[v] = handler[v]
    BY <1>0, <1>2
  <2>2. ListInv(w)'
    BY <1>1, <1>2, <2>1 DEF ListsInv, ListInv, NULL
  <2>3. ASSUME NEW v \in Listener, v # w PROVE ListInv(v)'
    BY <1>1, <1>2, <2>1, <2>3 DEF ListsInv, ListInv, Adding, NULL
  <2> QED BY <2>1, <2>2, <2>3 DEF ListsInv, Listener, Handler, NULL
<1>3. Len(handler[w]) + Adding(w) <= Cardinality(Owned(w)) /\ Cardinality(Owned(w)) \in Nat
  BY OwnedFinite DEF ListsInv, ListInv
<1>4. CASE handler' = [handler EXCEPT ![w] = r] /\ UNCHANGED lPc
  <2>1. Adding(w)' = Adding(w) /\ Adding(w) \in Nat BY <1>4 DEF Adding
  <2>2. Len(r) + Adding(w)' <= Cardinality(Owned(w)) BY <1>0, <1>3, <2>1
  <2> QED BY <1>0, <1>2, <1>4, <2>2 DEF Types
<1>5. CASE /\ lPc[w] = "add" /\ h \in Listed(w)
           /\ \E s \in AddRemoveTorn(w, h) : handler' = [handler EXCEPT ![w] = s]
           /\ LGoto(w, "start")
  <2>1. /\ lPc' \in [Listener -> {"none", "new", "init", "bind", "test", "accept", "add", "start", "dead"}]
        /\ lPc'[w] = "start" /\ \A v \in Listener : v # w => lPc'[v] = lPc[v]
    BY <1>5 DEF LGoto, Types
  <2>2. Adding(w)' = 0 /\ Adding(w) = 1 BY <1>5, <2>1 DEF Adding
  <2>3. CASE handler' = [handler EXCEPT ![w] = r]
    <3>1. Len(r) + Adding(w)' <= Cardinality(Owned(w)) BY <1>0, <1>3, <2>2
    <3> QED BY <1>0, <1>2, <1>5, <2>1, <2>3, <3>1
  <2>4. CASE handler' = [handler EXCEPT ![w] = Append(Append(r, NULL), lNew[w])]
    <3> DEFINE s == Append(Append(r, NULL), lNew[w])
    <3>1. lNew[w] \in Owned(w) /\ Owned(w) \subseteq Handler BY <1>5 DEF ListsInv, ListInv, Owned
    <3>2. Append(r, NULL) \in Seq(Handler \cup {NULL}) /\ Len(Append(r, NULL)) = Len(r) + 1
      BY <1>0
    <3>3. s \in Seq(Handler \cup {NULL}) /\ Len(s) = Len(r) + 2 BY <1>0, <3>1, <3>2
    <3>4. \A k \in 1..Len(s) : s[k] \in Owned(w) \cup {NULL} BY <1>0, <3>1, <3>2, <3>3
    <3>5. Len(s) + Adding(w)' <= Cardinality(Owned(w)) BY <1>0, <1>3, <1>5, <2>2, <3>3
    <3> HIDE DEF s
    <3> QED BY <1>2, <1>5, <2>1, <2>4, <3>3, <3>4, <3>5 DEF s
  <2> QED BY <1>5, <2>1, <2>3, <2>4 DEF AddRemoveTorn
<1> QED BY <1>4, <1>5 DEF Unlist

-----------------------------------------------------------------------------
(* The accepting thread. *)
LEMMA ListenerKeeps ==
  ASSUME ServerInv, NEW w \in Listener, ListenerStep(w) \/ Accept(w) \/ AcceptFails(w)
  PROVE  ServerInv'
<1> USE DEF main, listener, session, LGoto
<1>0. Types /\ ListsInv /\ SessionsInv /\ MainInv BY DEF ServerInv
<1>1. CASE ListenerCreate(w) \/ ListenerBind(w) \/ ListenerTest(w) \/ AcceptFails(w)
  <2>1. /\ UNCHANGED <<app, main, lRunning, lNew, handler, session>>
        /\ \E l \in {"bind", "test", "accept", "dead"} : lPc' = [lPc EXCEPT ![w] = l]
        /\ lSock' = lSock \/ \E x \in {"created", "bound", "closed"} : lSock' = [lSock EXCEPT ![w] = x]
        /\ lField' = lField \/ lField' = [lField EXCEPT ![w] = 1]
    BY <1>1 DEF ListenerCreate, ListenerBind, ListenerTest, AcceptFails
  <2>2. Types' BY <1>0, <2>1 DEF Types, Listener, Handler, NULL
  <2>3. ListsInv'
    <3>1. \A v \in Listener : lPc'[v] \in {"add", "start"} => lPc'[v] = lPc[v]
      BY <1>0, <2>1 DEF Types
    <3> QED BY <1>0, <2>1, <3>1, SameLists
  <2>4. SessionsInv' /\ MainInv'
    BY <1>0, <2>1 DEF SessionsInv, MainInv, Owned, NULL
  <2> QED BY <2>2, <2>3, <2>4 DEF ServerInv
<1>2. CASE Accept(w)
  <2>1. PICK h \in Handler : /\ owner[h] = NULL /\ owner' = [owner EXCEPT ![h] = w]
                             /\ hPc' = [hPc EXCEPT ![h] = "made"] /\ lNew' = [lNew EXCEPT ![w] = h]
    BY <1>2 DEF Accept, MayConnect
  <2>2. /\ lPc[w] = "accept" /\ lPc' = [lPc EXCEPT ![w] = "add"]
        /\ UNCHANGED <<app, main, lRunning, lSock, lField, handler, tPc, hRunning, link>>
    BY <1>2 DEF Accept
  <2>3. Types' BY <1>0, <2>1, <2>2 DEF Types, Listener, Handler, NULL
  <2>4. /\ owner'[h] = w /\ \A g \in Handler : g # h => owner'[g] = owner[g]
        /\ hPc'[h] = "made" /\ \A g \in Handler : g # h => hPc'[g] = hPc[g]
        /\ lNew'[w] = h /\ \A v \in Listener : v # w => lNew'[v] = lNew[v]
        /\ lPc'[w] = "add" /\ \A v \in Listener : v # w => lPc'[v] = lPc[v]
    BY <1>0, <2>1, <2>2 DEF Types
  <2>5. NULL \notin Listener BY DEF NULL, Listener
  <2>6. /\ Owned(w)' = Owned(w) \cup {h} /\ h \notin Owned(w)
        /\ \A v \in Listener : v # w => Owned(v)' = Owned(v)
    BY <2>1, <2>4, <2>5 DEF Owned
  <2>7. ListInv(w)'
    <3>1. Cardinality(Owned(w) \cup {h}) = Cardinality(Owned(w)) + 1 /\ Cardinality(Owned(w)) \in Nat
      BY <2>6, OwnedFinite, FS_AddElement
    <3>2. Adding(w)' = 1 /\ Adding(w) = 0 BY <2>2, <2>4 DEF Adding
    <3>3. Len(handler[w]) + Adding(w) <= Cardinality(Owned(w)) /\ Len(handler[w]) \in Nat
      BY <1>0 DEF ListsInv, ListInv
    <3>4. Len(handler[w]) + Adding(w)' <= Cardinality(Owned(w)') BY <2>6, <3>1, <3>2, <3>3
    <3>5. \A i \in 1..Len(handler[w]) : handler[w][i] \in Owned(w)' \cup {NULL}
      BY <1>0, <2>6 DEF ListsInv, ListInv
    <3> QED BY <2>2, <2>4, <2>6, <3>4, <3>5 DEF ListInv, NULL
  <2>8. ASSUME NEW v \in Listener, v # w PROVE ListInv(v)'
    BY <1>0, <2>2, <2>4, <2>6, <2>8 DEF ListsInv, ListInv, Adding, NULL
  <2>9. ListsInv'
    BY <1>0, <2>2, <2>7, <2>8 DEF ListsInv, Listener, Handler, NULL
  <2>10. SessionsInv' BY <1>0, <2>2, <2>4, <2>5 DEF SessionsInv, NULL
  <2>11. MainInv'
    <3>1. server \in Listener BY <1>0 DEF Types
    <3>2. \A g \in Owned(server) : g \in Owned(server)'
      <4>1. CASE server = w BY <2>2, <2>6, <4>1 DEF Owned
      <4>2. CASE server # w BY <2>2, <2>6, <3>1, <4>2 DEF Owned
      <4> QED BY <4>1, <4>2
    <3> QED BY <1>0, <2>2, <3>2 DEF MainInv
  <2> QED BY <2>3, <2>9, <2>10, <2>11 DEF ServerInv
<1>3. CASE Add(w)
  <2> DEFINE s == Append(handler[w], lNew[w])
  <2>1. /\ lPc[w] = "add" /\ lPc' = [lPc EXCEPT ![w] = "start"] /\ handler' = [handler EXCEPT ![w] = s]
        /\ mDirty' = (IF ListenerLockFree(w) THEN mDirty ELSE 1)
        /\ UNCHANGED <<app, server, mPc, mThen, mVisit, mLeft, lRunning, lSock, lField, lNew, session>>
    BY <1>3 DEF Add
  <2>2. Types' BY <1>0, <2>1 DEF Types, Listener, Handler, NULL
  <2>3. /\ lPc'[w] = "start" /\ \A v \in Listener : v # w => lPc'[v] = lPc[v]
    BY <1>0, <2>1 DEF Types
  <2>4. \A v : Owned(v)' = Owned(v) BY <2>1 DEF Owned
  <2>5. /\ handler[w] \in Seq(Handler \cup {NULL}) /\ lNew[w] \in Owned(w) /\ Len(handler[w]) \in Nat
        /\ Len(handler[w]) + Adding(w) <= Cardinality(Owned(w))
        /\ \A i \in 1..Len(handler[w]) : handler[w][i] \in Owned(w) \cup {NULL}
    BY <1>0, <2>1 DEF ListsInv, ListInv
  <2>6. /\ s \in Seq(Handler \cup {NULL}) /\ Len(s) = Len(handler[w]) + 1
        /\ \A i \in 1..Len(s) : s[i] \in Owned(w) \cup {NULL}
    BY <2>5 DEF Owned
  <2>7. handler' \in [Listener -> Seq(Handler \cup {NULL})] /\ handler'[w] = s
        /\ \A v \in Listener : v # w => handler'[v] = handler[v]
    BY <1>0, <2>1, <2>6 DEF ListsInv
  <2>8. Adding(w)' = 0 /\ Adding(w) = 1 BY <2>1, <2>3 DEF Adding
  <2>9. Len(s) + Adding(w)' <= Cardinality(Owned(w)) BY <2>5, <2>6, <2>8, OwnedFinite
  <2> HIDE DEF s
  <2>10. ListInv(w)' BY <2>1, <2>4, <2>5, <2>6, <2>7, <2>9 DEF ListInv, NULL
  <2>11. ASSUME NEW v \in Listener, v # w PROVE ListInv(v)'
    BY <1>0, <2>1, <2>3, <2>4, <2>7, <2>11 DEF ListsInv, ListInv, Adding, NULL
  <2>12. ListsInv' BY <2>7, <2>10, <2>11 DEF ListsInv, Listener, Handler, NULL
  <2>13. SessionsInv' BY <1>0, <2>1 DEF SessionsInv, NULL
  <2>14. MainInv'
    <3>1. server \in Listener BY <1>0 DEF Types
    <3>2. mPc = "walk" /\ mDirty' = 0 => mDirty = 0 /\ server # w
      BY <2>1 DEF ListenerLockFree
    <3> QED BY <1>0, <2>1, <2>4, <2>7, <3>1, <3>2 DEF MainInv
  <2> QED BY <2>2, <2>12, <2>13, <2>14 DEF ServerInv
<1>4. CASE StartHandler(w)
  <2>1. /\ lPc[w] = "start" /\ lPc' = [lPc EXCEPT ![w] = "test"] /\ lNew' = [lNew EXCEPT ![w] = NULL]
        /\ hPc' = [hPc EXCEPT ![lNew[w]] = "streams"]
        /\ UNCHANGED <<app, main, lRunning, lSock, lField, handler, owner, tPc, hRunning, link>>
    BY <1>4 DEF StartHandler
  <2>2. lNew[w] \in Handler /\ owner[lNew[w]] = w BY <1>0, <2>1 DEF ListsInv, ListInv, Owned
  <2>3. Types' BY <1>0, <2>1, <2>2 DEF Types, Listener, Handler, NULL
  <2>4. /\ lPc'[w] = "test" /\ \A v \in Listener : v # w => lPc'[v] = lPc[v] /\ lNew'[v] = lNew[v]
    BY <1>0, <2>1 DEF Types
  <2>5. \A v : Owned(v)' = Owned(v) BY <2>1 DEF Owned
  <2>6. ASSUME NEW v \in Listener PROVE ListInv(v)'
    <3>1. Adding(v)' = Adding(v) BY <2>1, <2>4 DEF Adding
    <3> QED BY <1>0, <2>1, <2>4, <2>5, <3>1 DEF ListsInv, ListInv, NULL
  <2>7. ListsInv' BY <1>0, <2>1, <2>6 DEF ListsInv, Listener, Handler, NULL
  <2>8. SessionsInv'
    <3>1. w # NULL BY DEF Listener, NULL
    <3> QED BY <1>0, <2>1, <2>2, <3>1 DEF SessionsInv, Types, NULL
  <2>9. MainInv' BY <1>0, <2>1, <2>5 DEF MainInv
  <2> QED BY <2>3, <2>7, <2>8, <2>9 DEF ServerInv
<1> QED BY <1>1, <1>2, <1>3, <1>4 DEF ListenerStep

-----------------------------------------------------------------------------
(* The handlers' threads. *)
LEMMA HandlerKeeps ==
  ASSUME ServerInv, NEW h \in Handler,
         \/ ReceiverStep(h) \/ StreamsReady(h) \/ Receive(h) \/ ReceiveHalts(h)
         \/ TimerHalts(h) \/ TimerDeregisters(h) \/ LinkBreaks(h)
  PROVE  ServerInv'
<1> USE DEF main, listener, session, HGoto
<1>0. Types /\ ListsInv /\ SessionsInv /\ MainInv BY DEF ServerInv
<1>1. CASE \/ StreamsFail(h) \/ Loop(h) \/ StreamsReady(h) \/ Receive(h) \/ ReceiveHalts(h)
           \/ TimerHalts(h) \/ LinkBreaks(h)
  <2>1. /\ UNCHANGED <<app, main, listener, handler, owner>> /\ owner[h] # NULL
        /\ hPc' = hPc \/ \E l \in {"loop", "receive", "halting", "last"} : hPc' = [hPc EXCEPT ![h] = l]
        /\ tPc' = tPc \/ \E l \in {"idle", "halting"} : tPc' = [tPc EXCEPT ![h] = l]
        /\ link' = link \/ \E l \in {"broken", "closed"} : link' = [link EXCEPT ![h] = l]
        /\ hRunning' = hRunning \/ hRunning' = [hRunning EXCEPT ![h] = 0]
    BY <1>0, <1>1 DEF StreamsFail, Loop, StreamsReady, Receive, ReceiveHalts, TimerHalts, LinkBreaks,
       CloseStreams, SessionsInv
  <2>2. Types'
    <3>1. hPc' \in [Handler -> {"none", "made", "streams", "loop", "receive", "halting", "last", "done"}]
      BY <1>0, <2>1 DEF Types
    <3>2. tPc' \in [Handler -> {"off", "idle", "halting"}] BY <1>0, <2>1 DEF Types
    <3>3. link' \in [Handler -> {"up", "broken", "closed"}] BY <1>0, <2>1 DEF Types
    <3>4. hRunning' \in [Handler -> {0, 1}] BY <1>0, <2>1 DEF Types
    <3> QED BY <1>0, <2>1, <3>1, <3>2, <3>3, <3>4 DEF Types, Listener, Handler, NULL
  <2>3. ListsInv' BY <1>0, <2>1, SameLists
  <2>4. SessionsInv' BY <1>0, <2>1 DEF SessionsInv, Types, NULL
  <2>5. MainInv' BY <1>0, <2>1 DEF MainInv, Owned
  <2> QED BY <2>2, <2>3, <2>4, <2>5 DEF ServerInv
<1>2. CASE Deregister(h) \/ TimerDeregisters(h)
  <2>1. /\ owner[h] # NULL /\ ListenerLockFree(owner[h]) /\ Unlist(owner[h], h)
        /\ UNCHANGED <<app, main, lRunning, lSock, lField, lNew, owner, hRunning, link>>
        /\ hPc' = hPc \/ \E l \in {"loop", "done"} : hPc' = [hPc EXCEPT ![h] = l]
        /\ tPc' = tPc \/ \E l \in {"off", "idle"} : tPc' = [tPc EXCEPT ![h] = l]
    BY <1>0, <1>2 DEF Deregister, TimerDeregisters, SessionsInv
  <2>2. owner[h] \in Listener BY <1>0, <2>1 DEF Types
  <2>3. /\ ListsInv'
        /\ lPc' \in [Listener -> {"none", "new", "init", "bind", "test", "accept", "add", "start", "dead"}]
        /\ \A v \in Listener : v # owner[h] => handler'[v] = handler[v]
    BY <1>0, <2>1, <2>2, UnlistKeeps
  <2>4. Types'
    <3>1. hPc' \in [Handler -> {"none", "made", "streams", "loop", "receive", "halting", "last", "done"}]
      BY <1>0, <2>1 DEF Types
    <3>2. tPc' \in [Handler -> {"off", "idle", "halting"}] BY <1>0, <2>1 DEF Types
    <3> QED BY <1>0, <2>1, <2>3, <3>1, <3>2 DEF Types, Listener, Handler, NULL
  <2>5. SessionsInv' BY <1>0, <2>1 DEF SessionsInv, Types, NULL
  <2>6. MainInv'
    <3>1. mPc = "walk" => handler'[server] = handler[server]
      BY <1>0, <2>1, <2>3 DEF ListenerLockFree, Types
    <3> QED BY <1>0, <2>1, <3>1 DEF MainInv, Owned
  <2> QED BY <2>3, <2>4, <2>5, <2>6 DEF ServerInv
<1> QED BY <1>1, <1>2 DEF ReceiverStep

-----------------------------------------------------------------------------
(* The main thread. *)
LEMMA MainKeeps ==
  ASSUME ServerInv, OnStart \/ OnDestroy \/ OnCreate \/ Shutdown
  PROVE  ServerInv'
<1> USE DEF main, listener, session, LGoto
<1>0. Types /\ ListsInv /\ SessionsInv /\ MainInv BY DEF ServerInv
<1>1. CASE Crash
  <2>1. app' = "crashed" /\ UNCHANGED <<main, listener, handler, session>> BY <1>1 DEF Crash
  <2>2. Types' BY <1>0, <2>1 DEF Types, Listener, Handler, NULL
  <2>3. ListsInv' BY <1>0, <2>1, SameLists
  <2>4. SessionsInv' /\ MainInv' BY <1>0, <2>1 DEF SessionsInv, MainInv, Owned, NULL
  <2> QED BY <2>2, <2>3, <2>4 DEF ServerInv
<1>2. ASSUME NEW then \in {"start", "stop"}, BeginShutdown(then), then = "start" => server < MaxListeners
      PROVE  ServerInv'
  <2>1. /\ mPc' = "walk" /\ mThen' = then /\ mLeft' = Len(handler[server]) /\ mDirty' = 0
        /\ UNCHANGED <<app, server, mVisit, listener, handler, session>>
    BY <1>2 DEF BeginShutdown
  <2>2. Len(handler[server]) \in 0..MaxHandlers
    <3>1. /\ Len(handler[server]) \in Nat /\ Adding(server) \in Nat
          /\ Len(handler[server]) + Adding(server) <= Cardinality(Owned(server))
      BY <1>0 DEF Types, ListsInv, ListInv, Adding
    <3> QED BY <3>1, OwnedFinite, PeerServerAssumption
  <2>3. Types' BY <1>0, <2>1, <2>2 DEF Types, Listener, Handler, NULL
  <2>4. ListsInv' BY <1>0, <2>1, SameLists
  <2>5. SessionsInv' BY <1>0, <2>1 DEF SessionsInv, NULL
  <2>6. MainInv' BY <1>0, <1>2, <2>1, <2>2 DEF MainInv
  <2> QED BY <2>3, <2>4, <2>5, <2>6 DEF ServerInv
<1>3. CASE OnStart
  <2>1. CASE lPc[server] = "new" /\ LGoto(server, "init")
             /\ UNCHANGED <<app, main, lRunning, lSock, lField, lNew, handler, session>>
    <3>1. server \in Listener BY <1>0 DEF Types
    <3>2. Types' BY <1>0, <2>1, <3>1 DEF Types, Listener, Handler, NULL
    <3>3. \A v \in Listener : lPc'[v] \in {"add", "start"} => lPc'[v] = lPc[v] BY <1>0, <2>1 DEF Types
    <3>4. ListsInv' BY <1>0, <2>1, <3>3, SameLists
    <3>5. SessionsInv' /\ MainInv' BY <1>0, <2>1 DEF SessionsInv, MainInv, Owned, NULL
    <3> QED BY <3>2, <3>4, <3>5 DEF ServerInv
  <2> QED BY <1>1, <1>2, <1>3, <2>1 DEF OnStart, MayRestart
<1>4. CASE OnDestroy
  BY <1>2, <1>4 DEF OnDestroy
<1>5. CASE OnCreate
  <2>1. /\ server' = server + 1 /\ mPc' = "idle" /\ lPc' = [lPc EXCEPT ![server + 1] = "new"]
        /\ UNCHANGED <<app, mThen, mVisit, mLeft, mDirty, lRunning, lSock, lField, lNew, handler, session>>
        /\ server < MaxListeners
    BY <1>5 DEF OnCreate, MayRestart
  <2>2. server + 1 \in Listener BY <1>0, <2>1, PeerServerAssumption DEF Types, Listener
  <2>3. Types' BY <1>0, <2>1, <2>2 DEF Types, Handler, NULL
  <2>4. \A v \in Listener : lPc'[v] \in {"add", "start"} => lPc'[v] = lPc[v] BY <1>0, <2>1 DEF Types
  <2>5. ListsInv' BY <1>0, <2>1, <2>4, SameLists
  <2>6. SessionsInv' /\ MainInv' BY <1>0, <2>1 DEF SessionsInv, MainInv, NULL
  <2> QED BY <2>3, <2>5, <2>6 DEF ServerInv
<1>6. CASE WalkNext /\ ~Crash
  <2>1. /\ mPc = "walk" /\ mLeft > 0 /\ mDirty # 1 /\ handler[server][1] # NULL
        /\ mPc' = "stopMe" /\ mVisit' = handler[server][1] /\ mLeft' = mLeft - 1
        /\ UNCHANGED <<app, server, mThen, mDirty, listener, handler, session>>
    BY <1>6 DEF WalkNext
  <2>2. handler[server][1] \in Owned(server)
    <3>1. mDirty = 0 /\ mLeft <= Len(handler[server]) /\ mLeft \in Nat /\ server \in Listener
      BY <1>0, <2>1 DEF Types, MainInv
    <3>2. Len(handler[server]) \in Nat BY <1>0, <3>1 DEF ListsInv
    <3>3. 1 \in 1..Len(handler[server]) BY <2>1, <3>1, <3>2
    <3> QED BY <1>0, <2>1, <3>1, <3>3 DEF ListsInv, ListInv
  <2>3. Types'
    <3>1. mVisit' \in Handler BY <2>1, <2>2 DEF Owned
    <3>2. mLeft' \in 0..MaxHandlers BY <1>0, <2>1, PeerServerAssumption DEF Types
    <3> QED BY <1>0, <2>1, <3>1, <3>2 DEF Types, Listener, Handler, NULL
  <2>4. ListsInv' BY <1>0, <2>1, SameLists
  <2>5. SessionsInv' BY <1>0, <2>1 DEF SessionsInv, NULL
  <2>6. MainInv'
    <3>1. mVisit' \in Owned(server)' BY <2>1, <2>2 DEF Owned
    <3> QED BY <1>0, <2>1, <3>1 DEF MainInv
  <2> QED BY <2>3, <2>4, <2>5, <2>6 DEF ServerInv
<1>7. CASE StopMe
  <2>1. /\ mPc = "stopMe" /\ mPc' = "halt" /\ hRunning' = [hRunning EXCEPT ![mVisit] = 0]
        /\ UNCHANGED <<app, server, mThen, mVisit, mLeft, mDirty, listener, handler, owner, hPc, tPc, link>>
    BY <1>7 DEF StopMe
  <2>2. Types' BY <1>0, <2>1 DEF Types, Listener, Handler, NULL
  <2>3. ListsInv' BY <1>0, <2>1, SameLists
  <2>4. SessionsInv' /\ MainInv' BY <1>0, <2>1 DEF SessionsInv, MainInv, Owned, NULL
  <2> QED BY <2>2, <2>3, <2>4 DEF ServerInv
<1>8. CASE HaltVisited
  <2>1. /\ mPc = "halt" /\ mPc' = "walk" /\ mDirty' = 1 /\ Unlist(server, mVisit)
        /\ UNCHANGED <<app, server, mThen, mVisit, mLeft, lRunning, lSock, lField, lNew, owner, hPc, tPc>>
        /\ link' = link \/ link' = [link EXCEPT ![mVisit] = "closed"]
        /\ hRunning' = hRunning \/ hRunning' = [hRunning EXCEPT ![mVisit] = 0]
    BY <1>8 DEF HaltVisited, CloseStreams
  <2>2. mVisit \in Handler /\ server \in Listener BY <1>0, <2>1 DEF MainInv, Owned, Types
  <2>3. /\ ListsInv'
        /\ lPc' \in [Listener -> {"none", "new", "init", "bind", "test", "accept", "add", "start", "dead"}]
    BY <1>0, <2>1, <2>2, UnlistKeeps
  <2>4. Types'
    <3>1. link' \in [Handler -> {"up", "broken", "closed"}] BY <1>0, <2>1 DEF Types
    <3>2. hRunning' \in [Handler -> {0, 1}] BY <1>0, <2>1 DEF Types
    <3> QED BY <1>0, <2>1, <2>3, <3>1, <3>2 DEF Types, Listener, Handler, NULL
  <2>5. SessionsInv' /\ MainInv' BY <1>0, <2>1 DEF SessionsInv, MainInv, NULL
  <2> QED BY <2>3, <2>4, <2>5 DEF ServerInv
<1>9. CASE CloseServer
  <2>1. /\ mPc = "walk" /\ lRunning' = [lRunning EXCEPT ![server] = 0]
        /\ lSock' = lSock \/ lSock' = [lSock EXCEPT ![server] = "closed"]
        /\ lField' = [lField EXCEPT ![server] = 0]
        /\ mThen' = "stop" /\ mVisit' = NULL /\ mDirty' = 0
        /\ UNCHANGED <<app, mLeft, lNew, handler, session>>
    BY <1>9 DEF CloseServer
  <2>2. /\ server' \in Listener /\ mPc' \in {"idle", "gone"}
        /\ lPc' = lPc \/ \E v \in Listener : lPc' = [lPc EXCEPT ![v] = "init"]
    <3>1. CASE mThen = "start" /\ server' = server + 1 /\ mPc' = "idle" /\ LGoto(server + 1, "init")
      <4>1. server < MaxListeners BY <1>0, <2>1, <3>1 DEF MainInv
      <4>2. server + 1 \in Listener BY <1>0, <4>1, PeerServerAssumption DEF Types, Listener
      <4> QED BY <3>1, <4>2
    <3>2. CASE mThen = "stop" /\ mPc' = "gone" /\ UNCHANGED <<server, lPc>>
      BY <1>0, <3>2 DEF Types
    <3> QED BY <1>9, <3>1, <3>2 DEF CloseServer
  <2>3. lPc' \in [Listener -> {"none", "new", "init", "bind", "test", "accept", "add", "start", "dead"}]
    BY <1>0, <2>2 DEF Types
  <2>4. Types' BY <1>0, <2>1, <2>2, <2>3 DEF Types, Handler, NULL
  <2>5. \A v \in Listener : lPc'[v] \in {"add", "start"} => lPc'[v] = lPc[v] BY <1>0, <2>2 DEF Types
  <2>6. ListsInv' BY <1>0, <2>1, <2>5, SameLists
  <2>7. SessionsInv' /\ MainInv' BY <1>0, <2>1, <2>2 DEF SessionsInv, MainInv, NULL
  <2> QED BY <2>4, <2>6, <2>7 DEF ServerInv
<1> QED BY <1>1, <1>3, <1>4, <1>5, <1>6, <1>7, <1>8, <1>9 DEF Shutdown

(* Every entry of a list is null or a connection of that listener, however  *)
(* the unlocked add meets the removals, and the shutdown's walk stands at   *)
(* one (add, deleteHandler, shutdownMobileCloudServer).                     *)
THEOREM ListenerTypes == Spec => []TypeOK
<1>1. Init => ServerInv
  <2> SUFFICES ASSUME Init PROVE ServerInv OBVIOUS
  <2>1. Types BY PeerServerAssumption DEF Init, Types, Listener, NULL
  <2>2. \A w \in Listener : handler[w] = <<>> /\ lPc[w] \in {"none", "new"} BY DEF Init
  <2>3. ASSUME NEW w \in Listener PROVE ListInv(w)
    <3>1. Len(handler[w]) = 0 /\ Adding(w) = 0 BY <2>2 DEF Adding
    <3> QED BY <2>2, <3>1, OwnedFinite DEF ListInv
  <2>4. ListsInv BY <2>3 DEF ListsInv, Init
  <2>5. SessionsInv /\ MainInv BY DEF Init, SessionsInv, MainInv
  <2> QED BY <2>1, <2>4, <2>5 DEF ServerInv
<1>2. ServerInv /\ [Next]_vars => ServerInv'
  <2> SUFFICES ASSUME ServerInv, [Next]_vars PROVE ServerInv' OBVIOUS
  <2>1. CASE UNCHANGED vars
    <3>1. UNCHANGED <<app, main, listener, handler, session>> BY <2>1 DEF vars
    <3>2. Types' BY <3>1 DEF ServerInv, Types, main, listener, session, Listener, Handler, NULL
    <3>3. ListsInv' BY <3>1, SameLists DEF ServerInv, listener, session
    <3>4. SessionsInv' /\ MainInv'
      BY <3>1 DEF ServerInv, SessionsInv, MainInv, Owned, main, listener, session, NULL
    <3> QED BY <3>2, <3>3, <3>4 DEF ServerInv
  <2> QED BY <2>1, ListenerKeeps, HandlerKeeps, MainKeeps DEF Next
<1>3. ServerInv => TypeOK
  <2> SUFFICES ASSUME ServerInv PROVE TypeOK OBVIOUS
  <2>1. \A w \in Listener : Listed(w) \subseteq {h \in Handler : owner[h] = w} \cup {NULL}
    <3>1. ASSUME NEW w \in Listener, NEW h \in Listed(w) PROVE h \in Owned(w) \cup {NULL}
      <4>1. PICK i \in 1..Len(handler[w]) : h = handler[w][i] BY <3>1 DEF Listed
      <4> QED BY <4>1 DEF ServerInv, ListsInv, ListInv
    <3> QED BY <3>1 DEF Owned
  <2>2. mPc \in {"stopMe", "halt"} => mVisit # NULL /\ owner[mVisit] = server
    BY DEF ServerInv, MainInv, Owned, Handler, NULL
  <2> QED BY <2>1, <2>2 DEF ServerInv, Types, TypeOK
<1> QED BY <1>1, <1>2, <1>3, PTL DEF Spec
=============================================================================

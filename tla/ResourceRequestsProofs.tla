----------------------- MODULE ResourceRequestsProofs -----------------------
(***************************************************************************)
(* The client asks before it releases and forgets no packet, for any       *)
(* number of packets and any destinations, although two threads change its *)
(* lists without a lock.                                                   *)
(***************************************************************************)
EXTENDS ResourceRequests, WellFoundedInduction, TLAPS

(* What the code knows of packet i's destination: a request for it was     *)
(* sent, is being sent, or failed and ended the session.                   *)
Asked(i) ==
  packets[i] \in Remote =>
    ipqserver = "killed" \/ \E j \in sent \cup Asking : packets[j] = packets[i]

(* Every packet in a list, released, or about to be, is of that kind. *)
ListsAsked ==
  \A i \in released \cup Members(pending) \cup Members(history) : i # Null => Asked(i)

Holding == {"keep", "forget", "ids", "write"}

HandsAsked == \A t \in Thread : \A i \in Id : pc[t] \in Holding /\ cur[t] = i => Asked(i)

(* A thread that makes an entry or writes a verdict has a packet. *)
Entering == {"test", "history", "pending", "add", "send"}

HandsFull ==
  /\ pc["worker"] \in Entering => cur["worker"] # Null
  /\ \A t \in Thread : /\ pc[t] = "write" => cur[t] # Null
                       /\ pc[t] \in {"find", "look", "get"} => idx[t] # 0

(* The workspace is first in, first out: it holds the last packets, and     *)
(* pendingIds only those taken before the one the worker tests.             *)
Taken == Len(packets) - Len(workspace)

InOrder ==
  /\ Len(workspace) <= Len(packets)
  /\ \A k \in 1..Len(workspace) : workspace[k] = Taken + k
  /\ pc["worker"] = "test" => cur["worker"] = Taken
  /\ \A i \in pendingIds : i <= Taken /\ (pc["worker"] = "test" => i < Taken)

IInv == HandsFull /\ ListsAsked /\ HandsAsked /\ InOrder

-----------------------------------------------------------------------------
(* Lists. *)

(* Without drops one element: the rest keep their type and nothing is new. *)
LEMMA WithoutType ==
  ASSUME NEW S, NEW s \in Seq(S), NEW i \in 1..Len(s)
  PROVE  Without(s, i) \in Seq(S) /\ Members(Without(s, i)) \subseteq Members(s)
<1> DEFINE r == Without(s, i)
<1>1. r = [j \in 1..(Len(s) - 1) |-> IF j < i THEN s[j] ELSE s[j + 1]]
  BY DEF Without
<1>2. \A j \in 1..(Len(s) - 1) : r[j] \in S /\ r[j] \in Members(s)
  BY <1>1 DEF Members
<1>3. Len(s) - 1 \in Nat
  OBVIOUS
<1>4. r \in Seq(S) /\ Len(r) = Len(s) - 1
  BY <1>1, <1>2, <1>3
<1>5. Members(r) \subseteq Members(s)
  BY <1>2, <1>4 DEF Members
<1> QED
  BY <1>4, <1>5

(* list.remove drops the element at a place where it is, if it is there. *)
LEMMA RemovedAt ==
  ASSUME NEW S, NEW s \in Seq(S), NEW e \in Members(s)
  PROVE  \E k \in 1..Len(s) : s[k] = e /\ Removed(s, e) = Without(s, k)
<1> DEFINE Q(i) == s[i] = e /\ \A j \in 1..(i - 1) : s[j] # e
<1>1. PICK k \in 1..Len(s) : s[k] = e
  BY DEF Members
<1>2. \E i \in 1..Len(s) : Q(i)
  <2> DEFINE T == {i \in 1..Len(s) : s[i] = e}
             R == OpToRel(<, Nat)
  <2>1. T \subseteq Nat /\ T # {}
    BY <1>1
  <2>2. PICK i \in T : \A j \in T : ~(<<j, i>> \in R)
    <3> HIDE DEF T, R
    <3> QED
      BY <2>1, NatLessThanWellFounded, WFMin DEF R
  <2>3. ASSUME NEW a \in Nat, NEW b \in Nat, a < b PROVE <<a, b>> \in R
    BY <2>3 DEF OpToRel
  <2>4. \A j \in T : ~(j < i)
    <3> HIDE DEF T, R
    <3> QED
      BY <2>1, <2>2, <2>3
  <2> QED
    BY <2>4
<1> DEFINE c == CHOOSE i \in 1..Len(s) : Q(i)
<1>3. c \in 1..Len(s) /\ Q(c)
  BY <1>2
<1>4. Removed(s, e) = Without(s, c)
  BY DEF Removed
<1> QED
  BY <1>3, <1>4

(* The same of list.remove. *)
LEMMA RemovedType ==
  ASSUME NEW S, NEW s \in Seq(S), NEW e
  PROVE  Removed(s, e) \in Seq(S) /\ Members(Removed(s, e)) \subseteq Members(s)
<1>1. CASE e \in Members(s)
  BY <1>1, RemovedAt, WithoutType
<1>2. CASE e \notin Members(s)
  BY <1>2 DEF Removed
<1> QED
  BY <1>1, <1>2

(* Append adds its element and nothing else. *)
LEMMA AppendMembers ==
  ASSUME NEW S, NEW s \in Seq(S), NEW e \in S
  PROVE  Append(s, e) \in Seq(S) /\ Members(Append(s, e)) \subseteq Members(s) \cup {e}
BY DEF Members

(* Writing one place of a sequence keeps its type and length. *)
LEMMA SetType ==
  ASSUME NEW S, NEW q \in Seq(S), NEW i, NEW e \in S
  PROVE  [q EXCEPT ![i] = e] \in Seq(S) /\ Len([q EXCEPT ![i] = e]) = Len(q)
<1> DEFINE r == [q EXCEPT ![i] = e]
<1>1. Len(q) \in Nat /\ q \in [1..Len(q) -> S]
  OBVIOUS
<1>2. r \in [1..Len(q) -> S]
  BY <1>1
<1> QED
  BY <1>1, <1>2

(* A null in the last place adds nothing but the null. *)
LEMMA NullMembers ==
  ASSUME NEW S, Null \in S, NEW q \in Seq(S), q # <<>>
  PROVE  /\ [q EXCEPT ![Len(q)] = Null] \in Seq(S)
         /\ Members([q EXCEPT ![Len(q)] = Null]) \subseteq Members(q) \cup {Null}
<1> DEFINE r == [q EXCEPT ![Len(q)] = Null]
<1>1. r = [j \in 1..Len(q) |-> IF j = Len(q) THEN Null ELSE q[j]]
  OBVIOUS
<1>2. \A j \in 1..Len(q) : r[j] \in S /\ r[j] \in Members(q) \cup {Null}
  <2> SUFFICES ASSUME NEW j \in 1..Len(q) PROVE r[j] \in S /\ r[j] \in Members(q) \cup {Null}
    OBVIOUS
  <2>1. q[j] \in S /\ q[j] \in Members(q)
    BY DEF Members
  <2>2. r[j] = Null \/ r[j] = q[j]
    BY <1>1
  <2> QED
    BY <2>1, <2>2
<1>3. r \in Seq(S) /\ Len(r) = Len(q)
  <2> HIDE DEF r
  <2>1. Len(q) \in Nat
    OBVIOUS
  <2>2. r \in [1..Len(q) -> S]
    BY <1>1, <1>2
  <2> QED
    BY <2>1, <2>2
<1> QED
  BY <1>2, <1>3 DEF Members

(* A torn list holds elements it held before, the added one and nulls. *)
LEMMA TornMembers ==
  ASSUME NEW S, Null \in S, NEW s \in Seq(S), NEW e \in S, NEW x \in S
  PROVE  /\ \A q \in AddRemoveTorn(s, e, x) :
              q \in Seq(S) /\ Members(q) \subseteq Members(s) \cup {e, Null}
         /\ \A q \in AddAddTorn(s, e, x) :
              q \in Seq(S) /\ Members(q) \subseteq Members(s) \cup {e, x}
         /\ \A q \in RemoveRemoveTorn(s, e, x) :
              q \in Seq(S) /\ Members(q) \subseteq Members(s) \cup {Null}
<1>1. \A y \in S : Removed(s, y) \in Seq(S) /\ Members(Removed(s, y)) \subseteq Members(s)
  BY RemovedType
<1>2. ASSUME NEW q \in AddRemoveTorn(s, e, x)
      PROVE  q \in Seq(S) /\ Members(q) \subseteq Members(s) \cup {e, Null}
  <2> DEFINE a == Removed(s, x)
             b == Append(a, Null)
             c == Append(b, e)
  <2>1. a \in Seq(S) /\ Members(a) \subseteq Members(s)
    BY <1>1
  <2>2. b \in Seq(S) /\ Members(b) \subseteq Members(a) \cup {Null}
    BY <2>1, AppendMembers
  <2>3. c \in Seq(S) /\ Members(c) \subseteq Members(b) \cup {e}
    BY <2>2, AppendMembers
  <2>4. q = a \/ q = c
    BY <1>2 DEF AddRemoveTorn
  <2> HIDE DEF a, b, c
  <2> QED
    BY <2>1, <2>2, <2>3, <2>4
<1>3. ASSUME NEW q \in AddAddTorn(s, e, x)
      PROVE  q \in Seq(S) /\ Members(q) \subseteq Members(s) \cup {e, x}
  <2>1. /\ Append(s, e) \in Seq(S) /\ Members(Append(s, e)) \subseteq Members(s) \cup {e}
        /\ Append(s, x) \in Seq(S) /\ Members(Append(s, x)) \subseteq Members(s) \cup {x}
    BY AppendMembers
  <2> QED
    BY <1>3, <2>1 DEF AddAddTorn
<1>4. ASSUME NEW q \in RemoveRemoveTorn(s, e, x)
      PROVE  q \in Seq(S) /\ Members(q) \subseteq Members(s) \cup {Null}
  <2>1. PICK y \in {e, x} : \/ q = Removed(s, y)
                            \/ /\ Removed(s, y) # <<>>
                               /\ q = [Removed(s, y) EXCEPT ![Len(Removed(s, y))] = Null]
    BY <1>4 DEF RemoveRemoveTorn
  <2> DEFINE a == Removed(s, y)
  <2>2. a \in Seq(S) /\ Members(a) \subseteq Members(s)
    BY <1>1
  <2>3. q = a \/ (a # <<>> /\ q = [a EXCEPT ![Len(a)] = Null])
    BY <2>1
  <2> HIDE DEF a
  <2>4. CASE q = a
    BY <2>2, <2>4
  <2>5. CASE a # <<>> /\ q = [a EXCEPT ![Len(a)] = Null]
    BY <2>2, <2>5, NullMembers
  <2> QED
    BY <2>3, <2>4, <2>5
<1> QED
  BY <1>2, <1>3, <1>4

-----------------------------------------------------------------------------
(* Types. *)

(* A thread that moves on stays at a known place. *)
LEMMA GotoType ==
  ASSUME pc \in [Thread -> Place], NEW t \in Thread, NEW p \in Place, Goto(t, p)
  PROVE  pc' \in [Thread -> Place]
BY DEF Goto

(* A step that only moves threads keeps the types. *)
LEMMA TypeMove ==
  ASSUME TypeOK, pc' \in [Thread -> Place],
         UNCHANGED <<outside, born, workspace, lists, cur, idx, latest, life, sent, released, dropped>>
  PROVE  TypeOK'
<1>1. Id' = Id
  BY DEF Id, outside
<1> QED
  BY <1>1 DEF TypeOK, TypeData, TypeLists, TypeThreads, TypeOutside, outside, lists, life

(* An exception keeps the types. *)
LEMMA TypeException ==
  ASSUME TypeOK, NEW t \in Thread, Exception(t)
  PROVE  TypeOK'
<1>1. Id' = Id
  BY DEF Exception, Id, outside
<1>2. pc' \in [Thread -> Place]
  BY GotoType DEF Exception, TypeOK, TypeThreads, Place
<1> QED
  BY <1>1, <1>2 DEF Exception, TypeOK, TypeData, TypeLists, TypeThreads, TypeOutside, outside, lists

(* The worker's steps outside the reactions keep the types. *)
LEMMA TypeWorker ==
  ASSUME TypeOK, HandsFull, Worker
  PROVE  TypeOK'
<1>a. "worker" \in Thread /\ {"check", "wait", "waiting", "test", "history", "pending", "add", "send",
                              "react", "ids"} \subseteq Place
  BY DEF Thread, Place
<1>b. pc \in [Thread -> Place] /\ (pc["worker"] \in Entering => cur["worker"] \in Id)
  BY <1>a DEF TypeOK, TypeThreads, HandsFull
<1>1. CASE NotReady \/ Wait \/ TestRelease \/ HistoryMiss \/ HistoryHit \/ PendingMiss \/ PendingHit
  <2>1. /\ \E p \in Place : Goto("worker", p)
        /\ UNCHANGED <<outside, born, workspace, lists, cur, idx, latest, life, sent, released, dropped>>
    BY <1>1, <1>a DEF NotReady, Wait, TestRelease, HistoryMiss, HistoryHit, PendingMiss, PendingHit
  <2> QED
    BY <2>1, <1>a, <1>b, GotoType, TypeMove
<1>2. CASE Take
  <2>1. Id' = Id
    BY <1>2 DEF Take, Id, outside
  <2>2. pc' \in [Thread -> Place]
    BY <1>2, <1>a, <1>b, GotoType DEF Take
  <2>3. workspace' \in Seq(Id) /\ Head(workspace) \in Id
    BY <1>2 DEF Take, TypeOK, TypeLists
  <2>4. cur' \in [Thread -> Id \cup {Null}]
    BY <1>2, <2>3 DEF Take, TypeOK, TypeThreads
  <2> QED
    BY <1>2, <2>1, <2>2, <2>3, <2>4
       DEF Take, TypeOK, TypeData, TypeLists, TypeThreads, TypeOutside, outside, lists, life
<1>3. CASE TestUnknown \/ WalkFails \/ GenerateFails
  BY <1>3, <1>a, TypeException DEF TestUnknown, WalkFails, GenerateFails
<1>4. CASE TestRequest
  <2>1. Id' = Id
    BY <1>4 DEF TestRequest, Id, outside
  <2>2. pc' \in [Thread -> Place]
    BY <1>4, <1>a, <1>b, GotoType DEF TestRequest
  <2>3. born' \in Seq(0..MaxTime) /\ Len(born') = Len(born)
    <3> DEFINE T == 0..MaxTime
    <3>1. now \in T /\ born \in Seq(T)
      BY DEF TypeOK, TypeData
    <3>2. born' = [born EXCEPT ![cur["worker"]] = now]
      BY <1>4 DEF TestRequest
    <3> HIDE DEF T
    <3>3. born' \in Seq(T) /\ Len(born') = Len(born)
      BY <3>1, <3>2, SetType
    <3> QED
      BY <3>3 DEF T
  <2>4. pendingIds' \subseteq Id
    BY <1>4, <1>b DEF TestRequest, TypeOK, TypeLists, Entering
  <2> QED
    BY <1>4, <2>1, <2>2, <2>3, <2>4
       DEF TestRequest, TypeOK, TypeData, TypeLists, TypeThreads, TypeOutside, outside, life
<1>5. CASE HistoryOutdated
  <2>1. Id' = Id
    BY <1>5 DEF HistoryOutdated, Id, outside
  <2>2. pc' \in [Thread -> Place]
    BY <1>5, <1>a, <1>b, GotoType DEF HistoryOutdated
  <2>3. history' \in Seq(Id \cup {Null})
    BY <1>5, WithoutType DEF HistoryOutdated, TypeOK, TypeLists
  <2> QED
    BY <1>5, <2>1, <2>2, <2>3
       DEF HistoryOutdated, TypeOK, TypeData, TypeLists, TypeThreads, TypeOutside, outside, life
<1>6. CASE PendingOutdated
  <2>1. Id' = Id
    BY <1>6 DEF PendingOutdated, Id, outside
  <2>2. pc' \in [Thread -> Place]
    BY <1>6, <1>a, <1>b, GotoType DEF PendingOutdated
  <2>3. PICK i \in 1..Len(pending) : /\ pending[i] # Null /\ pending' = Without(pending, i)
                                     /\ dropped' = dropped \cup {pending[i]}
    BY <1>6 DEF PendingOutdated
  <2>4. pending' \in Seq(Id \cup {Null}) /\ pending[i] \in Id
    BY <2>3, WithoutType DEF TypeOK, TypeLists
  <2> QED
    BY <1>6, <2>1, <2>2, <2>3, <2>4
       DEF PendingOutdated, TypeOK, TypeData, TypeLists, TypeThreads, TypeOutside, outside, life
<1>7. CASE Add
  <2>1. Id' = Id
    BY <1>7 DEF Add, Id, outside
  <2>2. pc' \in [Thread -> Place]
    BY <1>7, <1>a, <1>b, GotoType DEF Add
  <2>3. pending' \in Seq(Id \cup {Null})
    BY <1>7, <1>b DEF Add, TypeOK, TypeLists, Entering
  <2> QED
    BY <1>7, <2>1, <2>2, <2>3
       DEF Add, TypeOK, TypeData, TypeLists, TypeThreads, TypeOutside, outside, life
<1>8. CASE Send \/ SendFails
  <2>1. Id' = Id
    BY <1>8 DEF Send, SendFails, Id, outside
  <2>2. pc' \in [Thread -> Place]
    BY <1>8, <1>a, <1>b, GotoType DEF Send, SendFails
  <2>3. sent' \subseteq Id
    BY <1>8, <1>b DEF Send, SendFails, TypeOK, TypeOutside, Entering
  <2> QED
    BY <1>8, <2>1, <2>2, <2>3 DEF Send, SendFails, TypeOK, TypeData, TypeLists, TypeThreads,
       TypeOutside, outside, lists, life
<1> QED
  BY <1>1, <1>2, <1>3, <1>4, <1>5, <1>6, <1>7, <1>8 DEF Worker, AddEntry

(* So do the reactions, on either thread. *)
LEMMA TypeVerdict ==
  ASSUME TypeOK, HandsFull, NEW t \in Thread, Verdict(t)
  PROVE  TypeOK'
<1>a. {"clear", "grant", "cast", "find", "look", "get", "keep", "forget", "ids", "write", Home(t)} \subseteq Place
  BY DEF Place, Home
<1>b. pc \in [Thread -> Place] /\ cur[t] \in Id \cup {Null}
  BY DEF TypeOK, TypeThreads
<1>1. CASE ReactKeepAlive(t) \/ ReactGrant(t)
  <2>1. /\ \E p \in Place : Goto(t, p)
        /\ UNCHANGED <<outside, born, workspace, lists, cur, idx, latest, life, sent, released, dropped>>
    BY <1>1, <1>a DEF ReactKeepAlive, ReactGrant
  <2> QED
    BY <2>1, <1>b, GotoType, TypeMove
<1>2. CASE ClearLatest(t) \/ ReadGrant(t)
  <2>1. Id' = Id
    BY <1>2 DEF ClearLatest, ReadGrant, Id, outside
  <2>2. pc' \in [Thread -> Place]
    BY <1>2, <1>a, <1>b, GotoType DEF ClearLatest, ReadGrant
  <2>3. /\ cur' \in [Thread -> Id \cup {Null}] /\ latest' \in Id \cup {Null, KeepAlive}
        /\ idx' \in [Thread -> Nat]
    BY <1>2 DEF ClearLatest, ReadGrant, TypeOK, TypeThreads
  <2> QED
    BY <1>2, <2>1, <2>2, <2>3 DEF ClearLatest, ReadGrant, TypeOK, TypeData, TypeLists, TypeThreads,
       TypeOutside, outside, lists, life
<1>3. CASE Find(t) \/ Look(t)
  <2>1. Id' = Id
    BY <1>3 DEF Find, Look, Id, outside
  <2>2. pc' \in [Thread -> Place]
    BY <1>3, <1>a, <1>b, GotoType DEF Find, Look
  <2>3. idx' \in [Thread -> Nat]
    BY <1>3 DEF Find, Look, TypeOK, TypeThreads
  <2> QED
    BY <1>3, <2>1, <2>2, <2>3 DEF Find, Look, TypeOK, TypeData, TypeLists, TypeThreads, TypeOutside, outside,
       lists, life
<1>4. CASE Get(t)
  <2>1. Id' = Id
    BY <1>4 DEF Get, Id, outside
  <2>2. pc' \in [Thread -> Place]
    BY <1>4, <1>a, <1>b, GotoType DEF Get
  <2>3. idx[t] \in 1..Len(pending)
    BY <1>4 DEF Get, HandsFull, TypeOK, TypeThreads, TypeLists
  <2>4. pending[idx[t]] \in Id \cup {Null}
    BY <2>3 DEF TypeOK, TypeLists
  <2>5. cur' \in [Thread -> Id \cup {Null}]
    BY <1>4, <2>4 DEF Get, TypeOK, TypeThreads
  <2> QED
    BY <1>4, <2>1, <2>2, <2>5 DEF Get, TypeOK, TypeData, TypeLists, TypeThreads, TypeOutside, outside,
       lists, life
<1>5. CASE Keep(t) \/ Forget(t)
  <2>1. Id' = Id
    BY <1>5 DEF Keep, Forget, Id, outside
  <2>2. pc' \in [Thread -> Place]
    BY <1>5, <1>a, <1>b, GotoType DEF Keep, Forget
  <2>3. /\ Removed(pending, cur[t]) \in Seq(Id \cup {Null})
        /\ Append(history, cur[t]) \in Seq(Id \cup {Null})
    BY <1>b, RemovedType, AppendMembers DEF TypeOK, TypeLists
  <2>4. pending' \in Seq(Id \cup {Null}) /\ history' \in Seq(Id \cup {Null})
    BY <1>5, <2>3 DEF Keep, Forget, TypeOK, TypeLists
  <2> QED
    BY <1>5, <2>1, <2>2, <2>4 DEF Keep, Forget, TypeOK, TypeData, TypeLists, TypeThreads, TypeOutside,
       outside, lists, life
<1>6. CASE ForgetId(t) \/ Write(t)
  <2>1. Id' = Id
    BY <1>6 DEF ForgetId, Write, Id, outside
  <2>2. pc' \in [Thread -> Place]
    BY <1>6, <1>a, <1>b, GotoType DEF ForgetId, Write
  <2>3. pendingIds' \subseteq Id /\ released' \subseteq Id
    BY <1>6, <1>b DEF ForgetId, Write, TypeOK, TypeLists, TypeOutside, HandsFull, lists
  <2> QED
    BY <1>6, <2>1, <2>2, <2>3 DEF ForgetId, Write, TypeOK, TypeData, TypeLists, TypeThreads,
       TypeOutside, outside, lists, life
<1>7. CASE VerdictFails(t)
  BY <1>7, TypeException DEF VerdictFails
<1> QED
  BY <1>1, <1>2, <1>3, <1>4, <1>5, <1>6, <1>7 DEF Verdict

(* Torn lists keep their types. *)
LEMMA TypeTorn ==
  ASSUME TypeOK, HandsFull, TornPending \/ TornHistory
  PROVE  TypeOK'
<1> DEFINE S == Id \cup {Null}
<1>a. Null \in S /\ cur["worker"] \in S /\ cur["receiver"] \in S /\ pending \in Seq(S) /\ history \in Seq(S)
  BY DEF TypeOK, TypeThreads, TypeLists, Thread
<1>b. Id' = Id
  BY DEF TornPending, TornHistory, Id, outside
<1>c. pc' \in [Thread -> Place]
  BY DEF TornPending, TornHistory, TypeOK, TypeThreads, Thread, Place
<1>1. CASE TornPending
  <2>1. pending' \in Seq(S) /\ Members(pending') \subseteq S
    <3>1. pending' \in AddRemoveTorn(pending, cur["worker"], cur["receiver"])
             \cup RemoveRemoveTorn(pending, cur["worker"], cur["receiver"])
      BY <1>1 DEF TornPending
    <3>2. pending' \in Seq(S)
      <4> HIDE DEF S
      <4> QED
        BY <3>1, <1>a, TornMembers
    <3> QED
      BY <3>2 DEF Members
  <2>2. dropped' \subseteq dropped \cup ((Members(pending) \cup {cur["worker"]}) \ {Null})
    BY <1>1 DEF TornPending
  <2>3. Members(pending) \subseteq S
    BY <1>a DEF Members
  <2>4. dropped' \subseteq Id
    BY <2>2, <2>3, <1>a DEF TypeOK, TypeOutside
  <2> QED
    BY <1>1, <1>b, <1>c, <2>1, <2>4 DEF TornPending, TypeOK, TypeData, TypeLists, TypeThreads,
       TypeOutside, outside, life
<1>2. CASE TornHistory
  <2>1. history' \in Seq(S)
    <3>1. \A i \in 1..Len(history) : history[i] \in S
      BY <1>a
    <3>2. \/ history' \in AddAddTorn(history, cur["worker"], cur["receiver"])
          \/ \E i \in 1..Len(history) : history' \in AddRemoveTorn(history, cur["receiver"], history[i])
      BY <1>2 DEF TornHistory
    <3> HIDE DEF S
    <3> QED
      BY <3>1, <3>2, <1>a, TornMembers
  <2> QED
    BY <1>2, <1>b, <1>c, <2>1 DEF TornHistory, TypeOK, TypeData, TypeLists, TypeThreads, TypeOutside,
       outside, life
<1> QED
  BY <1>1, <1>2

(* The reader, the receiver and everything outside keep the types. *)
LEMMA TypeOthers ==
  ASSUME TypeOK, (\E d \in Remote \cup Local : Arrive(d)) \/ Receiver \/ StopRR \/ Environment
  PROVE  TypeOK'
<1>a. {"worker", "receiver"} \subseteq Thread /\ {"event", "react", "check"} \subseteq Place
  BY DEF Thread, Place
<1>b. pc \in [Thread -> Place]
  BY DEF TypeOK, TypeThreads
<1>1. ASSUME NEW d \in Remote \cup Local, Arrive(d)
      PROVE  TypeOK'
  <2>1. /\ packets' \in Seq(Remote \cup Local) /\ Len(packets') = Len(packets) + 1
        /\ Len(packets) + 1 <= MaxPackets /\ Len(packets) \in Nat
    BY <1>1, ResourceRequestsAssumption DEF Arrive, TypeOK, TypeData
  <2>2. Id \subseteq Id' /\ Len(packets) + 1 \in Id'
    BY <2>1 DEF Id
  <2>3. 0 \in 0..MaxTime
    BY ResourceRequestsAssumption
  <2>4. born' \in Seq(0..MaxTime) /\ Len(born') = Len(born) + 1
    BY <1>1, <2>3 DEF Arrive, TypeOK, TypeData
  <2>5. TypeData'
    BY <1>1, <2>1, <2>4 DEF Arrive, TypeOK, TypeData
  <2>6. ASSUME NEW A, NEW B, A \subseteq B, NEW q \in Seq(A)
        PROVE  q \in Seq(B)
    BY <2>6
  <2>7. workspace \in Seq(Id')
    BY <2>2, <2>6 DEF TypeOK, TypeLists
  <2>8. pending \in Seq(Id' \cup {Null}) /\ history \in Seq(Id' \cup {Null})
    <3>1. Id \cup {Null} \subseteq Id' \cup {Null}
      BY <2>2
    <3> HIDE DEF Id
    <3> QED
      BY <3>1, <2>6 DEF TypeOK, TypeLists
  <2>9. TypeLists'
    BY <1>1, <2>2, <2>7, <2>8 DEF Arrive, TypeOK, TypeLists, lists
  <2>10. pc' \in [Thread -> Place]
    BY <1>1, <1>a, <1>b DEF Arrive
  <2>11. TypeThreads'
    BY <1>1, <2>2, <2>10 DEF Arrive, TypeOK, TypeThreads
  <2>12. TypeOutside'
    BY <1>1, <2>2 DEF Arrive, TypeOK, TypeOutside, life
  <2> QED
    BY <2>5, <2>9, <2>11, <2>12 DEF TypeOK
<1>2. CASE Receiver
  <2>1. CASE ReceiveFails
    BY <2>1, <1>a, TypeException DEF ReceiveFails
  <2>2. CASE Event
    <3>1. pc' \in [Thread -> Place]
      BY <2>2, <1>a, <1>b, GotoType DEF Event
    <3> QED
      BY <2>2, <3>1, TypeMove DEF Event
  <2>3. CASE ReceiveKeepAlive \/ \E i \in wire : ReceiveGrant(i)
    <3>1. Id' = Id
      BY <2>3 DEF ReceiveKeepAlive, ReceiveGrant, Id, outside
    <3>2. pc' \in [Thread -> Place]
      BY <2>3, <1>a, <1>b, GotoType DEF ReceiveKeepAlive, ReceiveGrant
    <3>3. latest' \in Id \cup {Null, KeepAlive} /\ wire' \subseteq Id
      BY <2>3 DEF ReceiveKeepAlive, ReceiveGrant, TypeOK, TypeOutside, outside
    <3> QED
      BY <2>3, <3>1, <3>2, <3>3 DEF ReceiveKeepAlive, ReceiveGrant, TypeOK, TypeData, TypeLists,
         TypeThreads, TypeOutside, outside, lists, life
  <2> QED
    BY <1>2, <2>1, <2>2, <2>3 DEF Receiver
<1>3. CASE StopRR \/ Environment
  <2>1. Id' = Id
    BY <1>3 DEF StopRR, Environment, Tick, VPNOpened, GatewayGrants, LinkBreaks, Id, outside
  <2>2. now' \in 0..MaxTime
    BY <1>3, ResourceRequestsAssumption DEF StopRR, Environment, Tick, VPNOpened, GatewayGrants,
       LinkBreaks, outside, TypeOK, TypeData
  <2>3. wire' \subseteq Id /\ granted' \subseteq Id
    BY <1>3 DEF StopRR, Environment, Tick, VPNOpened, GatewayGrants, LinkBreaks, outside, TypeOK,
       TypeOutside
  <2> QED
    BY <1>3, <2>1, <2>2, <2>3 DEF StopRR, Environment, Tick, VPNOpened, GatewayGrants, LinkBreaks,
       TypeOK, TypeData, TypeLists, TypeThreads, TypeOutside, outside, lists, threads, life
<1> QED
  BY <1>1, <1>2, <1>3

-----------------------------------------------------------------------------
(* Hands and order. *)

(* Every step leaves a packet in the hands that need one. *)
LEMMA HandsStep ==
  ASSUME TypeOK, HandsFull, InOrder, [Next]_vars
  PROVE  HandsFull'
<1> USE DEF Thread, Goto, Entering
<1>a. pc \in [Thread -> Place] /\ cur \in [Thread -> Id \cup {Null}] /\ idx \in [Thread -> Nat]
  BY DEF TypeOK, TypeThreads
<1>1. CASE NotReady \/ Wait \/ TestRelease \/ TestRequest \/ HistoryMiss \/ HistoryHit
             \/ HistoryOutdated \/ PendingMiss \/ PendingHit \/ PendingOutdated \/ Add \/ Send
             \/ SendFails
  <2>1. /\ UNCHANGED <<cur, idx>>
        /\ \E p \in {"wait", "waiting", "ids", "check", "react"} \cup Entering :
             pc' = [pc EXCEPT !["worker"] = p] /\ (p \in Entering => pc["worker"] \in Entering)
    BY <1>1 DEF NotReady, Wait, TestRelease, TestRequest, HistoryMiss, HistoryHit, HistoryOutdated,
       PendingMiss, PendingHit, PendingOutdated, Add, Send, SendFails
  <2> QED
    BY <2>1, <1>a DEF HandsFull
<1>2. CASE Take
  <2>1. Head(workspace) \in Id
    BY <1>2 DEF Take, TypeOK, TypeLists
  <2>2. Head(workspace) # Null
    BY <2>1 DEF Id, Null
  <2> QED
    BY <1>2, <2>2, <1>a DEF Take, HandsFull
<1>3. ASSUME NEW t \in Thread, Exception(t)
      PROVE  HandsFull'
  BY <1>3, <1>a DEF Exception, HandsFull
<1>4. CASE TestUnknown \/ WalkFails \/ GenerateFails \/ ReceiveFails
  BY <1>4, <1>3 DEF TestUnknown, WalkFails, GenerateFails, ReceiveFails
<1>5. ASSUME NEW t \in Thread,
             ReactKeepAlive(t) \/ ClearLatest(t) \/ ReactGrant(t) \/ Get(t)
               \/ Keep(t) \/ Forget(t) \/ Write(t)
      PROVE  HandsFull'
  <2>1. /\ UNCHANGED idx /\ \A u \in Thread \ {t} : cur'[u] = cur[u]
        /\ \E p \in {"clear", "grant", "cast", "keep", "forget", "ids", "check", "idle"} :
             pc' = [pc EXCEPT ![t] = p]
    BY <1>5, <1>a DEF ReactKeepAlive, ClearLatest, ReactGrant, Get, Keep, Forget, Write, Home
  <2> QED
    BY <2>1, <1>a DEF HandsFull
<1>6. ASSUME NEW t \in Thread, ReadGrant(t) \/ Find(t) \/ Look(t) \/ ForgetId(t)
      PROVE  HandsFull'
  <2>1. CASE ForgetId(t)
    BY <2>1, <1>a DEF ForgetId, HandsFull
  <2>2. CASE Find(t)
    BY <2>2, <1>a DEF Find, Home, HandsFull
  <2>3. CASE ReadGrant(t)
    BY <2>3, <1>a DEF ReadGrant, HandsFull
  <2>4. CASE Look(t)
    <3>1. /\ UNCHANGED cur /\ pc[t] = "look"
          /\ \/ UNCHANGED idx /\ pc' = [pc EXCEPT ![t] = "get"]
             \/ idx' = [idx EXCEPT ![t] = @ + 1] /\ pc' = [pc EXCEPT ![t] = "find"]
      BY <2>4 DEF Look
    <3> QED
      BY <3>1, <1>a DEF HandsFull
  <2> QED
    BY <1>6, <2>1, <2>2, <2>3, <2>4
<1>7. ASSUME NEW t \in Thread, VerdictFails(t)
      PROVE  HandsFull'
  BY <1>7, <1>3 DEF VerdictFails
<1>8. CASE TornPending \/ TornHistory
  BY <1>8, <1>a DEF TornPending, TornHistory, HandsFull
<1>9. ASSUME NEW d \in Remote \cup Local, Arrive(d)
      PROVE  HandsFull'
  BY <1>9, <1>a DEF Arrive, HandsFull
<1>10. CASE Event \/ ReceiveKeepAlive \/ \E i \in wire : ReceiveGrant(i)
  BY <1>10, <1>a DEF Event, ReceiveKeepAlive, ReceiveGrant, HandsFull
<1>11. CASE StopRR \/ Environment \/ UNCHANGED vars
  BY <1>11 DEF StopRR, Environment, HandsFull, threads, vars
<1> QED
  BY <1>1, <1>2, <1>4, <1>5, <1>6, <1>7, <1>8, <1>9, <1>10, <1>11
     DEF Next, Worker, AddEntry, Verdict, Receiver

(* The worker takes the packets in the order the reader queued them. *)
LEMMA OrderStep ==
  ASSUME TypeOK, HandsFull, InOrder, [Next]_vars
  PROVE  InOrder'
<1> USE DEF Thread, Goto
<1>a. /\ pc \in [Thread -> Place] /\ cur \in [Thread -> Id \cup {Null}] /\ pendingIds \subseteq Id
      /\ Len(packets) \in Nat /\ Len(workspace) \in Nat /\ workspace \in Seq(Id)
  BY DEF TypeOK, TypeThreads, TypeLists, TypeData
<1>b. \A i \in Id : i \in Int
  BY DEF Id
<1>1. CASE Take
  <2>1. /\ Len(workspace') = Len(workspace) - 1
        /\ \A k \in 1..Len(workspace') : workspace'[k] = workspace[k + 1]
        /\ Head(workspace) = workspace[1] /\ 1 \in 1..Len(workspace)
    BY <1>1, <1>a DEF Take
  <2>2. /\ UNCHANGED <<packets, pendingIds>> /\ pc'["worker"] = "test"
        /\ cur'["worker"] = Head(workspace)
    BY <1>1, <1>a DEF Take, outside, lists
  <2> QED
    BY <2>1, <2>2, <1>a, <1>b DEF InOrder, Taken
<1>2. CASE TestRequest
  <2>1. UNCHANGED <<packets, workspace>> /\ pc'["worker"] = "history" /\ pc["worker"] = "test"
    BY <1>2, <1>a DEF TestRequest, outside
  <2>2. pendingIds' \subseteq pendingIds \cup {cur["worker"]}
    BY <1>2 DEF TestRequest
  <2> QED
    BY <2>1, <2>2, <1>a, <1>b DEF InOrder, Taken
<1>3. ASSUME NEW d \in Remote \cup Local, Arrive(d)
      PROVE  InOrder'
  <2>1. /\ packets' = Append(packets, d) /\ workspace' = Append(workspace, Len(packets) + 1)
        /\ UNCHANGED <<pendingIds, cur>> /\ (pc'["worker"] = "test" => pc["worker"] = "test")
    BY <1>3, <1>a DEF Arrive, lists
  <2>2. /\ Len(packets') = Len(packets) + 1 /\ Len(workspace') = Len(workspace) + 1
        /\ \A k \in 1..Len(workspace) : workspace'[k] = workspace[k]
        /\ workspace'[Len(workspace) + 1] = Len(packets) + 1
    BY <2>1, <1>a DEF TypeOK, TypeData
  <2> QED
    BY <2>1, <2>2, <1>a, <1>b DEF InOrder, Taken
<1>4. ASSUME UNCHANGED <<packets, workspace>>, pendingIds' \subseteq pendingIds,
             pc'["worker"] = "test" => pc["worker"] = "test" /\ cur'["worker"] = cur["worker"]
      PROVE  InOrder'
  BY <1>4, <1>a, <1>b DEF InOrder, Taken
<1>5. CASE NotReady \/ Wait \/ TestRelease \/ HistoryMiss \/ HistoryHit
             \/ HistoryOutdated \/ PendingMiss \/ PendingHit \/ PendingOutdated \/ Add \/ Send
             \/ SendFails
  BY <1>5, <1>4, <1>a DEF NotReady, Wait, TestRelease, HistoryMiss, HistoryHit, HistoryOutdated,
       PendingMiss, PendingHit, PendingOutdated, Add, Send, SendFails, outside, lists
<1>6. ASSUME NEW t \in Thread, Exception(t)
      PROVE  InOrder'
  BY <1>6, <1>4, <1>a DEF Exception, outside, lists
<1>7. CASE TestUnknown \/ WalkFails \/ GenerateFails \/ ReceiveFails
  BY <1>7, <1>6 DEF TestUnknown, WalkFails, GenerateFails, ReceiveFails
<1>8. ASSUME NEW t \in Thread, Verdict(t)
      PROVE  InOrder'
  <2>1. CASE VerdictFails(t)
    BY <2>1, <1>6 DEF VerdictFails
  <2>2. CASE ~VerdictFails(t)
    <3>1. /\ UNCHANGED <<packets, workspace>> /\ pendingIds' \subseteq pendingIds
          /\ \E p \in {"clear", "grant", "cast", "find", "look", "get", "keep", "forget", "ids", "write",
                       "check", "idle"} : pc' = [pc EXCEPT ![t] = p]
          /\ \A u \in Thread \ {t} : cur'[u] = cur[u]
      BY <1>8, <2>2, <1>a DEF Verdict, ReactKeepAlive, ClearLatest, ReactGrant, ReadGrant, Find, Look, Get, Keep,
         Forget, ForgetId, Write, Home, outside, lists
    <3> QED
      BY <3>1, <1>4, <1>a
  <2> QED
    BY <2>1, <2>2
<1>9. CASE TornPending \/ TornHistory \/ Event \/ ReceiveKeepAlive \/ \E i \in wire : ReceiveGrant(i)
  BY <1>9, <1>4, <1>a DEF TornPending, TornHistory, Event, ReceiveKeepAlive, ReceiveGrant, outside, lists
<1>10. CASE StopRR \/ Environment \/ UNCHANGED vars
  BY <1>10, <1>4 DEF StopRR, Environment, Tick, VPNOpened, GatewayGrants, LinkBreaks, threads, lists,
     outside, vars
<1> QED
  BY <1>1, <1>2, <1>3, <1>5, <1>7, <1>8, <1>9, <1>10 DEF Next, Worker, AddEntry, Receiver

-----------------------------------------------------------------------------
(* Asked. *)

(* What was asked stays asked while the packets stay and no request is lost. *)
LEMMA AskedStays ==
  ASSUME NEW i, Asked(i), packets' = packets,
         ipqserver = "killed" => ipqserver' = "killed",
         sent \cup Asking \subseteq (sent \cup Asking)' \/ ipqserver' = "killed"
  PROVE  Asked(i)'
BY DEF Asked

(* A packet for the socket of an asked one is asked. *)
LEMMA AskedSame ==
  ASSUME NEW i, NEW j, Asked(i), packets[i] = packets[j]
  PROVE  Asked(j)
BY DEF Asked

(* The invariants on the lists and the hands, for a step that keeps what    *)
(* was asked and puts nothing else into lists and hands.                    *)
LEMMA AskFrame ==
  ASSUME TypeOK, ListsAsked, HandsAsked,
         \A i \in Id : Asked(i) => Asked(i)',
         \A i \in (released \cup Members(pending) \cup Members(history))' :
            i = Null \/ i \in released \cup Members(pending) \cup Members(history) \/ Asked(i)',
         \A t \in Thread : \A i \in Id' :
            pc'[t] \in Holding /\ cur'[t] = i =>
              (pc[t] \in Holding /\ cur[t] = i /\ i \in Id) \/ Asked(i)'
  PROVE  ListsAsked' /\ HandsAsked'
<1>1. \A i \in released \cup Members(pending) \cup Members(history) : i = Null \/ i \in Id
  BY DEF TypeOK, TypeOutside, TypeLists, Members
<1>2. ASSUME NEW i \in (released \cup Members(pending) \cup Members(history))', i # Null
      PROVE  Asked(i)'
  BY <1>1, <1>2 DEF ListsAsked
<1>3. ASSUME NEW t \in Thread, NEW i \in Id', pc'[t] \in Holding, cur'[t] = i
      PROVE  Asked(i)'
  BY <1>3 DEF HandsAsked
<1> QED
  BY <1>2, <1>3 DEF ListsAsked, HandsAsked

(* The worker releases and enters only what was asked, or asks for it. *)
LEMMA AskWorker ==
  ASSUME TypeOK, IInv, Worker
  PROVE  ListsAsked' /\ HandsAsked'
<1> USE DEF Thread, Goto
<1>a. /\ pc \in [Thread -> Place] /\ cur \in [Thread -> Id \cup {Null}] /\ Null \notin Id
      /\ pending \in Seq(Id \cup {Null}) /\ history \in Seq(Id \cup {Null})
  BY DEF TypeOK, TypeThreads, TypeLists, Id, Null
<1>b. packets' = packets /\ (ipqserver = "killed" => ipqserver' = "killed") /\ Id' = Id
  BY DEF Worker, AddEntry, NotReady, Wait, Take, TestUnknown, TestRelease, TestRequest, HistoryMiss,
     HistoryHit, HistoryOutdated, PendingMiss, PendingHit, PendingOutdated, WalkFails, Add,
     GenerateFails, Send, SendFails, Exception, outside, life, Id
<1>c. sent \cup Asking \subseteq (sent \cup Asking)' \/ ipqserver' = "killed"
  <2>1. sent \subseteq sent'
    BY DEF Worker, AddEntry, NotReady, Wait, Take, TestUnknown, TestRelease, TestRequest, HistoryMiss,
       HistoryHit, HistoryOutdated, PendingMiss, PendingHit, PendingOutdated, WalkFails, Add,
       GenerateFails, Send, SendFails, Exception
  <2>2. CASE pc["worker"] = "send"
    <3>1. Send \/ SendFails
      BY <2>2 DEF Worker, AddEntry, NotReady, Wait, Take, TestUnknown, TestRelease, TestRequest,
         HistoryMiss, HistoryHit, HistoryOutdated, PendingMiss, PendingHit, PendingOutdated, WalkFails,
         Add, GenerateFails
    <3> QED
      BY <2>1, <3>1 DEF Send, SendFails, Asking
  <2>3. CASE pc["worker"] # "send"
    BY <2>1, <2>3 DEF Asking
  <2> QED
    BY <2>2, <2>3
<1>d. \A i \in Id : Asked(i) => Asked(i)'
  BY <1>b, <1>c, AskedStays
<1>e. ListsAsked /\ HandsAsked /\ InOrder /\ HandsFull
  BY DEF IInv
<1>f. \A s \in Seq(Id \cup {Null}) : \A i \in 1..Len(s) : s[i] \in Members(s)
  BY DEF Members
<1>1. ASSUME NEW p, p \notin Holding, pc' = [pc EXCEPT !["worker"] = p],
             cur'["receiver"] = cur["receiver"],
             (released \cup Members(pending) \cup Members(history))'
                \subseteq released \cup Members(pending) \cup Members(history)
      PROVE  ListsAsked' /\ HandsAsked'
  <2>1. ASSUME NEW t \in Thread, NEW i \in Id', pc'[t] \in Holding, cur'[t] = i
        PROVE  pc[t] \in Holding /\ cur[t] = i /\ i \in Id
    BY <1>1, <2>1, <1>a, <1>b
  <2> QED
    BY <1>1, <2>1, <1>d, <1>e, AskFrame
<1>2. CASE NotReady \/ Wait \/ Take \/ HistoryMiss \/ PendingMiss \/ Send \/ SendFails \/ TestRequest
  <2>1. /\ \E p \in {"wait", "waiting", "test", "pending", "add", "react", "check", "history"} :
             pc' = [pc EXCEPT !["worker"] = p]
        /\ cur'["receiver"] = cur["receiver"] /\ UNCHANGED <<pending, history, released>>
    BY <1>2, <1>a DEF NotReady, Wait, Take, HistoryMiss, PendingMiss, Send, SendFails, TestRequest, lists
  <2> QED
    BY <2>1, <1>1 DEF Holding
<1>3. CASE TestUnknown \/ WalkFails \/ GenerateFails
  <2>1. pc' = [pc EXCEPT !["worker"] = "dead"] /\ UNCHANGED <<cur, pending, history, released>>
    BY <1>3 DEF TestUnknown, WalkFails, GenerateFails, Exception, lists
  <2> QED
    BY <2>1, <1>1 DEF Holding
<1>4. CASE HistoryOutdated
  <2>1. /\ pc' = [pc EXCEPT !["worker"] = "pending"] /\ UNCHANGED <<cur, pending, released>>
        /\ \E i \in 1..Len(history) : history' = Without(history, i)
    BY <1>4 DEF HistoryOutdated
  <2>2. Members(history') \subseteq Members(history)
    BY <2>1, <1>a, WithoutType
  <2> QED
    BY <2>1, <2>2, <1>1 DEF Holding
<1>5. CASE PendingOutdated
  <2>1. /\ pc' = [pc EXCEPT !["worker"] = "add"] /\ UNCHANGED <<cur, history, released>>
        /\ \E i \in 1..Len(pending) : pending' = Without(pending, i)
    BY <1>5 DEF PendingOutdated
  <2>2. Members(pending') \subseteq Members(pending)
    BY <2>1, <1>a, WithoutType
  <2> QED
    BY <2>1, <2>2, <1>1 DEF Holding
<1>6. ASSUME pc' = [pc EXCEPT !["worker"] = "ids"], Asked(cur["worker"]),
             UNCHANGED <<cur, pending, history, released>>
      PROVE  ListsAsked' /\ HandsAsked'
  <2>1. ASSUME NEW t \in Thread, NEW i \in Id', pc'[t] \in Holding, cur'[t] = i
        PROVE  (pc[t] \in Holding /\ cur[t] = i /\ i \in Id) \/ Asked(i)'
    BY <1>6, <2>1, <1>a, <1>b, <1>d
  <2> QED
    BY <1>6, <2>1, <1>d, <1>e, AskFrame
<1>7. CASE TestRelease
  <2>1. pc["worker"] = "test" /\ cur["worker"] \notin pendingIds
    BY <1>7, <1>e, <1>a DEF TestRelease, InOrder, TypeOK, TypeLists, TypeData, Taken, Id
  <2>2. packets[cur["worker"]] \notin Remote
    BY <1>7, <2>1 DEF TestRelease, NeedsRequest
  <2> QED
    BY <1>7, <2>2, <1>6 DEF TestRelease, Asked, lists
<1>8. CASE HistoryHit
  <2>1. PICK i \in 1..Len(history) : history[i] \in SameSocket /\ history[i] # Null
    BY <1>8 DEF HistoryHit, FirstAt
  <2>2. Asked(history[i]) /\ packets[history[i]] = packets[cur["worker"]]
    BY <2>1, <1>a, <1>e, <1>f DEF ListsAsked, SameSocket
  <2>3. Asked(cur["worker"])
    BY <2>2, AskedSame
  <2> QED
    BY <1>8, <2>3, <1>6 DEF HistoryHit, lists
<1>9. CASE PendingHit
  <2>1. PICK i \in 1..Len(pending) : pending[i] \in SameSocket /\ pending[i] # Null
    BY <1>9 DEF PendingHit, FirstAt
  <2>2. Asked(pending[i]) /\ packets[pending[i]] = packets[cur["worker"]]
    BY <2>1, <1>a, <1>e, <1>f DEF ListsAsked, SameSocket
  <2>3. Asked(cur["worker"])
    BY <2>2, AskedSame
  <2> QED
    BY <1>9, <2>3, <1>6 DEF PendingHit, lists
<1>10. CASE Add
  <2>1. /\ pc' = [pc EXCEPT !["worker"] = "send"] /\ UNCHANGED <<cur, history, released>>
        /\ pending' = Append(pending, cur["worker"])
    BY <1>10 DEF Add
  <2>2. Members(pending') \subseteq Members(pending) \cup {cur["worker"]}
    BY <2>1, <1>a, AppendMembers
  <2>3. cur["worker"] \in Asking'
    BY <2>1, <1>a DEF Asking
  <2>4. Asked(cur["worker"])'
    BY <2>1, <2>3 DEF Asked
  <2>5. \A i \in (released \cup Members(pending) \cup Members(history))' :
            i = Null \/ i \in released \cup Members(pending) \cup Members(history) \/ Asked(i)'
    <3> SUFFICES ASSUME NEW i \in (released \cup Members(pending) \cup Members(history))'
                 PROVE  i \in released \cup Members(pending) \cup Members(history) \/ Asked(i)'
      OBVIOUS
    <3>1. CASE i = cur["worker"]
      BY <3>1, <2>1, <2>4 DEF Asked
    <3> QED
      BY <3>1, <2>1, <2>2
  <2>6. ASSUME NEW t \in Thread, NEW i \in Id', pc'[t] \in Holding, cur'[t] = i
        PROVE  pc[t] \in Holding /\ cur[t] = i /\ i \in Id
    BY <2>1, <2>6, <1>a, <1>b DEF Holding
  <2> QED
    BY <2>5, <2>6, <1>d, <1>e, AskFrame
<1> QED
  BY <1>2, <1>3, <1>4, <1>5, <1>7, <1>8, <1>9, <1>10 DEF Worker, AddEntry

(* The reactions of either thread move asked packets only. *)
LEMMA AskVerdict ==
  ASSUME TypeOK, IInv, NEW t \in Thread, Verdict(t)
  PROVE  ListsAsked' /\ HandsAsked'
<1> USE DEF Goto
<1>a. /\ pc \in [Thread -> Place] /\ cur \in [Thread -> Id \cup {Null}] /\ Null \notin Id
      /\ pending \in Seq(Id \cup {Null}) /\ history \in Seq(Id \cup {Null})
  BY DEF TypeOK, TypeThreads, TypeLists, Id, Null
<1>b. /\ packets' = packets /\ (ipqserver = "killed" => ipqserver' = "killed") /\ Id' = Id
      /\ UNCHANGED sent
  BY DEF Verdict, ReactKeepAlive, ClearLatest, ReactGrant, ReadGrant, Find, Look, Get, Keep, Forget, ForgetId,
     Write, VerdictFails, Exception, outside, life, Id
<1>c. ListsAsked /\ HandsAsked /\ HandsFull
  BY DEF IInv
<1>d. \A i \in Id : Asked(i) => Asked(i)'
  <2>1. pc[t] \notin {"send"} /\ \A u \in Thread \ {t} : pc'[u] = pc[u] /\ cur'[u] = cur[u]
    BY <1>a DEF Verdict, ReactKeepAlive, ClearLatest, ReactGrant, ReadGrant, Find, Look, Get, Keep, Forget,
       ForgetId, Write, VerdictFails, Exception
  <2>2. Asking \subseteq Asking'
    BY <2>1 DEF Asking, Thread
  <2> QED
    BY <2>2, <1>b, AskedStays
<1>1. ASSUME NEW p, p \notin Holding, pc' = [pc EXCEPT ![t] = p],
             \A u \in Thread \ {t} : cur'[u] = cur[u],
             (released \cup Members(pending) \cup Members(history))'
                \subseteq released \cup Members(pending) \cup Members(history)
      PROVE  ListsAsked' /\ HandsAsked'
  <2>1. ASSUME NEW u \in Thread, NEW i \in Id', pc'[u] \in Holding, cur'[u] = i
        PROVE  pc[u] \in Holding /\ cur[u] = i /\ i \in Id
    BY <1>1, <2>1, <1>a, <1>b
  <2> QED
    BY <1>1, <2>1, <1>c, <1>d, AskFrame
<1>2. CASE ReactKeepAlive(t) \/ ClearLatest(t) \/ ReactGrant(t) \/ ReadGrant(t) \/ Find(t) \/ Look(t)
  <2>1. /\ \E p \in {"clear", "grant", "cast", "find", "look", "get", "check", "idle"} : pc' = [pc EXCEPT ![t] = p]
        /\ \A u \in Thread \ {t} : cur'[u] = cur[u]
        /\ UNCHANGED <<pending, history, released>>
    BY <1>2, <1>a DEF ReactKeepAlive, ClearLatest, ReactGrant, ReadGrant, Find, Look, Home, lists
  <2> QED
    BY <2>1, <1>1 DEF Holding
<1>3. CASE VerdictFails(t)
  <2>1. pc' = [pc EXCEPT ![t] = "dead"] /\ UNCHANGED <<cur, pending, history, released>>
    BY <1>3 DEF VerdictFails, Exception, lists
  <2> QED
    BY <2>1, <1>1 DEF Holding
<1>4. CASE Get(t)
  <2>1. idx[t] \in 1..Len(pending)
    BY <1>4, <1>c DEF Get, HandsFull, TypeOK, TypeThreads, TypeLists
  <2>2. pending[idx[t]] \in Members(pending)
    BY <2>1 DEF Members
  <2>3. pc' = [pc EXCEPT ![t] = "keep"] /\ cur' = [cur EXCEPT ![t] = pending[idx[t]]]
        /\ UNCHANGED <<pending, history, released>>
    BY <1>4 DEF Get, lists
  <2>4. ASSUME NEW u \in Thread, NEW i \in Id', pc'[u] \in Holding, cur'[u] = i
        PROVE  (pc[u] \in Holding /\ cur[u] = i /\ i \in Id) \/ Asked(i)'
    <3>1. CASE u = t
      <4>1. i \in Members(pending) /\ i \in Id /\ i # Null
        BY <3>1, <2>2, <2>3, <2>4, <1>a, <1>b
      <4> QED
        BY <4>1, <1>c, <1>d DEF ListsAsked
    <3>2. CASE u # t
      BY <3>2, <2>3, <2>4, <1>a, <1>b
    <3> QED
      BY <3>1, <3>2
  <2> QED
    BY <2>3, <2>4, <1>c, <1>d, AskFrame
<1>5. ASSUME NEW p \in Holding, pc[t] \in Holding, pc' = [pc EXCEPT ![t] = p], UNCHANGED cur,
             (released \cup Members(pending) \cup Members(history))'
                \subseteq released \cup Members(pending) \cup Members(history) \cup {cur[t]}
      PROVE  ListsAsked' /\ HandsAsked'
  <2>1. \A i \in (released \cup Members(pending) \cup Members(history))' :
            i = Null \/ i \in released \cup Members(pending) \cup Members(history) \/ Asked(i)'
    <3>1. cur[t] = Null \/ Asked(cur[t])
      BY <1>5, <1>a, <1>c DEF HandsAsked
    <3>2. ASSUME NEW i \in Id, i = cur[t] PROVE Asked(i)'
      BY <3>1, <3>2, <1>a, <1>d
    <3> QED
      BY <3>2, <1>5, <1>a
  <2>2. ASSUME NEW u \in Thread, NEW i \in Id', pc'[u] \in Holding, cur'[u] = i
        PROVE  pc[u] \in Holding /\ cur[u] = i /\ i \in Id
    BY <1>5, <2>2, <1>a, <1>b
  <2> QED
    BY <2>1, <2>2, <1>c, <1>d, AskFrame
<1>6. CASE Keep(t)
  <2>1. /\ pc[t] = "keep" /\ pc' = [pc EXCEPT ![t] = "forget"] /\ UNCHANGED <<cur, pending, released>>
        /\ history' = Append(history, cur[t])
    BY <1>6 DEF Keep
  <2>2. Members(history') \subseteq Members(history) \cup {cur[t]}
    BY <2>1, <1>a, AppendMembers
  <2> QED
    BY <2>1, <2>2, <1>5 DEF Holding
<1>7. CASE Forget(t)
  <2>1. /\ pc[t] = "forget" /\ pc' = [pc EXCEPT ![t] = "ids"] /\ UNCHANGED <<cur, history, released>>
        /\ pending' = Removed(pending, cur[t])
    BY <1>7 DEF Forget
  <2>2. Members(pending') \subseteq Members(pending)
    BY <2>1, <1>a, RemovedType
  <2> QED
    BY <2>1, <2>2, <1>5 DEF Holding
<1>8. CASE ForgetId(t)
  BY <1>8, <1>5 DEF ForgetId, Holding
<1>9. CASE Write(t)
  <2>1. /\ pc[t] = "write" /\ pc' = [pc EXCEPT ![t] = Home(t)] /\ UNCHANGED <<cur, pending, history>>
        /\ released' \subseteq released \cup {cur[t]}
    BY <1>9 DEF Write, lists
  <2>2. cur[t] \in Id
    BY <2>1, <1>a, <1>c DEF HandsFull
  <2>3. ASSUME NEW i \in Id, i = cur[t] PROVE Asked(i)'
    BY <2>1, <2>3, <1>c, <1>d DEF HandsAsked, Holding
  <2>4. \A i \in (released \cup Members(pending) \cup Members(history))' :
            i = Null \/ i \in released \cup Members(pending) \cup Members(history) \/ Asked(i)'
    BY <2>1, <2>2, <2>3
  <2>5. ASSUME NEW u \in Thread, NEW i \in Id', pc'[u] \in Holding, cur'[u] = i
        PROVE  pc[u] \in Holding /\ cur[u] = i /\ i \in Id
    BY <2>1, <2>5, <1>a, <1>b DEF Holding, Home
  <2> QED
    BY <2>4, <2>5, <1>c, <1>d, AskFrame
<1> QED
  BY <1>2, <1>3, <1>4, <1>6, <1>7, <1>8, <1>9 DEF Verdict

(* A torn list holds asked packets only. *)
LEMMA AskTorn ==
  ASSUME TypeOK, IInv, TornPending \/ TornHistory
  PROVE  ListsAsked' /\ HandsAsked'
<1> USE DEF Thread
<1> DEFINE S == Id \cup {Null}
           w == cur["worker"]
           r == cur["receiver"]
<1>a. /\ pc \in [Thread -> Place] /\ cur \in [Thread -> S] /\ Null \notin Id /\ Null \in S
      /\ pending \in Seq(S) /\ history \in Seq(S) /\ w \in S /\ r \in S
  BY DEF TypeOK, TypeThreads, TypeLists, Id, Null
<1>b. packets' = packets /\ Id' = Id /\ UNCHANGED <<ipqserver, sent, cur, released>>
  BY DEF TornPending, TornHistory, outside, life, Id
<1>c. ListsAsked /\ HandsAsked
  BY DEF IInv
<1>d. \A i \in Id : Asked(i) => Asked(i)'
  <2>1. Asking = {}
    BY DEF TornPending, TornHistory, Asking
  <2> QED
    BY <2>1, <1>b, AskedStays
<1>e. ASSUME NEW t \in Thread, NEW i \in Id, pc[t] \in Holding, cur[t] = i PROVE Asked(i)'
  BY <1>e, <1>c, <1>d DEF HandsAsked
<1>f. pc["receiver"] \in Holding
  BY DEF TornPending, TornHistory, Holding
<1>1. ASSUME (released \cup Members(pending) \cup Members(history))'
                \subseteq released \cup Members(pending) \cup Members(history) \cup {w, r, Null},
             w \in Id /\ w \in (released \cup Members(pending) \cup Members(history))' => Asked(w)',
             \A t \in Thread : pc'[t] \in Holding => pc[t] \in Holding
      PROVE  ListsAsked' /\ HandsAsked'
  <2>1. ASSUME NEW i \in (released \cup Members(pending) \cup Members(history))'
        PROVE  i = Null \/ i \in released \cup Members(pending) \cup Members(history) \/ Asked(i)'
    <3>1. CASE i = r /\ i \in Id
      BY <3>1, <1>e, <1>f
    <3>2. CASE i = w /\ i \in Id
      BY <3>2, <1>1, <1>b, <2>1 DEF Asked
    <3> QED
      BY <3>1, <3>2, <2>1, <1>1, <1>a
  <2>2. ASSUME NEW t \in Thread, NEW i \in Id', pc'[t] \in Holding, cur'[t] = i
        PROVE  pc[t] \in Holding /\ cur[t] = i /\ i \in Id
    BY <2>2, <1>1, <1>b
  <2> QED
    BY <2>1, <2>2, <1>c, <1>d, AskFrame
<1>2. CASE TornPending
  <2>1. Members(pending') \subseteq Members(pending) \cup {w, Null}
    <3>1. pending' \in AddRemoveTorn(pending, w, r) \cup RemoveRemoveTorn(pending, w, r)
      BY <1>2 DEF TornPending
    <3> HIDE DEF S, w, r
    <3> QED
      BY <3>1, <1>a, TornMembers
  <2>2. UNCHANGED history
    BY <1>2 DEF TornPending
  <2>3. CASE pc["worker"] = "add"
    <3>1. pc' = [pc EXCEPT !["worker"] = "send", !["receiver"] = "ids"]
      BY <1>2, <2>3 DEF TornPending
    <3>2. w \in Asking' /\ w = w'
      BY <3>1, <1>a, <1>b DEF Asking
    <3>3. Asked(w)'
      BY <3>2 DEF Asked
    <3>4. \A t \in Thread : pc'[t] \in Holding => pc[t] \in Holding
      BY <3>1, <1>a, <1>f DEF Holding
    <3> QED
      BY <2>1, <2>2, <3>3, <3>4, <1>1, <1>b
  <2>4. CASE pc["worker"] = "forget"
    <3>1. pc' = [pc EXCEPT !["worker"] = "ids", !["receiver"] = "ids"]
      BY <1>2, <2>4 DEF TornPending
    <3>2. pc["worker"] \in Holding
      BY <2>4 DEF Holding
    <3>3. w \in Id => Asked(w)'
      <4>1. ASSUME NEW i \in Id, i = w PROVE Asked(i)'
        BY <4>1, <3>2, <1>e
      <4> QED
        BY <4>1, <1>b DEF Asked
    <3>4. \A t \in Thread : pc'[t] \in Holding => pc[t] \in Holding
      BY <3>1, <3>2, <1>a, <1>f
    <3> QED
      BY <2>1, <2>2, <3>3, <3>4, <1>1, <1>b
  <2> QED
    BY <1>2, <2>3, <2>4 DEF TornPending
<1>3. CASE TornHistory
  <2>1. UNCHANGED pending
    BY <1>3 DEF TornHistory
  <2>2. CASE pc["worker"] = "keep"
    <3>1. pc' = [pc EXCEPT !["worker"] = "forget", !["receiver"] = "forget"]
          /\ history' \in AddAddTorn(history, w, r)
      BY <1>3, <2>2 DEF TornHistory
    <3>2. Members(history') \subseteq Members(history) \cup {w, r}
      <4> HIDE DEF S, w, r
      <4> QED
        BY <3>1, <1>a, TornMembers
    <3>3. pc["worker"] \in Holding
      BY <2>2 DEF Holding
    <3>4. w \in Id => Asked(w)'
      <4>1. ASSUME NEW i \in Id, i = w PROVE Asked(i)'
        BY <4>1, <3>3, <1>e
      <4> QED
        BY <4>1, <1>b DEF Asked
    <3>5. \A t \in Thread : pc'[t] \in Holding => pc[t] \in Holding
      BY <3>1, <3>3, <1>a, <1>f
    <3> QED
      BY <2>1, <3>2, <3>4, <3>5, <1>1, <1>b
  <2>3. CASE pc["worker"] = "history"
    <3>1. /\ pc' = [pc EXCEPT !["worker"] = "pending", !["receiver"] = "forget"]
          /\ \E i \in 1..Len(history) : history' \in AddRemoveTorn(history, r, history[i])
      BY <1>3, <2>3 DEF TornHistory
    <3>2. Members(history') \subseteq Members(history) \cup {r, Null}
      <4>1. \A i \in 1..Len(history) : history[i] \in S
        BY <1>a
      <4> HIDE DEF S, w, r
      <4> QED
        BY <4>1, <3>1, <1>a, TornMembers
    <3>3. \A i \in (released \cup Members(pending) \cup Members(history))' :
             i = Null \/ i \in released \cup Members(pending) \cup Members(history) \/ Asked(i)'
      <4>1. ASSUME NEW i \in Id, i = r PROVE Asked(i)'
        BY <4>1, <1>e, <1>f
      <4> QED
        BY <4>1, <3>2, <2>1, <1>a, <1>b
    <3>4. ASSUME NEW t \in Thread, NEW i \in Id', pc'[t] \in Holding, cur'[t] = i
          PROVE  pc[t] \in Holding /\ cur[t] = i /\ i \in Id
      BY <3>1, <3>4, <1>a, <1>b, <1>f DEF Holding
    <3> QED
      BY <3>3, <3>4, <1>c, <1>d, AskFrame
  <2> QED
    BY <1>3, <2>2, <2>3 DEF TornHistory
<1> QED
  BY <1>2, <1>3

(* Nothing else touches lists or hands. *)
LEMMA AskOthers ==
  ASSUME TypeOK, IInv,
         (\E d \in Remote \cup Local : Arrive(d)) \/ Receiver \/ StopRR \/ Environment \/ UNCHANGED vars
  PROVE  ListsAsked' /\ HandsAsked'
<1> USE DEF Thread, Goto
<1>a. pc \in [Thread -> Place] /\ cur \in [Thread -> Id \cup {Null}] /\ Null \notin Id
  BY DEF TypeOK, TypeThreads, Id, Null
<1>c. ListsAsked /\ HandsAsked /\ HandsFull
  BY DEF IInv
<1>1. ASSUME UNCHANGED <<released, pending, history, cur>>,
             \A i \in Id : Asked(i) => Asked(i)',
             \A t \in Thread : pc'[t] \in Holding => pc'[t] = pc[t]
      PROVE  ListsAsked' /\ HandsAsked'
  <2>1. ASSUME NEW t \in Thread, NEW i \in Id', pc'[t] \in Holding, cur'[t] = i
        PROVE  (pc[t] \in Holding /\ cur[t] = i /\ i \in Id) \/ Asked(i)'
    <3>1. i # Null
      BY <2>1 DEF Id, Null
    <3> QED
      BY <1>1, <2>1, <3>1, <1>a
  <2> QED
    BY <1>1, <2>1, <1>c, AskFrame
<1>2. ASSUME NEW d \in Remote \cup Local, Arrive(d)
      PROVE  ListsAsked' /\ HandsAsked'
  <2>1. /\ packets' = Append(packets, d) /\ UNCHANGED <<released, pending, history, cur, ipqserver, sent>>
        /\ pc' = [pc EXCEPT !["worker"] = IF @ = "waiting" THEN "check" ELSE @]
    BY <1>2 DEF Arrive, lists, life
  <2>2. Asking \subseteq Id
    BY <1>a, <1>c DEF Asking, HandsFull, Entering
  <2>3. sent \subseteq Id /\ Asking' = Asking
    BY <2>1, <1>a DEF Asking, TypeOK, TypeOutside
  <2>4. \A i \in Id : packets'[i] = packets[i]
    BY <2>1 DEF Id, TypeOK, TypeData
  <2>5. \A i \in Id : Asked(i) => Asked(i)'
    BY <2>1, <2>2, <2>3, <2>4 DEF Asked
  <2>6. \A t \in Thread : pc'[t] \in Holding => pc'[t] = pc[t]
    BY <2>1, <1>a DEF Holding
  <2> QED
    BY <2>1, <2>5, <2>6, <1>1
<1>3. ASSUME UNCHANGED <<packets, sent, released, pending, history, cur>>,
             ipqserver = "killed" => ipqserver' = "killed",
             pc'["worker"] = pc["worker"],
             pc'["receiver"] = pc["receiver"] \/ pc'["receiver"] \notin Holding
      PROVE  ListsAsked' /\ HandsAsked'
  <2>1. Asking' = Asking
    BY <1>3 DEF Asking
  <2>2. \A i \in Id : Asked(i) => Asked(i)'
    BY <2>1, <1>3, AskedStays
  <2> QED
    BY <2>2, <1>1, <1>3
<1>4. CASE Receiver
  BY <1>4, <1>3, <1>a DEF Receiver, ReceiveGrant, ReceiveKeepAlive, Event, ReceiveFails, Exception,
     outside, lists, life, Holding
<1>5. CASE StopRR \/ Environment \/ UNCHANGED vars
  BY <1>5, <1>3 DEF StopRR, Environment, Tick, VPNOpened, GatewayGrants, LinkBreaks, outside, lists,
     threads, life, vars
<1> QED
  BY <1>2, <1>4, <1>5

-----------------------------------------------------------------------------
(* The lists hold asked packets from the first state on. *)
LEMMA IInvHolds == Spec => [](TypeOK /\ IInv)
<1>1. Init => TypeOK /\ IInv
  <2> SUFFICES ASSUME Init PROVE TypeOK /\ IInv
    OBVIOUS
  <2>1. TypeData /\ TypeOutside
    BY ResourceRequestsAssumption DEF Init, TypeData, TypeOutside
  <2>2. TypeLists /\ TypeThreads
    BY DEF Init, TypeLists, TypeThreads, Thread, Place
  <2>3. HandsFull /\ InOrder
    BY DEF Init, HandsFull, InOrder, Taken, Thread, Entering
  <2>4. ListsAsked /\ HandsAsked
    BY DEF Init, ListsAsked, HandsAsked, Members, Thread, Holding
  <2> QED
    BY <2>1, <2>2, <2>3, <2>4 DEF TypeOK, IInv
<1>2. TypeOK /\ IInv /\ [Next]_vars => (TypeOK /\ IInv)'
  <2> SUFFICES ASSUME TypeOK, IInv, [Next]_vars PROVE (TypeOK /\ IInv)'
    OBVIOUS
  <2>0. HandsFull /\ InOrder
    BY DEF IInv
  <2>1. \/ Worker \/ (\E t \in Thread : Verdict(t)) \/ TornPending \/ TornHistory
        \/ (\E d \in Remote \cup Local : Arrive(d)) \/ Receiver \/ StopRR \/ Environment
        \/ UNCHANGED vars
    BY DEF Next
  <2>2. TypeOK'
    <3>1. CASE UNCHANGED vars
      <4>1. Id' = Id
        BY <3>1 DEF vars, outside, Id
      <4> QED
        BY <3>1, <4>1 DEF vars, outside, lists, threads, life, TypeOK, TypeData, TypeLists, TypeThreads,
           TypeOutside
    <3> QED
      BY <2>0, <2>1, <3>1, TypeWorker, TypeVerdict, TypeTorn, TypeOthers
  <2>3. HandsFull' /\ InOrder'
    BY <2>0, HandsStep, OrderStep
  <2>4. ListsAsked' /\ HandsAsked'
    BY <2>1, AskWorker, AskVerdict, AskTorn, AskOthers
  <2> QED
    BY <2>2, <2>3, <2>4 DEF IInv
<1> QED
  BY <1>1, <1>2, PTL DEF Spec

(* Fields and lists keep their types although two threads change the lists  *)
(* without a lock, for any number of packets.                               *)
THEOREM TypeCorrect == Spec => []TypeOK
BY IInvHolds, PTL

(* The client makes a signed request for every destination behind the       *)
(* gateway to which it releases a packet, for any destinations, any number  *)
(* of packets and any interleaving of the two threads.                      *)
THEOREM RequestsCome == Spec => []AskedFirst
<1>1. TypeOK /\ IInv => AskedFirst
  <2> SUFFICES ASSUME TypeOK, IInv, NEW i \in released, packets[i] \in Remote
               PROVE  ipqserver = "killed" \/ \E j \in sent \cup Asking : packets[j] = packets[i]
    BY DEF AskedFirst
  <2>1. i # Null
    BY DEF TypeOK, TypeOutside, Id, Null
  <2> QED
    BY <2>1 DEF IInv, ListsAsked, Asked
<1> QED
  BY <1>1, IInvHolds, PTL
-----------------------------------------------------------------------------
(* Nothing is forgotten.  The packets whose request is made, and, while the *)
(* worker sends one, that this packet is among them or in the receiver's    *)
(* hands: the reactions that follow overwrite what the worker holds.        *)
Settled == Members(pending) \cup released \cup dropped

SendKept ==
  pc["worker"] = "send" =>
    \/ cur["worker"] \in Settled
    \/ pc["receiver"] \in Holding /\ cur["receiver"] = cur["worker"]

AllKept == \A i \in Id : i \in Members(workspace) \cup Settled \/ InHand(i)

Accounted == ipqserver = "up" /\ app = "runs" => AllKept /\ SendKept

(* Without loses no element but the one it drops. *)
LEMMA WithoutKeeps ==
  ASSUME NEW S, NEW s \in Seq(S), NEW i \in 1..Len(s)
  PROVE  Members(s) \subseteq Members(Without(s, i)) \cup {s[i]}
<1> DEFINE r == Without(s, i)
<1>1. r = [j \in 1..(Len(s) - 1) |-> IF j < i THEN s[j] ELSE s[j + 1]]
  BY DEF Without
<1>2. r \in Seq(S) /\ Len(r) = Len(s) - 1
  BY <1>1, WithoutType
<1> SUFFICES ASSUME NEW k \in 1..Len(s), k # i
             PROVE  \E j \in 1..Len(r) : r[j] = s[k]
  BY DEF Members
<1>3. CASE k < i
  BY <1>1, <1>2, <1>3
<1>4. CASE k > i
  <2>1. k - 1 \in 1..Len(r) /\ r[k - 1] = s[k]
    BY <1>1, <1>2, <1>4
  <2> QED
    BY <2>1
<1> QED
  BY <1>3, <1>4

(* The same of list.remove. *)
LEMMA RemovedKeeps ==
  ASSUME NEW S, NEW s \in Seq(S), NEW e
  PROVE  Members(s) \subseteq Members(Removed(s, e)) \cup {e}
<1>1. CASE e \in Members(s)
  <2>1. PICK k \in 1..Len(s) : s[k] = e /\ Removed(s, e) = Without(s, k)
    BY <1>1, RemovedAt
  <2> QED
    BY <2>1, WithoutKeeps
<1>2. CASE e \notin Members(s)
  BY <1>2 DEF Removed
<1> QED
  BY <1>1, <1>2

(* Append keeps every element and has the new one. *)
LEMMA AppendKeeps ==
  ASSUME NEW S, NEW s \in Seq(S), NEW e \in S
  PROVE  Members(s) \cup {e} \subseteq Members(Append(s, e))
<1>1. /\ Len(Append(s, e)) = Len(s) + 1 /\ Append(s, e)[Len(s) + 1] = e
      /\ \A j \in 1..Len(s) : Append(s, e)[j] = s[j]
  OBVIOUS
<1> QED
  BY <1>1 DEF Members

(* The head of a queue and the rest are all of it. *)
LEMMA TailKeeps ==
  ASSUME NEW S, NEW s \in Seq(S), s # <<>>
  PROVE  Members(s) \subseteq Members(Tail(s)) \cup {Head(s)}
<1>1. /\ Len(Tail(s)) = Len(s) - 1 /\ Head(s) = s[1]
      /\ \A j \in 1..Len(Tail(s)) : Tail(s)[j] = s[j + 1]
  OBVIOUS
<1> SUFFICES ASSUME NEW k \in 1..Len(s), k # 1
             PROVE  \E j \in 1..Len(Tail(s)) : Tail(s)[j] = s[k]
  BY <1>1 DEF Members
<1>2. k - 1 \in 1..Len(Tail(s)) /\ Tail(s)[k - 1] = s[k]
  BY <1>1
<1> QED
  BY <1>2

Hands == Entering \cup Holding

(* A packet is in hand when a thread works on it at one of those places. *)
LEMMA InHandIs == \A i : InHand(i) <=> (\E t \in Thread : cur[t] = i /\ pc[t] \in Hands)
BY DEF InHand, Hands, Entering, Holding

(* The same in the next state. *)
LEMMA InHandIsNext == \A i : InHand(i)' <=> (\E t \in Thread : cur'[t] = i /\ pc'[t] \in Hands)
BY DEF InHand, Hands, Entering, Holding, Thread

(* A thread that keeps its packet in its hands, or has none there and takes *)
(* any, makes no other packet unsafe and keeps the one being sent.          *)
LEMMA KeptMove ==
  ASSUME TypeOK, AllKept, SendKept, NEW t \in Thread, NEW p,
         pc' = [pc EXCEPT ![t] = p], Id' = Id,
         \A u \in Thread \ {t} : cur'[u] = cur[u],
         (pc[t] \in Hands => p \in Hands /\ cur'[t] = cur[t])
           \/ cur[t] \in (Members(workspace) \cup Settled)',
         Members(workspace) \cup Settled \subseteq (Members(workspace) \cup Settled)' \cup {cur'[t]},
         cur'[t] \in Members(workspace) \cup Settled =>
            cur'[t] \in (Members(workspace) \cup Settled)' \/ p \in Hands
  PROVE  AllKept'
<1>1. pc \in [Thread -> Place] /\ t \in Thread
  BY DEF TypeOK, TypeThreads
<1>2. pc'[t] = p /\ \A u \in Thread \ {t} : pc'[u] = pc[u]
  BY <1>1
<1> SUFFICES ASSUME NEW i \in Id PROVE i \in (Members(workspace) \cup Settled)' \/ InHand(i)'
  BY DEF AllKept
<1>3. i \in Members(workspace) \cup Settled \/ InHand(i)
  BY DEF AllKept
<1>4. CASE i \in Members(workspace) \cup Settled
  <2>1. CASE i = cur'[t]
    BY <1>2, <1>4, <2>1, InHandIsNext
  <2>2. CASE i # cur'[t]
    BY <1>4, <2>2
  <2> QED
    BY <2>1, <2>2
<1>5. CASE InHand(i)
  <2>1. PICK u \in Thread : cur[u] = i /\ pc[u] \in Hands
    BY <1>5, InHandIs
  <2>2. CASE u = t
    BY <1>2, <2>1, <2>2, InHandIsNext
  <2>3. CASE u # t
    BY <1>2, <2>1, <2>3, InHandIsNext
  <2> QED
    BY <2>2, <2>3
<1> QED
  BY <1>3, <1>4, <1>5

(* The worker forgets no packet while it makes an entry and sends. *)
LEMMA KeptWorker ==
  ASSUME TypeOK, IInv, AllKept, SendKept, Worker, ipqserver' = "up", app' = "runs"
  PROVE  AllKept' /\ SendKept'
<1> USE DEF Thread, Goto
<1> DEFINE w == cur["worker"]
<1>a. /\ pc \in [Thread -> Place] /\ cur \in [Thread -> Id \cup {Null}] /\ "worker" \in Thread
      /\ pending \in Seq(Id \cup {Null}) /\ workspace \in Seq(Id)
  BY DEF TypeOK, TypeThreads, TypeLists
<1>b. Id' = Id
  BY DEF Worker, NotReady, Wait, Take, TestUnknown, TestRelease, TestRequest, AddEntry, HistoryMiss,
     HistoryHit, HistoryOutdated, PendingMiss, PendingHit, PendingOutdated, WalkFails, Add,
     GenerateFails, Send, SendFails, Exception, Id, outside
<1>c. pc["worker"] \in Entering => w \in Id
  BY <1>a DEF IInv, HandsFull
<1>1. CASE NotReady \/ Wait \/ TestRelease \/ TestRequest \/ HistoryMiss \/ HistoryHit
           \/ HistoryOutdated \/ PendingMiss \/ PendingHit
  <2>1. /\ \E p \in {"wait", "waiting", "history", "pending", "add", "ids"} :
             pc' = [pc EXCEPT !["worker"] = p] /\ (pc["worker"] \in Hands => p \in Hands)
        /\ UNCHANGED <<cur, workspace, pending, released, dropped>>
    BY <1>1 DEF NotReady, Wait, TestRelease, TestRequest, HistoryMiss, HistoryHit, HistoryOutdated,
       PendingMiss, PendingHit, lists, Hands, Entering, Holding
  <2>2. AllKept'
    BY <2>1, <1>a, <1>b, KeptMove DEF Settled
  <2>3. SendKept'
    BY <2>1, <1>a DEF SendKept
  <2> QED
    BY <2>2, <2>3
<1>2. CASE Take
  <2>1. /\ pc["worker"] = "check" /\ workspace # <<>>
        /\ pc' = [pc EXCEPT !["worker"] = "test"] /\ workspace' = Tail(workspace)
        /\ cur' = [cur EXCEPT !["worker"] = Head(workspace)]
        /\ UNCHANGED <<pending, released, dropped>>
    BY <1>2 DEF Take, lists
  <2>2. Members(workspace) \subseteq Members(workspace') \cup {cur'["worker"]}
    BY <2>1, <1>a, TailKeeps
  <2>3. /\ \A u \in Thread \ {"worker"} : cur'[u] = cur[u]
        /\ "test" \in Hands /\ pc["worker"] \notin Hands
    BY <2>1, <1>a DEF Hands, Entering, Holding
  <2>4. AllKept'
    BY <2>1, <2>2, <2>3, <1>a, <1>b, KeptMove DEF Settled
  <2>5. SendKept'
    BY <2>1, <1>a DEF SendKept
  <2> QED
    BY <2>4, <2>5
<1>3. CASE TestUnknown \/ WalkFails \/ GenerateFails \/ SendFails
  BY <1>3 DEF TestUnknown, WalkFails, GenerateFails, SendFails, Exception
<1>4. CASE PendingOutdated
  <2>1. /\ pc' = [pc EXCEPT !["worker"] = "add"] /\ UNCHANGED <<cur, workspace, released>>
        /\ \E k \in 1..Len(pending) : pending' = Without(pending, k) /\ dropped' = dropped \cup {pending[k]}
    BY <1>4 DEF PendingOutdated
  <2>2. Settled \subseteq Settled'
    BY <2>1, <1>a, WithoutKeeps DEF Settled
  <2>3. AllKept'
    BY <2>1, <2>2, <1>a, <1>b, KeptMove DEF Hands, Entering
  <2>4. SendKept'
    BY <2>1, <1>a DEF SendKept
  <2> QED
    BY <2>3, <2>4
<1>5. CASE Add
  <2>1. /\ pc["worker"] = "add" /\ pc' = [pc EXCEPT !["worker"] = "send"]
        /\ UNCHANGED <<cur, workspace, released, dropped>> /\ pending' = Append(pending, w)
    BY <1>5 DEF Add
  <2>2. Members(pending) \cup {w} \subseteq Members(pending')
    BY <2>1, <1>a, AppendKeeps
  <2>3. AllKept'
    BY <2>1, <2>2, <1>a, <1>b, KeptMove DEF Hands, Entering, Settled
  <2>4. SendKept'
    BY <2>1, <2>2 DEF SendKept, Settled
  <2> QED
    BY <2>3, <2>4
<1>6. CASE Send
  <2>1. /\ pc["worker"] = "send" /\ pc' = [pc EXCEPT !["worker"] = "react"]
        /\ UNCHANGED <<cur, workspace, pending, released, dropped>>
    BY <1>6 DEF Send, lists
  <2>2. UNCHANGED Settled
    BY <2>1 DEF Settled
  <2>3. ASSUME w \in Settled PROVE AllKept'
    BY <2>1, <2>2, <2>3, <1>a, <1>b, KeptMove
  <2>4. ASSUME pc["receiver"] \in Holding, cur["receiver"] = w PROVE AllKept'
    <3> SUFFICES ASSUME NEW i \in Id PROVE i \in (Members(workspace) \cup Settled)' \/ InHand(i)'
      BY <1>b DEF AllKept
    <3>1. CASE i \in Members(workspace) \cup Settled
      BY <3>1, <2>1, <2>2
    <3>2. CASE InHand(i)
      <4>1. (cur["receiver"] = i /\ pc["receiver"] \in Hands) \/ w = i
        BY <3>2, InHandIs
      <4>2. cur'["receiver"] = i /\ pc'["receiver"] \in Hands
        BY <4>1, <2>1, <2>4, <1>a DEF Hands
      <4> QED
        BY <4>2, InHandIsNext
    <3> QED
      BY <3>1, <3>2 DEF AllKept
  <2>5. AllKept'
    BY <2>1, <2>3, <2>4 DEF SendKept
  <2>6. SendKept'
    BY <2>1, <1>a DEF SendKept
  <2> QED
    BY <2>5, <2>6
<1> QED
  BY <1>1, <1>2, <1>3, <1>4, <1>5, <1>6 DEF Worker, AddEntry

(* A reaction that keeps its packet in its hands, or settles it, keeps all  *)
(* packets, the one the worker sends among them.                            *)
LEMMA KeptReaction ==
  ASSUME TypeOK, AllKept, SendKept, NEW t \in Thread, NEW p, p # "send",
         pc' = [pc EXCEPT ![t] = p], Id' = Id, workspace' = workspace, pc[t] \notin Entering,
         \A u \in Thread \ {t} : cur'[u] = cur[u],
         pc[t] \in Holding => cur'[t] = cur[t] /\ (p \in Holding \/ cur[t] \in Settled'),
         Settled \subseteq Settled' \cup {cur'[t]},
         cur'[t] \in Settled => cur'[t] \in Settled' \/ p \in Holding
  PROVE  AllKept' /\ SendKept'
<1>1. pc \in [Thread -> Place] /\ t \in {"worker", "receiver"} /\ "worker" \in Thread
      /\ "receiver" \in Thread
  BY DEF TypeOK, TypeThreads, Thread
<1>2. pc'[t] = p /\ \A u \in Thread \ {t} : pc'[u] = pc[u]
  BY <1>1
<1>3. AllKept'
  BY KeptMove DEF Hands
<1>4. SendKept'
  <2> SUFFICES ASSUME pc'["worker"] = "send"
               PROVE  cur'["worker"] \in Settled'
                        \/ (pc'["receiver"] \in Holding /\ cur'["receiver"] = cur'["worker"])
    BY DEF SendKept
  <2>1. t = "receiver" /\ pc["worker"] = "send" /\ cur'["worker"] = cur["worker"]
    BY <1>1, <1>2
  <2>2. cur["worker"] \in Settled \/ (pc["receiver"] \in Holding /\ cur["receiver"] = cur["worker"])
    BY <2>1 DEF SendKept
  <2>3. CASE cur["worker"] \in Settled
    <3>1. CASE cur["worker"] = cur'["receiver"]
      BY <3>1, <2>1, <2>3, <1>2
    <3>2. CASE cur["worker"] # cur'["receiver"]
      BY <3>2, <2>1, <2>3
    <3> QED
      BY <3>1, <3>2
  <2>4. CASE pc["receiver"] \in Holding /\ cur["receiver"] = cur["worker"]
    BY <2>1, <2>4, <1>2
  <2> QED
    BY <2>2, <2>3, <2>4
<1> QED
  BY <1>3, <1>4

(* The reactions forget no packet, on either thread. *)
LEMMA KeptVerdict ==
  ASSUME TypeOK, AllKept, SendKept, NEW t \in Thread, Verdict(t), ipqserver' = "up", app' = "runs"
  PROVE  AllKept' /\ SendKept'
<1> USE DEF Goto
<1>a. /\ pc \in [Thread -> Place] /\ cur \in [Thread -> Id \cup {Null}]
      /\ pending \in Seq(Id \cup {Null}) /\ t \in {"worker", "receiver"}
  BY DEF TypeOK, TypeThreads, TypeLists, Thread
<1>b. Id' = Id /\ workspace' = workspace
  BY DEF Verdict, ReactKeepAlive, ClearLatest, ReactGrant, ReadGrant, Find, Look, Get, Keep, Forget, ForgetId,
     Write, VerdictFails, Exception, Id, outside
<1>1. CASE ReactKeepAlive(t) \/ ClearLatest(t) \/ ReactGrant(t) \/ ReadGrant(t) \/ Find(t) \/ Look(t) \/ Get(t)
  <2>1. /\ pc[t] \notin Entering \cup Holding /\ \A u \in Thread \ {t} : cur'[u] = cur[u]
        /\ UNCHANGED <<pending, released, dropped>>
    BY <1>1, <1>a DEF ReactKeepAlive, ClearLatest, ReactGrant, ReadGrant, Find, Look, Get, lists, Entering,
       Holding
  <2>2. \E p \in Place \ {"send"} : pc' = [pc EXCEPT ![t] = p]
    BY <1>1, <1>a DEF ReactKeepAlive, ClearLatest, ReactGrant, ReadGrant, Find, Look, Get, Place, Home
  <2>3. Settled' = Settled
    BY <2>1 DEF Settled
  <2> QED
    BY <2>1, <2>2, <2>3, <1>b, KeptReaction
<1>2. CASE Keep(t) \/ ForgetId(t)
  <2>1. /\ pc[t] \in Holding \ Entering /\ UNCHANGED <<cur, pending, released, dropped>>
        /\ \E p \in Holding \ {"send"} : pc' = [pc EXCEPT ![t] = p]
    BY <1>2 DEF Keep, ForgetId, Holding, Entering
  <2>2. Settled' = Settled
    BY <2>1 DEF Settled
  <2> QED
    BY <2>1, <2>2, <1>b, KeptReaction
<1>3. CASE Forget(t)
  <2>1. /\ pc[t] \in Holding \ Entering /\ UNCHANGED <<cur, released, dropped>>
        /\ pc' = [pc EXCEPT ![t] = "ids"] /\ "ids" \in Holding /\ pending' = Removed(pending, cur[t])
    BY <1>3 DEF Forget, Holding, Entering
  <2>2. Settled \subseteq Settled' \cup {cur'[t]}
    BY <2>1, <1>a, RemovedKeeps DEF Settled
  <2> QED
    BY <2>1, <2>2, <1>b, KeptReaction
<1>4. CASE Write(t)
  <2>1. /\ pc[t] \in Holding \ Entering /\ UNCHANGED <<cur, pending, dropped>>
        /\ pc' = [pc EXCEPT ![t] = Home(t)] /\ Home(t) # "send" /\ released' = released \cup {cur[t]}
    BY <1>4 DEF Write, Holding, Entering, Home, lists, life
  <2>2. Settled' = Settled \cup {cur[t]}
    BY <2>1 DEF Settled
  <2> QED
    BY <2>1, <2>2, <1>b, KeptReaction
<1>5. CASE VerdictFails(t)
  BY <1>5 DEF VerdictFails, Exception
<1> QED
  BY <1>1, <1>2, <1>3, <1>4, <1>5 DEF Verdict

(* A torn list loses packets only to dropped, or to a thread's hands. *)
LEMMA KeptTorn ==
  ASSUME TypeOK, HandsFull, AllKept, SendKept, TornPending \/ TornHistory
  PROVE  AllKept' /\ SendKept'
<1> USE DEF Thread
<1> DEFINE w == cur["worker"]
           r == cur["receiver"]
<1>a. pc \in [Thread -> Place] /\ cur \in [Thread -> Id \cup {Null}] /\ Null \notin Id
  BY DEF TypeOK, TypeThreads, Id, Null
<1>b. Id' = Id /\ UNCHANGED <<workspace, cur, released>>
  BY DEF TornPending, TornHistory, Id, outside
<1>1. /\ pc["receiver"] \in Hands /\ pc'["receiver"] \in Holding
      /\ pc["worker"] \in Hands /\ pc'["worker"] \in Hands
  BY <1>a DEF TornPending, TornHistory, Hands, Entering, Holding
<1>2. Members(pending) \cup {w} \subseteq Settled' \cup {r, Null}
        \/ (pc'["worker"] # "send" /\ Settled' = Settled)
  <2>1. CASE TornPending
    <3>1. dropped' = dropped \cup (((Members(pending) \cup {w}) \ Members(pending')) \ {r, Null})
      BY <2>1 DEF TornPending
    <3> QED
      BY <3>1 DEF Settled
  <2>2. CASE TornHistory
    <3>1. pc'["worker"] # "send" /\ UNCHANGED <<pending, dropped>>
      BY <2>2, <1>a DEF TornHistory
    <3> QED
      BY <3>1, <1>b DEF Settled
  <2> QED
    BY <2>1, <2>2
<1>3. Settled \subseteq Settled' \cup {r, Null}
  <2>1. dropped \subseteq dropped'
    BY DEF TornPending, TornHistory
  <2> QED
    BY <2>1, <1>2, <1>b DEF Settled
<1>4. AllKept'
  <2> SUFFICES ASSUME NEW i \in Id PROVE i \in (Members(workspace) \cup Settled)' \/ InHand(i)'
    BY <1>b DEF AllKept
  <2>1. CASE i \in Members(workspace) \cup Settled
    <3>1. CASE i = r
      BY <3>1, <1>1, <1>b, InHandIsNext DEF Hands
    <3> QED
      BY <3>1, <2>1, <1>3, <1>a, <1>b
  <2>2. CASE InHand(i)
    <3>1. i = w \/ i = r
      BY <2>2, InHandIs
    <3> QED
      BY <3>1, <1>1, <1>b, InHandIsNext DEF Hands
  <2> QED
    BY <2>1, <2>2 DEF AllKept
<1>5. SendKept'
  <2> SUFFICES ASSUME pc'["worker"] = "send"
               PROVE  w \in Settled' \/ r = w
    BY <1>1, <1>b DEF SendKept
  <2>1. pc["worker"] = "add"
    BY <1>a DEF TornPending, TornHistory
  <2>2. w # Null
    BY <2>1 DEF HandsFull, Entering
  <2> QED
    BY <2>2, <1>2
<1> QED
  BY <1>4, <1>5

(* Nothing else takes a packet out of a list or a thread's hands, and the   *)
(* reader puts the new one into the workspace.                              *)
LEMMA KeptOthers ==
  ASSUME TypeOK, AllKept, SendKept, ipqserver' = "up",
         (\E d \in Remote \cup Local : Arrive(d)) \/ Receiver \/ StopRR \/ Environment \/ UNCHANGED vars
  PROVE  AllKept' /\ SendKept'
<1> USE DEF Thread, Goto
<1>a. pc \in [Thread -> Place] /\ workspace \in Seq(Id) /\ packets \in Seq(Remote \cup Local)
  BY DEF TypeOK, TypeThreads, TypeLists, TypeData
<1>1. ASSUME UNCHANGED <<cur, pending, released, dropped>>,
             Members(workspace) \subseteq Members(workspace'),
             \A i \in Id' : i \in Id \/ i \in Members(workspace'),
             pc'["worker"] = "send" <=> pc["worker"] = "send",
             \A t \in Thread : (pc[t] \in Hands => pc'[t] = pc[t])
      PROVE  AllKept' /\ SendKept'
  <2>1. Settled' = Settled
    BY <1>1 DEF Settled
  <2>2. \A i : InHand(i) => InHand(i)'
    BY <1>1, InHandIs, InHandIsNext
  <2>3. AllKept'
    BY <1>1, <2>1, <2>2 DEF AllKept
  <2>4. SendKept'
    BY <1>1, <2>1 DEF SendKept, Hands
  <2> QED
    BY <2>3, <2>4
<1>2. ASSUME NEW d \in Remote \cup Local, Arrive(d)
      PROVE  AllKept' /\ SendKept'
  <2>1. /\ packets' = Append(packets, d) /\ workspace' = Append(workspace, Len(packets) + 1)
        /\ UNCHANGED <<cur, pending, released, dropped>>
        /\ pc' = [pc EXCEPT !["worker"] = IF @ = "waiting" THEN "check" ELSE @]
    BY <1>2 DEF Arrive, lists
  <2>2. Members(workspace) \cup {Len(packets) + 1} \subseteq Members(workspace')
    <3>1. workspace \in Seq(Nat) /\ Len(packets) + 1 \in Nat
      BY <1>a DEF Id
    <3> QED
      BY <3>1, <2>1, AppendKeeps
  <2>3. \A i \in Id' : i \in Id \/ i = Len(packets) + 1
    BY <2>1, <1>a DEF Id
  <2>4. /\ pc'["worker"] = "send" <=> pc["worker"] = "send"
        /\ \A t \in Thread : (pc[t] \in Hands => pc'[t] = pc[t])
    BY <2>1, <1>a DEF Hands, Entering, Holding
  <2> QED
    BY <2>1, <2>2, <2>3, <2>4, <1>1
<1>3. CASE Receiver
  <2>1. /\ pc["receiver"] \notin Hands /\ pc'["worker"] = pc["worker"]
        /\ UNCHANGED <<packets, workspace, cur, pending, released, dropped>>
    BY <1>3, <1>a DEF Receiver, ReceiveGrant, ReceiveKeepAlive, Event, ReceiveFails, Exception, outside,
       lists, Hands, Entering, Holding
  <2> QED
    BY <2>1, <1>1 DEF Id
<1>4. CASE StopRR \/ Environment \/ UNCHANGED vars
  <2>1. UNCHANGED <<packets, workspace, pc, cur, pending, released, dropped>>
    BY <1>4 DEF StopRR, Environment, Tick, VPNOpened, GatewayGrants, LinkBreaks, outside, lists, threads,
       vars
  <2> QED
    BY <2>1, <1>1 DEF Id
<1> QED
  BY <1>2, <1>3, <1>4

(* While the session lasts, a packet that ipqserver asked about is queued,  *)
(* in a thread's hands, pending or released, however the two threads        *)
(* interleave: only an outdated entry or a torn list ever loses one.        *)
THEOREM PacketsKept == Spec => []NothingForgotten
<1>1. Init => Accounted
  BY DEF Init, Accounted, AllKept, SendKept, Id, Thread
<1>2. TypeOK /\ IInv /\ Accounted /\ [Next]_vars => Accounted'
  <2> SUFFICES ASSUME TypeOK, IInv, Accounted, [Next]_vars, ipqserver' = "up", app' = "runs"
               PROVE  AllKept' /\ SendKept'
    BY DEF Accounted
  <2>0. \/ Worker \/ (\E t \in Thread : Verdict(t)) \/ TornPending \/ TornHistory
        \/ (\E d \in Remote \cup Local : Arrive(d)) \/ Receiver \/ StopRR \/ Environment
        \/ UNCHANGED vars
    BY DEF Next
  <2>1. app = "runs"
    BY DEF Next, vars, life
  <2>2. ipqserver = "up"
    <3>1. ipqserver' # ipqserver => ipqserver' = "killed"
      <4>1. CASE Worker
        BY <4>1 DEF Worker, NotReady, Wait, Take, TestUnknown, TestRelease, TestRequest, AddEntry,
           HistoryMiss, HistoryHit, HistoryOutdated, PendingMiss, PendingHit, PendingOutdated, WalkFails,
           Add, GenerateFails, Send, SendFails, Exception, life
      <4>2. ASSUME NEW t \in Thread, Verdict(t) PROVE ipqserver' # ipqserver => ipqserver' = "killed"
        BY <4>2 DEF Verdict, ReactKeepAlive, ClearLatest, ReactGrant, ReadGrant, Find, Look, Get, Keep, Forget,
           ForgetId, Write, VerdictFails, Exception, life
      <4>3. CASE TornPending \/ TornHistory \/ (\E d \in Remote \cup Local : Arrive(d)) \/ StopRR
                 \/ Environment \/ UNCHANGED vars
        BY <4>3 DEF TornPending, TornHistory, Arrive, StopRR, Environment, vars, life
      <4>4. CASE Receiver
        BY <4>4 DEF Receiver, ReceiveGrant, ReceiveKeepAlive, Event, ReceiveFails, Exception, life
      <4> QED
        BY <2>0, <4>1, <4>2, <4>3, <4>4
    <3> QED
      BY <3>1
  <2>3. AllKept /\ SendKept /\ HandsFull
    BY <2>1, <2>2 DEF Accounted, IInv
  <2> QED
    BY <2>0, <2>3, KeptWorker, KeptVerdict, KeptTorn, KeptOthers
<1>3. Accounted => NothingForgotten
  BY DEF Accounted, NothingForgotten, AllKept, Settled
<1> QED
  BY <1>1, <1>2, <1>3, IInvHolds, PTL DEF Spec
=============================================================================

--------------------------- MODULE IpqServerProofs ---------------------------
(***************************************************************************)
(* Proofs about IpqServer: its types are kept, and, as long as the wall    *)
(* clock is not set back, the history list is memory safe and remembers    *)
(* every verdict for its validity.                                         *)
(***************************************************************************)
EXTENDS IpqServer, TLAPS, SequenceTheorems, WellFoundedInduction

USE DEF NULL

-----------------------------------------------------------------------------
(* Types. *)

(* Appending to a sequence: its length, its elements and its type. *)
LEMMA AppendFacts ==
  ASSUME NEW S, NEW s \in Seq(S), NEW e \in S
  PROVE  /\ Append(s, e) \in Seq(S)
         /\ Len(Append(s, e)) = Len(s) + 1
         /\ \A i \in 1..Len(s) : Append(s, e)[i] = s[i]
         /\ Append(s, e)[Len(s) + 1] = e
  OBVIOUS

(* A suffix of a sequence is a sequence over the same set. *)
LEMMA SuffixType ==
  ASSUME NEW S, NEW s \in Seq(S), NEW k \in 1..Len(s)
  PROVE  SubSeq(s, k + 1, Len(s)) \in Seq(S)
  BY SubSeqProperties

(* Sequences over a set are sequences over every larger set. *)
LEMMA SeqOverLarger ==
  ASSUME NEW S, NEW T, S \subseteq T, NEW s \in Seq(S)
  PROVE  s \in Seq(T)
  OBVIOUS

(* The usual order on Nat, as a set of pairs. *)
Less == {p \in Nat \X Nat : p[1] < p[2]}

(* The order on Nat is well founded. *)
LEMMA LessWellFounded == IsWellFoundedOn(Less, Nat)
  BY NatLessThanWellFounded DEF OpToRel, Less

(* Every non-empty set of naturals has a least element. *)
LEMMA LeastNatural ==
  ASSUME NEW T, T \subseteq Nat, T # {}
  PROVE  \E x \in T : \A y \in T : x <= y
<1>1. \E x \in T : \A y \in T : ~(<<y, x>> \in Less)
  BY WFMin, LessWellFounded
<1>2. ASSUME NEW x \in T, NEW y \in T, ~(<<y, x>> \in Less)
      PROVE  x <= y
  BY <1>2 DEF Less
<1> QED BY <1>1, <1>2

(* The variables of each part. *)
listVars == <<ts, sock, next, freed, head, curr, cPtr, cPrev, cPc>>
threadVars == <<now, rTime, cTime, running, fault, sPc, rPc, cPc>>
channelVars == <<packets, unread, asked, accepted, sPc, sPkt, rPc, rLine, fromJava, released>>

(* A part keeps its type when its variables do not change. *)
LEMMA TypeFrame ==
  /\ ListType /\ UNCHANGED listVars => ListType'
  /\ ChannelType /\ UNCHANGED channelVars => ChannelType'
  BY DEF ListType, ChannelType, listVars, channelVars, Id, Node

(* The sender's steps keep the types: ipq_read takes a queued packet,       *)
(* search_in_list and the answer leave the list alone.                      *)
LEMMA TypeSender ==
  ASSUME TypeOK, Sender
  PROVE  TypeOK'
<1> USE DEF list, elements, kernel, java, sender, reader, cleaner
<1> USE DEF Sender, SendRead, SendNotice, SendSearch, SendAccept, SendAsk, SendAskFails, AfterLoop
<1>1. ListType'
  <2>1. UNCHANGED listVars BY DEF listVars
  <2> QED BY <2>1, TypeFrame DEF TypeOK
<1>2. ThreadType'
  BY DEF TypeOK, ThreadType
<1>3. ChannelType'
  <2>1. CASE SendRead
    <3>1. unread # {} /\ unread \subseteq Nat
      BY <2>1 DEF TypeOK, ChannelType, Id
    <3>2. \E i \in unread : \A j \in unread : i <= j
      BY <3>1, LeastNatural
    <3>3. PICK id \in unread : sPkt' = id /\ unread' = unread \ {id}
      BY <2>1, <3>2
    <3>4. UNCHANGED <<packets, accepted, java, reader>>
      BY <2>1
    <3> QED BY <3>3, <3>4 DEF TypeOK, ChannelType, Id
  <2>2. CASE ~SendRead
    BY <2>2 DEF TypeOK, ChannelType, Id
  <2> QED BY <2>1, <2>2
<1> QED BY <1>1, <1>2, <1>3 DEF TypeOK

(* A new element extends every field and leaves the old pointers in range. *)
LEMMA NewElemType ==
  ASSUME TypeOK, NEW old \in Seq(0..(Len(next) + 1)), Len(old) = Len(next),
         NewElem(old, NULL), rPc \in {"create", "append"},
         head' \in {head, Len(next) + 1}, curr' = Len(next) + 1, UNCHANGED <<cPtr, cPrev, cPc>>
  PROVE  ListType' /\ Len(next') = Len(next) + 1
<1>1. packets[rLine] \in Socket
  BY DEF TypeOK, ChannelType, Id
<1>2. ts' \in Seq(Nat) /\ Len(ts') = Len(ts) + 1
  BY AppendFacts DEF NewElem, TypeOK, ListType, ThreadType
<1>3. sock' \in Seq(Socket) /\ Len(sock') = Len(sock) + 1
  BY <1>1, AppendFacts DEF NewElem, TypeOK, ListType
<1>4. next' \in Seq(0..(Len(next) + 1)) /\ Len(next') = Len(next) + 1
  BY AppendFacts DEF NewElem, TypeOK, ListType
<1>5. (Node \cup {NULL})' = 0..(Len(next) + 1) /\ Node \subseteq Node' /\ Len(next) + 1 \in Node'
  BY <1>4 DEF Node, TypeOK, ListType
<1>6. next' \in Seq((Node \cup {NULL})')
  BY <1>4, <1>5
<1>7. freed' \subseteq Node'
  BY <1>5 DEF NewElem, TypeOK, ListType
<1>8. head' \in (Node \cup {NULL})' /\ curr' \in (Node \cup {NULL})'
      /\ cPtr' \in (Node \cup {NULL})' /\ cPrev' \in (Node \cup {NULL})'
  BY <1>5 DEF TypeOK, ListType
<1>9. Len(ts') = Len(next') /\ Len(sock') = Len(next')
  BY <1>2, <1>3, <1>4 DEF TypeOK, ListType
<1> QED BY <1>2, <1>3, <1>4, <1>6, <1>7, <1>8, <1>9 DEF TypeOK, ListType

(* The reader's steps keep the types. *)
LEMMA TypeReader ==
  ASSUME TypeOK, Reader
  PROVE  TypeOK'
<1> USE DEF list, elements, kernel, java, sender, reader, cleaner
<1>1. ThreadType'
  BY DEF TypeOK, ThreadType, Reader, ReadLine, add_to_list, create_list, append_to_curr,
         append_to_null, ReadVerdict, AfterLoop
<1>2. CASE ReadLine
  <2>1. PICK k \in 1..Len(fromJava) : fromJava' = SubSeq(fromJava, k + 1, Len(fromJava))
    BY <1>2 DEF ReadLine
  <2>2. fromJava' \in Seq(Id)
    BY <2>1, SuffixType DEF TypeOK, ChannelType
  <2>3. Head(fromJava) \in Id
    BY <1>2 DEF ReadLine, TypeOK, ChannelType
  <2>4. rPc' = "check" /\ rLine' = Head(fromJava) /\ UNCHANGED <<sender, kernel, asked, released>>
    BY <1>2 DEF ReadLine
  <2>5. Id' = Id BY <2>4 DEF Id
  <2>6. ChannelType' BY <2>2, <2>3, <2>4, <2>5 DEF TypeOK, ChannelType
  <2>7. UNCHANGED listVars BY <1>2 DEF ReadLine, listVars
  <2> QED BY <1>1, <2>6, <2>7, TypeFrame DEF TypeOK
<1>3. CASE add_to_list \/ append_to_null \/ ReadVerdict
  <2>1. UNCHANGED listVars
    BY <1>3 DEF add_to_list, append_to_null, ReadVerdict, listVars
  <2>2. ChannelType'
    BY <1>3 DEF TypeOK, ChannelType, Id, add_to_list, append_to_null, ReadVerdict, AfterLoop
  <2> QED BY <1>1, <2>1, <2>2, TypeFrame DEF TypeOK
<1>4. CASE create_list
  <2>1. next \in Seq(0..(Len(next) + 1))
    BY SeqOverLarger DEF TypeOK, ListType, Node
  <2>2. ListType'
    BY <1>4, <2>1, NewElemType DEF TypeOK, create_list
  <2>3. ChannelType'
    BY <1>4 DEF TypeOK, ChannelType, Id, create_list
  <2> QED BY <1>1, <2>2, <2>3 DEF TypeOK
<1>5. CASE append_to_curr
  <2> DEFINE old == [next EXCEPT ![curr] = Len(next) + 1]
  <2>1. old \in Seq(0..(Len(next) + 1)) /\ Len(old) = Len(next)
    BY <1>5 DEF append_to_curr, TypeOK, ListType, Node
  <2>2. NewElem(old, NULL)
    BY <1>5 DEF append_to_curr
  <2> HIDE DEF old
  <2>3. ListType'
    BY <1>5, <2>1, <2>2, NewElemType DEF TypeOK, append_to_curr
  <2>4. ChannelType'
    BY <1>5 DEF TypeOK, ChannelType, Id, append_to_curr
  <2> QED BY <1>1, <2>3, <2>4 DEF TypeOK
<1> QED BY <1>2, <1>3, <1>4, <1>5 DEF Reader

(* prev->next = del->next keeps the pointers in range. *)
LEMMA UnlinkedType ==
  ASSUME ListType, cPtr # NULL
  PROVE  Unlinked \in Seq(Node \cup {NULL}) /\ Len(Unlinked) = Len(next)
<1>1. CASE cPrev = NULL
  BY <1>1 DEF Unlinked, ListType
<1>2. CASE cPrev # NULL
  <2>1. Unlinked = [next EXCEPT ![cPrev] = next[cPtr]]
    BY <1>2 DEF Unlinked
  <2>2. next[cPtr] \in Node \cup {NULL}
    BY DEF ListType, Node
  <2>3. cPrev \in 1..Len(next) /\ next \in Seq(Node \cup {NULL})
    BY <1>2 DEF ListType, Node
  <2> QED BY <2>1, <2>2, <2>3
<1> QED BY <1>1, <1>2

(* The cleaner's steps keep the types: pointers only move along next. *)
LEMMA TypeCleaner ==
  ASSUME TypeOK, Cleaner
  PROVE  TypeOK'
<1> USE DEF list, elements, kernel, java, sender, reader, cleaner
<1>1. ThreadType'
  BY DEF TypeOK, ThreadType, Cleaner, CleanWake, CleanLock, CleanKeep, delete_inner, delete_tail,
         delete_tail_done, CleanAdvance, CleanAdvanceFreed, CleanUnlock
<1>2. ChannelType'
  <2>1. UNCHANGED channelVars
    BY DEF channelVars, Cleaner, CleanWake, CleanLock, CleanKeep, delete_inner, delete_tail,
           delete_tail_done, CleanAdvance, CleanAdvanceFreed, CleanUnlock
  <2> QED BY <2>1, TypeFrame DEF TypeOK
<1>3. CASE CleanWake \/ CleanLock \/ CleanKeep \/ CleanAdvance \/ CleanAdvanceFreed \/ CleanUnlock
  <2>1. UNCHANGED <<ts, sock, next, freed, head, curr>>
    BY <1>3 DEF CleanWake, CleanLock, CleanKeep, CleanAdvance, CleanAdvanceFreed, CleanUnlock
  <2>2. cPtr # NULL => next[cPtr] \in Node \cup {NULL}
    BY DEF TypeOK, ListType, Node
  <2>3. cPtr' \in Node \cup {NULL} /\ cPrev' \in Node \cup {NULL}
    BY <1>3, <2>2 DEF TypeOK, ListType, CleanWake, CleanLock, CleanKeep, CleanAdvance,
         CleanAdvanceFreed, CleanUnlock
  <2>4. cPc' \notin {"clearHead", "clearCurr"} \/ UNCHANGED <<cPc, cPtr>>
    BY <1>3 DEF CleanWake, CleanLock, CleanKeep, CleanAdvance, CleanAdvanceFreed, CleanUnlock
  <2>5. ListType'
    BY <2>1, <2>3, <2>4 DEF TypeOK, ListType, Node
  <2> QED BY <1>1, <1>2, <2>5 DEF TypeOK
<1>4. CASE delete_inner \/ delete_tail
  <2>1. cPtr # NULL /\ next' = Unlinked
    BY <1>4 DEF delete_inner, delete_tail
  <2>2. next' \in Seq(Node \cup {NULL}) /\ Len(next') = Len(next)
    BY <2>1, UnlinkedType DEF TypeOK
  <2>3. Node' = Node BY <2>2 DEF Node
  <2>4. next[cPtr] \in Node \cup {NULL}
    BY <2>1 DEF TypeOK, ListType, Node
  <2>5. /\ freed' \in {freed, freed \cup {cPtr}}
        /\ head' \in {head, next[cPtr], NULL} /\ curr' \in {curr, NULL}
        /\ UNCHANGED <<ts, sock, cPtr, cPrev>>
    BY <1>4 DEF delete_inner, delete_tail
  <2>6. ListType' BY <2>1, <2>2, <2>3, <2>4, <2>5 DEF TypeOK, ListType
  <2> QED BY <1>1, <1>2, <2>6 DEF TypeOK
<1>5. CASE delete_tail_done
  <2>1. /\ freed' = freed \cup {cPtr} /\ UNCHANGED <<ts, sock, next, cPtr, cPrev>>
        /\ head' \in {head, NULL} /\ curr' \in {curr, NULL} /\ cPc' = "advance"
    BY <1>5 DEF delete_tail_done
  <2>2. cPtr # NULL
    BY <1>5 DEF delete_tail_done, TypeOK, ListType
  <2>3. ListType' BY <2>1, <2>2 DEF TypeOK, ListType, Node
  <2> QED BY <1>1, <1>2, <2>3 DEF TypeOK
<1> QED BY <1>3, <1>4, <1>5 DEF Cleaner

(* The steps of the clock, the kernel and Java, and die(), keep the types. *)
LEMMA TypeEnv ==
  ASSUME TypeOK, Env \/ Die
  PROVE  TypeOK'
<1> USE DEF list, elements, kernel, java, sender, reader, cleaner
<1>1. ThreadType'
  BY DEF TypeOK, ThreadType, Env, Die, Tick, SetClock, QueuePacket, JavaVerdict
<1>2. ListType'
  <2>1. UNCHANGED listVars
    BY DEF Env, Die, Tick, SetClock, QueuePacket, JavaVerdict, listVars
  <2> QED BY <2>1, TypeFrame DEF TypeOK
<1>3. ChannelType'
  <2>1. CASE Tick \/ SetClock \/ Die
    <3>1. UNCHANGED channelVars BY <2>1 DEF Die, Tick, SetClock, channelVars
    <3> QED BY <3>1, TypeFrame DEF TypeOK
  <2>2. CASE QueuePacket
    <3>1. PICK dst \in Socket : packets' = Append(packets, dst)
      BY <2>2 DEF QueuePacket
    <3>2. packets' \in Seq(Socket) /\ Len(packets') = Len(packets) + 1
      BY <3>1, AppendFacts DEF TypeOK, ChannelType
    <3>3. Id \subseteq Id' /\ Len(packets) + 1 \in Id'
      BY <3>2 DEF Id, TypeOK, ChannelType
    <3>4. fromJava \in Seq(Id')
      BY <3>3, SeqOverLarger DEF TypeOK, ChannelType
    <3>5. /\ unread' = unread \cup {Len(packets) + 1}
          /\ UNCHANGED <<sender, reader, accepted, java>>
      BY <2>2 DEF QueuePacket
    <3> QED BY <3>2, <3>3, <3>4, <3>5 DEF TypeOK, ChannelType
  <2>3. CASE JavaVerdict
    <3>1. PICK id \in asked : asked' = asked \ {id} /\ fromJava' = Append(fromJava, id)
                              /\ released' = released \cup {packets[id]}
      BY <2>3 DEF JavaVerdict
    <3>2. id \in Id /\ packets[id] \in Socket
      BY DEF TypeOK, ChannelType, Id
    <3>3. fromJava' \in Seq(Id)
      BY <3>1, <3>2, AppendFacts DEF TypeOK, ChannelType
    <3>4. UNCHANGED <<sender, reader, kernel>> /\ Id' = Id
      BY <2>3 DEF JavaVerdict, Id
    <3> QED BY <3>1, <3>2, <3>3, <3>4 DEF TypeOK, ChannelType
  <2> QED BY <2>1, <2>2, <2>3 DEF Env
<1> QED BY <1>1, <1>2, <1>3 DEF TypeOK

(* Every reachable state of the server is well typed: in particular head,   *)
(* curr and every next pointer stay within the allocated elements.          *)
THEOREM TypeCorrect == Spec => []TypeOK
<1>1. Init => TypeOK
  BY DEF Init, TypeOK, ListType, ThreadType, ChannelType, Id, Node
<1>2. TypeOK /\ [Next]_vars => TypeOK'
  <2>1. ASSUME TypeOK, Next PROVE TypeOK'
    BY <2>1, TypeSender, TypeReader, TypeCleaner, TypeEnv DEF Next
  <2>2. ASSUME TypeOK, UNCHANGED vars PROVE TypeOK'
    BY <2>2 DEF TypeOK, ListType, ThreadType, ChannelType, Id, Node, vars, list, elements, kernel, java, sender, reader, cleaner
  <2> QED BY <2>1, <2>2
<1> QED BY <1>1, <1>2, PTL DEF Spec

-----------------------------------------------------------------------------
(* The history list, for a clock that is never set back. *)

(* What the list's invariant needs of the types. *)
LEMMA HistoryTypes ==
  ASSUME TypeOK
  PROVE  /\ Len(next) \in Nat /\ Node = 1..Len(next)
         /\ \A i \in Node : ts[i] \in Nat /\ next[i] \in Node \cup {NULL}
         /\ freed \subseteq Node /\ head \in Node \cup {NULL} /\ curr \in Node \cup {NULL}
         /\ cPtr \in Node \cup {NULL} /\ cPrev \in Node \cup {NULL}
         /\ now \in Nat /\ rTime \in Nat /\ cTime \in Nat /\ Validity \in Nat
  BY IpqServerAssumption DEF TypeOK, ListType, ThreadType, Node

(* The variables of the invariant that the sender, the kernel and Java      *)
(* never write.                                                             *)
historyVars == <<now, ts, next, freed, head, curr, rTime, cleaner>>

(* The sender, die(), the kernel and Java leave the list and its two        *)
(* maintainers alone.                                                       *)
LEMMA HistoryElsewhere ==
  ASSUME TypeOK, HistoryInv,
         Sender \/ Die \/ QueuePacket \/ JavaVerdict \/ ReadVerdict \/ append_to_null
  PROVE  HistoryInv'
<1>1. /\ UNCHANGED historyVars
      /\ rPc' = rPc \/ rPc' \in {"read", "done"}
      /\ fault' # "uaf"
  BY DEF HistoryInv, ThreadsInWindow, historyVars, Sender, SendRead, SendNotice, SendSearch,
         SendAccept, SendAsk, SendAskFails, Die, QueuePacket, JavaVerdict, ReadVerdict,
         append_to_null, AfterLoop, list, elements, reader
<1> QED BY <1>1 DEF HistoryInv, Sorted, Window, ThreadsInWindow, Gone, Node, historyVars, cleaner

(* Time passes: what was outdated stays so. *)
LEMMA HistoryTick ==
  ASSUME TypeOK, HistoryInv, Tick
  PROVE  HistoryInv'
<1>1. now' = now + 1 /\ UNCHANGED <<list, fault, reader, cleaner>>
  BY DEF Tick
<1>2. Sorted' BY <1>1, HistoryTypes DEF HistoryInv, Sorted, Node, list, elements, reader, cleaner
<1>3. Window' BY <1>1, HistoryTypes DEF HistoryInv, Window, Gone, Node, list, elements, reader, cleaner
<1>4. ThreadsInWindow'
  BY <1>1, HistoryTypes DEF HistoryInv, ThreadsInWindow, Gone, Node, list, elements, reader, cleaner
<1> QED BY <1>2, <1>3, <1>4 DEF HistoryInv

(* read_java stamps a line with the present time, later than every element; *)
(* the test of head keeps "create" for the empty list.                      *)
LEMMA HistoryReadLine ==
  ASSUME TypeOK, HistoryInv, ReadLine \/ add_to_list
  PROVE  HistoryInv'
<1>1. /\ UNCHANGED <<now, list, fault, cleaner>>
      /\ \/ rPc' = "check" /\ rTime' = now
         \/ rPc = "check" /\ rTime' = rTime /\ rPc' = IF head = NULL THEN "create" ELSE "append"
  BY DEF ReadLine, add_to_list
<1>2. Sorted' BY <1>1, HistoryTypes DEF HistoryInv, Sorted, Node, list, elements, cleaner
<1>3. Window' BY <1>1, HistoryTypes DEF HistoryInv, Window, Gone, Node, list, elements, cleaner
<1>4. ThreadsInWindow'
  BY <1>1, HistoryTypes DEF HistoryInv, ThreadsInWindow, Gone, Node, list, elements, cleaner
<1> QED BY <1>2, <1>3, <1>4 DEF HistoryInv

(* A new element: lengths, and the fields of old and new elements. *)
LEMMA NewElemFields ==
  ASSUME TypeOK, NEW old \in Seq(0..(Len(next) + 1)), Len(old) = Len(next), NewElem(old, NULL)
  PROVE  /\ Len(next') = Len(next) + 1
         /\ \A i \in Node : ts'[i] = ts[i] /\ next'[i] = old[i]
         /\ ts'[Len(next) + 1] = rTime /\ next'[Len(next) + 1] = NULL
         /\ freed' = freed
<1>1. /\ Len(ts) = Len(next) /\ ts \in Seq(Nat) /\ rTime \in Nat
  BY DEF TypeOK, ListType, ThreadType
<1>2. Len(ts') = Len(ts) + 1 /\ (\A i \in 1..Len(ts) : ts'[i] = ts[i]) /\ ts'[Len(ts) + 1] = rTime
  BY <1>1, AppendFacts DEF NewElem
<1>3. /\ Len(next') = Len(old) + 1
      /\ \A i \in 1..Len(old) : next'[i] = old[i]
      /\ next'[Len(old) + 1] = NULL
  <2>1. NULL \in 0..(Len(next) + 1) BY HistoryTypes
  <2> QED BY <2>1, AppendFacts DEF NewElem
<1> QED BY <1>1, <1>2, <1>3 DEF NewElem, Node

(* create_list, even between the cleaner's two stores, starts a new window  *)
(* behind elements that are all gone.                                       *)
LEMMA HistoryCreate ==
  ASSUME TypeOK, HistoryInv, create_list
  PROVE  HistoryInv'
<1>1. next \in Seq(0..(Len(next) + 1))
  BY SeqOverLarger DEF TypeOK, ListType, Node
<1>2. /\ Len(next') = Len(next) + 1
      /\ \A i \in Node : ts'[i] = ts[i] /\ next'[i] = next[i]
      /\ ts'[Len(next) + 1] = rTime /\ next'[Len(next) + 1] = NULL
      /\ freed' = freed
  BY <1>1, NewElemFields DEF create_list
<1>3. /\ rPc = "create" /\ rPc' = "verdict" /\ head' = Len(next) + 1 /\ curr' = Len(next) + 1
      /\ UNCHANGED <<rTime, now, fault, cPc, cPtr, cPrev, cTime>>
  BY DEF create_list, cleaner
<1>4. head = NULL /\ (\A i \in Node : Gone(i)) /\ rTime <= now /\ \A i \in Node : ts[i] <= rTime
  BY <1>3 DEF HistoryInv, ThreadsInWindow, Window, Sorted
<1>5. Node' = Node \cup {Len(next) + 1}
  BY <1>2, HistoryTypes DEF Node
<1>6. \A i \in Node : Gone(i)'
  BY <1>2, <1>3, <1>4 DEF Gone
<1>7. \A i : i = Len(next) + 1 => ~Gone(i)'
  BY <1>2, <1>3, HistoryTypes DEF Gone
<1>8. Sorted'
  <2>1. ASSUME NEW i \in Node', NEW j \in Node', i <= j
        PROVE  ts'[i] <= ts'[j]
    <3>1. CASE j \in Node
      <4>1. i \in Node BY <2>1, <3>1, <1>5, HistoryTypes
      <4> QED BY <2>1, <3>1, <4>1, <1>2 DEF HistoryInv, Sorted
    <3>2. CASE j = Len(next) + 1
      BY <3>2, <1>2, <1>4, <1>5, HistoryTypes
    <3> QED BY <3>1, <3>2, <1>5
  <2>2. ASSUME NEW i \in Node'
        PROVE  ts'[i] <= now'
    BY <1>2, <1>3, <1>4, <1>5 DEF HistoryInv, Sorted
  <2> QED BY <1>3, <2>1, <2>2 DEF HistoryInv, Sorted
<1>9. Window'
  <2>1. \A i, j \in Node' : i <= j /\ Gone(j)' => Gone(i)'
    BY <1>5, <1>6, <1>7, HistoryTypes
  <2>2. ASSUME NEW i \in Node', Gone(i)' PROVE ts'[i] + Validity < now'
    <3>1. i \in Node BY <2>2, <1>5, <1>7 DEF Gone
    <3>2. ts[i] + Validity < now BY <3>1, <1>4 DEF HistoryInv, Window
    <3> QED BY <3>1, <3>2, <1>2, <1>3
  <2>3. \A i \in Node' : ~Gone(i)' => next'[i] = IF i < Len(next') THEN i + 1 ELSE NULL
    BY <1>2, <1>5, <1>6, HistoryTypes
  <2>4. /\ head' # NULL /\ ~Gone(head)' /\ \A i \in Node' : i < head' => Gone(i)'
        /\ curr' \notin freed' /\ curr' = Len(next') /\ curr' # NULL
    <3>1. head' # NULL /\ curr' = Len(next') /\ curr' # NULL /\ curr' \notin freed'
      BY <1>2, <1>3, HistoryTypes
    <3>2. ~Gone(head)'
      BY <1>2, <1>3, HistoryTypes DEF Gone
    <3> QED BY <1>3, <1>5, <1>6, <3>1, <3>2, HistoryTypes
  <2> QED BY <2>1, <2>2, <2>3, <2>4 DEF Window
<1>10. ThreadsInWindow'
  <2>1. (cPc # "clearHead" /\ cPc # "scan") \/ cPtr = NULL
    BY <1>4, HistoryTypes DEF HistoryInv, ThreadsInWindow
  <2>2. cPc = "scan" /\ cPrev # NULL => ~(ts'[cPrev] + Validity < cTime)
    BY <1>2, HistoryTypes DEF HistoryInv, ThreadsInWindow
  <2>3. cPc = "clearCurr" => cPtr = Len(next) /\ ts'[cPtr] + Validity < cTime /\ cPtr # NULL
    BY <1>2, <1>4, HistoryTypes DEF HistoryInv, ThreadsInWindow
  <2>4. cPc # "clearHead"
    BY <1>4 DEF HistoryInv, ThreadsInWindow
  <2>5. cPc = "lock" => cPtr = NULL
    BY <1>4 DEF HistoryInv, ThreadsInWindow
  <2>6. /\ cPc \in {"lock", "clearHead", "clearCurr", "advance"} => cPrev = NULL
        /\ fault # "uaf"
    BY DEF HistoryInv, ThreadsInWindow
  <2> QED BY <1>2, <1>3, <2>1, <2>2, <2>3, <2>4, <2>5, <2>6 DEF ThreadsInWindow
<1> QED BY <1>8, <1>9, <1>10 DEF HistoryInv

(* The append under the lock extends the window at its end. *)
LEMMA HistoryAppend ==
  ASSUME TypeOK, HistoryInv, append_to_curr
  PROVE  HistoryInv'
<1> DEFINE old == [next EXCEPT ![curr] = Len(next) + 1]
<1>1. old \in Seq(0..(Len(next) + 1)) /\ Len(old) = Len(next)
  BY DEF append_to_curr, TypeOK, ListType, Node
<1>2. NewElem(old, NULL)
  BY DEF append_to_curr
<1>3. \A i \in Node : old[i] = IF i = curr THEN Len(next) + 1 ELSE next[i]
  BY DEF TypeOK, ListType, Node
<1> HIDE DEF old
<1>4. /\ Len(next') = Len(next) + 1
      /\ \A i \in Node : ts'[i] = ts[i] /\ next'[i] = IF i = curr THEN Len(next) + 1 ELSE next[i]
      /\ ts'[Len(next) + 1] = rTime /\ next'[Len(next) + 1] = NULL
      /\ freed' = freed
  BY <1>1, <1>2, <1>3, NewElemFields
<1>5. /\ rPc = "append" /\ rPc' = "verdict" /\ head' = head /\ curr' = Len(next) + 1 /\ curr # NULL
      /\ LockFree
      /\ UNCHANGED <<rTime, now, fault, cPc, cPtr, cPrev, cTime>>
  BY DEF append_to_curr, cleaner
<1>6. rTime <= now /\ \A i \in Node : ts[i] <= rTime
  BY <1>5 DEF HistoryInv, Sorted
<1>7. Node' = Node \cup {Len(next) + 1}
  BY <1>4, HistoryTypes DEF Node
<1>8. curr = Len(next) /\ curr \notin freed
  BY <1>5 DEF HistoryInv, Window
<1>9. /\ \A i \in Node : Gone(i)' <=> i \in freed
      /\ \A i \in Node : Gone(i) <=> i \in freed
      /\ \A i : i = Len(next) + 1 => ~Gone(i)'
  BY <1>4, <1>5, HistoryTypes DEF Gone, LockFree
<1>10. head # NULL
  BY <1>8, <1>9, <1>5, HistoryTypes DEF HistoryInv, Window
<1>11. Sorted'
  <2>1. ASSUME NEW i \in Node', NEW j \in Node', i <= j
        PROVE  ts'[i] <= ts'[j]
    <3>1. CASE j \in Node
      <4>1. i \in Node BY <2>1, <3>1, <1>7, HistoryTypes
      <4> QED BY <2>1, <3>1, <4>1, <1>4 DEF HistoryInv, Sorted
    <3>2. CASE j = Len(next) + 1
      BY <3>2, <1>4, <1>6, <1>7, HistoryTypes
    <3> QED BY <3>1, <3>2, <1>7
  <2>2. ASSUME NEW i \in Node'
        PROVE  ts'[i] <= now'
    BY <1>4, <1>5, <1>6, <1>7 DEF HistoryInv, Sorted
  <2> QED BY <1>5, <2>1, <2>2 DEF HistoryInv, Sorted
<1>12. Window'
  <2>1. ASSUME NEW i \in Node', NEW j \in Node', i <= j, Gone(j)' PROVE Gone(i)'
    <3>1. j \in Node BY <2>1, <1>7, <1>9 DEF Gone
    <3>2. i \in Node BY <2>1, <3>1, <1>7, HistoryTypes
    <3>3. i \in freed
      <4>1. Gone(j) BY <2>1, <3>1, <1>9
      <4>2. Gone(i) BY <2>1, <3>1, <3>2, <4>1 DEF HistoryInv, Window
      <4> QED BY <3>2, <4>2, <1>9
    <3> QED BY <3>2, <3>3, <1>9
  <2>2. ASSUME NEW i \in Node', Gone(i)' PROVE ts'[i] + Validity < now'
    <3>1. i \in Node BY <2>2, <1>7, <1>9 DEF Gone
    <3>2. ts[i] + Validity < now BY <2>2, <3>1, <1>9 DEF HistoryInv, Window
    <3> QED BY <3>1, <3>2, <1>4, <1>5
  <2>3. ASSUME NEW i \in Node', ~Gone(i)'
        PROVE  next'[i] = IF i < Len(next') THEN i + 1 ELSE NULL
    <3>1. CASE i = Len(next) + 1 BY <3>1, <1>4, HistoryTypes
    <3>2. CASE i \in Node /\ i = curr BY <3>2, <1>4, <1>8, HistoryTypes
    <3>3. CASE i \in Node /\ i # curr
      <4>1. next[i] = IF i < Len(next) THEN i + 1 ELSE NULL
        BY <2>3, <3>3, <1>9 DEF HistoryInv, Window
      <4> QED BY <3>3, <4>1, <1>4, <1>8, HistoryTypes
    <3> QED BY <3>1, <3>2, <3>3, <1>7
  <2>4. head' # NULL /\ ~Gone(head)' /\ \A i \in Node' : i < head' => Gone(i)'
    <3>1. ~Gone(head)'
      BY <1>4, <1>5, <1>10 DEF Gone, HistoryInv, Window, LockFree
    <3> QED BY <1>5, <1>7, <1>9, <1>10, <3>1, HistoryTypes DEF HistoryInv, Window
  <2>5. curr' \notin freed' /\ curr' = Len(next') /\ curr' # NULL
    BY <1>4, <1>5, HistoryTypes
  <2> QED BY <2>1, <2>2, <2>3, <2>4, <2>5 DEF Window
<1>13. ThreadsInWindow'
  <2>1. cPc \in {"lock", "clearHead", "clearCurr", "advance"} => cPrev = NULL
    BY DEF HistoryInv, ThreadsInWindow
  <2>2. fault # "uaf" /\ (cPc = "lock" => cPtr \in {NULL, head})
    BY DEF HistoryInv, ThreadsInWindow
  <2> QED BY <1>5, <2>1, <2>2 DEF ThreadsInWindow, LockFree
<1> QED BY <1>11, <1>12, <1>13 DEF HistoryInv

(* The cleaner's steps that only read the list: head is read before the     *)
(* lock, and only a window that starts there can follow.                    *)
LEMMA HistoryScan ==
  ASSUME TypeOK, HistoryInv, CleanWake \/ CleanLock \/ CleanKeep \/ CleanAdvance \/ CleanUnlock
  PROVE  HistoryInv'
<1>1. UNCHANGED <<now, ts, next, freed, head, curr, fault, rPc, rTime>>
  BY DEF CleanWake, CleanLock, CleanKeep, CleanAdvance, CleanUnlock, list, elements, reader
<1>2. cPc # "clearCurr" /\ cPc' # "clearCurr" /\ cPc' # "clearHead" /\ cTime' \in {cTime, now}
  BY DEF CleanWake, CleanLock, CleanKeep, CleanAdvance, CleanUnlock
<1>3. \A i \in Node : (Gone(i) <=> i \in freed) /\ (Gone(i)' <=> i \in freed)
  BY <1>1, <1>2 DEF Gone
<1>4. Sorted'
  BY <1>1, <1>2, HistoryTypes DEF HistoryInv, Sorted, Node
<1>5. Node' = Node BY <1>1 DEF Node
<1>6. Window'
  <2>1. head' # NULL => (Gone(head)' <=> Gone(head))
    BY <1>1, <1>2 DEF Gone
  <2> QED BY <1>1, <1>3, <1>5, <2>1 DEF HistoryInv, Window
<1>7. rPc' = "create" => head' = NULL
  BY <1>1 DEF HistoryInv, ThreadsInWindow
<1>8. ThreadsInWindow'
  <2>1. CASE CleanWake
    BY <1>1, <1>7, <2>1 DEF HistoryInv, ThreadsInWindow, CleanWake
  <2>2. CASE CleanLock
    <3>1. cPc' = "scan" /\ cPtr' \in {NULL, head} /\ cPrev' = NULL
      BY <2>2 DEF HistoryInv, ThreadsInWindow, CleanLock
    <3>2. cPtr' # NULL => ~Gone(cPtr)'
      BY <1>1, <1>2, <3>1 DEF HistoryInv, Window, Gone
    <3>3. fault' # "uaf" BY <1>1 DEF HistoryInv, ThreadsInWindow
    <3> QED BY <1>1, <1>7, <3>1, <3>2, <3>3 DEF ThreadsInWindow
  <2>3. CASE CleanKeep
    <3>1. /\ cPc = "scan" /\ cPc' = "scan" /\ cPrev' = cPtr /\ cPtr' = next[cPtr] /\ cTime' = cTime
          /\ cPtr \in Node /\ cPtr # NULL
          /\ ~(ts[cPtr] + Validity < cTime)
      BY <2>3, HistoryTypes DEF CleanKeep, Outdated
    <3>2. ~Gone(cPtr)
      BY <3>1 DEF HistoryInv, ThreadsInWindow
    <3>3. next[cPtr] = IF cPtr < Len(next) THEN cPtr + 1 ELSE NULL
      BY <3>1, <3>2 DEF HistoryInv, Window
    <3>4. cPtr' # NULL => cPrev' < cPtr' /\ cPtr' \in Node
      BY <3>1, <3>3, HistoryTypes
    <3>5. cPtr' # NULL => ~Gone(cPtr)'
      <4>1. SUFFICES ASSUME cPtr' # NULL PROVE cPtr' \notin freed
        BY <1>1, <1>2, <3>1 DEF Gone
      <4>2. ~Gone(cPtr') BY <3>1, <3>2, <3>4, <4>1, HistoryTypes DEF HistoryInv, Window
      <4> QED BY <4>2 DEF Gone
    <3>6. ~(ts'[cPrev'] + Validity < cTime')
      BY <1>1, <3>1
    <3>7. fault' # "uaf" BY <1>1 DEF HistoryInv, ThreadsInWindow
    <3> QED BY <1>7, <3>1, <3>4, <3>5, <3>6, <3>7 DEF ThreadsInWindow
  <2>4. CASE CleanAdvance
    <3>1. cPc' = "scan" /\ cPtr' = head /\ cPrev' = NULL
      BY <2>4 DEF CleanAdvance
    <3>2. cPtr' # NULL => ~Gone(cPtr)'
      BY <1>1, <1>2, <3>1 DEF HistoryInv, Window, Gone
    <3>3. fault' # "uaf" BY <1>1 DEF HistoryInv, ThreadsInWindow
    <3> QED BY <1>1, <1>7, <3>1, <3>2, <3>3 DEF ThreadsInWindow
  <2>5. CASE CleanUnlock
    BY <1>1, <1>7, <2>5 DEF HistoryInv, ThreadsInWindow, CleanUnlock
  <2> QED BY <2>1, <2>2, <2>3, <2>4, <2>5
<1> QED BY <1>4, <1>6, <1>8 DEF HistoryInv

(* What the cleaner deletes is the first element: a kept one before it is   *)
(* older, so this one would not be outdated.  Hence nothing is unlinked     *)
(* behind a kept element.                                                   *)
LEMMA DeletesFirst ==
  ASSUME TypeOK, HistoryInv, cPc = "scan", cPtr # NULL, Outdated(cPtr)
  PROVE  /\ cPrev = NULL /\ cPtr = head /\ cPtr \in Node /\ Unlinked = next
         /\ ts[cPtr] + Validity < now /\ ts[cPtr] + Validity < cTime
<1>1. cPrev = NULL
  <2>1. SUFFICES ASSUME cPrev # NULL PROVE FALSE
    OBVIOUS
  <2>2. cPrev \in Node /\ cPtr \in Node /\ cPrev < cPtr /\ ~(ts[cPrev] + Validity < cTime)
    BY <2>1, HistoryTypes DEF HistoryInv, ThreadsInWindow
  <2>3. ts[cPrev] <= ts[cPtr]
    BY <2>2, HistoryTypes DEF HistoryInv, Sorted
  <2> QED BY <2>2, <2>3, HistoryTypes DEF Outdated
<1>2. cPtr = head /\ cPtr \in Node
  BY <1>1, HistoryTypes DEF HistoryInv, ThreadsInWindow
<1>3. ts[cPtr] + Validity < cTime /\ cTime <= now
  BY DEF HistoryInv, Sorted, Outdated
<1>4. ts[cPtr] + Validity < now
  BY <1>2, <1>3, HistoryTypes
<1> QED BY <1>1, <1>2, <1>3, <1>4 DEF Unlinked

(* Deleting the first element moves the start of the window by one. *)
LEMMA HistoryDeleteInner ==
  ASSUME TypeOK, HistoryInv, delete_inner
  PROVE  HistoryInv'
<1>1. /\ cPc = "scan" /\ cPtr # NULL /\ Outdated(cPtr) /\ cPtr # curr
      /\ next' = Unlinked /\ freed' = freed \cup {cPtr} /\ cPc' = "advance"
      /\ head' = IF cPtr = head THEN next[cPtr] ELSE head
      /\ UNCHANGED <<now, ts, curr, fault, rPc, rTime, cPtr, cPrev, cTime>>
  BY DEF delete_inner, reader
<1>2. /\ cPrev = NULL /\ cPtr = head /\ cPtr \in Node /\ next' = next
      /\ ts[cPtr] + Validity < now
  BY <1>1, DeletesFirst
<1>3. Node' = Node /\ Len(next') = Len(next) BY <1>2 DEF Node
<1>4. /\ \A i \in Node : Gone(i) <=> i \in freed
      /\ \A i \in Node : Gone(i)' <=> i \in freed \cup {head}
  BY <1>1, <1>2 DEF Gone
<1>5. ~Gone(head) /\ \A i \in Node : i < head => Gone(i)
  BY <1>1, <1>2 DEF HistoryInv, Window
<1>6. head' = IF head < Len(next) THEN head + 1 ELSE NULL
  BY <1>1, <1>2, <1>5 DEF HistoryInv, Window
<1>7. \A i \in Node : Gone(i)' <=> i <= head
  <2>1. ASSUME NEW i \in Node, i \in freed PROVE i <= head
    <3>1. SUFFICES ASSUME ~(i <= head) PROVE FALSE OBVIOUS
    <3>2. Gone(i) /\ head <= i BY <1>2, <1>4, <2>1, <3>1, HistoryTypes
    <3> QED BY <1>2, <1>5, <3>2 DEF HistoryInv, Window
  <2> QED BY <1>2, <1>4, <1>5, <2>1, HistoryTypes
<1>8. Sorted'
  BY <1>1, <1>3 DEF HistoryInv, Sorted
<1>9. Window'
  <2>1. \A i, j \in Node' : i <= j /\ Gone(j)' => Gone(i)'
    BY <1>2, <1>3, <1>7, HistoryTypes
  <2>2. \A i \in Node' : Gone(i)' => ts'[i] + Validity < now'
    BY <1>1, <1>2, <1>3, <1>4 DEF HistoryInv, Window
  <2>3. \A i \in Node' : ~Gone(i)' => next'[i] = IF i < Len(next') THEN i + 1 ELSE NULL
    BY <1>2, <1>3, <1>4 DEF HistoryInv, Window
  <2>4. head' = NULL => \A i \in Node' : Gone(i)'
    BY <1>2, <1>3, <1>6, <1>7, HistoryTypes
  <2>5. head' # NULL => ~Gone(head)' /\ \A i \in Node' : i < head' => Gone(i)'
    <3>1. SUFFICES ASSUME head' # NULL
                   PROVE  head' \notin freed' /\ \A i \in Node' : i < head' => Gone(i)'
      BY <1>1 DEF Gone
    <3>2. head' \in Node /\ head' = head + 1
      BY <1>2, <1>6, <3>1, HistoryTypes
    <3>3. head' \notin freed'
      BY <1>1, <1>2, <1>4, <1>7, <3>2, HistoryTypes
    <3> QED BY <1>2, <1>3, <1>7, <3>2, <3>3, HistoryTypes
  <2>6. curr' # NULL => curr' \notin freed' /\ curr' = Len(next')
    BY <1>1, <1>3 DEF HistoryInv, Window
  <2>7. curr' = NULL /\ head' # NULL => head' = Len(next')
    BY <1>1, <1>2, <1>6, HistoryTypes DEF HistoryInv, Window
  <2> QED BY <2>1, <2>2, <2>3, <2>4, <2>5, <2>6, <2>7 DEF Window
<1>10. ThreadsInWindow'
  BY <1>1, <1>2 DEF HistoryInv, ThreadsInWindow
<1> QED BY <1>8, <1>9, <1>10 DEF HistoryInv

(* Deleting the tail: the list has no other element, so resetting head      *)
(* forgets nothing.                                                         *)
LEMMA HistoryDeleteTail ==
  ASSUME TypeOK, HistoryInv, delete_tail
  PROVE  HistoryInv'
<1>1. /\ cPc = "scan" /\ cPtr # NULL /\ Outdated(cPtr) /\ cPtr = curr /\ next' = Unlinked
      /\ \/ head' = NULL /\ curr' = curr /\ cPc' = "clearCurr"
         \/ curr' = NULL /\ head' = head /\ cPc' = "clearHead"
      /\ UNCHANGED <<now, ts, freed, fault, rPc, rTime, cPtr, cPrev, cTime>>
  BY DEF delete_tail, reader
<1>2. /\ cPrev = NULL /\ cPtr = head /\ cPtr \in Node /\ next' = next
      /\ ts[cPtr] + Validity < now /\ ts[cPtr] + Validity < cTime
  BY <1>1, DeletesFirst
<1>3. Node' = Node /\ Len(next') = Len(next) BY <1>2 DEF Node
<1>4. head = Len(next) /\ head \notin freed /\ head # NULL /\ \A i \in Node : i < head => i \in freed
  <2>1. \A i \in Node : Gone(i) => i \in freed BY <1>1 DEF Gone
  <2>2. curr = Len(next) /\ curr \notin freed BY <1>1 DEF HistoryInv, Window
  <2>3. \A i \in Node : i < head => Gone(i) BY <1>1, <1>2 DEF HistoryInv, Window
  <2> QED BY <1>1, <1>2, <2>1, <2>2, <2>3
<1>5. Sorted' BY <1>1, <1>3 DEF HistoryInv, Sorted
<1>6. ThreadsInWindow'
  BY <1>1, <1>2, <1>3, <1>4 DEF HistoryInv, ThreadsInWindow
<1>7. \A i \in Node : i \in freed => i < head
  BY <1>2, <1>4, HistoryTypes
<1>8. \A i \in Node : i \in freed => ts[i] + Validity < now
  BY DEF HistoryInv, Window, Gone
<1>9. CASE cPc' = "clearCurr"
  <2>1. head' = NULL /\ curr' = head BY <1>1, <1>2, <1>9
  <2>2. \A i \in Node : Gone(i)'
    BY <1>1, <1>2, <1>4, <1>9, HistoryTypes DEF Gone
  <2>3. \A i \in Node : ts[i] + Validity < now
    BY <1>2, <1>4, <1>8, HistoryTypes
  <2>4. Window'
    BY <1>1, <1>3, <1>4, <2>1, <2>2, <2>3 DEF Window
  <2> QED BY <1>5, <1>6, <2>4 DEF HistoryInv
<1>10. CASE cPc' = "clearHead"
  <2>1. curr' = NULL /\ head' = head BY <1>1, <1>10
  <2>2. \A i \in Node : (Gone(i)' <=> i \in freed) /\ (Gone(i) <=> i \in freed)
    BY <1>1, <1>10 DEF Gone
  <2>3. ~Gone(head)' BY <1>1, <1>4, <1>10, <2>1 DEF Gone
  <2>4. Window'
    BY <1>1, <1>2, <1>3, <1>4, <2>1, <2>2, <2>3 DEF HistoryInv, Window
  <2> QED BY <1>5, <1>6, <2>4 DEF HistoryInv
<1> QED BY <1>1, <1>9, <1>10

(* The second store of the tail deletion and free(): head is NULL, or the   *)
(* reader has created a one-element list in between and curr is lost.       *)
LEMMA HistoryDeleteTailDone ==
  ASSUME TypeOK, HistoryInv, delete_tail_done
  PROVE  HistoryInv'
<1>1. /\ \/ cPc = "clearCurr" /\ curr' = NULL /\ head' = head
         \/ cPc = "clearHead" /\ head' = NULL /\ curr' = curr
      /\ freed' = freed \cup {cPtr} /\ cPc' = "advance"
      /\ UNCHANGED <<now, ts, next, fault, rPc, rTime, cPtr, cPrev, cTime>>
  BY DEF delete_tail_done, reader
<1>2. cPtr \in Node /\ cPtr # NULL
  BY <1>1, HistoryTypes DEF TypeOK, ListType
<1>3. Node' = Node BY <1>1 DEF Node
<1>4. ts[cPtr] + Validity < now
  <2>1. ts[cPtr] + Validity < cTime /\ cTime <= now
    BY <1>1 DEF HistoryInv, ThreadsInWindow, Sorted
  <2> QED BY <1>2, <2>1, HistoryTypes
<1>5. \A i \in Node : (i \in freed => ts[i] + Validity < now)
  BY DEF HistoryInv, Window, Gone
<1>6. \A i \in Node : Gone(i)' <=> i \in freed \cup {cPtr}
  BY <1>1 DEF Gone
<1>7. Sorted' BY <1>1, <1>3 DEF HistoryInv, Sorted
<1>8. ThreadsInWindow'
  <2>1. rPc' = "create" => head' = NULL
    BY <1>1 DEF HistoryInv, ThreadsInWindow
  <2>2. cPrev' = NULL /\ fault' # "uaf"
    BY <1>1 DEF HistoryInv, ThreadsInWindow
  <2> QED BY <1>1, <2>1, <2>2 DEF ThreadsInWindow
<1>9. \A i \in Node' : Gone(i)' => ts'[i] + Validity < now'
  BY <1>1, <1>3, <1>4, <1>5, <1>6
<1>10. CASE cPc = "clearCurr"
  <2>1. \A i \in Node : Gone(i)' <=> Gone(i)
    BY <1>6, <1>10 DEF Gone
  <2>2. curr' = NULL /\ head' = head BY <1>1, <1>10
  <2>3. head # NULL => head = Len(next) /\ (Gone(head)' <=> Gone(head))
    <3>1. head # NULL => head = Len(next) /\ head = cPtr + 1
      BY <1>10 DEF HistoryInv, ThreadsInWindow
    <3> QED BY <1>1, <1>2, <1>10, <2>2, <3>1, HistoryTypes DEF Gone
  <2>4. Window'
    BY <1>1, <1>3, <1>9, <2>1, <2>2, <2>3 DEF HistoryInv, Window
  <2> QED BY <1>7, <1>8, <2>4 DEF HistoryInv
<1>11. CASE cPc = "clearHead"
  <2>1. head' = NULL /\ curr' = NULL /\ head = cPtr /\ head = Len(next) /\ curr = NULL
    BY <1>1, <1>11 DEF HistoryInv, ThreadsInWindow
  <2>2. \A i \in Node : i < head => i \in freed
    BY <1>2, <1>11, <2>1 DEF HistoryInv, Window, Gone
  <2>3. \A i \in Node : Gone(i)'
    BY <1>2, <1>6, <2>1, <2>2, HistoryTypes
  <2>4. Window'
    BY <1>1, <1>3, <1>9, <2>1, <2>3 DEF Window
  <2> QED BY <1>7, <1>8, <2>4 DEF HistoryInv
<1> QED BY <1>1, <1>10, <1>11

(* The read after free() is never reached. *)
LEMMA HistoryAdvanceFreed ==
  ASSUME HistoryInv, CleanAdvanceFreed
  PROVE  FALSE
  BY DEF HistoryInv, ThreadsInWindow, CleanAdvanceFreed

(* As long as the wall clock is not set back, the history list keeps its    *)
(* inductive invariant: sorted by time, contiguous in allocation order, and *)
(* cut only at its outdated end.                                            *)
THEOREM HistorySafe ==
  ASSUME ~ClockSetBack
  PROVE  Spec => []HistoryInv
<1>1. Init => HistoryInv
  BY IpqServerAssumption DEF Init, HistoryInv, Sorted, Window, ThreadsInWindow, Gone, Node
<1>2. TypeOK /\ HistoryInv /\ [Next]_vars => HistoryInv'
  <2>1. ASSUME TypeOK, HistoryInv, Next PROVE HistoryInv'
    <3>1. ~SetClock BY DEF SetClock
    <3> QED BY <2>1, <3>1, HistoryElsewhere, HistoryTick, HistoryReadLine, HistoryCreate,
               HistoryAppend, HistoryScan, HistoryDeleteInner, HistoryDeleteTail,
               HistoryDeleteTailDone, HistoryAdvanceFreed DEF Next, Reader, Cleaner, Env
  <2>2. ASSUME HistoryInv, UNCHANGED vars PROVE HistoryInv'
    BY <2>2 DEF HistoryInv, Sorted, Window, ThreadsInWindow, Gone, Node,
         vars, list, elements, reader, cleaner
  <2> QED BY <2>1, <2>2
<1> QED BY <1>1, <1>2, TypeCorrect, PTL DEF Spec

(* The walk of search_in_list visits exactly the elements that are not gone. *)
LEMMA ListedIsWindow ==
  ASSUME TypeOK, HistoryInv
  PROVE  Listed = {i \in Node : ~Gone(i)}
<1> DEFINE Kept == {i \in Node : ~Gone(i)}
<1>1. \A m \in Kept : next[m] \in Kept \cup {NULL}
  <2>1. SUFFICES ASSUME NEW m \in Kept, next[m] # NULL PROVE next[m] \in Kept
    OBVIOUS
  <2>2. next[m] = m + 1 /\ m < Len(next) /\ m \in Node
    BY <2>1 DEF HistoryInv, Window
  <2>3. m + 1 \in Node BY <2>2, HistoryTypes
  <2>4. ~Gone(m + 1) BY <2>1, <2>2, <2>3, HistoryTypes DEF HistoryInv, Window
  <2> QED BY <2>2, <2>3, <2>4
<1>2. head \in Kept \cup {NULL}
  BY HistoryTypes DEF HistoryInv, Window
<1>3. ASSUME NEW n \in Listed PROVE n \in Kept
  <2>1. Kept \in SUBSET Node OBVIOUS
  <2> QED BY <1>1, <1>2, <1>3, <2>1 DEF Listed
<1>4. ASSUME NEW n \in Kept, NEW S \in SUBSET Node, head \in S \cup {NULL},
             \A m \in S : next[m] \in S \cup {NULL}
      PROVE  n \in S
  <2>1. head # NULL /\ head \in S /\ head \in Node
    BY <1>4 DEF HistoryInv, Window
  <2> DEFINE T == Kept \ S
  <2>2. SUFFICES ASSUME n \notin S PROVE FALSE OBVIOUS
  <2>3. T # {} /\ T \subseteq Nat BY <1>4, <2>2, HistoryTypes
  <2>4. PICK x \in T : \A y \in T : x <= y BY <2>3, LeastNatural
  <2>5. x \in Node /\ ~Gone(x) /\ x \notin S /\ x # head BY <2>1, <2>4
  <2>6. head < x BY <2>1, <2>5, HistoryTypes DEF HistoryInv, Window
  <2>7. x - 1 \in Node /\ head <= x - 1 /\ x - 1 < Len(next) /\ ~(x <= x - 1)
    BY <2>1, <2>5, <2>6, HistoryTypes
  <2>8. ~Gone(head) BY <2>1 DEF HistoryInv, Window
  <2>9. ~Gone(x - 1) BY <2>1, <2>7, <2>8 DEF HistoryInv, Window
  <2>10. x - 1 \in S BY <2>4, <2>7, <2>9
  <2>11. next[x - 1] = (x - 1) + 1 BY <2>7, <2>9 DEF HistoryInv, Window
  <2>12. x \in S \cup {NULL} BY <1>4, <2>5, <2>10, <2>11, HistoryTypes
  <2> QED BY <2>5, <2>12, HistoryTypes
<1>5. ASSUME NEW n \in Kept PROVE n \in Listed
  BY <1>4 DEF Listed
<1> QED BY <1>3, <1>5

(* clean_list never reads freed memory, and no walk of the list reaches it, *)
(* for every number of packets, validity and interleaving of the threads.   *)
THEOREM MemorySafe ==
  ASSUME ~ClockSetBack
  PROVE  Spec => []NoUseAfterFree
<1>1. TypeOK /\ HistoryInv => NoUseAfterFree
  BY ListedIsWindow DEF NoUseAfterFree, HistoryInv, Window, ThreadsInWindow, Gone
<1> QED BY <1>1, TypeCorrect, HistorySafe, PTL

(* No verdict is forgotten before its validity is over, although deleting   *)
(* the tail resets head and curr may be lost in the race of create_list.    *)
THEOREM VerdictsRemembered ==
  ASSUME ~ClockSetBack
  PROVE  Spec => []RememberedUntilOutdated
<1>1. TypeOK /\ HistoryInv => RememberedUntilOutdated
  <2>1. SUFFICES ASSUME TypeOK, HistoryInv, NEW n \in Node, ts[n] + Validity >= now
                 PROVE  n \in Listed
    BY DEF RememberedUntilOutdated
  <2>2. ~Gone(n) BY <2>1, HistoryTypes DEF HistoryInv, Window
  <2> QED BY <2>1, <2>2, ListedIsWindow
<1> QED BY <1>1, TypeCorrect, HistorySafe, PTL
=============================================================================

-------------------------- MODULE VerdictLogProofs --------------------------
(***************************************************************************)
(* More proofs about IpqServer.  With a clock that is not set back its     *)
(* history list implements VerdictLog, the log that never forgets.  With   *)
(* any clock no packet is accepted that Java did not release, each packet  *)
(* has one decider, and the reader's crash needs an emptied list.          *)
(***************************************************************************)
EXTENDS IpqServerProofs

-----------------------------------------------------------------------------
(* The refinement. *)

(* The log the history list stands for. *)
LogOf == {<<sock[n], ts[n]>> : n \in Node}

(* Where a thread of the server or its environment stutters for the log:    *)
(* the clock, the elements and the sender's look-up stay.                   *)
LEMMA LogStutters ==
  ASSUME TypeOK,
         UNCHANGED <<now, ts, sock, sPc, sPkt>>, Len(next') = Len(next),
         \/ UNCHANGED packets
         \/ \E dst \in Socket : packets' = Append(packets, dst)
  PROVE  UNCHANGED <<now, LogOf, SenderAnswer>>
<1>1. Node' = Node BY DEF Node
<1>2. LogOf' = LogOf BY <1>1 DEF LogOf
<1>3. sPc \in {"accept", "ask"} => packets'[sPkt] = packets[sPkt]
  BY AppendFacts DEF TypeOK, ChannelType, Id
<1>4. SenderAnswer' = SenderAnswer BY <1>3 DEF SenderAnswer
<1> QED BY <1>2, <1>4

(* Most steps are invisible. *)
LEMMA InvisibleSteps ==
  ASSUME TypeOK,
         \/ SendRead \/ SendNotice \/ Die \/ QueuePacket \/ JavaVerdict
         \/ ReadLine \/ add_to_list \/ append_to_null \/ ReadVerdict \/ Cleaner
  PROVE  UNCHANGED <<now, LogOf, SenderAnswer>>
<1> USE DEF list, elements, kernel, java, sender, reader, cleaner
<1>1. CASE SendRead \/ SendNotice
  <2>1. UNCHANGED <<now, ts, sock, next>> /\ sPc = "read" /\ sPc' \in {"search", "done"}
    BY <1>1 DEF SendRead, SendNotice
  <2>2. LogOf' = LogOf BY <2>1 DEF LogOf, Node
  <2>3. SenderAnswer = <<>> /\ SenderAnswer' = <<>> BY <2>1 DEF SenderAnswer
  <2> QED BY <2>1, <2>2, <2>3
<1>2. CASE Die \/ QueuePacket \/ JavaVerdict \/ ReadLine \/ add_to_list \/ append_to_null \/ ReadVerdict
  <2>1. /\ UNCHANGED <<now, ts, sock, next, sPc, sPkt>>
        /\ UNCHANGED packets \/ \E dst \in Socket : packets' = Append(packets, dst)
    BY <1>2 DEF Die, QueuePacket, JavaVerdict, ReadLine, add_to_list, append_to_null, ReadVerdict
  <2> QED BY <2>1, LogStutters
<1>3. CASE Cleaner
  <2>1. UNCHANGED <<now, ts, sock, sPc, sPkt, packets>>
    BY <1>3 DEF Cleaner, CleanWake, CleanLock, CleanKeep, delete_inner, delete_tail,
         delete_tail_done, CleanAdvance, CleanAdvanceFreed, CleanUnlock
  <2>2. Len(ts) = Len(next) /\ Len(ts') = Len(next')
    BY <1>3, TypeCleaner DEF TypeOK, ListType
  <2> QED BY <2>1, <2>2, LogStutters
<1> QED BY <1>1, <1>2, <1>3

(* A new element is a new verdict of the log, the latest one. *)
LEMMA NewElemRecords ==
  ASSUME TypeOK, HistoryInv, create_list \/ append_to_curr
  PROVE  Log!Record
<1> USE DEF list, elements, kernel, java, sender, reader, cleaner
<1> DEFINE s == packets[rLine]
<1>1. s \in Socket /\ rTime \in 0..now
  <2>1. rLine \in Id /\ rTime <= now
    BY DEF create_list, append_to_curr, TypeOK, ChannelType, HistoryInv, Sorted
  <2> QED BY <2>1, HistoryTypes DEF TypeOK, ChannelType, Id
<1>2. ts' = Append(ts, rTime) /\ sock' = Append(sock, s)
  BY DEF create_list, append_to_curr, NewElem
<1>3. UNCHANGED <<now, sPc, sPkt, packets>>
  BY DEF create_list, append_to_curr
<1>4. Node = 1..Len(ts) /\ Node' = 1..(Len(ts) + 1) /\ Len(ts) = Len(sock) /\ Len(ts) \in Nat
  <2>1. Len(ts') = Len(next') /\ Len(ts) = Len(next) /\ Len(ts) = Len(sock)
    BY TypeReader DEF Reader, TypeOK, ListType
  <2>2. Len(ts') = Len(ts) + 1 /\ Len(ts) \in Nat
    BY <1>2, HistoryTypes, AppendFacts DEF TypeOK, ListType
  <2> QED BY <2>1, <2>2 DEF Node
<1>5. /\ \A i \in Node : ts'[i] = ts[i] /\ sock'[i] = sock[i]
      /\ ts'[Len(ts) + 1] = rTime /\ sock'[Len(ts) + 1] = s
  BY <1>1, <1>2, <1>4, HistoryTypes, AppendFacts DEF TypeOK, ListType
<1>6. LogOf' = LogOf \cup {<<s, rTime>>}
  <2>1. ASSUME NEW e \in LogOf' PROVE e \in LogOf \cup {<<s, rTime>>}
    <3>1. PICK n \in Node' : e = <<sock'[n], ts'[n]>> BY <2>1 DEF LogOf
    <3>2. CASE n = Len(ts) + 1 BY <1>5, <3>1, <3>2
    <3>3. CASE n \in Node BY <1>5, <3>1, <3>3 DEF LogOf
    <3> QED BY <1>4, <3>1, <3>2, <3>3
  <2>2. LogOf \subseteq LogOf'
    <3>1. SUFFICES ASSUME NEW n \in Node PROVE <<sock[n], ts[n]>> \in LogOf' BY DEF LogOf
    <3>2. n \in Node' /\ sock'[n] = sock[n] /\ ts'[n] = ts[n] BY <1>4, <1>5
    <3> QED BY <3>2 DEF LogOf
  <2>3. <<s, rTime>> \in LogOf'
    <3>1. Len(ts) + 1 \in Node' BY <1>4
    <3> QED BY <1>5, <3>1 DEF LogOf
  <2> QED BY <2>1, <2>2, <2>3
<1>7. \A e \in LogOf : e[2] <= rTime
  BY DEF LogOf, HistoryInv, Sorted, create_list, append_to_curr
<1>8. SenderAnswer' = SenderAnswer BY <1>3 DEF SenderAnswer
<1> QED BY <1>1, <1>3, <1>6, <1>7, <1>8 DEF Log!Record, LogOf

(* search_in_list finds a socket exactly when the log has a valid verdict   *)
(* for it: what the list has lost was outdated.                             *)
LEMMA SearchFindsLogged ==
  ASSUME TypeOK, HistoryInv, NEW dst
  PROVE  search_in_list(dst) <=> \E e \in LogOf : e[1] = dst /\ e[2] + Validity > now
<1>1. ASSUME search_in_list(dst)
      PROVE  \E e \in LogOf : e[1] = dst /\ e[2] + Validity > now
  <2>1. PICK n \in Node : sock[n] = dst /\ ts[n] + Validity > now
    BY <1>1 DEF search_in_list, ValidFor, Listed
  <2>2. <<sock[n], ts[n]>> \in LogOf BY DEF LogOf
  <2> QED BY <2>1, <2>2
<1>2. ASSUME NEW e \in LogOf, e[1] = dst, e[2] + Validity > now
      PROVE  search_in_list(dst)
  <2>1. PICK n \in Node : e = <<sock[n], ts[n]>> BY <1>2 DEF LogOf
  <2>2. sock[n] = dst /\ ts[n] + Validity > now BY <1>2, <2>1
  <2>3. ~Gone(n) BY <2>2, HistoryTypes DEF HistoryInv, Window
  <2>4. n \in Listed BY <2>3, ListedIsWindow
  <2> QED BY <2>2, <2>4 DEF search_in_list, ValidFor
<1> QED BY <1>1, <1>2

(* The look-up. *)
LEMMA SearchLooksUp ==
  ASSUME TypeOK, HistoryInv, SendSearch
  PROVE  Log!Lookup
<1> USE DEF list, elements, kernel, java, sender, reader, cleaner
<1> DEFINE s == packets[sPkt]
<1>1. /\ sPc = "search" /\ sPkt' = sPkt /\ UNCHANGED <<now, ts, sock, next, packets>>
      /\ sPc' = IF search_in_list(s) THEN "accept" ELSE "ask"
  BY DEF SendSearch
<1>2. s \in Socket BY <1>1 DEF TypeOK, ChannelType, Id
<1>3. SenderAnswer = <<>> BY <1>1 DEF SenderAnswer
<1>4. SenderAnswer' = IF search_in_list(s) THEN <<"hit", s>> ELSE <<"miss", s>>
  BY <1>1 DEF SenderAnswer
<1>5. SenderAnswer' = IF \E e \in LogOf : e[1] = s /\ e[2] + Validity > now
                      THEN <<"hit", s>> ELSE <<"miss", s>>
  <2>1. search_in_list(s) <=> \E e \in LogOf : e[1] = s /\ e[2] + Validity > now
    BY SearchFindsLogged
  <2> QED BY <1>4, <2>1
<1>6. LogOf' = LogOf BY <1>1 DEF LogOf, Node
<1> QED BY <1>1, <1>2, <1>3, <1>5, <1>6 DEF Log!Lookup, LogOf

(* The answer is used: the packet is accepted, put to Java, or the server   *)
(* stops because it cannot be.                                              *)
LEMMA AnswerIsUsed ==
  ASSUME SendAccept \/ SendAsk \/ SendAskFails
  PROVE  Log!Answered
<1> USE DEF list, elements, kernel, java, sender, reader, cleaner
<1>1. /\ sPc \in {"accept", "ask"} /\ sPc' \in {"read", "done"}
      /\ UNCHANGED <<now, ts, sock, next>>
  BY DEF SendAccept, SendAsk, SendAskFails, AfterLoop
<1>2. SenderAnswer # <<>> /\ SenderAnswer' = <<>>
  BY <1>1 DEF SenderAnswer
<1>3. LogOf' = LogOf BY <1>1 DEF LogOf, Node
<1> QED BY <1>1, <1>2, <1>3 DEF Log!Answered, LogOf

(* The history list implements the log that never forgets: whatever         *)
(* clean_list removes, and between whichever steps of the reader, the fate  *)
(* of no packet changes.                                                    *)
THEOREM LogImplemented ==
  ASSUME ~ClockSetBack
  PROVE  Spec => ImplementsLog
<1>1. Init => Log!LogInit
  <2>1. ASSUME Init PROVE Log!LogInit
    <3>1. now = 0 /\ sPc = "read" /\ next = <<>> BY <2>1 DEF Init
    <3>2. Node = {} BY <3>1 DEF Node
    <3>3. LogOf = {} BY <3>2 DEF LogOf
    <3>4. SenderAnswer = <<>> BY <3>1 DEF SenderAnswer
    <3> QED BY <3>1, <3>3, <3>4 DEF Log!LogInit, LogOf
  <2> QED BY <2>1
<1>2. TypeOK /\ HistoryInv /\ [Next]_vars => [Log!LogNext]_(Log!logVars)
  <2>1. ASSUME TypeOK, HistoryInv, Next PROVE Log!LogNext \/ UNCHANGED Log!logVars
    <3>1. CASE Tick
      <4>1. now' = now + 1 /\ UNCHANGED <<ts, sock, next, sPc, sPkt, packets>>
        BY <3>1 DEF Tick, list, elements, sender, kernel
      <4>2. LogOf' = LogOf /\ SenderAnswer' = SenderAnswer
        BY <4>1 DEF LogOf, Node, SenderAnswer
      <4> QED BY <4>1, <4>2 DEF Log!LogNext, Log!Passes, LogOf
    <3>2. CASE create_list \/ append_to_curr
      BY <2>1, <3>2, NewElemRecords DEF Log!LogNext
    <3>3. CASE SendSearch
      BY <2>1, <3>3, SearchLooksUp DEF Log!LogNext
    <3>4. CASE SendAccept \/ SendAsk \/ SendAskFails
      BY <3>4, AnswerIsUsed DEF Log!LogNext
    <3>5. CASE \/ SendRead \/ SendNotice \/ Die \/ QueuePacket \/ JavaVerdict
               \/ ReadLine \/ add_to_list \/ append_to_null \/ ReadVerdict \/ Cleaner
      <4>1. UNCHANGED <<now, LogOf, SenderAnswer>> BY <2>1, <3>5, InvisibleSteps
      <4> QED BY <4>1 DEF Log!logVars, LogOf
    <3>6. ~SetClock BY DEF SetClock
    <3> QED BY <2>1, <3>1, <3>2, <3>3, <3>4, <3>5, <3>6 DEF Next, Sender, Reader, Env
  <2>2. ASSUME UNCHANGED vars PROVE UNCHANGED Log!logVars
    <3>1. UNCHANGED <<now, ts, sock, next, sPc, sPkt, packets>>
      BY <2>2 DEF vars, list, elements, sender, kernel
    <3>2. LogOf' = LogOf /\ SenderAnswer' = SenderAnswer
      BY <3>1 DEF LogOf, Node, SenderAnswer
    <3> QED BY <3>1, <3>2 DEF Log!logVars, LogOf
  <2> QED BY <2>1, <2>2
<1> QED BY <1>1, <1>2, TypeCorrect, HistorySafe, PTL DEF Spec, ImplementsLog, Log!LogSpec

-----------------------------------------------------------------------------
(* Whatever the clock does. *)

(* Everything on its way to an acceptance is for a socket Java has          *)
(* released: the elements, the lines, the sender's hit, the reader's line.  *)
ReleasedInv ==
  /\ AcceptedWasReleased
  /\ \A n \in Node : sock[n] \in released
  /\ \A k \in 1..Len(fromJava) : packets[fromJava[k]] \in released
  /\ sPc = "accept" => packets[sPkt] \in released
  /\ rPc \in {"check", "create", "append", "verdict"} => packets[rLine] \in released

(* The sender finds only released sockets. *)
LEMMA ReleasedSender ==
  ASSUME TypeOK, ReleasedInv, Sender \/ Die
  PROVE  ReleasedInv'
<1> USE DEF list, elements, kernel, java, sender, reader, cleaner
<1>1. UNCHANGED <<sock, next, fromJava, released, packets, rPc, rLine>>
  BY DEF Sender, SendRead, SendNotice, SendSearch, SendAccept, SendAsk, SendAskFails, Die
<1>2. sPc' = "accept" => packets[sPkt'] \in released
  <2>1. CASE SendSearch
    <3>1. search_in_list(packets[sPkt]) => packets[sPkt] \in released
      BY DEF search_in_list, Listed, ValidFor, ReleasedInv
    <3> QED BY <2>1, <3>1 DEF SendSearch
  <2>2. CASE ~SendSearch
    BY <2>2 DEF Sender, SendRead, SendNotice, SendAccept, SendAsk, SendAskFails, Die, AfterLoop, ReleasedInv
  <2> QED BY <2>1, <2>2
<1>3. accepted' = accepted \/ (sPc = "accept" /\ accepted' = accepted \cup {sPkt})
  BY DEF Sender, SendRead, SendNotice, SendSearch, SendAccept, SendAsk, SendAskFails, Die
<1>4. AcceptedWasReleased' BY <1>1, <1>3 DEF ReleasedInv, AcceptedWasReleased
<1> QED BY <1>1, <1>2, <1>4 DEF ReleasedInv, Node

(* The reader adds and accepts what a line of Java names. *)
LEMMA ReleasedReader ==
  ASSUME TypeOK, ReleasedInv, Reader
  PROVE  ReleasedInv'
<1> USE DEF list, elements, kernel, java, sender, reader, cleaner
<1>1. UNCHANGED <<released, packets, sPc, sPkt>>
  BY DEF Reader, ReadLine, add_to_list, create_list, append_to_curr, append_to_null, ReadVerdict
<1>2. CASE ReadLine
  <2>1. PICK k \in 1..Len(fromJava) : fromJava' = SubSeq(fromJava, k + 1, Len(fromJava))
    BY <1>2 DEF ReadLine
  <2>2. UNCHANGED <<sock, next, accepted>> /\ rLine' = Head(fromJava)
    BY <1>2 DEF ReadLine
  <2>3. fromJava \in Seq(Id) /\ Len(fromJava) \in Nat BY DEF TypeOK, ChannelType
  <2>4. Head(fromJava) = fromJava[1] /\ 1 \in 1..Len(fromJava) BY <1>2, <2>3 DEF ReadLine
  <2>5. \A j \in 1..Len(fromJava') : packets[fromJava'[j]] \in released
    <3>1. /\ Len(fromJava') = Len(fromJava) - k
          /\ \A j \in 1..(Len(fromJava) - k) : fromJava'[j] = fromJava[k + j]
      BY <2>1, <2>3
    <3>2. \A j \in 1..(Len(fromJava) - k) : k + j \in 1..Len(fromJava)
      BY <2>1, <2>3
    <3> QED BY <3>1, <3>2 DEF ReleasedInv
  <2> QED BY <1>1, <2>2, <2>4, <2>5 DEF ReleasedInv, AcceptedWasReleased, Node
<1>3. CASE create_list \/ append_to_curr
  <2>1. sock' = Append(sock, packets[rLine]) /\ packets[rLine] \in released
    BY <1>3 DEF create_list, append_to_curr, NewElem, ReleasedInv
  <2>2. packets[rLine] \in Socket /\ sock \in Seq(Socket)
    BY <1>3 DEF create_list, append_to_curr, TypeOK, ListType, ChannelType, Id
  <2>3. Node = 1..Len(sock) /\ Node' = 1..Len(sock')
    BY TypeReader DEF TypeOK, ListType, Node
  <2>4. \A n \in Node' : sock'[n] \in released
    BY <2>1, <2>2, <2>3, AppendFacts DEF ReleasedInv
  <2>5. UNCHANGED <<fromJava, accepted, rLine>> /\ rPc \in {"create", "append"}
    BY <1>3 DEF create_list, append_to_curr
  <2> QED BY <1>1, <2>4, <2>5 DEF ReleasedInv, AcceptedWasReleased
<1>4. CASE add_to_list \/ append_to_null \/ ReadVerdict
  <2>1. UNCHANGED <<sock, next, fromJava, rLine>>
    BY <1>4 DEF add_to_list, append_to_null, ReadVerdict
  <2>2. accepted' = accepted \/ (rPc = "verdict" /\ accepted' = accepted \cup {rLine})
    BY <1>4 DEF add_to_list, append_to_null, ReadVerdict
  <2>3. rPc' \in {"check", "create", "append", "verdict"} => rPc \in {"check", "create", "append", "verdict"}
    BY <1>4 DEF add_to_list, append_to_null, ReadVerdict, AfterLoop
  <2> QED BY <1>1, <2>1, <2>2, <2>3 DEF ReleasedInv, AcceptedWasReleased, Node
<1> QED BY <1>2, <1>3, <1>4 DEF Reader

(* The cleaner, the clock, the kernel and Java release nothing wrongly. *)
LEMMA ReleasedElsewhere ==
  ASSUME TypeOK, ReleasedInv, Cleaner \/ Env
  PROVE  ReleasedInv'
<1> USE DEF list, elements, kernel, java, sender, reader, cleaner
<1>1. CASE Cleaner \/ Tick \/ SetClock
  <2>1. UNCHANGED <<sock, fromJava, released, packets, accepted, sPc, sPkt, rPc, rLine>>
    BY <1>1 DEF Cleaner, CleanWake, CleanLock, CleanKeep, delete_inner, delete_tail, delete_tail_done,
         CleanAdvance, CleanAdvanceFreed, CleanUnlock, Tick, SetClock
  <2>2. Node = 1..Len(sock) /\ Node' = 1..Len(sock')
    BY <1>1, TypeCleaner, TypeEnv DEF Env, TypeOK, ListType, Node
  <2> QED BY <2>1, <2>2 DEF ReleasedInv, AcceptedWasReleased
<1>2. CASE QueuePacket
  <2>1. PICK dst \in Socket : packets' = Append(packets, dst)
    BY <1>2 DEF QueuePacket
  <2>2. UNCHANGED <<sock, next, fromJava, released, accepted, sPc, sPkt, rPc, rLine>>
    BY <1>2 DEF QueuePacket
  <2>3. \A id \in Id : packets'[id] = packets[id]
    BY <2>1, AppendFacts DEF TypeOK, ChannelType, Id
  <2>4. \A k \in 1..Len(fromJava) : fromJava[k] \in Id
    BY DEF TypeOK, ChannelType
  <2>5. accepted \subseteq Id /\ (sPc = "accept" => sPkt \in Id)
        /\ (rPc \in {"check", "create", "append", "verdict"} => rLine \in Id)
    BY DEF TypeOK, ChannelType
  <2> QED BY <2>2, <2>3, <2>4, <2>5 DEF ReleasedInv, AcceptedWasReleased, Node
<1>3. CASE JavaVerdict
  <2>1. PICK id \in asked : fromJava' = Append(fromJava, id) /\ released' = released \cup {packets[id]}
    BY <1>3 DEF JavaVerdict
  <2>2. UNCHANGED <<sock, next, packets, accepted, sPc, sPkt, rPc, rLine>>
    BY <1>3 DEF JavaVerdict
  <2>3. fromJava \in Seq(Id) /\ id \in Id BY DEF TypeOK, ChannelType
  <2>4. \A k \in 1..Len(fromJava') : packets[fromJava'[k]] \in released'
    BY <2>1, <2>3, AppendFacts DEF ReleasedInv
  <2> QED BY <2>1, <2>2, <2>4 DEF ReleasedInv, AcceptedWasReleased, Node
<1> QED BY <1>1, <1>2, <1>3 DEF Env

(* send_ipq and read_java accept only packets to sockets Java has released, *)
(* for every clock: the history list never lets a socket through by itself. *)
THEOREM AcceptsReleased == Spec => []AcceptedWasReleased
<1>1. Init => ReleasedInv
  BY DEF Init, ReleasedInv, AcceptedWasReleased, Node
<1>2. TypeOK /\ ReleasedInv /\ [Next]_vars => ReleasedInv'
  <2>1. ASSUME TypeOK, ReleasedInv, Next PROVE ReleasedInv'
    BY <2>1, ReleasedSender, ReleasedReader, ReleasedElsewhere DEF Next
  <2>2. ASSUME ReleasedInv, UNCHANGED vars PROVE ReleasedInv'
    BY <2>2 DEF ReleasedInv, AcceptedWasReleased, Node, vars, list, elements, kernel, java, sender, reader
  <2> QED BY <2>1, <2>2
<1>3. ReleasedInv => AcceptedWasReleased BY DEF ReleasedInv
<1> QED BY <1>1, <1>2, <1>3, TypeCorrect, PTL DEF Spec

-----------------------------------------------------------------------------
(* The ids the reader and the lines to it hold. *)
SenderHolds == IF sPc \in {"search", "accept", "ask"} THEN {sPkt} ELSE {}
ReaderHolds == IF rPc \in {"check", "create", "append", "verdict"} THEN {rLine} ELSE {}
Lines == {fromJava[k] : k \in 1..Len(fromJava)}

(* Every packet is in one place: the kernel's queue, the sender, Java, the  *)
(* lines from Java, the reader, or accepted; no two lines are for one.      *)
DeciderInv ==
  /\ SenderHolds \cap (unread \cup asked \cup Lines \cup ReaderHolds \cup accepted) = {}
  /\ unread \cap (asked \cup Lines \cup ReaderHolds \cup accepted) = {}
  /\ asked \cap (Lines \cup ReaderHolds \cup accepted) = {}
  /\ Lines \cap (ReaderHolds \cup accepted) = {}
  /\ ReaderHolds \cap accepted = {}
  /\ \A j, k \in 1..Len(fromJava) : fromJava[j] = fromJava[k] => j = k

(* A packet moves from the queue to the sender, and on to Java or to the    *)
(* accepted ones.                                                           *)
LEMMA DeciderSender ==
  ASSUME TypeOK, DeciderInv, Sender
  PROVE  DeciderInv'
<1> USE DEF list, elements, kernel, java, sender, reader, cleaner
<1>1. Lines' = Lines /\ ReaderHolds' = ReaderHolds /\ fromJava' = fromJava
  BY DEF Sender, SendRead, SendNotice, SendSearch, SendAccept, SendAsk, SendAskFails, Lines, ReaderHolds
<1>2. CASE SendRead
  <2>1. unread # {} /\ unread \subseteq Nat
    BY <1>2 DEF SendRead, TypeOK, ChannelType, Id
  <2>2. \E i \in unread : \A j \in unread : i <= j
    BY <2>1, LeastNatural
  <2>3. PICK id \in unread : sPkt' = id /\ unread' = unread \ {id}
    BY <1>2, <2>2 DEF SendRead
  <2>4. SenderHolds' = {id} /\ UNCHANGED <<asked, accepted>>
    BY <1>2, <2>3 DEF SendRead, SenderHolds
  <2> QED BY <1>1, <2>3, <2>4 DEF DeciderInv
<1>3. CASE SendNotice \/ SendSearch \/ SendAskFails
  <2>1. SenderHolds' \subseteq SenderHolds /\ UNCHANGED <<unread, asked, accepted>>
    BY <1>3 DEF SendNotice, SendSearch, SendAskFails, SenderHolds
  <2> QED BY <1>1, <2>1 DEF DeciderInv
<1>4. CASE SendAccept
  <2>1. SenderHolds = {sPkt} /\ SenderHolds' = {} /\ accepted' = accepted \cup {sPkt}
        /\ UNCHANGED <<unread, asked>>
    BY <1>4 DEF SendAccept, SenderHolds, AfterLoop
  <2> QED BY <1>1, <2>1 DEF DeciderInv
<1>5. CASE SendAsk
  <2>1. SenderHolds = {sPkt} /\ SenderHolds' = {} /\ asked' = asked \cup {sPkt}
        /\ UNCHANGED <<unread, accepted>>
    BY <1>5 DEF SendAsk, SenderHolds, AfterLoop
  <2> QED BY <1>1, <2>1 DEF DeciderInv
<1> QED BY <1>2, <1>3, <1>4, <1>5 DEF Sender

(* The reader takes the first line and drops others; then the packet is     *)
(* accepted.                                                                *)
LEMMA DeciderReader ==
  ASSUME TypeOK, DeciderInv, Reader
  PROVE  DeciderInv'
<1> USE DEF list, elements, kernel, java, sender, reader, cleaner
<1>1. UNCHANGED <<unread, asked>> /\ SenderHolds' = SenderHolds
  BY DEF Reader, ReadLine, add_to_list, create_list, append_to_curr, append_to_null, ReadVerdict, SenderHolds
<1>2. CASE ReadLine
  <2>1. PICK k \in 1..Len(fromJava) : fromJava' = SubSeq(fromJava, k + 1, Len(fromJava))
    BY <1>2 DEF ReadLine
  <2>2. rLine' = Head(fromJava) /\ rPc' = "check" /\ UNCHANGED accepted /\ rPc = "read"
    BY <1>2 DEF ReadLine
  <2>3. fromJava \in Seq(Id) /\ Len(fromJava) \in Nat BY DEF TypeOK, ChannelType
  <2>4. Head(fromJava) = fromJava[1] /\ 1 \in 1..Len(fromJava) BY <1>2, <2>3 DEF ReadLine
  <2>5. /\ Len(fromJava') = Len(fromJava) - k
        /\ \A j \in 1..(Len(fromJava) - k) : fromJava'[j] = fromJava[k + j]
    BY <2>1, <2>3
  <2>6. \A j \in 1..(Len(fromJava) - k) : k + j \in 1..Len(fromJava) /\ k + j # 1
    BY <2>1, <2>3
  <2>7. ReaderHolds' = {fromJava[1]} /\ ReaderHolds = {}
    BY <2>2, <2>4 DEF ReaderHolds
  <2>8. Lines' \subseteq Lines \ {fromJava[1]} /\ fromJava[1] \in Lines
    BY <2>4, <2>5, <2>6 DEF Lines, DeciderInv
  <2>9. \A i, j \in 1..Len(fromJava') : fromJava'[i] = fromJava'[j] => i = j
    <3>1. SUFFICES ASSUME NEW i \in 1..Len(fromJava'), NEW j \in 1..Len(fromJava'),
                          fromJava'[i] = fromJava'[j]
                   PROVE  i = j
      OBVIOUS
    <3>2. fromJava[k + i] = fromJava[k + j] BY <2>5, <3>1
    <3>3. k + i = k + j BY <2>5, <2>6, <3>2 DEF DeciderInv
    <3> QED BY <2>1, <2>3, <2>5, <3>3
  <2> QED BY <1>1, <2>2, <2>7, <2>8, <2>9 DEF DeciderInv
<1>3. CASE ~ReadLine
  <2>1. UNCHANGED fromJava /\ Lines' = Lines
    BY <1>3 DEF Reader, add_to_list, create_list, append_to_curr, append_to_null, ReadVerdict, Lines
  <2>2. \/ ReaderHolds' = ReaderHolds /\ UNCHANGED accepted
        \/ ReaderHolds = {rLine} /\ ReaderHolds' = {} /\ accepted' = accepted \cup {rLine}
    BY <1>3 DEF Reader, add_to_list, create_list, append_to_curr, append_to_null, ReadVerdict,
         ReaderHolds, AfterLoop
  <2> QED BY <1>1, <2>1, <2>2 DEF DeciderInv
<1> QED BY <1>2, <1>3

(* A new packet has a new id, and Java answers each packet once. *)
LEMMA DeciderElsewhere ==
  ASSUME TypeOK, DeciderInv, Cleaner \/ Die \/ Env
  PROVE  DeciderInv'
<1> USE DEF list, elements, kernel, java, sender, reader, cleaner
<1>1. UNCHANGED <<accepted, sPc, sPkt, rPc, rLine>>
  BY DEF Cleaner, CleanWake, CleanLock, CleanKeep, delete_inner, delete_tail, delete_tail_done,
         CleanAdvance, CleanAdvanceFreed, CleanUnlock, Die, Env, Tick, SetClock, QueuePacket, JavaVerdict
<1>2. SenderHolds' = SenderHolds /\ ReaderHolds' = ReaderHolds
  BY <1>1 DEF SenderHolds, ReaderHolds
<1>3. CASE Cleaner \/ Die \/ Tick \/ SetClock
  <2>1. UNCHANGED <<unread, asked, fromJava>>
    BY <1>3 DEF Cleaner, CleanWake, CleanLock, CleanKeep, delete_inner, delete_tail, delete_tail_done,
         CleanAdvance, CleanAdvanceFreed, CleanUnlock, Die, Tick, SetClock
  <2> QED BY <1>1, <1>2, <2>1 DEF DeciderInv, Lines
<1>4. CASE QueuePacket
  <2>1. unread' = unread \cup {Len(packets) + 1} /\ UNCHANGED <<asked, fromJava>>
    BY <1>4 DEF QueuePacket
  <2>2. Len(packets) + 1 \notin Id BY DEF TypeOK, ChannelType, Id
  <2>3. SenderHolds \cup asked \cup Lines \cup ReaderHolds \cup accepted \subseteq Id
    BY DEF TypeOK, ChannelType, SenderHolds, ReaderHolds, Lines
  <2>4. Lines' = Lines BY <2>1 DEF Lines
  <2> QED BY <1>1, <1>2, <2>1, <2>2, <2>3, <2>4 DEF DeciderInv
<1>5. CASE JavaVerdict
  <2>1. PICK id \in asked : asked' = asked \ {id} /\ fromJava' = Append(fromJava, id)
    BY <1>5 DEF JavaVerdict
  <2>2. UNCHANGED unread BY <1>5 DEF JavaVerdict
  <2>3. fromJava \in Seq(Id) /\ Len(fromJava) \in Nat /\ id \in Id BY DEF TypeOK, ChannelType
  <2>4. /\ Len(fromJava') = Len(fromJava) + 1 /\ fromJava'[Len(fromJava) + 1] = id
        /\ \A k \in 1..Len(fromJava) : fromJava'[k] = fromJava[k]
    BY <2>1, <2>3, AppendFacts
  <2>5. Lines' \subseteq Lines \cup {id} BY <2>3, <2>4 DEF Lines
  <2>6. id \notin Lines BY DEF DeciderInv
  <2>7. \A j, k \in 1..Len(fromJava') : fromJava'[j] = fromJava'[k] => j = k
    <3>1. SUFFICES ASSUME NEW j \in 1..Len(fromJava'), NEW k \in 1..Len(fromJava'),
                          fromJava'[j] = fromJava'[k]
                   PROVE  j = k
      OBVIOUS
    <3>2. \A i \in 1..Len(fromJava) : fromJava[i] # id BY <2>6 DEF Lines
    <3>3. \A i \in 1..Len(fromJava') : i \in 1..Len(fromJava) \/ i = Len(fromJava) + 1
      BY <2>3, <2>4
    <3> QED BY <2>4, <3>1, <3>2, <3>3 DEF DeciderInv
  <2> QED BY <1>1, <1>2, <2>1, <2>2, <2>5, <2>6, <2>7 DEF DeciderInv
<1> QED BY <1>3, <1>4, <1>5 DEF Env

(* No packet is accepted while the sender still decides about it or while   *)
(* Java is asked: between ipq_read and the verdict each packet is in one    *)
(* hand, for every clock and number of packets.                             *)
THEOREM PacketHasOneDecider == Spec => []OneDecider
<1>1. Init => DeciderInv
  BY DEF Init, DeciderInv, SenderHolds, ReaderHolds, Lines
<1>2. TypeOK /\ DeciderInv /\ [Next]_vars => DeciderInv'
  <2>1. ASSUME TypeOK, DeciderInv, Next PROVE DeciderInv'
    BY <2>1, DeciderSender, DeciderReader, DeciderElsewhere DEF Next
  <2>2. ASSUME DeciderInv, UNCHANGED vars PROVE DeciderInv'
    BY <2>2 DEF DeciderInv, SenderHolds, ReaderHolds, Lines, vars, kernel, java, sender, reader
  <2> QED BY <2>1, <2>2
<1>3. DeciderInv => OneDecider
  BY DEF DeciderInv, SenderHolds, OneDecider
<1> QED BY <1>1, <1>2, <1>3, TypeCorrect, PTL DEF Spec

-----------------------------------------------------------------------------
(* Until something was freed or is being deleted, curr is set when the list *)
(* is not empty, and the reader appends only then.                          *)
CrashInv ==
  /\ SegvOnlyAfterClean
  /\ curr = NULL /\ (rPc = "append" \/ head # NULL) =>
       freed # {} \/ cPc \in {"clearHead", "clearCurr"}

(* The reader dereferences curr == NULL only after clean_list has removed   *)
(* an element: without the cleaner the unlocked test of head is safe.       *)
THEOREM CrashNeedsCleaner == Spec => []SegvOnlyAfterClean
<1> USE DEF list, elements, kernel, java, sender, reader, cleaner
<1>1. Init => CrashInv
  BY DEF Init, CrashInv, SegvOnlyAfterClean
<1>2. TypeOK /\ CrashInv /\ [Next]_vars => CrashInv'
  <2>1. ASSUME TypeOK, CrashInv, Next PROVE CrashInv'
    <3>1. CASE Sender \/ Die \/ Env
      BY <2>1, <3>1 DEF CrashInv, SegvOnlyAfterClean, Sender, SendRead, SendNotice, SendSearch, SendAccept, SendAsk,
           SendAskFails, Die, Env, Tick, SetClock, QueuePacket, JavaVerdict
    <3>2. CASE ReadLine \/ add_to_list \/ append_to_null \/ ReadVerdict
      BY <2>1, <3>2 DEF CrashInv, SegvOnlyAfterClean, ReadLine, add_to_list, append_to_null, ReadVerdict,
           AfterLoop, LockFree
    <3>3. CASE create_list \/ append_to_curr
      <4>1. curr' = Len(next) + 1 /\ UNCHANGED <<fault, freed>>
        BY <3>3 DEF create_list, append_to_curr, NewElem
      <4>2. curr' # NULL BY <2>1, <4>1, HistoryTypes DEF NULL
      <4> QED BY <2>1, <4>1, <4>2 DEF CrashInv, SegvOnlyAfterClean
    <3>4. CASE CleanWake \/ CleanLock \/ CleanKeep \/ CleanAdvance \/ CleanAdvanceFreed \/ CleanUnlock
      BY <2>1, <3>4 DEF CrashInv, SegvOnlyAfterClean, CleanWake, CleanLock, CleanKeep, CleanAdvance,
           CleanAdvanceFreed, CleanUnlock
    <3>5. CASE delete_inner \/ delete_tail_done
      <4>1. freed' = freed \cup {cPtr} BY <3>5 DEF delete_inner, delete_tail_done
      <4> QED BY <4>1 DEF CrashInv, SegvOnlyAfterClean
    <3>6. CASE delete_tail
      BY <2>1, <3>6 DEF CrashInv, SegvOnlyAfterClean, delete_tail
    <3> QED BY <2>1, <3>1, <3>2, <3>3, <3>4, <3>5, <3>6 DEF Next, Reader, Cleaner
  <2>2. ASSUME CrashInv, UNCHANGED vars PROVE CrashInv'
    BY <2>2 DEF CrashInv, SegvOnlyAfterClean, vars
  <2> QED BY <2>1, <2>2
<1>3. CrashInv => SegvOnlyAfterClean BY DEF CrashInv
<1> QED BY <1>1, <1>2, <1>3, TypeCorrect, PTL DEF Spec
=============================================================================

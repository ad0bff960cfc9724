----------------------------- MODULE IpqServer -----------------------------
(***************************************************************************)
(* jni/ipqserver/server.c: the native helper between the kernel's ip_queue *)
(* and the Java side (IpqReader / IpqWorker).  One child process serves    *)
(* one connection with three threads:                                      *)
(*   sender  (send_ipq)   takes a queued packet, looks its socket up in    *)
(*                        the history list and accepts it or asks Java;    *)
(*   reader  (read_java)  takes a verdict line from Java, appends the      *)
(*                        socket to the history list, accepts the packet;  *)
(*   cleaner (clean_list) removes outdated entries of the history list.    *)
(*                                                                         *)
(* The list is modelled as the C code has it: nodes with next pointers     *)
(* (0 is NULL), the globals head and curr, and one mutex.  The critical    *)
(* sections of sender and reader are single steps: nothing in them is      *)
(* visible to an unlocked access of another thread.  The cleaner's is      *)
(* not, because add_to_list tests head, and create_list writes head and    *)
(* curr, without the lock.  time() is the wall clock: ClockSetBack says    *)
(* whether it may be set back while the server runs.                       *)
(***************************************************************************)
EXTENDS Integers, Sequences

CONSTANTS
  Socket,       \* destination ip:port pairs
  Validity,     \* TIMEVALIDITY
  MaxTime,      \* bound on the clock
  MaxPackets,   \* bound on the packets the kernel queues
  ClockSetBack  \* may the wall clock be set back?

ASSUME IpqServerAssumption ==
  /\ Validity \in Nat
  /\ MaxTime \in Nat
  /\ MaxPackets \in Nat
  /\ ClockSetBack \in BOOLEAN

NULL == 0

VARIABLES
  now,       \* time()
  ts, sock, next, \* fields of the history elements, in allocation order
  freed,     \* elements given to free()
  head, curr,
  running,   \* int running
  fault,     \* how the process ended: "segv" (NULL dereference), "uaf" (read
             \*   of a freed element), "exit" (die), or "none"
  sPc, sPkt, \* sender: where it is, the packet it has
  rPc, rLine, rTime,        \* reader: where it is, packet_id, current_time
  cPc, cPtr, cPrev, cTime,  \* cleaner: where it is, ptr, prev, current_time
  packets,   \* destination socket of every packet queued so far, by packet id
  unread,    \* ids the kernel holds that ipq_read has not returned yet
  asked,     \* ids written to Java that Java has not answered yet
  fromJava,  \* verdict lines in the domain socket, by packet id
  released,  \* sockets Java has sent a verdict line for
  accepted   \* ids with verdict NF_ACCEPT

elements == <<ts, sock, next, freed>>
list == <<elements, head, curr>>
sender == <<sPc, sPkt>>
reader == <<rPc, rLine, rTime>>
cleaner == <<cPc, cPtr, cPrev, cTime>>
kernel == <<packets, unread, accepted>>
java == <<asked, fromJava, released>>
vars == <<now, list, running, fault, sender, reader, cleaner, kernel, java>>

Id == 1..Len(packets)
Node == 1..Len(next)

Init ==
  /\ now = 0
  /\ ts = <<>> /\ sock = <<>> /\ next = <<>> /\ freed = {} /\ head = NULL /\ curr = NULL
  /\ running = 1
  /\ fault = "none"
  /\ sPc = "read" /\ sPkt = 0
  /\ rPc = "read" /\ rLine = 0 /\ rTime = 0
  /\ cPc = "sleep" /\ cPtr = NULL /\ cPrev = NULL /\ cTime = 0
  /\ packets = <<>> /\ unread = {} /\ accepted = {}
  /\ asked = {} /\ fromJava = <<>> /\ released = {}

-----------------------------------------------------------------------------
(* The mutex: only the cleaner holds it across steps. *)
LockFree == cPc \notin {"scan", "clearHead", "clearCurr", "advance"}

(* The elements a walk from head along next visits. *)
Listed ==
  {n \in Node :
     \A S \in SUBSET Node :
       (/\ head \in S \cup {NULL}
        /\ \A m \in S : next[m] \in S \cup {NULL}) => n \in S}

(* Mutated form: the socket is not compared. *)
MutValidForAnySocket(n, dst) == ts[n] + Validity > now

(* The loop condition of search_in_list. *)
ValidFor(n, dst) == sock[n] = dst /\ ts[n] + Validity > now

search_in_list(dst) == \E n \in Listed : ValidFor(n, dst)

Tick ==
  /\ now < MaxTime
  /\ now' = now + 1
  /\ UNCHANGED <<list, running, fault, sender, reader, cleaner, kernel, java>>

(* The user or the network sets the wall clock back. *)
SetClock ==
  /\ ClockSetBack
  /\ now' \in 0..(now - 1)
  /\ UNCHANGED <<list, running, fault, sender, reader, cleaner, kernel, java>>

(* External: the netfilter QUEUE target hands a packet to ip_queue. *)
QueuePacket ==
  \E dst \in Socket :
    /\ Len(packets) < MaxPackets
    /\ packets' = Append(packets, dst)
    /\ unread' = unread \cup {Len(packets) + 1}
    /\ UNCHANGED <<now, list, running, fault, sender, reader, cleaner, accepted, java>>

(* External: IpqWorker.verdict writes one line for a packet it was asked of. *)
JavaVerdict ==
  \E id \in asked :
    /\ asked' = asked \ {id}
    /\ fromJava' = Append(fromJava, id)
    /\ released' = released \cup {packets[id]}
    /\ UNCHANGED <<now, list, running, fault, sender, reader, cleaner, kernel>>

-----------------------------------------------------------------------------
(* Sender thread. *)
AfterLoop == IF running = 1 THEN "read" ELSE "done"

(* ipq_read returns a packet, in the order the kernel queued them. *)
SendRead ==
  /\ sPc = "read" /\ unread # {}
  /\ LET id == CHOOSE i \in unread : \A j \in unread : i <= j
     IN  /\ sPc' = "search" /\ sPkt' = id
         /\ unread' = unread \ {id}
  /\ UNCHANGED <<now, list, running, fault, reader, cleaner, packets, accepted, java>>

(* NLMSG_ERROR and unknown message types: a notice goes to Java, which      *)
(* ignores a line without '='; when the write fails the server stops.       *)
SendNotice ==
  /\ sPc = "read" /\ running = 1
  /\ running' = 0
  /\ sPc' = "done" /\ sPkt' = sPkt
  /\ UNCHANGED <<now, list, fault, reader, cleaner, kernel, java>>

SendSearch ==
  /\ sPc = "search" /\ LockFree
  /\ sPc' = IF search_in_list(packets[sPkt]) THEN "accept" ELSE "ask"
  /\ sPkt' = sPkt
  /\ UNCHANGED <<now, list, running, fault, reader, cleaner, kernel, java>>

(* Mutated form: the verdict is not passed to the kernel. *)
MutSendAcceptForgetsVerdict ==
  /\ sPc = "accept"
  /\ sPc' = AfterLoop /\ sPkt' = sPkt
  /\ UNCHANGED <<now, list, running, fault, reader, cleaner, kernel, java>>

(* A listed socket is accepted at once. *)
SendAccept ==
  /\ sPc = "accept"
  /\ accepted' = accepted \cup {sPkt}
  /\ sPc' = AfterLoop /\ sPkt' = sPkt
  /\ UNCHANGED <<now, list, running, fault, reader, cleaner, packets, unread, java>>

(* Mutated form: the missing else, a packet put to Java is accepted too. *)
MutSendAskAccepts ==
  /\ sPc = "ask"
  /\ asked' = asked \cup {sPkt}
  /\ accepted' = accepted \cup {sPkt}
  /\ sPc' = AfterLoop /\ sPkt' = sPkt
  /\ UNCHANGED <<now, list, running, fault, reader, cleaner, packets, unread, fromJava, released>>

(* Any other packet is written to Java. *)
SendAsk ==
  /\ sPc = "ask"
  /\ asked' = asked \cup {sPkt}
  /\ sPc' = AfterLoop /\ sPkt' = sPkt
  /\ UNCHANGED <<now, list, running, fault, reader, cleaner, kernel, fromJava, released>>

(* The write to Java fails: stop(). *)
SendAskFails ==
  /\ sPc = "ask"
  /\ running' = 0
  /\ sPc' = "done" /\ sPkt' = sPkt
  /\ UNCHANGED <<now, list, fault, reader, cleaner, kernel, java>>

(* ipq_read or ipq_set_verdict fails, in either thread: die() exits. *)
Die ==
  /\ \/ sPc = "read"
     \/ sPc = "accept"
     \/ rPc = "verdict"
  /\ running' = 0
  /\ fault' = "exit"
  /\ UNCHANGED <<now, list, sender, reader, cleaner, kernel, java>>

-----------------------------------------------------------------------------
(* Reader thread. *)

(* Mutated form: the last line of the buffer is taken. *)
MutReadLineTakesLast ==
  /\ rPc = "read" /\ fromJava # <<>>
  /\ \E k \in 1..Len(fromJava) :
       /\ rPc' = "check" /\ rLine' = fromJava[k] /\ rTime' = now
       /\ fromJava' = SubSeq(fromJava, k + 1, Len(fromJava))
  /\ UNCHANGED <<now, list, running, fault, sender, cleaner, kernel, asked, released>>

(* read() returns one or more whole lines; strtok takes the first triple of *)
(* the buffer and the other lines are dropped.  A line cut by the end of    *)
(* the buffer, of more than a hundred lines, is not considered.             *)
ReadLine ==
  /\ rPc = "read" /\ fromJava # <<>>
  /\ \E k \in 1..Len(fromJava) :
       /\ rPc' = "check" /\ rLine' = Head(fromJava) /\ rTime' = now
       /\ fromJava' = SubSeq(fromJava, k + 1, Len(fromJava))
  /\ UNCHANGED <<now, list, running, fault, sender, cleaner, kernel, asked, released>>

(* A new element: ip, port and timestamp are those of the line; its next    *)
(* is nxt, and old is the list of next pointers so far.                     *)
NewElem(old, nxt) ==
  /\ ts' = Append(ts, rTime)
  /\ sock' = Append(sock, packets[rLine])
  /\ next' = Append(old, nxt)
  /\ freed' = freed

(* add_to_list tests head without the lock. *)
add_to_list ==
  /\ rPc = "check"
  /\ rPc' = (IF head = NULL THEN "create" ELSE "append") /\ UNCHANGED <<rLine, rTime>>
  /\ UNCHANGED <<now, list, running, fault, sender, cleaner, kernel, java>>

(* Mutated form: head and curr point to an element that was not allocated. *)
MutCreateUnallocated ==
  /\ rPc = "create"
  /\ head' = Len(next) + 1
  /\ curr' = Len(next) + 1
  /\ rPc' = "verdict" /\ UNCHANGED <<rLine, rTime>>
  /\ UNCHANGED <<now, elements, running, fault, sender, cleaner, kernel, java>>

(* Mutated form: curr is not set. *)
MutCreateForgetsCurr ==
  /\ rPc = "create"
  /\ NewElem(next, NULL)
  /\ head' = Len(next) + 1
  /\ rPc' = "verdict" /\ UNCHANGED <<rLine, rTime>>
  /\ UNCHANGED <<now, curr, running, fault, sender, cleaner, kernel, java>>

(* No lock here either.  head and curr are two stores; every interleaving   *)
(* with the cleaner's two stores ends as one with this step does.           *)
create_list ==
  /\ rPc = "create"
  /\ NewElem(next, NULL)
  /\ head' = Len(next) + 1
  /\ curr' = Len(next) + 1
  /\ rPc' = "verdict" /\ UNCHANGED <<rLine, rTime>>
  /\ UNCHANGED <<now, running, fault, sender, cleaner, kernel, java>>

(* Mutated form: the element is put in front of the list. *)
MutAppendInFront ==
  /\ rPc = "append" /\ LockFree /\ curr # NULL
  /\ NewElem(next, head)
  /\ head' = Len(next) + 1
  /\ rPc' = "verdict" /\ UNCHANGED <<rLine, rTime>>
  /\ UNCHANGED <<now, curr, running, fault, sender, cleaner, kernel, java>>

append_to_curr ==
  /\ rPc = "append" /\ LockFree /\ curr # NULL
  /\ NewElem([next EXCEPT ![curr] = Len(next) + 1], NULL)
  /\ curr' = Len(next) + 1
  /\ rPc' = "verdict" /\ UNCHANGED <<rLine, rTime>>
  /\ UNCHANGED <<now, head, running, fault, sender, cleaner, kernel, java>>

(* curr->next with curr == NULL. *)
append_to_null ==
  /\ rPc = "append" /\ LockFree /\ curr = NULL
  /\ fault' = "segv"
  /\ UNCHANGED <<now, list, running, sender, reader, cleaner, kernel, java>>

ReadVerdict ==
  /\ rPc = "verdict"
  /\ accepted' = accepted \cup {rLine}
  /\ rPc' = AfterLoop /\ UNCHANGED <<rLine, rTime>>
  /\ UNCHANGED <<now, list, running, fault, sender, cleaner, packets, unread, java>>

-----------------------------------------------------------------------------
(* Cleaner thread. *)

(* After the sleep, head and the time are read before the lock is taken. *)
CleanWake ==
  /\ cPc = "sleep"
  /\ cPc' = "lock" /\ cPtr' = head /\ cPrev' = NULL /\ cTime' = now
  /\ UNCHANGED <<now, list, running, fault, sender, reader, kernel, java>>

CleanLock ==
  /\ cPc = "lock"
  /\ cPc' = "scan" /\ UNCHANGED <<cPtr, cPrev, cTime>>
  /\ UNCHANGED <<now, list, running, fault, sender, reader, kernel, java>>

(* Mutated form: off by one at the end of the validity. *)
MutOutdatedTooEarly(n) == ts[n] + Validity <= cTime

Outdated(n) == ts[n] + Validity < cTime

CleanKeep ==
  /\ cPc = "scan" /\ cPtr # NULL /\ ~Outdated(cPtr)
  /\ cPrev' = cPtr /\ cPtr' = next[cPtr] /\ UNCHANGED <<cPc, cTime>>
  /\ UNCHANGED <<now, list, running, fault, sender, reader, kernel, java>>

(* prev->next = del->next *)
Unlinked == IF cPrev = NULL THEN next
            ELSE [next EXCEPT ![cPrev] = next[cPtr]]

(* Mutated form: head is not moved on. *)
MutDeleteInnerKeepsHead ==
  /\ cPc = "scan" /\ cPtr # NULL /\ Outdated(cPtr)
  /\ cPtr # curr
  /\ next' = Unlinked /\ freed' = freed \cup {cPtr} /\ UNCHANGED <<ts, sock>>
  /\ cPc' = "advance" /\ UNCHANGED <<cPtr, cPrev, cTime>>
  /\ UNCHANGED <<now, head, curr, running, fault, sender, reader, kernel, java>>

(* delete_from_list_element(ptr, prev), ptr not the tail. *)
delete_inner ==
  /\ cPc = "scan" /\ cPtr # NULL /\ Outdated(cPtr)
  /\ cPtr # curr
  /\ next' = Unlinked /\ freed' = freed \cup {cPtr} /\ UNCHANGED <<ts, sock>>
  /\ head' = IF cPtr = head THEN next[cPtr] ELSE head
  /\ cPc' = "advance" /\ UNCHANGED <<cPtr, cPrev, cTime>>
  /\ UNCHANGED <<now, curr, running, fault, sender, reader, kernel, java>>

(* delete_from_list_element(ptr, prev), ptr == curr: curr = prev = head =   *)
(* NULL.  The two global stores are visible to the reader one by one, in    *)
(* an order the compiler chooses.                                           *)
delete_tail ==
  /\ cPc = "scan" /\ cPtr # NULL /\ Outdated(cPtr)
  /\ cPtr = curr
  /\ next' = Unlinked
  /\ \/ head' = NULL /\ curr' = curr /\ cPc' = "clearCurr"
     \/ curr' = NULL /\ head' = head /\ cPc' = "clearHead"
  /\ UNCHANGED <<cPtr, cPrev, cTime, ts, sock, freed, now, running, fault, sender, reader, kernel, java>>

(* The second store, and free(del). *)
delete_tail_done ==
  /\ \/ cPc = "clearCurr" /\ curr' = NULL /\ head' = head
     \/ cPc = "clearHead" /\ head' = NULL /\ curr' = curr
  /\ freed' = freed \cup {cPtr} /\ UNCHANGED <<ts, sock, next>>
  /\ cPc' = "advance" /\ UNCHANGED <<cPtr, cPrev, cTime>>
  /\ UNCHANGED <<now, running, fault, sender, reader, kernel, java>>

(* The caller's prev still has its value: the callee's copy was cleared. *)
CleanAdvance ==
  /\ cPc = "advance" /\ cPrev = NULL
  /\ cPc' = "scan" /\ cPtr' = head /\ UNCHANGED <<cPrev, cTime>>
  /\ UNCHANGED <<now, list, running, fault, sender, reader, kernel, java>>

(* prev = ptr; ptr = ptr->next after free(ptr). *)
CleanAdvanceFreed ==
  /\ cPc = "advance" /\ cPrev # NULL
  /\ fault' = "uaf"
  /\ UNCHANGED <<now, list, running, sender, reader, cleaner, kernel, java>>

CleanUnlock ==
  /\ cPc = "scan" /\ cPtr = NULL
  /\ cPc' = (IF running = 1 THEN "sleep" ELSE "done") /\ UNCHANGED <<cPtr, cPrev, cTime>>
  /\ UNCHANGED <<now, list, running, fault, sender, reader, kernel, java>>

-----------------------------------------------------------------------------
Sender == SendRead \/ SendNotice \/ SendSearch \/ SendAccept \/ SendAsk \/ SendAskFails
Reader == ReadLine \/ add_to_list \/ create_list \/ append_to_curr \/ append_to_null
            \/ ReadVerdict
Cleaner == CleanWake \/ CleanLock \/ CleanKeep \/ delete_inner \/ delete_tail
             \/ delete_tail_done \/ CleanAdvance \/ CleanAdvanceFreed \/ CleanUnlock
Env == Tick \/ SetClock \/ QueuePacket \/ JavaVerdict

Next == fault = "none" /\ (Sender \/ Reader \/ Cleaner \/ Die \/ Env)

Spec == Init /\ [][Next]_vars

(* Every thread keeps running and the mutex starves nobody: the cleaner     *)
(* sleeps CLEANER_INTERVAL between two passes.                              *)
Fairness ==
  /\ WF_vars(fault = "none" /\ Cleaner)
  /\ WF_vars(fault = "none" /\ (SendRead \/ SendAccept \/ SendAsk))
  /\ SF_vars(fault = "none" /\ SendSearch)
  /\ WF_vars(fault = "none" /\ (ReadLine \/ add_to_list \/ create_list \/ ReadVerdict))
  /\ SF_vars(fault = "none" /\ (append_to_curr \/ append_to_null))

FairSpec == Spec /\ Fairness

-----------------------------------------------------------------------------
(* Properties. *)

(* The list: fields of equal length, pointers to allocated elements. *)
ListType ==
  /\ ts \in Seq(Nat) /\ sock \in Seq(Socket) /\ next \in Seq(Node \cup {NULL})
  /\ Len(ts) = Len(next) /\ Len(sock) = Len(next)
  /\ freed \subseteq Node
  /\ head \in Node \cup {NULL} /\ curr \in Node \cup {NULL}
  /\ cPtr \in Node \cup {NULL} /\ cPrev \in Node \cup {NULL}
  /\ cPc \in {"clearHead", "clearCurr"} => cPtr # NULL

(* The threads and the process. *)
ThreadType ==
  /\ now \in Nat /\ rTime \in Nat /\ cTime \in Nat
  /\ running \in {0, 1}
  /\ fault \in {"none", "segv", "uaf", "exit"}
  /\ sPc \in {"read", "search", "accept", "ask", "done"}
  /\ rPc \in {"read", "check", "create", "append", "verdict", "done"}
  /\ cPc \in {"sleep", "lock", "scan", "clearHead", "clearCurr", "advance", "done"}

(* The kernel's packets and the lines of the domain socket. *)
ChannelType ==
  /\ packets \in Seq(Socket)
  /\ unread \subseteq Id /\ asked \subseteq Id /\ accepted \subseteq Id
  /\ sPc \in {"search", "accept", "ask"} => sPkt \in Id
  /\ rPc \in {"check", "create", "append", "verdict"} => rLine \in Id
  /\ fromJava \in Seq(Id)
  /\ released \subseteq Socket

(* Types of the server: every pointer of the list and of the threads is     *)
(* NULL or an allocated element, and every id in flight is a queued packet. *)
TypeOK == ListType /\ ThreadType /\ ChannelType

(* clean_list never reads an element it has freed (the prev = ptr; ptr =    *)
(* ptr->next after delete_from_list_element), and neither the walk from     *)
(* head nor the tail pointer ever leads to freed memory.                    *)
NoUseAfterFree ==
  /\ fault # "uaf"
  /\ \A n \in Listed : n \notin freed
  /\ curr # NULL => curr \notin freed

(* Elements the list no longer leads to: freed ones, and the tail the       *)
(* cleaner has cut off from head but not freed yet.                         *)
Gone(n) == n \in freed \/ (cPc = "clearCurr" /\ n = cPtr)

(* Time stamps grow along the list, and no clock reading is in the future. *)
Sorted ==
  /\ \A i, j \in Node : i <= j => ts[i] <= ts[j]
  /\ \A i \in Node : ts[i] <= now
  /\ rPc \in {"check", "create", "append"} =>
       rTime <= now /\ \A i \in Node : ts[i] <= rTime
  /\ cTime <= now

(* The list is a window of the allocation order: what is gone was allocated *)
(* before what is listed, and was outdated; next leads to the next          *)
(* allocation; curr is the last allocation or, after the race of            *)
(* create_list with the tail deletion, NULL.                                *)
Window ==
  /\ \A i, j \in Node : i <= j /\ Gone(j) => Gone(i)
  /\ \A i \in Node : Gone(i) => ts[i] + Validity < now
  /\ \A i \in Node : ~Gone(i) => next[i] = IF i < Len(next) THEN i + 1 ELSE NULL
  /\ head = NULL => \A i \in Node : Gone(i)
  /\ head # NULL => ~Gone(head) /\ \A i \in Node : i < head => Gone(i)
  /\ curr # NULL => curr \notin freed /\ curr = Len(next)
  /\ curr = NULL /\ head # NULL => head = Len(next)

(* Where each thread is in the window. *)
ThreadsInWindow ==
  /\ rPc = "create" => head = NULL
  /\ cPc \in {"lock", "clearHead", "clearCurr", "advance"} => cPrev = NULL
  /\ cPc = "lock" => cPtr \in {NULL, head}
  /\ cPc = "scan" /\ cPtr # NULL =>
       /\ ~Gone(cPtr)
       /\ IF cPrev = NULL THEN cPtr = head ELSE cPrev < cPtr
  /\ cPc = "scan" /\ cPrev # NULL =>
       ~(ts[cPrev] + Validity < cTime)
  /\ cPc = "clearHead" =>
       head = cPtr /\ head = Len(next) /\ head # NULL /\ curr = NULL
  /\ cPc = "clearCurr" =>
       \/ head = NULL /\ curr = cPtr /\ curr = Len(next)
       \/ head = cPtr + 1 /\ curr = head /\ head = Len(next)
  /\ cPc = "clearCurr" => cPtr # NULL
  /\ cPc \in {"clearHead", "clearCurr"} =>
       ts[cPtr] + Validity < cTime
  /\ fault # "uaf"

(* The inductive invariant of the history list for a clock that is never    *)
(* set back: insertion at the tail and deletion at the head keep it sorted  *)
(* and contiguous through every interleaving of the reader's unlocked       *)
(* accesses with clean_list.                                                *)
HistoryInv == Sorted /\ Window /\ ThreadsInWindow

(* A verdict is remembered for TIMEVALIDITY: an element that is still valid *)
(* is still on the list search_in_list walks, whatever the cleaner, whose   *)
(* tail deletion resets head, has removed.                                  *)
RememberedUntilOutdated ==
  \A n \in Node : ts[n] + Validity >= now => n \in Listed

(* send_ipq and read_java accept only packets to sockets for which Java has *)
(* sent a verdict line: the history never releases a socket on its own.     *)
AcceptedWasReleased == \A id \in accepted : packets[id] \in released

(* The unlocked test of head can crash the reader only after the cleaner    *)
(* has emptied the list: until an element is freed, curr is never NULL when *)
(* the list is not empty.                                                   *)
SegvOnlyAfterClean == fault = "segv" => freed # {}

(* A packet is never accepted while the sender is still deciding about it   *)
(* or while Java is still being asked: each packet has one decider.         *)
OneDecider ==
  /\ accepted \cap (unread \cup asked) = {}
  /\ sPc \in {"search", "accept", "ask"} => sPkt \notin accepted \cup unread \cup asked

(* The cleaner always gives the mutex back. *)
CleanerUnlocks == ~LockFree ~> (LockFree \/ fault # "none")

(* Every packet the kernel queues is accepted or put to Java, unless the    *)
(* server stops.                                                            *)
EveryPacketAnswered ==
  \A id \in 1..MaxPackets :
    id \in unread ~> (id \in asked \cup accepted \/ running = 0 \/ fault # "none")

(* A verdict line at the front of the socket takes effect in the kernel,    *)
(* although read() may return it together with lines that are dropped.      *)
FirstLineTakesEffect ==
  \A id \in 1..MaxPackets :
    (fromJava # <<>> /\ Head(fromJava) = id)
      ~> (id \in accepted \/ running = 0 \/ fault # "none")

(* Where the sender is with its look-up. *)
SenderAnswer ==
  CASE sPc = "accept" -> <<"hit", packets[sPkt]>>
    [] sPc = "ask" -> <<"miss", packets[sPkt]>>
    [] OTHER -> <<>>

Log == INSTANCE VerdictLog
         WITH log <- {<<sock[n], ts[n]>> : n \in Node}, answer <- SenderAnswer

(* The history list answers search_in_list as a log of all verdicts would:  *)
(* no removal by clean_list, at the head, inside or at the tail, between    *)
(* whichever steps of the reader, changes the fate of a packet.             *)
ImplementsLog == Log!LogSpec
=============================================================================

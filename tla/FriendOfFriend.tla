--------------------------- MODULE FriendOfFriend ---------------------------
(***************************************************************************)
(* The friend-of-friend check: FofNonceEngine and the rounds of            *)
(* PrivateSetIntersectionCardinality.  FofNonceService makes one engine,   *)
(* and every management handler of the phone gets that one: the handlers   *)
(* that serve clients (they start the check and learn its result) and the  *)
(* one that asks a gateway (it answers the gateway's check).  Nothing in   *)
(* the engine is locked, and the check takes several calls.  A step ends   *)
(* where a method has written one of the shared fields and goes on to      *)
(* another; a loop over the list of friends, the loop of a round, and the  *)
(* four assignments of initClientVariables are one step each.              *)
(*                                                                         *)
(* What the cryptography does is kept: a value blinded with the key of a   *)
(* round can be compared only after that round's inverse was applied, and  *)
(* the order of the digests is arbitrary.  Digests do not collide.  A      *)
(* person's Facebook id and nonce are different values.                    *)
(***************************************************************************)
EXTENDS Integers, FiniteSets, Sequences, Functions

CONSTANTS
  MaxFriends, \* friends of the owner that this phone may list
  MaxNonces,  \* those of them, from the first on, that may have a nonce
  MaxListed,  \* bound on the list of the phone on the other side
  MaxServed,  \* bound on the clients served
  MaxAsked,   \* bound on the gateways asked
  MaxSessions \* bound on both together

ASSUME FriendOfFriendAssumption ==
  /\ MaxFriends \in Nat /\ MaxNonces \in 0..MaxFriends /\ MaxListed \in Nat
  /\ MaxServed \in Nat /\ MaxAsked \in Nat /\ MaxSessions \in Nat

Owner == 0                  \* the owner of this phone
Person == 0..MaxFriends
Friend == 1..MaxFriends
Served == 1..MaxServed
Asked == (MaxServed + 1)..(MaxServed + MaxAsked)
Session == Served \cup Asked
Mode == {"id", "nonce"}

(* What a list may hold: a person's id or nonce. *)
Value == {x \in Mode \X Person : x[1] = "nonce" => x[2] <= MaxNonces}
NULL == 0

VARIABLES
  local,     \* the lists in the phone's files
  \* fields of the engine
  me,        \* which of the owner's two names is loaded
  friends,   \* pairs <<mode, friend>>
  nServer, nClient,  \* the two numbers of the current intersection object
  rcInv,     \* the session whose round's key is inverted by Rc_inv, or NULL
  ts,        \* what the last client round put into ts
  \* one session of a management handler
  pc,
  wants,     \* ids or nonces
  sent,      \* the a of a NeedPrivateSetIntersection: me and friends, blinded
  given,     \* the length of the client's ts, or of the a of the gateway asked
  answer,    \* the ts of the ClientStepContainer
  alone,     \* 1: no other session used the engine since this one's initEngine
  \* what the last step returned, if that was the end of a check
  last,      \* the session of the check, or NULL
  others,    \* the values whose digests were the client's ts, in its order
  direct, common  \* the ServerFinalStepContainer

engine == <<me, friends, nServer, nClient, rcInv, ts>>
session == <<wants, sent, given, answer>>
result == <<last, others, direct, common>>
vars == <<local, engine, pc, session, alone, result>>

Init ==
  /\ local \in [Mode -> SUBSET Friend] /\ local["nonce"] \subseteq 1..MaxNonces
  /\ me = "id" /\ friends = <<>> /\ nServer = 0 /\ nClient = 0
  /\ rcInv = NULL /\ ts = <<>>
  /\ pc = [i \in Session |-> "none"]
  /\ wants = [i \in Session |-> "id"]
  /\ given = [i \in Session |-> 0]
  /\ sent = [i \in Session |-> <<"id", <<>>>>]
  /\ answer = [i \in Session |-> <<>>]
  /\ alone = [i \in Session |-> 1]
  /\ last = NULL /\ others = <<>> /\ direct = 0 /\ common = 0

-----------------------------------------------------------------------------
Ended == {"none", "result", "answered", "failed", "unnamed"}

(* Session i goes on at l, with or without the result of a check. *)
Goto(i, l) ==
  pc' = [pc EXCEPT ![i] = l] /\ last' = NULL /\ others' = <<>> /\ direct' = 0 /\ common' = 0

Return(i, s, isDirect, found) ==
  pc' = [pc EXCEPT ![i] = "result"] /\ last' = i /\ others' = s /\ direct' = isDirect /\ common' = found

(* Session i uses the engine; those in the middle of a check are disturbed. *)
Uses(i) == alone' = [j \in Session |-> IF j # i /\ pc[j] \notin Ended THEN 0 ELSE alone[j]]

(* A list as it is read from its file, in the order of its lines. *)
Lines(m) == CHOOSE f \in Bijection(1..Cardinality(local[m]), local[m]) : TRUE

List(m) == [k \in 1..Cardinality(local[m]) |-> <<m, Lines(m)[k]>>]

(* Bound, and sessions of a kind are numbered as they start. *)
MayStart(i) ==
  /\ pc[i] = "none"
  /\ Cardinality({j \in Session : pc[j] # "none"}) < MaxSessions
  /\ \A j \in Session : j < i /\ pc[j] = "none" => j \in Served /\ i \in Asked

(* initEngine.  The owner's name comes first; a me file without a line is   *)
(* an exception that ends the handler.                                      *)
loadMe(i, m) ==
  /\ MayStart(i)
  /\ wants' = [wants EXCEPT ![i] = m]
  /\ \/ Goto(i, "unnamed") /\ UNCHANGED <<me, alone>>
     \/ Goto(i, "load") /\ me' = m /\ Uses(i)
  /\ UNCHANGED <<local, friends, nServer, nClient, rcInv, ts, sent, given, answer>>

(* Mutated form: loadLocalFriends adds to the list of the last session. *)
MutLoadList(i) ==
  /\ pc[i] = "load" /\ Uses(i)
  /\ IF wants[i] = "id" THEN UNCHANGED friends /\ Goto(i, "fill")
                        ELSE friends' = List("nonce") /\ Goto(i, "object")
  /\ UNCHANGED <<local, me, nServer, nClient, rcInv, ts, session>>

(* loadLocalNonces builds the list before it is assigned; loadLocalFriends  *)
(* assigns an empty one first and adds to the field.                        *)
loadList(i) ==
  /\ pc[i] = "load" /\ Uses(i)
  /\ IF wants[i] = "id" THEN friends' = <<>> /\ Goto(i, "fill")
                        ELSE friends' = List("nonce") /\ Goto(i, "object")
  /\ UNCHANGED <<local, me, nServer, nClient, rcInv, ts, session>>

loadLocalFriends(i) ==
  /\ pc[i] = "fill" /\ Uses(i) /\ Goto(i, "object")
  /\ friends' = friends \o List("id")
  /\ UNCHANGED <<local, me, nServer, nClient, rcInv, ts, session>>

(* A fresh intersection object replaces the old one. *)
newIntersection(i) ==
  /\ pc[i] = "object" /\ Uses(i) /\ Goto(i, "ready")
  /\ nServer' = 0 /\ nClient' = 0
  /\ UNCHANGED <<local, me, friends, rcInv, ts, session>>

-----------------------------------------------------------------------------
(* The side of the gateway. *)

(* serverInitialStep: setNumberOfServerFriends, the arrays and              *)
(* server_round_1, then server_round_2 and what the handler sends.          *)
setNumberOfServerFriends(i) ==
  /\ i \in Served /\ pc[i] = "ready" /\ Uses(i) /\ Goto(i, "round1")
  /\ nServer' = Len(friends)
  /\ UNCHANGED <<local, me, friends, nClient, rcInv, ts, session>>

(* The arrays are as long as the list is now; the round fills nServer       *)
(* places of them, and an index out of bounds ends the handler.             *)
server_round_1(i) ==
  /\ pc[i] = "round1" /\ Uses(i)
  /\ IF nServer <= Len(friends)
     THEN /\ sent' = [sent EXCEPT ![i] = <<me, friends>>]
          /\ Goto(i, IF nServer = Len(friends) THEN "round2" ELSE "holes")
     ELSE Goto(i, "failed") /\ UNCHANGED sent
  /\ UNCHANGED <<local, engine, wants, given, answer>>

(* Mutated form: the inverse of the key is not kept. *)
MutServerRound2(i) ==
  /\ pc[i] \in {"round2", "holes"} /\ Uses(i)
  /\ Goto(i, IF pc[i] = "round2" THEN "sent" ELSE "failed")
  /\ UNCHANGED <<local, me, friends, nServer, nClient, rcInv, ts, session>>

(* The handler fails on a place the round has left null. *)
server_round_2(i) ==
  /\ pc[i] \in {"round2", "holes"} /\ Uses(i)
  /\ rcInv' = i
  /\ Goto(i, IF pc[i] = "round2" THEN "sent" ELSE "failed")
  /\ UNCHANGED <<local, me, friends, nServer, nClient, ts, session>>

(* The client's phone answers (initEngine and clientStep there), or the     *)
(* connection ends.  What the values in its ts are is left open until they  *)
(* are compared.                                                            *)
PeerAnswers(i) ==
  /\ pc[i] = "sent"
  /\ \/ \E n \in 1..MaxListed : given' = [given EXCEPT ![i] = n] /\ Goto(i, "reply")
     \/ Goto(i, "failed") /\ UNCHANGED given
  /\ UNCHANGED <<local, engine, wants, sent, answer, alone>>

(* finalServerStep: setNumberOfClientFriends, then server_round_3; both     *)
(* read the field intersection.                                             *)
setNumberOfClientFriends(i) ==
  /\ pc[i] = "reply" /\ Uses(i) /\ Goto(i, "final")
  /\ nClient' = given[i]
  /\ UNCHANGED <<local, me, friends, nServer, rcInv, ts, session>>

(* The client's list, which client_round_1 has sorted by digest: equal      *)
(* values are adjacent.  Each check draws a new key, so the others come in  *)
(* any order.  The engine of the client's phone is shared as well: its list *)
(* may be doubled, and of another kind than was asked for.  Both parts of   *)
(* an answer are taken to be made with one key; nothing matches otherwise.  *)
Answers(i) ==
  {s \in [1..given[i] -> Value] :
     \A p, q, r \in 1..given[i] : p < q /\ q < r /\ s[p] = s[r] => s[q] = s[p]}

(* The digests as numbers, in their order.  The client's are even; those of *)
(* the other values lie anywhere between, and are compared with the         *)
(* client's only.  What the gateway has sent can be found among the         *)
(* client's only if it is unblinded with the key of its own round.  Where   *)
(* TC, the owner's digest, lies is of no interest when it is not found.     *)
Place(s, x) == CHOOSE k \in DOMAIN s : s[k] = x
Matched(i, s) == IF rcInv = i THEN Range(s) ELSE {}
Between(i, s) == [Range(sent[i][2]) \ Matched(i, s) -> {2 * k + 1 : k \in 0..Len(s)}]
Digest(i, s, other, x) == IF x \in Matched(i, s) THEN 2 * Place(s, x) ELSE other[x]
TC(i, s) == IF <<sent[i][1], Owner>> \in Matched(i, s) THEN 2 * Place(s, <<sent[i][1], Owner>>) ELSE -1

(* Mutated form: both lists are advanced when two elements differ. *)
MutMerged(tc, tsd, n, m) ==
  LET found[k \in (1..(n + 1)) \X (1..(m + 1))] ==
        IF k[1] > n \/ k[2] > m THEN 0
        ELSE IF k[2] > Len(tsd) THEN -1
        ELSE LET next == found[<<k[1] + 1, k[2] + 1>>]
             IN  IF next = -1 \/ tc[k[1]] # tsd[k[2]] THEN next ELSE next + 1
  IN  found

(* The merge of the two sorted lists, from the places k on: the number of   *)
(* common elements, or -1 when it runs past the end of ts.                  *)
Merged(tc, tsd, n, m) ==
  LET found[k \in (1..(n + 1)) \X (1..(m + 1))] ==
        IF k[1] > n \/ k[2] > m THEN 0
        ELSE IF k[2] > Len(tsd) THEN -1
        ELSE IF tc[k[1]] = tsd[k[2]]
             THEN LET next == found[<<k[1] + 1, k[2] + 1>>] IN IF next = -1 THEN -1 ELSE next + 1
        ELSE IF tc[k[1]] < tsd[k[2]] THEN found[<<k[1] + 1, k[2]>>] ELSE found[<<k[1], k[2] + 1>>]
  IN  found

CountCommon(tc, tsd) == Merged(tc, tsd, nServer, nClient)[<<1, 1>>]

(* External: the results binarySearch may give, counted from zero; of equal *)
(* elements any may be found.                                               *)
binarySearch(tsd, tag) ==
  LET found == {r - 1 : r \in {k \in DOMAIN tsd : tsd[k] = tag}}
  IN  IF found = {} THEN {-1} ELSE found

(* Mutated form: every result but the first place is taken for found. *)
MutFound(index) == index # 0

Found(index) == index > 0

(* The first nServer elements of a list the client has permuted, such that  *)
(* their digests are in order: server_round_3 sorts them.                   *)
Permuted(i) == Injection(1..nServer, DOMAIN sent[i][2])

server_round_3(i) ==
  /\ pc[i] = "final" /\ Uses(i)
  /\ \/ /\ nServer > Len(sent[i][2])
        /\ Goto(i, "failed")
     \/ \E s \in Answers(i), pick \in Permuted(i) : \E other \in Between(i, s) :
          LET tc == [p \in 1..nServer |-> Digest(i, s, other, sent[i][2][pick[p]])]
              tsd == [k \in DOMAIN s |-> 2 * Place(s, s[k])]
              found == CountCommon(tc, tsd)
          IN  /\ \A p, q \in 1..nServer : p < q => tc[p] <= tc[q]
              /\ \/ found = -1 /\ Goto(i, "failed")
                 \/ /\ found # -1
                    /\ \E index \in binarySearch(tsd, TC(i, s)) :
                         Return(i, s, IF Found(index) THEN 1 ELSE 0, found)
  /\ UNCHANGED <<local, engine, session>>

-----------------------------------------------------------------------------
(* The side of the client. *)

(* clientStep without friends answers null, and the handler fails on it;    *)
(* else initClientVariables.  The gateway has sent given[i] values.         *)
initClientVariables(i) ==
  /\ i \in Asked /\ pc[i] = "ready" /\ Uses(i)
  /\ \E n \in 0..MaxListed : given' = [given EXCEPT ![i] = n]
  /\ IF friends = <<>>
     THEN Goto(i, "failed") /\ UNCHANGED <<nClient, nServer, ts>>
     ELSE /\ Goto(i, "vars")
          /\ nClient' = Len(friends) /\ nServer' = given'[i]
          /\ ts' = [k \in DOMAIN friends |-> NULL]
  /\ UNCHANGED <<local, me, friends, rcInv, wants, sent, answer>>

(* computeRs: client_round_1 fills ts (its sorting by digest changes the    *)
(* places only, and is left out).  An index out of bounds, or a null left   *)
(* in ts, ends the session, here or when the answer is built.               *)
computeRs(i) ==
  /\ pc[i] = "vars" /\ Uses(i)
  /\ IF nClient = Len(ts) /\ nClient <= Len(friends)
     THEN ts' = SubSeq(friends, 1, nClient) /\ Goto(i, "rs")
     ELSE Goto(i, "failed") /\ UNCHANGED ts
  /\ UNCHANGED <<local, me, friends, nServer, nClient, rcInv, session>>

(* calculateClientResponse: client_round_2 raises the gateway's values,     *)
(* nServer of them; setATick fails on those left null.                      *)
calculateClientResponse(i) ==
  /\ pc[i] = "rs" /\ Uses(i)
  /\ IF nServer = given[i]
     THEN Goto(i, "answered") /\ answer' = [answer EXCEPT ![i] = ts]
     ELSE Goto(i, "failed") /\ UNCHANGED answer
  /\ UNCHANGED <<local, engine, wants, sent, given>>

-----------------------------------------------------------------------------
Next ==
  \E i \in Session :
    \/ \E m \in Mode : loadMe(i, m)
    \/ loadList(i) \/ loadLocalFriends(i) \/ newIntersection(i)
    \/ setNumberOfServerFriends(i) \/ server_round_1(i) \/ server_round_2(i)
    \/ PeerAnswers(i) \/ setNumberOfClientFriends(i) \/ server_round_3(i)
    \/ initClientVariables(i) \/ computeRs(i) \/ calculateClientResponse(i)

Spec == Init /\ [][Next]_vars

-----------------------------------------------------------------------------
(* Properties. *)

(* Types; the engine's list holds no more than its users can have loaded,   *)
(* and there is a key when the answer to a check comes.                     *)
TypeOK ==
  /\ local \in [Mode -> SUBSET Friend]
  /\ me \in Mode /\ rcInv \in Served \cup {NULL}
  /\ \A k \in DOMAIN friends : friends[k] \in Mode \X Friend
  /\ Len(friends) <= MaxFriends * Cardinality(Session)
  /\ nServer \in 0..(MaxListed + MaxFriends * Cardinality(Session))
  /\ nClient \in 0..(MaxListed + MaxFriends * Cardinality(Session))
  /\ pc \in [Session -> Ended \cup {"load", "fill", "object", "ready", "round1", "round2", "holes",
                                  "sent", "reply", "final", "vars", "rs"}]
  /\ wants \in [Session -> Mode] /\ given \in [Session -> 0..MaxListed]
  /\ \A i \in Served : pc[i] \in {"reply", "final"} => rcInv # NULL
  /\ alone \in [Session -> {0, 1}]
  /\ last \in Served \cup {NULL} /\ others \in Seq(Value) /\ direct \in {0, 1}

(* However the calls of the handlers interleave in the one engine, and      *)
(* whatever list the client's phone sends, a client is credited with no     *)
(* more common friends than its list has entries that are friends of the    *)
(* owner, with no more than the list it was sent has entries that it names  *)
(* too (so a friend can count twice only if both lists are doubled), and    *)
(* never with knowing the owner when it does not.                           *)
NoFalseFriends ==
  last # NULL =>
    /\ common <= Cardinality({k \in DOMAIN others : others[k][2] \in local[others[k][1]]})
    /\ common <= Cardinality({k \in DOMAIN sent[last][2] : sent[last][2][k] \in Range(others)})
    /\ direct = 1 => \E m \in Mode : <<m, Owner>> \in Range(others)

(* A check no other session disturbs gives the size of the intersection for *)
(* every order of the digests, even when the client's list is doubled.      *)
ExactWhenAlone ==
  last # NULL /\ alone[last] = 1 =>
    common = Cardinality({x \in local[wants[last]] : <<wants[last], x>> \in Range(others)})

(* The answer to a gateway's check that no other session disturbs holds the *)
(* phone's whole list, and a phone whose owner has a name and friends never *)
(* fails to answer.                                                         *)
WholeAnswers ==
  \A i \in Asked : alone[i] = 1 =>
    /\ pc[i] = "answered" => answer[i] = List(wants[i])
    /\ pc[i] = "failed" => local[wants[i]] = {}
=============================================================================

------------------------ MODULE FriendOfFriendProofs ------------------------
(***************************************************************************)
(* The friend-of-friend check, for any number of friends and of sessions   *)
(* in the one engine.                                                      *)
(***************************************************************************)
EXTENDS FriendOfFriend, FiniteSetTheorems, TLAPS

-----------------------------------------------------------------------------
(* The merge. *)
Cells(n, m) == (1..(n + 1)) \X (1..(m + 1))

(* What the loop of server_round_3 counts from the places k on, given f for *)
(* the places after them.                                                   *)
Body(f, k, tc, tsd, n, m) ==
  IF k[1] > n \/ k[2] > m THEN 0
  ELSE IF k[2] > Len(tsd) THEN -1
  ELSE IF tc[k[1]] = tsd[k[2]]
       THEN IF f[<<k[1] + 1, k[2] + 1>>] = -1 THEN -1 ELSE f[<<k[1] + 1, k[2] + 1>>] + 1
  ELSE IF tc[k[1]] < tsd[k[2]] THEN f[<<k[1] + 1, k[2]>>] ELSE f[<<k[1], k[2] + 1>>]

IsMerge(f, tc, tsd, n, m) == f = [k \in Cells(n, m) |-> Body(f, k, tc, tsd, n, m)]

(* The steps the loop can still make, and the cells where they are few. *)
Left(k, n, m) == (n + 1 - k[1]) + (m + 1 - k[2])
Late(d, n, m) == {k \in Cells(n, m) : Left(k, n, m) <= d}

(* The places of ts from k on whose digest is also in tc from k on, and the *)
(* other way around.                                                        *)
InTs(k, tc, tsd, n, m) == {r \in k[2]..m : r <= Len(tsd) /\ \E p \in k[1]..n : tc[p] = tsd[r]}
InTc(k, tc, tsd, n, m) == {p \in k[1]..n : \E r \in k[2]..m : r <= Len(tsd) /\ tc[p] = tsd[r]}

(* Induction over a set of numbers. *)
LEMMA SetInduction ==
  ASSUME NEW T \in SUBSET Nat, 0 \in T, \A d \in T : d + 1 \in T
  PROVE  \A d \in Nat : d \in T
<1> SUFFICES ASSUME Nat \ T # {} PROVE FALSE
  OBVIOUS
<1> DEFINE U == Nat \ T
           R == OpToRel(<, Nat)
<1>1. U \subseteq Nat /\ U # {}
  OBVIOUS
<1>2. PICK d \in U : \A e \in U : ~(<<e, d>> \in R)
  <2> HIDE DEF U, R
  <2> QED
    BY <1>1, NatLessThanWellFounded, WFMin DEF R
<1>3. d \in Nat /\ d # 0 /\ d - 1 \in Nat /\ d - 1 < d
  OBVIOUS
<1>4. <<d - 1, d>> \in R
  BY <1>3 DEF OpToRel
<1>5. d - 1 \in T
  BY <1>2, <1>3, <1>4
<1> QED
  BY <1>3, <1>5

(* The loop looks only at cells with fewer steps left. *)
LEMMA BodyAgrees ==
  ASSUME NEW n \in Nat, NEW m \in Nat, NEW tc, NEW tsd, NEW f, NEW g, NEW d \in Nat,
         NEW k \in Late(d + 1, n, m), \A j \in Late(d, n, m) : f[j] = g[j]
  PROVE  Body(f, k, tc, tsd, n, m) = Body(g, k, tc, tsd, n, m)
<1>1. CASE k[1] > n \/ k[2] > m
  BY <1>1 DEF Body
<1>2. CASE ~(k[1] > n \/ k[2] > m)
  <2>1. k[1] \in 1..n /\ k[2] \in 1..m
    BY <1>2 DEF Late, Cells
  <2>2. (n + 1 - k[1]) + (m + 1 - k[2]) <= d + 1
    BY DEF Late, Left
  <2>3. /\ <<k[1] + 1, k[2] + 1>> \in Late(d, n, m) /\ <<k[1] + 1, k[2]>> \in Late(d, n, m)
        /\ <<k[1], k[2] + 1>> \in Late(d, n, m)
    BY <2>1, <2>2 DEF Late, Left, Cells
  <2> QED
    BY <2>3 DEF Body
<1> QED
  BY <1>1, <1>2

(* There is a function that satisfies the recursion. *)
LEMMA MergeExists ==
  ASSUME NEW n \in Nat, NEW m \in Nat, NEW tc, NEW tsd
  PROVE  \E g : IsMerge(g, tc, tsd, n, m)
<1> DEFINE Good(g, d) == g = [k \in Late(d, n, m) |-> Body(g, k, tc, tsd, n, m)]
           T == {d \in Nat : \E g : Good(g, d)}
<1>1. 0 \in T
  <2> DEFINE g == [k \in Late(0, n, m) |-> 0]
  <2>1. \A k \in Late(0, n, m) : k[1] > n \/ k[2] > m
    BY DEF Late, Left, Cells
  <2>2. \A k \in Late(0, n, m) : Body(g, k, tc, tsd, n, m) = 0
    BY <2>1 DEF Body
  <2>3. Good(g, 0)
    BY <2>2
  <2> QED
    BY <2>3
<1>2. ASSUME NEW d \in T PROVE d + 1 \in T
  <2>1. PICK g : Good(g, d)
    OBVIOUS
  <2> DEFINE h == [k \in Late(d + 1, n, m) |-> Body(g, k, tc, tsd, n, m)]
  <2>2. \A k \in Late(d, n, m) : k \in Late(d + 1, n, m)
    BY DEF Late, Left, Cells
  <2>3. \A k \in Late(d, n, m) : h[k] = g[k]
    <3>1. \A k \in Late(d, n, m) : g[k] = Body(g, k, tc, tsd, n, m)
      BY <2>1, Zenon
    <3> QED
      BY <3>1, <2>2
  <2>4. \A k \in Late(d + 1, n, m) : Body(h, k, tc, tsd, n, m) = Body(g, k, tc, tsd, n, m)
    <3> HIDE DEF h
    <3> QED
      BY <2>3, BodyAgrees
  <2>5. Good(h, d + 1)
    BY <2>4
  <2>6. d + 1 \in Nat
    OBVIOUS
  <2> HIDE DEF h, Good
  <2> QED
    BY <2>5, <2>6
<1>3. n + m + 2 \in T
  <2> HIDE DEF T
  <2>1. T \subseteq Nat
    BY DEF T
  <2> QED
    BY <1>1, <1>2, <2>1, SetInduction
<1>4. Late(n + m + 2, n, m) = Cells(n, m)
  BY DEF Late, Left, Cells
<1>5. PICK g : Good(g, n + m + 2)
  BY <1>3
<1> QED
  BY <1>4, <1>5, Zenon DEF IsMerge

(* Merged satisfies its recursion. *)
LEMMA MergedIs ==
  ASSUME NEW n \in Nat, NEW m \in Nat, NEW tc, NEW tsd
  PROVE  IsMerge(Merged(tc, tsd, n, m), tc, tsd, n, m)
<1>1. Merged(tc, tsd, n, m) = CHOOSE h : IsMerge(h, tc, tsd, n, m)
  BY Zenon DEF Merged, IsMerge, Cells, Body
<1>2. \E g : IsMerge(g, tc, tsd, n, m)
  BY MergeExists
<1> QED
  BY <1>1, <1>2

Sorted(tc, tsd, n) ==
  /\ tc \in [1..n -> Int] /\ \A p, q \in 1..n : p < q => tc[p] <= tc[q]
  /\ tsd \in Seq(Int) /\ \A q, r \in 1..Len(tsd) : q < r => tsd[q] <= tsd[r]

(* No digest of ts is in tc twice. *)
Once(tc, tsd, n) ==
  \A p, q \in 1..n, r \in 1..Len(tsd) : tc[p] = tsd[r] /\ tc[q] = tsd[r] => p = q

(* What a step of the loop at p and r leaves to count. *)
StepCounts(p, r, tc, tsd, n, m) ==
  LET R(a, b) == InTs(<<a, b>>, tc, tsd, n, m)
      P(a, b) == InTc(<<a, b>>, tc, tsd, n, m)
  IN  /\ tc[p] = tsd[r] =>
           /\ R(p + 1, r + 1) \cup {r} \subseteq R(p, r) /\ r \notin R(p + 1, r + 1)
           /\ P(p + 1, r + 1) \cup {p} \subseteq P(p, r) /\ p \notin P(p + 1, r + 1)
           /\ Once(tc, tsd, n) => P(p, r) \subseteq P(p + 1, r + 1) \cup {p}
      /\ tc[p] < tsd[r] => P(p, r) = P(p + 1, r) /\ R(p + 1, r) \subseteq R(p, r)
      /\ tc[p] > tsd[r] => P(p, r) = P(p, r + 1) /\ R(p, r + 1) \subseteq R(p, r)

(* In two sorted lists, the smaller of two elements is in no later place of *)
(* the other list, so the loop passes over no common one.                   *)
LEMMA CommonStep ==
  ASSUME NEW n \in Nat, NEW m \in Nat, NEW tc, NEW tsd, Sorted(tc, tsd, n),
         NEW p \in 1..n, NEW r \in 1..m, r <= Len(tsd)
  PROVE  StepCounts(p, r, tc, tsd, n, m)
<1> DEFINE R(a, b) == InTs(<<a, b>>, tc, tsd, n, m)
           P(a, b) == InTc(<<a, b>>, tc, tsd, n, m)
<1>1. /\ \A a, b, x : x \in R(a, b) <=> /\ x \in b..m /\ x <= Len(tsd)
                                        /\ \E y \in a..n : tc[y] = tsd[x]
      /\ \A a, b, y : y \in P(a, b) <=> /\ y \in a..n
                                        /\ \E x \in b..m : x <= Len(tsd) /\ tc[y] = tsd[x]
  BY DEF InTs, InTc
<1>2. /\ \A a \in 1..n : tc[a] \in Int
      /\ \A b \in 1..Len(tsd) : tsd[b] \in Int
      /\ \A a \in p..n : tc[p] <= tc[a]
      /\ \A b \in r..m : b <= Len(tsd) => tsd[r] <= tsd[b]
      /\ Len(tsd) \in Nat
  BY DEF Sorted
<1> HIDE DEF R, P
<1>3. /\ \A x : x \in R(p + 1, r + 1) \/ x \in R(p + 1, r) \/ x \in R(p, r + 1) => x \in R(p, r)
      /\ r \notin R(p + 1, r + 1)
  <2>1. \A x : x \in (r + 1)..m => x \in r..m /\ x # r
    OBVIOUS
  <2>2. \A y : y \in (p + 1)..n => y \in p..n
    OBVIOUS
  <2> QED
    BY <1>1, <2>1, <2>2
<1>4. /\ \A y : y \in P(p + 1, r + 1) \/ y \in P(p + 1, r) \/ y \in P(p, r + 1) => y \in P(p, r)
      /\ p \notin P(p + 1, r + 1)
  <2>1. \A x : x \in (r + 1)..m => x \in r..m
    OBVIOUS
  <2>2. \A y : y \in (p + 1)..n => y \in p..n /\ y # p
    OBVIOUS
  <2> QED
    BY <1>1, <2>1, <2>2
<1>5. ASSUME tc[p] = tsd[r] PROVE r \in R(p, r) /\ p \in P(p, r)
  BY <1>1, <1>5
<1>6. ASSUME tc[p] = tsd[r], Once(tc, tsd, n), NEW y \in P(p, r), y # p PROVE y \in P(p + 1, r + 1)
  <2>1. PICK x \in r..m : x <= Len(tsd) /\ tc[y] = tsd[x]
    BY <1>1, <1>6
  <2>2. y \in p..n
    BY <1>1, <1>6
  <2>3. x # r
    BY <2>1, <2>2, <1>6 DEF Once
  <2>4. y \in (p + 1)..n /\ x \in (r + 1)..m
    BY <2>1, <2>2, <2>3, <1>6
  <2> QED
    BY <2>1, <2>4, <1>1
<1>7. ASSUME tc[p] < tsd[r], NEW y \in P(p, r) PROVE y \in P(p + 1, r)
  <2>1. PICK x \in r..m : x <= Len(tsd) /\ tc[y] = tsd[x]
    BY <1>1, <1>7
  <2>2. y \in p..n
    BY <1>1, <1>7
  <2>3. tsd[r] <= tsd[x] /\ tsd[r] \in Int /\ tsd[x] \in Int /\ tc[p] \in Int
    BY <2>1, <1>2
  <2>4. y # p
    BY <2>1, <2>3, <1>7
  <2>5. y \in (p + 1)..n
    BY <2>2, <2>4
  <2> QED
    BY <2>1, <2>5, <1>1
<1>8. ASSUME tc[p] > tsd[r], NEW y \in P(p, r) PROVE y \in P(p, r + 1)
  <2>1. PICK x \in r..m : x <= Len(tsd) /\ tc[y] = tsd[x]
    BY <1>1, <1>8
  <2>2. y \in p..n
    BY <1>1, <1>8
  <2>3. tc[p] <= tc[y] /\ tc[p] \in Int /\ tc[y] \in Int /\ tsd[r] \in Int
    BY <2>2, <1>2
  <2>4. x # r
    BY <2>1, <2>3, <1>8
  <2>5. x \in (r + 1)..m
    BY <2>1, <2>4
  <2> QED
    BY <2>1, <2>2, <2>5, <1>1
<1>9. tc[p] = tsd[r] =>
        /\ R(p + 1, r + 1) \cup {r} \subseteq R(p, r) /\ r \notin R(p + 1, r + 1)
        /\ P(p + 1, r + 1) \cup {p} \subseteq P(p, r) /\ p \notin P(p + 1, r + 1)
        /\ Once(tc, tsd, n) => P(p, r) \subseteq P(p + 1, r + 1) \cup {p}
  BY <1>3, <1>4, <1>5, <1>6
<1>10. /\ tc[p] < tsd[r] => P(p, r) = P(p + 1, r) /\ R(p + 1, r) \subseteq R(p, r)
       /\ tc[p] > tsd[r] => P(p, r) = P(p, r + 1) /\ R(p, r + 1) \subseteq R(p, r)
  BY <1>3, <1>4, <1>7, <1>8
<1> QED
  BY <1>9, <1>10 DEF R, P, StepCounts

(* A count c of the places in R and in P, which is exact for P if e holds. *)
Bounded(c, R, P, e) ==
  c \in Nat /\ c <= Cardinality(R) /\ c <= Cardinality(P) /\ (e => c = Cardinality(P))

(* One more place on each side. *)
LEMMA OneMore ==
  ASSUME NEW R, NEW P, NEW RR, NEW PP, NEW r, NEW p, NEW c, NEW e \in BOOLEAN, Bounded(c, R, P, e),
         IsFiniteSet(RR), IsFiniteSet(PP), R \cup {r} \subseteq RR, r \notin R,
         P \cup {p} \subseteq PP, p \notin P, e => PP \subseteq P \cup {p}
  PROVE  Bounded(c + 1, RR, PP, e)
<1>1. IsFiniteSet(R) /\ IsFiniteSet(P)
  BY FS_Subset
<1>2. /\ Cardinality(R \cup {r}) = Cardinality(R) + 1 /\ IsFiniteSet(R \cup {r})
      /\ Cardinality(P \cup {p}) = Cardinality(P) + 1 /\ IsFiniteSet(P \cup {p})
  BY <1>1, FS_AddElement
<1>3. /\ Cardinality(R) \in Nat /\ Cardinality(P) \in Nat
      /\ Cardinality(RR) \in Nat /\ Cardinality(PP) \in Nat
  BY <1>1, FS_CardinalityType
<1>4. Cardinality(R \cup {r}) <= Cardinality(RR) /\ Cardinality(P \cup {p}) <= Cardinality(PP)
  BY FS_Subset
<1>5. e => PP = P \cup {p}
  OBVIOUS
<1>6. e => Cardinality(PP) = Cardinality(P) + 1
  BY <1>2, <1>5
<1> QED
  BY <1>2, <1>3, <1>4, <1>6 DEF Bounded

(* No more places than before. *)
LEMMA NoMore ==
  ASSUME NEW R, NEW P, NEW RR, NEW c, NEW e \in BOOLEAN, Bounded(c, R, P, e),
         IsFiniteSet(RR), R \subseteq RR
  PROVE  Bounded(c, RR, P, e)
<1>1. IsFiniteSet(R) /\ Cardinality(R) <= Cardinality(RR)
  BY FS_Subset
<1>2. Cardinality(R) \in Nat /\ Cardinality(RR) \in Nat
  BY <1>1, FS_CardinalityType
<1> QED
  BY <1>1, <1>2 DEF Bounded

(* The loop counts no more than the common places of either list, and just  *)
(* those of tc when each is there once, unless it runs past the end of ts,  *)
(* which it does only when the engine expects more than ts holds.           *)
LEMMA MergeCounts ==
  ASSUME NEW n \in Nat, NEW m \in Nat, NEW tc, NEW tsd, Sorted(tc, tsd, n)
  PROVE  LET found == Merged(tc, tsd, n, m)[<<1, 1>>]
         IN  \/ found = -1 /\ Len(tsd) < m
             \/ Bounded(found, InTs(<<1, 1>>, tc, tsd, n, m), InTc(<<1, 1>>, tc, tsd, n, m),
                        Once(tc, tsd, n))
<1> DEFINE f == Merged(tc, tsd, n, m)
           R(k) == InTs(k, tc, tsd, n, m)
           P(k) == InTc(k, tc, tsd, n, m)
           e == Once(tc, tsd, n)
           Good(k) == (f[k] = -1 /\ Len(tsd) < m) \/ Bounded(f[k], R(k), P(k), e)
           T == {d \in Nat : \A k \in Late(d, n, m) : Good(k)}
<1>0. IsMerge(f, tc, tsd, n, m)
  BY MergedIs
<1>1. \A k \in Cells(n, m) : f[k] = Body(f, k, tc, tsd, n, m)
  <2> HIDE DEF f
  <2> QED
    BY <1>0, Zenon DEF IsMerge
<1>2. e \in BOOLEAN /\ \A k \in Cells(n, m) : IsFiniteSet(R(k)) /\ IsFiniteSet(P(k))
  <2>0. e \in BOOLEAN
    BY DEF Once
  <2> SUFFICES ASSUME NEW k \in Cells(n, m) PROVE IsFiniteSet(R(k)) /\ IsFiniteSet(P(k))
    BY <2>0
  <2>1. R(k) \subseteq 1..m /\ P(k) \subseteq 1..n
    BY DEF InTs, InTc, Cells
  <2>2. IsFiniteSet(1..m) /\ IsFiniteSet(1..n)
    BY FS_Interval
  <2> QED
    BY <2>1, <2>2, FS_Subset
<1>3. ASSUME NEW k \in Cells(n, m), k[1] > n \/ k[2] > m PROVE Good(k)
  <2>1. R(k) = {} /\ P(k) = {}
    BY <1>3 DEF InTs, InTc, Cells
  <2>2. Cardinality(R(k)) = 0 /\ Cardinality(P(k)) = 0
    BY <2>1, FS_EmptySet
  <2>3. f[k] = 0
    <3> HIDE DEF f
    <3> QED
      BY <1>1, <1>3 DEF Body
  <2> HIDE DEF f, R, P, e
  <2> QED
    BY <2>2, <2>3 DEF Bounded
<1> HIDE DEF f, R, P, e
<1>4. ASSUME NEW d \in Nat, \A j \in Late(d, n, m) : Good(j), NEW p \in 1..n, NEW r \in 1..m,
             (n + 1 - p) + (m + 1 - r) <= d + 1
      PROVE  Good(<<p, r>>)
  <2>1. /\ <<p + 1, r + 1>> \in Late(d, n, m) /\ <<p + 1, r>> \in Late(d, n, m)
        /\ <<p, r + 1>> \in Late(d, n, m) /\ <<p, r>> \in Cells(n, m)
    <3> HIDE DEF Good
    <3>1. (n + 1 - p) + (m + 1 - r) <= d + 1
      BY <1>4
    <3> QED
      BY <3>1 DEF Late, Left, Cells
  <2>2. /\ Good(<<p + 1, r + 1>>) /\ Good(<<p + 1, r>>) /\ Good(<<p, r + 1>>)
    <3> HIDE DEF Good
    <3> QED
      BY <1>4, <2>1
  <2>3. f[<<p, r>>] = Body(f, <<p, r>>, tc, tsd, n, m) /\ Len(tsd) \in Nat
    BY <1>1, <2>1 DEF Sorted
  <2>4. CASE r > Len(tsd)
    <3>1. f[<<p, r>>] = -1
      BY <2>3, <2>4 DEF Body
    <3>2. Len(tsd) < m
      BY <2>3, <2>4
    <3> QED
      BY <3>1, <3>2
  <2>5. CASE r <= Len(tsd)
    <3>0. tc[p] \in Int /\ tsd[r] \in Int
      BY <2>5 DEF Sorted
    <3>1. StepCounts(p, r, tc, tsd, n, m)
      BY <2>5, CommonStep
    <3>2. /\ tc[p] = tsd[r] =>
               /\ R(<<p + 1, r + 1>>) \cup {r} \subseteq R(<<p, r>>) /\ r \notin R(<<p + 1, r + 1>>)
               /\ P(<<p + 1, r + 1>>) \cup {p} \subseteq P(<<p, r>>) /\ p \notin P(<<p + 1, r + 1>>)
               /\ e => P(<<p, r>>) \subseteq P(<<p + 1, r + 1>>) \cup {p}
          /\ tc[p] < tsd[r] => P(<<p, r>>) = P(<<p + 1, r>>) /\ R(<<p + 1, r>>) \subseteq R(<<p, r>>)
          /\ tc[p] > tsd[r] => P(<<p, r>>) = P(<<p, r + 1>>) /\ R(<<p, r + 1>>) \subseteq R(<<p, r>>)
      BY <3>1 DEF R, P, e, StepCounts
    <3>3. IsFiniteSet(R(<<p, r>>)) /\ IsFiniteSet(P(<<p, r>>)) /\ e \in BOOLEAN
      BY <1>2, <2>1
    <3>4. CASE tc[p] = tsd[r]
      <4>1. f[<<p, r>>] = IF f[<<p + 1, r + 1>>] = -1 THEN -1 ELSE f[<<p + 1, r + 1>>] + 1
        BY <2>3, <2>5, <3>4 DEF Body
      <4>2. CASE f[<<p + 1, r + 1>>] = -1
        <5>1. ~Bounded(f[<<p + 1, r + 1>>], R(<<p + 1, r + 1>>), P(<<p + 1, r + 1>>), e)
          BY <4>2 DEF Bounded
        <5> QED
          BY <4>1, <4>2, <2>2, <5>1
      <4>3. CASE f[<<p + 1, r + 1>>] # -1
        <5>1. Bounded(f[<<p + 1, r + 1>>], R(<<p + 1, r + 1>>), P(<<p + 1, r + 1>>), e)
          BY <4>3, <2>2
        <5>2. Bounded(f[<<p + 1, r + 1>>] + 1, R(<<p, r>>), P(<<p, r>>), e)
          BY <3>2, <3>3, <3>4, <5>1, OneMore
        <5> QED
          BY <4>1, <4>3, <5>2
      <4> QED
        BY <4>2, <4>3
    <3>5. CASE tc[p] < tsd[r]
      <4>1. f[<<p, r>>] = f[<<p + 1, r>>]
        BY <2>3, <2>5, <3>0, <3>5 DEF Body
      <4>2. ASSUME Bounded(f[<<p + 1, r>>], R(<<p + 1, r>>), P(<<p + 1, r>>), e)
            PROVE  Bounded(f[<<p + 1, r>>], R(<<p, r>>), P(<<p, r>>), e)
        BY <3>2, <3>3, <3>5, <4>2, NoMore
      <4> QED
        BY <4>1, <4>2, <2>2
    <3>6. CASE tc[p] > tsd[r]
      <4>1. f[<<p, r>>] = f[<<p, r + 1>>]
        BY <2>3, <2>5, <3>0, <3>6 DEF Body
      <4>2. ASSUME Bounded(f[<<p, r + 1>>], R(<<p, r + 1>>), P(<<p, r + 1>>), e)
            PROVE  Bounded(f[<<p, r + 1>>], R(<<p, r>>), P(<<p, r>>), e)
        BY <3>2, <3>3, <3>6, <4>2, NoMore
      <4> QED
        BY <4>1, <4>2, <2>2
    <3> QED
      BY <3>0, <3>4, <3>5, <3>6
  <2> QED
    BY <2>3, <2>4, <2>5
<1> HIDE DEF Good
<1>5. 0 \in T
  <2>1. \A k \in Late(0, n, m) : k \in Cells(n, m) /\ (k[1] > n \/ k[2] > m)
    BY DEF Late, Left, Cells
  <2> QED
    BY <2>1, <1>3
<1>6. n + m + 2 \in T
  <2>1. ASSUME NEW d \in T PROVE d + 1 \in T
    <3>1. d \in Nat /\ \A j \in Late(d, n, m) : Good(j)
      OBVIOUS
    <3> SUFFICES ASSUME NEW k \in Late(d + 1, n, m) PROVE Good(k)
      BY <3>1
    <3>2. k \in Cells(n, m) /\ (n + 1 - k[1]) + (m + 1 - k[2]) <= d + 1
      BY DEF Late, Left
    <3>3. CASE k[1] > n \/ k[2] > m
      BY <1>3, <3>2, <3>3
    <3>4. CASE ~(k[1] > n \/ k[2] > m)
      <4>1. k[1] \in 1..n /\ k[2] \in 1..m /\ k = <<k[1], k[2]>>
        BY <3>2, <3>4 DEF Cells
      <4>2. Good(<<k[1], k[2]>>)
        BY <1>4, <3>1, <3>2, <4>1
      <4> QED
        BY <4>1, <4>2
    <3> QED
      BY <3>3, <3>4
  <2> HIDE DEF T
  <2>2. T \subseteq Nat
    BY DEF T
  <2> QED
    BY <2>1, <1>5, <2>2, SetInduction
<1>7. <<1, 1>> \in Late(n + m + 2, n, m)
  BY DEF Late, Left, Cells
<1>8. Good(<<1, 1>>)
  BY <1>6, <1>7
<1> QED
  BY <1>8 DEF Good, f, R, P, e

-----------------------------------------------------------------------------
(* The engine. *)
Entries == {x \in Mode \X Friend : x[2] \in local[x[1]]}

Stages == Ended \cup {"load", "fill", "object", "ready", "round1", "round2", "holes",
                      "sent", "reply", "final", "vars", "rs"}

Types ==
  /\ local \in [Mode -> SUBSET Friend]
  /\ me \in Mode /\ rcInv \in Served \cup {NULL}
  /\ friends \in Seq(Entries) /\ nServer \in Nat /\ nClient \in Nat
  /\ pc \in [Session -> Stages] /\ wants \in [Session -> Mode]
  /\ given \in [Session -> 0..MaxListed] /\ sent \in [Session -> Mode \X Seq(Entries)]
  /\ alone \in [Session -> {0, 1}] /\ DOMAIN answer = Session
  /\ last \in Served \cup {NULL} /\ others \in Seq(Value) /\ direct \in {0, 1}

(* Each session that has loaded the list added at most all friends to it. *)
Loaded == {j \in Session : pc[j] \notin {"none", "load", "fill"}}
Bound == MaxFriends * Cardinality(Session)

SizesInv ==
  /\ Len(friends) <= MaxFriends * Cardinality(Loaded)
  /\ nServer <= MaxListed + Bound /\ nClient <= MaxListed + Bound

(* A session goes through the stages of its side only, and a check that is  *)
(* under way has a key.                                                     *)
KindsInv ==
  /\ \A i \in Asked : pc[i] \notin {"round1", "round2", "holes", "sent", "reply", "final", "result"}
  /\ \A i \in Served : pc[i] \notin {"vars", "rs", "answered"}
  /\ \A i \in Served : pc[i] \in {"sent", "reply", "final"} => rcInv # NULL

(* What the engine holds for a session that no other has disturbed. *)
Undisturbed(i) == alone[i] = 1 /\ pc[i] \notin Ended

EngineOf(i) ==
  /\ me = wants[i] /\ pc[i] # "holes"
  /\ pc[i] = "fill" => wants[i] = "id" /\ friends = <<>>
  /\ pc[i] \notin {"load", "fill"} => friends = List(wants[i])
  /\ pc[i] \in {"round1", "round2", "sent", "reply", "final"} => nServer = Len(friends)
  /\ pc[i] \in {"round2", "sent", "reply", "final"} => sent[i] = <<me, friends>>
  /\ pc[i] \in {"sent", "reply", "final"} => rcInv = i
  /\ pc[i] = "final" => nClient = given[i]
  /\ pc[i] \in {"vars", "rs"} => friends # <<>> /\ nServer = given[i]
  /\ pc[i] = "vars" => nClient = Len(friends) /\ Len(ts) = Len(friends)
  /\ pc[i] = "rs" => ts = friends

AloneInv == \A i \in Session : Undisturbed(i) => EngineOf(i)

IInv ==
  /\ Types /\ SizesInv /\ KindsInv /\ AloneInv
  /\ NoFalseFriends /\ ExactWhenAlone /\ WholeAnswers

(* A file's list names every friend in it once. *)
LEMMA ListIs ==
  ASSUME Types, NEW m \in Mode
  PROVE  /\ IsFiniteSet(local[m]) /\ Cardinality(local[m]) \in 0..MaxFriends
         /\ List(m) \in Seq(Entries) /\ Len(List(m)) = Cardinality(local[m])
         /\ \A k \in 1..Len(List(m)) : List(m)[k][1] = m
         /\ \A f \in local[m] : \E k \in 1..Len(List(m)) : List(m)[k] = <<m, f>>
         /\ \A j, k \in 1..Len(List(m)) : List(m)[j][2] = List(m)[k][2] => j = k
<1> DEFINE c == Cardinality(local[m])
<1>1. local[m] \subseteq Friend /\ MaxFriends \in Nat
  BY FriendOfFriendAssumption DEF Types
<1>2. IsFiniteSet(Friend) /\ Cardinality(Friend) = MaxFriends
  BY <1>1, FS_Interval DEF Friend
<1>3. IsFiniteSet(local[m]) /\ c \in Nat /\ c <= MaxFriends /\ ExistsBijection(1..c, local[m])
  BY <1>1, <1>2, FS_Subset, FS_CardinalityType
<1>4. Lines(m) \in Bijection(1..c, local[m])
  BY <1>3 DEF Lines, ExistsBijection
<1>5. /\ Lines(m) \in [1..c -> local[m]]
      /\ \A f \in local[m] : \E k \in 1..c : Lines(m)[k] = f
      /\ \A j, k \in 1..c : Lines(m)[j] = Lines(m)[k] => j = k
  BY <1>4 DEF Bijection, Injection, Surjection, IsInjective
<1>6. List(m) = [k \in 1..c |-> <<m, Lines(m)[k]>>]
  BY DEF List
<1>7. \A k \in 1..c : <<m, Lines(m)[k]>> \in Entries
  BY <1>1, <1>5 DEF Entries
<1> HIDE DEF c
<1>8. List(m) \in [1..c -> Entries]
  BY <1>6, <1>7
<1>9. List(m) \in Seq(Entries) /\ Len(List(m)) = c
  BY <1>3, <1>8
<1>10. \A k \in 1..c : List(m)[k] = <<m, Lines(m)[k]>>
  BY <1>6
<1>11. \A k \in 1..c : List(m)[k][1] = m /\ List(m)[k][2] = Lines(m)[k]
  BY <1>10
<1>12. \A f \in local[m] : \E k \in 1..c : List(m)[k] = <<m, f>>
  BY <1>5, <1>10
<1>13. c \in 0..MaxFriends
  BY <1>1, <1>3
<1>14. c = Cardinality(local[m])
  BY DEF c
<1>15. \A j, k \in 1..c : List(m)[j][2] = List(m)[k][2] => j = k
  BY <1>5, <1>11
<1> QED
  BY <1>3, <1>9, <1>11, <1>12, <1>13, <1>14, <1>15

(* The two kinds of sessions. *)
LEMMA Sessions ==
  /\ Served \cap Asked = {} /\ NULL \notin Served /\ Session = Served \cup Asked
  /\ IsFiniteSet(Session) /\ Cardinality(Session) \in Nat
  /\ \A T \in SUBSET Session : IsFiniteSet(T) /\ Cardinality(T) \in Nat
                               /\ Cardinality(T) <= Cardinality(Session)
<1>1. MaxServed \in Nat /\ MaxAsked \in Nat
  BY FriendOfFriendAssumption
<1>2. Served \cap Asked = {} /\ NULL \notin Served /\ Session = Served \cup Asked
  BY <1>1 DEF Served, Asked, NULL, Session
<1>3. IsFiniteSet(Served) /\ IsFiniteSet(Asked)
  BY <1>1, FS_Interval DEF Served, Asked
<1>4. IsFiniteSet(Session)
  BY <1>2, <1>3, FS_Union
<1> QED
  BY <1>2, <1>4, FS_Subset, FS_CardinalityType

Moves(i, p) == pc' = [pc EXCEPT ![i] = p]

(* The sessions in the middle of a check that the step does not belong to   *)
(* are disturbed.                                                           *)
LEMMA Disturbs ==
  ASSUME Types, NEW i \in Session, NEW p, Uses(i), Moves(i, p)
  PROVE  /\ pc'[i] = p /\ alone'[i] = alone[i] /\ alone' \in [Session -> {0, 1}]
         /\ \A j \in Session \ {i} : pc'[j] = pc[j] /\ ~Undisturbed(j)'
         /\ \A j \in Session : pc[j] \in Ended => alone'[j] = alone[j]
<1>1. pc \in [Session -> Stages] /\ alone \in [Session -> {0, 1}]
  BY DEF Types
<1>2. pc'[i] = p /\ \A j \in Session \ {i} : pc'[j] = pc[j]
  BY <1>1 DEF Moves
<1>3. alone' = [j \in Session |-> IF j # i /\ pc[j] \notin Ended THEN 0 ELSE alone[j]]
  BY DEF Uses
<1> QED
  BY <1>1, <1>2, <1>3 DEF Undisturbed, Ended

(* The key, the list and the numbers in the engine are those of session i. *)
Undistorted(i) ==
  /\ rcInv = i /\ sent[i][2] = List(wants[i])
  /\ nServer = Len(sent[i][2]) /\ nClient = given[i]

(* A client's list and its digests. *)
Answered(g, s, tsd) ==
  /\ g \in Nat /\ s \in [1..g -> Value] /\ tsd = [k \in DOMAIN s |-> 2 * Place(s, s[k])]
  /\ \A p, q, r \in 1..g : p < q /\ q < r /\ s[p] = s[r] => s[q] = s[p]

Digested(g, s, tsd) ==
  /\ tsd \in Seq(Int) /\ Len(tsd) = g
  /\ \A x \in Range(s) : Place(s, x) \in 1..g /\ s[Place(s, x)] = x
  /\ \A k \in 1..g : s[k] \in Range(s) /\ tsd[k] = 2 * Place(s, s[k])
  /\ \A p, q \in 1..g : p < q => tsd[p] <= tsd[q]

(* The client's digests: in order, and each found at its own values only. *)
LEMMA ClientDigests ==
  ASSUME NEW g, NEW s, NEW tsd, Answered(g, s, tsd)
  PROVE  Digested(g, s, tsd)
<1>0. /\ g \in Nat /\ s \in [1..g -> Value] /\ tsd = [k \in DOMAIN s |-> 2 * Place(s, s[k])]
      /\ \A p, q, r \in 1..g : p < q /\ q < r /\ s[p] = s[r] => s[q] = s[p]
  BY DEF Answered
<1>1. DOMAIN s = 1..g /\ \A k \in 1..g : s[k] \in Range(s)
  BY <1>0 DEF Range
<1>2. \A x \in Range(s) : Place(s, x) \in 1..g /\ s[Place(s, x)] = x
  <2> SUFFICES ASSUME NEW x \in Range(s) PROVE Place(s, x) \in 1..g /\ s[Place(s, x)] = x
    OBVIOUS
  <2>1. \E k \in DOMAIN s : s[k] = x
    BY DEF Range
  <2> QED
    BY <1>1, <2>1 DEF Place
<1>3. \A k \in 1..g : Place(s, s[k]) \in 1..g /\ s[Place(s, s[k])] = s[k]
  BY <1>1, <1>2
<1>4. tsd = [k \in 1..g |-> 2 * Place(s, s[k])]
  BY <1>0, <1>1
<1>5. tsd \in [1..g -> Int]
  BY <1>3, <1>4
<1>6. tsd \in Seq(Int) /\ Len(tsd) = g
  BY <1>0, <1>5
<1>7. \A k \in 1..g : tsd[k] = 2 * Place(s, s[k])
  BY <1>4
<1>8. ASSUME NEW p \in 1..g, NEW q \in 1..g, p < q PROVE tsd[p] <= tsd[q]
  <2>1. CASE s[p] = s[q]
    BY <1>0, <1>5, <1>7, <2>1
  <2>2. CASE s[p] # s[q]
    <3> DEFINE a == Place(s, s[p])
               b == Place(s, s[q])
    <3>1. a \in 1..g /\ b \in 1..g /\ s[a] = s[p] /\ s[b] = s[q] /\ tsd[p] = 2 * a /\ tsd[q] = 2 * b
      BY <1>3, <1>7
    <3> HIDE DEF a, b
    <3>2. ~(b < a)
      <4> SUFFICES ASSUME b < a PROVE FALSE
        OBVIOUS
      <4>1. ~(b < p)
        BY <1>0, <3>1, <1>8, <2>2
      <4>2. b # p
        BY <3>1, <2>2
      <4>3. p < b
        BY <1>0, <4>1, <4>2, <3>1
      <4> QED
        BY <1>0, <4>3, <3>1, <2>2
    <3> QED
      BY <1>0, <3>1, <3>2
  <2> QED
    BY <2>1, <2>2
<1> QED
  BY <1>1, <1>2, <1>6, <1>7, <1>8 DEF Digested

(* The digests tc and tsd, in order, of the values of a at the places pick  *)
(* and of those of s, which are equal only for equal values.                *)
Placed(n, g, c, a, s, tc, tsd, pick) ==
  /\ n \in Nat /\ g \in Nat /\ c \in Nat /\ pick \in Injection(1..n, 1..c)
  /\ Sorted(tc, tsd, n) /\ Len(tsd) = g
  /\ \A p \in 1..n, r \in 1..g : tc[p] = tsd[r] => a[pick[p]] = s[r]

(* The places of a list whose value is in the other one. *)
Shared(a, c, s, g) == {k \in 1..c : \E r \in 1..g : a[k] = s[r]}

(* Both lists are compared to their ends, a names no value twice, and equal *)
(* values have equal digests.                                               *)
Complete(n, m, g, c, a, s, tc, tsd, pick) ==
  /\ n = c /\ m = g /\ \A j, k \in 1..c : a[j] = a[k] => j = k
  /\ \A p \in 1..n, r \in 1..g : a[pick[p]] = s[r] => \E q \in 1..g : tc[p] = tsd[q]

(* The count in terms of the lists of values: no more than the places of    *)
(* either list whose value is in the other one, and just those of a when    *)
(* the comparison is complete.                                              *)
LEMMA CommonPlaces ==
  ASSUME NEW n, NEW m \in Nat, NEW g, NEW c, NEW a, NEW s, NEW tc, NEW tsd, NEW pick,
         Placed(n, g, c, a, s, tc, tsd, pick), Merged(tc, tsd, n, m)[<<1, 1>>] # -1
  PROVE  /\ Merged(tc, tsd, n, m)[<<1, 1>>] \in Nat
         /\ Merged(tc, tsd, n, m)[<<1, 1>>] <= Cardinality(Shared(s, g, a, c))
         /\ Merged(tc, tsd, n, m)[<<1, 1>>] <= Cardinality(Shared(a, c, s, g))
         /\ Complete(n, m, g, c, a, s, tc, tsd, pick) =>
              Merged(tc, tsd, n, m)[<<1, 1>>] = Cardinality(Shared(a, c, s, g))
<1> DEFINE f == Merged(tc, tsd, n, m)[<<1, 1>>]
<1>0. /\ n \in Nat /\ g \in Nat /\ c \in Nat /\ pick \in Injection(1..n, 1..c)
      /\ Sorted(tc, tsd, n) /\ Len(tsd) = g
      /\ \A p \in 1..n, r \in 1..g : tc[p] = tsd[r] => a[pick[p]] = s[r]
  BY DEF Placed
<1> DEFINE R == InTs(<<1, 1>>, tc, tsd, n, m)
           P == InTc(<<1, 1>>, tc, tsd, n, m)
           Theirs == Shared(s, g, a, c)
           Ours == Shared(a, c, s, g)
<1>1. Bounded(f, R, P, Once(tc, tsd, n))
  BY <1>0, MergeCounts
<1> HIDE DEF f
<1>2. /\ \A r \in R : r \in 1..g /\ \E p \in 1..n : tc[p] = tsd[r]
      /\ \A p \in P : p \in 1..n /\ \E r \in 1..g : tc[p] = tsd[r]
      /\ m = g => \A p \in 1..n : (\E r \in 1..g : tc[p] = tsd[r]) => p \in P
  BY <1>0 DEF InTs, InTc
<1>3. pick \in [1..n -> 1..c] /\ \A p, q \in 1..n : pick[p] = pick[q] => p = q
  BY <1>0 DEF Injection, IsInjective
<1> HIDE DEF R, P
<1>4. IsFiniteSet(1..g) /\ IsFiniteSet(1..n) /\ IsFiniteSet(1..c)
  BY <1>0, FS_Interval
<1>5. R \subseteq Theirs /\ P \subseteq 1..n
  <2>1. ASSUME NEW r \in R PROVE r \in Theirs
    <3>1. PICK p \in 1..n : tc[p] = tsd[r]
      BY <1>2
    <3>2. r \in 1..g /\ pick[p] \in 1..c
      BY <1>2, <1>3
    <3>3. s[r] = a[pick[p]]
      BY <1>0, <3>1, <3>2
    <3> QED
      BY <3>2, <3>3 DEF Shared
  <2>2. P \subseteq 1..n
    BY <1>2
  <2> HIDE DEF Theirs
  <2> QED
    BY <2>1, <2>2
<1>6. IsFiniteSet(Theirs) /\ IsFiniteSet(Ours)
  <2>1. Theirs \subseteq 1..g /\ Ours \subseteq 1..c
    BY DEF Shared
  <2> HIDE DEF Theirs, Ours
  <2> QED
    BY <1>4, <2>1, FS_Subset
<1> DEFINE h == [p \in P |-> pick[p]]
<1>7. /\ h \in [P -> Ours] /\ \A p, q \in P : h[p] = h[q] => p = q
  <2>1. ASSUME NEW p \in P PROVE pick[p] \in Ours
    <3>1. PICK r \in 1..g : tc[p] = tsd[r]
      BY <1>2
    <3>2. p \in 1..n /\ pick[p] \in 1..c
      BY <1>2, <1>3
    <3>3. s[r] = a[pick[p]]
      BY <1>0, <3>1, <3>2
    <3> QED
      BY <3>2, <3>3 DEF Shared
  <2> HIDE DEF Ours
  <2> QED
    BY <2>1, <1>2, <1>3
<1>8. /\ IsFiniteSet(P) /\ Cardinality(P) \in Nat /\ Cardinality(R) \in Nat
      /\ Cardinality(Theirs) \in Nat /\ Cardinality(Ours) \in Nat
      /\ Cardinality(R) <= Cardinality(Theirs)
  <2> HIDE DEF Theirs, Ours
  <2> QED
    BY <1>4, <1>5, <1>6, FS_Subset, FS_CardinalityType
<1>9. h \in Injection(P, Ours)
  <2> HIDE DEF h, Ours
  <2> QED
    BY <1>7 DEF Injection, IsInjective
<1>10. /\ Cardinality(P) <= Cardinality(Ours)
       /\ h \in Surjection(P, Ours) => Cardinality(P) = Cardinality(Ours)
  <2> HIDE DEF h, Ours
  <2> QED
    BY <1>6, <1>9, FS_Injection
<1>11. ASSUME Complete(n, m, g, c, a, s, tc, tsd, pick) PROVE f = Cardinality(Ours)
  <2>0. /\ n = c /\ m = g /\ \A j, k \in 1..c : a[j] = a[k] => j = k
        /\ \A p \in 1..n, r \in 1..g : a[pick[p]] = s[r] => \E q \in 1..g : tc[p] = tsd[q]
    BY <1>11 DEF Complete
  <2>1. Once(tc, tsd, n)
    <3> SUFFICES ASSUME NEW p \in 1..n, NEW q \in 1..n, NEW r \in 1..g, tc[p] = tsd[r], tc[q] = tsd[r]
                 PROVE  p = q
      BY <1>0 DEF Once
    <3>1. a[pick[p]] = a[pick[q]] /\ pick[p] \in 1..c /\ pick[q] \in 1..c
      BY <1>0, <1>3
    <3>2. pick[p] = pick[q]
      BY <3>1, <2>0
    <3> QED
      BY <3>2, <1>3
  <2>2. pick \in Surjection(1..n, 1..c)
    BY <1>0, <1>4, <2>0, FS_Injection
  <2>3. ASSUME NEW k \in Ours PROVE \E p \in P : h[p] = k
    <3>1. PICK r \in 1..g : a[k] = s[r]
      BY DEF Shared
    <3>2. PICK p \in 1..n : pick[p] = k
      <4>1. k \in 1..c
        BY DEF Shared
      <4> QED
        BY <4>1, <2>2 DEF Surjection
    <3>3. p \in P
      BY <3>1, <3>2, <1>2, <2>0
    <3> QED
      BY <3>2, <3>3
  <2>4. h \in Surjection(P, Ours)
    <3> HIDE DEF h, Ours
    <3> QED
      BY <2>3, <1>7 DEF Surjection
  <2> HIDE DEF h, Ours
  <2> QED
    BY <2>1, <2>4, <1>1, <1>10 DEF Bounded
<1>12. f \in Nat /\ f <= Cardinality(Theirs) /\ f <= Cardinality(Ours)
  <2> HIDE DEF Theirs, Ours, h
  <2> QED
    BY <1>1, <1>8, <1>10 DEF Bounded
<1> QED
  BY <1>11, <1>12 DEF f

(* What server_round_3 returns for one order of the digests: a common place *)
(* of either list names a friend of both sides, and when the engine is      *)
(* undistorted each of them has one common place in the list sent.          *)
LEMMA RoundThree ==
  ASSUME Types, NEW i \in Session, NEW s \in Answers(i), NEW pick \in Permuted(i),
         NEW other \in Between(i, s),
         NEW tc, tc = [p \in 1..nServer |-> Digest(i, s, other, sent[i][2][pick[p]])],
         NEW tsd, tsd = [k \in DOMAIN s |-> 2 * Place(s, s[k])],
         \A p, q \in 1..nServer : p < q => tc[p] <= tc[q],
         CountCommon(tc, tsd) # -1
  PROVE  /\ CountCommon(tc, tsd) <= Cardinality({k \in DOMAIN s : s[k][2] \in local[s[k][1]]})
         /\ CountCommon(tc, tsd) <= Cardinality({k \in DOMAIN sent[i][2] : sent[i][2][k] \in Range(s)})
         /\ Undistorted(i) => CountCommon(tc, tsd) =
              Cardinality({x \in local[wants[i]] : <<wants[i], x>> \in Range(s)})
         /\ \A index \in binarySearch(tsd, TC(i, s)) :
              Found(index) => \E m \in Mode : <<m, Owner>> \in Range(s)
         /\ s \in Seq(Value)
<1> DEFINE w == wants[i]
           a == sent[i][2]
           g == given[i]
           n == nServer
           Theirs == {k \in DOMAIN s : s[k][2] \in local[s[k][1]]}
           Ours == {k \in DOMAIN a : a[k] \in Range(s)}
           Both == {x \in local[w] : <<w, x>> \in Range(s)}
<1>1. /\ n \in Nat /\ nClient \in Nat /\ w \in Mode /\ g \in Nat
      /\ a \in Seq(Entries) /\ Len(a) \in Nat /\ DOMAIN a = 1..Len(a) /\ sent[i][1] \in Mode
  <2>1. g \in 0..MaxListed /\ MaxListed \in Nat
    BY FriendOfFriendAssumption DEF Types
  <2> QED
    BY <2>1 DEF Types
<1>2. /\ s \in [1..g -> Value] /\ DOMAIN s = 1..g /\ s \in Seq(Value)
      /\ \A p, q, r \in 1..g : p < q /\ q < r /\ s[p] = s[r] => s[q] = s[p]
  <2>1. /\ s \in [1..g -> Value]
        /\ \A p, q, r \in 1..g : p < q /\ q < r /\ s[p] = s[r] => s[q] = s[p]
    BY Zenon DEF Answers
  <2> HIDE DEF g
  <2>2. DOMAIN s = 1..g /\ s \in Seq(Value)
    BY <1>1, <2>1
  <2> QED
    BY <2>1, <2>2
<1>3. /\ tsd \in Seq(Int) /\ Len(tsd) = g
      /\ \A x \in Range(s) : Place(s, x) \in 1..g /\ s[Place(s, x)] = x
      /\ \A k \in 1..g : s[k] \in Range(s) /\ tsd[k] = 2 * Place(s, s[k])
      /\ \A p, q \in 1..g : p < q => tsd[p] <= tsd[q]
  <2> HIDE DEF g
  <2>1. Answered(g, s, tsd)
    BY <1>1, <1>2 DEF Answered
  <2> QED
    BY <2>1, ClientDigests DEF Digested
<1>4. pick \in [1..n -> 1..Len(a)] /\ pick \in Injection(1..n, 1..Len(a))
      /\ \A p, q \in 1..n : pick[p] = pick[q] => p = q
  <2>1. pick \in Injection(1..n, 1..Len(a))
    BY <1>1 DEF Permuted
  <2> HIDE DEF a, n
  <2> QED
    BY <2>1 DEF Injection, IsInjective
<1>5. \A p \in 1..n : /\ a[pick[p]] \in Entries /\ a[pick[p]] \in Range(a)
                       /\ tc[p] = Digest(i, s, other, a[pick[p]])
  <2>1. ASSUME NEW p \in 1..n PROVE a[pick[p]] \in Entries /\ a[pick[p]] \in Range(a)
    <3> HIDE DEF a, n
    <3>1. pick[p] \in DOMAIN a
      BY <1>1, <1>4
    <3> QED
      BY <1>1, <3>1 DEF Range
  <2>2. ASSUME NEW p \in 1..n PROVE tc[p] = Digest(i, s, other, a[pick[p]])
    OBVIOUS
  <2> QED
    BY <2>1, <2>2
<1>6. ASSUME NEW x \in Range(a)
      PROVE  /\ Digest(i, s, other, x) \in Int
             /\ \A k \in 1..g : Digest(i, s, other, x) = tsd[k] => x = s[k]
             /\ rcInv = i /\ x \in Range(s) => Digest(i, s, other, x) = tsd[Place(s, x)]
  <2>1. CASE x \in Matched(i, s)
    <3>1. x \in Range(s) /\ Digest(i, s, other, x) = 2 * Place(s, x)
      BY <2>1 DEF Matched, Digest
    <3>2. Place(s, x) \in 1..g /\ s[Place(s, x)] = x
      BY <3>1, <1>3
    <3>3. tsd[Place(s, x)] = 2 * Place(s, x)
      BY <3>2, <1>3
    <3>4. ASSUME NEW k \in 1..g, 2 * Place(s, x) = tsd[k] PROVE x = s[k]
      <4>1. tsd[k] = 2 * Place(s, s[k]) /\ Place(s, s[k]) \in 1..g /\ s[Place(s, s[k])] = s[k]
        BY <1>3
      <4>2. Place(s, x) = Place(s, s[k])
        BY <4>1, <3>2, <3>4
      <4> QED
        BY <4>1, <4>2, <3>2
    <3>5. 2 * Place(s, x) \in Int
      BY <3>2
    <3> QED
      BY <3>1, <3>3, <3>4, <3>5
  <2>2. CASE x \notin Matched(i, s)
    <3>1. Digest(i, s, other, x) = other[x] /\ ~(rcInv = i /\ x \in Range(s))
      BY <2>2 DEF Matched, Digest
    <3>2. Len(s) = g
      BY <1>1, <1>2
    <3>3. other \in [Range(a) \ Matched(i, s) -> {2 * k + 1 : k \in 0..Len(s)}]
      BY DEF Between
    <3>4. other[x] \in {2 * k + 1 : k \in 0..Len(s)}
      BY <3>3, <2>2
    <3>5. PICK k \in 0..g : other[x] = 2 * k + 1
      BY <3>2, <3>4
    <3>6. ASSUME NEW j \in 1..g PROVE other[x] # tsd[j]
      <4>1. tsd[j] = 2 * Place(s, s[j]) /\ Place(s, s[j]) \in 1..g
        BY <1>3
      <4> QED
        BY <4>1, <3>5, <1>1
    <3> QED
      BY <3>1, <3>5, <3>6
  <2> QED
    BY <2>1, <2>2
<1>7. Sorted(tc, tsd, n)
  <2>1. \A p \in 1..n : tc[p] \in Int
    <3> HIDE DEF a
    <3> QED
      BY <1>5, <1>6
  <2>2. tc \in [1..n -> Int]
    BY <2>1
  <2>3. \A q, r \in 1..Len(tsd) : q < r => tsd[q] <= tsd[r]
    BY <1>3
  <2> QED
    BY <1>3, <2>2, <2>3 DEF Sorted
<1>8. \A p \in 1..n, r \in 1..g : tc[p] = tsd[r] => a[pick[p]] = s[r]
  <2> HIDE DEF a, g
  <2> QED
    BY <1>5, <1>6
<1> DEFINE c == Len(a)
           f == CountCommon(tc, tsd)
           T == Shared(s, g, a, c)
           O == Shared(a, c, s, g)
<1>9. f = Merged(tc, tsd, n, nClient)[<<1, 1>>] /\ f # -1
  BY DEF CountCommon
<1>10. Range(s) = {s[r] : r \in 1..g} /\ \A k \in 1..c : a[k] \in Entries
  <2> HIDE DEF a, g
  <2> QED
    BY <1>1, <1>2 DEF Range
<1>11. /\ f \in Nat /\ f <= Cardinality(T) /\ f <= Cardinality(O)
       /\ Complete(n, nClient, g, c, a, s, tc, tsd, pick) => f = Cardinality(O)
  <2>1. Placed(n, g, c, a, s, tc, tsd, pick)
    <3> HIDE DEF a, g, n
    <3> QED
      BY <1>1, <1>3, <1>4, <1>7, <1>8 DEF Placed
  <2> HIDE DEF a, g, n, c, f
  <2> QED
    BY <2>1, <1>1, <1>9, CommonPlaces
<1>12. O = Ours
  <2> HIDE DEF a, g
  <2> QED
    BY <1>1, <1>10 DEF Shared
<1>13. f <= Cardinality(Theirs)
  <2>1. T \subseteq Theirs /\ Theirs \subseteq 1..g
    <3> HIDE DEF a, g
    <3> QED
      BY <1>2, <1>10 DEF Entries, Shared
  <2>2. IsFiniteSet(1..g)
    <3> HIDE DEF g
    <3> QED
      BY <1>1, FS_Interval
  <2> HIDE DEF T, Theirs, f
  <2>3. IsFiniteSet(Theirs)
    BY <2>1, <2>2, FS_Subset
  <2>4. IsFiniteSet(T) /\ Cardinality(T) <= Cardinality(Theirs)
    BY <2>1, <2>3, FS_Subset
  <2>5. Cardinality(T) \in Nat /\ Cardinality(Theirs) \in Nat
    BY <2>3, <2>4, FS_CardinalityType
  <2> QED
    BY <2>4, <2>5, <1>11
<1>14. ASSUME Undistorted(i) PROVE f = Cardinality(Both)
  <2>1. rcInv = i /\ a = List(w) /\ n = Len(a) /\ nClient = g
    BY <1>14 DEF Undistorted
  <2>2. /\ \A k \in 1..c : a[k][1] = w
        /\ \A x \in local[w] : \E k \in 1..c : a[k] = <<w, x>>
        /\ \A j, k \in 1..c : a[j][2] = a[k][2] => j = k
        /\ IsFiniteSet(local[w])
    <3>1. /\ \A k \in 1..Len(List(w)) : List(w)[k][1] = w
          /\ \A x \in local[w] : \E k \in 1..Len(List(w)) : List(w)[k] = <<w, x>>
          /\ \A j, k \in 1..Len(List(w)) : List(w)[j][2] = List(w)[k][2] => j = k
          /\ IsFiniteSet(local[w])
      BY <1>1, ListIs
    <3>2. a = List(w)
      BY <2>1
    <3> HIDE DEF a, w
    <3> QED
      BY <3>1, <3>2
  <2> HIDE DEF a, g, n, w, f
  <2>3. ASSUME NEW p \in 1..n, NEW r \in 1..g, a[pick[p]] = s[r] PROVE \E q \in 1..g : tc[p] = tsd[q]
    <3>1. a[pick[p]] \in Range(s) /\ a[pick[p]] \in Range(a)
      BY <2>3, <1>3, <1>5
    <3>2. tc[p] = Digest(i, s, other, a[pick[p]]) /\ Place(s, a[pick[p]]) \in 1..g
      BY <3>1, <1>3, <1>5
    <3>3. Digest(i, s, other, a[pick[p]]) = tsd[Place(s, a[pick[p]])]
      BY <3>1, <2>1, <1>6
    <3> QED
      BY <3>2, <3>3
  <2>4. f = Cardinality(O)
    BY <2>1, <2>2, <2>3, <1>11 DEF Complete
  <2> DEFINE h == [k \in O |-> a[k][2]]
  <2>5. ASSUME NEW k \in O PROVE h[k] \in Both
    <3>1. k \in 1..c /\ a[k] \in Range(s) /\ a[k] \in Entries /\ a[k][1] = w
      BY <1>10, <2>2 DEF Shared
    <3>2. a[k][2] \in local[w] /\ a[k] = <<w, a[k][2]>>
      BY <3>1 DEF Entries
    <3> QED
      BY <3>1, <3>2
  <2>6. \A j, k \in O : h[j] = h[k] => j = k
    BY <2>2 DEF Shared
  <2>7. ASSUME NEW x \in Both PROVE \E k \in O : h[k] = x
    <3>1. x \in local[w] /\ <<w, x>> \in Range(s)
      OBVIOUS
    <3>2. PICK k \in 1..c : a[k] = <<w, x>>
      BY <3>1, <2>2
    <3>3. k \in O
      BY <3>1, <3>2, <1>10 DEF Shared
    <3>4. h[k] = a[k][2]
      BY <3>3
    <3> QED
      BY <3>2, <3>3, <3>4
  <2>8. IsFiniteSet(Both)
    BY <2>2, FS_Subset
  <2>9. h \in [O -> Both]
    <3> HIDE DEF O, Both
    <3> QED
      BY <2>5
  <2> HIDE DEF Both, O, h
  <2>10. h \in Injection(O, Both)
    BY <2>6, <2>9 DEF Injection, IsInjective
  <2>11. h \in Surjection(O, Both)
    BY <2>7, <2>9 DEF Surjection
  <2>12. Cardinality(O) = Cardinality(Both)
    BY <2>8, <2>10, <2>11, FS_Injection
  <2> QED
    BY <2>4, <2>12
<1>15. ASSUME NEW index \in binarySearch(tsd, TC(i, s)), Found(index)
       PROVE  \E m \in Mode : <<m, Owner>> \in Range(s)
  <2> DEFINE found == {r - 1 : r \in {k \in DOMAIN tsd : tsd[k] = TC(i, s)}}
  <2>1. index \in IF found = {} THEN {-1} ELSE found
    BY DEF binarySearch
  <2>2. index > 0
    BY <1>15 DEF Found
  <2>3. found # {}
    <3> HIDE DEF found
    <3> QED
      BY <2>1, <2>2
  <2>4. PICK k \in DOMAIN tsd : tsd[k] = TC(i, s)
    BY <2>3
  <2>5. k \in 1..g
    BY <2>4, <1>3
  <2>6. tsd[k] # -1
    <3>1. tsd[k] = 2 * Place(s, s[k]) /\ Place(s, s[k]) \in 1..g
      BY <2>5, <1>3
    <3> QED
      BY <3>1, <1>1
  <2>7. <<sent[i][1], Owner>> \in Matched(i, s)
    BY <2>4, <2>6 DEF TC
  <2> QED
    BY <2>7, <1>1 DEF Matched
<1> QED
  BY <1>2, <1>11, <1>12, <1>13, <1>14, <1>15

-----------------------------------------------------------------------------
(* Steps. *)
Step(i) ==
  \/ \E m \in Mode : loadMe(i, m)
  \/ loadList(i) \/ loadLocalFriends(i) \/ newIntersection(i)
  \/ setNumberOfServerFriends(i) \/ server_round_1(i) \/ server_round_2(i)
  \/ PeerAnswers(i) \/ setNumberOfClientFriends(i) \/ server_round_3(i)
  \/ initClientVariables(i) \/ computeRs(i) \/ calculateClientResponse(i)

(* What a step may do to the sessions: it moves its own one on, returns a   *)
(* result only at the end of server_round_3, and writes no session but its  *)
(* own.                                                                     *)
LEMMA StepMoves ==
  ASSUME Types, NEW i \in Session, Step(i)
  PROVE  /\ UNCHANGED local /\ Entries' = Entries /\ \A m : List(m)' = List(m)
         /\ \E p \in Stages : Moves(i, p)
         /\ Uses(i) \/ (UNCHANGED <<engine, alone>> /\ \E p \in Stages : Goto(i, p))
         /\ server_round_3(i) \/ \E p \in Stages : Goto(i, p)
<1> USE DEF Goto, Moves, Stages, Ended
<1>1. CASE server_round_3(i)
  <2>1. UNCHANGED local /\ Uses(i) /\ (Moves(i, "failed") \/ Moves(i, "result"))
    BY <1>1 DEF server_round_3, Return
  <2> QED
    BY <1>1, <2>1 DEF Entries, List, Lines
<1>2. CASE ~server_round_3(i)
  <2>1. UNCHANGED local
    BY <1>2 DEF Step, loadMe, loadList, loadLocalFriends, newIntersection, setNumberOfServerFriends,
       server_round_1, server_round_2, PeerAnswers, setNumberOfClientFriends, initClientVariables,
       computeRs, calculateClientResponse
  <2>0. UNCHANGED local /\ Entries' = Entries /\ \A m : List(m)' = List(m)
    BY <2>1 DEF Entries, List, Lines
  <2>2. CASE \E m \in Mode : loadMe(i, m)
    <3>1. \/ Goto(i, "unnamed") /\ UNCHANGED <<engine, alone>>
          \/ Goto(i, "load") /\ Uses(i)
      BY <2>2 DEF loadMe, engine
    <3> QED
      BY <3>1, <2>0
  <2>3. CASE PeerAnswers(i)
    <3>1. (Goto(i, "reply") \/ Goto(i, "failed")) /\ UNCHANGED <<engine, alone>>
      BY <2>3 DEF PeerAnswers
    <3> QED
      BY <3>1, <2>0
  <2>4. CASE /\ ~(\E m \in Mode : loadMe(i, m))
             /\ ~PeerAnswers(i)
    <3>1. Uses(i)
      BY <1>2, <2>4 DEF Step, loadList, loadLocalFriends, newIntersection, setNumberOfServerFriends,
         server_round_1, server_round_2, setNumberOfClientFriends, initClientVariables,
         computeRs, calculateClientResponse
    <3>2. \E p \in Stages : Goto(i, p)
      BY <1>2, <2>4 DEF Step, loadList, loadLocalFriends, newIntersection, setNumberOfServerFriends,
         server_round_1, server_round_2, setNumberOfClientFriends, initClientVariables,
         computeRs, calculateClientResponse
    <3>3. \E p \in Stages : Moves(i, p)
      BY <3>2, Zenon DEF Goto, Moves
    <3> QED
      BY <3>1, <3>2, <3>3, <2>0, Zenon
  <2> QED
    BY <2>2, <2>3, <2>4
<1> QED
  BY <1>1, <1>2

(* The result of a check, as server_round_3 picks it. *)
Result(i, s, pick, other, tc, tsd, index) ==
  /\ s \in Answers(i) /\ pick \in Permuted(i) /\ other \in Between(i, s)
  /\ tc = [p \in 1..nServer |-> Digest(i, s, other, sent[i][2][pick[p]])]
  /\ tsd = [k \in DOMAIN s |-> 2 * Place(s, s[k])]
  /\ \A p, q \in 1..nServer : p < q => tc[p] <= tc[q]
  /\ CountCommon(tc, tsd) # -1 /\ index \in binarySearch(tsd, TC(i, s))
  /\ Return(i, s, IF Found(index) THEN 1 ELSE 0, CountCommon(tc, tsd))

(* server_round_3 fails, or returns what RoundThree bounds. *)
LEMMA RoundThreeStep ==
  ASSUME Types, NEW i \in Session, server_round_3(i)
  PROVE  /\ pc[i] = "final" /\ Uses(i) /\ UNCHANGED <<local, engine, session>>
         /\ \/ Goto(i, "failed")
            \/ \E s, pick, other, tc, tsd, index : Result(i, s, pick, other, tc, tsd, index)
<1>1. pc[i] = "final" /\ Uses(i) /\ UNCHANGED <<local, engine, session>>
  BY DEF server_round_3
<1>2. CASE Goto(i, "failed")
  BY <1>1, <1>2
<1>3. CASE ~Goto(i, "failed")
  <2> DEFINE tcOf(s, pick, other) == [p \in 1..nServer |-> Digest(i, s, other, sent[i][2][pick[p]])]
             tsdOf(s) == [k \in DOMAIN s |-> 2 * Place(s, s[k])]
  <2>1. \E s \in Answers(i), pick \in Permuted(i) : \E other \in Between(i, s) :
          LET tc == tcOf(s, pick, other)
              tsd == tsdOf(s)
              found == CountCommon(tc, tsd)
          IN  /\ \A p, q \in 1..nServer : p < q => tc[p] <= tc[q]
              /\ found # -1
              /\ \E index \in binarySearch(tsd, TC(i, s)) :
                   Return(i, s, IF Found(index) THEN 1 ELSE 0, found)
    BY <1>3, ZenonT(40) DEF server_round_3
  <2>2. PICK s \in Answers(i), pick \in Permuted(i) : \E other \in Between(i, s) :
          /\ \A p, q \in 1..nServer : p < q => tcOf(s, pick, other)[p] <= tcOf(s, pick, other)[q]
          /\ CountCommon(tcOf(s, pick, other), tsdOf(s)) # -1
          /\ \E index \in binarySearch(tsdOf(s), TC(i, s)) :
               Return(i, s, IF Found(index) THEN 1 ELSE 0, CountCommon(tcOf(s, pick, other), tsdOf(s)))
    BY <2>1, Zenon
  <2>3. PICK other \in Between(i, s) :
          /\ \A p, q \in 1..nServer : p < q => tcOf(s, pick, other)[p] <= tcOf(s, pick, other)[q]
          /\ CountCommon(tcOf(s, pick, other), tsdOf(s)) # -1
          /\ \E index \in binarySearch(tsdOf(s), TC(i, s)) :
               Return(i, s, IF Found(index) THEN 1 ELSE 0, CountCommon(tcOf(s, pick, other), tsdOf(s)))
    BY <2>2, Zenon
  <2>4. PICK index \in binarySearch(tsdOf(s), TC(i, s)) :
          Return(i, s, IF Found(index) THEN 1 ELSE 0, CountCommon(tcOf(s, pick, other), tsdOf(s)))
    BY <2>3, Zenon
  <2>5. Result(i, s, pick, other, tcOf(s, pick, other), tsdOf(s), index)
    BY <2>2, <2>3, <2>4, Zenon DEF Result
  <2> QED
    BY <1>1, <2>5, Zenon
<1> QED
  BY <1>2, <1>3

(* What is returned is within its bounds. *)
Credits(i, s) ==
  /\ last' = i /\ others' = s /\ others' \in Seq(Value) /\ direct' \in {0, 1}
  /\ common' <= Cardinality({k \in DOMAIN s : s[k][2] \in local[s[k][1]]})
  /\ common' <= Cardinality({k \in DOMAIN sent[i][2] : sent[i][2][k] \in Range(s)})
  /\ Undistorted(i) => common' = Cardinality({x \in local[wants[i]] : <<wants[i], x>> \in Range(s)})
  /\ direct' = 1 => \E m \in Mode : <<m, Owner>> \in Range(s)

(* A result is within its bounds. *)
LEMMA ResultIs ==
  ASSUME Types, NEW i \in Session, NEW s, NEW pick, NEW other, NEW tc, NEW tsd, NEW index,
         Result(i, s, pick, other, tc, tsd, index)
  PROVE  Credits(i, s)
<1>1. /\ s \in Answers(i) /\ pick \in Permuted(i) /\ other \in Between(i, s)
      /\ tc = [p \in 1..nServer |-> Digest(i, s, other, sent[i][2][pick[p]])]
      /\ tsd = [k \in DOMAIN s |-> 2 * Place(s, s[k])]
      /\ \A p, q \in 1..nServer : p < q => tc[p] <= tc[q]
      /\ CountCommon(tc, tsd) # -1
  BY Zenon DEF Result
<1>2. /\ index \in binarySearch(tsd, TC(i, s)) /\ common' = CountCommon(tc, tsd)
      /\ direct' = (IF Found(index) THEN 1 ELSE 0) /\ last' = i /\ others' = s
  BY Zenon DEF Result, Return
<1>3. /\ CountCommon(tc, tsd) <= Cardinality({k \in DOMAIN s : s[k][2] \in local[s[k][1]]})
      /\ CountCommon(tc, tsd) <= Cardinality({k \in DOMAIN sent[i][2] : sent[i][2][k] \in Range(s)})
      /\ Undistorted(i) => CountCommon(tc, tsd) =
           Cardinality({x \in local[wants[i]] : <<wants[i], x>> \in Range(s)})
      /\ \A k \in binarySearch(tsd, TC(i, s)) :
           Found(k) => \E m \in Mode : <<m, Owner>> \in Range(s)
      /\ s \in Seq(Value)
  BY <1>1, RoundThree, ZenonT(60)
<1>4. direct' = 1 => Found(index)
  BY <1>2
<1>5. direct' \in {0, 1}
  BY <1>2
<1>6. Undistorted(i) => common' = Cardinality({x \in local[wants[i]] : <<wants[i], x>> \in Range(s)})
  BY <1>2, <1>3
<1> QED
  BY <1>2, <1>3, <1>4, <1>5, <1>6, Zenon DEF Credits

(* Types. *)
LEMMA TypesStep ==
  ASSUME Types, KindsInv, NEW i \in Session, Step(i)
  PROVE  Types'
<1>0. /\ UNCHANGED local /\ Entries' = Entries /\ \E p \in Stages : Moves(i, p)
      /\ local \in [Mode -> SUBSET Friend] /\ "id" \in Mode /\ "nonce" \in Mode /\ friends \in Seq(Entries)
      /\ MaxListed \in Nat
  BY StepMoves, FriendOfFriendAssumption DEF Types, Mode
<1>1. pc' \in [Session -> Stages]
  BY <1>0 DEF Types, Moves
<1>2. alone' \in [Session -> {0, 1}]
  <2>1. CASE Uses(i)
    BY <2>1 DEF Uses, Types
  <2>2. CASE UNCHANGED alone
    BY <2>2 DEF Types
  <2> QED
    BY <2>1, <2>2, StepMoves
<1>3. last' \in Served \cup {NULL} /\ others' \in Seq(Value) /\ direct' \in {0, 1}
  <2>1. ASSUME NEW p, Goto(i, p) PROVE last' \in Served \cup {NULL} /\ others' \in Seq(Value) /\ direct' \in {0, 1}
    BY <2>1 DEF Goto
  <2>2. CASE server_round_3(i) /\ ~Goto(i, "failed")
    <3>1. PICK s, pick, other, tc, tsd, index : Result(i, s, pick, other, tc, tsd, index)
      BY <2>2, RoundThreeStep, Zenon
    <3>2. last' = i /\ others' \in Seq(Value) /\ direct' \in {0, 1}
      BY <3>1, ResultIs, Zenon DEF Credits
    <3>3. i \in Served
      BY <2>2, Sessions DEF server_round_3, KindsInv
    <3> QED
      BY <3>2, <3>3
  <2> QED
    BY <2>1, <2>2, StepMoves
<1>4. ASSUME NEW m \in Mode, loadMe(i, m) PROVE Types'
  <2>1. wants' \in [Session -> Mode] /\ me' \in Mode
    BY <1>4 DEF loadMe, Types
  <2> QED
    BY <1>0, <1>1, <1>2, <1>3, <1>4, <2>1 DEF loadMe, Types, Stages
<1>5. CASE loadList(i)
  <2>1. friends' \in Seq(Entries)
    <3>1. CASE wants[i] = "id"
      BY <1>5, <3>1 DEF loadList
    <3>2. CASE wants[i] # "id"
      BY <1>0, <1>5, <3>2, ListIs DEF loadList
    <3> QED
      BY <3>1, <3>2
  <2> QED
    BY <1>0, <1>1, <1>2, <1>3, <1>5, <2>1 DEF loadList, session, Types, Stages
<1>6. CASE loadLocalFriends(i)
  <2>1. List("id") \in Seq(Entries)
    BY <1>0, ListIs
  <2>2. friends' \in Seq(Entries)
    BY <1>0, <1>6, <2>1 DEF loadLocalFriends
  <2> QED
    BY <1>0, <1>1, <1>2, <1>3, <1>6, <2>2 DEF loadLocalFriends, session, Types, Stages
<1>7. CASE newIntersection(i) \/ setNumberOfServerFriends(i) \/ computeRs(i)
  <2>1. /\ nServer' \in Nat /\ nClient' \in Nat
        /\ UNCHANGED <<me, friends, rcInv, session>>
    BY <1>0, <1>7 DEF newIntersection, setNumberOfServerFriends, computeRs, Types
  <2> QED
    BY <1>0, <1>1, <1>2, <1>3, <2>1 DEF session, Types, Stages
<1>8. CASE server_round_1(i)
  <2>1. <<me, friends>> \in Mode \X Seq(Entries) /\ sent \in [Session -> Mode \X Seq(Entries)]
    BY <1>0 DEF Types
  <2>2. UNCHANGED sent \/ sent' = [sent EXCEPT ![i] = <<me, friends>>]
    BY <1>8 DEF server_round_1
  <2>3. sent' \in [Session -> Mode \X Seq(Entries)]
    BY <2>1, <2>2
  <2> QED
    BY <1>0, <1>1, <1>2, <1>3, <1>8, <2>3 DEF server_round_1, engine, Types, Stages
<1>9. CASE server_round_2(i)
  <2>1. i \in Served
    BY <1>9, Sessions DEF server_round_2, KindsInv
  <2> QED
    BY <1>0, <1>1, <1>2, <1>3, <1>9, <2>1 DEF server_round_2, session, Types, Stages
<1>10. CASE PeerAnswers(i)
  <2>1. given' \in [Session -> 0..MaxListed]
    BY <1>0, <1>10 DEF PeerAnswers, Types
  <2> QED
    BY <1>0, <1>1, <1>2, <1>3, <1>10, <2>1 DEF PeerAnswers, engine, Types, Stages
<1>11. CASE setNumberOfClientFriends(i)
  <2>1. nClient' \in Nat
    BY <1>0, <1>11 DEF setNumberOfClientFriends, Types
  <2> QED
    BY <1>0, <1>1, <1>2, <1>3, <1>11, <2>1 DEF setNumberOfClientFriends, session, Types, Stages
<1>12. CASE server_round_3(i)
  <2>1. UNCHANGED <<engine, session>>
    BY <1>12 DEF server_round_3
  <2> QED
    BY <1>0, <1>1, <1>2, <1>3, <2>1 DEF engine, session, Types, Stages
<1>13. CASE initClientVariables(i)
  <2>1. given' \in [Session -> 0..MaxListed] /\ given'[i] \in Nat
    BY <1>0, <1>13 DEF initClientVariables, Types
  <2>2. nServer' \in Nat /\ nClient' \in Nat
    BY <1>0, <1>13, <2>1 DEF initClientVariables, Types
  <2> QED
    BY <1>0, <1>1, <1>2, <1>3, <1>13, <2>1, <2>2 DEF initClientVariables, Types, Stages
<1>14. CASE calculateClientResponse(i)
  <2>1. DOMAIN answer' = Session
    BY <1>14 DEF calculateClientResponse, Types
  <2> QED
    BY <1>0, <1>1, <1>2, <1>3, <1>14, <2>1 DEF calculateClientResponse, engine, Types, Stages
<1> QED
  BY <1>4, <1>5, <1>6, <1>7, <1>8, <1>9, <1>10, <1>11, <1>12, <1>13, <1>14 DEF Step

(* A product grows with its factor. *)
LEMMA Times ==
  \A f, a, b \in Nat : /\ a <= b => f * a <= f * b
                       /\ f * (a + 1) = f * a + f /\ f * a \in Nat
OBVIOUS

(* The engine's list and the two numbers keep within their bounds. *)
LEMMA SizesStep ==
  ASSUME Types, SizesInv, NEW i \in Session, Step(i)
  PROVE  SizesInv'
<1>1. /\ MaxFriends \in Nat /\ pc \in [Session -> Stages] /\ friends \in Seq(Entries) /\ Len(friends) \in Nat
      /\ Len(friends) <= MaxFriends * Cardinality(Loaded) /\ MaxListed \in Nat
      /\ nServer <= MaxListed + Bound /\ nClient <= MaxListed + Bound
      /\ \A j \in Session : given[j] \in Nat /\ given[j] <= MaxListed
  BY FriendOfFriendAssumption DEF Types, SizesInv
<1>2. PICK p \in Stages : Moves(i, p)
  BY StepMoves
<1>3. pc'[i] = p /\ \A j \in Session \ {i} : pc'[j] = pc[j]
  BY <1>1, <1>2 DEF Moves
<1>4. /\ IsFiniteSet(Loaded) /\ Cardinality(Loaded) \in Nat
      /\ IsFiniteSet(Loaded') /\ Cardinality(Loaded') \in Nat
      /\ Cardinality(Loaded) <= Cardinality(Session) /\ Cardinality(Session) \in Nat
  <2>1. Loaded \in SUBSET Session /\ Loaded' \in SUBSET Session
    BY DEF Loaded
  <2> QED
    BY <2>1, Sessions
<1>5. /\ Bound \in Nat /\ MaxFriends * Cardinality(Loaded) <= Bound
  BY <1>1, <1>4, Times DEF Bound
<1>6. ASSUME p \notin {"none", "load", "fill"}
      PROVE  /\ Cardinality(Loaded) <= Cardinality(Loaded') /\ i \in Loaded'
             /\ pc[i] \in {"none", "load", "fill"} => Cardinality(Loaded') = Cardinality(Loaded) + 1
  <2>1. Loaded' = Loaded \cup {i} /\ (pc[i] \in {"none", "load", "fill"} => i \notin Loaded)
    BY <1>3, <1>6 DEF Loaded
  <2> QED
    BY <2>1, <1>4, FS_AddElement
<1>7. ASSUME Cardinality(Loaded) <= Cardinality(Loaded'), UNCHANGED friends
      PROVE  Len(friends') <= MaxFriends * Cardinality(Loaded')
  <2>1. MaxFriends * Cardinality(Loaded) <= MaxFriends * Cardinality(Loaded')
        /\ MaxFriends * Cardinality(Loaded) \in Nat /\ MaxFriends * Cardinality(Loaded') \in Nat
    BY <1>1, <1>4, <1>7, Times
  <2> QED
    BY <2>1, <1>1, <1>7
<1>8. UNCHANGED Bound
  BY DEF Bound
<1>9. ASSUME NEW m \in Mode, loadMe(i, m) PROVE SizesInv'
  <2>1. /\ nServer' = nServer /\ nClient' = nClient /\ pc[i] = "none" /\ UNCHANGED friends
        /\ Moves(i, "unnamed") \/ Moves(i, "load")
    BY <1>9 DEF loadMe, MayStart, Goto, Moves
  <2>2. p \in {"unnamed", "load"}
    BY <2>1, <1>1, <1>3 DEF Moves
  <2>3. Cardinality(Loaded) <= Cardinality(Loaded')
    <3>1. CASE p = "unnamed"
      BY <1>6, <3>1
    <3>2. CASE p = "load"
      <4>1. Loaded' = Loaded
        BY <1>3, <2>1, <3>2 DEF Loaded
      <4> QED
        BY <4>1, <1>4
    <3> QED
      BY <2>2, <3>1, <3>2
  <2> QED
    BY <1>1, <1>7, <1>8, <2>1, <2>3 DEF SizesInv
<1>10. ASSUME NEW m \in Mode, friends' = List(m), Moves(i, "object"), pc[i] = "load"
       PROVE  Len(friends') <= MaxFriends * Cardinality(Loaded')
  <2>1. p = "object"
    BY <1>10, <1>1, <1>3 DEF Moves
  <2>2. Len(friends') \in 0..MaxFriends
    BY <1>10, ListIs
  <2>3. Cardinality(Loaded') = Cardinality(Loaded) + 1
    BY <1>6, <1>10, <2>1
  <2>4. MaxFriends * Cardinality(Loaded') = MaxFriends * Cardinality(Loaded) + MaxFriends
        /\ MaxFriends * Cardinality(Loaded) \in Nat
    BY <2>3, <1>1, <1>4, Times
  <2> QED
    BY <2>2, <2>4, <1>1
<1>11. CASE loadList(i)
  <2>1. nServer' = nServer /\ nClient' = nClient /\ pc[i] = "load" /\ "nonce" \in Mode
    BY <1>11 DEF loadList, Mode
  <2>2. Len(friends') <= MaxFriends * Cardinality(Loaded')
    <3>1. CASE wants[i] = "id"
      <4>1. friends' = <<>> /\ Len(friends') = 0
        BY <1>11, <3>1 DEF loadList
      <4> QED
        BY <4>1, <1>1, <1>4, Times
    <3>2. CASE wants[i] # "id"
      <4>1. friends' = List("nonce") /\ Moves(i, "object")
        BY <1>11, <3>2 DEF loadList, Goto, Moves
      <4> QED
        BY <4>1, <2>1, <1>10
    <3> QED
      BY <3>1, <3>2
  <2> QED
    BY <1>1, <1>8, <2>1, <2>2 DEF SizesInv
<1>12. CASE loadLocalFriends(i)
  <2>1. /\ pc[i] = "fill" /\ Moves(i, "object") /\ friends' = friends \o List("id")
        /\ nServer' = nServer /\ nClient' = nClient /\ "id" \in Mode
    BY <1>12 DEF loadLocalFriends, Mode, Goto, Moves
  <2>2. p = "object"
    BY <2>1, <1>1, <1>3 DEF Moves
  <2>3. List("id") \in Seq(Entries) /\ Len(List("id")) \in 0..MaxFriends
    BY <2>1, ListIs
  <2>4. Len(friends') = Len(friends) + Len(List("id"))
    BY <2>1, <2>3, <1>1
  <2>5. Cardinality(Loaded') = Cardinality(Loaded) + 1
    BY <1>6, <2>1, <2>2
  <2>6. MaxFriends * Cardinality(Loaded') = MaxFriends * Cardinality(Loaded) + MaxFriends
        /\ MaxFriends * Cardinality(Loaded) \in Nat
    BY <2>5, <1>1, <1>4, Times
  <2>7. Len(friends') <= MaxFriends * Cardinality(Loaded')
    BY <2>3, <2>4, <2>6, <1>1
  <2> QED
    BY <1>1, <1>8, <2>1, <2>7 DEF SizesInv
<1>13. ASSUME newIntersection(i) \/ setNumberOfServerFriends(i) \/ server_round_1(i) \/ server_round_2(i)
              \/ PeerAnswers(i) \/ setNumberOfClientFriends(i) \/ server_round_3(i)
              \/ initClientVariables(i) \/ computeRs(i) \/ calculateClientResponse(i)
       PROVE  SizesInv'
  <2>1. UNCHANGED friends
    BY <1>13 DEF newIntersection, setNumberOfServerFriends, server_round_1, server_round_2, PeerAnswers,
       setNumberOfClientFriends, server_round_3, initClientVariables, computeRs, calculateClientResponse, engine
  <2>2. \E q \in Stages \ {"none", "load", "fill"} : Moves(i, q)
    BY <1>13 DEF newIntersection, setNumberOfServerFriends, server_round_1, server_round_2, PeerAnswers,
       setNumberOfClientFriends, server_round_3, initClientVariables, computeRs, calculateClientResponse,
       Stages, Ended, Moves, Goto, Return
  <2>3. p \notin {"none", "load", "fill"}
    BY <2>2, <1>1, <1>3 DEF Moves
  <2>4. /\ nServer' \in {0, nServer, Len(friends), given'[i]}
        /\ nClient' \in {0, nClient, Len(friends), given[i]}
    BY <1>13 DEF newIntersection, setNumberOfServerFriends, server_round_1, server_round_2, PeerAnswers,
       setNumberOfClientFriends, server_round_3, initClientVariables, computeRs, calculateClientResponse, engine
  <2>5. given'[i] \in Nat /\ given'[i] <= MaxListed
    <3>1. UNCHANGED given \/ \E n \in 0..MaxListed : given' = [given EXCEPT ![i] = n]
      BY <1>13, <1>1 DEF newIntersection, setNumberOfServerFriends, server_round_1, server_round_2, PeerAnswers,
         setNumberOfClientFriends, server_round_3, initClientVariables, computeRs, calculateClientResponse, session
    <3> QED
      BY <3>1, <1>1 DEF Types
  <2>6. Len(friends) <= Bound
    <3>1. \A a, b, c \in Nat : a <= b /\ b <= c => a <= c
      OBVIOUS
    <3>2. MaxFriends * Cardinality(Loaded) \in Nat
      BY <1>1, <1>4, Times
    <3> QED
      BY <3>1, <3>2, <1>1, <1>5
  <2>7. nServer' <= MaxListed + Bound /\ nClient' <= MaxListed + Bound
    BY <2>4, <2>5, <2>6, <1>1, <1>5
  <2>8. Len(friends') <= MaxFriends * Cardinality(Loaded')
    BY <1>6, <1>7, <2>1, <2>3
  <2> QED
    BY <1>8, <2>7, <2>8 DEF SizesInv
<1> QED
  BY <1>9, <1>11, <1>12, <1>13 DEF Step

(* Sessions keep to their side, and the first step of a check makes a key. *)
LEMMA KindsStep ==
  ASSUME Types, KindsInv, NEW i \in Session, Step(i)
  PROVE  KindsInv'
<1> DEFINE Checks == {"round1", "round2", "holes", "sent", "reply", "final", "result"}
           Keyed == {"sent", "reply", "final"}
<1>1. pc \in [Session -> Stages] /\ Served \cap Asked = {} /\ NULL \notin Served
      /\ Session = Served \cup Asked
  BY Sessions DEF Types
<1>2. PICK p \in Stages : Moves(i, p)
  BY StepMoves
<1>3. pc'[i] = p /\ \A j \in Session \ {i} : pc'[j] = pc[j]
  BY <1>1, <1>2 DEF Moves
<1>4. p \in Checks => i \in Served /\ (p \in Keyed => pc[i] \in Keyed \/ rcInv' = i)
  <2>1. CASE server_round_3(i)
    BY <2>1, <1>1, <1>3 DEF server_round_3, Goto, Return, KindsInv
  <2>2. CASE ~server_round_3(i)
    BY <2>2, <1>1, <1>3 DEF KindsInv, Step, Goto, loadMe, loadList, loadLocalFriends, newIntersection,
       setNumberOfServerFriends, server_round_1, server_round_2, PeerAnswers, setNumberOfClientFriends,
       initClientVariables, computeRs, calculateClientResponse, engine
  <2> QED
    BY <2>1, <2>2
<1>5. p \in {"vars", "rs", "answered"} => i \in Asked
  <2>1. CASE server_round_3(i)
    BY <2>1, <1>1, <1>3 DEF server_round_3, Goto, Return
  <2>2. CASE ~server_round_3(i)
    BY <2>2, <1>1, <1>3 DEF KindsInv, Step, Goto, loadMe, loadList, loadLocalFriends, newIntersection,
       setNumberOfServerFriends, server_round_1, server_round_2, PeerAnswers, setNumberOfClientFriends,
       initClientVariables, computeRs, calculateClientResponse
  <2> QED
    BY <2>1, <2>2
<1>6. rcInv' = rcInv \/ rcInv' = i
  BY DEF Step, loadMe, loadList, loadLocalFriends, newIntersection,
     setNumberOfServerFriends, server_round_1, server_round_2, PeerAnswers, setNumberOfClientFriends,
     server_round_3, initClientVariables, computeRs, calculateClientResponse, engine
<1>7. i # NULL
  BY FriendOfFriendAssumption DEF Session, Served, Asked, NULL
<1> QED
  BY <1>1, <1>3, <1>4, <1>5, <1>6, <1>7 DEF KindsInv

(* A session that is not disturbed finds in the engine what it left there. *)
LEMMA AloneStep ==
  ASSUME Types, AloneInv, NEW i \in Session, Step(i)
  PROVE  AloneInv'
<1> USE DEF Ended
<1>0. /\ UNCHANGED local /\ \A m : List(m)' = List(m)
      /\ pc \in [Session -> Stages] /\ wants \in [Session -> Mode] /\ friends \in Seq(Entries)
      /\ sent \in [Session -> Mode \X Seq(Entries)] /\ given \in [Session -> 0..MaxListed]
      /\ alone \in [Session -> {0, 1}] /\ Mode = {"id", "nonce"}
  BY StepMoves DEF Types, Mode
<1>1. ASSUME NEW p, Uses(i), Moves(i, p), alone[i] = 1 /\ p \notin Ended => EngineOf(i)'
      PROVE  AloneInv'
  <2>1. pc'[i] = p /\ alone'[i] = alone[i] /\ \A j \in Session \ {i} : ~Undisturbed(j)'
    BY <1>1, Disturbs
  <2>2. Undisturbed(i)' => EngineOf(i)'
    BY <1>1, <2>1 DEF Undisturbed
  <2> QED
    BY <2>1, <2>2 DEF AloneInv
<1>2. alone[i] = 1 /\ pc[i] \notin Ended => EngineOf(i)
  BY DEF AloneInv, Undisturbed
<1>3. ASSUME NEW p \in {"unnamed", "reply", "failed"}, Moves(i, p), UNCHANGED <<engine, alone, sent>>,
             \A j \in Session \ {i} : wants'[j] = wants[j] /\ given'[j] = given[j],
             p = "reply" => pc[i] = "sent" /\ wants'[i] = wants[i]
      PROVE  AloneInv'
  <2>1. pc'[i] = p /\ \A j \in Session \ {i} : pc'[j] = pc[j]
    BY <1>0, <1>3 DEF Moves
  <2>2. UNCHANGED <<me, friends, nServer, nClient, rcInv, ts>>
    BY <1>3 DEF engine
  <2>3. ASSUME NEW j \in Session, Undisturbed(j)' PROVE EngineOf(j)'
    <3>1. CASE j = i
      <4>1. p = "reply" /\ Undisturbed(i)
        BY <1>3, <2>1, <2>3, <3>1 DEF Undisturbed
      <4>2. EngineOf(i)
        BY <4>1 DEF AloneInv
      <4> QED
        BY <3>1, <4>1, <4>2, <1>0, <1>3, <2>1, <2>2 DEF EngineOf
    <3>2. CASE j # i
      <4>1. Undisturbed(j)
        BY <1>3, <2>1, <2>3, <3>2 DEF Undisturbed
      <4>2. EngineOf(j)
        BY <4>1 DEF AloneInv
      <4> QED
        BY <3>2, <4>2, <1>0, <1>3, <2>1, <2>2 DEF EngineOf
    <3> QED
      BY <3>1, <3>2
  <2> QED
    BY <2>3 DEF AloneInv
<1>4. ASSUME NEW m \in Mode, loadMe(i, m) PROVE AloneInv'
  <2>0. /\ wants' = [wants EXCEPT ![i] = m] /\ UNCHANGED <<given, sent>>
        /\ \/ Moves(i, "unnamed") /\ UNCHANGED <<engine, alone>>
           \/ Moves(i, "load") /\ me' = m /\ Uses(i)
    BY <1>4 DEF loadMe, Goto, Moves, engine
  <2>1. CASE Moves(i, "unnamed") /\ UNCHANGED <<engine, alone>>
    <3>1. \A j \in Session \ {i} : wants'[j] = wants[j] /\ given'[j] = given[j]
      BY <2>0, <1>0
    <3> QED
      BY <2>0, <2>1, <3>1, <1>3
  <2>2. CASE Moves(i, "load") /\ me' = m /\ Uses(i)
    <3>1. pc'[i] = "load" /\ wants'[i] = m
      BY <2>0, <2>2, <1>0 DEF Moves
    <3>2. EngineOf(i)'
      BY <2>2, <3>1 DEF EngineOf
    <3> QED
      BY <2>2, <3>2, <1>1
  <2> QED
    BY <2>0, <2>1, <2>2
<1>5. CASE loadList(i)
  <2>1. PICK p : /\ Uses(i) /\ Moves(i, p) /\ pc[i] = "load" /\ UNCHANGED <<me, wants>>
                 /\ \/ wants[i] = "id" /\ friends' = <<>> /\ p = "fill"
                    \/ wants[i] # "id" /\ friends' = List("nonce") /\ p = "object"
    BY <1>5 DEF loadList, Goto, Moves, session
  <2>2. pc'[i] = p
    BY <2>1, <1>0 DEF Moves
  <2>3. ASSUME alone[i] = 1 PROVE EngineOf(i)'
    <3>1. me = wants[i] /\ wants[i] \in Mode
      BY <1>0, <1>2, <2>1, <2>3 DEF EngineOf
    <3> QED
      BY <2>1, <2>2, <3>1, <1>0 DEF EngineOf
  <2> QED
    BY <2>1, <2>3, <1>1
<1>6. CASE loadLocalFriends(i)
  <2>1. /\ Uses(i) /\ Moves(i, "object") /\ pc[i] = "fill" /\ friends' = friends \o List("id")
        /\ UNCHANGED <<me, wants>>
    BY <1>6 DEF loadLocalFriends, session, Goto, Moves
  <2>2. pc'[i] = "object"
    BY <2>1, <1>0 DEF Moves
  <2>3. ASSUME alone[i] = 1 PROVE EngineOf(i)'
    <3>1. EngineOf(i)
      BY <1>2, <2>1, <2>3
    <3>2. wants[i] = "id" /\ friends = <<>> /\ me = wants[i]
      BY <3>1, <2>1 DEF EngineOf
    <3>3. List("id") \in Seq(Entries)
      BY <1>0, ListIs
    <3>4. friends' = List("id")
      BY <2>1, <3>2, <3>3
    <3> QED
      BY <2>1, <2>2, <3>2, <3>4, <1>0 DEF EngineOf
  <2> QED
    BY <2>1, <2>3, <1>1
<1>7. CASE newIntersection(i)
  <2>1. /\ Uses(i) /\ Moves(i, "ready") /\ pc[i] = "object" /\ UNCHANGED <<me, wants, friends>>
    BY <1>7 DEF newIntersection, session, Goto, Moves
  <2>2. pc'[i] = "ready"
    BY <2>1, <1>0 DEF Moves
  <2>3. ASSUME alone[i] = 1 PROVE EngineOf(i)'
    BY <1>0, <1>2, <2>1, <2>2, <2>3 DEF EngineOf
  <2> QED
    BY <2>1, <2>3, <1>1
<1>8. CASE setNumberOfServerFriends(i)
  <2>1. /\ Uses(i) /\ Moves(i, "round1") /\ pc[i] = "ready" /\ UNCHANGED <<me, wants, friends>>
        /\ nServer' = Len(friends)
    BY <1>8 DEF setNumberOfServerFriends, session, Goto, Moves
  <2>2. pc'[i] = "round1"
    BY <2>1, <1>0 DEF Moves
  <2>3. ASSUME alone[i] = 1 PROVE EngineOf(i)'
    BY <1>0, <1>2, <2>1, <2>2, <2>3 DEF EngineOf
  <2> QED
    BY <2>1, <2>3, <1>1
<1>9. CASE server_round_1(i)
  <2>1. /\ Uses(i) /\ pc[i] = "round1" /\ UNCHANGED <<me, wants, friends, nServer>>
    BY <1>9 DEF server_round_1, engine
  <2>2. CASE ~(nServer <= Len(friends))
    <3>1. Moves(i, "failed")
      BY <1>9, <2>2 DEF server_round_1, Goto, Moves
    <3> QED
      BY <2>1, <3>1, <1>1
  <2>3. CASE nServer <= Len(friends)
    <3>1. PICK p : /\ Moves(i, p) /\ sent' = [sent EXCEPT ![i] = <<me, friends>>]
                   /\ p = IF nServer = Len(friends) THEN "round2" ELSE "holes"
      BY <1>9, <2>3 DEF server_round_1, Goto, Moves
    <3>2. pc'[i] = p /\ sent'[i] = <<me, friends>>
      BY <3>1, <1>0 DEF Moves
    <3>3. ASSUME alone[i] = 1 PROVE EngineOf(i)'
      <4>1. EngineOf(i)
        BY <1>2, <2>1, <3>3
      <4>2. nServer = Len(friends) /\ p = "round2" /\ me = wants[i] /\ friends = List(wants[i])
        BY <4>1, <2>1, <3>1 DEF EngineOf
      <4> QED
        BY <4>2, <2>1, <3>2, <1>0 DEF EngineOf
    <3> QED
      BY <2>1, <3>1, <3>3, <1>1
  <2> QED
    BY <2>2, <2>3
<1>10. CASE server_round_2(i)
  <2>1. PICK p : /\ Uses(i) /\ Moves(i, p) /\ pc[i] \in {"round2", "holes"} /\ rcInv' = i
                 /\ p = IF pc[i] = "round2" THEN "sent" ELSE "failed"
                 /\ UNCHANGED <<me, wants, friends, nServer, sent>>
    BY <1>10 DEF server_round_2, session, Goto, Moves
  <2>2. pc'[i] = p
    BY <2>1, <1>0 DEF Moves
  <2>3. ASSUME alone[i] = 1, p \notin Ended PROVE EngineOf(i)'
    <3>1. EngineOf(i) /\ pc[i] = "round2" /\ p = "sent"
      BY <1>2, <2>1, <2>3
    <3> QED
      BY <3>1, <2>1, <2>2, <1>0 DEF EngineOf
  <2> QED
    BY <2>1, <2>3, <1>1
<1>11. CASE PeerAnswers(i)
  <2>1. PICK p \in {"reply", "failed"} :
          /\ Moves(i, p) /\ pc[i] = "sent" /\ UNCHANGED <<engine, alone, sent, wants>>
          /\ UNCHANGED given \/ \E n : given' = [given EXCEPT ![i] = n]
    BY <1>11 DEF PeerAnswers, Goto, Moves
  <2>2. \A j \in Session \ {i} : wants'[j] = wants[j] /\ given'[j] = given[j]
    BY <2>1, <1>0
  <2> QED
    BY <2>1, <2>2, <1>3
<1>12. CASE setNumberOfClientFriends(i)
  <2>1. /\ Uses(i) /\ Moves(i, "final") /\ pc[i] = "reply" /\ nClient' = given[i]
        /\ UNCHANGED <<me, wants, friends, nServer, rcInv, sent, given>>
    BY <1>12 DEF setNumberOfClientFriends, session, Goto, Moves
  <2>2. pc'[i] = "final"
    BY <2>1, <1>0 DEF Moves
  <2>3. ASSUME alone[i] = 1 PROVE EngineOf(i)'
    BY <1>0, <1>2, <2>1, <2>2, <2>3 DEF EngineOf
  <2> QED
    BY <2>1, <2>3, <1>1
<1>13. CASE server_round_3(i)
  <2>1. Uses(i) /\ (Moves(i, "failed") \/ Moves(i, "result"))
    BY <1>13 DEF server_round_3, Goto, Return, Moves
  <2> QED
    BY <2>1, <1>1
<1>14. CASE initClientVariables(i)
  <2>1. /\ Uses(i) /\ pc[i] = "ready" /\ UNCHANGED <<me, wants, friends>>
    BY <1>14 DEF initClientVariables
  <2>2. CASE friends = <<>>
    <3>1. Moves(i, "failed")
      BY <1>14, <2>2 DEF initClientVariables, Goto, Moves
    <3> QED
      BY <1>1, <2>1, <3>1
  <2>3. CASE friends # <<>>
    <3>1. /\ Moves(i, "vars") /\ nClient' = Len(friends) /\ nServer' = given'[i]
          /\ ts' = [k \in DOMAIN friends |-> NULL]
      BY <1>14, <2>3 DEF initClientVariables, Goto, Moves
    <3>2. pc'[i] = "vars" /\ Len(ts') = Len(friends)
      BY <3>1, <1>0 DEF Moves
    <3>3. ASSUME alone[i] = 1 PROVE EngineOf(i)'
      BY <1>0, <1>2, <2>1, <2>3, <3>1, <3>2, <3>3 DEF EngineOf
    <3> QED
      BY <2>1, <3>1, <3>3, <1>1
  <2> QED
    BY <2>2, <2>3
<1>15. CASE computeRs(i)
  <2>1. Uses(i) /\ pc[i] = "vars" /\ UNCHANGED <<me, friends, nServer, wants, given>>
    BY <1>15 DEF computeRs, session
  <2>2. CASE ~(nClient = Len(ts) /\ nClient <= Len(friends))
    <3>1. Moves(i, "failed")
      BY <1>15, <2>2 DEF computeRs, Goto, Moves
    <3> QED
      BY <1>1, <2>1, <3>1
  <2>3. CASE nClient = Len(ts) /\ nClient <= Len(friends)
    <3>1. Moves(i, "rs") /\ ts' = SubSeq(friends, 1, nClient)
      BY <1>15, <2>3 DEF computeRs, Goto, Moves
    <3>2. pc'[i] = "rs"
      BY <3>1, <1>0 DEF Moves
    <3>3. ASSUME alone[i] = 1 PROVE EngineOf(i)'
      <4>1. EngineOf(i)
        BY <1>2, <2>1, <3>3
      <4>2. nClient = Len(friends)
        BY <2>1, <4>1 DEF EngineOf
      <4>3. ts' = friends
        BY <3>1, <4>2, <1>0
      <4> QED
        BY <1>0, <2>1, <3>2, <4>1, <4>3 DEF EngineOf
    <3> QED
      BY <2>1, <3>1, <3>3, <1>1
  <2> QED
    BY <2>2, <2>3
<1>16. CASE calculateClientResponse(i)
  <2>1. Uses(i) /\ (Moves(i, "failed") \/ Moves(i, "answered"))
    BY <1>16 DEF calculateClientResponse, Goto, Moves
  <2> QED
    BY <2>1, <1>1
<1> QED
  BY <1>4, <1>5, <1>6, <1>7, <1>8, <1>9, <1>10, <1>11, <1>12, <1>13, <1>14, <1>15, <1>16 DEF Step

(* A finished session is left as it is. *)
LEMMA Finished ==
  ASSUME Types, NEW i \in Session, Step(i), NEW j \in Session \ {i}, pc'[j] \in Ended
  PROVE  pc'[j] = pc[j] /\ wants'[j] = wants[j] /\ alone'[j] = alone[j] /\ answer'[j] = answer[j]
<1>1. pc'[j] = pc[j]
  <2>1. PICK p \in Stages : Moves(i, p)
    BY StepMoves
  <2> QED
    BY <2>1 DEF Moves, Types
<1>2. alone'[j] = alone[j]
  <2>1. CASE Uses(i)
    BY <2>1, <1>1 DEF Uses, Types
  <2>2. CASE UNCHANGED alone
    BY <2>2
  <2> QED
    BY <2>1, <2>2, StepMoves
<1>3. /\ UNCHANGED wants \/ \E m : wants' = [wants EXCEPT ![i] = m]
      /\ UNCHANGED answer \/ \E a : answer' = [answer EXCEPT ![i] = a]
  BY DEF Step, loadMe, loadList, loadLocalFriends, newIntersection, setNumberOfServerFriends,
     server_round_1, server_round_2, PeerAnswers, setNumberOfClientFriends, server_round_3,
     initClientVariables, computeRs, calculateClientResponse, session
<1> QED
  BY <1>1, <1>2, <1>3 DEF Types

(* A check that ends gives no more than the common places, and just the     *)
(* common friends when it was alone.                                        *)
LEMMA ResultsStep ==
  ASSUME Types, AloneInv, NEW i \in Session, Step(i)
  PROVE  NoFalseFriends' /\ ExactWhenAlone'
<1>1. ASSUME NEW p, Goto(i, p) PROVE NoFalseFriends' /\ ExactWhenAlone'
  BY <1>1 DEF Goto, NoFalseFriends, ExactWhenAlone
<1>2. CASE server_round_3(i) /\ ~Goto(i, "failed")
  <2>1. PICK s, pick, other, tc, tsd, index : Result(i, s, pick, other, tc, tsd, index)
    BY <1>2, RoundThreeStep, Zenon
  <2>2. Credits(i, s)
    BY <2>1, ResultIs, Zenon
  <2>3. pc[i] = "final" /\ Uses(i) /\ UNCHANGED <<local, sent, wants>>
    BY <1>2 DEF server_round_3, session
  <2>4. alone'[i] = 1 => Undistorted(i)
    <3>1. alone'[i] = alone[i]
      BY <2>3 DEF Uses
    <3>2. ASSUME alone[i] = 1 PROVE EngineOf(i)
      BY <2>3, <3>2 DEF AloneInv, Undisturbed, Ended
    <3> QED
      BY <2>3, <3>1, <3>2 DEF EngineOf, Undistorted
  <2>5. NoFalseFriends'
    BY <2>2, <2>3, Zenon DEF NoFalseFriends, Credits
  <2>6. ExactWhenAlone'
    BY <2>2, <2>3, <2>4, Zenon DEF ExactWhenAlone, Credits
  <2> QED
    BY <2>5, <2>6
<1> QED
  BY <1>1, <1>2, StepMoves

(* An answer that no other session disturbs is whole, or there is none to   *)
(* give.                                                                    *)
LEMMA AnswersStep ==
  ASSUME Types, KindsInv, AloneInv, WholeAnswers, NEW i \in Session, Step(i)
  PROVE  WholeAnswers'
<1> SUFFICES ASSUME NEW j \in Asked, alone'[j] = 1, pc'[j] \in {"answered", "failed"}
             PROVE  /\ pc'[j] = "answered" => answer'[j] = List(wants'[j])
                    /\ pc'[j] = "failed" => local[wants'[j]] = {}
  BY StepMoves DEF WholeAnswers
<1>1. CASE j # i
  <2>1. j \in Session \ {i} /\ pc'[j] \in Ended
    BY <1>1, Sessions DEF Ended
  <2> QED
    BY <2>1, Finished DEF WholeAnswers
<1>2. CASE j = i
  <2>1. PICK p : Moves(i, p) /\ p = pc'[i]
    BY StepMoves DEF Moves, Types
  <2>2. pc'[i] \in {"answered", "failed"} /\ i \in Asked /\ i \notin Served
    BY <1>2, Sessions
  <2>3. initClientVariables(i) \/ computeRs(i) \/ calculateClientResponse(i)
    <3>1. pc[i] \notin {"round1", "round2", "holes", "sent", "reply", "final"}
      BY <2>2 DEF KindsInv
    <3> QED
      BY <2>1, <2>2, <3>1 DEF Types, Goto, Moves, Step, loadMe, loadList, loadLocalFriends, newIntersection,
         setNumberOfServerFriends, server_round_1, server_round_2, PeerAnswers, setNumberOfClientFriends,
         server_round_3
  <2>4. alone[i] = 1 /\ pc[i] \in {"ready", "vars", "rs"} /\ UNCHANGED wants /\ wants[i] \in Mode
    BY <1>2, <2>3 DEF initClientVariables, computeRs, calculateClientResponse, Uses, session, Types
  <2>5. EngineOf(i)
    BY <2>4 DEF AloneInv, Undisturbed, Ended
  <2>6. friends = List(wants[i]) /\ friends \in Seq(Entries)
    BY <2>4, <2>5 DEF EngineOf, Types
  <2>7. CASE initClientVariables(i)
    <3>1. friends = <<>> /\ pc'[i] = "failed"
      <4>1. ~Goto(i, "vars")
        BY <2>2 DEF Goto, Types
      <4> QED
        BY <4>1, <2>7, <2>2 DEF initClientVariables, Goto, Types
    <3>2. Cardinality(local[wants[i]]) = 0 /\ IsFiniteSet(local[wants[i]])
      BY <3>1, <2>4, <2>6, ListIs
    <3>3. local[wants[i]] = {}
      BY <3>2, FS_EmptySet
    <3> QED
      BY <1>2, <3>1, <3>3, <2>4
  <2>8. CASE computeRs(i)
    <3>1. pc[i] = "vars"
      BY <2>8 DEF computeRs
    <3>2. nClient = Len(ts) /\ nClient <= Len(friends)
      BY <3>1, <2>5, <2>6 DEF EngineOf
    <3>3. Goto(i, "rs")
      BY <3>2, <2>8 DEF computeRs
    <3> QED
      BY <3>3, <2>2 DEF Goto, Types
  <2>9. CASE calculateClientResponse(i)
    <3>1. pc[i] = "rs"
      BY <2>9 DEF calculateClientResponse
    <3>2. nServer = given[i] /\ ts = friends
      BY <3>1, <2>5 DEF EngineOf
    <3>3. Goto(i, "answered") /\ answer' = [answer EXCEPT ![i] = ts]
      BY <3>2, <2>9 DEF calculateClientResponse
    <3>4. pc'[i] = "answered" /\ answer'[i] = ts
      BY <3>3 DEF Goto, Types
    <3> QED
      BY <1>2, <3>2, <3>4, <2>4, <2>6
  <2> QED
    BY <2>3, <2>7, <2>8, <2>9
<1> QED
  BY <1>1, <1>2

-----------------------------------------------------------------------------
(* The engine's state from the first state on. *)
LEMMA IInvHolds == Spec => []IInv
<1>1. Init => IInv
  <2> SUFFICES ASSUME Init PROVE IInv
    OBVIOUS
  <2>1. Types
    <3>1. friends = <<>> /\ <<>> \in Seq(Entries) /\ others = <<>> /\ <<>> \in Seq(Value)
      BY DEF Init
    <3>2. MaxListed \in Nat /\ <<"id", <<>>>> \in Mode \X Seq(Entries)
      BY <3>1, FriendOfFriendAssumption DEF Mode
    <3> QED
      BY <3>1, <3>2 DEF Init, Types, Mode, Stages, Ended, NULL
  <2>2. SizesInv
    <3>1. /\ MaxFriends \in Nat /\ MaxListed \in Nat /\ Cardinality(Session) \in Nat /\ Cardinality(Loaded) \in Nat
      <4>1. Loaded \in SUBSET Session
        BY DEF Loaded
      <4> QED
        BY <4>1, Sessions, FriendOfFriendAssumption
    <3>2. MaxFriends * Cardinality(Loaded) \in Nat /\ Bound \in Nat
      BY <3>1, Times DEF Bound
    <3> QED
      BY <3>1, <3>2 DEF Init, SizesInv
  <2>3. KindsInv
    BY Sessions DEF Init, KindsInv
  <2>4. AloneInv /\ NoFalseFriends /\ ExactWhenAlone /\ WholeAnswers
    BY Sessions DEF Init, AloneInv, Undisturbed, Ended, NoFalseFriends, ExactWhenAlone, WholeAnswers
  <2> QED
    BY <2>1, <2>2, <2>3, <2>4 DEF IInv
<1>2. IInv /\ [Next]_vars => IInv'
  <2> SUFFICES ASSUME IInv, [Next]_vars PROVE IInv'
    OBVIOUS
  <2>0. /\ Types /\ SizesInv /\ KindsInv /\ AloneInv
        /\ NoFalseFriends /\ ExactWhenAlone /\ WholeAnswers
    BY DEF IInv
  <2>1. CASE Next
    <3>1. PICK i \in Session : Step(i)
      BY <2>1 DEF Next, Step
    <3> QED
      BY <2>0, <3>1, TypesStep, SizesStep, KindsStep, AloneStep, ResultsStep, AnswersStep DEF IInv
  <2>2. CASE UNCHANGED vars
    <3>1. Entries' = Entries /\ Loaded' = Loaded /\ \A m : List(m)' = List(m)
      BY <2>2 DEF vars, Entries, Loaded, List, Lines
    <3>2. \A i : (Undisturbed(i)' <=> Undisturbed(i)) /\ (EngineOf(i)' <=> EngineOf(i))
      BY <2>2, <3>1 DEF vars, engine, session, Undisturbed, EngineOf
    <3>3. Types' /\ SizesInv' /\ KindsInv'
      BY <2>0, <2>2, <3>1 DEF vars, engine, session, result, Types, SizesInv, KindsInv, Bound, Stages
    <3>4. AloneInv' /\ WholeAnswers'
      BY <2>0, <2>2, <3>1, <3>2 DEF vars, session, AloneInv, WholeAnswers
    <3>5. NoFalseFriends' /\ ExactWhenAlone'
      BY <2>0, <2>2, Zenon DEF vars, session, result, NoFalseFriends, ExactWhenAlone
    <3> QED
      BY <3>3, <3>4, <3>5 DEF IInv
  <2> QED
    BY <2>1, <2>2
<1> QED
  BY <1>1, <1>2, PTL DEF Spec

(* The engine's fields keep their types and bounds, and there is a key when *)
(* the answer to a check comes, for any number of sessions in the engine.   *)
THEOREM EngineTypes == Spec => []TypeOK
<1>1. IInv => TypeOK
  <2> SUFFICES ASSUME IInv PROVE TypeOK
    OBVIOUS
  <2>0. Types /\ SizesInv /\ KindsInv
    BY DEF IInv
  <2>1. /\ MaxFriends \in Nat /\ MaxListed \in Nat /\ Cardinality(Loaded) \in Nat /\ Cardinality(Session) \in Nat
        /\ Cardinality(Loaded) <= Cardinality(Session)
    <3>1. Loaded \in SUBSET Session
      BY DEF Loaded
    <3> QED
      BY <3>1, Sessions, FriendOfFriendAssumption
  <2>2. /\ MaxFriends * Cardinality(Loaded) <= Bound /\ Bound \in Nat
        /\ MaxFriends * Cardinality(Loaded) \in Nat
    BY <2>1, Times DEF Bound
  <2>3. Len(friends) \in Nat /\ \A k \in DOMAIN friends : friends[k] \in Mode \X Friend
    BY <2>0 DEF Types, Entries
  <2>4. /\ Len(friends) <= Bound /\ nServer \in 0..(MaxListed + Bound) /\ nClient \in 0..(MaxListed + Bound)
    BY <2>0, <2>1, <2>2, <2>3 DEF SizesInv, Types
  <2> QED
    BY <2>0, <2>3, <2>4 DEF TypeOK, Types, KindsInv, Bound, Stages
<1> QED
  BY <1>1, IInvHolds, PTL

(* However many handlers use the one engine at the same time, however their *)
(* calls interleave, and whatever the client's list holds, doubled or of    *)
(* another kind: finalServerStep credits no more friends than there are     *)
(* places of the client's list with a friend of the owner, and places of    *)
(* the list sent that the client names, and takes no client for a direct    *)
(* friend that does not name the owner.                                     *)
THEOREM NoneCredited == Spec => []NoFalseFriends
<1>1. IInv => NoFalseFriends
  BY DEF IInv
<1> QED
  BY <1>1, IInvHolds, PTL

(* The merge of server_round_3 counts the intersection exactly, for lists   *)
(* of any length, a doubled one of the client included, and any order of    *)
(* the digests, when no other session uses the engine during the check.     *)
THEOREM CountsExactly == Spec => []ExactWhenAlone
<1>1. IInv => ExactWhenAlone
  BY DEF IInv
<1> QED
  BY <1>1, IInvHolds, PTL

(* clientStep sends the phone's whole list, and fails only without friends, *)
(* when no other session uses the engine during the check.                  *)
THEOREM AnswersWhole == Spec => []WholeAnswers
<1>1. IInv => WholeAnswers
  BY DEF IInv
<1> QED
  BY <1>1, IInvHolds, PTL
=============================================================================

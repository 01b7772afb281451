--------------------------- MODULE CoapList_proofs ---------------------------
(***************************************************************************)
(* While packets are not handled in an interrupt, the linked list loses no *)
(* interaction and implements the queue of CoapSchedule.                   *)
(*                                                                         *)
(* The walk along the pointers is shown to be the list that is linked      *)
(* there; the invariant says, for each statement that may come next, which *)
(* list is linked and what the program still has to do.                    *)
(***************************************************************************)
EXTENDS CoapList, FiniteSetTheorems, SequenceTheorems, WellFoundedInduction, TLAPS

LEMMA Induction ==
    ASSUME NEW N \in Nat, NEW S, 0 \in S, \A n \in 0 .. N - 1 : n \in S => n + 1 \in S
    PROVE  \A n \in 0 .. N : n \in S
<1> SUFFICES ASSUME \E n \in 0 .. N : n \notin S PROVE FALSE
  OBVIOUS
<1> DEFINE T == {n \in 0 .. N : n \notin S}
<1>1. T \subseteq Nat /\ T # {}
  OBVIOUS
<1>2. PICK x \in T : \A y \in T : ~(<<y, x>> \in OpToRel(<, Nat))
  BY <1>1, WFMin, NatLessThanWellFounded
<1>3. x \in 1 .. N
  OBVIOUS
<1>4. x - 1 \notin T
  <2>1. <<x - 1, x>> \in Nat \X Nat /\ x - 1 < x
    BY <1>3
  <2>2. <<x - 1, x>> \in OpToRel(<, Nat)
    BY <2>1, Zenon DEF OpToRel
  <2> QED BY <1>2, <2>2
<1>5. x - 1 \in 0 .. N - 1 /\ x - 1 \in S /\ (x - 1) + 1 = x
  BY <1>3, <1>4
<1>6. x \in S
  BY <1>5
<1> QED BY <1>6

\* The function Walk is built from.
Follows(from, N, nx) ==
    from = [n \in 0 .. N |->
              [a \in Pointers |-> IF n = 0 \/ a = NULL THEN <<>>
                                  ELSE <<a>> \o from[n - 1][nx[a]]]]

LEMMA FollowsExists ==
    ASSUME NEW N \in Nat, NEW nx \in [Blocks -> Pointers]
    PROVE  \E from : Follows(from, N, nx)
<1> DEFINE S == {n \in 0 .. N : \E from : Follows(from, n, nx)}
<1>1. 0 \in S
  <2>1. Follows([n \in 0 .. 0 |-> [a \in Pointers |-> <<>>]], 0, nx)
    BY DEF Follows
  <2> QED BY <2>1
<1>2. ASSUME NEW m \in 0 .. N - 1, m \in S PROVE m + 1 \in S
  <2>1. PICK g : Follows(g, m, nx)
    BY <1>2
  <2> DEFINE f == [n \in 0 .. m + 1 |->
                     IF n <= m THEN g[n]
                     ELSE [a \in Pointers |-> IF a = NULL THEN <<>> ELSE <<a>> \o g[m][nx[a]]]]
  <2>2. Follows(f, m + 1, nx)
    <3> DEFINE v(n) == [a \in Pointers |-> IF n = 0 \/ a = NULL THEN <<>>
                                           ELSE <<a>> \o f[n - 1][nx[a]]]
    <3>1. ASSUME NEW n \in 0 .. m + 1
          PROVE  f[n] = v(n)
      <4>1. CASE n = m + 1
        <5>1. m \in 0 .. m + 1 /\ ~(m + 1 <= m) /\ m <= m /\ n - 1 = m /\ n # 0
          BY <4>1
        <5>2. f[m] = g[m]
          BY <5>1
        <5>3. f[n] = [a \in Pointers |-> IF a = NULL THEN <<>> ELSE <<a>> \o g[m][nx[a]]]
          BY <4>1, <5>1
        <5> HIDE DEF f
        <5> QED BY <5>1, <5>2, <5>3
      <4>2. CASE n \in 0 .. m
        <5>1. g[n] = [a \in Pointers |-> IF n = 0 \/ a = NULL THEN <<>>
                                          ELSE <<a>> \o g[n - 1][nx[a]]]
          BY <2>1, <4>2 DEF Follows
        <5>2. f[n] = g[n] /\ (n # 0 => f[n - 1] = g[n - 1])
          BY <4>2
        <5> HIDE DEF f
        <5>3. CASE n = 0
          BY <5>1, <5>2, <5>3
        <5>4. CASE n # 0
          BY <5>1, <5>2, <5>4
        <5> QED BY <5>3, <5>4
      <4> HIDE DEF f, v
      <4>3. n = m + 1 \/ n \in 0 .. m
        OBVIOUS
      <4> QED BY <4>1, <4>2, <4>3
    <3>2. f = [n \in 0 .. m + 1 |-> f[n]]
      OBVIOUS
    <3> HIDE DEF f
    <3> QED BY <3>1, <3>2 DEF Follows
  <2> HIDE DEF f
  <2> QED BY <1>2, <2>2
<1>3. \A n \in 0 .. N : n \in S
  <2> HIDE DEF S
  <2> QED BY <1>1, <1>2, Induction
<1> QED BY <1>3

Walked(h, nx) ==
    LET from[n \in 0 .. Cardinality(Blocks)] ==
            [a \in Pointers |-> IF n = 0 \/ a = NULL THEN <<>>
                                ELSE <<a>> \o from[n - 1][nx[a]]]
    IN  from[Cardinality(Blocks)][h]

LEMMA WalkedFollows ==
    ASSUME NEW h, NEW nx \in [Blocks -> Pointers]
    PROVE  \E from : Follows(from, Cardinality(Blocks), nx) /\ Walked(h, nx) = from[Cardinality(Blocks)][h]
<1>1. Cardinality(Blocks) \in Nat
  BY BlocksAssumption, FS_CardinalityType
<1>2. \E from : Follows(from, Cardinality(Blocks), nx)
  BY <1>1, FollowsExists
<1> DEFINE f == CHOOSE from : Follows(from, Cardinality(Blocks), nx)
<1>3. Follows(f, Cardinality(Blocks), nx)
  BY <1>2
<1>4. Walked(h, nx) = f[Cardinality(Blocks)][h]
  BY Zenon DEF Walked, Follows
<1> QED BY <1>3, <1>4

LEMMA WalkIsWalked == Walk = Walked(head, next) /\ Walk' = Walked(head', next')
BY DEF Walk, Walked

-----------------------------------------------------------------------------
(* Lists *)

\* The blocks of L are linked in this order, from the head h on; only the end
\* may still be open.
Chain(L, h, nx) ==
    /\ L \in Seq(Blocks)
    /\ \A j, k \in DOMAIN L : L[j] = L[k] => j = k
    /\ h = IF L = <<>> THEN NULL ELSE L[1]
    /\ \A k \in 1 .. Len(L) - 1 : nx[L[k]] = L[k + 1]

Closed(L, nx) == L # <<>> => nx[L[Len(L)]] = NULL

At(L, i) == IF i \in DOMAIN L THEN L[i] ELSE NULL

LEMMA ChainIsShort ==
    ASSUME NEW L, NEW h, NEW nx, Chain(L, h, nx)
    PROVE  Len(L) \in 0 .. Cardinality(Blocks)
<1>1. L \in Seq(Blocks) /\ Len(L) \in Nat /\ DOMAIN L = 1 .. Len(L)
  BY DEF Chain
<1>2. IsFiniteSet(1 .. Len(L)) /\ Cardinality(1 .. Len(L)) = Len(L)
  BY <1>1, FS_Interval
<1>3. L \in Injection(1 .. Len(L), Blocks)
  BY <1>1 DEF Chain, Injection, IsInjective
<1>4. Cardinality(1 .. Len(L)) <= Cardinality(Blocks)
  BY <1>3, BlocksAssumption, FS_Injection
<1> QED BY <1>1, <1>2, <1>4, BlocksAssumption, FS_CardinalityType

\* The walk along a list is that list.
LEMMA WalkIsChain ==
    ASSUME NEW L, NEW h, NEW nx \in [Blocks -> Pointers], Chain(L, h, nx), Closed(L, nx)
    PROVE  Walked(h, nx) = L
<1> DEFINE N == Cardinality(Blocks)
           n0 == Len(L)
<1>1. PICK f : Follows(f, N, nx) /\ Walked(h, nx) = f[N][h]
  BY WalkedFollows
<1>2. N \in Nat /\ n0 \in 0 .. N /\ DOMAIN L = 1 .. n0 /\ L \in Seq(Blocks)
  BY BlocksAssumption, FS_CardinalityType, ChainIsShort DEF Chain
<1> HIDE DEF N
<1>3. /\ \A n \in 0 .. N : f[n][NULL] = <<>>
      /\ \A n \in 0 .. N - 1 : \A b \in Blocks : f[n + 1][b] = <<b>> \o f[n][nx[b]]
  <2>1. ASSUME NEW n \in 0 .. N, NEW a \in Pointers
        PROVE  f[n][a] = IF n = 0 \/ a = NULL THEN <<>> ELSE <<a>> \o f[n - 1][nx[a]]
    <3>1. f[n] = [b \in Pointers |-> IF n = 0 \/ b = NULL THEN <<>>
                                      ELSE <<b>> \o f[n - 1][nx[b]]]
      BY <1>1 DEF Follows
    <3> QED BY <3>1
  <2>2. NULL \in Pointers /\ \A b \in Blocks : b \in Pointers /\ b # NULL
    BY BlocksAssumption DEF Pointers
  <2>3. ASSUME NEW n \in 0 .. N - 1, NEW b \in Blocks
        PROVE  f[n + 1][b] = <<b>> \o f[n][nx[b]]
    <3>1. n + 1 \in 0 .. N /\ n + 1 # 0 /\ (n + 1) - 1 = n
      BY <1>2
    <3>2. f[n + 1][b] = <<b>> \o f[(n + 1) - 1][nx[b]]
      BY <2>1, <2>2, <3>1
    <3> QED BY <3>1, <3>2
  <2> QED BY <2>1, <2>2, <2>3
<1> DEFINE S == {n \in 0 .. N : \A i \in 1 .. n0 + 1 :
                    n0 + 1 - i <= n => f[n][At(L, i)] = SubSeq(L, i, n0)}
<1>4. 0 \in S
  <2> SUFFICES ASSUME NEW i \in 1 .. n0 + 1, n0 + 1 - i <= 0
               PROVE  f[0][At(L, i)] = SubSeq(L, i, n0)
    BY <1>2
  <2>1. i = n0 + 1
    BY <1>2
  <2>2. At(L, i) = NULL /\ SubSeq(L, i, n0) = <<>>
    BY <1>2, <2>1 DEF At
  <2> QED BY <1>2, <1>3, <2>2
<1>5. ASSUME NEW m \in 0 .. N - 1, m \in S PROVE m + 1 \in S
  <2> SUFFICES ASSUME NEW i \in 1 .. n0 + 1, n0 + 1 - i <= m + 1
               PROVE  f[m + 1][At(L, i)] = SubSeq(L, i, n0)
    BY <1>2
  <2>1. CASE i = n0 + 1
    <3>1. At(L, i) = NULL /\ SubSeq(L, i, n0) = <<>>
      BY <1>2, <2>1 DEF At
    <3>2. m + 1 \in 0 .. N
      BY <1>2
    <3> QED BY <1>3, <3>1, <3>2
  <2>2. CASE i \in 1 .. n0
    <3>1. At(L, i) = L[i] /\ L[i] \in Blocks /\ L[i] # NULL
      BY <1>2, <2>2, BlocksAssumption DEF At
    <3>2. nx[L[i]] = At(L, i + 1)
      BY <1>2, <2>2 DEF Chain, Closed, At
    <3>3. f[m + 1][L[i]] = <<L[i]>> \o f[m][At(L, i + 1)]
      BY <1>3, <3>1, <3>2
    <3>4. f[m][At(L, i + 1)] = SubSeq(L, i + 1, n0)
      <4>1. i + 1 \in 1 .. n0 + 1 /\ n0 + 1 - (i + 1) <= m
        BY <1>2, <2>2
      <4> QED BY <1>5, <4>1
    <3>5. <<L[i]>> \o SubSeq(L, i + 1, n0) = SubSeq(L, i, n0)
      BY <1>2, <2>2
    <3> QED BY <3>1, <3>3, <3>4, <3>5
  <2> QED BY <1>2, <2>1, <2>2
<1>6. N \in S
  <2> HIDE DEF S
  <2>1. \A n \in 0 .. N : n \in S
    BY <1>2, <1>4, <1>5, Induction
  <2> QED BY <1>2, <2>1
<1>7. h = At(L, 1) /\ SubSeq(L, 1, n0) = L
  BY <1>2 DEF Chain, At
<1>8. f[N][At(L, 1)] = SubSeq(L, 1, n0)
  BY <1>2, <1>6
<1> QED BY <1>1, <1>7, <1>8

\* The head is skipped.
LEMMA SkipChain ==
    ASSUME NEW L, NEW h, NEW nx \in [Blocks -> Pointers], Chain(L, h, nx), Closed(L, nx), L # <<>>
    PROVE  /\ Chain(Tail(L), nx[L[1]], nx) /\ Closed(Tail(L), nx)
           /\ h = L[1] /\ L[1] \in Blocks /\ L[1] \notin ToSet(Tail(L))
           /\ ToSet(L) = ToSet(Tail(L)) \cup {L[1]}
<1> DEFINE t == Tail(L)
<1>1. /\ L \in Seq(Blocks) /\ t \in Seq(Blocks) /\ Len(L) \in Nat \ {0} /\ Len(t) = Len(L) - 1
      /\ DOMAIN L = 1 .. Len(L) /\ DOMAIN t = 1 .. Len(L) - 1
      /\ \A k \in DOMAIN t : k + 1 \in DOMAIN L /\ t[k] = L[k + 1]
      /\ \A k \in DOMAIN L : k = 1 \/ (k - 1 \in DOMAIN t /\ t[k - 1] = L[k])
      /\ 1 \in DOMAIN L
  BY DEF Chain
<1> HIDE DEF t
<1> DEFINE Once == \A j, k \in DOMAIN L : L[j] = L[k] => j = k
           Links == \A k \in 1 .. Len(L) - 1 : nx[L[k]] = L[k + 1]
<1>c. Once /\ Links /\ h = L[1]
  BY DEF Chain
<1>2. L[1] \notin ToSet(t) /\ ToSet(L) = ToSet(t) \cup {L[1]}
  <2>1. ASSUME NEW k \in DOMAIN t PROVE L[1] # t[k] /\ t[k] \in ToSet(L)
    <3>1. k + 1 \in DOMAIN L /\ 1 \in DOMAIN L /\ k + 1 # 1 /\ t[k] = L[k + 1]
      BY <1>1
    <3> QED BY <1>c, <3>1 DEF ToSet
  <2>2. ASSUME NEW k \in DOMAIN L PROVE L[k] \in ToSet(t) \cup {L[1]}
    BY <1>1 DEF ToSet
  <2>3. L[1] \in ToSet(L)
    BY <1>1 DEF ToSet
  <2>4. L[1] \notin ToSet(t) /\ ToSet(t) \subseteq ToSet(L)
    BY <2>1 DEF ToSet
  <2>5. ToSet(L) \subseteq ToSet(t) \cup {L[1]}
    BY <2>2 DEF ToSet
  <2> QED BY <2>3, <2>4, <2>5
<1>3. ASSUME NEW j \in DOMAIN t, NEW k \in DOMAIN t, t[j] = t[k] PROVE j = k
  <2>1. j + 1 \in DOMAIN L /\ k + 1 \in DOMAIN L /\ L[j + 1] = L[k + 1]
    BY <1>1, <1>3
  <2>2. j + 1 = k + 1
    BY <1>c, <2>1
  <2> QED BY <1>1, <2>2
<1>4. ASSUME NEW k \in 1 .. Len(t) - 1 PROVE nx[t[k]] = t[k + 1]
  <2>1. k + 1 \in 1 .. Len(L) - 1 /\ t[k] = L[k + 1] /\ t[k + 1] = L[(k + 1) + 1]
    <3>1. k \in DOMAIN t /\ k + 1 \in DOMAIN t
      BY <1>1
    <3> QED BY <1>1, <3>1
  <2> QED BY <1>c, <2>1
<1>5. CASE Len(L) = 1
  <2>1. t = <<>>
    BY <1>1, <1>5
  <2>2. nx[L[1]] = NULL
    BY <1>5 DEF Closed
  <2> QED BY <1>1, <1>2, <1>3, <1>4, <2>1, <2>2 DEF Chain, Closed, t
<1>6. CASE Len(L) # 1
  <2>1. t # <<>> /\ nx[L[1]] = t[1] /\ t[Len(t)] = L[Len(L)]
    BY <1>1, <1>6 DEF Chain
  <2>2. h = L[1]
    BY DEF Chain
  <2>3. Closed(t, nx)
    BY <2>1 DEF Closed
  <2>4. Chain(t, nx[L[1]], nx)
    BY <1>1, <1>3, <1>4, <2>1 DEF Chain
  <2> QED BY <1>1, <1>2, <2>2, <2>3, <2>4 DEF t
<1> QED BY <1>5, <1>6

LEMMA RemoveAtIs ==
    ASSUME NEW T, NEW L \in Seq(T), NEW k \in 1 .. Len(L)
    PROVE  /\ RemoveAt(L, k) \in Seq(T) /\ Len(RemoveAt(L, k)) = Len(L) - 1
           /\ \A i \in 1 .. Len(L) - 1 : RemoveAt(L, k)[i] = IF i < k THEN L[i] ELSE L[i + 1]
<1> DEFINE p == SubSeq(L, 1, k - 1)
           q == SubSeq(L, k + 1, Len(L))
           n == Len(L)
<1>1. n \in Nat /\ k \in 1 .. n
  OBVIOUS
<1>2. /\ p \in Seq(T) /\ Len(p) = k - 1 /\ \A i \in 1 .. k - 1 : p[i] = L[i]
      /\ q \in Seq(T) /\ Len(q) = n - k /\ \A i \in 1 .. n - k : q[i] = L[k + i]
  BY SubSeqProperties
<1> HIDE DEF p, q, n
<1>3. /\ p \o q \in Seq(T) /\ Len(p \o q) = n - 1
      /\ \A i \in 1 .. n - 1 : (p \o q)[i] = IF i < k THEN p[i] ELSE q[i - (k - 1)]
  <2>1. /\ p \o q \in Seq(T) /\ Len(p \o q) = Len(p) + Len(q)
        /\ \A i \in 1 .. Len(p) + Len(q) : (p \o q)[i] = IF i <= Len(p) THEN p[i] ELSE q[i - Len(p)]
    BY <1>2, ConcatProperties
  <2>2. Len(p) + Len(q) = n - 1
    BY <1>1, <1>2
  <2>3. ASSUME NEW i \in 1 .. n - 1 PROVE i <= Len(p) <=> i < k
    BY <1>1, <1>2
  <2> QED BY <1>2, <2>1, <2>2, <2>3
<1>4. ASSUME NEW i \in 1 .. n - 1 PROVE (p \o q)[i] = IF i < k THEN L[i] ELSE L[i + 1]
  <2>1. CASE i < k
    <3>1. i \in 1 .. k - 1
      BY <1>1, <2>1
    <3> QED BY <1>2, <1>3, <2>1, <3>1
  <2>2. CASE ~(i < k)
    <3>1. i - (k - 1) \in 1 .. n - k /\ k + (i - (k - 1)) = i + 1
      BY <1>1, <2>2
    <3> QED BY <1>2, <1>3, <2>2, <3>1
  <2> QED BY <2>1, <2>2
<1>5. RemoveAt(L, k) = p \o q
  BY DEF RemoveAt, p, q
<1> QED BY <1>3, <1>4, <1>5 DEF n

\* A block behind the head is skipped.
SkipsTo(L, k, h, nx, n2) ==
    n2 = [nx EXCEPT ![L[k - 1]] = nx[L[k]]]
        => Chain(RemoveAt(L, k), h, n2) /\ Closed(RemoveAt(L, k), n2)

OnlyLink(L, k, nx) == \A p \in ToSet(L) : nx[p] = L[k] => p = L[k - 1]

LEMMA SkipMiddle ==
    ASSUME NEW L, NEW h, NEW nx \in [Blocks -> Pointers], Chain(L, h, nx), Closed(L, nx),
           NEW k \in 2 .. Len(L)
    PROVE  (\A n2 : SkipsTo(L, k, h, nx, n2)) /\ OnlyLink(L, k, nx)
<1> DEFINE M == RemoveAt(L, k)
           n2 == [nx EXCEPT ![L[k - 1]] = nx[L[k]]]
           n == Len(L)
           Once == \A j, i \in 1 .. n : L[j] = L[i] => j = i
           Links == \A i \in 1 .. n - 1 : nx[L[i]] = L[i + 1]
<1>1. L \in Seq(Blocks) /\ n \in Nat /\ k \in 2 .. n /\ DOMAIN L = 1 .. n
      /\ \A i \in 1 .. n : L[i] \in Blocks
  BY DEF Chain
<1>2. Once /\ Links /\ h = L[1] /\ nx[L[n]] = NULL
  <2>1. L # <<>>
    BY <1>1
  <2> QED BY <1>1, <2>1 DEF Chain, Closed
<1>3. M \in Seq(Blocks) /\ Len(M) = n - 1 /\ DOMAIN M = 1 .. n - 1
      /\ \A i \in 1 .. n - 1 : M[i] = IF i < k THEN L[i] ELSE L[i + 1]
  <2>1. k \in 1 .. Len(L)
    BY <1>1
  <2>2. M \in Seq(Blocks) /\ Len(M) = n - 1
        /\ \A i \in 1 .. n - 1 : M[i] = IF i < k THEN L[i] ELSE L[i + 1]
    BY <1>1, <2>1, RemoveAtIs, Zenon
  <2> HIDE DEF M
  <2> QED BY <1>1, <2>2
<1>4. n2 = [nx EXCEPT ![L[k - 1]] = nx[L[k]]] /\ ToSet(L) = {L[i] : i \in 1 .. n}
  BY <1>1 DEF ToSet
<1>5. \A i \in 1 .. n : n2[L[i]] = IF i = k - 1 THEN nx[L[k]] ELSE nx[L[i]]
  <2>1. k - 1 \in 1 .. n
    BY <1>1
  <2> HIDE DEF n2
  <2> QED BY <1>1, <1>2, <1>4, <2>1
<1> HIDE DEF M, n2, n
<1>6. ASSUME NEW i \in 1 .. (n - 1) - 1 PROVE n2[M[i]] = M[i + 1]
  <2>1. i \in 1 .. n - 1 /\ i + 1 \in 1 .. n - 1 /\ i \in 1 .. n /\ i + 1 \in 1 .. n
        /\ (i + 1) + 1 \in 1 .. n /\ i \in Nat /\ k \in Nat
    BY <1>1
  <2>2. M[i] = (IF i < k THEN L[i] ELSE L[i + 1])
        /\ M[i + 1] = (IF i + 1 < k THEN L[i + 1] ELSE L[(i + 1) + 1])
    BY <1>3, <2>1
  <2>3. nx[L[i]] = L[i + 1] /\ nx[L[i + 1]] = L[(i + 1) + 1]
    BY <1>2, <2>1
  <2>4. CASE i + 1 < k
    <3>1. i < k /\ i # k - 1
      BY <2>1, <2>4
    <3> QED BY <1>5, <2>1, <2>2, <2>3, <2>4, <3>1
  <2>5. CASE i + 1 = k
    <3>1. i < k /\ ~(i + 1 < k) /\ i = k - 1
      BY <2>1, <2>5
    <3>2. n2[L[i]] = nx[L[i + 1]]
      BY <1>5, <2>1, <2>5, <3>1
    <3> QED BY <2>2, <2>3, <3>1, <3>2
  <2>6. CASE i + 1 > k
    <3>1. ~(i < k) /\ ~(i + 1 < k) /\ i + 1 # k - 1
      BY <2>1, <2>6
    <3> QED BY <1>5, <2>1, <2>2, <2>3, <3>1
  <2> QED BY <2>1, <2>4, <2>5, <2>6
<1>7. n2[M[n - 1]] = NULL /\ M # <<>> /\ M[1] = L[1]
  <2>1. n - 1 \in 1 .. n - 1 /\ 1 \in 1 .. n - 1 /\ 1 < k /\ n \in 1 .. n /\ n - 1 \in 1 .. n
        /\ (n - 1) + 1 = n /\ n # k - 1
    BY <1>1
  <2>2. M # <<>> /\ M[1] = L[1]
    BY <1>3, <2>1
  <2>3. CASE k = n
    <3>1. n - 1 < k /\ n - 1 = k - 1
      BY <1>1, <2>3
    <3>2. M[n - 1] = L[n - 1] /\ n2[L[n - 1]] = nx[L[n]]
      BY <1>3, <1>5, <2>1, <2>3, <3>1
    <3> QED BY <1>2, <2>2, <3>2
  <2>4. CASE k # n
    <3>1. ~(n - 1 < k)
      BY <1>1, <2>4
    <3>2. M[n - 1] = L[n] /\ n2[L[n]] = nx[L[n]]
      BY <1>3, <1>5, <2>1, <3>1
    <3> QED BY <1>2, <2>2, <3>2
  <2> QED BY <2>3, <2>4
<1>8. ASSUME NEW j \in DOMAIN M, NEW i \in DOMAIN M, M[j] = M[i] PROVE j = i
  <2>1. j \in 1 .. n - 1 /\ i \in 1 .. n - 1
    BY <1>3
  <2>2. PICK a \in 1 .. n : M[j] = L[a] /\ a = IF j < k THEN j ELSE j + 1
    BY <1>1, <1>3, <2>1
  <2>3. PICK c \in 1 .. n : M[i] = L[c] /\ c = IF i < k THEN i ELSE i + 1
    BY <1>1, <1>3, <2>1
  <2>4. a = c
    BY <1>2, <1>8, <2>2, <2>3
  <2> QED BY <1>1, <2>1, <2>2, <2>3, <2>4
<1>9. Chain(M, h, n2) /\ Closed(M, n2)
  BY <1>2, <1>3, <1>6, <1>7, <1>8 DEF Chain, Closed
<1>10. ASSUME NEW p \in ToSet(L), nx[p] = L[k] PROVE p = L[k - 1]
  <2>1. PICK i \in 1 .. n : p = L[i]
    BY <1>4
  <2>2. k \in 1 .. n /\ L[k] # NULL
    BY <1>1, BlocksAssumption
  <2>3. i # n
    BY <1>2, <1>10, <2>1, <2>2
  <2>4. i \in 1 .. n - 1 /\ i + 1 \in 1 .. n
    BY <1>1, <2>3
  <2>5. L[i + 1] = L[k]
    BY <1>2, <1>10, <2>1, <2>4
  <2>6. i + 1 = k
    BY <1>2, <2>2, <2>4, <2>5
  <2>7. i = k - 1
    BY <1>1, <2>6
  <2> QED BY <2>1, <2>7
<1>11. \A m2 : SkipsTo(L, k, h, nx, m2)
  BY <1>9, Zenon DEF M, n2, SkipsTo
<1>12. OnlyLink(L, k, nx)
  BY <1>10, Zenon DEF OnlyLink
<1> QED BY <1>11, <1>12

EndOf(R) == IF R = <<>> THEN NULL ELSE R[Len(R)]

\* A block is linked behind the last one.
LEMMA LinkChain ==
    ASSUME NEW R, NEW h, NEW nx \in [Blocks -> Pointers], Chain(R, h, nx), Closed(R, nx),
           NEW b \in Blocks, b \notin ToSet(R)
    PROVE  /\ EndOf(R) = NULL => R = <<>> /\ Chain(Append(R, b), b, nx)
           /\ EndOf(R) # NULL =>
                R # <<>> /\ EndOf(R) \in Blocks
                    /\ Chain(Append(R, b), h, [nx EXCEPT ![EndOf(R)] = b])
<1> DEFINE a == Append(R, b)
<1>1. /\ R \in Seq(Blocks) /\ a \in Seq(Blocks) /\ Len(R) \in Nat /\ Len(a) = Len(R) + 1
      /\ DOMAIN R = 1 .. Len(R) /\ DOMAIN a = 1 .. Len(R) + 1
      /\ \A k \in DOMAIN R : a[k] = R[k] /\ R[k] # b /\ R[k] \in Blocks
      /\ a[Len(R) + 1] = b /\ a # <<>>
  <2>1. R \in Seq(Blocks) /\ \A k \in DOMAIN R : R[k] # b
    BY DEF Chain, ToSet
  <2> QED BY <2>1
<1> HIDE DEF a
<1>2. \A j, k \in DOMAIN a : a[j] = a[k] => j = k
  <2>1. \A k \in DOMAIN a : k \in DOMAIN R \/ k = Len(R) + 1
    BY <1>1
  <2> QED BY <1>1, <2>1 DEF Chain
<1>3. CASE R = <<>>
  <2>1. Len(a) = 1 /\ a[1] = b /\ EndOf(R) = NULL
    BY <1>1, <1>3 DEF EndOf
  <2> QED BY <1>1, <1>2, <1>3, <2>1 DEF Chain, a
<1>4. CASE R # <<>>
  <2>1. Len(R) \in DOMAIN R /\ 1 \in DOMAIN R /\ EndOf(R) = R[Len(R)]
    BY <1>1, <1>4 DEF EndOf
  <2>2. EndOf(R) \in Blocks /\ EndOf(R) # NULL
    BY <1>1, <2>1, BlocksAssumption
  <2> DEFINE n2 == [nx EXCEPT ![EndOf(R)] = b]
  <2>3. ASSUME NEW k \in 1 .. Len(a) - 1 PROVE n2[a[k]] = a[k + 1]
    <3>1. k \in DOMAIN R /\ a[k] = R[k] /\ R[k] \in Blocks
      BY <1>1
    <3>2. CASE k = Len(R)
      BY <1>1, <2>1, <3>1, <3>2
    <3>3. CASE k # Len(R)
      <4>1. k \in 1 .. Len(R) - 1 /\ k + 1 \in DOMAIN R
        BY <1>1, <3>1, <3>3
      <4>2. R[k] # EndOf(R) /\ nx[R[k]] = R[k + 1]
        BY <2>1, <3>1, <3>3, <4>1 DEF Chain
      <4> QED BY <1>1, <3>1, <4>1, <4>2
    <3> QED BY <3>2, <3>3
  <2>4. h = a[1]
    BY <1>1, <1>4, <2>1 DEF Chain
  <2> HIDE DEF n2
  <2>5. Chain(a, h, n2)
    BY <1>1, <1>2, <2>3, <2>4 DEF Chain
  <2> QED BY <1>4, <2>2, <2>5 DEF a, n2
<1> QED BY <1>3, <1>4

\* A link that is not used, or that of the last block, is cleared.
LEMMA ClearChain ==
    ASSUME NEW L, NEW h, NEW nx \in [Blocks -> Pointers], Chain(L, h, nx), NEW b \in Blocks,
           b \in ToSet(L) => b = L[Len(L)]
    PROVE  /\ Chain(L, h, [nx EXCEPT ![b] = NULL])
           /\ b \in ToSet(L) \/ Closed(L, nx) => Closed(L, [nx EXCEPT ![b] = NULL])
<1>1. L \in Seq(Blocks) /\ Len(L) \in Nat /\ DOMAIN L = 1 .. Len(L)
      /\ \A k \in DOMAIN L : L[k] \in ToSet(L) /\ L[k] \in Blocks
  BY DEF Chain, ToSet
<1>2. ASSUME NEW k \in 1 .. Len(L) - 1 PROVE L[k] # b
  <2>1. k \in DOMAIN L /\ Len(L) \in DOMAIN L /\ k # Len(L)
    <3>1. Len(L) \in Nat /\ DOMAIN L = 1 .. Len(L)
      BY <1>1
    <3> DEFINE m == Len(L)
    <3>2. m \in Nat /\ k \in 1 .. m - 1
      BY <3>1
    <3> HIDE DEF m
    <3>3. k \in 1 .. m /\ m \in 1 .. m /\ k # m
      BY <3>2
    <3> QED BY <3>1, <3>3 DEF m
  <2>2. L[k] # L[Len(L)]
    BY <2>1 DEF Chain
  <2> QED BY <1>1, <2>1, <2>2
<1>3. Chain(L, h, [nx EXCEPT ![b] = NULL])
  <2>1. ASSUME NEW k \in 1 .. Len(L) - 1 PROVE [nx EXCEPT ![b] = NULL][L[k]] = L[k + 1]
    <3>1. L[k] # b /\ L[k] \in Blocks
      BY <1>1, <1>2
    <3>2. nx[L[k]] = L[k + 1]
      BY DEF Chain
    <3> QED BY <3>1, <3>2
  <2> QED BY <2>1 DEF Chain
<1>4. b \in ToSet(L) \/ Closed(L, nx) => Closed(L, [nx EXCEPT ![b] = NULL])
  BY <1>1 DEF Closed
<1> QED BY <1>3, <1>4

LEMMA AppendSet ==
    ASSUME NEW R \in Seq(Blocks), NEW b \in Blocks
    PROVE  /\ ToSet(Append(R, b)) = ToSet(R) \cup {b}
           /\ Append(R, b) # <<>> /\ Append(R, b)[Len(Append(R, b))] = b
           /\ Append(R, b)[1] = IF R = <<>> THEN b ELSE R[1]
<1>1. /\ Len(R) \in Nat /\ DOMAIN R = 1 .. Len(R) /\ DOMAIN Append(R, b) = 1 .. Len(R) + 1
      /\ \A k \in DOMAIN R : Append(R, b)[k] = R[k]
      /\ Append(R, b)[Len(R) + 1] = b /\ Len(Append(R, b)) = Len(R) + 1
  OBVIOUS
<1>2. ToSet(Append(R, b)) = ToSet(R) \cup {b}
  <2>1. \A k \in DOMAIN Append(R, b) : k \in DOMAIN R \/ k = Len(R) + 1
    BY <1>1
  <2>2. Len(R) + 1 \in DOMAIN Append(R, b) /\ \A k \in DOMAIN R : k \in DOMAIN Append(R, b)
    BY <1>1
  <2> QED BY <1>1, <2>1, <2>2 DEF ToSet
<1> QED BY <1>1, <1>2

-----------------------------------------------------------------------------
(* The inductive invariant.  While packets are not handled in an interrupt,  *)
(* an operation on the list runs to its end, and what is left of the program *)
(* is one of a few forms.                                                    *)

TypeList ==
    /\ head \in Pointers
    /\ next \in [Blocks -> Pointers]
    /\ live \subseteq Blocks
    /\ sleepUntil \in [Blocks -> Nat]
    /\ clock \in Nat
    /\ serving \in Pointers

Lists == {L \in Seq(Blocks) : \A j, k \in DOMAIN L : L[j] = L[k] => j = k}

\* The interactions that are awake; one that was served stays so.
AwakeNow == {b \in Blocks : sleepUntil[b] < clock}

\* What is left behind a "start" of RespCB or of a handler, and behind any other
\* statement, when the list is L and the blocks of W are awake.  The first
\* interaction is moved; or one that was served is deleted, and if it is still in
\* the list it is the first; or another one is deleted before either.
Moves(L) == {MoveOf(b) : b \in {x \in Blocks : L # <<>> /\ L[1] = x}}

Others(L, W) == {x \in Blocks : L # <<>> /\ L[1] \in W /\ L[1] # x}

Aborts(L, W) ==
    {DeleteOf(v) \o MoveOf(L[1]) : v \in Others(L, W)}
        \cup {DeleteOf(v) \o DeleteOf(L[1]) : v \in Others(L, W)}

AfterStart(L, W) ==
    {<<>>} \cup {DeleteOf(b) : b \in {x \in W : L # <<>> => L[1] = x}}
        \cup Moves(L) \cup Aborts(L, W)

AfterList(L, W) ==
    {<<>>} \cup {DeleteOf(b) : b \in {x \in W : x \in ToSet(L) => L[1] = x}}
        \cup Moves(L) \cup Aborts(L, W)
        \cup {<<Do("start", NULL)>> \o rest : rest \in AfterStart(L, W)}

Frees(F) == [k \in DOMAIN F |-> Do("free", F[k])]

Linked(L) == Chain(L, head, next) /\ Closed(L, next)

\* No operation on the list is under way; blocks that left it are freed first.
Steady ==
    /\ Linked(order)
    /\ \E F \in Lists :
        /\ ToSet(F) \cap ToSet(order) = {}
        /\ live = ToSet(order) \cup ToSet(F)
        /\ \E rest \in AfterList(order, AwakeNow) : todo = Frees(F) \o rest
    /\ serving # NULL =>
        todo = <<>> /\ order # <<>> /\ serving = order[1] /\ serving \in AwakeNow

\* CoAP_ClearInteractions is about to run.
Detaching ==
    /\ Linked(order)
    /\ live = ToSet(order) /\ serving = NULL
    /\ \E rest \in AfterList(<<>>, AwakeNow) : todo = ClearOf \o rest

\* A block, new or taken out, is appended behind the blocks R.
Joins(R, b, rest) ==
    /\ b \notin ToSet(R)
    /\ live = ToSet(R) \cup {b}
    /\ \/ order = R /\ sleepUntil[b] = 0
       \/ order = <<b>> \o R /\ rest = <<>>

Appending(R, b, rest) ==
    \/ Linked(R) /\ todo = <<Do("last", b)>> \o rest
    \/ Linked(R) /\ todo = <<Do("link", <<EndOf(R), b>>)>> \o rest
    \/ Chain(Append(R, b), head, next) /\ todo = <<Do("terminate", b)>> \o rest

Joining ==
    /\ serving = NULL
    /\ \E R \in Lists, b \in Blocks : \E rest \in AfterStart(R, AwakeNow) :
        Joins(R, b, rest) /\ Appending(R, b, rest)

ListInv == TypeList /\ (Steady \/ Detaching \/ Joining)

-----------------------------------------------------------------------------
(* What is left of the program *)

Words == {"unlink", "free", "takeOut", "last", "link", "terminate", "detach", "start"}

Places == Pointers \cup {<<a, b>> : a \in Pointers, b \in Blocks}

Statements == [do : Words, at : Places]

LEMMA PlacesAre ==
    /\ \A a \in Pointers : a \in Places
    /\ \A a \in Blocks : a \in Pointers /\ a \in Places
    /\ \A a \in Pointers, b \in Blocks : <<a, b>> \in Places
    /\ NULL \in Pointers /\ NULL \in Places
BY DEF Places, Pointers

LEMMA StatementIs ==
    ASSUME NEW what \in Words, NEW a \in Places
    PROVE  Do(what, a) \in Statements /\ Do(what, a).do = what /\ Do(what, a).at = a
BY DEF Do, Statements

LEMMA StatementType ==
    /\ Do("start", NULL) \in Statements /\ Do("detach", NULL) \in Statements
    /\ \A b \in Blocks :
        /\ Do("unlink", b) \in Statements /\ Do("free", b) \in Statements
        /\ Do("takeOut", b) \in Statements /\ Do("last", b) \in Statements
        /\ Do("terminate", b) \in Statements
        /\ \A a \in Pointers : Do("link", <<a, b>>) \in Statements
BY StatementIs, PlacesAre DEF Words

LEMMA OperationType ==
    ASSUME NEW b \in Blocks
    PROVE  /\ DeleteOf(b) \in Seq(Statements) /\ MoveOf(b) \in Seq(Statements)
           /\ \A rest \in Seq(Statements) :
                /\ DeleteOf(b) \o rest \in Seq(Statements)
                /\ <<Do("start", NULL)>> \o rest \in Seq(Statements)
<1>1. Do("unlink", b) \in Statements /\ Do("takeOut", b) \in Statements
      /\ Do("last", b) \in Statements /\ Do("start", NULL) \in Statements
  BY StatementType
<1>2. DeleteOf(b) \in Seq(Statements) /\ MoveOf(b) \in Seq(Statements)
      /\ <<Do("start", NULL)>> \in Seq(Statements)
  BY <1>1 DEF DeleteOf, MoveOf
<1> QED BY <1>2, ConcatProperties

LEMMA AbortType ==
    ASSUME NEW L, NEW W, W \subseteq Blocks
    PROVE  Moves(L) \subseteq Seq(Statements) /\ Aborts(L, W) \subseteq Seq(Statements)
<1>1. ASSUME NEW r \in Moves(L) PROVE r \in Seq(Statements)
  <2>1. PICK b \in Blocks : r = MoveOf(b)
    BY DEF Moves
  <2> QED BY <2>1, OperationType
<1>2. ASSUME NEW r \in Aborts(L, W) PROVE r \in Seq(Statements)
  <2>1. PICK v \in Others(L, W) : r = DeleteOf(v) \o MoveOf(L[1]) \/ r = DeleteOf(v) \o DeleteOf(L[1])
    BY DEF Aborts
  <2>2. PICK b \in Blocks : b = L[1]
    BY DEF Others
  <2>3. v \in Blocks
    BY DEF Others
  <2>4. MoveOf(b) \in Seq(Statements) /\ DeleteOf(b) \in Seq(Statements)
    BY OperationType
  <2> QED BY <2>1, <2>2, <2>3, <2>4, OperationType, Zenon
<1> QED BY <1>1, <1>2

LEMMA RestType ==
    ASSUME NEW L, NEW W, W \subseteq Blocks
    PROVE  /\ AfterStart(L, W) \subseteq Seq(Statements)
           /\ AfterList(L, W) \subseteq Seq(Statements)
<1>1. \A b \in Blocks : DeleteOf(b) \in Seq(Statements)
  BY OperationType
<1>2. Do("start", NULL) \in Statements
  BY StatementType
<1>3. ASSUME NEW r \in AfterStart(L, W) PROVE r \in Seq(Statements)
  <2>1. r = <<>> \/ (\E b \in W : r = DeleteOf(b)) \/ r \in Moves(L) \/ r \in Aborts(L, W)
    BY DEF AfterStart
  <2> QED BY <1>1, <2>1, AbortType, EmptySeq, Zenon
<1>4. \A rest \in AfterStart(L, W) : <<Do("start", NULL)>> \o rest \in Seq(Statements)
  BY <1>2, <1>3
<1>5. ASSUME NEW r \in AfterList(L, W) PROVE r \in Seq(Statements)
  <2>1. \/ r = <<>> \/ (\E b \in W : r = DeleteOf(b)) \/ r \in Moves(L) \/ r \in Aborts(L, W)
        \/ \E q \in AfterStart(L, W) : r = <<Do("start", NULL)>> \o q
    BY DEF AfterList
  <2> QED BY <1>1, <1>4, <2>1, AbortType, EmptySeq, Zenon
<1> QED BY <1>3, <1>5

LEMMA RestGrows ==
    ASSUME NEW L, NEW W, NEW V, W \subseteq V
    PROVE  AfterStart(L, W) \subseteq AfterStart(L, V) /\ AfterList(L, W) \subseteq AfterList(L, V)
<1>1. Aborts(L, W) \subseteq Aborts(L, V)
  BY DEF Aborts, Others
<1>2. AfterStart(L, W) \subseteq AfterStart(L, V)
  BY <1>1 DEF AfterStart
<1> QED BY <1>1, <1>2 DEF AfterList

\* The first statement and what is left behind it.
LEMMA FirstStatement ==
    ASSUME NEW s \in Statements, NEW rest \in Seq(Statements), todo = <<s>> \o rest
    PROVE  todo # <<>> /\ todo[1] = s /\ Tail(todo) = rest /\ Now(s.do) /\ This = s.at
<1>1. todo # <<>> /\ todo[1] = s /\ Tail(todo) = rest
  OBVIOUS
<1> QED BY <1>1 DEF Now, This

LEMMA FreesType ==
    ASSUME NEW F \in Seq(Blocks)
    PROVE  Frees(F) \in Seq(Statements) /\ Len(Frees(F)) = Len(F)
<1>1. \A b \in Blocks : Do("free", b) \in Statements
  BY StatementType
<1> QED BY <1>1 DEF Frees

LEMMA FirstFree ==
    ASSUME NEW F \in Seq(Blocks), F # <<>>, NEW rest \in Seq(Statements)
    PROVE  Frees(F) \o rest = <<Do("free", F[1])>> \o (Frees(Tail(F)) \o rest)
<1>1. F[1] \in Blocks /\ Tail(F) \in Seq(Blocks)
  OBVIOUS
<1>2. Do("free", F[1]) \in Statements
  BY <1>1, StatementType
<1>3. Frees(F) = <<Do("free", F[1])>> \o Frees(Tail(F))
  <2>1. Frees(F) \in Seq(Statements) /\ Frees(Tail(F)) \in Seq(Statements)
        /\ Len(Frees(F)) = Len(F) /\ Len(Frees(Tail(F))) = Len(F) - 1
    <3>1. Len(Tail(F)) = Len(F) - 1
      OBVIOUS
    <3> QED BY <1>1, <3>1, FreesType
  <2> DEFINE g == <<Do("free", F[1])>> \o Frees(Tail(F))
  <2>2. g \in Seq(Statements) /\ Len(g) = Len(F)
    BY <1>2, <2>1
  <2>3. ASSUME NEW k \in 1 .. Len(F) PROVE Frees(F)[k] = g[k]
    <3>1. CASE k = 1
      BY <1>2, <2>1, <3>1 DEF Frees
    <3>2. CASE k # 1
      <4>1. k - 1 \in 1 .. Len(F) - 1 /\ k - 1 \in DOMAIN Tail(F) /\ Tail(F)[k - 1] = F[k]
        BY <3>2
      <4>2. g[k] = Frees(Tail(F))[k - 1]
        BY <1>2, <2>1, <3>2
      <4> QED BY <4>1, <4>2 DEF Frees
    <3> QED BY <3>1, <3>2
  <2> HIDE DEF g
  <2>4. Len(Frees(F)) = Len(g)
    BY <2>1, <2>2
  <2>5. \A k \in 1 .. Len(Frees(F)) : Frees(F)[k] = g[k]
    BY <2>1, <2>3
  <2>6. Frees(F) = g
    BY <2>1, <2>2, <2>4, <2>5, SeqEqual, Zenon
  <2> QED BY <2>6 DEF g
<1>4. Frees(Tail(F)) \in Seq(Statements)
  BY <1>1, FreesType
<1> QED BY <1>2, <1>3, <1>4

LEMMA NoFrees ==
    ASSUME NEW rest \in Seq(Statements)
    PROVE  Frees(<<>>) \o rest = rest /\ <<>> \in Lists /\ ToSet(<<>>) = {}
<1>1. <<>> \in Seq(Blocks) /\ \A k : k \notin DOMAIN <<>>
  OBVIOUS
<1>2. Frees(<<>>) = <<>>
  <2>1. Frees(<<>>) \in Seq(Statements) /\ Len(Frees(<<>>)) = 0
    BY <1>1, FreesType
  <2> QED BY <2>1
<1>3. <<>> \in Lists /\ ToSet(<<>>) = {}
  BY <1>1 DEF Lists, ToSet
<1> QED BY <1>2, <1>3

LEMMA Walks ==
    ASSUME TypeList, NEW L, Linked(L)
    PROVE  /\ Walk = L /\ L \in Lists /\ L \in Seq(Blocks) /\ Ends
           /\ EndOfWalk = EndOf(L) /\ EndOf(L) \in Pointers
           /\ head = IF L = <<>> THEN NULL ELSE L[1]
           /\ L # <<>> => L[1] \in Blocks /\ L[1] # NULL /\ L[1] \in ToSet(L)
           /\ ToSet(L) \subseteq Blocks
<1>1. Walk = L
  BY WalkIsWalked, WalkIsChain DEF TypeList, Linked
<1>2. /\ L \in Lists /\ L \in Seq(Blocks) /\ Len(L) \in Nat
      /\ head = IF L = <<>> THEN NULL ELSE L[1]
      /\ Len(L) # 0 => next[L[Len(L)]] = NULL /\ L # <<>>
  BY DEF Linked, Chain, Closed, Lists
<1>3. L # <<>> => /\ Len(L) # 0 /\ L[1] \in Blocks /\ L[Len(L)] \in Blocks
                  /\ 1 \in DOMAIN L
  BY <1>2
<1>4. /\ L # <<>> => L[1] # NULL /\ L[1] \in ToSet(L)
      /\ ToSet(L) \subseteq Blocks
  BY <1>2, <1>3, BlocksAssumption DEF ToSet
<1>5. Ends
  BY <1>1, <1>2 DEF Ends
<1>6. EndOfWalk = EndOf(L) /\ EndOf(L) \in Pointers
  BY <1>1, <1>2, <1>3, <1>4 DEF EndOfWalk, EndOf, Last, Pointers
<1> QED BY <1>1, <1>2, <1>3, <1>4, <1>5, <1>6

-----------------------------------------------------------------------------
(* Where the program is when the invariant holds, told by its next statement. *)

AtQuiet ==
    /\ Quiet /\ Linked(order) /\ live = ToSet(order)
    /\ serving # NULL => order # <<>> /\ serving = order[1] /\ serving \in AwakeNow

AtUnlink ==
    /\ Now("unlink") /\ serving = NULL /\ Linked(order) /\ live = ToSet(order)
    /\ \/ /\ This \in AwakeNow /\ (This \in ToSet(order) => order[1] = This)
          /\ Tail(todo) = <<>>
       \/ /\ This \in Others(order, AwakeNow)
          /\ Tail(todo) \in {MoveOf(order[1]), DeleteOf(order[1])}

AtStart ==
    /\ Now("start") /\ serving = NULL /\ Linked(order) /\ live = ToSet(order)
    /\ Tail(todo) \in AfterStart(order, AwakeNow)

AtFree ==
    /\ Now("free") /\ serving = NULL /\ Linked(order)
    /\ \E F \in Lists : \E rest \in AfterList(order, AwakeNow) :
        /\ F # <<>> /\ This = F[1]
        /\ ToSet(F) \cap ToSet(order) = {}
        /\ live = ToSet(order) \cup ToSet(F)
        /\ Tail(todo) = Frees(Tail(F)) \o rest

AtDetach ==
    /\ Now("detach") /\ serving = NULL /\ Linked(order) /\ live = ToSet(order)
    /\ Tail(todo) \in AfterList(<<>>, AwakeNow)

AtTakeOut ==
    /\ Now("takeOut") /\ serving = NULL /\ Linked(order) /\ live = ToSet(order)
    /\ order # <<>> /\ This = order[1]
    /\ Tail(todo) = <<Do("last", order[1])>>

AtJoin ==
    /\ serving = NULL
    /\ \E R \in Lists, b \in Blocks : \E rest \in AfterStart(R, AwakeNow) :
        /\ Tail(todo) = rest /\ Joins(R, b, rest)
        /\ \/ Now("last") /\ This = b /\ Linked(R)
           \/ Now("link") /\ This = <<EndOf(R), b>> /\ Linked(R)
           \/ Now("terminate") /\ This = b /\ Chain(Append(R, b), head, next)

LEMMA SteadyAt ==
    ASSUME TypeList, Steady
    PROVE  AtQuiet \/ AtUnlink \/ AtStart \/ AtFree \/ AtTakeOut
<1>1. Linked(order) /\ AwakeNow \subseteq Blocks
  BY DEF Steady, AwakeNow
<1>2. PICK F \in Lists :
        /\ ToSet(F) \cap ToSet(order) = {}
        /\ live = ToSet(order) \cup ToSet(F)
        /\ \E rest \in AfterList(order, AwakeNow) : todo = Frees(F) \o rest
  BY DEF Steady
<1>3. PICK rest \in AfterList(order, AwakeNow) : todo = Frees(F) \o rest
  BY <1>2
<1>4. rest \in Seq(Statements) /\ F \in Seq(Blocks)
  BY <1>1, RestType DEF Lists
<1>5. serving # NULL => todo = <<>> /\ order # <<>> /\ serving = order[1] /\ serving \in AwakeNow
  BY DEF Steady
<1>6. CASE F = <<>>
  <2>1. todo = rest /\ live = ToSet(order)
    BY <1>2, <1>3, <1>4, <1>6, NoFrees
  <2>2. CASE rest = <<>>
    BY <1>1, <1>5, <2>1, <2>2 DEF AtQuiet, Quiet
  <2>3. ASSUME NEW b \in AwakeNow, b \in ToSet(order) => order[1] = b, rest = DeleteOf(b)
        PROVE  AtUnlink
    <3>1. todo = <<Do("unlink", b)>> \o <<>> /\ Do("unlink", b) \in Statements
          /\ <<>> \in Seq(Statements)
      BY <1>1, <2>1, <2>3, StatementType DEF DeleteOf
    <3>2. Now("unlink") /\ This = b /\ Tail(todo) = <<>> /\ todo # <<>>
      BY <3>1, FirstStatement DEF Do
    <3> QED BY <1>1, <1>5, <2>1, <2>3, <3>2 DEF AtUnlink
  <2>4. ASSUME NEW r \in AfterStart(order, AwakeNow), rest = <<Do("start", NULL)>> \o r
        PROVE  AtStart
    <3>1. todo = <<Do("start", NULL)>> \o r /\ Do("start", NULL) \in Statements
          /\ r \in Seq(Statements)
      BY <1>1, <2>1, <2>4, StatementType, RestType
    <3>2. Now("start") /\ Tail(todo) = r /\ todo # <<>>
      BY <3>1, FirstStatement DEF Do
    <3> QED BY <1>1, <1>5, <2>1, <3>2 DEF AtStart
  <2>5. ASSUME NEW b \in Blocks, order # <<>>, order[1] = b, rest = MoveOf(b)
        PROVE  AtTakeOut
    <3>1. todo = <<Do("takeOut", b)>> \o <<Do("last", b)>>
          /\ Do("takeOut", b) \in Statements /\ <<Do("last", b)>> \in Seq(Statements)
      <4>1. Do("takeOut", b) \in Statements /\ Do("last", b) \in Statements
        BY StatementType
      <4> QED BY <2>1, <2>5, <4>1 DEF MoveOf
    <3>2. Now("takeOut") /\ This = b /\ Tail(todo) = <<Do("last", b)>> /\ todo # <<>>
      BY <3>1, FirstStatement DEF Do
    <3> QED BY <1>1, <1>5, <2>1, <2>5, <3>2 DEF AtTakeOut
  <2>6. ASSUME NEW v \in Others(order, AwakeNow), NEW r \in {MoveOf(order[1]), DeleteOf(order[1])},
               rest = DeleteOf(v) \o r
        PROVE  AtUnlink
    <3>1. v \in Blocks /\ order[1] \in Blocks
      BY <1>1 DEF Others
    <3>2. Do("unlink", v) \in Statements /\ r \in Seq(Statements)
      BY <3>1, StatementType, OperationType
    <3>3. todo = <<Do("unlink", v)>> \o r
      BY <2>1, <2>6 DEF DeleteOf
    <3>4. Now("unlink") /\ This = v /\ Tail(todo) = r /\ todo # <<>>
      BY <3>2, <3>3, FirstStatement DEF Do
    <3> QED BY <1>1, <1>5, <2>1, <3>4 DEF AtUnlink
  <2>7. rest \in Moves(order) => AtTakeOut
    BY <2>5 DEF Moves
  <2>8. rest \in Aborts(order, AwakeNow) => AtUnlink
    BY <2>6 DEF Aborts
  <2> QED BY <1>3, <2>2, <2>3, <2>4, <2>7, <2>8 DEF AfterList
<1>7. CASE F # <<>>
  <2>1. /\ todo = <<Do("free", F[1])>> \o (Frees(Tail(F)) \o rest)
        /\ F[1] \in Blocks /\ Tail(F) \in Seq(Blocks)
    BY <1>3, <1>4, <1>7, FirstFree, SMTT(90)
  <2>2. Do("free", F[1]) \in Statements /\ Frees(Tail(F)) \in Seq(Statements)
    BY <2>1, StatementType, FreesType
  <2>3. Frees(Tail(F)) \o rest \in Seq(Statements)
    BY <1>4, <2>2
  <2>4. Now("free") /\ This = F[1] /\ Tail(todo) = Frees(Tail(F)) \o rest /\ todo # <<>>
    BY <2>1, <2>2, <2>3, FirstStatement DEF Do
  <2> QED BY <1>1, <1>2, <1>5, <1>7, <2>4 DEF AtFree
<1> QED BY <1>6, <1>7

LEMMA OtherAt ==
    ASSUME TypeList
    PROVE  (Detaching => AtDetach) /\ (Joining => AtJoin)
<1>0. AwakeNow \subseteq Blocks
  BY DEF AwakeNow
<1>1. ASSUME Detaching PROVE AtDetach
  <2>1. PICK rest \in AfterList(<<>>, AwakeNow) : todo = <<Do("detach", NULL)>> \o rest
    BY <1>1 DEF Detaching, ClearOf
  <2>2. rest \in Seq(Statements) /\ Do("detach", NULL) \in Statements
    BY <1>0, RestType, StatementType
  <2>3. Now("detach") /\ Tail(todo) = rest
    BY <2>1, <2>2, FirstStatement DEF Do
  <2> QED BY <1>1, <2>3 DEF AtDetach, Detaching
<1>3. ASSUME Joining PROVE AtJoin
  <2>1. PICK R \in Lists, b \in Blocks : \E rest \in AfterStart(R, AwakeNow) :
            Joins(R, b, rest) /\ Appending(R, b, rest)
    BY <1>3 DEF Joining
  <2>2. PICK rest \in AfterStart(R, AwakeNow) : Joins(R, b, rest) /\ Appending(R, b, rest)
    BY <2>1
  <2>3. rest \in Seq(Statements) /\ R \in Seq(Blocks)
    BY <1>0, RestType DEF Lists
  <2>4. EndOf(R) \in Pointers
    BY <2>3 DEF EndOf, Pointers
  <2>5. \A w \in {"last", "terminate"} : todo = <<Do(w, b)>> \o rest =>
            Now(w) /\ This = b /\ Tail(todo) = rest
    <3>1. Do("last", b) \in Statements /\ Do("terminate", b) \in Statements
      BY StatementType
    <3> QED BY <2>3, <3>1, FirstStatement DEF Do
  <2>6. todo = <<Do("link", <<EndOf(R), b>>)>> \o rest =>
            Now("link") /\ This = <<EndOf(R), b>> /\ Tail(todo) = rest
    <3>1. Do("link", <<EndOf(R), b>>) \in Statements
      BY <2>4, StatementType
    <3> QED BY <2>3, <3>1, FirstStatement DEF Do
  <2> QED BY <1>3, <2>2, <2>5, <2>6 DEF AtJoin, Appending, Joining
<1> QED BY <1>1, <1>3

LEMMA AtWhich ==
    ASSUME ListInv
    PROVE  /\ TypeList
           /\ Quiet => AtQuiet
           /\ Now("unlink") => AtUnlink
           /\ Now("free") => AtFree
           /\ Now("takeOut") => AtTakeOut
           /\ Now("detach") => AtDetach
           /\ Now("start") => AtStart
           /\ Now("last") \/ Now("link") \/ Now("terminate") => AtJoin
<1>1. TypeList /\ (AtQuiet \/ AtUnlink \/ AtStart \/ AtFree \/ AtDetach \/ AtTakeOut \/ AtJoin)
  BY SteadyAt, OtherAt DEF ListInv
<1>2. /\ AtQuiet => todo = <<>>
      /\ AtUnlink => todo # <<>> /\ todo[1].do = "unlink"
      /\ AtStart => todo # <<>> /\ todo[1].do = "start"
      /\ AtFree => todo # <<>> /\ todo[1].do = "free"
      /\ AtDetach => todo # <<>> /\ todo[1].do = "detach"
      /\ AtTakeOut => todo # <<>> /\ todo[1].do = "takeOut"
      /\ AtJoin => todo # <<>> /\ todo[1].do \in {"last", "link", "terminate"}
  BY DEF AtQuiet, Quiet, AtUnlink, AtStart, AtFree, AtDetach, AtTakeOut, AtJoin, Now
<1> QED BY <1>1, <1>2 DEF Now, Quiet

LEMMA WalksThen ==
    ASSUME next' \in [Blocks -> Pointers], NEW L, Chain(L, head', next'), Closed(L, next')
    PROVE  Walk' = L
BY WalkIsWalked, WalkIsChain

LEMMA TailList ==
    ASSUME NEW L \in Lists, L # <<>>
    PROVE  /\ Tail(L) \in Lists /\ L[1] \notin ToSet(Tail(L)) /\ L[1] \in Blocks
           /\ ToSet(L) = ToSet(Tail(L)) \cup {L[1]} /\ L = <<L[1]>> \o Tail(L)
<1>1. L \in Seq(Blocks) /\ Len(L) \in Nat \ {0} /\ DOMAIN L = 1 .. Len(L) /\ L[1] \in Blocks
  BY DEF Lists
<1>2. Tail(L) \in Seq(Blocks) /\ L = <<L[1]>> \o Tail(L)
  BY <1>1
<1>3. /\ \A k \in DOMAIN Tail(L) : k + 1 \in DOMAIN L /\ Tail(L)[k] = L[k + 1] /\ k \in Nat
      /\ \A k \in DOMAIN L : k = 1 \/ (k - 1 \in DOMAIN Tail(L) /\ Tail(L)[k - 1] = L[k])
  BY <1>1
<1>4. \A j, k \in DOMAIN L : L[j] = L[k] => j = k
  BY DEF Lists
<1>5. ASSUME NEW j \in DOMAIN Tail(L), NEW k \in DOMAIN Tail(L), Tail(L)[j] = Tail(L)[k]
      PROVE  j = k
  <2>1. j + 1 \in DOMAIN L /\ k + 1 \in DOMAIN L /\ L[j + 1] = L[k + 1]
    BY <1>3, <1>5
  <2>2. j + 1 = k + 1
    BY <1>4, <2>1
  <2> QED BY <1>3, <2>2
<1>6. ASSUME NEW k \in DOMAIN Tail(L) PROVE Tail(L)[k] # L[1] /\ Tail(L)[k] \in ToSet(L)
  <2>1. k + 1 \in DOMAIN L /\ 1 \in DOMAIN L /\ k + 1 # 1 /\ Tail(L)[k] = L[k + 1]
    BY <1>1, <1>3
  <2> QED BY <1>4, <2>1 DEF ToSet
<1>7. ToSet(L) \subseteq ToSet(Tail(L)) \cup {L[1]}
  <2>1. ASSUME NEW k \in DOMAIN L PROVE L[k] \in ToSet(Tail(L)) \cup {L[1]}
    BY <1>3 DEF ToSet
  <2> QED BY <2>1 DEF ToSet
<1>8. L[1] \in ToSet(L) /\ L[1] \notin ToSet(Tail(L)) /\ ToSet(Tail(L)) \subseteq ToSet(L)
  BY <1>1, <1>6 DEF ToSet
<1> QED BY <1>1, <1>2, <1>5, <1>7, <1>8 DEF Lists

LEMMA RemoveList ==
    ASSUME NEW L \in Lists, NEW k \in 1 .. Len(L)
    PROVE  /\ L[k] \notin ToSet(RemoveAt(L, k))
           /\ ToSet(L) = ToSet(RemoveAt(L, k)) \cup {L[k]}
<1> DEFINE M == RemoveAt(L, k)
           n == Len(L)
<1>1. n \in Nat /\ k \in 1 .. n /\ DOMAIN L = 1 .. n /\ L \in Seq(Blocks)
      /\ \A j, i \in 1 .. n : L[j] = L[i] => j = i
  BY DEF Lists
<1>2. M \in Seq(Blocks) /\ Len(M) = n - 1
      /\ \A i \in 1 .. n - 1 : M[i] = IF i < k THEN L[i] ELSE L[i + 1]
  BY <1>1, RemoveAtIs, Zenon
<1> HIDE DEF M, n
<1>3. DOMAIN M = 1 .. n - 1 /\ ToSet(M) = {M[i] : i \in 1 .. n - 1} /\ ToSet(L) = {L[i] : i \in 1 .. n}
  BY <1>1, <1>2 DEF ToSet
<1>4. ASSUME NEW i \in 1 .. n - 1 PROVE M[i] \in ToSet(L) /\ M[i] # L[k]
  <2>1. PICK c \in 1 .. n : M[i] = L[c] /\ c # k
    BY <1>1, <1>2
  <2> QED BY <1>1, <1>3, <2>1
<1>5. ASSUME NEW i \in 1 .. n, i # k PROVE L[i] \in ToSet(M)
  <2>1. CASE i < k
    <3>1. i \in 1 .. n - 1
      BY <1>1, <2>1
    <3> QED BY <1>2, <1>3, <2>1, <3>1
  <2>2. CASE ~(i < k)
    <3>1. i - 1 \in 1 .. n - 1 /\ ~(i - 1 < k) /\ (i - 1) + 1 = i
      BY <1>1, <1>5, <2>2
    <3>2. M[i - 1] = L[i]
      BY <1>2, <3>1
    <3> QED BY <1>3, <3>1, <3>2
  <2> QED BY <2>1, <2>2
<1>6. L[k] \in ToSet(L) /\ L[k] \notin ToSet(M) /\ ToSet(M) \subseteq ToSet(L)
  BY <1>1, <1>3, <1>4
<1>7. ToSet(L) \subseteq ToSet(M) \cup {L[k]}
  BY <1>3, <1>5
<1> QED BY <1>6, <1>7 DEF M

-----------------------------------------------------------------------------
(* Every step keeps the invariant, and what it does to the list *)

Same == UNCHANGED <<sleepUntil, clock>>

\* Nothing is left to be freed.
LEMMA SteadyThen ==
    ASSUME Linked(order)', live' = ToSet(order'), NEW rest \in AfterList(order', AwakeNow'),
           AwakeNow' \subseteq Blocks, todo' = rest,
           serving' # NULL => todo' = <<>> /\ order' # <<>> /\ serving' = order'[1]
                                /\ serving' \in AwakeNow'
    PROVE  Steady'
<1>1. rest \in Seq(Statements)
  BY RestType
<1>2. todo' = Frees(<<>>) \o rest /\ <<>> \in Lists /\ ToSet(<<>>) = {}
  BY <1>1, NoFrees
<1>3. ToSet(<<>>) \cap ToSet(order') = {} /\ live' = ToSet(order') \cup ToSet(<<>>)
  BY <1>2
<1> QED BY <1>2, <1>3 DEF Steady

\* A block was taken out of the list and is freed next.
LEMMA UnlinkedIsSteady ==
    ASSUME ListInv, Unlink, serving = NULL, live = ToSet(order), This \in Blocks,
           This \notin ToSet(order'), ToSet(order) = ToSet(order') \cup {This},
           Linked(order)', NEW rest \in AfterList(order', AwakeNow'),
           AwakeNow' \subseteq Blocks, todo' = <<Do("free", This)>> \o rest
    PROVE  Steady'
<1> DEFINE F == <<This>>
<1>1. UNCHANGED <<live, serving>> /\ rest \in Seq(Statements)
  BY RestType DEF Unlink, heapUnchanged
<1>2. F \in Lists /\ ToSet(F) = {This} /\ todo' = Frees(F) \o rest
  <2>1. F \in Seq(Blocks) /\ F # <<>> /\ F[1] = This /\ Tail(F) = <<>> /\ F \in Lists
    BY DEF Lists
  <2>2. Frees(F) \o rest = <<Do("free", This)>> \o (Frees(<<>>) \o rest)
    BY <1>1, <2>1, FirstFree
  <2>3. Frees(F) \o rest = <<Do("free", This)>> \o rest
    BY <1>1, <2>2, NoFrees
  <2>4. ToSet(F) = {This}
    BY DEF ToSet
  <2> QED BY <2>1, <2>3, <2>4
<1> HIDE DEF F
<1> QED BY <1>1, <1>2 DEF Steady

LEMMA UnlinkKeeps ==
    ASSUME ListInv, Unlink
    PROVE  /\ ListInv' /\ Same
           /\ \/ order' = order
              \/ order # <<>> /\ order[1] \in AwakeNow /\ order' = Tail(order)
              \/ /\ order # <<>> /\ order[1] \in AwakeNow
                 /\ \E k \in 2 .. Len(order) : order' = RemoveAt(order, k)
<1>1. TypeList /\ AtUnlink /\ Now("unlink") /\ serving = NULL /\ live = ToSet(order)
  BY AtWhich DEF Unlink, AtUnlink
<1>2. /\ Walk = order /\ order \in Lists /\ order \in Seq(Blocks) /\ This \in Blocks
      /\ order # <<>> => order[1] \in Blocks /\ order[1] \in ToSet(order) /\ head = order[1]
      /\ Chain(order, head, next) /\ Closed(order, next) /\ next \in [Blocks -> Pointers]
  BY <1>1, Walks DEF AtUnlink, AwakeNow, Others, Linked, TypeList
<1>3. Same /\ AwakeNow' = AwakeNow /\ UNCHANGED <<live, serving>> /\ AwakeNow' \subseteq Blocks
  BY DEF Unlink, heapUnchanged, Same, AwakeNow
<1>4. PICK rest : rest = Tail(todo)
  OBVIOUS
<1>5. rest \in Seq(Statements)
  <2>1. CASE rest = <<>>
    BY <2>1, EmptySeq
  <2>2. CASE This \in Others(order, AwakeNow) /\ rest \in {MoveOf(order[1]), DeleteOf(order[1])}
    <3>1. order[1] \in Blocks
      BY <1>3, <2>2 DEF Others
    <3> QED BY <2>2, <3>1, OperationType
  <2> QED BY <1>1, <1>4, <2>1, <2>2 DEF AtUnlink
<1>6. CASE This \notin ToSet(order)
  <2>1. UNCHANGED <<head, next, order>> /\ todo' = rest
    <3>1. UNCHANGED <<head, next, order>> /\ todo' = <<>> \o rest
      BY <1>2, <1>4, <1>6 DEF Unlink, Continue
    <3> QED BY <1>5, <3>1
  <2>2. rest \in AfterList(order', AwakeNow')
    <3>1. CASE rest = <<>>
      BY <3>1 DEF AfterList
    <3>2. CASE This \in Others(order, AwakeNow) /\ rest \in {MoveOf(order[1]), DeleteOf(order[1])}
      BY <1>3, <2>1, <3>2 DEF AfterList, Others, Moves
    <3> QED BY <1>1, <1>4, <3>1, <3>2 DEF AtUnlink
  <2>3. Linked(order)'
    BY <1>1, <2>1 DEF AtUnlink, Linked
  <2>4. Steady'
    BY <1>1, <1>3, <2>1, <2>2, <2>3, SteadyThen
  <2>5. TypeList'
    BY <1>1, <1>3, <2>1 DEF TypeList, Same
  <2> QED BY <1>3, <2>1, <2>4, <2>5 DEF ListInv
<1>7. CASE This \in ToSet(order)
  <2>1. order # <<>> /\ Skip(This) /\ order' = Walk' /\ todo' = <<Do("free", This)>> \o rest
    <3>1. order # <<>>
      BY <1>7, NoFrees, EmptySeq
    <3> QED BY <1>2, <1>4, <1>7, <3>1 DEF Unlink, Continue, Complete
  <2>2. CASE This \in AwakeNow /\ order[1] = This /\ rest = <<>>
    <3>1. head' = next[This] /\ next' = next
      BY <1>2, <2>1, <2>2 DEF Skip
    <3>2. Chain(Tail(order), head', next') /\ Closed(Tail(order), next')
      BY <1>2, <2>1, <2>2, <3>1, SkipChain
    <3>3. order' = Tail(order) /\ Linked(order)'
      BY <1>2, <2>1, <3>1, <3>2, WalksThen DEF Linked
    <3>4. This \notin ToSet(Tail(order)) /\ ToSet(order) = ToSet(Tail(order)) \cup {This}
      BY <1>2, <2>1, <2>2, TailList
    <3>5. rest \in AfterList(order', AwakeNow')
      BY <2>2 DEF AfterList
    <3>6. Steady'
      BY <1>1, <1>2, <1>3, <2>1, <3>3, <3>4, <3>5, UnlinkedIsSteady
    <3>7. TypeList'
      BY <1>1, <1>2, <1>3, <3>1 DEF TypeList, Same
    <3> QED BY <1>3, <2>1, <2>2, <3>3, <3>6, <3>7 DEF ListInv
  <2>3. CASE This \in Others(order, AwakeNow) /\ rest \in {MoveOf(order[1]), DeleteOf(order[1])}
    <3>1. order[1] \in AwakeNow /\ order[1] # This /\ head # This
      BY <1>2, <2>1, <2>3 DEF Others
    <3>2. PICK k \in 2 .. Len(order) : order[k] = This
      <4>1. PICK k \in DOMAIN order : order[k] = This
        BY <1>7 DEF ToSet
      <4>2. k \in 1 .. Len(order) /\ k # 1
        BY <1>2, <3>1, <4>1
      <4>3. k \in 2 .. Len(order)
        BY <4>2
      <4> QED BY <4>1, <4>3
    <3>3. PICK p \in ToSet(order) : next[p] = This /\ next' = [next EXCEPT ![p] = next[This]]
      BY <1>2, <2>1, <3>1 DEF Skip
    <3>4. head' = head
      BY <2>1, <3>1 DEF Skip
    <3> DEFINE M == RemoveAt(order, k)
               n2 == [next EXCEPT ![order[k - 1]] = next[order[k]]]
    <3>5. /\ Chain(M, head, n2) /\ Closed(M, n2)
          /\ \A q \in ToSet(order) : next[q] = order[k] => q = order[k - 1]
      <4>1. next \in [Blocks -> Pointers] /\ Chain(order, head, next) /\ Closed(order, next)
            /\ k \in 2 .. Len(order)
        BY <1>2
      <4> HIDE DEF M, n2
      <4>2. SkipsTo(order, k, head, next, n2) /\ OnlyLink(order, k, next)
        BY <4>1, SkipMiddle, Zenon
      <4> QED BY <4>2 DEF M, n2, SkipsTo, OnlyLink
    <3>6. next' = n2
      <4>1. p = order[k - 1]
        BY <3>2, <3>3, <3>5
      <4> QED BY <3>2, <3>3, <4>1, Zenon
    <3>7. This \notin ToSet(M) /\ ToSet(order) = ToSet(M) \cup {This}
      <4>1. k \in 1 .. Len(order)
        BY <1>2
      <4> QED BY <1>2, <3>2, <4>1, RemoveList, Zenon
    <3>8. M # <<>> /\ M[1] = order[1]
      <4>1. k \in 1 .. Len(order) /\ 1 \in 1 .. Len(order) - 1 /\ 1 < k
        BY <1>2
      <4>2. Len(M) = Len(order) - 1 /\ M[1] = order[1]
        BY <1>2, <4>1, RemoveAtIs
      <4> HIDE DEF M
      <4>3. Len(M) # 0
        BY <4>1, <4>2
      <4> QED BY <4>2, <4>3
    <3> HIDE DEF M, n2
    <3>9. next' \in [Blocks -> Pointers]
      <4>1. next[This] \in Pointers
        BY <1>2
      <4> QED BY <1>2, <3>3, <4>1
    <3>10. order' = M /\ Linked(order)'
      BY <2>1, <3>4, <3>5, <3>6, <3>9, WalksThen DEF Linked
    <3>11. rest \in AfterList(order', AwakeNow')
      <4>1. order' # <<>> /\ order'[1] = order[1] /\ order[1] \in Blocks
        BY <1>2, <2>1, <3>8, <3>10
      <4> QED BY <1>3, <2>3, <3>1, <4>1 DEF AfterList, Moves
    <3>12. Steady'
      BY <1>1, <1>2, <1>3, <2>1, <3>7, <3>10, <3>11, UnlinkedIsSteady
    <3>13. TypeList'
      BY <1>1, <1>3, <3>4, <3>9 DEF TypeList, Same
    <3> QED BY <1>3, <2>1, <3>1, <3>10, <3>12, <3>13 DEF ListInv, M
  <2> QED BY <1>1, <1>4, <1>7, <2>2, <2>3 DEF AtUnlink
<1> QED BY <1>6, <1>7

LEMMA FreeKeeps ==
    ASSUME ListInv, Free
    PROVE  ListInv' /\ Same /\ order' = order
<1>1. TypeList /\ AtFree /\ Now("free")
  BY AtWhich DEF Free
<1>2. /\ UNCHANGED <<head, next, sleepUntil, clock, serving, order>> /\ live' = live \ {This}
      /\ todo' = <<>> \o Tail(todo) /\ AwakeNow' = AwakeNow /\ serving = NULL
  BY <1>1 DEF Free, Continue, AwakeNow, AtFree
<1>3. PICK F \in Lists : \E rest \in AfterList(order, AwakeNow) :
        /\ F # <<>> /\ This = F[1]
        /\ ToSet(F) \cap ToSet(order) = {}
        /\ live = ToSet(order) \cup ToSet(F)
        /\ Tail(todo) = Frees(Tail(F)) \o rest
  BY <1>1 DEF AtFree
<1>4. PICK rest \in AfterList(order, AwakeNow) : Tail(todo) = Frees(Tail(F)) \o rest
  BY <1>3
<1>5. /\ Tail(F) \in Lists /\ Tail(F) \in Seq(Blocks)
      /\ F[1] \notin ToSet(Tail(F)) /\ ToSet(F) = ToSet(Tail(F)) \cup {F[1]}
  BY <1>3, TailList DEF Lists
<1>6. todo' = Frees(Tail(F)) \o rest
  <2>1. Frees(Tail(F)) \in Seq(Statements) /\ rest \in Seq(Statements)
    <3>1. AwakeNow \subseteq Blocks
      BY DEF AwakeNow
    <3> QED BY <1>5, <3>1, FreesType, RestType
  <2>2. Frees(Tail(F)) \o rest \in Seq(Statements)
    BY <2>1, ConcatProperties
  <2> QED BY <1>2, <1>4, <2>2
<1>7. Linked(order)'
  BY <1>1, <1>2 DEF AtFree, Linked
<1>8. ToSet(Tail(F)) \cap ToSet(order') = {} /\ live' = ToSet(order') \cup ToSet(Tail(F))
  BY <1>2, <1>3, <1>5
<1>9. Steady'
  BY <1>2, <1>5, <1>6, <1>7, <1>8 DEF Steady
<1>10. TypeList'
  BY <1>1, <1>2 DEF TypeList
<1> QED BY <1>2, <1>9, <1>10 DEF ListInv, Same

LEMMA TakeOutKeeps ==
    ASSUME ListInv, TakeOut
    PROVE  ListInv' /\ Same /\ order' = order
<1>1. TypeList /\ AtTakeOut /\ Now("takeOut")
  BY AtWhich DEF TakeOut
<1>0. Walk = order /\ order \in Lists /\ order # <<>> /\ order[1] \in ToSet(order)
      /\ order[1] \in Blocks /\ head = order[1] /\ serving = NULL
  BY <1>1, Walks DEF AtTakeOut
<1>a. PICK R \in Lists, b \in Blocks : R = Tail(order) /\ b = order[1]
  BY <1>0, TailList
<1>2. This = b /\ b \in ToSet(Walk) /\ head = b
  BY <1>0, <1>1, <1>a DEF AtTakeOut
<1>3. /\ head' = next[b] /\ UNCHANGED <<next, live, sleepUntil, clock, serving, order>>
      /\ todo' = <<>> \o Tail(todo) /\ AwakeNow' = AwakeNow
  BY <1>2 DEF TakeOut, Skip, Continue, heapUnchanged, AwakeNow
<1>4. Chain(R, head', next') /\ Closed(R, next')
  BY <1>0, <1>1, <1>a, <1>3, SkipChain DEF TypeList, AtTakeOut, Linked
<1>5. b \notin ToSet(R) /\ ToSet(order) = ToSet(R) \cup {b} /\ order = <<b>> \o R
  BY <1>0, <1>a, TailList
<1>6. todo' = <<Do("last", b)>> \o <<>> /\ <<>> \in AfterStart(R, AwakeNow)
  <2>1. Do("last", b) \in Statements
    BY StatementType
  <2>2. todo' = <<>> \o <<Do("last", b)>>
    BY <1>1, <1>3, <1>a DEF AtTakeOut
  <2> QED BY <2>1, <2>2 DEF AfterStart
<1>7. Joins(R, b, <<>>)'
  BY <1>1, <1>3, <1>5 DEF Joins, AtTakeOut
<1>8. Appending(R, b, <<>>)'
  BY <1>4, <1>6 DEF Appending, Linked
<1>9. TypeList'
  BY <1>1, <1>3 DEF TypeList
<1>10. Joining'
  BY <1>0, <1>3, <1>6, <1>7, <1>8 DEF Joining
<1> QED BY <1>3, <1>9, <1>10 DEF ListInv, Same

LEMMA FindLastKeeps ==
    ASSUME ListInv, FindLast
    PROVE  ListInv' /\ Same /\ order' = order
<1>1. TypeList /\ AtJoin /\ Now("last")
  BY AtWhich DEF FindLast
<1>2. PICK R \in Lists, b \in Blocks : \E rest \in AfterStart(R, AwakeNow) :
        Tail(todo) = rest /\ Joins(R, b, rest) /\ This = b /\ Linked(R)
  BY <1>1 DEF AtJoin, Now
<1>3. PICK rest \in AfterStart(R, AwakeNow) :
        Tail(todo) = rest /\ Joins(R, b, rest) /\ This = b /\ Linked(R)
  BY <1>2
<1>4. EndOfWalk = EndOf(R) /\ serving = NULL
  BY <1>1, <1>3, Walks DEF AtJoin
<1>5. /\ UNCHANGED <<head, next, order, live, sleepUntil, clock, serving>>
      /\ todo' = <<Do("link", <<EndOf(R), b>>)>> \o rest /\ AwakeNow' = AwakeNow
  BY <1>3, <1>4 DEF FindLast, Continue, heapUnchanged, AwakeNow
<1>6. Joins(R, b, rest)' /\ Appending(R, b, rest)'
  BY <1>3, <1>5 DEF Joins, Appending, Linked
<1>7. Joining'
  BY <1>4, <1>5, <1>6 DEF Joining
<1>8. TypeList'
  BY <1>1, <1>5 DEF TypeList
<1> QED BY <1>5, <1>7, <1>8 DEF ListInv, Same

LEMMA LinkKeeps ==
    ASSUME ListInv, Link
    PROVE  ListInv' /\ Same /\ order' = order
<1>1. TypeList /\ AtJoin /\ Now("link")
  BY AtWhich DEF Link
<1>2. PICK R \in Lists, b \in Blocks : \E rest \in AfterStart(R, AwakeNow) :
        Tail(todo) = rest /\ Joins(R, b, rest) /\ This = <<EndOf(R), b>> /\ Linked(R)
  BY <1>1 DEF AtJoin, Now
<1>3. PICK rest \in AfterStart(R, AwakeNow) :
        Tail(todo) = rest /\ Joins(R, b, rest) /\ This = <<EndOf(R), b>> /\ Linked(R)
  BY <1>2
<1>4. serving = NULL /\ next \in [Blocks -> Pointers] /\ b \notin ToSet(R)
      /\ Chain(R, head, next) /\ Closed(R, next) /\ head \in Pointers
  BY <1>1, <1>3 DEF AtJoin, TypeList, Joins, Linked
<1>5. /\ UNCHANGED <<order, live, sleepUntil, clock, serving>>
      /\ todo' = <<Do("terminate", b)>> \o rest /\ AwakeNow' = AwakeNow
      /\ IF EndOf(R) = NULL THEN head' = b /\ next' = next
         ELSE next' = [next EXCEPT ![EndOf(R)] = b] /\ head' = head
  BY <1>3 DEF Link, Continue, heapUnchanged, AwakeNow
<1>6. Chain(Append(R, b), head', next')
  <2>1. /\ EndOf(R) = NULL => Chain(Append(R, b), b, next)
        /\ EndOf(R) # NULL => Chain(Append(R, b), head, [next EXCEPT ![EndOf(R)] = b])
    BY <1>4, LinkChain, Zenon
  <2> QED BY <1>5, <2>1, Zenon
<1>7. head' \in Pointers /\ next' \in [Blocks -> Pointers]
  <2>1. EndOf(R) # NULL => EndOf(R) \in Blocks
    BY <1>4, LinkChain
  <2>2. b \in Pointers
    BY DEF Pointers
  <2> QED BY <1>4, <1>5, <2>1, <2>2
<1>8. Joins(R, b, rest)' /\ Appending(R, b, rest)'
  BY <1>3, <1>5, <1>6 DEF Joins, Appending
<1>9. Joining'
  BY <1>4, <1>5, <1>8 DEF Joining
<1>10. TypeList'
  BY <1>1, <1>5, <1>7 DEF TypeList
<1> QED BY <1>5, <1>9, <1>10 DEF ListInv, Same

\* What is left behind a "start" may be left behind any statement.
LEMMA RestStays ==
    ASSUME NEW R \in Lists, NEW W
    PROVE  AfterStart(R, W) \subseteq AfterList(R, W)
<1>1. R = <<>> => ToSet(R) = {}
  BY NoFrees, EmptySeq
<1>2. ASSUME NEW r \in AfterStart(R, W) PROVE r \in AfterList(R, W)
  <2>1. \/ r = <<>> \/ r \in Moves(R) \/ r \in Aborts(R, W)
        \/ \E x \in W : (R # <<>> => R[1] = x) /\ r = DeleteOf(x)
    BY DEF AfterStart
  <2>2. CASE r = <<>> \/ r \in Moves(R) \/ r \in Aborts(R, W)
    BY <2>2 DEF AfterList
  <2>3. CASE \E x \in W : (R # <<>> => R[1] = x) /\ r = DeleteOf(x)
    BY <1>1, <2>3 DEF AfterList
  <2> QED BY <2>1, <2>2, <2>3
<1> QED BY <1>2

\* It does as well when one more interaction is behind the others.
LEMMA RestEnds ==
    ASSUME NEW R \in Lists, NEW b \in Blocks, NEW W
    PROVE  AfterStart(R, W) \subseteq AfterList(Append(R, b), W)
<1> DEFINE L == Append(R, b)
<1>1. L # <<>> /\ (R # <<>> => L[1] = R[1]) /\ (R = <<>> => ToSet(L) = {b} /\ L[1] = b)
  <2>1. R \in Seq(Blocks)
    BY DEF Lists
  <2>2. ToSet(L) = ToSet(R) \cup {b} /\ L[1] = (IF R = <<>> THEN b ELSE R[1]) /\ L # <<>>
    BY <2>1, AppendSet
  <2>3. R = <<>> => ToSet(R) = {}
    BY NoFrees, EmptySeq
  <2> QED BY <2>2, <2>3
<1> HIDE DEF L
<1>2. ASSUME NEW r \in AfterStart(R, W) PROVE r \in AfterList(L, W)
  <2>1. \/ r = <<>> \/ r \in Moves(R) \/ r \in Aborts(R, W)
        \/ \E x \in W : (R # <<>> => R[1] = x) /\ r = DeleteOf(x)
    BY DEF AfterStart
  <2>2. CASE r = <<>>
    BY <2>2 DEF AfterList
  <2>3. CASE \E x \in W : (R # <<>> => R[1] = x) /\ r = DeleteOf(x)
    <3>1. PICK x \in W : (R # <<>> => R[1] = x) /\ r = DeleteOf(x)
      BY <2>3
    <3>2. x \in ToSet(L) => L[1] = x
      BY <1>1, <3>1
    <3> QED BY <3>1, <3>2 DEF AfterList
  <2>4. CASE r \in Moves(R)
    <3>1. r \in Moves(L)
      BY <1>1, <2>4 DEF Moves
    <3> QED BY <3>1 DEF AfterList
  <2>5. CASE r \in Aborts(R, W)
    <3>1. R # <<>>
      BY <2>5 DEF Aborts, Others
    <3>2. L[1] = R[1] /\ Others(L, W) = Others(R, W)
      BY <1>1, <3>1 DEF Others
    <3>3. r \in Aborts(L, W)
      BY <2>5, <3>2 DEF Aborts
    <3> QED BY <3>3 DEF AfterList
  <2> QED BY <2>1, <2>2, <2>3, <2>4, <2>5
<1> QED BY <1>2 DEF L

LEMMA TerminateKeeps ==
    ASSUME ListInv, Terminate
    PROVE  /\ ListInv' /\ Same
           /\ \/ \E b \in Blocks : b \notin ToSet(order) /\ sleepUntil[b] = 0
                                     /\ order' = Append(order, b)
              \/ order # <<>> /\ order' = Append(Tail(order), Head(order))
<1>1. TypeList /\ AtJoin /\ Now("terminate")
  BY AtWhich DEF Terminate
<1>2. PICK R \in Lists, b \in Blocks : \E rest \in AfterStart(R, AwakeNow) :
        /\ Tail(todo) = rest /\ Joins(R, b, rest)
        /\ This = b /\ Chain(Append(R, b), head, next)
  BY <1>1 DEF AtJoin, Now
<1>3. PICK rest \in AfterStart(R, AwakeNow) :
        /\ Tail(todo) = rest /\ Joins(R, b, rest)
        /\ This = b /\ Chain(Append(R, b), head, next)
  BY <1>2
<1> DEFINE L == Append(R, b)
<1>4. /\ serving = NULL /\ next \in [Blocks -> Pointers] /\ b \notin ToSet(R)
      /\ R \in Seq(Blocks) /\ live = ToSet(R) \cup {b} /\ AwakeNow \subseteq Blocks
  BY <1>1, <1>3 DEF AtJoin, TypeList, Joins, Lists, AwakeNow
<1>5. /\ UNCHANGED <<head, live, sleepUntil, clock, serving>>
      /\ next' = [next EXCEPT ![b] = NULL] /\ todo' = <<>> \o rest /\ AwakeNow' = AwakeNow
      /\ order' = Walk'
  BY <1>3 DEF Terminate, Continue, Complete, heapUnchanged, AwakeNow
<1>6. ToSet(L) = ToSet(R) \cup {b} /\ L # <<>> /\ L[Len(L)] = b
  BY <1>4, AppendSet
<1>7. next' \in [Blocks -> Pointers]
  BY <1>4, <1>5 DEF Pointers
<1> HIDE DEF L
<1>8. Chain(L, head', next') /\ Closed(L, next')
  <2>1. Chain(L, head, next)
    BY <1>3 DEF L
  <2>2. Chain(L, head, [next EXCEPT ![b] = NULL]) /\ Closed(L, [next EXCEPT ![b] = NULL])
    BY <1>4, <1>6, <2>1, ClearChain
  <2> QED BY <1>5, <2>2
<1>9. order' = L /\ Linked(order)'
  BY <1>5, <1>7, <1>8, WalksThen DEF Linked
<1>10. todo' = rest /\ rest \in AfterList(L, AwakeNow)
  <2>1. rest \in Seq(Statements)
    BY <1>4, RestType
  <2> QED BY <1>5, <2>1, RestEnds DEF L
<1>11. Steady'
  BY <1>4, <1>5, <1>6, <1>9, <1>10, SteadyThen
<1>12. TypeList'
  BY <1>1, <1>5, <1>7 DEF TypeList
<1>13. CASE order = R /\ sleepUntil[b] = 0
  BY <1>4, <1>5, <1>9, <1>11, <1>12, <1>13 DEF ListInv, Same, L
<1>14. CASE order = <<b>> \o R
  <2>1. order # <<>> /\ Head(order) = b /\ Tail(order) = R
    BY <1>4, <1>14
  <2> QED BY <1>5, <1>9, <1>11, <1>12, <2>1 DEF ListInv, Same, L
<1> QED BY <1>3, <1>13, <1>14 DEF Joins

LEMMA DetachKeeps ==
    ASSUME ListInv, Detach
    PROVE  ListInv' /\ Same /\ order' = <<>>
<1>1. TypeList /\ AtDetach /\ Now("detach")
  BY AtWhich DEF Detach
<1>2. /\ Walk = order /\ order \in Lists /\ live = ToSet(order) /\ serving = NULL
      /\ Tail(todo) \in AfterList(<<>>, AwakeNow)
  BY <1>1, Walks DEF AtDetach
<1>3. PICK F, rest : F = order /\ rest = Tail(todo)
  OBVIOUS
<1>4. /\ UNCHANGED <<next, live, sleepUntil, clock, serving>> /\ head' = NULL
      /\ todo' = Frees(F) \o rest /\ AwakeNow' = AwakeNow /\ order' = Walk'
  BY <1>2, <1>3 DEF Detach, Continue, Complete, Frees, heapUnchanged, AwakeNow
<1>5. Chain(<<>>, head', next') /\ Closed(<<>>, next')
  BY <1>4 DEF Chain, Closed
<1>6. order' = <<>> /\ Linked(order)'
  BY <1>1, <1>4, <1>5, WalksThen DEF TypeList, Linked
<1>7. ToSet(order') = {}
  BY <1>6, NoFrees, EmptySeq
<1>8. /\ F \in Lists /\ rest \in AfterList(order', AwakeNow')
      /\ ToSet(F) \cap ToSet(order') = {} /\ live' = ToSet(order') \cup ToSet(F)
  BY <1>2, <1>3, <1>4, <1>6, <1>7
<1>9. Steady'
  BY <1>2, <1>4, <1>6, <1>8 DEF Steady
<1>10. TypeList'
  BY <1>1, <1>4 DEF TypeList, Pointers
<1> QED BY <1>4, <1>6, <1>9, <1>10 DEF ListInv, Same

LEMMA StartKeeps ==
    ASSUME ListInv, StartInteraction
    PROVE  /\ ListInv' /\ order' = order /\ clock' = clock
           /\ \A k \in DOMAIN order : sleepUntil'[order[k]] = sleepUntil[order[k]]
<1>1. TypeList /\ AtStart /\ Now("start")
  BY AtWhich DEF StartInteraction
<1>2. /\ order \in Lists /\ order \in Seq(Blocks) /\ live = ToSet(order) /\ serving = NULL
      /\ Linked(order) /\ Tail(todo) \in AfterStart(order, AwakeNow)
  BY <1>1, Walks DEF AtStart
<1>3. UNCHANGED <<head, clock, serving, order>> /\ AwakeNow \subseteq Blocks
  BY DEF StartInteraction, AwakeNow
<1>4. PICK rest \in AfterStart(order, AwakeNow) : rest = Tail(todo)
  BY <1>2
<1>5. rest \in Seq(Statements)
  BY <1>3, RestType
<1>6. CASE live = Blocks
  <2>1. UNCHANGED <<live, next, sleepUntil>> /\ todo' = <<>> \o rest /\ AwakeNow' = AwakeNow
    BY <1>3, <1>4, <1>6 DEF StartInteraction, Continue, AwakeNow
  <2>2. Linked(order)'
    BY <1>2, <1>3, <2>1 DEF Linked
  <2>3. rest \in AfterList(order', AwakeNow') /\ todo' = rest
    <3>1. rest \in AfterList(order, AwakeNow)
      BY <1>2, <1>4, RestStays
    <3> QED BY <1>3, <1>5, <2>1, <3>1
  <2>4. Steady'
    BY <1>2, <1>3, <2>1, <2>2, <2>3, SteadyThen
  <2>5. TypeList'
    BY <1>1, <1>3, <2>1 DEF TypeList
  <2> QED BY <1>3, <2>1, <2>4, <2>5 DEF ListInv
<1>7. CASE live # Blocks
  <2>1. PICK b \in Blocks \ live :
            /\ live' = live \cup {b}
            /\ next' = [next EXCEPT ![b] = NULL]
            /\ sleepUntil' = [sleepUntil EXCEPT ![b] = 0]
            /\ todo' = AppendOf(b) \o rest
    BY <1>4, <1>7 DEF StartInteraction, Continue
  <2>2. TypeList'
    BY <1>1, <1>3, <2>1 DEF TypeList, Pointers
  <2>3. AwakeNow \subseteq AwakeNow'
    BY <1>1, <1>3, <2>1 DEF AwakeNow, TypeList
  <2>4. rest \in AfterStart(order, AwakeNow')
    BY <2>3, RestGrows
  <2>5. Linked(order)'
    <3>1. next \in [Blocks -> Pointers] /\ Chain(order, head, next) /\ Closed(order, next)
      BY <1>1, <1>2 DEF TypeList, Linked
    <3>2. Chain(order, head, [next EXCEPT ![b] = NULL]) /\ Closed(order, [next EXCEPT ![b] = NULL])
      BY <1>2, <2>1, <3>1, ClearChain
    <3> QED BY <1>3, <2>1, <3>2 DEF Linked
  <2>6. \A k \in DOMAIN order : order[k] # b
    BY <1>2, <2>1 DEF ToSet
  <2>7. \A k \in DOMAIN order : sleepUntil'[order[k]] = sleepUntil[order[k]]
    BY <1>1, <1>2, <2>1, <2>6 DEF TypeList
  <2>8. PICK R \in Lists : R = order
    BY <1>2
  <2>9. Joins(R, b, rest)'
    BY <1>1, <1>2, <1>3, <2>1, <2>8 DEF Joins, TypeList
  <2>10. Appending(R, b, rest)'
    BY <1>3, <2>1, <2>5, <2>8 DEF Appending, AppendOf, Linked
  <2>11. Joining'
    BY <1>2, <1>3, <2>1, <2>4, <2>8, <2>9, <2>10 DEF Joining
  <2> QED BY <1>3, <2>2, <2>7, <2>11 DEF ListInv
<1> QED BY <1>6, <1>7

\* A handler may have started an interaction first.
LEMMA HandlerThen ==
    ASSUME NEW L \in Lists, NEW W, NEW r \in AfterStart(L, W), r \in Seq(Statements),
           NEW before \in HandlerDoes
    PROVE  \E rest \in AfterList(L, W) : before \o r = rest
<1>1. CASE before = <<>>
  <2>1. before \o r = r
    BY <1>1
  <2> QED BY <2>1, RestStays
<1>2. CASE before = <<Do("start", NULL)>>
  BY <1>2 DEF AfterList
<1> QED BY <1>1, <1>2 DEF HandlerDoes

\* A call of CoAP_doWork changes the sleep of the first interaction at most.
LEMMA doWorkKeeps ==
    ASSUME ListInv, doWork
    PROVE  /\ ListInv' /\ UNCHANGED <<order, clock>>
           /\ \/ sleepUntil' = sleepUntil
              \/ /\ order # <<>> /\ order[1] \in AwakeNow
                 /\ \E s \in Waits : sleepUntil' = [sleepUntil EXCEPT ![order[1]] = clock + s]
<1>1. TypeList /\ AtQuiet /\ Quiet
  BY AtWhich DEF doWork, WorkRotate, WorkBegin, WorkKeep, WorkEnqueue, WorkCancel, WorkDelete
<1>2. /\ order \in Lists /\ live = ToSet(order) /\ Linked(order)
      /\ head = IF order = <<>> THEN NULL ELSE order[1]
      /\ order # <<>> => order[1] \in Blocks /\ order[1] \in ToSet(order)
      /\ AwakeNow \subseteq Blocks
      /\ serving # NULL => order # <<>> /\ serving = order[1] /\ serving \in AwakeNow
  BY <1>1, Walks DEF AtQuiet, AwakeNow
<1>3. UNCHANGED <<head, next, live, clock, order>> /\ Linked(order)'
  BY <1>2 DEF doWork, WorkRotate, WorkBegin, WorkKeep, WorkEnqueue, WorkCancel, WorkDelete,
              listUnchanged, Linked
<1>4. UNCHANGED sleepUntil => AwakeNow' = AwakeNow
  BY <1>3 DEF AwakeNow
<1>5. ASSUME UNCHANGED sleepUntil, serving' \in Pointers PROVE TypeList'
  BY <1>1, <1>3, <1>5 DEF TypeList
<1>6. \A L, W : <<>> \in AfterList(L, W)
  BY DEF AfterList
<1>7. NULL \in Pointers
  BY DEF Pointers
<1>8. CASE WorkRotate
  <2>1. /\ UNCHANGED <<sleepUntil, serving>> /\ serving = NULL /\ order # <<>>
        /\ todo' = MoveOf(order[1])
    BY <1>2, <1>8 DEF WorkRotate
  <2>2. MoveOf(order[1]) \in AfterList(order', AwakeNow')
    BY <1>2, <1>3, <2>1 DEF AfterList, Moves
  <2>3. Steady'
    BY <1>2, <1>3, <1>4, <2>1, <2>2, SteadyThen
  <2> QED BY <1>3, <1>5, <1>7, <2>1, <2>3 DEF ListInv
<1>9. CASE WorkBegin
  <2>1. /\ UNCHANGED <<sleepUntil, todo>> /\ order # <<>> /\ serving' = order[1]
        /\ todo = <<>> /\ order[1] \in AwakeNow /\ serving' \in Pointers
    BY <1>1, <1>2, <1>9 DEF WorkBegin, Asleep, timeAfter, AwakeNow, Quiet, TypeList, Pointers
  <2>2. Steady'
    BY <1>2, <1>3, <1>4, <1>6, <2>1, SteadyThen
  <2> QED BY <1>3, <1>5, <2>1, <2>2 DEF ListInv
<1>10. CASE WorkKeep
  <2>1. UNCHANGED <<sleepUntil, todo>> /\ serving' = NULL /\ todo = <<>>
    BY <1>1, <1>10 DEF WorkKeep, Quiet
  <2>2. Steady'
    BY <1>2, <1>3, <1>4, <1>6, <2>1, SteadyThen
  <2> QED BY <1>3, <1>5, <1>7, <2>1, <2>2 DEF ListInv
<1>11. CASE WorkEnqueue
  <2>1. /\ serving = order[1] /\ order # <<>> /\ order[1] \in AwakeNow /\ serving' = NULL
        /\ \E before \in HandlerDoes : todo' = before \o MoveOf(order[1])
        /\ \/ UNCHANGED sleepUntil
           \/ \E s \in Waits : sleepUntil' = [sleepUntil EXCEPT ![order[1]] = clock + s]
    BY <1>2, <1>11 DEF WorkEnqueue, Return
  <2>2. sleepUntil' \in [Blocks -> Nat]
    BY <1>1, <1>2, <2>1, WaitsAssumption DEF TypeList
  <2>3. TypeList'
    BY <1>1, <1>3, <1>7, <2>1, <2>2 DEF TypeList
  <2>4. order[1] \in Blocks /\ MoveOf(order[1]) \in AfterStart(order', AwakeNow')
    BY <1>2, <1>3, <2>1 DEF AfterStart, Moves
  <2>5. AwakeNow' \subseteq Blocks
    BY DEF AwakeNow
  <2>6. PICK rest \in AfterList(order', AwakeNow') : todo' = rest
    <3>1. PICK before \in HandlerDoes : todo' = before \o MoveOf(order[1])
      BY <2>1
    <3>2. MoveOf(order[1]) \in Seq(Statements) /\ order' \in Lists
      BY <1>2, <1>3, <2>4, OperationType
    <3> QED BY <2>4, <3>1, <3>2, HandlerThen
  <2>7. Steady'
    BY <1>2, <1>3, <2>1, <2>5, <2>6, SteadyThen
  <2> QED BY <1>3, <2>1, <2>3, <2>7 DEF ListInv
<1>a. CASE WorkCancel
  <2>1. /\ serving = order[1] /\ order # <<>> /\ order[1] \in AwakeNow /\ serving' = NULL
        /\ UNCHANGED sleepUntil
        /\ \E before \in HandlerDoes, b \in Blocks \ {order[1]} :
            \/ todo' = before \o (DeleteOf(b) \o MoveOf(order[1]))
            \/ todo' = before \o (DeleteOf(b) \o DeleteOf(order[1]))
    BY <1>2, <1>a DEF WorkCancel, Return
  <2>2. PICK before \in HandlerDoes, b \in Blocks \ {order[1]} :
            \/ todo' = before \o (DeleteOf(b) \o MoveOf(order[1]))
            \/ todo' = before \o (DeleteOf(b) \o DeleteOf(order[1]))
    BY <2>1
  <2>3. order[1] \in Blocks /\ b \in Others(order', AwakeNow')
    BY <1>2, <1>3, <1>4, <2>1, <2>2 DEF Others
  <2>4. PICK r \in {DeleteOf(b) \o MoveOf(order[1]), DeleteOf(b) \o DeleteOf(order[1])} :
            todo' = before \o r
    BY <2>2
  <2>5. r \in AfterStart(order', AwakeNow') /\ r \in Seq(Statements)
    <3>1. r \in Aborts(order', AwakeNow')
      BY <1>3, <2>3, <2>4 DEF Aborts
    <3>2. AwakeNow' \subseteq Blocks
      BY DEF AwakeNow
    <3> QED BY <3>1, <3>2, AbortType DEF AfterStart
  <2>6. PICK rest \in AfterList(order', AwakeNow') : todo' = rest
    BY <1>2, <1>3, <2>4, <2>5, HandlerThen
  <2>7. Steady'
    BY <1>2, <1>3, <1>4, <2>1, <2>6, SteadyThen
  <2> QED BY <1>3, <1>5, <1>7, <2>1, <2>7 DEF ListInv
<1>12. CASE WorkDelete
  <2>1. /\ serving = order[1] /\ order # <<>> /\ order[1] \in AwakeNow /\ serving' = NULL
        /\ UNCHANGED sleepUntil
        /\ \/ todo' = DeleteOf(order[1])
           \/ \E what \in Callbacks : todo' = CallbackDoes(what) \o DeleteOf(order[1])
    BY <1>2, <1>12 DEF WorkDelete, Return
  <2>2. PICK b \in AwakeNow : b = order[1]
    BY <2>1
  <2> DEFINE rest == DeleteOf(b)
             renew == <<Do("start", NULL)>> \o rest
  <2>3. /\ rest \in AfterStart(order, AwakeNow') /\ rest \in AfterList(order, AwakeNow')
        /\ rest \in AfterList(<<>>, AwakeNow') /\ rest \in AfterStart(<<>>, AwakeNow')
    <3>1. b \notin ToSet(<<>>)
      BY NoFrees, EmptySeq
    <3> QED BY <1>4, <2>1, <2>2, <3>1 DEF AfterStart, AfterList
  <2>4. renew \in AfterList(order, AwakeNow') /\ renew \in AfterList(<<>>, AwakeNow')
    BY <2>3 DEF AfterList
  <2>5. rest \in Seq(Statements) /\ Do("start", NULL) \in Statements
        /\ ClearOf \in Seq(Statements)
    BY <1>2, <2>2, StatementType DEF DeleteOf, ClearOf
  <2>6. CASE todo' = rest
    <3> HIDE DEF rest
    <3>1. Steady'
      BY <1>2, <1>3, <1>4, <2>1, <2>3, <2>6, SteadyThen
    <3> QED BY <1>3, <1>5, <1>7, <2>1, <3>1 DEF ListInv
  <2>7. CASE todo' = renew
    <3> HIDE DEF renew
    <3>1. Steady'
      BY <1>2, <1>3, <1>4, <2>1, <2>4, <2>7, SteadyThen
    <3> QED BY <1>3, <1>5, <1>7, <2>1, <3>1 DEF ListInv
  <2>8. CASE todo' = ClearOf \o rest \/ todo' = ClearOf \o renew
    <3> HIDE DEF rest, renew
    <3>1. Detaching'
      BY <1>2, <1>3, <2>1, <2>3, <2>4, <2>8 DEF Detaching
    <3> QED BY <1>3, <1>5, <1>7, <2>1, <3>1 DEF ListInv
  <2>9. todo' = rest \/ todo' = renew \/ todo' = ClearOf \o rest \/ todo' = ClearOf \o renew
    <3>1. ASSUME NEW what \in Callbacks, todo' = CallbackDoes(what) \o rest
          PROVE  todo' = renew \/ todo' = ClearOf \o rest \/ todo' = ClearOf \o renew
      <4>1. what = "start" \/ what = "clear" \/ what = "renew"
        BY CallbacksAssumption
      <4>2. CASE what = "start"
        <5>1. CallbackDoes(what) = <<>> \o <<Do("start", NULL)>>
          BY <4>2 DEF CallbackDoes
        <5>2. CallbackDoes(what) = <<Do("start", NULL)>>
          BY <2>5, <5>1
        <5> QED BY <3>1, <5>2
      <4>3. CASE what = "clear"
        <5>1. CallbackDoes(what) = ClearOf \o <<>>
          BY <4>3 DEF CallbackDoes
        <5>2. CallbackDoes(what) = ClearOf
          BY <2>5, <5>1, ConcatEmptySeq
        <5> QED BY <3>1, <5>2
      <4>4. CASE what = "renew"
        <5>1. CallbackDoes(what) = ClearOf \o <<Do("start", NULL)>>
          BY <4>4 DEF CallbackDoes
        <5>2. <<Do("start", NULL)>> \in Seq(Statements)
          BY <2>5
        <5>3. (ClearOf \o <<Do("start", NULL)>>) \o rest = ClearOf \o renew
          BY <2>5, <5>2, ConcatAssociative
        <5> QED BY <3>1, <5>1, <5>3
      <4> QED BY <4>1, <4>2, <4>3, <4>4
    <3> QED BY <2>1, <2>2, <3>1
  <2> QED BY <2>6, <2>7, <2>8, <2>9
<1> QED BY <1>8, <1>9, <1>10, <1>11, <1>12, <1>a DEF doWork

LEMMA ApplicationKeeps ==
    ASSUME ListInv, ApplicationCalls
    PROVE  ListInv' /\ Same /\ order' = order
<1>1. TypeList /\ AtQuiet /\ serving = NULL
  BY AtWhich DEF ApplicationCalls, BetweenCalls
<1>2. /\ UNCHANGED <<head, next, live, sleepUntil, clock, serving, order>>
      /\ live = ToSet(order) /\ Linked(order) /\ AwakeNow' = AwakeNow
      /\ \E what \in {"start", "clear"} : todo' = CallbackDoes(what)
  BY <1>1 DEF ApplicationCalls, listUnchanged, AtQuiet, AwakeNow
<1>3. Linked(order)' /\ TypeList' /\ AwakeNow' \subseteq Blocks
  BY <1>1, <1>2 DEF Linked, TypeList, AwakeNow
<1>4. \A L, W : <<>> \in AfterList(L, W) /\ <<>> \in AfterStart(L, W)
  BY DEF AfterList, AfterStart
<1>5. /\ <<Do("start", NULL)>> \in Seq(Statements) /\ ClearOf \in Seq(Statements)
      /\ CallbackDoes("start") = <<>> \o <<Do("start", NULL)>>
      /\ CallbackDoes("clear") = ClearOf \o <<>>
  BY StatementType DEF ClearOf, CallbackDoes
<1>6. CASE todo' = CallbackDoes("start")
  <2> DEFINE rest == <<Do("start", NULL)>> \o <<>>
  <2>1. todo' = rest
    BY <1>5, <1>6, ConcatEmptySeq
  <2>2. rest \in AfterList(order', AwakeNow')
    BY <1>4 DEF AfterList
  <2> HIDE DEF rest
  <2>3. Steady'
    BY <1>1, <1>2, <1>3, <2>1, <2>2, SteadyThen
  <2> QED BY <1>2, <1>3, <2>3 DEF ListInv, Same
<1>7. CASE todo' = CallbackDoes("clear")
  <2>1. todo' = ClearOf \o <<>>
    BY <1>5, <1>7
  <2>2. Detaching'
    BY <1>1, <1>2, <1>3, <1>4, <2>1 DEF Detaching
  <2> QED BY <1>2, <1>3, <2>2 DEF ListInv, Same
<1> QED BY <1>2, <1>6, <1>7

LEMMA PacketStartsKeeps ==
    ASSUME ListInv, Interrupts = FALSE, PacketStarts
    PROVE  /\ ListInv' /\ clock' = clock
           /\ \E b \in Blocks : /\ b \notin ToSet(order) /\ order' = Append(order, b)
                                /\ sleepUntil' = [sleepUntil EXCEPT ![b] = 0]
<1>1. TypeList /\ AtQuiet /\ serving = NULL /\ todo = <<>>
  BY AtWhich DEF PacketStarts, MayArrive, BetweenCalls, Quiet
<1>2. PICK R \in Lists : R = order
  BY <1>1, Walks DEF AtQuiet
<1>3. /\ R \in Seq(Blocks) /\ live = ToSet(R) /\ EndOfWalk = EndOf(R) /\ EndOf(R) \in Pointers
      /\ Chain(R, head, next) /\ Closed(R, next) /\ next \in [Blocks -> Pointers]
      /\ head = IF R = <<>> THEN NULL ELSE R[1]
      /\ R # <<>> => R[1] # NULL
  BY <1>1, <1>2, Walks DEF AtQuiet, Linked, TypeList
<1>4. PICK b \in Blocks \ live :
        /\ live' = live \cup {b}
        /\ sleepUntil' = [sleepUntil EXCEPT ![b] = 0]
        /\ head' = IF head = NULL THEN b ELSE head
        /\ next' = [a \in Blocks |-> IF a = b THEN NULL
                                     ELSE IF a = EndOfWalk THEN b ELSE next[a]]
  BY <1>3 DEF PacketStarts
<1>5. UNCHANGED <<clock, serving, todo>> /\ order' = Walk'
  BY DEF PacketStarts, Complete
<1>6. b \notin ToSet(R) /\ b # NULL
  BY <1>3, <1>4, BlocksAssumption
<1> DEFINE L == Append(R, b)
           nx == IF EndOf(R) = NULL THEN next ELSE [next EXCEPT ![EndOf(R)] = b]
<1>7. next' = [nx EXCEPT ![b] = NULL] /\ nx \in [Blocks -> Pointers]
  <2>1. EndOf(R) # NULL => EndOf(R) \in Blocks
    BY <1>3 DEF Pointers
  <2>2. NULL \notin Blocks /\ b \in Pointers
    BY BlocksAssumption DEF Pointers
  <2>3. next' = [a \in Blocks |-> IF a = b THEN NULL
                                  ELSE IF a = EndOf(R) THEN b ELSE next[a]]
    BY <1>3, <1>4, Zenon
  <2> QED BY <1>3, <2>1, <2>2, <2>3
<1>8. Chain(L, head', nx)
  <2>1. /\ EndOf(R) = NULL => R = <<>> /\ Chain(L, b, next)
        /\ EndOf(R) # NULL => R # <<>> /\ Chain(L, head, [next EXCEPT ![EndOf(R)] = b])
    BY <1>3, <1>6, LinkChain, Zenon
  <2>2. CASE EndOf(R) = NULL
    BY <1>3, <1>4, <2>1, <2>2
  <2>3. CASE EndOf(R) # NULL
    BY <1>3, <1>4, <2>1, <2>3
  <2> QED BY <2>2, <2>3
<1>9. ToSet(L) = ToSet(R) \cup {b} /\ L # <<>> /\ L[Len(L)] = b
  BY <1>3, AppendSet
<1> HIDE DEF L, nx
<1>10. Chain(L, head', next') /\ Closed(L, next')
  <2>1. Chain(L, head', [nx EXCEPT ![b] = NULL]) /\ Closed(L, [nx EXCEPT ![b] = NULL])
    BY <1>7, <1>8, <1>9, ClearChain
  <2> QED BY <1>7, <2>1
<1>11. next' \in [Blocks -> Pointers] /\ head' \in Pointers
  BY <1>1, <1>4, <1>7 DEF TypeList, Pointers
<1>12. order' = L /\ Linked(order)'
  BY <1>5, <1>10, <1>11, WalksThen DEF Linked
<1>13. <<>> \in AfterList(order', AwakeNow') /\ AwakeNow' \subseteq Blocks
  BY DEF AfterList, AwakeNow
<1>14. Steady'
  BY <1>1, <1>3, <1>4, <1>5, <1>9, <1>12, <1>13, SteadyThen
<1>15. TypeList'
  BY <1>1, <1>4, <1>5, <1>11 DEF TypeList
<1> QED BY <1>2, <1>4, <1>5, <1>6, <1>12, <1>14, <1>15 DEF ListInv, L

LEMMA PacketWakesKeeps ==
    ASSUME ListInv, Interrupts = FALSE, PacketWakes
    PROVE  /\ ListInv' /\ UNCHANGED <<order, clock>>
           /\ \E k \in DOMAIN order : sleepUntil' = [sleepUntil EXCEPT ![order[k]] = 0]
<1>1. TypeList /\ AtQuiet /\ serving = NULL /\ todo = <<>>
  BY AtWhich DEF PacketWakes, MayArrive, BetweenCalls, Quiet
<1>2. Walk = order /\ order \in Seq(Blocks) /\ live = ToSet(order) /\ Linked(order)
  BY <1>1, Walks DEF AtQuiet
<1>3. UNCHANGED <<head, next, live, clock, serving, todo, order>>
  BY DEF PacketWakes, listUnchanged
<1>4. PICK k \in DOMAIN order : sleepUntil' = [sleepUntil EXCEPT ![order[k]] = 0]
  BY <1>2 DEF PacketWakes, ToSet
<1>5. TypeList'
  BY <1>1, <1>3, <1>4 DEF TypeList
<1>6. Linked(order)' /\ <<>> \in AfterList(order', AwakeNow') /\ AwakeNow' \subseteq Blocks
  BY <1>2, <1>3 DEF Linked, AfterList, AwakeNow
<1>7. Steady'
  BY <1>1, <1>2, <1>3, <1>6, SteadyThen
<1> QED BY <1>3, <1>4, <1>5, <1>7 DEF ListInv

LEMMA TimePassesKeeps ==
    ASSUME ListInv, clock' \in {clock, clock + 1},
           UNCHANGED <<head, next, live, sleepUntil, serving, todo, order>>
    PROVE  ListInv'
<1>1. TypeList /\ TypeList'
  BY DEF ListInv, TypeList
<1>2. AwakeNow \subseteq AwakeNow'
  BY <1>1 DEF AwakeNow, TypeList
<1>3. \A L : Linked(L) => Linked(L)'
  BY DEF Linked
<1>4. CASE Steady
  <2>1. PICK F \in Lists :
            /\ ToSet(F) \cap ToSet(order) = {}
            /\ live = ToSet(order) \cup ToSet(F)
            /\ \E rest \in AfterList(order, AwakeNow) : todo = Frees(F) \o rest
    BY <1>4 DEF Steady
  <2>2. PICK rest \in AfterList(order, AwakeNow) : todo = Frees(F) \o rest
    BY <2>1
  <2>3. rest \in AfterList(order', AwakeNow') /\ todo' = Frees(F) \o rest
    BY <1>2, <2>2, RestGrows
  <2>4. Steady'
    BY <1>2, <1>3, <1>4, <2>1, <2>3 DEF Steady
  <2> QED BY <1>1, <2>4 DEF ListInv
<1>5. CASE Detaching
  <2>1. PICK rest \in AfterList(<<>>, AwakeNow) : todo = ClearOf \o rest
    BY <1>5 DEF Detaching
  <2>2. rest \in AfterList(<<>>, AwakeNow') /\ todo' = ClearOf \o rest
    BY <1>2, <2>1, RestGrows
  <2>3. Detaching'
    BY <1>3, <1>5, <2>2 DEF Detaching
  <2> QED BY <1>1, <2>3 DEF ListInv
<1>7. CASE Joining
  <2>1. PICK R \in Lists, b \in Blocks : \E rest \in AfterStart(R, AwakeNow) :
            Joins(R, b, rest) /\ Appending(R, b, rest)
    BY <1>7 DEF Joining
  <2>2. PICK rest \in AfterStart(R, AwakeNow) : Joins(R, b, rest) /\ Appending(R, b, rest)
    BY <2>1
  <2>3. rest \in AfterStart(R, AwakeNow')
    BY <1>2, RestGrows
  <2>4. Joins(R, b, rest)' /\ Appending(R, b, rest)'
    BY <1>3, <2>2 DEF Joins, Appending
  <2>5. Joining'
    BY <1>7, <2>3, <2>4 DEF Joining
  <2> QED BY <1>1, <2>5 DEF ListInv
<1> QED BY <1>4, <1>5, <1>7 DEF ListInv

LEMMA InitKeeps == Init => ListInv
<1> SUFFICES ASSUME Init PROVE ListInv
  OBVIOUS
<1>1. TypeList
  BY DEF Init, TypeList, Pointers
<1>2. Linked(order)
  BY DEF Init, Linked, Chain, Closed
<1>3. <<>> \in AfterList(order, AwakeNow) /\ <<>> \in Seq(Statements)
  BY DEF AfterList
<1>4. <<>> \in Lists /\ ToSet(<<>>) = {} /\ todo = Frees(<<>>) \o <<>>
  BY <1>3, NoFrees DEF Init
<1>5. Steady
  BY <1>2, <1>3, <1>4 DEF Steady, Init
<1> QED BY <1>1, <1>5 DEF ListInv

\* Between two calls all that was started is in the list, each once.
LEMMA InvariantShows == ListInv => NoInteractionLost
<1> SUFFICES ASSUME ListInv, BetweenCalls PROVE ToSet(Walk) = live /\ Ends
  BY DEF NoInteractionLost
<1>1. TypeList /\ AtQuiet
  BY AtWhich DEF BetweenCalls
<1> QED BY <1>1, Walks DEF AtQuiet

LEMMA NextKeeps == ListInv /\ Interrupts = FALSE /\ [Next]_vars => ListInv'
<1> SUFFICES ASSUME ListInv, Interrupts = FALSE, [Next]_vars PROVE ListInv'
  OBVIOUS
<1>1. CASE Statement
  BY <1>1, UnlinkKeeps, FreeKeeps, TakeOutKeeps, FindLastKeeps, LinkKeeps, TerminateKeeps,
     DetachKeeps, StartKeeps DEF Statement
<1>2. CASE doWork
  BY <1>2, doWorkKeeps
<1>3. CASE ApplicationCalls
  BY <1>3, ApplicationKeeps
<1>4. CASE PacketStarts \/ PacketWakes
  BY <1>4, PacketStartsKeeps, PacketWakesKeeps
<1>5. CASE Tick \/ UNCHANGED vars
  BY <1>5, TimePassesKeeps DEF Tick, vars
<1> QED BY <1>1, <1>2, <1>3, <1>4, <1>5 DEF Next

LEMMA ListInvariant ==
    ASSUME Interrupts = FALSE
    PROVE  Spec => []ListInv
<1>1. ListInv /\ [Next]_vars => ListInv'
  BY NextKeeps
<1> QED BY <1>1, InitKeeps, PTL DEF Spec

\* While packets are not handled in an interrupt, the list holds exactly the
\* interactions that exist whenever no call is under way, and it ends: nothing is
\* lost on the way to the end, stays linked after it was freed or closes a cycle,
\* by what doWork, RespCB, the application and the network do to it, by a handler
\* that starts a notification or by a cancellation that aborts one in any place.
THEOREM NothingLost ==
    ASSUME Interrupts = FALSE
    PROVE  Spec => []NoInteractionLost
<1>1. Spec => []ListInv
  BY ListInvariant
<1> QED BY <1>1, InvariantShows, PTL

-----------------------------------------------------------------------------
(* The list implements the queue of CoapSchedule. *)

Left(b, sleeps, now) == IF sleeps[b] >= now THEN sleeps[b] - now ELSE -1

Item(b, sleeps, now) == [ia |-> b, sleepLeft |-> Left(b, sleeps, now)]

QueueOf(L, sleeps, now) == [k \in DOMAIN L |-> Item(L[k], sleeps, now)]

Entry == [ia : Blocks, sleepLeft : Nat \cup {-1}]

LEMMA QueueIs ==
    Queue = QueueOf(order, sleepUntil, clock) /\ Queue' = QueueOf(order', sleepUntil', clock')
BY DEF Queue, QueueOf, Item, SleepLeft, Left

LEMMA QueueAt ==
    ASSUME NEW L, NEW sleeps, NEW now
    PROVE  \A k \in DOMAIN L : QueueOf(L, sleeps, now)[k] = Item(L[k], sleeps, now)
BY DEF QueueOf

LEMMA QueueType ==
    ASSUME NEW L \in Seq(Blocks), NEW sleeps \in [Blocks -> Nat], NEW now \in Nat
    PROVE  QueueOf(L, sleeps, now) \in Seq(Entry) /\ Len(QueueOf(L, sleeps, now)) = Len(L)
<1> DEFINE q == QueueOf(L, sleeps, now)
<1>1. DOMAIN L = 1 .. Len(L) /\ Len(L) \in Nat /\ \A k \in 1 .. Len(L) : L[k] \in Blocks
  OBVIOUS
<1>2. \A k \in 1 .. Len(L) : Left(L[k], sleeps, now) \in Nat \cup {-1}
  BY <1>1 DEF Left
<1>3. \A k \in 1 .. Len(L) : Item(L[k], sleeps, now) \in Entry
  BY <1>1, <1>2 DEF Entry, Item
<1>4. q = [k \in 1 .. Len(L) |-> Item(L[k], sleeps, now)]
  BY <1>1 DEF QueueOf
<1>5. q \in [1 .. Len(L) -> Entry]
  BY <1>3, <1>4
<1> QED BY <1>1, <1>5

LEMMA OrderIsList == ListInv => order \in Seq(Blocks) /\ sleepUntil \in [Blocks -> Nat] /\ clock \in Nat
<1> SUFFICES ASSUME ListInv PROVE order \in Seq(Blocks)
  BY DEF ListInv, TypeList
<1>1. Linked(order) => order \in Seq(Blocks)
  BY DEF Linked, Chain
<1>2. ASSUME Joining PROVE order \in Seq(Blocks)
  <2>1. PICK R \in Lists, b \in Blocks : order = R \/ order = <<b>> \o R
    BY <1>2 DEF Joining, Joins
  <2> QED BY <2>1 DEF Lists
<1> QED BY <1>1, <1>2 DEF ListInv, Steady, Detaching

\* Nothing happens to the queue.
LEMMA QueueStutters ==
    ASSUME ListInv, ListInv', UNCHANGED <<order, clock>>,
           \A k \in DOMAIN order : sleepUntil'[order[k]] = sleepUntil[order[k]]
    PROVE  Queue' = Queue
<1>1. \A k \in DOMAIN order : Left(order[k], sleepUntil', clock') = Left(order[k], sleepUntil, clock)
  BY DEF Left
<1> QED BY <1>1, QueueIs DEF QueueOf, Item

LEMMA QueueAppends ==
    ASSUME ListInv, ListInv', clock' = clock, NEW b \in Blocks, b \notin ToSet(order),
           order' = Append(order, b), sleepUntil'[b] = 0,
           \A k \in DOMAIN order : sleepUntil'[order[k]] = sleepUntil[order[k]]
    PROVE  Schedule!Next
<1>1. /\ order \in Seq(Blocks) /\ sleepUntil \in [Blocks -> Nat] /\ clock \in Nat
      /\ sleepUntil' \in [Blocks -> Nat] /\ Append(order, b) \in Seq(Blocks)
  BY OrderIsList DEF ListInv, TypeList
<1>a. PICK then : then = sleepUntil'
  OBVIOUS
<1>2. PICK s : s = Left(b, then, clock)
  OBVIOUS
<1>3. s \in Schedule!JustWoken /\ s \in Nat \cup {-1}
  BY <1>1, <1>2, <1>a DEF Left, Schedule!JustWoken
<1> DEFINE e == [ia |-> b, sleepLeft |-> s]
           q == QueueOf(order, sleepUntil, clock)
           p == QueueOf(Append(order, b), then, clock)
<1>4. e \in Entry
  BY <1>3 DEF Entry
<1>5. /\ q \in Seq(Entry) /\ Len(q) = Len(order)
      /\ p \in Seq(Entry) /\ Len(p) = Len(order) + 1
  <2>1. q \in Seq(Entry) /\ Len(q) = Len(order)
        /\ p \in Seq(Entry) /\ Len(p) = Len(Append(order, b))
    BY <1>1, <1>a, QueueType, Zenon
  <2>2. Len(Append(order, b)) = Len(order) + 1
    BY <1>1
  <2> QED BY <2>1, <2>2
<1>6. ASSUME NEW k \in 1 .. Len(p) PROVE p[k] = Append(q, e)[k]
  <2>1. k \in 1 .. Len(Append(order, b)) /\ Len(order) \in Nat
    BY <1>1, <1>5
  <2>2. p[k] = Item(Append(order, b)[k], then, clock)
    <3>1. k \in DOMAIN Append(order, b)
      BY <1>1, <2>1
    <3> DEFINE L == Append(order, b)
    <3>2. k \in DOMAIN L
      BY <3>1
    <3> HIDE DEF L
    <3>3. QueueOf(L, then, clock)[k] = Item(L[k], then, clock)
      BY <3>2, QueueAt
    <3> QED BY <3>3 DEF L
  <2>3. CASE k = Len(order) + 1
    <3>1. Append(order, b)[k] = b
      BY <1>1, <2>3
    <3>2. Append(q, e)[k] = e
      BY <1>4, <1>5, <2>3
    <3> QED BY <1>2, <2>2, <3>1, <3>2 DEF Item
  <2>4. CASE k # Len(order) + 1
    <3>1. k \in 1 .. Len(order) /\ k \in DOMAIN order
      BY <1>1, <1>5, <2>1, <2>4
    <3>2. Append(order, b)[k] = order[k]
      BY <1>1, <3>1
    <3>3. Left(order[k], then, clock) = Left(order[k], sleepUntil, clock)
      BY <1>a, <3>1 DEF Left
    <3>4. q[k] = Item(order[k], sleepUntil, clock)
      BY <1>1, <3>1, QueueAt
    <3>5. Append(q, e)[k] = q[k]
      BY <1>4, <1>5, <3>1
    <3> QED BY <2>2, <3>2, <3>3, <3>4, <3>5 DEF Item
  <2> QED BY <2>3, <2>4
<1>7. b \notin {q[k].ia : k \in DOMAIN q}
  <2>1. ASSUME NEW k \in DOMAIN q PROVE q[k].ia = order[k] /\ k \in DOMAIN order
    <3>1. k \in 1 .. Len(order) /\ k \in DOMAIN order
      BY <1>1, <1>5
    <3>2. q[k] = Item(order[k], sleepUntil, clock)
      BY <1>1, <3>1, QueueAt
    <3> QED BY <3>1, <3>2 DEF Item
  <2> QED BY <2>1 DEF ToSet
<1> HIDE DEF e, q, p
<1>8. p = Append(q, e)
  <2>1. Append(q, e) \in Seq(Entry) /\ Len(p) = Len(Append(q, e))
    BY <1>4, <1>5
  <2> QED BY <1>5, <1>6, <2>1, SeqEqual, Zenon
<1>9. Queue = q /\ Queue' = Append(Queue, e)
  BY <1>8, <1>a, QueueIs DEF q, p
<1>10. Schedule!Append1(b)
  BY <1>3, <1>7, <1>9 DEF Schedule!Append1, Schedule!Listed, e
<1> QED BY <1>10 DEF Schedule!Next

LEMMA QueueShortens ==
    ASSUME NEW L \in Seq(Blocks), L # <<>>, NEW sleeps \in [Blocks -> Nat], NEW now \in Nat
    PROVE  QueueOf(Tail(L), sleeps, now) = Tail(QueueOf(L, sleeps, now))
<1> DEFINE q == QueueOf(L, sleeps, now)
           p == QueueOf(Tail(L), sleeps, now)
<1>1. Tail(L) \in Seq(Blocks) /\ Len(L) \in Nat \ {0} /\ Len(Tail(L)) = Len(L) - 1
      /\ \A k \in 1 .. Len(L) - 1 : Tail(L)[k] = L[k + 1] /\ k + 1 \in 1 .. Len(L)
  OBVIOUS
<1>2. /\ q \in Seq(Entry) /\ Len(q) = Len(L)
      /\ p \in Seq(Entry) /\ Len(p) = Len(L) - 1
      /\ \A k \in 1 .. Len(L) - 1 :
           p[k] = Item(Tail(L)[k], sleeps, now)
      /\ \A k \in 1 .. Len(L) : q[k] = Item(L[k], sleeps, now)
  <2>1. q \in Seq(Entry) /\ Len(q) = Len(L) /\ p \in Seq(Entry) /\ Len(p) = Len(Tail(L))
    BY <1>1, QueueType, Zenon
  <2>2. /\ \A k \in 1 .. Len(Tail(L)) :
             p[k] = Item(Tail(L)[k], sleeps, now)
        /\ \A k \in 1 .. Len(L) : q[k] = Item(L[k], sleeps, now)
    <3>1. DOMAIN L = 1 .. Len(L) /\ DOMAIN Tail(L) = 1 .. Len(Tail(L))
      BY <1>1
    <3>2. ASSUME NEW k \in 1 .. Len(L) PROVE q[k] = Item(L[k], sleeps, now)
      BY <3>1, QueueAt
    <3>3. ASSUME NEW k \in 1 .. Len(Tail(L)) PROVE p[k] = Item(Tail(L)[k], sleeps, now)
      <4>1. k \in DOMAIN Tail(L)
        BY <3>1
      <4> QED BY <4>1, QueueAt, Zenon
    <3> HIDE DEF q, p
    <3> QED BY <3>2, <3>3
  <2> HIDE DEF q, p
  <2> QED BY <1>1, <2>1, <2>2
<1> HIDE DEF q, p
<1>3. Tail(q) \in Seq(Entry) /\ Len(Tail(q)) = Len(p)
      /\ \A k \in 1 .. Len(L) - 1 : Tail(q)[k] = q[k + 1]
  BY <1>1, <1>2
<1>4. \A k \in 1 .. Len(p) : p[k] = Tail(q)[k]
  BY <1>1, <1>2, <1>3
<1>5. p = Tail(q)
  BY <1>2, <1>3, <1>4, SeqEqual, Zenon
<1> QED BY <1>5 DEF p, q

LEMMA QueueDeletes ==
    ASSUME ListInv, ListInv', UNCHANGED <<sleepUntil, clock>>,
           order # <<>>, order[1] \in AwakeNow, order' = Tail(order)
    PROVE  Schedule!Next
<1>1. order \in Seq(Blocks) /\ sleepUntil \in [Blocks -> Nat] /\ clock \in Nat
  BY OrderIsList
<1>2. Queue' = Tail(Queue)
  BY <1>1, QueueIs, QueueShortens
<1>3. 1 \in 1 .. Len(order)
  BY <1>1
<1>4. Queue[1].sleepLeft = -1 /\ Queue # <<>>
  <2>1. Left(order[1], sleepUntil, clock) = -1
    BY <1>1 DEF AwakeNow, Left
  <2>2. Queue[1] = Item(order[1], sleepUntil, clock)
        /\ Len(Queue) = Len(order) /\ Queue \in Seq(Entry)
    BY <1>1, <1>3, QueueIs, QueueType, QueueAt
  <2> QED BY <1>3, <2>1, <2>2 DEF Item
<1>5. Schedule!DeleteHead
  BY <1>2, <1>4 DEF Schedule!DeleteHead
<1> QED BY <1>4, <1>5 DEF Schedule!Next

LEMMA QueueRemoves ==
    ASSUME NEW L \in Seq(Blocks), NEW k \in 1 .. Len(L), NEW sleeps \in [Blocks -> Nat],
           NEW now \in Nat
    PROVE  QueueOf(RemoveAt(L, k), sleeps, now) = RemoveAt(QueueOf(L, sleeps, now), k)
<1> DEFINE q == QueueOf(L, sleeps, now)
           M == RemoveAt(L, k)
           p == QueueOf(M, sleeps, now)
           n == Len(L)
<1>1. n \in Nat /\ k \in 1 .. n /\ DOMAIN L = 1 .. n
  OBVIOUS
<1>2. M \in Seq(Blocks) /\ Len(M) = n - 1
      /\ \A i \in 1 .. n - 1 : M[i] = IF i < k THEN L[i] ELSE L[i + 1]
  BY RemoveAtIs, Zenon
<1> HIDE DEF M
<1>3. q \in Seq(Entry) /\ Len(q) = n /\ \A i \in 1 .. n : q[i] = Item(L[i], sleeps, now)
  BY <1>1, QueueType, QueueAt
<1>4. p \in Seq(Entry) /\ Len(p) = n - 1 /\ \A i \in 1 .. n - 1 : p[i] = Item(M[i], sleeps, now)
  <2>1. DOMAIN M = 1 .. n - 1
    BY <1>1, <1>2
  <2>2. p \in Seq(Entry) /\ Len(p) = Len(M)
    BY <1>2, QueueType, Zenon
  <2>3. \A i \in DOMAIN M : p[i] = Item(M[i], sleeps, now)
    BY QueueAt, Zenon
  <2> HIDE DEF p
  <2> QED BY <1>2, <2>1, <2>2, <2>3
<1> HIDE DEF q, p, n
<1>5. RemoveAt(q, k) \in Seq(Entry) /\ Len(RemoveAt(q, k)) = n - 1
      /\ \A i \in 1 .. n - 1 : RemoveAt(q, k)[i] = IF i < k THEN q[i] ELSE q[i + 1]
  BY <1>1, <1>3, RemoveAtIs
<1>6. ASSUME NEW i \in 1 .. Len(p) PROVE p[i] = RemoveAt(q, k)[i]
  <2>1. i \in 1 .. n - 1 /\ i \in 1 .. n /\ i + 1 \in 1 .. n
    BY <1>1, <1>4
  <2>2. CASE i < k
    BY <1>2, <1>3, <1>4, <1>5, <2>1, <2>2
  <2>3. CASE ~(i < k)
    BY <1>2, <1>3, <1>4, <1>5, <2>1, <2>3
  <2> QED BY <2>2, <2>3
<1>7. p = RemoveAt(q, k)
  <2>1. Len(p) = Len(RemoveAt(q, k))
    BY <1>4, <1>5
  <2> QED BY <1>4, <1>5, <1>6, <2>1, SeqEqual, Zenon
<1> QED BY <1>7 DEF p, q, M

LEMMA QueueAborts ==
    ASSUME ListInv, ListInv', UNCHANGED <<sleepUntil, clock>>,
           order # <<>>, order[1] \in AwakeNow, NEW k \in 2 .. Len(order),
           order' = RemoveAt(order, k)
    PROVE  Schedule!Next
<1>1. order \in Seq(Blocks) /\ sleepUntil \in [Blocks -> Nat] /\ clock \in Nat
  BY OrderIsList
<1>2. k \in 1 .. Len(order) /\ 1 \in 1 .. Len(order)
  BY <1>1
<1>3. Queue' = RemoveAt(Queue, k)
  BY <1>1, <1>2, QueueIs, QueueRemoves
<1>4. Queue[1].sleepLeft = -1 /\ k \in 2 .. Len(Queue)
  <2>1. Left(order[1], sleepUntil, clock) = -1
    BY <1>1 DEF AwakeNow, Left
  <2>2. Queue[1] = Item(order[1], sleepUntil, clock)
        /\ Len(Queue) = Len(order) /\ Queue \in Seq(Entry)
    BY <1>1, <1>2, QueueIs, QueueType, QueueAt
  <2> QED BY <2>1, <2>2 DEF Item
<1>5. Schedule!DeleteBehind(k)
  BY <1>3, <1>4, Zenon DEF Schedule!DeleteBehind, Schedule!RemoveAt, RemoveAt
<1> QED BY <1>4, <1>5, Zenon DEF Schedule!Next

LEMMA QueueRotates ==
    ASSUME ListInv, ListInv', UNCHANGED <<sleepUntil, clock>>,
           order # <<>>, order' = Append(Tail(order), Head(order))
    PROVE  Schedule!Next
<1>1. order \in Seq(Blocks) /\ sleepUntil \in [Blocks -> Nat] /\ clock \in Nat
  BY OrderIsList
<1> DEFINE t == Tail(order)
           h == Head(order)
           q == QueueOf(order, sleepUntil, clock)
           p == QueueOf(Append(t, h), sleepUntil, clock)
<1>2. t \in Seq(Blocks) /\ h \in Blocks /\ h = order[1] /\ Append(t, h) \in Seq(Blocks)
      /\ Len(t) \in Nat /\ Len(order) = Len(t) + 1 /\ Len(Append(t, h)) = Len(t) + 1
      /\ 1 \in 1 .. Len(order)
  BY <1>1
<1> HIDE DEF t, h
<1>3. /\ q \in Seq(Entry) /\ Len(q) = Len(t) + 1
      /\ p \in Seq(Entry) /\ Len(p) = Len(t) + 1
      /\ q[1] = Item(h, sleepUntil, clock)
      /\ Tail(q) = QueueOf(t, sleepUntil, clock)
  <2>1. /\ q \in Seq(Entry) /\ Len(q) = Len(order)
        /\ p \in Seq(Entry) /\ Len(p) = Len(Append(t, h))
        /\ q[1] = Item(order[1], sleepUntil, clock)
    <3>1. 1 \in DOMAIN order
      BY <1>1, <1>2
    <3>2. q[1] = Item(order[1], sleepUntil, clock)
      BY <3>1, QueueAt
    <3> QED BY <1>1, <1>2, <3>2, QueueType, Zenon
  <2>2. Tail(q) = QueueOf(t, sleepUntil, clock)
    BY <1>1, QueueShortens, Zenon DEF t
  <2> HIDE DEF q, p
  <2> QED BY <1>2, <2>1, <2>2
<1> DEFINE u == Append(Tail(q), Head(q))
<1>4. Tail(q) \in Seq(Entry) /\ Len(Tail(q)) = Len(t) /\ Head(q) = q[1] /\ q[1] \in Entry /\ q # <<>>
  BY <1>2, <1>3
<1>5. u \in Seq(Entry) /\ Len(u) = Len(p)
  BY <1>2, <1>3, <1>4
<1>6. ASSUME NEW k \in 1 .. Len(p) PROVE p[k] = u[k]
  <2>1. p[k] = Item(Append(t, h)[k], sleepUntil, clock)
    <3>1. k \in DOMAIN Append(t, h)
      BY <1>2, <1>3
    <3> QED BY <3>1, QueueAt
  <2>2. CASE k = Len(t) + 1
    <3>1. Append(t, h)[k] = h
      BY <1>2, <2>2
    <3>2. u[k] = q[1]
      BY <1>2, <1>4, <2>2
    <3> QED BY <1>3, <2>1, <3>1, <3>2
  <2>3. CASE k # Len(t) + 1
    <3>1. k \in 1 .. Len(t)
      BY <1>2, <1>3, <2>3
    <3>2. Append(t, h)[k] = t[k] /\ u[k] = Tail(q)[k]
      BY <1>2, <1>4, <3>1
    <3>3. QueueOf(t, sleepUntil, clock)[k] = Item(t[k], sleepUntil, clock)
      BY <1>1, <1>2, <3>1, QueueAt
    <3> QED BY <1>3, <2>1, <3>2, <3>3
  <2> QED BY <2>2, <2>3
<1>7. Queue = q /\ Queue' = p
  BY QueueIs DEF t, h
<1> HIDE DEF q, p
<1>8. p = u
  <2> HIDE DEF u
  <2> QED BY <1>3, <1>5, <1>6, SeqEqual, Zenon
<1>9. Schedule!MoveToEnd
  BY <1>7, <1>8 DEF Schedule!MoveToEnd
<1> QED BY <1>4, <1>7, <1>9 DEF Schedule!Next

\* The sleep of one interaction of the list changes.
LEMMA QueueChangesOne ==
    ASSUME ListInv, Quiet, UNCHANGED <<order, clock>>, NEW i \in DOMAIN order, NEW v \in Nat,
           sleepUntil' = [sleepUntil EXCEPT ![order[i]] = v]
    PROVE  \E s \in Nat \cup {-1} :
             /\ s = Left(order[i], sleepUntil', clock)
             /\ Queue' = [Queue EXCEPT ![i].sleepLeft = s]
             /\ v = 0 => s \in Schedule!JustWoken
<1>1. /\ order \in Lists /\ order \in Seq(Blocks) /\ sleepUntil \in [Blocks -> Nat] /\ clock \in Nat
  BY AtWhich, Walks, OrderIsList DEF AtQuiet
<1>2. PICK then, b : then = [sleepUntil EXCEPT ![b] = v] /\ b = order[i] /\ then = sleepUntil'
  OBVIOUS
<1>3. /\ b \in Blocks /\ then[b] = v /\ then \in [Blocks -> Nat]
      /\ \A k \in DOMAIN order : order[k] \in Blocks /\ (k # i => order[k] # b)
  BY <1>1, <1>2 DEF Lists
<1> DEFINE s == Left(b, then, clock)
<1>4. s \in Nat \cup {-1} /\ (v = 0 => s \in Schedule!JustWoken)
  BY <1>1, <1>3 DEF Left, Schedule!JustWoken
<1>5. \A k \in DOMAIN order : k # i => Left(order[k], then, clock) = Left(order[k], sleepUntil, clock)
  BY <1>1, <1>2, <1>3 DEF Left
<1>6. /\ \A k \in DOMAIN order : Queue[k] = Item(order[k], sleepUntil, clock)
      /\ Queue = [k \in DOMAIN order |-> Item(order[k], sleepUntil, clock)]
      /\ Queue' = [k \in DOMAIN order |-> Item(order[k], then, clock)]
  BY <1>2, QueueIs DEF QueueOf
<1>7. DOMAIN Queue = DOMAIN order
  BY <1>6
<1>8. [Queue EXCEPT ![i].sleepLeft = s]
        = [k \in DOMAIN order |-> IF k = i THEN [Queue[i] EXCEPT !.sleepLeft = s] ELSE Queue[k]]
  BY <1>6, <1>7
<1>9. [Queue[i] EXCEPT !.sleepLeft = s] = Item(b, then, clock)
  BY <1>2, <1>6 DEF Item
<1>10. \A k \in DOMAIN order : k # i => Item(order[k], then, clock) = Queue[k]
  BY <1>5, <1>6 DEF Item
<1>11. Queue' = [Queue EXCEPT ![i].sleepLeft = s]
  <2> HIDE DEF s
  <2> QED BY <1>2, <1>6, <1>8, <1>9, <1>10
<1> QED BY <1>2, <1>4, <1>11

LEMMA QueueSetsSleep ==
    ASSUME ListInv, ListInv', Quiet, UNCHANGED <<order, clock>>,
           order # <<>>, order[1] \in AwakeNow, NEW v \in Nat,
           sleepUntil' = [sleepUntil EXCEPT ![order[1]] = v]
    PROVE  Schedule!Next
<1>1. order \in Seq(Blocks) /\ sleepUntil \in [Blocks -> Nat] /\ clock \in Nat
  BY OrderIsList
<1>2. 1 \in DOMAIN order
  BY <1>1
<1>3. PICK s \in Nat \cup {-1} : Queue' = [Queue EXCEPT ![1].sleepLeft = s]
  BY <1>2, QueueChangesOne
<1>4. Queue \in Seq(Entry) /\ Len(Queue) = Len(order) /\ DOMAIN Queue = DOMAIN order
  BY <1>1, QueueIs, QueueType
<1>5. Queue[1] = Item(order[1], sleepUntil, clock) /\ Queue[1] \in Entry
  BY <1>2, <1>4, QueueIs, QueueAt
<1>6. Queue[1].sleepLeft = -1
  BY <1>1, <1>5 DEF AwakeNow, Left, Item
<1>7. [Queue[1] EXCEPT !.sleepLeft = s] \in Entry
  BY <1>5 DEF Entry
<1>8. Queue' \in Seq(Entry) /\ Len(Queue') = Len(Queue) /\ Queue'[1].sleepLeft = s
  BY <1>2, <1>3, <1>4, <1>5, <1>7 DEF Entry
<1>9. Schedule!SetSleep
  BY <1>3, <1>6, <1>8 DEF Schedule!SetSleep, Schedule!Entry, Entry
<1>10. Queue # <<>>
  BY <1>2, <1>4
<1> QED BY <1>9, <1>10 DEF Schedule!Next

LEMMA QueueWakes ==
    ASSUME ListInv, Quiet, UNCHANGED <<order, clock>>, NEW k \in DOMAIN order,
           sleepUntil' = [sleepUntil EXCEPT ![order[k]] = 0]
    PROVE  Schedule!Next
<1>1. PICK s : Queue' = [Queue EXCEPT ![k].sleepLeft = s] /\ s \in Schedule!JustWoken
  BY QueueChangesOne
<1>2. k \in DOMAIN Queue
  BY QueueIs DEF QueueOf
<1>3. Schedule!Wakeup(k)
  BY <1>1 DEF Schedule!Wakeup
<1> QED BY <1>2, <1>3 DEF Schedule!Next

LEMMA QueueTicks ==
    ASSUME ListInv, Tick
    PROVE  Schedule!Next
<1>1. /\ order \in Seq(Blocks) /\ sleepUntil \in [Blocks -> Nat] /\ clock \in Nat
      /\ \A k \in DOMAIN order : order[k] \in Blocks
  BY OrderIsList
<1>2. clock' = clock + 1 /\ UNCHANGED <<order, sleepUntil>>
  BY DEF Tick
<1>3. ASSUME NEW k \in DOMAIN order
      PROVE  Item(order[k], sleepUntil, clock + 1)
               = [Item(order[k], sleepUntil, clock) EXCEPT !.sleepLeft = IF @ = -1 THEN -1 ELSE @ - 1]
  <2>1. Left(order[k], sleepUntil, clock + 1)
          = IF Left(order[k], sleepUntil, clock) = -1 THEN -1
            ELSE Left(order[k], sleepUntil, clock) - 1
    <3>1. sleepUntil[order[k]] \in Nat
      BY <1>1
    <3> QED BY <1>1, <3>1 DEF Left
  <2> QED BY <2>1 DEF Item
<1>4. /\ \A k \in DOMAIN order : Queue[k] = Item(order[k], sleepUntil, clock)
      /\ DOMAIN Queue = DOMAIN order
      /\ Queue' = [k \in DOMAIN order |-> Item(order[k], sleepUntil, clock + 1)]
  BY <1>2, QueueIs DEF QueueOf
<1>5. Queue' = [k \in DOMAIN Queue |->
                  [Queue[k] EXCEPT !.sleepLeft = IF @ = -1 THEN -1 ELSE @ - 1]]
  BY <1>3, <1>4
<1>6. Schedule!Tick
  BY <1>5 DEF Schedule!Tick
<1> QED BY <1>6 DEF Schedule!Next

LEMMA InitQueue == Init => Schedule!Init
BY DEF Init, Schedule!Init, Queue

LEMMA NextQueue ==
    ListInv /\ Interrupts = FALSE /\ [Next]_vars => [Schedule!Next]_Queue
<1> SUFFICES ASSUME ListInv, Interrupts = FALSE, [Next]_vars PROVE [Schedule!Next]_Queue
  OBVIOUS
<1>1. ListInv'
  BY NextKeeps
<1>2. UNCHANGED <<order, sleepUntil, clock>> => [Schedule!Next]_Queue
  BY <1>1, QueueStutters
<1>3. CASE Unlink
  <2>1. CASE \E k \in 2 .. Len(order) : order' = RemoveAt(order, k)
                                       /\ order # <<>> /\ order[1] \in AwakeNow
    BY <1>1, <1>3, <2>1, UnlinkKeeps, QueueAborts DEF Same
  <2>2. CASE \/ order' = order
             \/ order # <<>> /\ order[1] \in AwakeNow /\ order' = Tail(order)
    BY <1>1, <1>2, <1>3, <2>2, UnlinkKeeps, QueueDeletes DEF Same
  <2> QED BY <1>3, <2>1, <2>2, UnlinkKeeps
<1>4. CASE Free \/ TakeOut \/ FindLast \/ Link
  BY <1>2, <1>4, FreeKeeps, TakeOutKeeps, FindLastKeeps, LinkKeeps DEF Same
<1>5. CASE Terminate
  <2>1. CASE order # <<>> /\ order' = Append(Tail(order), Head(order))
    BY <1>1, <1>5, <2>1, TerminateKeeps, QueueRotates DEF Same
  <2>2. CASE \E b \in Blocks : b \notin ToSet(order) /\ sleepUntil[b] = 0
                                 /\ order' = Append(order, b)
    BY <1>1, <1>5, <2>2, TerminateKeeps, QueueAppends DEF Same
  <2> QED BY <1>5, <2>1, <2>2, TerminateKeeps
<1>6. CASE Detach
  <2>1. Queue' = <<>>
    BY <1>6, DetachKeeps DEF Queue
  <2> QED BY <2>1 DEF Schedule!Clear, Schedule!Next
<1>7. CASE StartInteraction
  BY <1>1, <1>7, StartKeeps, QueueStutters
<1>8. CASE doWork
  <2>1. Quiet
    BY <1>8 DEF doWork, WorkRotate, WorkBegin, WorkKeep, WorkEnqueue, WorkCancel, WorkDelete
  <2>2. CASE order # <<>> /\ order[1] \in AwakeNow
             /\ \E s \in Waits : sleepUntil' = [sleepUntil EXCEPT ![order[1]] = clock + s]
    <3>1. PICK s \in Waits : sleepUntil' = [sleepUntil EXCEPT ![order[1]] = clock + s]
      BY <2>2
    <3>2. clock + s \in Nat
      BY WaitsAssumption, OrderIsList
    <3> QED BY <1>1, <1>8, <2>1, <2>2, <3>1, <3>2, doWorkKeeps, QueueSetsSleep
  <2> QED BY <1>2, <1>8, <2>2, doWorkKeeps
<1>9. CASE ApplicationCalls
  BY <1>2, <1>9, ApplicationKeeps DEF Same
<1>10. CASE PacketStarts
  <2>1. PICK b \in Blocks : /\ b \notin ToSet(order) /\ order' = Append(order, b)
                            /\ sleepUntil' = [sleepUntil EXCEPT ![b] = 0]
    BY <1>10, PacketStartsKeeps
  <2>2. /\ sleepUntil'[b] = 0 /\ clock' = clock
        /\ \A k \in DOMAIN order : sleepUntil'[order[k]] = sleepUntil[order[k]]
    <3>1. order \in Seq(Blocks) /\ sleepUntil \in [Blocks -> Nat] /\ clock' = clock
      BY <1>10, OrderIsList, PacketStartsKeeps
    <3>2. \A k \in DOMAIN order : order[k] \in Blocks /\ order[k] # b
      BY <2>1, <3>1 DEF ToSet
    <3> QED BY <2>1, <3>1, <3>2
  <2> QED BY <1>1, <2>1, <2>2, QueueAppends
<1>11. CASE PacketWakes
  <2>1. Quiet
    BY <1>11 DEF PacketWakes, MayArrive, BetweenCalls
  <2> QED BY <1>11, <2>1, PacketWakesKeeps, QueueWakes
<1>12. CASE Tick
  BY <1>12, QueueTicks
<1>13. CASE UNCHANGED vars
  BY <1>2, <1>13 DEF vars
<1> QED
  BY <1>3, <1>4, <1>5, <1>6, <1>7, <1>8, <1>9, <1>10, <1>11, <1>12, <1>13 DEF Next, Statement

\* While packets are not handled in an interrupt, the pointers and the absolute
\* times implement the queue of CoapSchedule: of an operation on the list only
\* its outcome is seen; what is put to sleep, moved or deleted is the first
\* interaction, which is awake, or, when a cancellation is served, one behind it
\* is deleted; whatever RespCB or the handler did before to the list.
THEOREM ScheduleImplemented ==
    ASSUME Interrupts = FALSE
    PROVE  Spec => ImplementsSchedule
<1>1. Spec => []ListInv
  BY ListInvariant
<1>2. ListInv /\ [Next]_vars => [Schedule!Next]_Queue
  BY NextQueue
<1> QED BY <1>1, <1>2, InitQueue, PTL DEF Spec, ImplementsSchedule, Schedule!Spec
=============================================================================

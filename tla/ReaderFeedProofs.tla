---------------------------- MODULE ReaderFeedProofs ----------------------------
(* That the feed is whole and the screen agrees with the ledger, for tables,   *)
(* batches and pages of any size and any number of undos at once.              *)
EXTENDS ReaderFeed, FiniteSetTheorems, TLAPS

---------------------------------------------------------------------------
(* Sets in ascending order.                                                *)

Increasing(s) == \A i, j \in DOMAIN s : i < j => s[i] < s[j]

\* The same, but for numbers that may come again.
Ordered(s, again) ==
    \A i, j \in DOMAIN s : i < j => s[i] < s[j] \/ s[j] \in again

\* The rank of an element: how many are no greater.
Rank(S, i) == Cardinality({j \in S : j <= i})

\* Ranks go from one to the size of the set, and grow with the element.
LEMMA RanksAre ==
    ASSUME NEW S \in SUBSET Nat, IsFiniteSet(S)
    PROVE  /\ Cardinality(S) \in Nat
           /\ \A i \in S : Rank(S, i) \in 1..Cardinality(S)
           /\ \A i, j \in S : i < j => Rank(S, i) < Rank(S, j)
<1>1. ASSUME NEW i \in S
      PROVE  /\ IsFiniteSet({j \in S : j <= i})
             /\ Rank(S, i) \in Nat /\ Rank(S, i) <= Cardinality(S) /\ Rank(S, i) # 0
  <2> DEFINE T == {j \in S : j <= i}
  <2>1. IsFiniteSet(T) /\ Cardinality(T) <= Cardinality(S)
    <3>1. T \in SUBSET S
      OBVIOUS
    <3> QED
      BY <3>1, FS_Subset
  <2>2. i \in T
    OBVIOUS
  <2>3. Cardinality(T) \in Nat
    BY <2>1, FS_CardinalityType
  <2>4. Cardinality(T) # 0
    BY <2>1, <2>2, FS_EmptySet
  <2> QED
    BY <2>1, <2>3, <2>4 DEF Rank
<1>2. Cardinality(S) \in Nat
  BY FS_CardinalityType
<1>3. ASSUME NEW i \in S, NEW j \in S, i < j
      PROVE  Rank(S, i) < Rank(S, j)
  <2> DEFINE T == {k \in S : k <= i}
             U == {k \in S : k <= j}
  <2>1. T \in SUBSET U
    <3>1. i \in Nat /\ j \in Nat
      OBVIOUS
    <3>2. ASSUME NEW k \in S, k <= i
          PROVE  k <= j
      <4>1. k \in Nat
        OBVIOUS
      <4> QED
        BY <1>3, <3>1, <3>2, <4>1
    <3> QED
      BY <3>2
  <2>2. j \in U /\ j \notin T
    <3>1. i \in Nat /\ j \in Nat
      OBVIOUS
    <3> QED
      BY <1>3, <3>1
  <2>3. IsFiniteSet(U)
    BY <1>1
  <2>4. Cardinality(T) <= Cardinality(U) /\ Cardinality(U) # Cardinality(T)
    BY <2>1, <2>2, <2>3, FS_Subset
  <2>5. Cardinality(T) \in Nat /\ Cardinality(U) \in Nat
    BY <1>1 DEF Rank
  <2> QED
    BY <2>4, <2>5 DEF Rank
<1>4. ASSUME NEW i \in S
      PROVE  Rank(S, i) \in 1..Cardinality(S)
  <2> DEFINE r == Rank(S, i)
             n == Cardinality(S)
  <2>1. r \in Nat /\ r <= n /\ r # 0 /\ n \in Nat
    BY <1>1, <1>2
  <2> HIDE DEF r, n
  <2>2. r \in 1..n
    BY <2>1
  <2> QED
    BY <2>2 DEF r, n
<1> QED
  BY <1>2, <1>3, <1>4

\* Ascending lists a finite set of numbers, each once, in ascending order.
LEMMA AscendingIs ==
    ASSUME NEW S \in SUBSET Nat, IsFiniteSet(S)
    PROVE  /\ Ascending(S) \in Seq(S)
           /\ DOMAIN Ascending(S) = 1..Cardinality(S) /\ Cardinality(S) \in Nat
           /\ Increasing(Ascending(S))
           /\ \A i \in S : \E k \in DOMAIN Ascending(S) : Ascending(S)[k] = i
<1> DEFINE n == Cardinality(S)
           rank == [i \in S |-> Rank(S, i)]
<1>1. /\ n \in Nat
      /\ \A i \in S : rank[i] \in 1..n
      /\ \A i, j \in S : i < j => rank[i] < rank[j]
  BY RanksAre
<1>2. rank \in [S -> 1..n]
  BY <1>1
<1> HIDE DEF rank
<1>3. \A i, j \in S : rank[i] = rank[j] => i = j
  <2>1. SUFFICES ASSUME NEW i \in S, NEW j \in S, rank[i] = rank[j], i # j
                 PROVE  FALSE
    OBVIOUS
  <2>2. i < j \/ j < i
    BY <2>1
  <2>3. rank[i] \in Nat /\ rank[j] \in Nat
    BY <1>1
  <2> QED
    BY <1>1, <2>1, <2>2, <2>3
<1>4. rank \in Injection(S, 1..n)
  BY <1>2, <1>3 DEF Injection, IsInjective
<1>5. IsFiniteSet(1..n) /\ Cardinality(1..n) = n
  BY <1>1, FS_Interval
<1>6. rank \in Surjection(S, 1..n)
  BY <1>4, <1>5, FS_Injection
<1>7. ASSUME NEW k \in 1..n
      PROVE  \E i \in S : Rank(S, i) = k
  BY <1>6, <1>7 DEF Surjection, rank
<1> DEFINE up == Ascending(S)
<1>8. up = [k \in 1..n |-> CHOOSE i \in S : Rank(S, i) = k]
  BY DEF Ascending, Rank
<1>9. ASSUME NEW k \in 1..n
      PROVE  up[k] \in S /\ Rank(S, up[k]) = k
  BY <1>7, <1>8
<1> HIDE DEF up
<1>10. up \in Seq(S) /\ DOMAIN up = 1..n
  <2>1. up \in [1..n -> S]
    BY <1>8, <1>9
  <2> QED
    BY <1>1, <2>1
<1>11. ASSUME NEW k \in 1..n, NEW l \in 1..n, k < l
       PROVE  up[k] < up[l]
  <2>1. up[k] \in S /\ up[l] \in S /\ Rank(S, up[k]) = k /\ Rank(S, up[l]) = l
    BY <1>9
  <2>2. up[k] \in Nat /\ up[l] \in Nat
    BY <2>1
  <2>3. up[l] # up[k]
    BY <1>11, <2>1
  <2>4. \A i, j \in S : i < j => Rank(S, i) < Rank(S, j)
    BY RanksAre
  <2>5. ~(up[l] < up[k])
    <3>1. ASSUME up[l] < up[k]
          PROVE  FALSE
      <4>1. l < k
        BY <2>1, <2>4, <3>1
      <4> QED
        BY <1>11, <4>1
    <3> QED
      BY <3>1
  <2> QED
    BY <2>2, <2>3, <2>5
<1>12. ASSUME NEW i \in S
       PROVE  \E k \in 1..n : up[k] = i
  <2>1. rank[i] \in 1..n /\ rank[i] = Rank(S, i)
    BY <1>1 DEF rank
  <2>2. up[rank[i]] \in S /\ Rank(S, up[rank[i]]) = Rank(S, i)
    BY <1>9, <2>1
  <2>3. rank[up[rank[i]]] = rank[i]
    BY <2>1, <2>2 DEF rank
  <2>4. up[rank[i]] = i
    BY <1>3, <2>2, <2>3
  <2> QED
    BY <2>1, <2>4
<1> QED
  BY <1>1, <1>10, <1>11, <1>12 DEF Increasing, up

\* Without keeps what is left in its order.
LEMMA WithoutIs ==
    ASSUME NEW T, NEW s \in Seq(T), NEW S
    PROVE  /\ Without(s, S) \in Seq(T)
           /\ \A k \in DOMAIN Without(s, S) :
                 \E i \in DOMAIN s : Without(s, S)[k] = s[i] /\ s[i] \notin S
           /\ \A i \in DOMAIN s : s[i] \notin S =>
                 \E k \in DOMAIN Without(s, S) : Without(s, S)[k] = s[i]
<1> DEFINE left == {i \in DOMAIN s : s[i] \notin S}
           at == Ascending(left)
<1>1. left \in SUBSET Nat /\ IsFiniteSet(left)
  <2>1. DOMAIN s = 1..Len(s) /\ Len(s) \in Nat
    OBVIOUS
  <2>2. IsFiniteSet(DOMAIN s)
    BY <2>1, FS_Interval
  <2>3. left \in SUBSET DOMAIN s
    OBVIOUS
  <2> QED
    BY <2>1, <2>2, <2>3, FS_Subset
<1>2. /\ at \in Seq(left)
      /\ \A i \in left : \E k \in DOMAIN at : at[k] = i
  BY <1>1, AscendingIs
<1>3. Without(s, S) = [k \in DOMAIN at |-> s[at[k]]]
  BY DEF Without
<1> HIDE DEF at
<1>4. \A k \in DOMAIN at : at[k] \in DOMAIN s /\ s[at[k]] \notin S
  BY <1>2
<1>5. Without(s, S) \in Seq(T)
  <2>1. DOMAIN at = 1..Len(at) /\ Len(at) \in Nat
    BY <1>2
  <2>2. Without(s, S) \in [1..Len(at) -> T]
    BY <1>3, <1>4, <2>1
  <2> QED
    BY <2>1, <2>2
<1>6. ASSUME NEW k \in DOMAIN at
      PROVE  \E i \in DOMAIN s : Without(s, S)[k] = s[i] /\ s[i] \notin S
  BY <1>3, <1>4
<1>7. ASSUME NEW i \in DOMAIN s, s[i] \notin S
      PROVE  \E k \in DOMAIN at : Without(s, S)[k] = s[i]
  <2>1. PICK k \in DOMAIN at : at[k] = i
    BY <1>2, <1>7
  <2> QED
    BY <1>3, <2>1
<1>8. DOMAIN Without(s, S) = DOMAIN at
  BY <1>3
<1> QED
  BY <1>5, <1>6, <1>7, <1>8

\* And what is left of a sequence in order is in order.
LEMMA WithoutOrdered ==
    ASSUME NEW T, NEW s \in Seq(T), NEW S, NEW again, Ordered(s, again)
    PROVE  Ordered(Without(s, S), again)
<1> DEFINE left == {i \in DOMAIN s : s[i] \notin S}
           at == Ascending(left)
<1>1. left \in SUBSET Nat /\ IsFiniteSet(left)
  <2>1. DOMAIN s = 1..Len(s) /\ Len(s) \in Nat
    OBVIOUS
  <2>2. IsFiniteSet(DOMAIN s)
    BY <2>1, FS_Interval
  <2>3. left \in SUBSET DOMAIN s
    OBVIOUS
  <2> QED
    BY <2>1, <2>2, <2>3, FS_Subset
<1>2. at \in Seq(left) /\ Increasing(at)
  BY <1>1, AscendingIs
<1>3. Without(s, S) = [k \in DOMAIN at |-> s[at[k]]]
  BY DEF Without
<1> HIDE DEF at
<1>4. ASSUME NEW k \in DOMAIN at, NEW l \in DOMAIN at, k < l
      PROVE  s[at[k]] < s[at[l]] \/ s[at[l]] \in again
  <2>1. at[k] \in DOMAIN s /\ at[l] \in DOMAIN s /\ at[k] < at[l]
    BY <1>2, <1>4 DEF Increasing
  <2> QED
    BY <2>1 DEF Ordered
<1> QED
  BY <1>3, <1>4 DEF Ordered
---------------------------------------------------------------------------
(* Sequences in ascending order.                                           *)

\* What is in a sequence is what stands at one of its places.
LEMMA RangeIs ==
    ASSUME NEW T, NEW s \in Seq(T)
    PROVE  /\ Range(s) \subseteq T
           /\ \A x : x \in Range(s) <=> \E k \in DOMAIN s : s[k] = x
           /\ Range(s) = {} <=> s = <<>>
           /\ Range(<<>>) = {}
<1>1. \A k \in DOMAIN s : s[k] \in T
  OBVIOUS
<1>2. DOMAIN s = {} <=> s = <<>>
  OBVIOUS
<1>3. DOMAIN <<>> = {}
  OBVIOUS
<1>4. Range(s) = {s[k] : k \in DOMAIN s} /\ Range(<<>>) = {<<>>[k] : k \in DOMAIN <<>>}
  BY Zenon DEF Range
<1> QED
  BY <1>1, <1>2, <1>3, <1>4

\* The first of an ascending sequence is its least, the last its greatest.
LEMMA EndsAre ==
    ASSUME NEW s \in Seq(Nat), s # <<>>, Increasing(s)
    PROVE  /\ Head(s) \in Range(s) /\ Last(s) \in Range(s)
           /\ Head(s) = s[1] /\ Last(s) = s[Len(s)]
           /\ \A i \in Range(s) : i \in Nat /\ Head(s) <= i /\ i <= Last(s)
<1>1. /\ DOMAIN s = 1..Len(s) /\ Len(s) \in Nat \ {0}
      /\ \A k \in 1..Len(s) : s[k] \in Nat
  OBVIOUS
<1>2. Head(s) = s[1] /\ Last(s) = s[Len(s)]
  BY DEF Last
<1>3. ASSUME NEW k \in 1..Len(s)
      PROVE  s[1] <= s[k] /\ s[k] <= s[Len(s)]
  <2>1. 1 \in DOMAIN s /\ Len(s) \in DOMAIN s /\ k \in DOMAIN s
    BY <1>1
  <2>2. s[1] \in Nat /\ s[k] \in Nat /\ s[Len(s)] \in Nat
    BY <1>1, <2>1
  <2>3. k = 1 \/ 1 < k
    BY <1>1
  <2>4. k = Len(s) \/ k < Len(s)
    <3>1. k \in Nat /\ k <= Len(s) /\ Len(s) \in Nat
      BY <1>1
    <3> QED
      BY <3>1
  <2>5. 1 < k => s[1] < s[k]
    BY <2>1 DEF Increasing
  <2>6. k < Len(s) => s[k] < s[Len(s)]
    BY <2>1 DEF Increasing
  <2> QED
    BY <2>2, <2>3, <2>4, <2>5, <2>6
<1>4. \A i \in Range(s) : \E k \in 1..Len(s) : s[k] = i
  BY <1>1, RangeIs
<1>5. s[1] \in Range(s) /\ s[Len(s)] \in Range(s)
  BY <1>1, RangeIs
<1> QED
  BY <1>1, <1>2, <1>3, <1>4, <1>5

\* Taking the first off leaves an ascending sequence of the others.
LEMMA TailIs ==
    ASSUME NEW T \in SUBSET Nat, NEW s \in Seq(T), s # <<>>, Increasing(s)
    PROVE  /\ Tail(s) \in Seq(T) /\ Increasing(Tail(s))
           /\ Range(Tail(s)) = Range(s) \ {Head(s)}
           /\ Tail(s) # <<>> => Last(Tail(s)) = Last(s)
           /\ Tail(s) = <<>> => Last(s) = Head(s)
<1> DEFINE t == Tail(s)
<1>1. /\ DOMAIN s = 1..Len(s) /\ Len(s) \in Nat \ {0}
      /\ t \in Seq(T) /\ Len(t) = Len(s) - 1 /\ DOMAIN t = 1..(Len(s) - 1)
      /\ \A k \in 1..(Len(s) - 1) : t[k] = s[k + 1]
      /\ Head(s) = s[1]
  OBVIOUS
<1> HIDE DEF t
<1>2. t = <<>> <=> Len(t) = 0
  BY <1>1
<1>3. ASSUME NEW k \in DOMAIN t, NEW l \in DOMAIN t, k < l
      PROVE  t[k] < t[l]
  <2>1. k + 1 \in DOMAIN s /\ l + 1 \in DOMAIN s /\ k + 1 < l + 1
    BY <1>1, <1>3
  <2>2. s[k + 1] < s[l + 1]
    BY <2>1 DEF Increasing
  <2> QED
    BY <1>1, <2>2
<1>4. ASSUME NEW x
      PROVE  x \in Range(t) <=> x \in Range(s) /\ x # Head(s)
  <2>1. ASSUME NEW k \in DOMAIN t
        PROVE  t[k] \in Range(s) /\ t[k] # s[1]
    <3>1. k + 1 \in DOMAIN s /\ 1 \in DOMAIN s /\ 1 < k + 1
      BY <1>1
    <3>2. s[1] < s[k + 1] /\ s[1] \in Nat /\ s[k + 1] \in Nat
      <4>1. s[1] \in T /\ s[k + 1] \in T
        BY <3>1
      <4> QED
        BY <3>1, <4>1 DEF Increasing
    <3>3. s[k + 1] \in Range(s)
      BY <3>1, RangeIs
    <3> QED
      BY <1>1, <3>2, <3>3
  <2>2. ASSUME NEW k \in DOMAIN s, s[k] # s[1]
        PROVE  s[k] \in Range(t)
    <3>1. k # 1
      BY <2>2
    <3>2. k - 1 \in DOMAIN t
      BY <1>1, <3>1
    <3>3. t[k - 1] = s[k]
      BY <1>1, <3>2
    <3> QED
      BY <1>1, <3>2, <3>3, RangeIs
  <2>3. x \in Range(t) => \E k \in DOMAIN t : t[k] = x
    BY <1>1, RangeIs
  <2>4. x \in Range(s) => \E k \in DOMAIN s : s[k] = x
    BY RangeIs
  <2> QED
    BY <1>1, <2>1, <2>2, <2>3, <2>4
<1>5. Last(s) = s[Len(s)] /\ Last(t) = t[Len(t)]
  BY DEF Last
<1>6. ASSUME t # <<>>
      PROVE  Last(t) = Last(s)
  <2>1. Len(s) - 1 \in 1..(Len(s) - 1)
    BY <1>1, <1>2, <1>6
  <2>2. t[Len(s) - 1] = s[Len(s) - 1 + 1]
    BY <1>1, <2>1
  <2>3. Len(s) - 1 + 1 = Len(s)
    BY <1>1
  <2> QED
    BY <1>1, <1>5, <2>2, <2>3
<1>7. ASSUME t = <<>>
      PROVE  Last(s) = Head(s)
  <2>1. Len(s) = 1
    <3>1. Len(t) = 0
      BY <1>2, <1>7
    <3>2. Len(t) = Len(s) - 1 /\ Len(s) \in Nat
      BY <1>1
    <3> QED
      BY <3>1, <3>2
  <2> QED
    BY <1>1, <1>5, <2>1
<1>8. /\ t \in Seq(T) /\ Increasing(t)
      /\ Range(t) = Range(s) \ {Head(s)}
  BY <1>1, <1>3, <1>4 DEF Increasing
<1> QED
  BY <1>6, <1>7, <1>8 DEF t

\* Two ascending sequences, one after the other, are ascending if all of the
\* first is less than all of the second.
LEMMA JoinIs ==
    ASSUME NEW T \in SUBSET Nat, NEW s \in Seq(T), NEW t \in Seq(T)
    PROVE  /\ s \o t \in Seq(T)
           /\ Range(s \o t) = Range(s) \cup Range(t)
           /\ t # <<>> => s \o t # <<>> /\ Last(s \o t) = Last(t)
           /\ s # <<>> => s \o t # <<>> /\ Head(s \o t) = Head(s)
           /\ s = <<>> => s \o t = t
           /\ \A again :
                 /\ Ordered(s, again) /\ Ordered(t, again)
                 /\ \A i \in Range(s), j \in Range(t) : i < j \/ j \in again
                 => Ordered(s \o t, again)
           /\ Increasing(s) /\ Increasing(t) /\ (\A i \in Range(s), j \in Range(t) : i < j)
                => Increasing(s \o t)
<1> DEFINE u == s \o t
<1>1. /\ DOMAIN s = 1..Len(s) /\ Len(s) \in Nat
      /\ DOMAIN t = 1..Len(t) /\ Len(t) \in Nat
      /\ u \in Seq(T) /\ Len(u) = Len(s) + Len(t) /\ DOMAIN u = 1..(Len(s) + Len(t))
      /\ \A k \in 1..Len(s) : u[k] = s[k]
      /\ \A k \in 1..Len(t) : u[Len(s) + k] = t[k]
  OBVIOUS
<1>2. s = <<>> => u = t
  OBVIOUS
<1>3. (s = <<>> <=> Len(s) = 0) /\ (t = <<>> <=> Len(t) = 0) /\ (u = <<>> <=> Len(u) = 0)
  BY <1>1
<1> HIDE DEF u
<1>4. ASSUME NEW k \in DOMAIN u
      PROVE  k \in DOMAIN s \/ \E l \in DOMAIN t : k = Len(s) + l
  <2>1. CASE k > Len(s)
    <3>1. k - Len(s) \in DOMAIN t /\ k = Len(s) + (k - Len(s))
      BY <1>1, <2>1
    <3> QED
      BY <3>1
  <2> QED
    BY <1>1, <2>1
<1>5. ASSUME NEW x
      PROVE  x \in Range(u) <=> x \in Range(s) \/ x \in Range(t)
  <2>1. ASSUME NEW k \in DOMAIN u, u[k] = x
        PROVE  x \in Range(s) \/ x \in Range(t)
    <3>1. CASE k \in DOMAIN s
      BY <1>1, <2>1, <3>1, RangeIs
    <3>2. CASE \E l \in DOMAIN t : k = Len(s) + l
      BY <1>1, <2>1, <3>2, RangeIs
    <3> QED
      BY <1>4, <3>1, <3>2
  <2>2. ASSUME NEW k \in DOMAIN s, s[k] = x
        PROVE  x \in Range(u)
    <3>1. k \in DOMAIN u /\ u[k] = x
      BY <1>1, <2>2
    <3> QED
      BY <1>1, <3>1, RangeIs
  <2>3. ASSUME NEW k \in DOMAIN t, t[k] = x
        PROVE  x \in Range(u)
    <3>1. Len(s) + k \in DOMAIN u /\ u[Len(s) + k] = x
      BY <1>1, <2>3
    <3> QED
      BY <1>1, <3>1, RangeIs
  <2> QED
    BY <1>1, <2>1, <2>2, <2>3, RangeIs
<1>6. ASSUME t # <<>>
      PROVE  u # <<>> /\ Last(u) = Last(t)
  <2>1. Len(t) \in 1..Len(t) /\ Len(u) # 0
    BY <1>1, <1>3, <1>6
  <2>2. u[Len(s) + Len(t)] = t[Len(t)]
    BY <1>1, <2>1
  <2> QED
    BY <1>1, <1>3, <2>1, <2>2 DEF Last
<1>7. ASSUME s # <<>>
      PROVE  u # <<>> /\ Head(u) = Head(s)
  <2>1. 1 \in 1..Len(s) /\ Len(u) # 0
    BY <1>1, <1>3, <1>7
  <2>2. u[1] = s[1]
    BY <1>1, <2>1
  <2>3. u # <<>> /\ Head(u) = u[1] /\ Head(s) = s[1]
    BY <1>1, <1>3, <2>1
  <2> QED
    BY <2>2, <2>3
<1>8. ASSUME NEW again, Ordered(s, again), Ordered(t, again),
             \A i \in Range(s), j \in Range(t) : i < j \/ j \in again
      PROVE  Ordered(u, again)
  <2>1. SUFFICES ASSUME NEW k \in DOMAIN u, NEW l \in DOMAIN u, k < l
                 PROVE  u[k] < u[l] \/ u[l] \in again
    BY DEF Ordered
  <2>2. CASE k \in DOMAIN s /\ l \in DOMAIN s
    <3>1. u[k] = s[k] /\ u[l] = s[l]
      BY <1>1, <2>2
    <3> QED
      BY <1>8, <2>1, <2>2, <3>1 DEF Ordered
  <2>3. CASE k \in DOMAIN s /\ \E m \in DOMAIN t : l = Len(s) + m
    <3>1. PICK m \in DOMAIN t : l = Len(s) + m
      BY <2>3
    <3>2. u[k] = s[k] /\ u[l] = t[m]
      BY <1>1, <2>3, <3>1
    <3>3. s[k] \in Range(s) /\ t[m] \in Range(t)
      BY <2>3, RangeIs
    <3> QED
      BY <1>8, <3>2, <3>3
  <2>4. CASE (\E m \in DOMAIN t : k = Len(s) + m) /\ (\E m \in DOMAIN t : l = Len(s) + m)
    <3>1. PICK a \in DOMAIN t : k = Len(s) + a
      BY <2>4
    <3>2. PICK b \in DOMAIN t : l = Len(s) + b
      BY <2>4
    <3>3. a < b
      BY <1>1, <2>1, <3>1, <3>2
    <3>4. u[k] = t[a] /\ u[l] = t[b]
      BY <1>1, <3>1, <3>2
    <3> QED
      BY <1>8, <3>3, <3>4 DEF Ordered
  <2>5. CASE (\E m \in DOMAIN t : k = Len(s) + m) /\ l \in DOMAIN s
    BY <1>1, <2>1, <2>5
  <2> QED
    BY <1>4, <2>2, <2>3, <2>4, <2>5
<1>9. u \in Seq(T) /\ Range(u) = Range(s) \cup Range(t)
  BY <1>1, <1>5
<1>10. Increasing(s) /\ Increasing(t) /\ (\A i \in Range(s), j \in Range(t) : i < j)
          => Increasing(u)
  <2>1. Ordered(s, {}) /\ Ordered(t, {}) /\ (\A i \in Range(s), j \in Range(t) : i < j \/ j \in {})
           => Ordered(u, {})
    BY <1>8
  <2> QED
    BY <2>1 DEF Increasing, Ordered
<1> QED
  BY <1>2, <1>6, <1>7, <1>8, <1>9, <1>10 DEF u

\* A sequence of one.
LEMMA OneIs ==
    ASSUME NEW T, NEW x \in T
    PROVE  /\ <<x>> \in Seq(T) /\ <<x>> # <<>> /\ Range(<<x>>) = {x}
           /\ Head(<<x>>) = x /\ Last(<<x>>) = x /\ Increasing(<<x>>)
<1>1. /\ <<x>> \in Seq(T) /\ <<x>> # <<>> /\ DOMAIN <<x>> = {1} /\ <<x>>[1] = x
      /\ Head(<<x>>) = x /\ Len(<<x>>) = 1
  OBVIOUS
<1>2. \A y : y \in Range(<<x>>) <=> \E k \in DOMAIN <<x>> : <<x>>[k] = y
  BY <1>1, RangeIs
<1>3. Range(<<x>>) = {x}
  BY <1>1, <1>2
<1>4. Last(<<x>>) = x
  BY <1>1 DEF Last
<1>5. Increasing(<<x>>)
  BY <1>1 DEF Increasing
<1> QED
  BY <1>1, <1>3, <1>4, <1>5

\* The last n of an ascending sequence: all of it from their first on,
LEMMA NewestIs ==
    ASSUME NEW T \in SUBSET Nat, NEW s \in Seq(T), Increasing(s), NEW n \in Nat \ {0}
    PROVE  /\ Newest(s, n) \in Seq(T) /\ Increasing(Newest(s, n))
           /\ Range(Newest(s, n)) \subseteq Range(s)
           /\ s # <<>> => Newest(s, n) # <<>>
           /\ \A i \in Range(s) : Newest(s, n) # <<>> /\ Head(Newest(s, n)) <= i
                => i \in Range(Newest(s, n))
<1>1. CASE Len(s) <= n
  <2>1. Newest(s, n) = s
    BY <1>1 DEF Newest
  <2> QED
    BY <2>1
<1>2. CASE Len(s) > n
  <2> DEFINE t == Newest(s, n)
             d == Len(s) - n
  <2>1. /\ DOMAIN s = 1..Len(s) /\ Len(s) \in Nat /\ d \in Nat /\ d + n = Len(s)
    BY <1>2
  <2>2. t = SubSeq(s, d + 1, Len(s))
    BY <1>2 DEF Newest
  <2>3. /\ t \in Seq(T) /\ DOMAIN t = 1..n /\ Len(t) = n
        /\ \A k \in 1..n : t[k] = s[d + k]
    BY <2>1, <2>2
  <2> HIDE DEF t, d
  <2>4. \A k \in 1..n : d + k \in DOMAIN s
    BY <2>1
  <2>5. ASSUME NEW k \in DOMAIN t, NEW l \in DOMAIN t, k < l
        PROVE  t[k] < t[l]
    <3>1. d + k \in DOMAIN s /\ d + l \in DOMAIN s /\ d + k < d + l
      BY <2>1, <2>3, <2>4, <2>5
    <3>2. s[d + k] < s[d + l]
      BY <3>1 DEF Increasing
    <3> QED
      BY <2>3, <3>2
  <2>6. Range(t) \subseteq Range(s)
    <3>1. SUFFICES ASSUME NEW x \in Range(t)
                   PROVE  x \in Range(s)
      OBVIOUS
    <3>2. PICK k \in 1..n : t[k] = x
      BY <2>3, RangeIs
    <3> QED
      BY <2>3, <2>4, <3>2, RangeIs
  <2>7. t # <<>> /\ Head(t) = s[d + 1]
    <3>1. Len(t) # 0 /\ 1 \in 1..n
      BY <2>3
    <3>2. t # <<>>
      BY <3>1
    <3> QED
      BY <2>3, <3>1, <3>2
  <2>8. ASSUME NEW i \in Range(s), Head(t) <= i
        PROVE  i \in Range(t)
    <3>1. PICK k \in DOMAIN s : s[k] = i
      BY RangeIs
    <3>2. ~(k < d + 1)
      <4>1. ASSUME k < d + 1
            PROVE  FALSE
        <5>1. d + 1 \in DOMAIN s
          BY <2>4
        <5>2. s[k] < s[d + 1]
          BY <4>1, <5>1 DEF Increasing
        <5>3. s[k] \in T /\ s[d + 1] \in T
          BY <5>1
        <5>4. s[k] \in Nat /\ s[d + 1] \in Nat
          BY <5>3
        <5> QED
          BY <2>7, <2>8, <3>1, <5>2, <5>4
      <4> QED
        BY <4>1
    <3>3. k - d \in 1..n /\ d + (k - d) = k
      BY <2>1, <3>2
    <3>4. t[k - d] = i
      BY <2>3, <3>1, <3>3
    <3> QED
      BY <2>3, <3>3, <3>4, RangeIs
  <2>9. Increasing(t)
    BY <2>5 DEF Increasing
  <2> QED
    BY <2>3, <2>6, <2>7, <2>8, <2>9 DEF t
<1> QED
  BY <1>1, <1>2

\* and the first n: all of it up to their last.
LEMMA OldestIs ==
    ASSUME NEW T \in SUBSET Nat, NEW s \in Seq(T), Increasing(s), NEW n \in Nat \ {0}
    PROVE  /\ Oldest(s, n) \in Seq(T) /\ Increasing(Oldest(s, n))
           /\ Range(Oldest(s, n)) \subseteq Range(s)
           /\ \A i \in Range(s) : Oldest(s, n) # <<>> /\ i <= Last(Oldest(s, n))
                => i \in Range(Oldest(s, n))
<1>1. CASE Len(s) <= n
  <2>1. Oldest(s, n) = s
    BY <1>1 DEF Oldest
  <2> QED
    BY <2>1
<1>2. CASE Len(s) > n
  <2> DEFINE t == Oldest(s, n)
  <2>1. /\ DOMAIN s = 1..Len(s) /\ Len(s) \in Nat /\ 1..n \subseteq DOMAIN s
    BY <1>2
  <2>2. t = SubSeq(s, 1, n)
    BY <1>2 DEF Oldest
  <2>3. /\ t \in Seq(T) /\ DOMAIN t = 1..n /\ Len(t) = n
        /\ \A k \in 1..n : t[k] = s[k]
    BY <1>2, <2>1, <2>2
  <2> HIDE DEF t
  <2>4. Increasing(t)
    BY <2>1, <2>3 DEF Increasing
  <2>5. Range(t) \subseteq Range(s)
    <3>1. SUFFICES ASSUME NEW x \in Range(t)
                   PROVE  x \in Range(s)
      OBVIOUS
    <3>2. PICK k \in 1..n : t[k] = x
      BY <2>3, RangeIs
    <3> QED
      BY <2>1, <2>3, <3>2, RangeIs
  <2>6. Last(t) = s[n] /\ n \in DOMAIN s
    BY <2>1, <2>3 DEF Last
  <2>7. ASSUME NEW i \in Range(s), i <= Last(t)
        PROVE  i \in Range(t)
    <3>1. PICK k \in DOMAIN s : s[k] = i
      BY RangeIs
    <3>2. ~(n < k)
      <4>1. ASSUME n < k
            PROVE  FALSE
        <5>1. s[n] < s[k]
          BY <2>6, <4>1 DEF Increasing
        <5>2. s[k] \in T /\ s[n] \in T
          BY <2>6
        <5>3. s[k] \in Nat /\ s[n] \in Nat
          BY <5>2
        <5> QED
          BY <2>6, <2>7, <3>1, <5>1, <5>3
      <4> QED
        BY <4>1
    <3>3. k \in 1..n
      BY <2>1, <3>2
    <3> QED
      BY <2>3, <3>1, <3>3, RangeIs
  <2> QED
    BY <2>3, <2>4, <2>5, <2>7 DEF t
<1> QED
  BY <1>1, <1>2
---------------------------------------------------------------------------
(* The inductive invariant.                                                *)

\* The ids a request is about.
Of(r) == Range(r.ids)

\* The events in flight are those past the last one received, up to the
\* position of the stream; before a tab has heard anything there may be none.
InFlight ==
    /\ Increasing(wire)
    /\ \A i \in Range(wire) : lastEvent < i
    /\ conn # "polling" => wire = <<>>
    /\ conn \in {"opening", "empty"} => lastEvent = 0
    /\ conn = "polling" /\ wire # <<>> => last_id = Last(wire)
    /\ conn = "polling" /\ wire = <<>> /\ lastEvent # 0 => last_id = lastEvent

\* Where the events in flight begin to be all that is kept.
Due(i) == IF lastEvent # 0 THEN lastEvent < i ELSE wire # <<>> /\ Head(wire) <= i

\* Of what is due, the stream has skipped nothing it has passed; what it sent
\* was kept and only the logger takes it back.
NoneSkipped ==
    /\ conn = "polling" =>
          \A i \in Ids : Due(i) /\ i <= last_id /\ rows[i] => i \in Range(wire)
    /\ \A i \in Range(wire) : rows[i] \/ i \in retracted

\* What the tab holds: on screen, in the toast, in a clear or an undo.
AtTab == Range(lines) \cup Range(undo) \cup Of(clear) \cup BeingUndone

\* None of it, nor of a page, is newer than the last event.
Heard == \A i \in AtTab \cup Of(page) : i <= lastEvent

\* A clear and an undo that have a line in common are known to; otherwise each
\* still stands once the server has applied it.
Crossing ==
    /\ Of(clear) \cap BeingUndone \subseteq crossed
    /\ clear.phase = "done" => \A i \in Of(clear) : ~rows[i] \/ i \in crossed
    /\ \A u \in Undos : undoing[u].phase = "done" =>
          \A i \in Of(undoing[u]) : rows[i] \/ i \in retracted \cup crossed

\* A line the tab need not ask for again.
Held(i) == i \in Range(lines) \cup BeingUndone \cup unsure \cup crossed

\* From the oldest line the tab ever showed up to the last event, none kept is
\* missing; nothing it holds is older.
Shown(base) ==
    /\ \A i \in AtTab : base <= i
    /\ page.phase = "sent" => base <= Head(page.ids)
    /\ \A i \in base..lastEvent : rows[i] => Held(i)

NoneMissing == \E base \in Nat \ {0} : Shown(base)

\* ScreenAgrees, and that a request to clear excuses a line once it is applied.
OnScreen == \A i \in Range(lines) :
    \/ rows[i] \/ i \in retracted \cup unsure \cup crossed \cup stale
    \/ clear.phase = "done" /\ i \in Of(clear)

\* A page asked for comes before the feed, but for what was put back meanwhile,
\* and it leaves out nothing.
PageFits ==
    /\ page.phase = "sent" =>
          /\ page.ids # <<>>
          /\ \A l \in Range(lines) : Head(page.ids) <= l \/ l \in twice
    /\ page.phase = "done" =>
          /\ Increasing(page.ids)
          /\ \A i \in Of(page) :
                /\ \A l \in Range(lines) : i < l \/ l \in twice
                /\ rows[i] \/ i \in retracted \cup stale
          /\ page.ids # <<>> =>
                \A i \in Head(page.ids)..lastEvent :
                   rows[i] => i \in Of(page) \/ Held(i)

FeedInv ==
    /\ TypeOK /\ InFlight /\ NoneSkipped /\ Heard /\ Crossing
    /\ NoneMissing /\ OnScreen /\ PageFits /\ FeedInOrder

---------------------------------------------------------------------------
(* What the types say, and the queries of the table.                       *)

\* The type invariant, taken apart.
LEMMA Types ==
    ASSUME TypeOK
    PROVE  /\ rows \in Seq(BOOLEAN) /\ Len(rows) \in Nat /\ Ids \in SUBSET Nat
           /\ IsFiniteSet(Ids) /\ DOMAIN rows = Ids /\ Ids = 1..Len(rows)
           /\ \A i \in Ids : i \in Nat /\ 1 <= i /\ i <= Len(rows)
           /\ conn \in {"down", "opening", "empty", "polling"}
           /\ last_id \in Nat /\ last_id <= Len(rows)
           /\ lastEvent \in Nat /\ lastEvent <= Len(rows)
           /\ wire \in Seq(Ids) /\ lines \in Seq(Ids) /\ undo \in Seq(Ids)
           /\ page \in Requests /\ clear \in Requests /\ undoing \in [Undos -> Requests]
           /\ page.ids \in Seq(Ids) /\ clear.ids \in Seq(Ids)
           /\ \A u \in Undos : undoing[u].ids \in Seq(Ids)
           /\ Range(wire) \subseteq Ids /\ Range(lines) \subseteq Ids /\ Range(undo) \subseteq Ids
           /\ Of(page) \subseteq Ids /\ Of(clear) \subseteq Ids
           /\ BeingUndone \subseteq Ids /\ AtTab \subseteq Ids
           /\ crossed \subseteq Ids
<1>1. /\ rows \in Seq(BOOLEAN) /\ conn \in {"down", "opening", "empty", "polling"}
      /\ last_id \in 0..Len(rows) /\ lastEvent \in 0..Len(rows)
      /\ wire \in Seq(Ids) /\ lines \in Seq(Ids) /\ undo \in Seq(Ids)
      /\ page \in Requests /\ clear \in Requests /\ undoing \in [Undos -> Requests]
      /\ crossed \subseteq Ids
  BY DEF TypeOK
<1>2. ASSUME NEW r \in Requests
      PROVE  r.ids \in Seq(Ids) /\ Of(r) \subseteq Ids
  <2>1. r.ids \in Seq(Ids)
    BY DEF Requests
  <2> QED
    BY <2>1, RangeIs DEF Of
<1>3. Len(rows) \in Nat /\ DOMAIN rows = Ids /\ Ids = 1..Len(rows)
  BY <1>1 DEF Ids
<1>4. /\ Ids \in SUBSET Nat
      /\ \A i \in Ids : i \in Nat /\ 1 <= i /\ i <= Len(rows)
  BY <1>3
<1>5. IsFiniteSet(Ids)
  BY <1>3, FS_Interval DEF Ids
<1>6. Range(wire) \subseteq Ids /\ Range(lines) \subseteq Ids /\ Range(undo) \subseteq Ids
  BY <1>1, RangeIs
<1>7. \A u \in Undos : undoing[u] \in Requests
  BY <1>1
<1>8. BeingUndone \subseteq Ids
  BY <1>2, <1>7 DEF BeingUndone, Of
<1>9. /\ page.ids \in Seq(Ids) /\ clear.ids \in Seq(Ids)
      /\ Of(page) \subseteq Ids /\ Of(clear) \subseteq Ids
      /\ \A u \in Undos : undoing[u].ids \in Seq(Ids)
  BY <1>1, <1>2, <1>7
<1>10. AtTab \subseteq Ids
  BY <1>6, <1>8, <1>9 DEF AtTab
<1>11. /\ last_id \in Nat /\ last_id <= Len(rows)
       /\ lastEvent \in Nat /\ lastEvent <= Len(rows)
  BY <1>1, <1>3
<1> QED
  BY <1>1, <1>3, <1>4, <1>5, <1>6, <1>8, <1>9, <1>10, <1>11

\* Sequences of some ids are sequences of more ids.
LEMMA SeqGrows ==
    ASSUME NEW S, NEW T, S \subseteq T, NEW s \in Seq(S)
    PROVE  s \in Seq(T)
  OBVIOUS

\* What an empty request is about: nothing.
LEMMA NoneIs ==
    /\ None.ids = <<>> /\ None.phase = "none" /\ Of(None) = {}
    /\ \A ids : /\ Sent(ids).ids = ids /\ Sent(ids).phase = "sent" /\ Of(Sent(ids)) = Range(ids)
                /\ Done(ids).ids = ids /\ Done(ids).phase = "done" /\ Of(Done(ids)) = Range(ids)
<1>1. None.ids = <<>> /\ None.phase = "none"
  BY DEF None
<1>2. Range(<<>>) = {}
  <2>1. <<>> \in Seq({})
    OBVIOUS
  <2> QED
    BY <2>1, RangeIs
<1>3. ASSUME NEW ids
      PROVE  /\ Sent(ids).ids = ids /\ Sent(ids).phase = "sent"
             /\ Done(ids).ids = ids /\ Done(ids).phase = "done"
  BY DEF Sent, Done
<1> QED
  BY <1>1, <1>2, <1>3 DEF Of

\* Requests of the right type.
LEMMA RequestIs ==
    ASSUME NEW ids \in Seq(Ids)
    PROVE  None \in Requests /\ Sent(ids) \in Requests /\ Done(ids) \in Requests
<1>1. <<>> \in Seq(Ids)
  OBVIOUS
<1> QED
  BY <1>1 DEF None, Sent, Done, Requests

\* What is being undone, and what a step of one undo makes of it.
LEMMA UndoMoves ==
    ASSUME TypeOK, NEW u \in Undos
    PROVE  /\ Of(undoing[u]) \subseteq BeingUndone
           /\ \A r : undoing' = [undoing EXCEPT ![u] = r] =>
                 /\ \A v \in Undos : undoing'[v] = IF v = u THEN r ELSE undoing[v]
                 /\ \A i \in BeingUndone' : i \in BeingUndone \/ i \in Of(r)
                 /\ \A i \in BeingUndone : i \in BeingUndone' \/ i \in Of(undoing[u])
                 /\ Of(r) \subseteq BeingUndone'
<1>1. \A i : i \in BeingUndone <=> \E v \in Undos : i \in Of(undoing[v])
  BY DEF BeingUndone, Of
<1>2. \A i : i \in BeingUndone' <=> \E v \in Undos : i \in Range(undoing'[v].ids)
  BY DEF BeingUndone
<1>3. ASSUME NEW r, undoing' = [undoing EXCEPT ![u] = r]
      PROVE  /\ \A v \in Undos : undoing'[v] = IF v = u THEN r ELSE undoing[v]
             /\ \A i \in BeingUndone' : i \in BeingUndone \/ i \in Of(r)
             /\ \A i \in BeingUndone : i \in BeingUndone' \/ i \in Of(undoing[u])
             /\ Of(r) \subseteq BeingUndone'
  <2>1. \A v \in Undos : undoing'[v] = IF v = u THEN r ELSE undoing[v]
    BY <1>3, Types
  <2>2. ASSUME NEW v \in Undos
        PROVE  Range(undoing'[v].ids) = IF v = u THEN Of(r) ELSE Of(undoing[v])
    BY <2>1 DEF Of
  <2> QED
    BY <1>1, <1>2, <2>1, <2>2
<1> QED
  BY <1>1, <1>3

\* The kept rows between two ids, in order.
LEMMA KeptWithinIs ==
    ASSUME TypeOK, NEW a \in Nat, NEW b \in Nat
    PROVE  /\ KeptWithin(a, b) \in Seq(Ids) /\ Increasing(KeptWithin(a, b))
           /\ \A i : i \in Range(KeptWithin(a, b)) <=> i \in Ids /\ rows[i] /\ a < i /\ i < b
<1> DEFINE S == {i \in Ids : rows[i] /\ a < i /\ i < b}
<1>1. Ids \in SUBSET Nat /\ IsFiniteSet(Ids)
  BY Types
<1>2. S \in SUBSET Nat /\ IsFiniteSet(S) /\ S \subseteq Ids
  BY <1>1, FS_Subset
<1>3. /\ Ascending(S) \in Seq(S) /\ Increasing(Ascending(S))
      /\ \A i \in S : \E k \in DOMAIN Ascending(S) : Ascending(S)[k] = i
  BY <1>2, AscendingIs
<1>4. \A i : i \in Range(Ascending(S)) <=> i \in S
  BY <1>3, RangeIs
<1>5. Ascending(S) \in Seq(Ids)
  BY <1>2, <1>3, SeqGrows
<1>6. KeptWithin(a, b) = Ascending(S)
  BY DEF KeptWithin
<1> QED
  BY <1>3, <1>4, <1>5, <1>6

\* The opening batch: kept rows, all of them from its first on.
LEMMA RecentIs ==
    ASSUME TypeOK, NEW n \in Nat \ {0}
    PROVE  /\ RecentLines(n) \in Seq(Ids) /\ Increasing(RecentLines(n))
           /\ \A i \in Range(RecentLines(n)) : rows[i]
           /\ \A i \in Ids : rows[i] /\ RecentLines(n) # <<>> /\ Head(RecentLines(n)) <= i
                                => i \in Range(RecentLines(n))
<1> DEFINE s == KeptWithin(0, Len(rows) + 1)
<1>1. /\ Ids \in SUBSET Nat /\ Len(rows) \in Nat
      /\ \A i \in Ids : i \in Nat /\ 1 <= i /\ i <= Len(rows)
  BY Types
<1>2. /\ s \in Seq(Ids) /\ Increasing(s)
      /\ \A i : i \in Range(s) <=> i \in Ids /\ rows[i] /\ 0 < i /\ i < Len(rows) + 1
  <2>1. Len(rows) + 1 \in Nat /\ 0 \in Nat
    BY <1>1
  <2> QED
    BY <2>1, KeptWithinIs
<1> HIDE DEF s
<1>3. ASSUME NEW i \in Ids, rows[i]
      PROVE  i \in Range(s)
  <2>1. i \in Nat /\ 1 <= i /\ i <= Len(rows)
    BY <1>1
  <2> QED
    BY <1>1, <1>2, <1>3, <2>1
<1>4. /\ Newest(s, n) \in Seq(Ids) /\ Increasing(Newest(s, n))
      /\ Range(Newest(s, n)) \subseteq Range(s)
      /\ \A i \in Range(s) : Newest(s, n) # <<>> /\ Head(Newest(s, n)) <= i
           => i \in Range(Newest(s, n))
  BY <1>1, <1>2, NewestIs
<1>5. RecentLines(n) = Newest(s, n)
  BY DEF RecentLines, s
<1> QED
  BY <1>2, <1>3, <1>4, <1>5

\* A poll: kept rows past the position, all of them up to its last.
LEMMA AfterIs ==
    ASSUME TypeOK, NEW id \in Nat, NEW n \in Nat \ {0}
    PROVE  /\ LinesAfter(id, n) \in Seq(Ids) /\ Increasing(LinesAfter(id, n))
           /\ \A i \in Range(LinesAfter(id, n)) : rows[i] /\ id < i
           /\ \A i \in Ids : rows[i] /\ id < i /\ LinesAfter(id, n) # <<>> /\ i <= Last(LinesAfter(id, n))
                                => i \in Range(LinesAfter(id, n))
<1> DEFINE s == KeptWithin(id, Len(rows) + 1)
<1>1. /\ Ids \in SUBSET Nat /\ Len(rows) \in Nat
      /\ \A i \in Ids : i \in Nat /\ 1 <= i /\ i <= Len(rows)
  BY Types
<1>2. /\ s \in Seq(Ids) /\ Increasing(s)
      /\ \A i : i \in Range(s) <=> i \in Ids /\ rows[i] /\ id < i /\ i < Len(rows) + 1
  <2>1. Len(rows) + 1 \in Nat /\ id \in Nat
    BY <1>1
  <2> QED
    BY <2>1, KeptWithinIs
<1> HIDE DEF s
<1>3. ASSUME NEW i \in Ids, rows[i], id < i
      PROVE  i \in Range(s)
  <2>1. i \in Nat /\ 1 <= i /\ i <= Len(rows)
    BY <1>1
  <2> QED
    BY <1>1, <1>2, <1>3, <2>1
<1>4. /\ Oldest(s, n) \in Seq(Ids) /\ Increasing(Oldest(s, n))
      /\ Range(Oldest(s, n)) \subseteq Range(s)
      /\ \A i \in Range(s) : Oldest(s, n) # <<>> /\ i <= Last(Oldest(s, n))
           => i \in Range(Oldest(s, n))
  BY <1>1, <1>2, OldestIs
<1>5. LinesAfter(id, n) = Oldest(s, n)
  BY DEF LinesAfter, s
<1> QED
  BY <1>2, <1>3, <1>4, <1>5

\* A page of history: kept rows before a line, all of them from its first on.
LEMMA BeforeIs ==
    ASSUME TypeOK, NEW id \in Nat, NEW n \in Nat \ {0}
    PROVE  /\ LinesBefore(id, n) \in Seq(Ids) /\ Increasing(LinesBefore(id, n))
           /\ \A i \in Range(LinesBefore(id, n)) : rows[i] /\ i < id
           /\ \A i \in Ids : rows[i] /\ i < id /\ LinesBefore(id, n) # <<>> /\ Head(LinesBefore(id, n)) <= i
                                => i \in Range(LinesBefore(id, n))
<1> DEFINE s == KeptWithin(0, id)
<1>1. /\ Ids \in SUBSET Nat
      /\ \A i \in Ids : i \in Nat /\ 1 <= i
  BY Types
<1>2. /\ s \in Seq(Ids) /\ Increasing(s)
      /\ \A i : i \in Range(s) <=> i \in Ids /\ rows[i] /\ 0 < i /\ i < id
  BY KeptWithinIs
<1> HIDE DEF s
<1>3. ASSUME NEW i \in Ids, rows[i], i < id
      PROVE  i \in Range(s)
  <2>1. i \in Nat /\ 1 <= i
    BY <1>1
  <2> QED
    BY <1>2, <1>3, <2>1
<1>4. /\ Newest(s, n) \in Seq(Ids) /\ Increasing(Newest(s, n))
      /\ Range(Newest(s, n)) \subseteq Range(s)
      /\ \A i \in Range(s) : Newest(s, n) # <<>> /\ Head(Newest(s, n)) <= i
           => i \in Range(Newest(s, n))
  BY <1>1, <1>2, NewestIs
<1>5. LinesBefore(id, n) = Newest(s, n)
  BY DEF LinesBefore, s
<1> QED
  BY <1>2, <1>3, <1>4, <1>5

\* What setting the flag of some rows does.
LEMMA FlaggedIs ==
    ASSUME TypeOK, NEW ids \in Seq(Ids), NEW kept \in BOOLEAN
    PROVE  /\ Flagged(ids, kept) \in Seq(BOOLEAN) /\ Len(Flagged(ids, kept)) = Len(rows)
           /\ \A i \in Ids : Flagged(ids, kept)[i] = IF i \in Range(ids) THEN kept ELSE rows[i]
<1>1. rows \in Seq(BOOLEAN) /\ Len(rows) \in Nat /\ DOMAIN rows = Ids
  BY Types
<1>2. \A i \in Ids : rows[i] \in BOOLEAN
  BY <1>1
<1>3. Flagged(ids, kept) = [i \in 1..Len(rows) |-> IF i \in Range(ids) THEN kept ELSE rows[i]]
  BY DEF Flagged, Ids
<1>4. Flagged(ids, kept) \in [1..Len(rows) -> BOOLEAN]
  BY <1>2, <1>3 DEF Ids
<1>5. Flagged(ids, kept) \in Seq(BOOLEAN) /\ Len(Flagged(ids, kept)) = Len(rows)
  BY <1>1, <1>3, <1>4
<1> QED
  BY <1>3, <1>5 DEF Ids

\* And which of them it changed.
LEMMA ChangedIs ==
    ASSUME TypeOK, NEW ids \in Seq(Ids), NEW kept \in BOOLEAN
    PROVE  /\ Changed(ids, kept) \in Seq(Ids)
           /\ \A i : i \in Range(Changed(ids, kept)) <=> i \in Range(ids) /\ rows[i] # kept
<1> DEFINE S == {i \in Ids : rows[i] = kept}
           left == Without(ids, S)
<1>0. left = Changed(ids, kept)
  BY DEF Changed
<1> HIDE DEF S
<1>1. /\ left \in Seq(Ids)
      /\ \A k \in DOMAIN left : \E i \in DOMAIN ids : left[k] = ids[i] /\ ids[i] \notin S
      /\ \A i \in DOMAIN ids : ids[i] \notin S => \E k \in DOMAIN left : left[k] = ids[i]
  BY WithoutIs
<1> HIDE DEF left
<1>3. \A x : x \in Range(left) <=> \E k \in DOMAIN left : left[k] = x
  BY <1>1, RangeIs
<1>4. (\A x : x \in Range(ids) <=> \E k \in DOMAIN ids : ids[k] = x) /\ Range(ids) \subseteq Ids
  BY RangeIs
<1>5. \A i : i \in Range(left) <=> i \in Range(ids) /\ i \notin S
  BY <1>1, <1>3, <1>4
<1>6. \A i \in Range(ids) : i \notin S <=> rows[i] # kept
  BY <1>4 DEF S
<1> QED
  BY <1>0, <1>1, <1>5, <1>6
---------------------------------------------------------------------------
(* What a step leaves alone.                                               *)

\* The stream, by a step of the tab's requests,
LEMMA StreamStands ==
    ASSUME InFlight, NoneSkipped,
           UNCHANGED <<rows, conn, last_id, wire, lastEvent, retracted>>
    PROVE  InFlight' /\ NoneSkipped'
<1>1. /\ rows' = rows /\ conn' = conn /\ last_id' = last_id /\ wire' = wire
      /\ lastEvent' = lastEvent /\ retracted' = retracted /\ Ids' = Ids
  BY DEF Ids
<1>2. \A i : Due(i)' <=> Due(i)
  BY <1>1 DEF Due
<1>3. InFlight'
  BY <1>1 DEF InFlight
<1>4. NoneSkipped'
  BY <1>1, <1>2 DEF NoneSkipped
<1> QED
  BY <1>3, <1>4

\* the order of the feed,
LEMMA OrderStands ==
    ASSUME FeedInOrder, UNCHANGED <<lines, twice>>
    PROVE  FeedInOrder'
  BY DEF FeedInOrder

\* what has been heard of,
LEMMA HeardStands ==
    ASSUME Heard, UNCHANGED lastEvent,
           (AtTab \cup Of(page))' \subseteq AtTab \cup Of(page)
    PROVE  Heard'
  BY DEF Heard

\* what is held, if none of it is lost and nothing is kept that was not,
LEMMA HoldStands ==
    ASSUME TypeOK, NoneMissing, UNCHANGED lastEvent, AtTab' \subseteq AtTab,
           page'.phase = "sent" =>
              page' = page \/ Head(page'.ids) \in AtTab,
           \A i \in 1..lastEvent : rows'[i] /\ (rows[i] => Held(i)) => Held(i)'
    PROVE  NoneMissing'
<1>1. PICK base \in Nat \ {0} : Shown(base)
  BY DEF NoneMissing
<1>2. lastEvent' = lastEvent /\ lastEvent \in Nat
  BY Types
<1>3. \A i \in AtTab' : base <= i
  BY <1>1 DEF Shown
<1>4. page'.phase = "sent" => base <= Head(page'.ids)
  <2>1. page' = page /\ page'.phase = "sent" => base <= Head(page'.ids)
    BY <1>1 DEF Shown
  <2>2. Head(page'.ids) \in AtTab => base <= Head(page'.ids)
    BY <1>1 DEF Shown
  <2> QED
    BY <2>1, <2>2
<1>5. ASSUME NEW i \in base..lastEvent, rows'[i]
      PROVE  Held(i)'
  <2>1. i \in 1..lastEvent
    BY <1>2
  <2>2. rows[i] => Held(i)
    BY <1>1 DEF Shown
  <2> QED
    BY <1>5, <2>1, <2>2
<1>6. Shown(base)'
  BY <1>2, <1>3, <1>4, <1>5 DEF Shown
<1> QED
  BY <1>6 DEF NoneMissing

\* and the page of history, in the same step.
LEMMA PageStands ==
    ASSUME TypeOK, PageFits, UNCHANGED <<page, lastEvent>>,
           \A l \in Range(lines)' : l \in twice' \/ (l \in Range(lines) /\ l \notin twice),
           page.phase = "done" => \A i \in Of(page) :
              rows[i] \/ i \in retracted \cup stale => rows'[i] \/ i \in (retracted \cup stale)',
           \A i \in 1..lastEvent : rows'[i] /\ (rows[i] => Held(i)) => Held(i)'
    PROVE  PageFits'
<1>1. page' = page /\ lastEvent' = lastEvent /\ Of(page)' = Of(page) /\ lastEvent \in Nat
  BY Types DEF Of
<1>2. ASSUME page.phase = "sent"
      PROVE  /\ page.ids # <<>>
             /\ \A l \in Range(lines)' : Head(page.ids) <= l \/ l \in twice'
  BY <1>2 DEF PageFits
<1>3. ASSUME page.phase = "done"
      PROVE  /\ Increasing(page.ids)
             /\ \A i \in Of(page) :
                   /\ \A l \in Range(lines)' : i < l \/ l \in twice'
                   /\ rows'[i] \/ i \in (retracted \cup stale)'
  BY <1>3 DEF PageFits
<1>4. ASSUME page.phase = "done", page.ids # <<>>,
             NEW i \in Head(page.ids)..lastEvent, rows'[i]
      PROVE  i \in Of(page) \/ Held(i)'
  <2>1. i \in 1..lastEvent
    <3>1. page.ids \in Seq(Ids) /\ \A j \in Ids : j \in Nat /\ 1 <= j
      BY Types
    <3>2. Head(page.ids) \in Ids
      BY <1>4, <3>1
    <3> QED
      BY <1>1, <3>1, <3>2
  <2>2. rows[i] => i \in Of(page) \/ Held(i)
    BY <1>4 DEF PageFits
  <2> QED
    BY <1>4, <2>1, <2>2
<1> QED
  BY <1>1, <1>2, <1>3, <1>4 DEF PageFits

\* So a step of the stream has the stream's own parts to keep.
LEMMA StreamMoves ==
    ASSUME FeedInv, InFlight', NoneSkipped',
           UNCHANGED <<rows, screen, requests, history>>,
           conn' \in {"down", "opening", "empty", "polling"},
           last_id' \in 0..Len(rows), wire' \in Seq(Ids),
           drops' \in 0..MaxDrops, opened' \in 0..Len(rows)
    PROVE  FeedInv'
<1>1. /\ rows' = rows /\ lines' = lines /\ lastEvent' = lastEvent /\ undo' = undo
      /\ exhausted' = exhausted /\ page' = page
      /\ clear' = clear /\ undoing' = undoing
      /\ clears' = clears /\ retracted' = retracted /\ unsure' = unsure
      /\ crossed' = crossed /\ twice' = twice /\ stale' = stale
  BY DEF screen, requests, history
<1>2. Ids' = Ids
  BY <1>1 DEF Ids
<1>3. TypeOK'
  BY <1>1, <1>2 DEF FeedInv, TypeOK, Requests
<1>4. BeingUndone' = BeingUndone /\ Of(page)' = Of(page) /\ Of(clear)' = Of(clear)
  BY <1>1 DEF BeingUndone, Of
<1>5. AtTab' = AtTab /\ \A i : Held(i)' <=> Held(i)
  BY <1>1, <1>4 DEF AtTab, Held
<1>6. Heard' /\ Crossing' /\ OnScreen' /\ FeedInOrder'
  <2>1. Crossing' /\ OnScreen'
    BY <1>1, <1>4 DEF FeedInv, Crossing, OnScreen, Of
  <2> QED
    BY <1>1, <1>4, <1>5, <2>1, HeardStands, OrderStands DEF FeedInv
<1>7. NoneMissing'
  BY <1>1, <1>5, HoldStands DEF FeedInv
<1>8. PageFits'
  <2>1. /\ TypeOK /\ PageFits
        /\ \A l \in Range(lines)' : l \in twice' \/ (l \in Range(lines) /\ l \notin twice)
        /\ \A i \in 1..lastEvent : rows'[i] /\ (rows[i] => Held(i)) => Held(i)'
        /\ \A i \in Of(page) :
              rows[i] \/ i \in retracted \cup stale => rows'[i] \/ i \in (retracted \cup stale)'
    BY <1>1, <1>5 DEF FeedInv
  <2> QED
    BY <1>1, <2>1, PageStands
<1> QED
  BY <1>3, <1>6, <1>7, <1>8 DEF FeedInv

---------------------------------------------------------------------------
(* The stream's steps.                                                     *)

\* Coming back where the events stopped, or to a first batch.
LEMMA ConnectKeeps ==
    ASSUME FeedInv, Connect
    PROVE  FeedInv'
<1>0. TypeOK /\ InFlight /\ NoneSkipped
  BY DEF FeedInv
<1>1. /\ conn = "down" /\ rows' = rows /\ wire' = wire /\ drops' = drops /\ opened' = opened
      /\ lastEvent' = lastEvent /\ retracted' = retracted
      /\ \/ lastEvent # 0 /\ conn' = "polling" /\ last_id' = lastEvent
         \/ lastEvent = 0 /\ conn' = "opening" /\ last_id' = 0
  BY DEF Connect, screen, history
<1>2. Ids' = Ids /\ \A i \in Ids : i \in Nat
  BY <1>0, <1>1, Types DEF Ids
<1>3. wire = <<>>
  BY <1>0, <1>1 DEF InFlight
<1>4. lastEvent \in Nat
  BY <1>0, Types
<1>5. InFlight'
  BY <1>0, <1>1, <1>3 DEF InFlight
<1>6. NoneSkipped'
  <2>1. ASSUME conn' = "polling", NEW i \in Ids, Due(i)', i <= last_id'
        PROVE  FALSE
    <3>1. lastEvent < i /\ i <= lastEvent /\ i \in Nat
      BY <1>1, <1>2, <2>1 DEF Due
    <3> QED
      BY <1>4, <3>1
  <2>2. \A i \in Range(wire) : rows[i] \/ i \in retracted
    BY <1>0 DEF NoneSkipped
  <2> QED
    BY <1>1, <1>2, <2>1, <2>2 DEF NoneSkipped
<1>7. /\ conn' \in {"down", "opening", "empty", "polling"}
      /\ last_id' \in 0..Len(rows) /\ wire' \in Seq(Ids)
      /\ drops' \in 0..MaxDrops /\ opened' \in 0..Len(rows)
  BY <1>0, <1>1 DEF TypeOK
<1>8. UNCHANGED <<rows, screen, requests, history>>
  BY DEF Connect
<1> QED
  BY <1>5, <1>6, <1>7, <1>8, StreamMoves

\* The opening batch, however far back it goes.
LEMMA OpenKeeps ==
    ASSUME FeedInv, Open
    PROVE  FeedInv'
<1>0. TypeOK /\ InFlight /\ NoneSkipped
  BY DEF FeedInv
<1>1. PICK n \in MinOpening..MaxBatch :
         /\ wire' = RecentLines(n)
         /\ IF RecentLines(n) = <<>>
            THEN conn' = "empty" /\ UNCHANGED last_id
            ELSE conn' = "polling" /\ last_id' = Last(RecentLines(n))
  BY DEF Open
<1>2. /\ conn = "opening" /\ rows' = rows /\ drops' = drops /\ opened' = Len(rows)
      /\ lastEvent' = lastEvent /\ retracted' = retracted
  BY DEF Open, screen, history
<1>3. n \in Nat \ {0}
  BY FeedAssumptions
<1> DEFINE b == RecentLines(n)
<1>4. /\ b \in Seq(Ids) /\ Increasing(b) /\ \A i \in Range(b) : rows[i]
      /\ \A i \in Ids : rows[i] /\ b # <<>> /\ Head(b) <= i => i \in Range(b)
  BY <1>0, <1>3, RecentIs
<1>5. wire' = b /\ (b = <<>> => conn' = "empty" /\ last_id' = last_id)
      /\ (b # <<>> => conn' = "polling" /\ last_id' = Last(b))
  BY <1>1
<1> HIDE DEF b
<1>6. /\ Ids' = Ids /\ Ids \in SUBSET Nat /\ \A i \in Ids : i \in Nat /\ 1 <= i /\ i <= Len(rows)
      /\ Len(rows) \in Nat
  BY <1>0, <1>2, Types DEF Ids
<1>7. lastEvent = 0
  BY <1>0, <1>2 DEF InFlight
<1>8. Range(b) \subseteq Ids
  BY <1>4, RangeIs
<1>9. InFlight'
  <2>1. ASSUME NEW i \in Range(b)
        PROVE  0 < i
    <3>1. i \in Nat /\ 1 <= i
      BY <1>6, <1>8
    <3> QED
      BY <3>1
  <2> QED
    BY <1>2, <1>4, <1>5, <1>7, <2>1 DEF InFlight
<1>10. NoneSkipped'
  <2>1. ASSUME conn' = "polling", NEW i \in Ids, Due(i)', rows[i]
        PROVE  i \in Range(b)
    <3>1. b # <<>> /\ Head(b) <= i
      BY <1>2, <1>5, <1>7, <2>1 DEF Due
    <3> QED
      BY <1>4, <2>1, <3>1
  <2> QED
    BY <1>2, <1>4, <1>5, <1>6, <2>1 DEF NoneSkipped
<1>11. last_id' \in 0..Len(rows)
  <2>1. CASE b = <<>>
    BY <1>0, <1>5, <2>1 DEF TypeOK
  <2>2. CASE b # <<>>
    <3>1. b \in Seq(Nat)
      BY <1>4, <1>6, SeqGrows
    <3>2. Last(b) \in Range(b)
      BY <1>4, <2>2, <3>1, EndsAre
    <3>3. Last(b) \in Nat /\ Last(b) <= Len(rows)
      BY <1>6, <1>8, <3>2
    <3> QED
      BY <1>5, <1>6, <2>2, <3>3
  <2> QED
    BY <2>1, <2>2
<1>12. /\ conn' \in {"down", "opening", "empty", "polling"} /\ wire' \in Seq(Ids)
       /\ drops' \in 0..MaxDrops /\ opened' \in 0..Len(rows)
  BY <1>0, <1>2, <1>4, <1>5, <1>6 DEF TypeOK
<1>13. UNCHANGED <<rows, screen, requests, history>>
  BY DEF Open
<1> QED
  BY <1>9, <1>10, <1>11, <1>12, <1>13, StreamMoves

\* Without a batch the stream starts somewhere, and has sent nothing.
LEMMA StartKeeps ==
    ASSUME FeedInv, OpenFails \/ StartAtEnd
    PROVE  FeedInv'
<1>0. TypeOK /\ InFlight /\ NoneSkipped
  BY DEF FeedInv
<1>1. /\ conn \in {"opening", "empty"} /\ conn' = "polling" /\ rows' = rows /\ wire' = wire
      /\ drops' = drops /\ lastEvent' = lastEvent /\ retracted' = retracted
      /\ opened' \in {opened, Len(rows)} /\ last_id' \in {0, Len(rows)}
  BY DEF OpenFails, StartAtEnd, AtEnd, screen, history
<1>2. wire = <<>> /\ lastEvent = 0
  BY <1>0, <1>1 DEF InFlight
<1>3. Range(wire) = {}
  BY <1>0, <1>2, Types, RangeIs
<1>4. InFlight'
  BY <1>0, <1>1, <1>2, <1>3 DEF InFlight
<1>5. NoneSkipped'
  BY <1>1, <1>2, <1>3 DEF NoneSkipped, Due
<1>6. Len(rows) \in Nat
  BY <1>0, Types
<1>7. /\ conn' \in {"down", "opening", "empty", "polling"}
      /\ last_id' \in 0..Len(rows) /\ wire' \in Seq(Ids)
      /\ drops' \in 0..MaxDrops /\ opened' \in 0..Len(rows)
  BY <1>0, <1>1, <1>6 DEF TypeOK
<1>8. UNCHANGED <<rows, screen, requests, history>>
  BY DEF OpenFails, StartAtEnd
<1> QED
  BY <1>4, <1>5, <1>7, <1>8, StreamMoves

\* A poll takes up where the last one stopped.
LEMMA PollKeeps ==
    ASSUME FeedInv, Poll
    PROVE  FeedInv'
<1>0. TypeOK /\ InFlight /\ NoneSkipped
  BY DEF FeedInv
<1> DEFINE b == LinesAfter(last_id, MaxBatch)
           w == wire \o b
<1>1. /\ conn = "polling" /\ conn' = conn /\ b # <<>> /\ wire' = w /\ last_id' = Last(b)
      /\ rows' = rows /\ drops' = drops /\ opened' = opened
      /\ lastEvent' = lastEvent /\ retracted' = retracted
  BY DEF Poll, Reached, screen, history
<1>2. /\ last_id \in Nat /\ lastEvent \in Nat /\ MaxBatch \in Nat \ {0}
      /\ Ids \in SUBSET Nat /\ \A i \in Ids : i \in Nat /\ 1 <= i /\ i <= Len(rows)
      /\ Len(rows) \in Nat /\ wire \in Seq(Ids)
  BY <1>0, Types, FeedAssumptions
<1>3. /\ b \in Seq(Ids) /\ Increasing(b)
      /\ \A i \in Range(b) : rows[i] /\ last_id < i
      /\ \A i \in Ids : rows[i] /\ last_id < i /\ b # <<>> /\ i <= Last(b) => i \in Range(b)
  BY <1>0, <1>2, AfterIs
<1> HIDE DEF b
<1>4. b \in Seq(Nat) /\ wire \in Seq(Nat) /\ Range(b) \subseteq Ids /\ Range(wire) \subseteq Ids
  BY <1>2, <1>3, SeqGrows, RangeIs
<1>5. /\ Head(b) \in Range(b) /\ Last(b) \in Range(b)
      /\ \A i \in Range(b) : i \in Nat /\ Head(b) <= i /\ i <= Last(b)
  BY <1>1, <1>3, <1>4, EndsAre
<1>6. ASSUME wire # <<>>
      PROVE  /\ Head(wire) \in Range(wire) /\ last_id = Last(wire)
             /\ \A i \in Range(wire) : i \in Nat /\ Head(wire) <= i /\ i <= last_id
  <2>1. Increasing(wire) /\ last_id = Last(wire)
    BY <1>0, <1>1, <1>6 DEF InFlight
  <2> QED
    BY <1>4, <1>6, <2>1, EndsAre
<1>7. \A i \in Range(wire), j \in Range(b) : i < j
  <2>1. SUFFICES ASSUME NEW i \in Range(wire), NEW j \in Range(b)
                 PROVE  i < j
    OBVIOUS
  <2>2. wire # <<>>
    BY <1>2, RangeIs
  <2>3. i \in Nat /\ i <= last_id
    BY <1>6, <2>2
  <2>4. j \in Nat /\ last_id < j
    BY <1>3, <1>5
  <2> QED
    BY <1>2, <2>3, <2>4
<1>8. /\ w \in Seq(Ids) /\ Range(w) = Range(wire) \cup Range(b)
      /\ w # <<>> /\ Last(w) = Last(b)
      /\ wire # <<>> => Head(w) = Head(wire)
      /\ wire = <<>> => w = b
      /\ Increasing(w)
  <2>1. Increasing(wire)
    BY <1>0 DEF InFlight
  <2> QED
    BY <1>1, <1>2, <1>3, <1>7, <2>1, JoinIs
<1> HIDE DEF w
<1>9. ASSUME NEW i \in Range(b)
      PROVE  lastEvent < i
  <2>1. last_id < i /\ i \in Nat
    BY <1>3, <1>5
  <2>2. CASE wire # <<>>
    <3>1. lastEvent < Head(wire) /\ Head(wire) \in Nat /\ Head(wire) <= last_id
      BY <1>0, <1>6, <2>2 DEF InFlight
    <3> QED
      BY <1>2, <2>1, <3>1
  <2>3. CASE wire = <<>>
    <3>1. lastEvent # 0 => last_id = lastEvent
      BY <1>0, <1>1, <2>3 DEF InFlight
    <3> QED
      BY <1>2, <2>1, <3>1
  <2> QED
    BY <2>2, <2>3
<1>10. InFlight'
  <2>1. \A i \in Range(w) : lastEvent < i
    BY <1>0, <1>8, <1>9 DEF InFlight
  <2> QED
    BY <1>1, <1>8, <2>1 DEF InFlight
<1>11. Ids' = Ids
  BY <1>1 DEF Ids
<1>12. NoneSkipped'
  <2>1. ASSUME NEW i \in Ids, Due(i)', i <= Last(b), rows[i]
        PROVE  i \in Range(w)
    <3>1. CASE last_id < i
      BY <1>1, <1>3, <1>8, <2>1, <3>1
    <3>2. CASE i <= last_id
      <4>1. Due(i)
        <5>1. CASE lastEvent # 0
          BY <1>1, <2>1, <5>1 DEF Due
        <5>2. CASE lastEvent = 0 /\ wire # <<>>
          BY <1>1, <1>8, <2>1, <5>2 DEF Due
        <5>3. CASE lastEvent = 0 /\ wire = <<>>
          <6>1. Head(b) <= i
            BY <1>1, <1>8, <2>1, <5>3 DEF Due
          <6>2. last_id < Head(b) /\ Head(b) \in Nat /\ i \in Nat
            BY <1>2, <1>3, <1>5
          <6> QED
            BY <1>2, <3>2, <6>1, <6>2
        <5> QED
          BY <5>1, <5>2, <5>3
      <4> QED
        BY <1>0, <1>1, <1>8, <2>1, <3>2, <4>1 DEF NoneSkipped
    <3> QED
      BY <1>2, <3>1, <3>2
  <2>2. \A i \in Range(w) : rows[i] \/ i \in retracted
    BY <1>0, <1>3, <1>8 DEF NoneSkipped
  <2> QED
    BY <1>1, <1>11, <2>1, <2>2 DEF NoneSkipped
<1>13. last_id' \in 0..Len(rows)
  <2>1. Last(b) \in Ids
    BY <1>4, <1>5
  <2>2. Last(b) \in Nat /\ Last(b) <= Len(rows)
    BY <1>2, <2>1
  <2> QED
    BY <1>1, <1>2, <2>2
<1>14. /\ conn' \in {"down", "opening", "empty", "polling"} /\ wire' \in Seq(Ids)
       /\ drops' \in 0..MaxDrops /\ opened' \in 0..Len(rows)
  BY <1>0, <1>1, <1>8 DEF TypeOK
<1>15. UNCHANGED <<rows, screen, requests, history>>
  BY DEF Poll
<1> QED
  BY <1>10, <1>12, <1>13, <1>14, <1>15, StreamMoves

\* A dropped connection loses what is in flight.
LEMMA DropKeeps ==
    ASSUME FeedInv, Drop
    PROVE  FeedInv'
<1>0. TypeOK
  BY DEF FeedInv
<1>1. /\ conn' = "down" /\ wire' = <<>> /\ drops' = drops + 1 /\ drops < MaxDrops
      /\ rows' = rows /\ last_id' = last_id /\ opened' = opened
  BY DEF Drop
<1>2. Range(<<>>) = {} /\ <<>> \in Seq(Ids)
  BY <1>0, Types, RangeIs
<1>3. InFlight' /\ NoneSkipped'
  BY <1>1, <1>2 DEF InFlight, NoneSkipped, Increasing
<1>4. drops' \in 0..MaxDrops
  BY <1>0, <1>1, FeedAssumptions DEF TypeOK
<1>5. /\ conn' \in {"down", "opening", "empty", "polling"}
      /\ last_id' \in 0..Len(rows) /\ wire' \in Seq(Ids) /\ opened' \in 0..Len(rows)
  BY <1>0, <1>1, <1>2 DEF TypeOK
<1>6. UNCHANGED <<rows, screen, requests, history>>
  BY DEF Drop
<1> QED
  BY <1>3, <1>4, <1>5, <1>6, StreamMoves
---------------------------------------------------------------------------
(* The table's steps.                                                      *)

\* A step that sets flags moves no position; past the last event it takes lines
\* away only by the logger, and puts none back.
LEMMA StreamFlags ==
    ASSUME TypeOK, InFlight, NoneSkipped, Ids' = Ids,
           UNCHANGED <<conn, last_id, wire, lastEvent>>,
           retracted \subseteq retracted',
           \A i \in Ids : lastEvent < i =>
              (rows'[i] => rows[i]) /\ (rows[i] => rows'[i] \/ i \in retracted')
    PROVE  InFlight' /\ NoneSkipped'
<1>1. /\ conn' = conn /\ last_id' = last_id /\ wire' = wire /\ lastEvent' = lastEvent
      /\ Range(wire) \subseteq Ids /\ \A i \in Ids : i \in Nat /\ 1 <= i
  BY Types
<1>2. InFlight'
  BY <1>1 DEF InFlight
<1>3. ASSUME NEW i \in Ids, Due(i)'
      PROVE  Due(i) /\ lastEvent < i
  <2>1. Due(i)
    BY <1>1, <1>3 DEF Due
  <2>2. i \in Nat /\ 1 <= i
    BY <1>1
  <2> QED
    BY <2>1, <2>2 DEF Due
<1>4. ASSUME conn = "polling", NEW i \in Ids, Due(i)', i <= last_id, rows'[i]
      PROVE  i \in Range(wire)
  <2>1. Due(i) /\ rows[i]
    BY <1>3, <1>4
  <2> QED
    BY <1>4, <2>1 DEF NoneSkipped
<1>5. ASSUME NEW i \in Range(wire)
      PROVE  rows'[i] \/ i \in retracted'
  <2>1. i \in Ids /\ lastEvent < i /\ (rows[i] \/ i \in retracted)
    BY <1>1 DEF InFlight, NoneSkipped
  <2> QED
    BY <2>1
<1> QED
  BY <1>1, <1>2, <1>4, <1>5 DEF NoneSkipped

\* What a step of the table leaves alone of what the tab is about.
LEMMA TabStands ==
    ASSUME UNCHANGED <<lines, undo, clear, undoing, page>>
    PROVE  /\ Of(page)' = Of(page) /\ Of(clear)' = Of(clear)
           /\ BeingUndone' = BeingUndone /\ AtTab' = AtTab
<1>1. Of(page)' = Of(page) /\ Of(clear)' = Of(clear) /\ BeingUndone' = BeingUndone
  BY DEF Of, BeingUndone
<1> QED
  BY <1>1 DEF AtTab

\* A line captured is the newest, past every position.
LEMMA HookKeeps ==
    ASSUME FeedInv, Hook
    PROVE  FeedInv'
<1>0. /\ TypeOK /\ InFlight /\ NoneSkipped /\ Heard /\ Crossing
      /\ NoneMissing /\ OnScreen /\ PageFits /\ FeedInOrder
  BY DEF FeedInv
<1>1. /\ Len(rows) < MaxRows /\ rows' = Append(rows, TRUE)
      /\ conn' = conn /\ last_id' = last_id /\ wire' = wire /\ drops' = drops
      /\ opened' = opened /\ lines' = lines /\ lastEvent' = lastEvent
      /\ exhausted' = exhausted /\ undo' = undo
      /\ page' = page /\ clear' = clear /\ undoing' = undoing
      /\ clears' = clears /\ retracted' = retracted /\ unsure' = unsure
      /\ crossed' = crossed /\ twice' = twice /\ stale' = stale
  BY DEF Hook, stream, screen, requests, history
<1>2. /\ rows \in Seq(BOOLEAN) /\ Len(rows) \in Nat /\ MaxRows \in Nat
      /\ wire \in Seq(Ids) /\ lines \in Seq(Ids) /\ undo \in Seq(Ids)
      /\ last_id \in Nat /\ last_id <= Len(rows)
      /\ lastEvent \in Nat /\ lastEvent <= Len(rows)
      /\ \A i \in Ids : i \in Nat /\ 1 <= i /\ i <= Len(rows)
      /\ Range(wire) \subseteq Ids /\ Range(lines) \subseteq Ids
      /\ Of(page) \subseteq Ids /\ Of(clear) \subseteq Ids /\ BeingUndone \subseteq Ids
  BY <1>0, Types, FeedAssumptions
<1>3. /\ rows' \in Seq(BOOLEAN) /\ Len(rows') = Len(rows) + 1 /\ Len(rows') <= MaxRows
      /\ \A i \in 1..Len(rows) : rows'[i] = rows[i]
  BY <1>1, <1>2
<1>4. Ids \subseteq Ids' /\ \A i \in Ids : rows'[i] = rows[i]
  BY <1>2, <1>3 DEF Ids
<1>5. \A i \in Ids' : i <= Len(rows) => i \in Ids
  BY <1>2, <1>3 DEF Ids
<1>6. TypeOK'
  <2>1. wire \in Seq(Ids') /\ lines \in Seq(Ids') /\ undo \in Seq(Ids')
    BY <1>2, <1>4, SeqGrows
  <2>2. last_id' \in 0..Len(rows') /\ lastEvent' \in 0..Len(rows')
    BY <1>1, <1>2, <1>3
  <2>3. opened' \in 0..Len(rows')
    <3>1. opened \in 0..Len(rows)
      BY <1>0 DEF TypeOK
    <3> QED
      BY <1>1, <1>2, <1>3, <3>1
  <2>4. Requests \subseteq Requests'
    <3>1. \A r \in Requests : r.ids \in Seq(Ids')
      BY <1>4, SeqGrows DEF Requests
    <3> QED
      BY <3>1 DEF Requests
  <2>5. page \in Requests' /\ clear \in Requests' /\ undoing \in [Undos -> Requests']
    BY <1>0, <2>4, Types
  <2>6. retracted \cup unsure \cup crossed \cup twice \cup stale \subseteq Ids'
    BY <1>0, <1>4 DEF TypeOK
  <2>7. /\ conn \in {"down", "opening", "empty", "polling"} /\ drops \in 0..MaxDrops
        /\ exhausted \in BOOLEAN /\ clears \in 0..MaxClears
    BY <1>0 DEF TypeOK
  <2> QED
    BY <1>1, <1>3, <2>1, <2>2, <2>3, <2>5, <2>6, <2>7 DEF TypeOK
<1>7. InFlight'
  BY <1>0, <1>1 DEF InFlight
<1>8. NoneSkipped'
  <2>1. \A i : Due(i)' <=> Due(i)
    BY <1>1 DEF Due
  <2>2. ASSUME conn = "polling", NEW i \in Ids', Due(i), i <= last_id, rows'[i]
        PROVE  i \in Range(wire)
    <3>1. i \in Ids
      <4>1. i \in Nat
        BY <1>3 DEF Ids
      <4> QED
        BY <1>2, <1>5, <2>2, <4>1
    <3> QED
      BY <1>0, <1>4, <2>2, <3>1 DEF NoneSkipped
  <2>3. \A i \in Range(wire) : rows'[i] \/ i \in retracted
    BY <1>0, <1>2, <1>4 DEF NoneSkipped
  <2> QED
    BY <1>1, <2>1, <2>2, <2>3 DEF NoneSkipped
<1>9. /\ Of(page)' = Of(page) /\ Of(clear)' = Of(clear)
      /\ BeingUndone' = BeingUndone /\ AtTab' = AtTab
  BY <1>1, TabStands
<1>10. Heard' /\ FeedInOrder'
  BY <1>0, <1>1, <1>9, HeardStands, OrderStands
<1>11. \A i \in 1..lastEvent : rows'[i] /\ (rows[i] => Held(i)) => Held(i)'
  <2>1. \A i \in 1..lastEvent : rows'[i] = rows[i]
    BY <1>2, <1>3
  <2> QED
    BY <1>1, <1>9, <2>1 DEF Held
<1>12. NoneMissing'
  BY <1>0, <1>1, <1>9, <1>11, HoldStands
<1>13. Crossing'
  <2>1. ASSUME NEW u \in Undos, undoing[u].phase = "done", NEW i \in Of(undoing[u])
        PROVE  rows'[i] \/ i \in retracted \cup crossed
    <3>1. i \in Ids
      BY <1>0, <1>2, UndoMoves
    <3> QED
      BY <1>0, <1>4, <2>1, <3>1 DEF Crossing
  <2>2. clear.phase = "done" => \A i \in Of(clear) : ~rows'[i] \/ i \in crossed
    BY <1>0, <1>2, <1>4 DEF Crossing
  <2>3. Of(clear) \cap BeingUndone \subseteq crossed
    BY <1>0 DEF Crossing
  <2>4. \A u : Of(undoing[u])' = Of(undoing[u])
    BY <1>1 DEF Of
  <2> QED
    BY <1>1, <1>9, <2>1, <2>2, <2>3, <2>4 DEF Crossing
<1>14. OnScreen'
  BY <1>0, <1>1, <1>2, <1>4, <1>9 DEF OnScreen
<1>15. PageFits'
  <2>1. \A l \in Range(lines)' : l \in twice' \/ (l \in Range(lines) /\ l \notin twice)
    BY <1>1
  <2>2. \A i \in Of(page) :
           rows[i] \/ i \in retracted \cup stale => rows'[i] \/ i \in (retracted \cup stale)'
    BY <1>1, <1>2, <1>4
  <2> QED
    BY <1>0, <1>1, <1>11, <2>1, <2>2, PageStands
<1> QED
  BY <1>6, <1>7, <1>8, <1>10, <1>12, <1>13, <1>14, <1>15 DEF FeedInv

\* A line the logger takes back is noted as such.
LEMMA RetractKeeps ==
    ASSUME FeedInv, Retract
    PROVE  FeedInv'
<1>0. /\ TypeOK /\ InFlight /\ NoneSkipped /\ Heard /\ Crossing
      /\ NoneMissing /\ OnScreen /\ PageFits /\ FeedInOrder
  BY DEF FeedInv
<1>1. /\ rows # <<>> /\ rows' = Flagged(<<Len(rows)>>, FALSE)
      /\ retracted' = retracted \cup {Len(rows)}
      /\ conn' = conn /\ last_id' = last_id /\ wire' = wire /\ drops' = drops
      /\ opened' = opened /\ lines' = lines /\ lastEvent' = lastEvent
      /\ exhausted' = exhausted /\ undo' = undo
      /\ page' = page /\ clear' = clear /\ undoing' = undoing
      /\ clears' = clears /\ unsure' = unsure
      /\ crossed' = crossed /\ twice' = twice /\ stale' = stale
  BY DEF Retract, stream, screen, requests
<1>2. /\ rows \in Seq(BOOLEAN) /\ Len(rows) \in Nat /\ lines \in Seq(Ids)
      /\ Range(lines) \subseteq Ids /\ lastEvent \in Nat /\ lastEvent <= Len(rows)
      /\ Of(page) \subseteq Ids /\ Of(clear) \subseteq Ids /\ BeingUndone \subseteq Ids
      /\ Ids = 1..Len(rows)
  BY <1>0, Types
<1>3. Len(rows) \in Ids
  BY <1>1, <1>2 DEF Ids
<1>4. /\ rows' \in Seq(BOOLEAN) /\ Len(rows') = Len(rows)
      /\ \A i \in Ids : rows'[i] = IF i = Len(rows) THEN FALSE ELSE rows[i]
  <2>1. <<Len(rows)>> \in Seq(Ids) /\ Range(<<Len(rows)>>) = {Len(rows)}
    BY <1>3, OneIs
  <2>2. /\ Flagged(<<Len(rows)>>, FALSE) \in Seq(BOOLEAN)
        /\ Len(Flagged(<<Len(rows)>>, FALSE)) = Len(rows)
        /\ \A i \in Ids : Flagged(<<Len(rows)>>, FALSE)[i]
                             = IF i \in Range(<<Len(rows)>>) THEN FALSE ELSE rows[i]
    BY <1>0, <2>1, FlaggedIs
  <2> QED
    BY <1>1, <2>1, <2>2
<1>5. Ids' = Ids
  BY <1>4 DEF Ids
<1>6. \A i \in Ids : (rows'[i] => rows[i]) /\ (rows[i] => rows'[i] \/ i \in retracted')
  BY <1>1, <1>4
<1>7. TypeOK'
  <2>1. retracted' \cup unsure \cup crossed \cup twice \cup stale \subseteq Ids
    BY <1>0, <1>1, <1>3 DEF TypeOK
  <2>2. Requests' = Requests
    BY <1>5 DEF Requests
  <2>3. /\ conn \in {"down", "opening", "empty", "polling"}
        /\ last_id \in 0..Len(rows) /\ lastEvent \in 0..Len(rows) /\ Len(rows) <= MaxRows
        /\ wire \in Seq(Ids) /\ lines \in Seq(Ids) /\ undo \in Seq(Ids)
        /\ drops \in 0..MaxDrops /\ clears \in 0..MaxClears /\ opened \in 0..Len(rows)
        /\ exhausted \in BOOLEAN
        /\ {page, clear} \subseteq Requests /\ undoing \in [Undos -> Requests]
    BY <1>0 DEF TypeOK
  <2> QED
    BY <1>1, <1>4, <1>5, <2>1, <2>2, <2>3 DEF TypeOK
<1>8. InFlight' /\ NoneSkipped'
  BY <1>0, <1>1, <1>5, <1>6, StreamFlags
<1>9. /\ Of(page)' = Of(page) /\ Of(clear)' = Of(clear)
      /\ BeingUndone' = BeingUndone /\ AtTab' = AtTab
  BY <1>1, TabStands
<1>10. Heard' /\ FeedInOrder'
  BY <1>0, <1>1, <1>9, HeardStands, OrderStands
<1>11. \A i \in 1..lastEvent : rows'[i] /\ (rows[i] => Held(i)) => Held(i)'
  <2>1. \A i \in 1..lastEvent : rows'[i] => rows[i]
    BY <1>2, <1>6
  <2> QED
    BY <1>1, <1>9, <2>1 DEF Held
<1>12. NoneMissing'
  BY <1>0, <1>1, <1>9, <1>11, HoldStands
<1>13. Crossing'
  <2>1. ASSUME NEW u \in Undos, undoing[u].phase = "done", NEW i \in Of(undoing[u])
        PROVE  rows'[i] \/ i \in retracted' \cup crossed
    <3>1. i \in Ids
      BY <1>0, <1>2, UndoMoves
    <3> QED
      BY <1>0, <1>1, <1>6, <2>1, <3>1 DEF Crossing
  <2>2. clear.phase = "done" => \A i \in Of(clear) : ~rows'[i] \/ i \in crossed
    BY <1>0, <1>2, <1>6 DEF Crossing
  <2>3. Of(clear) \cap BeingUndone \subseteq crossed
    BY <1>0 DEF Crossing
  <2>4. \A u : Of(undoing[u])' = Of(undoing[u])
    BY <1>1 DEF Of
  <2> QED
    BY <1>1, <1>9, <2>1, <2>2, <2>3, <2>4 DEF Crossing
<1>14. OnScreen'
  <2>1. ASSUME NEW i \in Range(lines)
        PROVE  \/ rows'[i] \/ i \in retracted' \cup unsure \cup crossed \cup stale
               \/ clear.phase = "done" /\ i \in Of(clear)
    BY <1>0, <1>1, <1>2, <1>6 DEF OnScreen
  <2> QED
    BY <1>1, <1>9, <2>1 DEF OnScreen
<1>15. PageFits'
  <2>1. \A l \in Range(lines)' : l \in twice' \/ (l \in Range(lines) /\ l \notin twice)
    BY <1>1
  <2>2. \A i \in Of(page) :
           rows[i] \/ i \in retracted \cup stale => rows'[i] \/ i \in (retracted \cup stale)'
    BY <1>1, <1>2, <1>6
  <2> QED
    BY <1>0, <1>1, <1>11, <2>1, <2>2, PageStands
<1> QED
  BY <1>7, <1>8, <1>10, <1>12, <1>13, <1>14, <1>15 DEF FeedInv
---------------------------------------------------------------------------
(* The tab's steps.                                                        *)

\* An event is the next line of the feed: all before it was shown or is gone.
LEMMA ReceiveKeeps ==
    ASSUME FeedInv, Receive
    PROVE  FeedInv'
<1>0. /\ TypeOK /\ InFlight /\ NoneSkipped /\ Heard /\ Crossing
      /\ NoneMissing /\ OnScreen /\ PageFits /\ FeedInOrder
  BY DEF FeedInv
<1> DEFINE h == Head(wire)
           more == lines \o <<h>>
<1>1. /\ wire # <<>> /\ wire' = Tail(wire) /\ lastEvent' = h
      /\ lines' = IF lines # <<>> /\ h <= Last(lines) THEN lines ELSE Append(lines, h)
      /\ rows' = rows /\ conn' = conn /\ last_id' = last_id /\ drops' = drops
      /\ opened' = opened /\ exhausted' = exhausted /\ undo' = undo
      /\ page' = page /\ clear' = clear /\ undoing' = undoing
      /\ clears' = clears
      /\ retracted' = retracted /\ unsure' = unsure
      /\ crossed' = crossed /\ twice' = twice /\ stale' = stale
  BY DEF Receive, requests, history
<1>2. /\ Ids \in SUBSET Nat /\ (\A i \in Ids : i \in Nat /\ 1 <= i /\ i <= Len(rows))
      /\ wire \in Seq(Ids) /\ lines \in Seq(Ids) /\ lastEvent \in Nat /\ Len(rows) \in Nat
      /\ Range(wire) \subseteq Ids /\ Range(lines) \subseteq Ids
      /\ AtTab \subseteq Ids /\ Of(page) \subseteq Ids /\ page.ids \in Seq(Ids)
  BY <1>0, Types
<1>3. wire \in Seq(Nat) /\ lines \in Seq(Nat)
  BY <1>2, SeqGrows
<1>4. /\ conn = "polling" /\ Increasing(wire) /\ last_id = Last(wire)
      /\ \A i \in Range(wire) : lastEvent < i
  BY <1>0, <1>1 DEF InFlight
<1>5. /\ h \in Range(wire) /\ Last(wire) \in Range(wire)
      /\ \A i \in Range(wire) : i \in Nat /\ h <= i /\ i <= Last(wire)
  BY <1>1, <1>3, <1>4, EndsAre
<1>6. /\ Tail(wire) \in Seq(Ids) /\ Increasing(Tail(wire))
      /\ Range(Tail(wire)) = Range(wire) \ {h}
      /\ Tail(wire) # <<>> => Last(Tail(wire)) = Last(wire)
      /\ Tail(wire) = <<>> => Last(wire) = h
  BY <1>1, <1>2, <1>4, TailIs
<1>7. h \in Ids /\ h \in Nat /\ 1 <= h /\ h <= Len(rows) /\ lastEvent < h
  BY <1>2, <1>4, <1>5
<1>8. \A i \in AtTab \cup Of(page) : i \in Nat /\ i <= lastEvent /\ i < h /\ lastEvent # 0
  <2>1. SUFFICES ASSUME NEW i \in AtTab \cup Of(page)
                 PROVE  i \in Nat /\ i <= lastEvent /\ i < h /\ lastEvent # 0
    OBVIOUS
  <2>2. i \in Nat /\ 1 <= i /\ i <= lastEvent
    BY <1>0, <1>2 DEF Heard
  <2> QED
    BY <1>2, <1>7, <2>2
<1>9. lines' = more
  <2>1. ASSUME lines # <<>>
        PROVE  ~(h <= Last(lines))
    <3>1. Last(lines) \in Range(lines)
      <4>1. Len(lines) \in DOMAIN lines /\ Last(lines) = lines[Len(lines)]
        BY <1>2, <2>1 DEF Last
      <4> QED
        BY <1>2, <4>1, RangeIs
    <3>2. Last(lines) \in Nat /\ Last(lines) <= lastEvent
      BY <1>8, <3>1 DEF AtTab
    <3> QED
      BY <1>2, <1>7, <3>2
  <2>2. Append(lines, h) = lines \o <<h>>
    BY <1>2, <1>7
  <2> QED
    BY <1>1, <2>1, <2>2
<1>10. /\ more \in Seq(Ids) /\ Range(more) = Range(lines) \cup {h}
       /\ Ordered(more, twice)
  <2> DEFINE one == <<h>>
  <2>1. one \in Seq(Ids) /\ Range(one) = {h} /\ Ordered(one, twice)
    <3>1. one \in Seq(Ids) /\ Range(one) = {h} /\ Increasing(one)
      BY <1>7, OneIs
    <3> QED
      BY <3>1 DEF Increasing, Ordered
  <2>2. \A i \in Range(lines), j \in Range(one) : i < j \/ j \in twice
    BY <1>8, <2>1 DEF AtTab
  <2> HIDE DEF one
  <2>3. Ordered(lines, twice)
    BY <1>0 DEF FeedInOrder, Ordered
  <2>4. /\ lines \o one \in Seq(Ids) /\ Range(lines \o one) = Range(lines) \cup Range(one)
        /\ Ordered(lines \o one, twice)
    BY <1>2, <2>1, <2>2, <2>3, JoinIs
  <2> QED
    BY <2>1, <2>4 DEF one
<1> HIDE DEF h, more
<1>11. Ids' = Ids
  BY <1>1 DEF Ids
<1>12. TypeOK'
  <2>1. lastEvent' \in 0..Len(rows)
    BY <1>1, <1>2, <1>7
  <2> QED
    BY <1>0, <1>1, <1>6, <1>9, <1>10, <1>11, <2>1 DEF TypeOK, Requests
<1>13. InFlight'
  <2>1. \A i \in Range(Tail(wire)) : h < i
    BY <1>5, <1>6, <1>7
  <2>2. h # 0
    BY <1>7
  <2> QED
    BY <1>1, <1>4, <1>6, <2>1, <2>2 DEF InFlight
<1>14. NoneSkipped'
  <2>1. ASSUME NEW i \in Ids, h < i, i <= last_id, rows[i]
        PROVE  i \in Range(Tail(wire))
    <3>1. Due(i)
      <4>1. i \in Nat
        BY <1>2
      <4>2. lastEvent < i /\ Head(wire) <= i
        BY <1>2, <1>7, <2>1, <4>1 DEF h
      <4> QED
        BY <1>1, <4>2 DEF Due
    <3>2. i \in Range(wire)
      BY <1>0, <1>4, <2>1, <3>1 DEF NoneSkipped
    <3>3. i # h
      BY <1>7, <2>1
    <3> QED
      BY <1>6, <3>2, <3>3
  <2>2. ASSUME NEW i \in Ids, Due(i)'
        PROVE  h < i
    BY <1>1, <1>7, <2>2 DEF Due
  <2>3. \A i \in Range(Tail(wire)) : rows[i] \/ i \in retracted
    BY <1>0, <1>6 DEF NoneSkipped
  <2> QED
    BY <1>1, <1>11, <2>1, <2>2, <2>3 DEF NoneSkipped
<1>15. /\ Of(page)' = Of(page) /\ Of(clear)' = Of(clear) /\ BeingUndone' = BeingUndone
       /\ AtTab' = AtTab \cup {h}
       /\ \A i : Held(i)' <=> Held(i) \/ i = h
  <2>1. Of(page)' = Of(page) /\ Of(clear)' = Of(clear) /\ BeingUndone' = BeingUndone
    BY <1>1 DEF Of, BeingUndone
  <2>2. Range(lines') = Range(lines) \cup {h}
    BY <1>9, <1>10
  <2> QED
    BY <1>1, <2>1, <2>2 DEF AtTab, Held
<1>16. Heard' /\ Crossing' /\ FeedInOrder'
  <2>1. Heard'
    BY <1>1, <1>7, <1>8, <1>15 DEF Heard
  <2>2. Crossing'
    BY <1>0, <1>1, <1>15 DEF Crossing, Of
  <2>3. FeedInOrder'
    BY <1>1, <1>9, <1>10 DEF FeedInOrder, Ordered
  <2> QED
    BY <2>1, <2>2, <2>3
<1>17. ASSUME lastEvent # 0, NEW i \in 1..h, rows[i]
       PROVE  i <= lastEvent \/ i = h
  <2>1. SUFFICES ASSUME lastEvent < i, i < h
                 PROVE  FALSE
    BY <1>2, <1>7
  <2>2. i \in Nat /\ 1 <= i /\ i \in Ids
    BY <1>2, <1>7 DEF Ids
  <2>3. i <= last_id
    <3>1. Last(wire) \in Nat /\ h <= Last(wire) /\ last_id = Last(wire) /\ h \in Nat
      BY <1>4, <1>5
    <3> QED
      BY <2>1, <2>2, <3>1
  <2>4. i \in Range(wire)
    BY <1>0, <1>4, <1>17, <2>1, <2>2, <2>3 DEF NoneSkipped, Due
  <2> QED
    BY <1>5, <1>7, <2>1, <2>2, <2>4
<1>18. NoneMissing'
  <2>1. CASE lastEvent = 0
    <3>1. AtTab = {} /\ page.phase # "sent"
      <4>1. AtTab = {} /\ Of(page) = {}
        BY <1>8, <2>1
      <4>2. page.ids = <<>>
        BY <1>2, <4>1, RangeIs DEF Of
      <4> QED
        BY <1>0, <4>1, <4>2 DEF PageFits
    <3>2. PICK b \in Nat \ {0} : b = h
      BY <1>7
    <3>3. Shown(b)'
      <4>1. \A i \in b..h : i = h
        BY <3>2
      <4> QED
        BY <1>1, <1>15, <3>1, <3>2, <4>1 DEF Shown
    <3> QED
      BY <3>2, <3>3 DEF NoneMissing
  <2>2. CASE lastEvent # 0
    <3>1. PICK base \in Nat \ {0} : Shown(base)
      BY <1>0 DEF NoneMissing
    <3> DEFINE low == IF base <= h THEN base ELSE h
    <3>2. low \in Nat \ {0} /\ low <= h /\ low <= base
      BY <1>7, <3>1
    <3>3. \A i \in AtTab \cup {h} : low <= i
      <4>1. \A i \in AtTab : base <= i /\ i \in Nat
        BY <1>8, <3>1 DEF Shown
      <4> QED
        BY <1>7, <3>2, <4>1
    <3>4. page.phase = "sent" => low <= Head(page.ids)
      <4>1. SUFFICES ASSUME page.phase = "sent"
                     PROVE  low <= Head(page.ids)
        OBVIOUS
      <4>2. page.ids # <<>>
        BY <1>0, <4>1 DEF PageFits
      <4>3. Head(page.ids) \in Ids
        BY <1>2, <4>2
      <4>4. base <= Head(page.ids)
        BY <3>1, <4>1 DEF Shown
      <4>5. Head(page.ids) \in Nat
        BY <1>2, <4>3
      <4> HIDE DEF low
      <4> QED
        BY <3>2, <4>4, <4>5
    <3>5. ASSUME NEW i \in low..h, rows[i]
          PROVE  Held(i) \/ i = h
      <4>1. i \in 1..h
        BY <1>7, <3>2
      <4>2. CASE i = h
        BY <4>2
      <4>3. CASE i # h
        <5>1. i <= lastEvent
          BY <1>17, <2>2, <3>5, <4>1, <4>3
        <5>2. i < h /\ low <= i
          BY <1>7, <3>2, <4>1, <4>3
        <5>3. low = base
          BY <1>7, <3>2, <5>2
        <5>4. i \in base..lastEvent
          BY <1>2, <3>5, <5>1, <5>3, <4>1
        <5> QED
          BY <3>1, <3>5, <5>4 DEF Shown
      <4> QED
        BY <4>2, <4>3
    <3> HIDE DEF low
    <3>6. PICK b \in Nat \ {0} : b = low
      BY <3>2
    <3>7. Shown(b)'
      BY <1>1, <1>15, <3>3, <3>4, <3>5, <3>6 DEF Shown
    <3> QED
      BY <3>7 DEF NoneMissing
  <2> QED
    BY <2>1, <2>2
<1>19. OnScreen'
  <2>1. rows[h] \/ h \in retracted
    BY <1>0, <1>5 DEF NoneSkipped
  <2>2. Range(lines') = Range(lines) \cup {h}
    BY <1>9, <1>10
  <2> QED
    BY <1>0, <1>1, <1>15, <2>1, <2>2 DEF OnScreen
<1>20. PageFits'
  <2>1. Range(lines') = Range(lines) \cup {h}
    BY <1>9, <1>10
  <2>2. ASSUME page.phase = "sent"
        PROVE  /\ page.ids # <<>>
               /\ \A l \in Range(lines) \cup {h} : Head(page.ids) <= l \/ l \in twice
    <3>1. page.ids # <<>>
      BY <1>0, <2>2 DEF PageFits
    <3>2. Head(page.ids) \in Of(page)
      <4>1. 1 \in DOMAIN page.ids /\ Head(page.ids) = page.ids[1]
        BY <1>2, <3>1
      <4> QED
        BY <1>2, <4>1, RangeIs DEF Of
    <3>3. Head(page.ids) <= h
      BY <1>7, <1>8, <3>2
    <3> QED
      BY <1>0, <2>2, <3>1, <3>3 DEF PageFits
  <2>3. ASSUME page.phase = "done"
        PROVE  /\ Increasing(page.ids)
               /\ \A i \in Of(page) :
                     /\ \A l \in Range(lines) \cup {h} : i < l \/ l \in twice
                     /\ rows[i] \/ i \in retracted \cup stale
    BY <1>0, <1>8, <2>3 DEF PageFits
  <2>4. ASSUME page.phase = "done", page.ids # <<>>,
               NEW i \in Head(page.ids)..h, rows[i]
        PROVE  i \in Of(page) \/ Held(i) \/ i = h
    <3>1. Head(page.ids) \in Of(page) /\ Head(page.ids) \in Ids
      <4>1. 1 \in DOMAIN page.ids /\ Head(page.ids) = page.ids[1]
        BY <1>2, <2>4
      <4> QED
        BY <1>2, <4>1, RangeIs DEF Of
    <3>2. lastEvent # 0 /\ Head(page.ids) \in Nat /\ 1 <= Head(page.ids)
      BY <1>2, <1>8, <3>1
    <3>3. i \in 1..h
      BY <1>7, <3>2
    <3>4. CASE i = h
      BY <3>4
    <3>5. CASE i <= lastEvent
      <4>1. i \in Head(page.ids)..lastEvent
        BY <1>2, <3>2, <3>3, <3>5
      <4> QED
        BY <1>0, <2>4, <4>1 DEF PageFits
    <3> QED
      BY <1>17, <2>4, <3>2, <3>3, <3>4, <3>5
  <2> QED
    BY <1>1, <1>15, <2>1, <2>2, <2>3, <2>4 DEF PageFits
<1> QED
  BY <1>12, <1>13, <1>14, <1>16, <1>18, <1>19, <1>20 DEF FeedInv

\* A step that is the tab's own moves neither the table nor the stream, and has
\* the tab's parts to keep.
LEMMA TabMoves ==
    ASSUME FeedInv, UNCHANGED <<rows, stream, lastEvent, retracted>>,
           lines' \in Seq(Ids), undo' \in Seq(Ids), exhausted' \in BOOLEAN,
           page' \in Requests, clear' \in Requests,
           undoing' \in [Undos -> Requests], clears' \in 0..MaxClears,
           (unsure \cup crossed \cup twice \cup stale)' \subseteq Ids,
           Heard', Crossing', NoneMissing', OnScreen', PageFits', FeedInOrder'
    PROVE  FeedInv'
<1>0. TypeOK /\ InFlight /\ NoneSkipped
  BY DEF FeedInv
<1>1. /\ rows' = rows /\ conn' = conn /\ last_id' = last_id /\ wire' = wire
      /\ drops' = drops /\ opened' = opened
      /\ lastEvent' = lastEvent /\ retracted' = retracted
  BY DEF stream
<1>2. Ids' = Ids
  BY <1>1 DEF Ids
<1>3. Requests' = Requests
  BY <1>2 DEF Requests
<1>4. TypeOK'
  <2>1. /\ rows \in Seq(BOOLEAN) /\ Len(rows) <= MaxRows
        /\ conn \in {"down", "opening", "empty", "polling"}
        /\ last_id \in 0..Len(rows) /\ lastEvent \in 0..Len(rows)
        /\ wire \in Seq(Ids) /\ drops \in 0..MaxDrops /\ opened \in 0..Len(rows)
        /\ retracted \subseteq Ids
    BY <1>0 DEF TypeOK
  <2>2. retracted' \cup unsure' \cup crossed' \cup twice' \cup stale' \subseteq Ids
    BY <1>1, <2>1
  <2> QED
    BY <1>1, <1>2, <1>3, <2>1, <2>2 DEF TypeOK
<1>5. InFlight' /\ NoneSkipped'
  BY <1>0, <1>1, StreamStands
<1> QED
  BY <1>4, <1>5 DEF FeedInv

\* The types of what the tab's steps leave alone.
LEMMA TabTypes ==
    ASSUME TypeOK
    PROVE  /\ lines \in Seq(Ids) /\ undo \in Seq(Ids) /\ exhausted \in BOOLEAN
           /\ page \in Requests /\ clear \in Requests
           /\ undoing \in [Undos -> Requests] /\ clears \in 0..MaxClears
           /\ retracted \subseteq Ids /\ unsure \subseteq Ids /\ crossed \subseteq Ids
           /\ twice \subseteq Ids /\ stale \subseteq Ids
           /\ None \in Requests /\ Ids \in SUBSET Nat
  <1>1. <<>> \in Seq(Ids)
    OBVIOUS
  <1> QED
    BY <1>1, Types, RequestIs DEF TypeOK

\* The ends of a sequence are in it.
LEMMA EndsAreIn ==
    ASSUME NEW T, NEW s \in Seq(T), s # <<>>
    PROVE  Head(s) \in Range(s) /\ Last(s) \in Range(s) /\ Head(s) \in T /\ Last(s) \in T
<1>1. /\ 1 \in DOMAIN s /\ Head(s) = s[1]
      /\ Len(s) \in DOMAIN s /\ Last(s) = s[Len(s)]
  BY DEF Last
<1> QED
  BY <1>1, RangeIs

\* A page is asked for, answered and given up beside the feed.
LEMMA PageAskedKeeps ==
    ASSUME FeedInv, AskHistory \/ AnswerHistory \/ HistoryFails
    PROVE  FeedInv'
<1>0. /\ TypeOK /\ Heard /\ Crossing /\ NoneMissing /\ OnScreen /\ PageFits /\ FeedInOrder
  BY DEF FeedInv
<1>1. /\ rows' = rows /\ lines' = lines /\ lastEvent' = lastEvent
      /\ exhausted' = exhausted /\ undo' = undo /\ clear' = clear
      /\ undoing' = undoing /\ UNCHANGED stream
      /\ clears' = clears /\ retracted' = retracted /\ unsure' = unsure
      /\ crossed' = crossed /\ twice' = twice /\ stale' = stale
  BY DEF AskHistory, AnswerHistory, HistoryFails, screen, history
<1>2. /\ Of(clear)' = Of(clear) /\ BeingUndone' = BeingUndone /\ AtTab' = AtTab
      /\ \A i : Held(i)' <=> Held(i)
  <2>1. Of(clear)' = Of(clear) /\ BeingUndone' = BeingUndone
    BY <1>1 DEF Of, BeingUndone
  <2> QED
    BY <1>1, <2>1 DEF AtTab, Held
<1>3. /\ lines \in Seq(Ids) /\ (\A i \in Ids : i \in Nat /\ 1 <= i)
      /\ page.ids \in Seq(Ids) /\ lastEvent \in Nat
  BY <1>0, Types
<1>4. /\ page' \in Requests /\ PageFits' /\ \A i \in Of(page)' : i <= lastEvent
      /\ page'.phase = "sent" => page' = page \/ Head(page'.ids) \in AtTab
  <2>1. CASE AskHistory
    <3>1. lines # <<>> /\ page' = Sent(<<Head(lines)>>)
      BY <2>1 DEF AskHistory
    <3>2. Head(lines) \in Ids /\ Head(lines) \in Range(lines)
      BY <1>3, <3>1, EndsAreIn
    <3>3. /\ <<Head(lines)>> \in Seq(Ids) /\ <<Head(lines)>> # <<>>
          /\ Range(<<Head(lines)>>) = {Head(lines)} /\ Head(<<Head(lines)>>) = Head(lines)
      BY <3>2, OneIs
    <3>4. page' \in Requests
      BY <3>1, <3>3, RequestIs
    <3>5. page'.phase = "sent" /\ page'.ids = <<Head(lines)>> /\ Of(page)' = {Head(lines)}
      BY <3>1, <3>3, NoneIs DEF Of
    <3>6. Head(lines) \in AtTab /\ Head(lines) <= lastEvent
      BY <1>0, <3>2 DEF AtTab, Heard
    <3>7. ASSUME NEW l \in Range(lines)
          PROVE  Head(lines) <= l \/ l \in twice
      <4>1. PICK k \in DOMAIN lines : lines[k] = l
        BY <1>3, RangeIs
      <4>2. 1 \in DOMAIN lines /\ Head(lines) = lines[1] /\ DOMAIN lines = 1..Len(lines)
        BY <1>3, <3>1
      <4>3. k = 1 \/ 1 < k
        BY <4>1, <4>2
      <4>4. lines[1] \in Nat /\ lines[k] \in Nat
        BY <1>3, <4>1, <4>2
      <4> QED
        BY <1>0, <4>1, <4>2, <4>3, <4>4 DEF FeedInOrder
    <3>8. PageFits'
      BY <1>1, <3>3, <3>5, <3>7 DEF PageFits
    <3> QED
      BY <3>3, <3>4, <3>5, <3>6, <3>8
  <2>2. CASE AnswerHistory
    <3>1. page.phase = "sent" /\ page' = Done(LinesBefore(Head(page.ids), PageSize))
      BY <2>2 DEF AnswerHistory
    <3> DEFINE id == Head(page.ids)
               p == LinesBefore(id, PageSize)
    <3>2. page.ids # <<>> /\ \A l \in Range(lines) : id <= l \/ l \in twice
      BY <1>0, <3>1 DEF PageFits
    <3>3. id \in Of(page) /\ id \in Ids
      BY <1>3, <3>2, EndsAreIn DEF Of
    <3>4. id \in Nat /\ PageSize \in Nat \ {0} /\ id <= lastEvent
      BY <1>0, <1>3, <3>3, FeedAssumptions DEF Heard
    <3>5. /\ p \in Seq(Ids) /\ Increasing(p) /\ \A i \in Range(p) : rows[i] /\ i < id
          /\ \A i \in Ids : rows[i] /\ i < id /\ p # <<>> /\ Head(p) <= i => i \in Range(p)
      BY <1>0, <3>4, BeforeIs
    <3>6. page' = Done(p)
      BY <3>1
    <3>7. \A l \in Range(lines) : id <= l \/ l \in twice
      BY <3>2
    <3> HIDE DEF p, id
    <3>8. page' \in Requests
      BY <3>5, <3>6, RequestIs
    <3>9. page'.phase = "done" /\ page'.ids = p /\ Of(page)' = Range(p)
      BY <3>6, NoneIs DEF Of
    <3>10. Range(p) \subseteq Ids /\ Range(lines) \subseteq Ids
      BY <1>3, <3>5, RangeIs
    <3>11. \A i \in Range(p) : i <= lastEvent
      BY <1>3, <3>4, <3>5, <3>10
    <3>12. ASSUME NEW i \in Range(p)
           PROVE  /\ \A l \in Range(lines) : i < l \/ l \in twice
                  /\ rows[i]
      <4>1. i < id /\ i \in Nat /\ rows[i]
        BY <1>3, <3>5, <3>10
      <4>2. \A l \in Range(lines) : l \in Nat
        BY <1>3, <3>10
      <4> QED
        BY <3>4, <3>7, <4>1, <4>2
    <3>13. ASSUME p # <<>>, NEW i \in Head(p)..lastEvent, rows[i]
           PROVE  i \in Range(p) \/ Held(i)
      <4>1. PICK base \in Nat \ {0} : Shown(base)
        BY <1>0 DEF NoneMissing
      <4>2. base <= id
        BY <3>1, <4>1 DEF Shown, id
      <4>3. Head(p) \in Ids /\ Head(p) \in Nat /\ 1 <= Head(p)
        BY <1>3, <3>5, <3>13, EndsAreIn
      <4>4. i \in Nat /\ Head(p) <= i /\ i <= lastEvent /\ i \in Ids
        <5>1. lastEvent <= Len(rows) /\ Ids = 1..Len(rows) /\ Len(rows) \in Nat
          BY <1>0, Types
        <5> QED
          BY <1>3, <4>3, <5>1
      <4>5. CASE i < id
        BY <3>5, <3>13, <4>4, <4>5
      <4>6. CASE ~(i < id)
        <5>1. i \in base..lastEvent
          BY <1>3, <3>4, <4>1, <4>2, <4>4, <4>6
        <5> QED
          BY <3>13, <4>1, <5>1 DEF Shown
      <4> QED
        BY <4>5, <4>6
    <3>14. PageFits'
      BY <1>1, <1>2, <3>5, <3>9, <3>12, <3>13 DEF PageFits
    <3> QED
      BY <3>8, <3>9, <3>11, <3>14
  <2>3. CASE HistoryFails
    <3>1. page' = None
      BY <2>3 DEF HistoryFails
    <3>2. page' \in Requests
      BY <1>0, <3>1, TabTypes
    <3>3. page'.phase = "none" /\ Of(page)' = {}
      BY <3>1, NoneIs DEF Of
    <3> QED
      BY <3>2, <3>3 DEF PageFits
  <2> QED
    BY <2>1, <2>2, <2>3
<1>5. Heard' /\ FeedInOrder'
  <2>1. Heard'
    BY <1>0, <1>1, <1>2, <1>4 DEF Heard
  <2> QED
    BY <1>0, <1>1, <2>1, OrderStands
<1>6. NoneMissing'
  BY <1>0, <1>1, <1>2, <1>4, HoldStands
<1>7. Crossing' /\ OnScreen'
  BY <1>0, <1>1, <1>2 DEF Crossing, OnScreen, Of
<1> QED
  BY <1>0, <1>1, <1>4, <1>5, <1>6, <1>7, TabMoves, TabTypes

\* A page goes in before the feed and brings all that is kept from its first
\* line on.
LEMMA ShowHistoryKeeps ==
    ASSUME FeedInv, ShowHistory
    PROVE  FeedInv'
<1>0. /\ TypeOK /\ Heard /\ Crossing /\ NoneMissing /\ OnScreen /\ PageFits /\ FeedInOrder
  BY DEF FeedInv
<1> DEFINE more == page.ids \o lines
<1>1. /\ page.phase = "done" /\ lines' = more /\ page' = None
      /\ exhausted' = (exhausted \/ page.ids = <<>>)
      /\ rows' = rows /\ lastEvent' = lastEvent /\ undo' = undo /\ clear' = clear
      /\ undoing' = undoing /\ UNCHANGED stream
      /\ clears' = clears /\ retracted' = retracted /\ unsure' = unsure
      /\ crossed' = crossed /\ twice' = twice /\ stale' = stale
  BY DEF ShowHistory, history
<1>2. /\ lines \in Seq(Ids) /\ (\A i \in Ids : i \in Nat /\ 1 <= i) /\ Ids \in SUBSET Nat
      /\ page.ids \in Seq(Ids) /\ lastEvent \in Nat /\ exhausted \in BOOLEAN
      /\ AtTab \subseteq Ids /\ Of(page) \subseteq Ids
  BY <1>0, Types, TabTypes
<1>3. /\ Increasing(page.ids)
      /\ \A i \in Of(page) :
            /\ \A l \in Range(lines) : i < l \/ l \in twice
            /\ rows[i] \/ i \in retracted \cup stale
      /\ page.ids # <<>> =>
            \A i \in Head(page.ids)..lastEvent :
               rows[i] => i \in Of(page) \/ Held(i)
  BY <1>0, <1>1 DEF PageFits
<1>4. /\ more \in Seq(Ids) /\ Range(more) = Of(page) \cup Range(lines)
      /\ Ordered(more, twice)
  <2>1. Ordered(page.ids, twice) /\ Ordered(lines, twice)
    BY <1>0, <1>3 DEF Ordered, Increasing, FeedInOrder
  <2>2. \A i \in Range(page.ids), l \in Range(lines) : i < l \/ l \in twice
    BY <1>3 DEF Of
  <2> QED
    BY <1>2, <2>1, <2>2, JoinIs DEF Of
<1> HIDE DEF more
<1>5. page'.phase = "none" /\ Of(page)' = {} /\ page' \in Requests
  BY <1>0, <1>1, NoneIs, TabTypes DEF Of
<1>6. /\ Of(clear)' = Of(clear) /\ BeingUndone' = BeingUndone
      /\ AtTab' = AtTab \cup Of(page)
      /\ \A i : Held(i)' <=> Held(i) \/ i \in Of(page)
  <2>1. Of(clear)' = Of(clear) /\ BeingUndone' = BeingUndone
    BY <1>1 DEF Of, BeingUndone
  <2> QED
    BY <1>1, <1>4, <2>1 DEF AtTab, Held
<1>7. Heard' /\ FeedInOrder' /\ PageFits'
  <2>1. Heard'
    BY <1>0, <1>1, <1>5, <1>6 DEF Heard
  <2>2. FeedInOrder'
    BY <1>1, <1>4 DEF FeedInOrder, Ordered
  <2> QED
    BY <1>5, <2>1, <2>2 DEF PageFits
<1>8. Crossing' /\ OnScreen'
  <2>1. Crossing'
    BY <1>0, <1>1, <1>6 DEF Crossing, Of
  <2>2. OnScreen'
    BY <1>0, <1>1, <1>3, <1>4, <1>6 DEF OnScreen
  <2> QED
    BY <2>1, <2>2
<1>9. NoneMissing'
  <2>1. PICK base \in Nat \ {0} : Shown(base)
    BY <1>0 DEF NoneMissing
  <2>2. CASE page.ids # <<>> /\ Head(page.ids) <= base
    <3>1. PICK b \in Nat \ {0} : b = Head(page.ids)
      <4>1. Head(page.ids) \in Ids
        BY <1>2, <2>2, EndsAreIn
      <4>2. Head(page.ids) \in Nat /\ 1 <= Head(page.ids)
        BY <1>2, <4>1
      <4> QED
        BY <4>2
    <3>2. \A i \in Of(page) : b <= i
      <4>1. page.ids \in Seq(Nat)
        BY <1>2, SeqGrows
      <4> QED
        BY <1>3, <2>2, <3>1, <4>1, EndsAre DEF Of
    <3>3. \A i \in AtTab : b <= i
      <4>1. \A i \in AtTab : base <= i /\ i \in Nat
        BY <1>2, <2>1 DEF Shown
      <4> QED
        BY <2>2, <3>1, <4>1
    <3>4. Shown(b)'
      <4>1. \A i \in b..lastEvent : rows[i] => i \in Of(page) \/ Held(i)
        BY <1>3, <2>2, <3>1
      <4> QED
        BY <1>1, <1>5, <1>6, <3>2, <3>3, <4>1 DEF Shown
    <3> QED
      BY <3>4 DEF NoneMissing
  <2>3. CASE ~(page.ids # <<>> /\ Head(page.ids) <= base)
    <3>1. \A i \in Of(page) : base <= i
      <4>1. SUFFICES ASSUME NEW i \in Of(page)
                     PROVE  base <= i
        OBVIOUS
      <4>2. page.ids \in Seq(Nat)
        BY <1>2, SeqGrows
      <4>3. page.ids # <<>>
        BY <1>2, RangeIs DEF Of
      <4>4. Head(page.ids) <= i /\ i \in Nat /\ Head(page.ids) \in Nat
        BY <1>3, <4>1, <4>2, <4>3, EndsAre DEF Of
      <4> QED
        BY <2>3, <4>3, <4>4
    <3>2. Shown(base)'
      BY <1>1, <1>5, <1>6, <2>1, <3>1 DEF Shown
    <3> QED
      BY <3>2 DEF NoneMissing
  <2> QED
    BY <2>2, <2>3
<1>10. lines' \in Seq(Ids) /\ exhausted' \in BOOLEAN
  BY <1>1, <1>2, <1>4
<1> QED
  BY <1>0, <1>1, <1>5, <1>7, <1>8, <1>9, <1>10, TabMoves, TabTypes

\* Clearing asks about a line on screen; one whose undo is out is noted.
LEMMA ClearLastKeeps ==
    ASSUME FeedInv, ClearLast
    PROVE  FeedInv'
<1>0. /\ TypeOK /\ Heard /\ Crossing /\ NoneMissing /\ OnScreen /\ PageFits /\ FeedInOrder
  BY DEF FeedInv
<1>1. /\ clears < MaxClears /\ clear = None /\ lines # <<>>
      /\ clear' = Sent(<<Last(lines)>>) /\ clears' = clears + 1
      /\ crossed' = crossed \cup ({Last(lines)} \cap BeingUndone)
      /\ rows' = rows /\ lines' = lines /\ lastEvent' = lastEvent
      /\ exhausted' = exhausted /\ undo' = undo /\ page' = page
      /\ undoing' = undoing /\ UNCHANGED stream
      /\ retracted' = retracted /\ unsure' = unsure
      /\ twice' = twice /\ stale' = stale
  BY DEF ClearLast, screen
<1>2. /\ lines \in Seq(Ids) /\ BeingUndone \subseteq Ids /\ crossed \subseteq Ids
      /\ clears \in 0..MaxClears /\ MaxClears \in Nat
  BY <1>0, Types, TabTypes, FeedAssumptions
<1>3. Last(lines) \in Range(lines) /\ Last(lines) \in Ids
  BY <1>1, <1>2, EndsAreIn
<1>4. <<Last(lines)>> \in Seq(Ids) /\ Range(<<Last(lines)>>) = {Last(lines)}
  BY <1>3, OneIs
<1>5. clear' \in Requests /\ clear'.phase = "sent" /\ Of(clear)' = {Last(lines)}
  BY <1>1, <1>4, RequestIs, NoneIs DEF Of
<1>6. Of(page)' = Of(page) /\ BeingUndone' = BeingUndone
  BY <1>1 DEF Of, BeingUndone
<1>7. AtTab' \subseteq AtTab /\ \A i : Held(i) => Held(i)'
  BY <1>1, <1>3, <1>5, <1>6 DEF AtTab, Held
<1>8. Heard' /\ NoneMissing' /\ FeedInOrder'
  BY <1>0, <1>1, <1>6, <1>7, HeardStands, HoldStands, OrderStands
<1>9. PageFits'
  BY <1>0, <1>1, <1>7, PageStands
<1>10. Crossing'
  <2>1. Of(clear)' \cap BeingUndone' \subseteq crossed'
    BY <1>1, <1>5, <1>6
  <2>2. \A u \in Undos : undoing[u].phase = "done" =>
           \A i \in Of(undoing[u]) : rows[i] \/ i \in retracted \cup crossed'
    BY <1>0, <1>1 DEF Crossing
  <2> QED
    BY <1>1, <1>5, <2>1, <2>2 DEF Crossing, Of
<1>11. OnScreen'
  <2>1. clear.phase # "done"
    BY <1>1, NoneIs
  <2> QED
    BY <1>0, <1>1, <2>1 DEF OnScreen
<1>12. clears' \in 0..MaxClears /\ crossed' \subseteq Ids
  BY <1>1, <1>2
<1>13. (unsure \cup crossed \cup twice \cup stale)' \subseteq Ids
  BY <1>0, <1>1, <1>12, TabTypes
<1> QED
  BY <1>0, <1>1, <1>5, <1>8, <1>9, <1>10, <1>11, <1>12, <1>13, TabMoves, TabTypes

\* The server clears: what an undo, or a page not yet shown, has of it is noted.
LEMMA DiscardKeeps ==
    ASSUME FeedInv, Discard
    PROVE  FeedInv'
<1>0. /\ TypeOK /\ InFlight /\ NoneSkipped /\ Heard /\ Crossing
      /\ NoneMissing /\ OnScreen /\ PageFits /\ FeedInOrder
  BY DEF FeedInv
<1>1. /\ clear.phase = "sent" /\ rows' = Flagged(clear.ids, FALSE)
      /\ clear' = Done(Changed(clear.ids, FALSE))
      /\ stale' = IF page.phase = "done"
                  THEN stale \cup (Range(clear.ids) \cap Range(page.ids)) ELSE stale
      /\ conn' = conn /\ last_id' = last_id /\ wire' = wire /\ drops' = drops
      /\ opened' = opened /\ lines' = lines /\ lastEvent' = lastEvent
      /\ exhausted' = exhausted /\ undo' = undo /\ page' = page
      /\ undoing' = undoing /\ clears' = clears
      /\ retracted' = retracted /\ unsure' = unsure
      /\ crossed' = crossed /\ twice' = twice
  BY DEF Discard, stream, screen
<1>2. /\ clear.ids \in Seq(Ids) /\ Range(lines) \subseteq Ids /\ Of(page) \subseteq Ids
      /\ Of(clear) \subseteq Ids /\ BeingUndone \subseteq Ids
      /\ lastEvent \in Nat /\ lastEvent <= Len(rows) /\ Len(rows) \in Nat
      /\ Ids = 1..Len(rows) /\ \A i \in Ids : i \in Nat
  BY <1>0, Types
<1>3. /\ rows' \in Seq(BOOLEAN) /\ Len(rows') = Len(rows)
      /\ \A i \in Ids : rows'[i] = IF i \in Of(clear) THEN FALSE ELSE rows[i]
  BY <1>0, <1>1, <1>2, FlaggedIs DEF Of
<1>4. /\ Changed(clear.ids, FALSE) \in Seq(Ids)
      /\ \A i : i \in Range(Changed(clear.ids, FALSE)) <=> i \in Of(clear) /\ rows[i] # FALSE
  BY <1>0, <1>2, ChangedIs DEF Of
<1>5. /\ clear' \in Requests /\ clear'.phase = "done"
      /\ \A i : i \in Of(clear)' <=> i \in Of(clear) /\ rows[i] # FALSE
  BY <1>1, <1>4, RequestIs, NoneIs DEF Of
<1>6. Ids' = Ids /\ Requests' = Requests
  BY <1>3 DEF Ids, Requests
<1>7. Of(page)' = Of(page) /\ BeingUndone' = BeingUndone /\ AtTab' \subseteq AtTab
      /\ \A i : Held(i)' <=> Held(i)
  <2>1. Of(page)' = Of(page) /\ BeingUndone' = BeingUndone
    BY <1>1 DEF Of, BeingUndone
  <2> QED
    BY <1>1, <1>5, <2>1 DEF AtTab, Held
<1>8. stale' = IF page.phase = "done" THEN stale \cup (Of(clear) \cap Of(page)) ELSE stale
  BY <1>1 DEF Of
<1>9. TypeOK'
  <2>1. retracted \cup unsure \cup crossed \cup twice \cup stale' \subseteq Ids
    BY <1>0, <1>2, <1>8 DEF TypeOK
  <2>2. /\ conn \in {"down", "opening", "empty", "polling"}
        /\ last_id \in 0..Len(rows) /\ lastEvent \in 0..Len(rows) /\ Len(rows) <= MaxRows
        /\ wire \in Seq(Ids) /\ lines \in Seq(Ids) /\ undo \in Seq(Ids)
        /\ drops \in 0..MaxDrops /\ clears \in 0..MaxClears /\ opened \in 0..Len(rows)
        /\ exhausted \in BOOLEAN
        /\ page \in Requests /\ undoing \in [Undos -> Requests]
    BY <1>0 DEF TypeOK
  <2> QED
    BY <1>1, <1>3, <1>5, <1>6, <2>1, <2>2 DEF TypeOK
<1>10. InFlight' /\ NoneSkipped'
  <2>1. ASSUME NEW i \in Ids, lastEvent < i
        PROVE  rows'[i] = rows[i]
    <3>1. i \notin Of(clear)
      <4>1. \A j \in Of(clear) : j <= lastEvent /\ j \in Nat
        BY <1>0, <1>2 DEF Heard, AtTab
      <4> QED
        BY <1>2, <2>1, <4>1
    <3> QED
      BY <1>3, <3>1
  <2> QED
    BY <1>0, <1>1, <1>6, <2>1, StreamFlags
<1>11. \A i \in 1..lastEvent : rows'[i] /\ (rows[i] => Held(i)) => Held(i)'
  <2>1. \A i \in Ids : rows'[i] => rows[i]
    BY <1>3
  <2>2. 1..lastEvent \subseteq Ids
    BY <1>2
  <2> QED
    BY <1>7, <2>1, <2>2
<1>12. Heard' /\ NoneMissing' /\ FeedInOrder'
  BY <1>0, <1>1, <1>7, <1>11, HeardStands, HoldStands, OrderStands
<1>13. PageFits'
  <2>1. ASSUME page.phase = "done", NEW i \in Of(page), rows[i] \/ i \in retracted \cup stale
        PROVE  rows'[i] \/ i \in (retracted \cup stale)'
    BY <1>1, <1>2, <1>3, <1>8, <2>1
  <2>2. \A l \in Range(lines)' : l \in twice' \/ (l \in Range(lines) /\ l \notin twice)
    BY <1>1
  <2> QED
    BY <1>0, <1>1, <1>11, <2>1, <2>2, PageStands
<1>14. Crossing'
  <2>1. Of(clear)' \cap BeingUndone' \subseteq crossed'
    BY <1>0, <1>1, <1>5, <1>7 DEF Crossing
  <2>2. \A i \in Of(clear)' : ~rows'[i]
    BY <1>2, <1>3, <1>5
  <2>3. ASSUME NEW u \in Undos, undoing[u].phase = "done", NEW i \in Of(undoing[u])
        PROVE  rows'[i] \/ i \in retracted \cup crossed
    <3>1. i \in BeingUndone /\ i \in Ids
      BY <1>0, <1>2, UndoMoves
    <3>2. rows[i] \/ i \in retracted \cup crossed
      BY <1>0, <2>3 DEF Crossing
    <3>3. i \in Of(clear) => i \in crossed
      BY <1>0, <3>1 DEF Crossing
    <3> QED
      BY <1>3, <3>1, <3>2, <3>3
  <2>4. \A u : Of(undoing[u])' = Of(undoing[u])
    BY <1>1 DEF Of
  <2> QED
    BY <1>1, <2>1, <2>2, <2>3, <2>4 DEF Crossing
<1>15. OnScreen'
  <2>1. ASSUME NEW i \in Range(lines)
        PROVE  \/ rows'[i] \/ i \in retracted \cup unsure \cup crossed \cup stale
               \/ i \in Of(clear)'
    <3>1. rows[i] \/ i \in retracted \cup unsure \cup crossed \cup stale
      BY <1>0, <1>1, <2>1 DEF OnScreen
    <3> QED
      BY <1>2, <1>3, <1>5, <2>1, <3>1
  <2>2. stale \subseteq stale'
    BY <1>8
  <2> QED
    BY <1>1, <1>5, <2>1, <2>2 DEF OnScreen
<1> QED
  BY <1>9, <1>10, <1>12, <1>13, <1>14, <1>15 DEF FeedInv

\* A line cleared leaves the screen for the toast; one whose undo crossed it may
\* be kept by then.
LEMMA ShowClearedKeeps ==
    ASSUME FeedInv, ShowCleared
    PROVE  FeedInv'
<1>0. /\ TypeOK /\ Heard /\ Crossing /\ NoneMissing /\ OnScreen /\ PageFits /\ FeedInOrder
  BY DEF FeedInv
<1> DEFINE gone == Range(clear.ids)
           left == Without(lines, gone)
           batch == undo \o clear.ids
<1>1. /\ clear.phase = "done" /\ lines' = left /\ undo' = batch /\ clear' = None
      /\ rows' = rows /\ lastEvent' = lastEvent /\ exhausted' = exhausted
      /\ page' = page /\ undoing' = undoing /\ UNCHANGED stream
      /\ clears' = clears /\ retracted' = retracted /\ unsure' = unsure
      /\ crossed' = crossed /\ twice' = twice /\ stale' = stale
  BY DEF ShowCleared, history
<1>2. /\ lines \in Seq(Ids) /\ undo \in Seq(Ids) /\ clear.ids \in Seq(Ids)
      /\ Ids \in SUBSET Nat
  BY <1>0, Types, TabTypes
<1>3. /\ left \in Seq(Ids) /\ Ordered(left, twice)
      /\ \A i : i \in Range(left) <=> i \in Range(lines) /\ i \notin Of(clear)
  <2>0. gone = Of(clear)
    BY DEF Of
  <2> HIDE DEF gone
  <2>1. /\ left \in Seq(Ids)
        /\ \A k \in DOMAIN left : \E j \in DOMAIN lines :
              left[k] = lines[j] /\ lines[j] \notin gone
        /\ \A j \in DOMAIN lines : lines[j] \notin gone =>
              \E k \in DOMAIN left : left[k] = lines[j]
    BY <1>2, WithoutIs
  <2>2. Ordered(lines, twice)
    BY <1>0 DEF FeedInOrder, Ordered
  <2>3. Ordered(left, twice)
    BY <1>2, <2>2, WithoutOrdered
  <2> HIDE DEF left
  <2>4. \A x : x \in Range(left) <=> \E k \in DOMAIN left : left[k] = x
    BY <2>1, RangeIs
  <2>5. \A x : x \in Range(lines) <=> \E k \in DOMAIN lines : lines[k] = x
    BY <1>2, RangeIs
  <2> QED
    BY <2>0, <2>1, <2>3, <2>4, <2>5
<1>4. batch \in Seq(Ids) /\ Range(batch) = Range(undo) \cup Of(clear)
  BY <1>2, JoinIs DEF Of
<1> HIDE DEF left, batch
<1>5. clear' \in Requests /\ clear'.phase = "none" /\ Of(clear)' = {}
  BY <1>0, <1>1, NoneIs, TabTypes DEF Of
<1>6. Of(page)' = Of(page) /\ BeingUndone' = BeingUndone /\ AtTab' \subseteq AtTab
  <2>1. Of(page)' = Of(page) /\ BeingUndone' = BeingUndone
    BY <1>1 DEF Of, BeingUndone
  <2> QED
    BY <1>1, <1>3, <1>4, <1>5, <2>1 DEF AtTab
<1>7. \A i \in 1..lastEvent : rows'[i] /\ (rows[i] => Held(i)) => Held(i)'
  <2>1. \A i \in Of(clear) : rows[i] => i \in crossed
    BY <1>0, <1>1 DEF Crossing
  <2> QED
    BY <1>1, <1>3, <1>6, <2>1 DEF Held
<1>8. Heard' /\ NoneMissing'
  BY <1>0, <1>1, <1>6, <1>7, HeardStands, HoldStands
<1>9. FeedInOrder'
  BY <1>1, <1>3 DEF FeedInOrder, Ordered
<1>10. PageFits'
  <2>1. /\ \A l \in Range(lines)' : l \in twice' \/ (l \in Range(lines) /\ l \notin twice)
        /\ \A i \in Of(page) :
              rows[i] \/ i \in retracted \cup stale => rows'[i] \/ i \in (retracted \cup stale)'
    BY <1>1, <1>3
  <2> QED
    BY <1>0, <1>1, <1>7, <2>1, PageStands
<1>11. Crossing'
  BY <1>0, <1>1, <1>5 DEF Crossing, Of
<1>12. OnScreen'
  <2>1. ASSUME NEW i \in Range(left)
        PROVE  rows[i] \/ i \in retracted \cup unsure \cup crossed \cup stale
    BY <1>0, <1>3, <2>1 DEF OnScreen
  <2> QED
    BY <1>1, <2>1 DEF OnScreen
<1>13. lines' \in Seq(Ids) /\ undo' \in Seq(Ids)
  BY <1>1, <1>3, <1>4
<1> QED
  BY <1>0, <1>1, <1>5, <1>8, <1>9, <1>10, <1>11, <1>12, <1>13, TabMoves, TabTypes

\* A clear without an answer is noted, and its toast takes the batch with it.
LEMMA ClearFailsKeeps ==
    ASSUME FeedInv, ClearFails
    PROVE  FeedInv'
<1>0. /\ TypeOK /\ Heard /\ Crossing /\ NoneMissing /\ OnScreen /\ PageFits /\ FeedInOrder
  BY DEF FeedInv
<1>1. /\ clear' = None /\ undo' = <<>> /\ unsure' = unsure \cup Of(clear)
      /\ rows' = rows /\ lines' = lines /\ lastEvent' = lastEvent
      /\ exhausted' = exhausted /\ page' = page
      /\ undoing' = undoing /\ UNCHANGED stream
      /\ clears' = clears /\ retracted' = retracted
      /\ crossed' = crossed /\ twice' = twice /\ stale' = stale
  BY DEF ClearFails, Of
<1>2. Of(clear) \subseteq Ids /\ unsure \subseteq Ids
  BY <1>0, Types, TabTypes
<1>3. /\ clear' \in Requests /\ clear'.phase = "none" /\ Of(clear)' = {}
      /\ undo' \in Seq(Ids) /\ Range(undo') = {}
  <2>1. <<>> \in Seq(Ids) /\ Range(<<>>) = {}
    BY <1>0, Types, RangeIs
  <2> QED
    BY <1>0, <1>1, <2>1, NoneIs, TabTypes DEF Of
<1>4. Of(page)' = Of(page) /\ BeingUndone' = BeingUndone
  BY <1>1 DEF Of, BeingUndone
<1>5. AtTab' \subseteq AtTab /\ \A i : Held(i) => Held(i)'
  BY <1>1, <1>3, <1>4 DEF AtTab, Held
<1>6. Heard' /\ NoneMissing' /\ FeedInOrder'
  BY <1>0, <1>1, <1>4, <1>5, HeardStands, HoldStands, OrderStands
<1>7. PageFits'
  BY <1>0, <1>1, <1>5, PageStands
<1>8. Crossing'
  BY <1>0, <1>1, <1>3 DEF Crossing, Of
<1>9. OnScreen'
  BY <1>0, <1>1 DEF OnScreen
<1>10. (unsure \cup crossed \cup twice \cup stale)' \subseteq Ids
  BY <1>0, <1>1, <1>2, TabTypes
<1> QED
  BY <1>0, <1>1, <1>3, <1>6, <1>7, <1>8, <1>9, <1>10, TabMoves, TabTypes

\* An undo is about the toast; a clear of one of its lines is noted.
LEMMA UndoClearKeeps ==
    ASSUME FeedInv, NEW u \in Undos, UndoClear(u)
    PROVE  FeedInv'
<1>0. /\ TypeOK /\ Heard /\ Crossing /\ NoneMissing /\ OnScreen /\ PageFits /\ FeedInOrder
  BY DEF FeedInv
<1> DEFINE r == Sent(undo)
<1>1. /\ undoing' = [undoing EXCEPT ![u] = r] /\ undoing[u] = None
      /\ crossed' = crossed \cup (Range(undo) \cap Of(clear))
      /\ rows' = rows /\ lines' = lines /\ lastEvent' = lastEvent
      /\ exhausted' = exhausted /\ undo' = undo /\ page' = page
      /\ clear' = clear /\ UNCHANGED stream
      /\ clears' = clears /\ retracted' = retracted /\ unsure' = unsure
      /\ twice' = twice /\ stale' = stale
  BY DEF UndoClear, screen, Of
<1>2. undo \in Seq(Ids) /\ Range(undo) \subseteq Ids /\ undoing \in [Undos -> Requests]
  BY <1>0, Types
<1>3. r \in Requests /\ r.phase = "sent" /\ Of(r) = Range(undo)
  BY <1>2, RequestIs, NoneIs
<1> HIDE DEF r
<1>4. /\ \A v \in Undos : undoing'[v] = IF v = u THEN r ELSE undoing[v]
      /\ \A i \in BeingUndone' : i \in BeingUndone \/ i \in Of(r)
      /\ \A i \in BeingUndone : i \in BeingUndone' \/ i \in Of(undoing[u])
  BY <1>0, <1>1, UndoMoves
<1>5. /\ undoing' \in [Undos -> Requests] /\ Of(undoing[u]) = {}
      /\ Of(page)' = Of(page) /\ Of(clear)' = Of(clear)
  BY <1>1, <1>2, <1>3, NoneIs DEF Of
<1>6. AtTab' \subseteq AtTab /\ \A i : Held(i) => Held(i)'
  BY <1>1, <1>3, <1>4, <1>5 DEF AtTab, Held
<1>7. Heard' /\ NoneMissing' /\ FeedInOrder'
  BY <1>0, <1>1, <1>5, <1>6, HeardStands, HoldStands, OrderStands
<1>8. PageFits'
  BY <1>0, <1>1, <1>6, PageStands
<1>9. Crossing'
  <2>1. Of(clear) \cap BeingUndone' \subseteq crossed'
    BY <1>0, <1>1, <1>3, <1>4 DEF Crossing
  <2>2. ASSUME NEW v \in Undos, undoing'[v].phase = "done"
        PROVE  \A i \in Of(undoing[v])' : rows[i] \/ i \in retracted \cup crossed'
    <3>1. v # u /\ undoing'[v] = undoing[v]
      BY <1>3, <1>4, <2>2
    <3>2. Of(undoing[v])' = Of(undoing[v]) /\ undoing[v].phase = "done"
      BY <2>2, <3>1 DEF Of
    <3> QED
      BY <1>0, <1>1, <3>2 DEF Crossing
  <2> QED
    BY <1>0, <1>1, <1>5, <2>1, <2>2 DEF Crossing
<1>10. OnScreen'
  BY <1>0, <1>1, <1>5 DEF OnScreen
<1>11. (unsure \cup crossed \cup twice \cup stale)' \subseteq Ids
  BY <1>0, <1>1, <1>2, TabTypes
<1> QED
  BY <1>0, <1>1, <1>5, <1>7, <1>8, <1>9, <1>10, <1>11, TabMoves, TabTypes

\* The server puts lines back: they are on their way to the screen.
LEMMA UndiscardKeeps ==
    ASSUME FeedInv, NEW u \in Undos, Undiscard(u)
    PROVE  FeedInv'
<1>0. /\ TypeOK /\ InFlight /\ NoneSkipped /\ Heard /\ Crossing
      /\ NoneMissing /\ OnScreen /\ PageFits /\ FeedInOrder
  BY DEF FeedInv
<1> DEFINE r == Done(undoing[u].ids)
<1>1. /\ undoing[u].phase = "sent" /\ rows' = Flagged(undoing[u].ids, TRUE)
      /\ undoing' = [undoing EXCEPT ![u] = r]
      /\ conn' = conn /\ last_id' = last_id /\ wire' = wire /\ drops' = drops
      /\ opened' = opened /\ lines' = lines /\ lastEvent' = lastEvent
      /\ exhausted' = exhausted /\ undo' = undo /\ page' = page
      /\ clear' = clear /\ clears' = clears
      /\ retracted' = retracted /\ unsure' = unsure
      /\ crossed' = crossed /\ twice' = twice /\ stale' = stale
  BY DEF Undiscard, stream, screen, history
<1>2. /\ undoing[u].ids \in Seq(Ids) /\ Range(lines) \subseteq Ids /\ Of(page) \subseteq Ids
      /\ Of(clear) \subseteq Ids /\ BeingUndone \subseteq Ids
      /\ undoing \in [Undos -> Requests]
      /\ lastEvent \in Nat /\ lastEvent <= Len(rows) /\ Len(rows) \in Nat
      /\ Ids = 1..Len(rows) /\ \A i \in Ids : i \in Nat
  BY <1>0, Types
<1>3. r \in Requests /\ r.phase = "done" /\ Of(r) = Of(undoing[u])
  BY <1>2, RequestIs, NoneIs DEF Of
<1> HIDE DEF r
<1>4. /\ rows' \in Seq(BOOLEAN) /\ Len(rows') = Len(rows)
      /\ \A i \in Ids : rows'[i] = IF i \in Of(undoing[u]) THEN TRUE ELSE rows[i]
  BY <1>0, <1>1, <1>2, FlaggedIs DEF Of
<1>5. Ids' = Ids /\ Requests' = Requests
  BY <1>4 DEF Ids, Requests
<1>6. /\ \A v \in Undos : undoing'[v] = IF v = u THEN r ELSE undoing[v]
      /\ \A v \in Undos : Of(undoing[v])' = Of(undoing[v])
      /\ BeingUndone' = BeingUndone /\ Of(undoing[u]) \subseteq BeingUndone
  <2>1. /\ \A v \in Undos : undoing'[v] = IF v = u THEN r ELSE undoing[v]
        /\ \A i \in BeingUndone' : i \in BeingUndone \/ i \in Of(r)
        /\ \A i \in BeingUndone : i \in BeingUndone' \/ i \in Of(undoing[u])
        /\ Of(undoing[u]) \subseteq BeingUndone /\ Of(r) \subseteq BeingUndone'
    BY <1>0, <1>1, UndoMoves
  <2>2. \A v \in Undos : Of(undoing[v])' = Of(undoing[v])
    BY <1>3, <2>1 DEF Of
  <2> QED
    BY <1>3, <2>1, <2>2
<1>7. /\ Of(page)' = Of(page) /\ Of(clear)' = Of(clear) /\ AtTab' = AtTab
      /\ \A i : Held(i)' <=> Held(i)
  <2>1. Of(page)' = Of(page) /\ Of(clear)' = Of(clear)
    BY <1>1 DEF Of
  <2> QED
    BY <1>1, <1>6, <2>1 DEF AtTab, Held
<1>8. TypeOK'
  <2>1. /\ conn \in {"down", "opening", "empty", "polling"}
        /\ last_id \in 0..Len(rows) /\ lastEvent \in 0..Len(rows) /\ Len(rows) <= MaxRows
        /\ wire \in Seq(Ids) /\ lines \in Seq(Ids) /\ undo \in Seq(Ids)
        /\ drops \in 0..MaxDrops /\ clears \in 0..MaxClears /\ opened \in 0..Len(rows)
        /\ exhausted \in BOOLEAN /\ {page, clear} \subseteq Requests
        /\ retracted \cup unsure \cup crossed \cup twice \cup stale \subseteq Ids
    BY <1>0 DEF TypeOK
  <2>2. undoing' \in [Undos -> Requests]
    BY <1>1, <1>2, <1>3
  <2> QED
    BY <1>1, <1>4, <1>5, <2>1, <2>2 DEF TypeOK
<1>9. InFlight' /\ NoneSkipped'
  <2>1. ASSUME NEW i \in Ids, lastEvent < i
        PROVE  rows'[i] = rows[i]
    <3>1. i \notin Of(undoing[u])
      <4>1. \A j \in BeingUndone : j <= lastEvent /\ j \in Nat
        BY <1>0, <1>2 DEF Heard, AtTab
      <4> QED
        BY <1>2, <1>6, <2>1, <4>1
    <3> QED
      BY <1>4, <3>1
  <2> QED
    BY <1>0, <1>1, <1>5, <2>1, StreamFlags
<1>10. \A i \in 1..lastEvent : rows'[i] /\ (rows[i] => Held(i)) => Held(i)'
  <2>1. \A i \in Ids : rows'[i] => rows[i] \/ i \in BeingUndone
    BY <1>4, <1>6
  <2>2. 1..lastEvent \subseteq Ids
    BY <1>2
  <2> QED
    BY <1>7, <2>1, <2>2 DEF Held
<1>11. Heard' /\ NoneMissing' /\ FeedInOrder'
  BY <1>0, <1>1, <1>7, <1>10, HeardStands, HoldStands, OrderStands
<1>12. \A i \in Ids : rows[i] => rows'[i]
  BY <1>4
<1>13. PageFits'
  <2>1. \A i \in Of(page) :
           rows[i] \/ i \in retracted \cup stale => rows'[i] \/ i \in (retracted \cup stale)'
    BY <1>1, <1>2, <1>12
  <2>2. \A l \in Range(lines)' : l \in twice' \/ (l \in Range(lines) /\ l \notin twice)
    BY <1>1
  <2> QED
    BY <1>0, <1>1, <1>10, <2>1, <2>2, PageStands
<1>14. Crossing'
  <2>1. Of(clear)' \cap BeingUndone' \subseteq crossed'
    BY <1>0, <1>1, <1>6, <1>7 DEF Crossing
  <2>2. ASSUME clear.phase = "done", NEW i \in Of(clear)
        PROVE  ~rows'[i] \/ i \in crossed
    <3>1. i \in Ids /\ (~rows[i] \/ i \in crossed)
      BY <1>0, <1>2, <2>2 DEF Crossing
    <3>2. i \in BeingUndone => i \in crossed
      BY <1>0, <2>2 DEF Crossing
    <3> QED
      BY <1>4, <1>6, <3>1, <3>2
  <2>3. ASSUME NEW v \in Undos, undoing'[v].phase = "done", NEW i \in Of(undoing[v])
        PROVE  rows'[i] \/ i \in retracted \cup crossed
    <3>1. CASE v = u
      BY <1>2, <1>4, <1>6, <2>3, <3>1
    <3>2. CASE v # u
      <4>1. undoing[v].phase = "done"
        BY <1>6, <2>3, <3>2
      <4>2. i \in Ids
        BY <1>0, <1>2, <2>3, UndoMoves
      <4> QED
        BY <1>0, <1>12, <2>3, <4>1, <4>2 DEF Crossing
    <3> QED
      BY <3>1, <3>2
  <2> QED
    BY <1>1, <1>6, <1>7, <2>1, <2>2, <2>3 DEF Crossing
<1>15. OnScreen'
  BY <1>0, <1>1, <1>2, <1>7, <1>12 DEF OnScreen
<1> QED
  BY <1>8, <1>9, <1>11, <1>13, <1>14, <1>15 DEF FeedInv

\* What was put back returns to the screen, once and in its place; a page that
\* is out may bring it again.
LEMMA ShowRestoredKeeps ==
    ASSUME FeedInv, NEW u \in Undos, ShowRestored(u)
    PROVE  FeedInv'
<1>0. /\ TypeOK /\ Heard /\ Crossing /\ NoneMissing /\ OnScreen /\ PageFits /\ FeedInOrder
  BY DEF FeedInv
<1> DEFINE S == Range(lines) \cup Range(undoing[u].ids)
           more == Ascending(S)
<1>1. /\ undoing[u].phase = "done" /\ lines' = more
      /\ undoing' = [undoing EXCEPT ![u] = None] /\ undo' = <<>>
      /\ twice' = IF page = None THEN {} ELSE twice \cup Of(undoing[u])
      /\ rows' = rows /\ lastEvent' = lastEvent /\ exhausted' = exhausted
      /\ page' = page /\ clear' = clear /\ UNCHANGED stream
      /\ clears' = clears /\ retracted' = retracted /\ unsure' = unsure
      /\ crossed' = crossed /\ stale' = stale
  BY DEF ShowRestored, Restored, Of
<1>2. /\ Range(lines) \subseteq Ids /\ BeingUndone \subseteq Ids
      /\ Ids \in SUBSET Nat /\ IsFiniteSet(Ids) /\ undoing \in [Undos -> Requests]
  BY <1>0, Types
<1>3. /\ \A v \in Undos : undoing'[v] = IF v = u THEN None ELSE undoing[v]
      /\ \A i \in BeingUndone' : i \in BeingUndone \/ i \in Of(None)
      /\ \A i \in BeingUndone : i \in BeingUndone' \/ i \in Of(undoing[u])
      /\ Of(undoing[u]) \subseteq BeingUndone
  BY <1>0, <1>1, UndoMoves
<1>4. S = Range(lines) \cup Of(undoing[u])
  BY DEF Of
<1>5. /\ more \in Seq(Ids) /\ Increasing(more)
      /\ Range(more) = Range(lines) \cup Of(undoing[u])
  <2>1. S \in SUBSET Nat /\ IsFiniteSet(S) /\ S \subseteq Ids
    BY <1>2, <1>3, <1>4, FS_Subset
  <2> HIDE DEF S
  <2>2. /\ more \in Seq(S) /\ Increasing(more)
        /\ \A i \in S : \E k \in DOMAIN more : more[k] = i
    BY <2>1, AscendingIs
  <2> HIDE DEF more
  <2>3. \A i : i \in Range(more) <=> i \in S
    BY <2>2, RangeIs
  <2>4. more \in Seq(Ids)
    BY <2>1, <2>2, SeqGrows
  <2> QED
    BY <1>4, <2>2, <2>3, <2>4
<1> HIDE DEF S, more
<1>6. /\ undo' \in Seq(Ids) /\ Range(undo') = {} /\ Of(None) = {}
      /\ None.phase = "none" /\ undoing' \in [Undos -> Requests]
  <2>1. <<>> \in Seq(Ids) /\ Range(<<>>) = {}
    BY <1>0, Types, RangeIs
  <2>2. None \in Requests
    BY <1>0, TabTypes
  <2> QED
    BY <1>1, <1>2, <2>1, <2>2, NoneIs
<1>7. Of(page)' = Of(page) /\ Of(clear)' = Of(clear)
  BY <1>1 DEF Of
<1>8. AtTab' \subseteq AtTab /\ \A i : Held(i) => Held(i)'
  BY <1>1, <1>3, <1>5, <1>6, <1>7 DEF AtTab, Held
<1>9. Heard' /\ NoneMissing'
  BY <1>0, <1>1, <1>7, <1>8, HeardStands, HoldStands
<1>10. FeedInOrder'
  BY <1>1, <1>5 DEF FeedInOrder, Increasing
<1>11. PageFits'
  <2>1. CASE page = None
    <3>1. page'.phase = "none"
      BY <1>1, <1>6, <2>1
    <3> QED
      BY <3>1 DEF PageFits
  <2>2. CASE page # None
    <3>1. \A l \in Range(lines)' : l \in twice' \/ (l \in Range(lines) /\ l \notin twice)
      BY <1>1, <1>5, <2>2
    <3>2. \A i \in Of(page) :
             rows[i] \/ i \in retracted \cup stale => rows'[i] \/ i \in (retracted \cup stale)'
      BY <1>1
    <3>3. \A i \in 1..lastEvent : rows'[i] /\ (rows[i] => Held(i)) => Held(i)'
      BY <1>1, <1>8
    <3> QED
      BY <1>0, <1>1, <3>1, <3>2, <3>3, PageStands
  <2> QED
    BY <2>1, <2>2
<1>12. Crossing'
  <2>1. Of(clear)' \cap BeingUndone' \subseteq crossed'
    BY <1>0, <1>1, <1>3, <1>6, <1>7 DEF Crossing
  <2>2. ASSUME NEW v \in Undos, undoing'[v].phase = "done"
        PROVE  \A i \in Of(undoing[v])' : rows[i] \/ i \in retracted \cup crossed
    <3>1. undoing'[v] = undoing[v]
      BY <1>3, <1>6, <2>2
    <3>2. Of(undoing[v])' = Of(undoing[v]) /\ undoing[v].phase = "done"
      BY <2>2, <3>1 DEF Of
    <3> QED
      BY <1>0, <3>2 DEF Crossing
  <2> QED
    BY <1>0, <1>1, <1>7, <2>1, <2>2 DEF Crossing
<1>13. OnScreen'
  <2>1. \A i \in Of(undoing[u]) : rows[i] \/ i \in retracted \cup crossed
    BY <1>0, <1>1 DEF Crossing
  <2>2. ASSUME NEW i \in Range(more)
        PROVE  \/ rows[i] \/ i \in retracted \cup unsure \cup crossed \cup stale
               \/ clear.phase = "done" /\ i \in Of(clear)
    BY <1>0, <1>5, <2>1, <2>2 DEF OnScreen
  <2> QED
    BY <1>1, <1>7, <2>2 DEF OnScreen
<1>14. (unsure \cup crossed \cup twice \cup stale)' \subseteq Ids /\ lines' \in Seq(Ids)
  <2>1. twice' \subseteq Ids
    BY <1>0, <1>1, <1>2, <1>3, TabTypes
  <2> QED
    BY <1>0, <1>1, <1>5, <2>1, TabTypes
<1> QED
  BY <1>0, <1>1, <1>6, <1>9, <1>10, <1>11, <1>12, <1>13, <1>14, TabMoves, TabTypes

\* An undo without an answer is noted, and the toast goes.
LEMMA UndoFailsKeeps ==
    ASSUME FeedInv, NEW u \in Undos, UndoFails(u)
    PROVE  FeedInv'
<1>0. /\ TypeOK /\ Heard /\ Crossing /\ NoneMissing /\ OnScreen /\ PageFits /\ FeedInOrder
  BY DEF FeedInv
<1>1. /\ undoing' = [undoing EXCEPT ![u] = None] /\ undo' = <<>>
      /\ unsure' = unsure \cup Of(undoing[u])
      /\ rows' = rows /\ lines' = lines /\ lastEvent' = lastEvent
      /\ exhausted' = exhausted /\ page' = page
      /\ clear' = clear /\ UNCHANGED stream
      /\ clears' = clears /\ retracted' = retracted
      /\ crossed' = crossed /\ twice' = twice /\ stale' = stale
  BY DEF UndoFails, Of
<1>2. BeingUndone \subseteq Ids /\ undoing \in [Undos -> Requests]
  BY <1>0, Types
<1>3. /\ \A v \in Undos : undoing'[v] = IF v = u THEN None ELSE undoing[v]
      /\ \A i \in BeingUndone' : i \in BeingUndone \/ i \in Of(None)
      /\ \A i \in BeingUndone : i \in BeingUndone' \/ i \in Of(undoing[u])
      /\ Of(undoing[u]) \subseteq BeingUndone
  BY <1>0, <1>1, UndoMoves
<1>4. /\ undo' \in Seq(Ids) /\ Range(undo') = {} /\ Of(None) = {}
      /\ None.phase = "none" /\ undoing' \in [Undos -> Requests]
  <2>1. <<>> \in Seq(Ids) /\ Range(<<>>) = {}
    BY <1>0, Types, RangeIs
  <2>2. None \in Requests
    BY <1>0, TabTypes
  <2> QED
    BY <1>1, <1>2, <2>1, <2>2, NoneIs
<1>5. Of(page)' = Of(page) /\ Of(clear)' = Of(clear)
  BY <1>1 DEF Of
<1>6. AtTab' \subseteq AtTab /\ \A i : Held(i) => Held(i)'
  BY <1>1, <1>3, <1>4, <1>5 DEF AtTab, Held
<1>7. Heard' /\ NoneMissing' /\ FeedInOrder'
  BY <1>0, <1>1, <1>5, <1>6, HeardStands, HoldStands, OrderStands
<1>8. PageFits'
  BY <1>0, <1>1, <1>6, PageStands
<1>9. Crossing'
  <2>1. Of(clear)' \cap BeingUndone' \subseteq crossed'
    BY <1>0, <1>1, <1>3, <1>4, <1>5 DEF Crossing
  <2>2. ASSUME NEW v \in Undos, undoing'[v].phase = "done"
        PROVE  \A i \in Of(undoing[v])' : rows[i] \/ i \in retracted \cup crossed
    <3>1. undoing'[v] = undoing[v]
      BY <1>3, <1>4, <2>2
    <3>2. Of(undoing[v])' = Of(undoing[v]) /\ undoing[v].phase = "done"
      BY <2>2, <3>1 DEF Of
    <3> QED
      BY <1>0, <3>2 DEF Crossing
  <2> QED
    BY <1>0, <1>1, <1>5, <2>1, <2>2 DEF Crossing
<1>10. OnScreen'
  BY <1>0, <1>1, <1>5 DEF OnScreen
<1>11. (unsure \cup crossed \cup twice \cup stale)' \subseteq Ids
  BY <1>0, <1>1, <1>2, <1>3, TabTypes
<1> QED
  BY <1>0, <1>1, <1>4, <1>7, <1>8, <1>9, <1>10, <1>11, TabMoves, TabTypes

\* A toast that is gone takes only its batch.
LEMMA ToastExpiresKeeps ==
    ASSUME FeedInv, ToastExpires
    PROVE  FeedInv'
<1>0. /\ TypeOK /\ Heard /\ Crossing /\ NoneMissing /\ OnScreen /\ PageFits /\ FeedInOrder
  BY DEF FeedInv
<1>1. /\ undo' = <<>> /\ rows' = rows /\ lines' = lines /\ lastEvent' = lastEvent
      /\ exhausted' = exhausted /\ page' = page /\ clear' = clear
      /\ undoing' = undoing /\ UNCHANGED stream
      /\ clears' = clears /\ retracted' = retracted /\ unsure' = unsure
      /\ crossed' = crossed /\ twice' = twice /\ stale' = stale
  BY DEF ToastExpires, requests, history
<1>2. undo' \in Seq(Ids) /\ Range(undo') = {}
  BY <1>0, <1>1, Types, RangeIs
<1>3. /\ Of(page)' = Of(page) /\ Of(clear)' = Of(clear) /\ BeingUndone' = BeingUndone
  BY <1>1 DEF Of, BeingUndone
<1>4. AtTab' \subseteq AtTab /\ \A i : Held(i) => Held(i)'
  BY <1>1, <1>2, <1>3 DEF AtTab, Held
<1>5. Heard' /\ NoneMissing' /\ FeedInOrder'
  BY <1>0, <1>1, <1>3, <1>4, HeardStands, HoldStands, OrderStands
<1>6. PageFits'
  BY <1>0, <1>1, <1>4, PageStands
<1>7. Crossing' /\ OnScreen'
  BY <1>0, <1>1, <1>3 DEF Crossing, OnScreen, Of
<1>8. (unsure \cup crossed \cup twice \cup stale)' \subseteq Ids
  BY <1>0, <1>1, TabTypes
<1> QED
  BY <1>0, <1>1, <1>2, <1>5, <1>6, <1>7, <1>8, TabMoves, TabTypes

---------------------------------------------------------------------------
(* The theorems.                                                           *)

\* A tab that has just opened has nothing to be wrong about.
LEMMA InitFeed == Init => FeedInv
<1> SUFFICES ASSUME Init
             PROVE  FeedInv
  OBVIOUS
<1>1. /\ rows = [i \in 1..InitialRows |-> TRUE]
      /\ conn = "down" /\ last_id = 0 /\ wire = <<>> /\ drops = 0 /\ opened = 0
      /\ lines = <<>> /\ lastEvent = 0 /\ exhausted = FALSE
      /\ page = None /\ clear = None /\ undo = <<>> /\ clears = 0
      /\ undoing = [u \in Undos |-> None]
      /\ retracted = {} /\ unsure = {} /\ crossed = {} /\ twice = {} /\ stale = {}
  BY DEF Init
<1>2. /\ InitialRows \in Nat /\ InitialRows <= MaxRows /\ MaxRows \in Nat
      /\ MaxDrops \in Nat /\ MaxClears \in Nat
  BY FeedAssumptions
<1>3. rows \in Seq(BOOLEAN) /\ Len(rows) = InitialRows
  BY <1>1, <1>2
<1>4. <<>> \in Seq(Ids)
  OBVIOUS
<1>5. None \in Requests /\ None.phase = "none" /\ Of(None) = {}
  BY <1>4, RequestIs, NoneIs
<1>6. Range(<<>>) = {} /\ Increasing(<<>>)
  BY <1>4, RangeIs DEF Increasing
<1>7. TypeOK
  <2>1. 0 \in 0..Len(rows) /\ 0 \in 0..MaxDrops /\ 0 \in 0..MaxClears /\ Len(rows) <= MaxRows
    BY <1>2, <1>3
  <2>2. undoing \in [Undos -> Requests]
    BY <1>1, <1>5
  <2>3. retracted \cup unsure \cup crossed \cup twice \cup stale \subseteq Ids
    BY <1>1
  <2>4. /\ conn = "down" /\ last_id = 0 /\ wire = <<>> /\ drops = 0 /\ opened = 0
        /\ lines = <<>> /\ lastEvent = 0 /\ exhausted = FALSE
        /\ page = None /\ clear = None /\ undo = <<>> /\ clears = 0
    BY <1>1
  <2> QED
    BY <1>3, <1>4, <1>5, <2>1, <2>2, <2>3, <2>4 DEF TypeOK
<1>8. InFlight /\ NoneSkipped
  BY <1>1, <1>6 DEF InFlight, NoneSkipped
<1>9. \A u \in Undos : undoing[u].phase = "none" /\ Of(undoing[u]) = {}
  BY <1>1, <1>5
<1>10. BeingUndone = {} /\ AtTab = {}
  <2>1. BeingUndone = {}
    BY <1>9 DEF BeingUndone, Of
  <2> QED
    BY <1>1, <1>5, <1>6, <2>1 DEF AtTab
<1>11. Heard /\ Crossing /\ OnScreen /\ PageFits /\ FeedInOrder
  <2>1. Heard
    BY <1>1, <1>5, <1>10 DEF Heard
  <2>2. Crossing
    BY <1>1, <1>5, <1>9 DEF Crossing
  <2>3. OnScreen /\ PageFits /\ FeedInOrder
    BY <1>1, <1>5, <1>6 DEF OnScreen, PageFits, FeedInOrder
  <2> QED
    BY <2>1, <2>2, <2>3
<1>12. Shown(1)
  BY <1>1, <1>5, <1>10 DEF Shown
<1>13. NoneMissing
  BY <1>12 DEF NoneMissing
<1> QED
  BY <1>7, <1>8, <1>11, <1>13 DEF FeedInv

\* The inductive invariant of a tab that streams, scrolls back, clears and undoes,
\* whatever is out at once and whichever of it fails.
THEOREM FeedInvariant == Spec => []FeedInv
<1>1. FeedInv /\ [Next]_vars => FeedInv'
  <2> SUFFICES ASSUME FeedInv, [Next]_vars
               PROVE  FeedInv'
    OBVIOUS
  <2>1. CASE Hook \/ Retract
    BY <2>1, HookKeeps, RetractKeeps
  <2>2. CASE Connect \/ Open \/ OpenFails \/ StartAtEnd \/ Poll \/ Drop
    BY <2>2, ConnectKeeps, OpenKeeps, StartKeeps, PollKeeps, DropKeeps
  <2>3. CASE Receive
    BY <2>3, ReceiveKeeps
  <2>4. CASE AskHistory \/ AnswerHistory \/ ShowHistory \/ HistoryFails
    BY <2>4, PageAskedKeeps, ShowHistoryKeeps
  <2>5. CASE ClearLast \/ Discard \/ ShowCleared \/ ClearFails
    BY <2>5, ClearLastKeeps, DiscardKeeps, ShowClearedKeeps, ClearFailsKeeps
  <2>6. ASSUME NEW u \in Undos,
               UndoClear(u) \/ Undiscard(u) \/ ShowRestored(u) \/ UndoFails(u)
        PROVE  FeedInv'
    BY <2>6, UndoClearKeeps, UndiscardKeeps, ShowRestoredKeeps, UndoFailsKeeps
  <2>7. CASE ToastExpires
    BY <2>7, ToastExpiresKeeps
  <2>8. CASE UNCHANGED vars
    <3>1. UNCHANGED <<rows, screen, requests, history>>
          /\ UNCHANGED <<conn, last_id, wire, drops, opened>>
      BY <2>8 DEF vars, screen, requests, history
    <3>2. InFlight' /\ NoneSkipped'
      BY <3>1, StreamStands DEF FeedInv, screen, history
    <3>3. /\ conn' \in {"down", "opening", "empty", "polling"}
          /\ last_id' \in 0..Len(rows) /\ wire' \in Seq(Ids)
          /\ drops' \in 0..MaxDrops /\ opened' \in 0..Len(rows)
      BY <3>1 DEF FeedInv, TypeOK
    <3> QED
      BY <3>1, <3>2, <3>3, StreamMoves
  <2> QED
    BY <2>1, <2>2, <2>3, <2>4, <2>5, <2>6, <2>7, <2>8 DEF Next
<1> QED
  BY InitFeed, <1>1, PTL DEF Spec

\* The feed is in order and misses nothing from its first line to the last event
\* received, but for what FeedInOrder and NoGap name: FeedWhole of ReaderFeed.
THEOREM FeedStaysWhole == Spec => []FeedWhole
<1>1. FeedInv => FeedWhole
  <2> SUFFICES ASSUME FeedInv
               PROVE  FeedWhole
    OBVIOUS
  <2>1. TypeOK /\ NoneMissing /\ FeedInOrder
    BY DEF FeedInv
  <2>2. ASSUME lines # <<>>, NEW i \in Head(lines)..lastEvent, rows[i],
               i \notin BeingUndone \cup unsure \cup crossed
        PROVE  i \in Range(lines)
    <3>1. lines \in Seq(Ids) /\ lastEvent \in Nat /\ \A j \in Ids : j \in Nat
      BY <2>1, Types
    <3>2. Head(lines) \in Range(lines) /\ Head(lines) \in Nat
      BY <2>2, <3>1, EndsAreIn
    <3>3. PICK base \in Nat \ {0} : Shown(base)
      BY <2>1 DEF NoneMissing
    <3>4. base <= Head(lines)
      BY <3>2, <3>3 DEF Shown, AtTab
    <3>5. i \in base..lastEvent
      BY <3>1, <3>2, <3>3, <3>4
    <3> QED
      BY <2>2, <3>3, <3>5 DEF Shown, Held
  <2>3. NoGap
    BY <2>2 DEF NoGap
  <2> QED
    BY <2>1, <2>3 DEF FeedWhole
<1> QED
  BY FeedInvariant, <1>1, PTL

\* A cleared line that is still on screen is on its way off it, was taken back by
\* the logger, was in a request nobody heard of, or crossed another that had it:
\* ScreenAgrees of ReaderFeed.
THEOREM ScreenAndTableAgree == Spec => []ScreenAgrees
<1>1. FeedInv => ScreenAgrees
  BY DEF FeedInv, OnScreen, ScreenAgrees, Of
<1> QED
  BY FeedInvariant, <1>1, PTL
=============================================================================

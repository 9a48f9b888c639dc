--------------------------- MODULE RankingProofs ----------------------------
(***************************************************************************)
(* What sorting by rank gives: a sequence of every element once, in the    *)
(* order that the ranks come from.                                         *)
(***************************************************************************)
EXTENDS Ranking, Sequences, FiniteSetTheorems, TLAPS

\* Before is a strict total order of S, given as the set of its pairs.
Orders(before, S) ==
  /\ \A a \in S : <<a, a>> \notin before
  /\ \A a, b \in S : a # b => <<a, b>> \in before \/ <<b, a>> \in before
  /\ \A a, b, c \in S : <<a, b>> \in before /\ <<b, c>> \in before => <<a, c>> \in before

\* The rank of an element: how many are not after it.
NotAfter(before, S, a) == {b \in S : b = a \/ <<b, a>> \in before}
RankIn(before, S) == [a \in S |-> Cardinality(NotAfter(before, S, a))]

\* Every element has a rank of its own, and every rank up to their number is one's.
IsRanking(rank, S) ==
  /\ DOMAIN rank = S
  /\ \A a \in S : rank[a] \in 1..Cardinality(S)
  /\ \A a, b \in S : rank[a] = rank[b] => a = b
  /\ \A p \in 1..Cardinality(S) : \E a \in S : rank[a] = p

\* Ranks grow in the order.
LEMMA RankGrows ==
  ASSUME NEW S, IsFiniteSet(S), NEW before, Orders(before, S), NEW a \in S, NEW b \in S,
         <<a, b>> \in before
  PROVE  RankIn(before, S)[a] < RankIn(before, S)[b]
<1>1. NotAfter(before, S, a) \subseteq NotAfter(before, S, b) \ {b}
  BY DEF NotAfter, Orders
<1>2. IsFiniteSet(NotAfter(before, S, b)) /\ b \in NotAfter(before, S, b)
  BY FS_Subset DEF NotAfter
<1>3. /\ IsFiniteSet(NotAfter(before, S, b) \ {b})
      /\ Cardinality(NotAfter(before, S, b) \ {b}) = Cardinality(NotAfter(before, S, b)) - 1
  BY <1>2, FS_RemoveElement
<1>4. Cardinality(NotAfter(before, S, a)) <= Cardinality(NotAfter(before, S, b) \ {b})
  BY <1>1, <1>3, FS_Subset
<1>5. Cardinality(NotAfter(before, S, a)) \in Nat /\ Cardinality(NotAfter(before, S, b)) \in Nat
  BY <1>1, <1>2, <1>3, FS_Subset, FS_CardinalityType
<1> QED BY <1>3, <1>4, <1>5 DEF RankIn

LEMMA RankTyped ==
  ASSUME NEW S, IsFiniteSet(S), NEW before, NEW a \in S
  PROVE  RankIn(before, S)[a] \in 1..Cardinality(S)
<1>1. NotAfter(before, S, a) \subseteq S /\ a \in NotAfter(before, S, a)
  BY DEF NotAfter
<1>2. IsFiniteSet(NotAfter(before, S, a)) /\ Cardinality(NotAfter(before, S, a)) <= Cardinality(S)
  BY <1>1, FS_Subset
<1>3. Cardinality(NotAfter(before, S, a)) \in Nat /\ Cardinality(S) \in Nat
  BY <1>2, FS_CardinalityType
<1>4. Cardinality(NotAfter(before, S, a)) # 0
  BY <1>1, <1>2, FS_EmptySet
<1> QED BY <1>2, <1>3, <1>4 DEF RankIn

\* An order ranks a finite set.
LEMMA OrderRanks ==
  ASSUME NEW S, IsFiniteSet(S), NEW before, Orders(before, S)
  PROVE  IsRanking(RankIn(before, S), S)
<1> DEFINE rank == RankIn(before, S)
           T == 1..Cardinality(S)
<1>1. Cardinality(S) \in Nat
  BY FS_CardinalityType
<1>2. \A a \in S : rank[a] \in T
  BY RankTyped
<1>3. DOMAIN rank = S
  BY DEF RankIn
<1>4. ASSUME NEW a \in S, NEW b \in S, rank[a] = rank[b]
      PROVE  a = b
  <2>1. SUFFICES ASSUME a # b PROVE FALSE
    OBVIOUS
  <2>2. rank[a] < rank[b] \/ rank[b] < rank[a]
    BY <2>1, RankGrows DEF Orders
  <2>3. rank[a] \in Int /\ rank[b] \in Int
    BY <1>1, <1>2
  <2> HIDE DEF rank
  <2> QED BY <1>4, <2>2, <2>3
<1>5. rank \in [S -> T]
  BY <1>2, <1>3 DEF RankIn
<1> HIDE DEF rank
<1>6. rank \in Injection(S, T)
  BY <1>4, <1>5 DEF Injection, IsInjective
<1>7. IsFiniteSet(T) /\ Cardinality(T) = Cardinality(S)
  BY <1>1, FS_Interval
<1>8. rank \in Surjection(S, T)
  BY <1>6, <1>7, FS_Injection
<1>9. \A p \in T : \E a \in S : rank[a] = p
  BY <1>8 DEF Surjection
<1> QED BY <1>2, <1>3, <1>4, <1>9 DEF IsRanking, rank

\* What sorting by rank returns.
LEMMA ByRankIs ==
  ASSUME NEW S, IsFiniteSet(S), NEW rank, IsRanking(rank, S)
  PROVE  /\ ByRank(rank) \in Seq(S)
         /\ Len(ByRank(rank)) = Cardinality(S)
         /\ \A p \in 1..Cardinality(S) : ByRank(rank)[p] \in S /\ rank[ByRank(rank)[p]] = p
         /\ \A a \in S : ByRank(rank)[rank[a]] = a
<1> DEFINE n == Cardinality(S)
           seq == [p \in 1..n |-> CHOOSE x \in S : rank[x] = p]
<1>1. n \in Nat
  BY FS_CardinalityType
<1>2. ByRank(rank) = seq
  BY DEF ByRank, IsRanking
<1>3. \A p \in 1..n : seq[p] \in S /\ rank[seq[p]] = p
  BY DEF IsRanking
<1>4. DOMAIN seq = 1..n /\ seq \in [1..n -> S]
  BY <1>3
<1> HIDE DEF n, seq
<1>5. seq \in Seq(S) /\ Len(seq) = n
  BY <1>1, <1>4
<1>6. \A a \in S : seq[rank[a]] = a
  BY <1>3 DEF IsRanking, n
<1> QED BY <1>2, <1>3, <1>5, <1>6 DEF n

\* A sequence sorted by an order: earlier places hold earlier elements.
LEMMA SortedByOrder ==
  ASSUME NEW S, IsFiniteSet(S), NEW before, Orders(before, S),
         NEW seq, seq = ByRank(RankIn(before, S)),
         NEW p \in 1..Len(seq), NEW q \in 1..Len(seq), p < q
  PROVE  <<seq[p], seq[q]>> \in before
<1> DEFINE rank == RankIn(before, S)
<1>1. /\ Len(seq) = Cardinality(S) /\ Cardinality(S) \in Nat
      /\ \A x \in 1..Cardinality(S) : seq[x] \in S /\ rank[seq[x]] = x
  BY OrderRanks, ByRankIs, FS_CardinalityType
<1>2. /\ seq[p] \in S /\ seq[q] \in S
      /\ rank[seq[p]] = p /\ rank[seq[q]] = q
  BY <1>1
<1>3. CASE <<seq[q], seq[p]>> \in before
  <2>1. rank[seq[q]] < rank[seq[p]]
    BY <1>2, <1>3, RankGrows
  <2> HIDE DEF rank
  <2> QED BY <1>1, <1>2, <2>1
<1>4. seq[p] # seq[q]
  <2> HIDE DEF rank
  <2> QED BY <1>2
<1> QED BY <1>2, <1>3, <1>4 DEF Orders

Less(S) == {e \in S \X S : e[1] < e[2]}

LEMMA LessOrders ==
  ASSUME NEW S, S \subseteq Int
  PROVE  Orders(Less(S), S)
  BY DEF Orders, Less

LEMMA AscendingByOrder ==
  ASSUME NEW S, S \subseteq Int
  PROVE  Ascending(S) = ByRank(RankIn(Less(S), S))
<1>1. \A a, b \in S : (b = a \/ <<b, a>> \in Less(S)) <=> b <= a
  BY DEF Less
<1>2. \A a \in S : NotAfter(Less(S), S, a) = {b \in S : b <= a}
  BY <1>1, Zenon DEF NotAfter
<1>3. \A a \in S : Cardinality(NotAfter(Less(S), S, a)) = Cardinality({b \in S : b <= a})
  BY <1>2
<1>4. RankIn(Less(S), S) = [a \in S |-> Cardinality({b \in S : b <= a})]
  BY <1>3, Zenon DEF RankIn
<1> QED BY <1>4 DEF Ascending

\* A finite set of numbers, ascending: every element once, each more than the one before.
LEMMA AscendingIs ==
  ASSUME NEW S, S \subseteq Int, IsFiniteSet(S)
  PROVE  /\ Ascending(S) \in Seq(S)
         /\ Len(Ascending(S)) = Cardinality(S)
         /\ \A p \in 1..Len(Ascending(S)) : Ascending(S)[p] \in S
         /\ \A p, q \in 1..Len(Ascending(S)) : p < q => Ascending(S)[p] < Ascending(S)[q]
         /\ \A a \in S : \E p \in 1..Len(Ascending(S)) : Ascending(S)[p] = a
<1> DEFINE rank == RankIn(Less(S), S)
           seq == Ascending(S)
<1>1. Orders(Less(S), S) /\ seq = ByRank(rank)
  BY LessOrders, AscendingByOrder
<1>2. IsRanking(rank, S)
  BY <1>1, OrderRanks
<1>3. /\ seq \in Seq(S) /\ Len(seq) = Cardinality(S)
      /\ \A p \in 1..Cardinality(S) : seq[p] \in S
      /\ \A a \in S : seq[rank[a]] = a
  BY <1>1, <1>2, ByRankIs
<1>4. \A p, q \in 1..Len(seq) : p < q => <<seq[p], seq[q]>> \in Less(S)
  BY <1>1, SortedByOrder
<1>5. \A a \in S : rank[a] \in 1..Len(seq)
  BY <1>2, <1>3 DEF IsRanking
<1> HIDE DEF seq, rank
<1>6. \A p, q \in 1..Len(seq) : p < q => seq[p] < seq[q]
  BY <1>4 DEF Less
<1>7. \A a \in S : \E p \in 1..Len(seq) : seq[p] = a
  BY <1>3, <1>5
<1> QED BY <1>3, <1>6, <1>7 DEF seq

\* Any set of places is finite.
LEMMA PlacesFinite ==
  ASSUME NEW n \in Nat, NEW S, S \subseteq 1..n
  PROVE  IsFiniteSet(S) /\ Cardinality(S) <= n /\ Cardinality(S) \in Nat /\ S \subseteq Int
<1>1. IsFiniteSet(1..n) /\ Cardinality(1..n) = n
  BY FS_Interval
<1>2. IsFiniteSet(S) /\ Cardinality(S) <= n
  BY <1>1, FS_Subset
<1> QED BY <1>2, FS_CardinalityType

\* Of numbers, some is least.
LEMMA Least ==
  ASSUME NEW T \in SUBSET Nat, T # {}
  PROVE  \E x \in T : \A y \in T : x <= y
<1> DEFINE R == OpToRel(<, Nat)
<1>1. IsWellFoundedOn(R, Nat)
  BY NatLessThanWellFounded
<1> HIDE DEF R
<1>2. PICK x \in T : \A y \in T : ~(<<y, x>> \in R)
  BY <1>1, WFMin
<1>3. \A a, b \in Nat : a < b => <<a, b>> \in R
  BY DEF R, OpToRel
<1>4. \A y \in T : ~(y < x)
  BY <1>2, <1>3
<1>5. \A y \in T : y \in Nat
  OBVIOUS
<1> QED BY <1>2, <1>4, <1>5
\* Of places, some is last.
LEMMA LastPlace ==
  ASSUME NEW n \in Nat, NEW S, S \subseteq 1..n, S # {}
  PROVE  \E x \in S : \A y \in S : y <= x
<1> DEFINE T == {n - j : j \in S}
<1>1. T \in SUBSET Nat /\ T # {}
  <2>1. \A j \in S : n - j \in Nat
    OBVIOUS
  <2> QED BY <2>1
<1>2. PICK t \in T : \A u \in T : t <= u
  BY <1>1, Least
<1>3. PICK x \in S : t = n - x
  BY <1>2
<1>4. \A y \in S : n - x <= n - y
  BY <1>2, <1>3
<1>5. \A y \in S : y \in Int
  OBVIOUS
<1> QED BY <1>4, <1>5

=============================================================================

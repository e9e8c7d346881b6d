----------------------------- MODULE VecProofs ------------------------------
(***************************************************************************)
(* Lemmas about the operators of Vec: what Keep (Vec::retain) leaves of a  *)
(* sequence, what First finds and what DropFirst leaves.                   *)
(***************************************************************************)
EXTENDS Vec, FiniteSetTheorems, SequenceTheorems, WellFoundedInduction, TLAPS

\* A non-empty set of naturals has a least element.
LEMMA HasLeast ==
    ASSUME NEW T, T \subseteq Nat, T # {}
    PROVE  \E x \in T : \A y \in T : x <= y
<1> DEFINE R == OpToRel(<, Nat)
<1>1. \E x \in T : \A y \in T : ~ (<<y, x>> \in R)
  <2> HIDE DEF R
  <2>1. IsWellFoundedOn(R, Nat)
    BY NatLessThanWellFounded DEF R
  <2> QED BY <2>1, WFMin
<1>2. \A x, y \in Nat : ~ (<<y, x>> \in R) => x <= y
  BY DEF OpToRel
<1> QED BY <1>1, <1>2

\* So has a non-empty set of indices a greatest one.
LEMMA HasGreatest ==
    ASSUME NEW n \in Nat, NEW T, T \subseteq 1..n, T # {}
    PROVE  \E x \in T : \A y \in T : y <= x
<1> DEFINE M == {n - x : x \in T}
<1>1. M \subseteq Nat /\ M # {}
  <2>1. \A x \in T : x \in 1..n
    OBVIOUS
  <2>2. \A x \in 1..n : n - x \in Nat
    OBVIOUS
  <2> QED BY <2>1, <2>2
<1>2. PICK m \in M : \A y \in M : m <= y
  <2> HIDE DEF M
  <2> QED BY <1>1, HasLeast
<1>3. PICK x \in T : m = n - x
  BY <1>2
<1>4. \A y \in T : y <= x
  <2>1. TAKE y \in T
  <2>2. n - y \in M
    OBVIOUS
  <2> QED BY <2>2, <1>2, <1>3
<1> QED BY <1>4

\* A set of indices is finite and so is each part of it.
LEMMA IndicesFinite ==
    ASSUME NEW n \in Nat, NEW K, K \subseteq 1..n
    PROVE  /\ IsFiniteSet(K)
           /\ Cardinality(K) \in Nat
<1>1. IsFiniteSet(1..n)
  BY FS_Interval
<1>2. IsFiniteSet(K)
  BY <1>1, FS_Subset
<1> QED BY <1>2, FS_CardinalityType

LEMMA IndicesFew ==
    ASSUME NEW n \in Nat, NEW K, K \subseteq 1..n
    PROVE  Cardinality(K) <= n
<1>1. IsFiniteSet(1..n) /\ Cardinality(1..n) = n
  BY FS_Interval
<1> QED BY <1>1, FS_Subset

LEMMA RankType ==
    ASSUME NEW n \in Nat, NEW K, K \subseteq 1..n, NEW i \in Int
    PROVE  Rank(K, i) \in 0..Cardinality(K)
<1>1. {k \in K : k <= i} \in SUBSET K
  OBVIOUS
<1>2. Rank(K, i) <= Cardinality(K)
  BY <1>1, IndicesFinite, FS_Subset DEF Rank
<1>3. Rank(K, i) \in Nat
  <2>1. {k \in K : k <= i} \subseteq 1..n
    OBVIOUS
  <2> QED BY <2>1, IndicesFinite DEF Rank
<1> QED BY <1>2, <1>3, IndicesFinite

\* Members of a set of indices have ranks in their order, so different ones.
LEMMA RankIncreases ==
    ASSUME NEW n \in Nat, NEW K, K \subseteq 1..n, NEW i \in K, NEW k \in K, k < i
    PROVE  Rank(K, k) < Rank(K, i)
<1> DEFINE Low == {x \in K : x <= k}
           High == {x \in K : x <= i}
<1>1. IsFiniteSet(High) /\ Cardinality(High) \in Nat /\ Cardinality(Low) \in Nat
  BY IndicesFinite
<1>2. Low \in SUBSET High /\ Low # High
  <2>1. \A x \in K : x \in Int
    OBVIOUS
  <2>2. \A x \in K : x <= k => x <= i
    BY <2>1
  <2>3. i \in High /\ i \notin Low
    BY <2>1
  <2> QED BY <2>2, <2>3
<1>3. Cardinality(Low) <= Cardinality(High) /\ Cardinality(Low) # Cardinality(High)
  BY <1>1, <1>2, FS_Subset
<1> QED BY <1>1, <1>3 DEF Rank

\* Every place up to the cardinality is the rank of a member.
LEMMA RankOnto ==
    ASSUME NEW n \in Nat, NEW K, K \subseteq 1..n, NEW j \in 1..Cardinality(K)
    PROVE  \E i \in K : Rank(K, i) = j
<1> DEFINE A == {i \in K : Rank(K, i) >= j}
<1>0. Cardinality(K) \in Nat /\ IsFiniteSet(K)
  BY IndicesFinite
<1>a. \A i \in K : i \in Nat
  OBVIOUS
<1>1. \A i \in K : Rank(K, i) \in Nat
  <2>1. TAKE i \in K
  <2>2. Rank(K, i) \in 0..Cardinality(K)
    <3>1. i \in Int
      BY <1>a
    <3> QED BY <3>1, RankType
  <2> QED BY <2>2, <1>0
<1>2. A # {}
  <2>1. K # {}
    BY <1>0, FS_EmptySet
  <2>2. PICK x \in K : \A y \in K : y <= x
    BY <2>1, HasGreatest
  <2>3. {k \in K : k <= x} = K
    BY <2>2
  <2>4. Rank(K, x) = Cardinality(K)
    BY <2>3 DEF Rank
  <2> QED BY <2>4, <1>0
<1>3. PICK i \in A : \A y \in A : i <= y
  <2>1. A \subseteq Nat
    BY <1>a
  <2> HIDE DEF A
  <2> QED BY <1>2, <2>1, HasLeast
<1>4. SUFFICES ASSUME Rank(K, i) > j PROVE FALSE
  BY <1>1, <1>3
<1> DEFINE B == {k \in K : k < i}
           C == {k \in K : k <= i}
<1>5. Cardinality(B) = Rank(K, i) - 1
  <2>1. B = C \ {i} /\ i \in C
    <3>1. \A k \in K : k < i <=> k <= i /\ k # i
      BY <1>a
    <3>2. i \in K /\ i \in Nat
      BY <1>a
    <3>3. i \in C
      BY <3>2
    <3> QED BY <3>1, <3>2, <3>3
  <2>2. IsFiniteSet(C)
    BY IndicesFinite
  <2> HIDE DEF B, C
  <2>3. Cardinality(B) = Cardinality(C) - 1
    BY <2>1, <2>2, FS_RemoveElement
  <2> QED BY <2>3 DEF Rank, C
<1>6. B # {}
  <2>1. Cardinality(B) # 0
    BY <1>5, <1>4, <1>1
  <2> QED BY <2>1, FS_EmptySet
<1>7. PICK m \in B : \A y \in B : y <= m
  <2>1. B \subseteq 1..n
    OBVIOUS
  <2> HIDE DEF B
  <2> QED BY <1>6, <2>1, HasGreatest
<1>8. {k \in K : k <= m} = B
  <2>1. \A k \in K : k <= m => k < i
    BY <1>7, <1>a
  <2> QED BY <2>1, <1>7
<1>9. Rank(K, m) >= j
  BY <1>8, <1>5, <1>4, <1>1 DEF Rank
<1>10. m \in A /\ m < i
  BY <1>7, <1>9
<1> QED BY <1>10, <1>3

\* Ranks are places in what is kept, and tell the members apart.
LEMMA RankNames ==
    ASSUME NEW n \in Nat, NEW K, K \subseteq 1..n, NEW i \in K
    PROVE  /\ Rank(K, i) \in 1..Cardinality(K)
           /\ \A k \in K : Rank(K, k) = Rank(K, i) => k = i
<1>0. Cardinality(K) \in Nat
  BY IndicesFinite
<1>a. \A k \in K : k \in Int
  OBVIOUS
<1>b. \A k \in K : Rank(K, k) \in 0..Cardinality(K)
  BY <1>a, RankType
<1>1. Rank(K, i) \in 1..Cardinality(K)
  <2> DEFINE C == {k \in K : k <= i}
  <2>0. i <= i
    BY <1>a
  <2>1. i \in C /\ C \subseteq 1..n
    BY <2>0
  <2> HIDE DEF C
  <2>2. IsFiniteSet(C) /\ C # {}
    BY <2>1, IndicesFinite
  <2>3. Cardinality(C) # 0
    BY <2>2, FS_EmptySet
  <2>4. Rank(K, i) # 0
    BY <2>3 DEF Rank, C
  <2> QED BY <2>4, <1>0, <1>b
<1>2. ASSUME NEW k \in K, Rank(K, k) = Rank(K, i) PROVE k = i
  <2>1. k \in Int /\ i \in Int /\ Rank(K, k) \in Int
    BY <1>0, <1>a, <1>b
  <2>2. ~ k < i
    <3>1. k < i => Rank(K, k) < Rank(K, i)
      BY RankIncreases
    <3> QED BY <1>2, <2>1, <3>1
  <2>3. ~ i < k
    <3>1. i < k => Rank(K, i) < Rank(K, k)
      BY RankIncreases
    <3> QED BY <1>2, <2>1, <3>1
  <2> QED BY <2>1, <2>2, <2>3
<1> QED BY <1>1, <1>2

\* Vec::retain keeps exactly the chosen elements: the result is a sequence of
\* as many elements, each of its elements is one of them, and each of them is
\* in it.
THEOREM KeepKeeps ==
    ASSUME NEW S, NEW s \in Seq(S), NEW K, K \subseteq DOMAIN s
    PROVE  /\ Keep(s, K) \in Seq(S)
           /\ Len(Keep(s, K)) = Cardinality(K)
           /\ DOMAIN Keep(s, K) = 1..Cardinality(K)
           /\ \A j \in DOMAIN Keep(s, K) : \E i \in K : Keep(s, K)[j] = s[i]
           /\ \A i \in K : \E j \in DOMAIN Keep(s, K) : Keep(s, K)[j] = s[i]
<1> DEFINE At(j) == CHOOSE i \in K : Rank(K, i) = j
<1>0. Len(s) \in Nat /\ K \subseteq 1..Len(s) /\ Cardinality(K) \in Nat
  BY LenProperties, IndicesFinite
<1>1. \A j \in 1..Cardinality(K) : At(j) \in K
  <2>1. TAKE j \in 1..Cardinality(K)
  <2>2. \E i \in K : Rank(K, i) = j
    BY <1>0, RankOnto
  <2> QED BY <2>2
<1>2. Keep(s, K) = [j \in 1..Cardinality(K) |-> s[At(j)]]
  BY DEF Keep
<1>3. \A i \in K : Rank(K, i) \in 1..Cardinality(K) /\ At(Rank(K, i)) = i
  BY <1>0, RankNames
<1> HIDE DEF At
<1>4. \A j \in 1..Cardinality(K) : s[At(j)] \in S
  BY <1>1, <1>0, ElementOfSeq
<1>5. Keep(s, K) \in Seq(S) /\ Len(Keep(s, K)) = Cardinality(K)
      /\ DOMAIN Keep(s, K) = 1..Cardinality(K)
  <2>1. Keep(s, K) \in [1..Cardinality(K) -> S]
    BY <1>2, <1>4
  <2> HIDE <1>2
  <2>2. Keep(s, K) \in Seq(S)
    BY <2>1, <1>0, IsASeq, <1>2, <1>4
  <2>3. DOMAIN Keep(s, K) = 1..Len(Keep(s, K)) /\ Len(Keep(s, K)) \in Nat
    BY <2>2, LenProperties
  <2>4. DOMAIN Keep(s, K) = 1..Cardinality(K)
    BY <2>1
  <2> QED BY <2>2, <2>3, <2>4, <1>0
<1> QED BY <1>1, <1>2, <1>3, <1>5

\* An element that is kept is found at its rank and every place is the rank of
\* one; so, as ranks increase, the order of the elements is kept too.
LEMMA KeepAt ==
    ASSUME NEW S, NEW s \in Seq(S), NEW K, K \subseteq DOMAIN s
    PROVE  /\ \A i \in K : /\ Rank(K, i) \in DOMAIN Keep(s, K)
                          /\ Keep(s, K)[Rank(K, i)] = s[i]
           /\ \A i, k \in K : i < k => Rank(K, i) < Rank(K, k)
           /\ \A j \in DOMAIN Keep(s, K) : \E i \in K : Rank(K, i) = j
<1>1. Len(s) \in Nat /\ K \subseteq 1..Len(s)
  BY LenProperties
<1>2. ASSUME NEW i \in K
      PROVE  Rank(K, i) \in DOMAIN Keep(s, K) /\ Keep(s, K)[Rank(K, i)] = s[i]
  <2>1. Rank(K, i) \in 1..Cardinality(K) /\ (CHOOSE k \in K : Rank(K, k) = Rank(K, i)) = i
    BY <1>1, RankNames
  <2> QED BY <2>1 DEF Keep
<1>3. \A j \in 1..Cardinality(K) : \E i \in K : Rank(K, i) = j
  BY <1>1, RankOnto
<1>4. DOMAIN Keep(s, K) = 1..Cardinality(K)
  BY DEF Keep
<1> QED BY <1>1, <1>2, <1>3, <1>4, RankIncreases

\* Of elements that differ from each other none is kept twice.
LEMMA KeepDistinct ==
    ASSUME NEW S, NEW s \in Seq(S), NEW K, K \subseteq DOMAIN s,
           \A i, k \in K : s[i] = s[k] => i = k
    PROVE  IsInjective(Keep(s, K))
<1> DEFINE At(j) == CHOOSE i \in K : Rank(K, i) = j
<1>0. Len(s) \in Nat /\ K \subseteq 1..Len(s)
  BY LenProperties
<1>1. ASSUME NEW j \in 1..Cardinality(K) PROVE At(j) \in K /\ Rank(K, At(j)) = j
  <2>1. \E i \in K : Rank(K, i) = j
    BY <1>0, RankOnto
  <2> QED BY <2>1
<1>2. Keep(s, K) = [j \in 1..Cardinality(K) |-> s[At(j)]]
  BY DEF Keep
<1> HIDE DEF At
<1>3. SUFFICES ASSUME NEW j \in 1..Cardinality(K), NEW k \in 1..Cardinality(K),
                      s[At(j)] = s[At(k)]
               PROVE  j = k
  BY <1>2 DEF IsInjective
<1>4. At(j) = At(k)
  BY <1>1, <1>3
<1> QED BY <1>1, <1>4

\* What Vec::retain leaves of a sequence without duplicates has none.
LEMMA KeepInjective ==
    ASSUME NEW S, NEW s \in Seq(S), IsInjective(s), NEW K, K \subseteq DOMAIN s
    PROVE  IsInjective(Keep(s, K))
  BY KeepDistinct DEF IsInjective

\* iter().find returns the first index that matches.
LEMMA FirstIsFirst ==
    ASSUME NEW n \in Nat, NEW K, K \subseteq 1..n, K # {}
    PROVE  First(K) \in K /\ \A k \in K : First(K) <= k
<1>1. \E i \in K : \A k \in K : i <= k
  <2>1. K \subseteq Nat
    OBVIOUS
  <2> QED BY <2>1, HasLeast
<1> QED BY <1>1 DEF First

\* Removing the first m elements leaves the others.
LEMMA DropFirstKeepsRest ==
    ASSUME NEW S, NEW s \in Seq(S), NEW m \in 0..Len(s)
    PROVE  /\ DropFirst(s, m) \in Seq(S)
           /\ DOMAIN DropFirst(s, m) = 1..(Len(s) - m)
           /\ \A i \in 1..(Len(s) - m) : DropFirst(s, m)[i] = s[m + i]
<1>1. Len(s) \in Nat /\ DOMAIN s = 1..Len(s)
  BY LenProperties
<1>2. DropFirst(s, m) = [i \in 1..(Len(s) - m) |-> s[m + i]]
  BY <1>1 DEF DropFirst
<1>3. \A i \in 1..(Len(s) - m) : s[m + i] \in S
  BY <1>1, ElementOfSeq
<1>4. Len(s) - m \in Nat
  BY <1>1
<1> QED BY <1>2, <1>3, <1>4, IsASeq
=============================================================================

---------------------------- MODULE Selection_proofs ---------------------------
(***************************************************************************)
(* Facts about Only() for sequences of any length.                         *)
(***************************************************************************)
EXTENDS Selection, FunctionTheorems, FiniteSetTheorems, TLAPS

LEMMA KeptFinite ==
  ASSUME NEW s, Len(s) \in Nat, NEW T
  PROVE  /\ IsFiniteSet(Kept(s, T))
         /\ Cardinality(Kept(s, T)) \in Nat
         /\ \A i : IsFiniteSet({j \in Kept(s, T) : j <= i})
<1>1. IsFiniteSet(1..Len(s))
  BY FS_Interval
<1>2. IsFiniteSet(Kept(s, T))
  BY <1>1, FS_Subset DEF Kept
<1> QED
  BY <1>2, FS_Subset, FS_CardinalityType

\* The rank numbers the positions that are kept from 1 on, in their order.
LEMMA RankNumbers ==
  ASSUME NEW s, Len(s) \in Nat, NEW T
  PROVE  /\ \A i \in Kept(s, T) : Rank(s, T, i) \in 1..Cardinality(Kept(s, T))
         /\ \A i, k \in Kept(s, T) : i < k <=> Rank(s, T, i) < Rank(s, T, k)
         /\ \A n \in 1..Cardinality(Kept(s, T)) : \E i \in Kept(s, T) : Rank(s, T, i) = n
<1> DEFINE K == Kept(s, T)
           upTo(i) == {j \in K : j <= i}
           r == [i \in K |-> Rank(s, T, i)]
<1> USE KeptFinite
<1>1. K \subseteq Nat
  BY DEF Kept
<1>2. ASSUME NEW i \in K PROVE Rank(s, T, i) \in 1..Cardinality(K)
  <2>1. IsFiniteSet(upTo(i)) /\ upTo(i) \subseteq K
    OBVIOUS
  <2>a. i \in upTo(i)
    BY <1>1
  <2>2. Cardinality(upTo(i)) \in Nat /\ Cardinality(upTo(i)) <= Cardinality(K)
    BY <2>1, FS_Subset, FS_CardinalityType
  <2>3. Cardinality(upTo(i)) # 0
    BY <2>1, <2>a, FS_EmptySet
  <2> QED
    BY <2>2, <2>3 DEF Rank
<1>3. ASSUME NEW i \in K, NEW k \in K, i < k PROVE Rank(s, T, i) < Rank(s, T, k)
  <2>1. upTo(i) \subseteq upTo(k) /\ upTo(i) # upTo(k)
    <3>1. k \in upTo(k) /\ k \notin upTo(i)
      BY <1>1, <1>3
    <3>2. \A j \in upTo(i) : j \in upTo(k)
      BY <1>1, <1>3
    <3> QED
      BY <3>1, <3>2
  <2>2. IsFiniteSet(upTo(k))
    OBVIOUS
  <2>3. Cardinality(upTo(i)) < Cardinality(upTo(k))
    BY <2>1, <2>2, FS_Subset, FS_CardinalityType
  <2> QED
    BY <2>3 DEF Rank
<1>4. ASSUME NEW i \in K, NEW k \in K PROVE i < k <=> Rank(s, T, i) < Rank(s, T, k)
  BY <1>1, <1>2, <1>3
<1>5. r \in Injection(K, 1..Cardinality(K))
  <2>1. r \in [K -> 1..Cardinality(K)]
    BY <1>2
  <2>2. \A i, k \in K : r[i] = r[k] => i = k
    BY <1>1, <1>2, <1>3
  <2> QED
    BY <2>1, <2>2 DEF Injection, IsInjective
<1>6. r \in Surjection(K, 1..Cardinality(K))
  <2>1. IsFiniteSet(1..Cardinality(K)) /\ Cardinality(1..Cardinality(K)) = Cardinality(K)
    BY FS_Interval
  <2> QED
    BY <1>5, <2>1, FS_Injection
<1>7. \A n \in 1..Cardinality(K) : \E i \in K : Rank(s, T, i) = n
  BY <1>6 DEF Surjection
<1> QED
  BY <1>2, <1>4, <1>7

\* the position of the n-th element that is kept
Position(s, T, n) == CHOOSE i \in Kept(s, T) : Rank(s, T, i) = n

LEMMA PositionFacts ==
  ASSUME NEW s, Len(s) \in Nat, NEW T
  PROVE  /\ \A n \in 1..Cardinality(Kept(s, T)) :
               /\ Position(s, T, n) \in Kept(s, T)
               /\ Rank(s, T, Position(s, T, n)) = n
         /\ \A i \in Kept(s, T) : Position(s, T, Rank(s, T, i)) = i
         /\ \A m, n \in 1..Cardinality(Kept(s, T)) :
               m < n => Position(s, T, m) < Position(s, T, n)
<1> DEFINE c == Cardinality(Kept(s, T))
<1>1. c \in Nat /\ \A i \in Kept(s, T) : i \in Nat
  <2>1. \A i \in Kept(s, T) : i \in Nat
    BY DEF Kept
  <2> QED
    BY <2>1, KeptFinite
<1>2. \A n \in 1..c : Position(s, T, n) \in Kept(s, T) /\ Rank(s, T, Position(s, T, n)) = n
  BY RankNumbers DEF Position
<1>3. \A i \in Kept(s, T) : Rank(s, T, i) \in 1..c
  BY RankNumbers
<1>4. \A i, k \in Kept(s, T) : i < k <=> Rank(s, T, i) < Rank(s, T, k)
  BY RankNumbers
<1> HIDE DEF c
<1>5. \A i \in Kept(s, T) : Position(s, T, Rank(s, T, i)) = i
  BY <1>1, <1>2, <1>3, <1>4
<1>6. \A m, n \in 1..c : m < n => Position(s, T, m) < Position(s, T, n)
  BY <1>1, <1>2, <1>4
<1> QED
  BY <1>2, <1>5, <1>6 DEF c

\* What Only() returns is found at rising positions, which are all those kept.
LEMMA OnlyPositions ==
  ASSUME NEW s, Len(s) \in Nat, NEW T
  PROVE  \E at \in [1..Len(Only(s, T)) -> 1..Len(s)] :
            /\ \A n \in 1..Len(Only(s, T)) : Only(s, T)[n] = s[at[n]]
            /\ \A m, n \in 1..Len(Only(s, T)) : m < n => at[m] < at[n]
            /\ \A i \in 1..Len(s) :
                  s[i] \in T => \E n \in 1..Len(Only(s, T)) : at[n] = i
<1> DEFINE c == Cardinality(Kept(s, T))
           at == [n \in 1..c |-> Position(s, T, n)]
<1>1. c \in Nat
  BY KeptFinite
<1>2. \A i \in Kept(s, T) : i \in 1..Len(s)
  BY DEF Kept
<1>3. Only(s, T) = [n \in 1..c |-> s[at[n]]]
  BY DEF Only, Position
<1>4. Len(Only(s, T)) = c
  BY <1>1, <1>3
<1>5. \A n \in 1..c : at[n] \in Kept(s, T)
  BY <1>1, PositionFacts
<1>6. at \in [1..c -> 1..Len(s)]
  BY <1>2, <1>5
<1>7. \A m, n \in 1..c : m < n => at[m] < at[n]
  BY <1>1, PositionFacts
<1>8. ASSUME NEW i \in 1..Len(s), s[i] \in T
      PROVE  \E n \in 1..c : at[n] = i
  <2>1. i \in Kept(s, T)
    BY <1>8 DEF Kept
  <2>2. Rank(s, T, i) \in 1..c
    BY <1>1, <2>1, RankNumbers
  <2>3. at[Rank(s, T, i)] = i
    BY <1>1, <2>1, <2>2, PositionFacts
  <2> QED
    BY <2>2, <2>3
<1> QED
  BY <1>3, <1>4, <1>6, <1>7, <1>8

LEMMA OnlyType ==
  ASSUME NEW S, NEW s \in Seq(S), NEW T
  PROVE  Only(s, T) \in Seq(S \cap T)
<1> DEFINE c == Cardinality(Kept(s, T))
<1>1. c \in Nat /\ Len(s) \in Nat
  BY KeptFinite
<1>2. \A i \in Kept(s, T) : s[i] \in S \cap T
  BY DEF Kept
<1>3. \A n \in 1..c : Position(s, T, n) \in Kept(s, T)
  BY <1>1, PositionFacts
<1>4. Only(s, T) = [n \in 1..c |-> s[Position(s, T, n)]]
  BY DEF Only, Position
<1> QED
  BY <1>1, <1>2, <1>3, <1>4

LEMMA OnlyEmpty == \A T : Only(<< >>, T) = << >>
<1> TAKE T
<1>1. Kept(<< >>, T) = {}
  BY DEF Kept
<1>2. Cardinality(Kept(<< >>, T)) = 0
  BY <1>1, FS_EmptySet
<1> QED
  BY <1>2 DEF Only

\* Only() of a sequence that grows by one element
LEMMA OnlyAppend ==
  ASSUME NEW S, NEW s \in Seq(S), NEW x \in S, NEW T
  PROVE  Only(Append(s, x), T) =
            IF x \in T THEN Append(Only(s, T), x) ELSE Only(s, T)
<1> DEFINE c == Cardinality(Kept(s, T))
<1>1. PICK t : t = Append(s, x)
  OBVIOUS
<1>2. /\ Len(s) \in Nat /\ t \in Seq(S) /\ Len(t) = Len(s) + 1 /\ Len(t) \in Nat
      /\ \A i \in 1..Len(s) : t[i] = s[i]
      /\ t[Len(s) + 1] = x
  BY <1>1
<1>3. IsFiniteSet(Kept(s, T)) /\ c \in Nat
  BY <1>2, KeptFinite
<1>4. /\ Kept(s, T) \subseteq 1..Len(s)
      /\ Kept(t, T) = IF x \in T THEN Kept(s, T) \cup {Len(s) + 1} ELSE Kept(s, T)
  BY <1>2 DEF Kept
<1>5. Cardinality(Kept(t, T)) = IF x \in T THEN c + 1 ELSE c
  <2>1. Len(s) + 1 \notin Kept(s, T)
    BY <1>2, <1>4
  <2> QED
    BY <1>3, <1>4, <2>1, FS_AddElement
<1>6. \A i \in Kept(s, T) : i \in Kept(t, T) /\ Rank(t, T, i) = Rank(s, T, i)
  <2> SUFFICES ASSUME NEW i \in Kept(s, T)
               PROVE  i \in Kept(t, T) /\ Rank(t, T, i) = Rank(s, T, i)
    OBVIOUS
  <2>1. {j \in Kept(t, T) : j <= i} = {j \in Kept(s, T) : j <= i}
    BY <1>2, <1>4
  <2> QED
    BY <1>4, <2>1 DEF Rank
<1>7. \A n \in 1..c : Position(t, T, n) = Position(s, T, n) /\ Position(s, T, n) \in Kept(s, T)
  BY <1>2, <1>6, PositionFacts
<1>8. Only(s, T) = [n \in 1..c |-> s[Position(s, T, n)]]
  BY DEF Only, Position
<1>9. Only(t, T) = [n \in 1..Cardinality(Kept(t, T)) |-> t[Position(t, T, n)]]
  BY DEF Only, Position
<1>10. \A n \in 1..c : t[Position(t, T, n)] = s[Position(s, T, n)]
  BY <1>2, <1>4, <1>7
<1> HIDE DEF c
<1>11. CASE x \notin T
  BY <1>1, <1>5, <1>8, <1>9, <1>10, <1>11
<1>12. CASE x \in T
  <2>1. Rank(t, T, Len(s) + 1) = c + 1
    <3>1. {j \in Kept(t, T) : j <= Len(s) + 1} = Kept(t, T)
      BY <1>2, <1>4, <1>12
    <3> QED
      BY <1>5, <1>12, <3>1 DEF Rank
  <2>2. t[Position(t, T, c + 1)] = x
    BY <1>2, <1>4, <1>12, <2>1, PositionFacts
  <2>3. Only(s, T) \in Seq(S) /\ Len(Only(s, T)) = c
    <3>1. Only(s, T) \in Seq(S \cap T)
      BY OnlyType
    <3> QED
      BY <1>3, <1>8, <3>1
  <2>4. PICK o : o = Only(s, T)
    OBVIOUS
  <2>5. Append(o, x) = [n \in 1..c + 1 |-> IF n = c + 1 THEN x ELSE o[n]]
    <3>1. o \in Seq(S) /\ Len(o) = c
      BY <2>3, <2>4
    <3>2. PICK a : a = Append(o, x)
      OBVIOUS
    <3>3. a \in Seq(S) /\ Len(a) = c + 1
      BY <3>1, <3>2
    <3>4. \A n \in 1..c + 1 : a[n] = IF n = c + 1 THEN x ELSE o[n]
      BY <1>3, <3>1, <3>2
    <3>5. a = [n \in 1..c + 1 |-> a[n]]
      BY <3>3
    <3> QED
      BY <3>2, <3>4, <3>5
  <2>6. \A n \in 1..c + 1 : t[Position(t, T, n)] = IF n = c + 1 THEN x ELSE o[n]
    BY <1>3, <1>8, <1>10, <2>2, <2>4
  <2>7. Only(t, T) = [n \in 1..c + 1 |-> IF n = c + 1 THEN x ELSE o[n]]
    BY <1>5, <1>9, <1>12, <2>6
  <2> QED
    BY <1>1, <1>12, <2>4, <2>5, <2>7
<1> QED
  BY <1>11, <1>12
===============================================================================

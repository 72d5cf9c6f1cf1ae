---------------------------- MODULE QueueLemmas ----------------------------
(* What the erasures of Queues leave of a sequence, for every sequence.    *)
EXTENDS Queues, Integers, FunctionTheorems, FiniteSetTheorems, TLAPS

\* A later position of K has a higher rank.
LEMMA RankIncreases ==
  ASSUME NEW K \in SUBSET Nat, IsFiniteSet(K),
         NEW a \in K, NEW b \in K, a < b
  PROVE  Rank(K, a) < Rank(K, b)
<1> DEFINE A == {j \in K : j <= a}
           B == {j \in K : j <= b}
<1>1. IsFiniteSet(B)
  BY FS_Subset
<1>2. A \in SUBSET B /\ A # B
  <2>1. \A j \in K : j \in Nat
    OBVIOUS
  <2>2. \A j \in A : j \in B
    BY <2>1
  <2>3. b \in B /\ b \notin A
    BY <2>1
  <2> QED
    BY <2>2, <2>3
<1>3. IsFiniteSet(A) /\ Cardinality(A) <= Cardinality(B)
      /\ Cardinality(A) # Cardinality(B)
  BY <1>1, <1>2, FS_Subset
<1>4. Cardinality(A) \in Nat /\ Cardinality(B) \in Nat
  BY <1>1, <1>3, FS_CardinalityType
<1> QED
  BY <1>3, <1>4 DEF Rank

\* Ranks are 1 to the number of positions.
LEMMA RankRange ==
  ASSUME NEW K \in SUBSET Nat, IsFiniteSet(K), NEW k \in K
  PROVE  Rank(K, k) \in 1..Cardinality(K)
<1> DEFINE A == {j \in K : j <= k}
<1>1. IsFiniteSet(A) /\ Cardinality(A) <= Cardinality(K)
  BY FS_Subset
<1>2. {k} \in SUBSET A /\ Cardinality({k}) = 1
  BY FS_Singleton
<1>3. 1 <= Cardinality(A)
  BY <1>1, <1>2, FS_Subset
<1>4. Cardinality(A) \in Nat /\ Cardinality(K) \in Nat
  BY <1>1, FS_CardinalityType
<1> QED
  BY <1>1, <1>3, <1>4 DEF Rank

\* Every number up to the number of positions is the rank of one position.
LEMMA NthOfRank ==
  ASSUME NEW K \in SUBSET Nat, IsFiniteSet(K)
  PROVE  /\ Cardinality(K) \in Nat
         /\ \A n \in 1..Cardinality(K) : Nth(K, n) \in K /\ Rank(K, Nth(K, n)) = n
         /\ \A k \in K : Nth(K, Rank(K, k)) = k
<1> DEFINE c == Cardinality(K)
           rank == [k \in K |-> Rank(K, k)]
<1>1. c \in Nat
  BY FS_CardinalityType
<1>2. rank \in [K -> 1..c]
  BY RankRange
<1>3. \A a, b \in K : rank[a] = rank[b] => a = b
  <2> SUFFICES ASSUME NEW a \in K, NEW b \in K, a # b
               PROVE  Rank(K, a) # Rank(K, b)
    OBVIOUS
  <2>1. a < b \/ b < a
    OBVIOUS
  <2>2. Rank(K, a) \in 1..c /\ Rank(K, b) \in 1..c
    BY RankRange
  <2>3. Rank(K, a) < Rank(K, b) \/ Rank(K, b) < Rank(K, a)
    BY <2>1, RankIncreases
  <2> QED
    BY <1>1, <2>2, <2>3
<1>4. rank \in Injection(K, 1..c)
  BY <1>2, <1>3 DEF Injection, IsInjective
<1>5. IsFiniteSet(1..c) /\ Cardinality(1..c) = c
  BY <1>1, FS_Interval
<1>6. rank \in Surjection(K, 1..c)
  BY <1>4, <1>5, FS_Injection
<1>7. \A n \in 1..c : \E k \in K : Rank(K, k) = n
  BY <1>6 DEF Surjection
<1>8. \A n \in 1..c : Nth(K, n) \in K /\ Rank(K, Nth(K, n)) = n
  BY <1>7 DEF Nth
<1>9. \A k \in K : Nth(K, Rank(K, k)) = k
  BY <1>3, <1>8, RankRange
<1> QED
  BY <1>1, <1>8, <1>9

\* The kept positions of a sequence are finitely many natural numbers.
LEMMA PositionsFinite ==
  ASSUME NEW S, NEW s \in Seq(S), NEW K \in SUBSET DOMAIN s
  PROVE  K \in SUBSET Nat /\ IsFiniteSet(K)
<1>1. DOMAIN s = 1..Len(s) /\ Len(s) \in Nat
  OBVIOUS
<1>2. IsFiniteSet(1..Len(s))
  BY <1>1, FS_Interval
<1> QED
  BY <1>1, <1>2, FS_Subset

\* KeepAt keeps the values at the chosen positions and no other, and no value
\* twice if none was there twice.
LEMMA KeepAtProperties ==
  ASSUME NEW S, NEW s \in Seq(S), NEW K \in SUBSET DOMAIN s
  PROVE  /\ KeepAt(s, K) \in Seq(S)
         /\ Values(KeepAt(s, K)) = {s[k] : k \in K}
         /\ Distinct(s) => Distinct(KeepAt(s, K))
<1> DEFINE c == Cardinality(K)
           t == KeepAt(s, K)
<1>1. K \in SUBSET Nat /\ IsFiniteSet(K)
  BY PositionsFinite
<1>2. c \in Nat
  BY <1>1, NthOfRank
<1>3. \A n \in 1..c : Nth(K, n) \in K /\ Rank(K, Nth(K, n)) = n
  BY <1>1, NthOfRank
<1>4. \A k \in K : Rank(K, k) \in 1..c /\ Nth(K, Rank(K, k)) = k
  BY <1>1, NthOfRank, RankRange
<1>5. DOMAIN t = 1..c /\ \A n \in 1..c : t[n] = s[Nth(K, n)]
  BY DEF KeepAt
<1>6. \A n \in 1..c : t[n] \in S
  BY <1>3, <1>5
<1>7. t = [n \in 1..c |-> t[n]]
  BY DEF KeepAt
<1>8. t \in Seq(S)
  BY <1>2, <1>6, <1>7, SMTT(40)
<1>9. Values(t) = {s[k] : k \in K}
  <2>1. \A n \in 1..c : \E k \in K : t[n] = s[k]
    BY <1>3, <1>5
  <2>2. \A k \in K : \E n \in 1..c : t[n] = s[k]
    BY <1>4, <1>5
  <2>3. Values(t) = {t[n] : n \in 1..c}
    BY <1>5 DEF Values
  <2> HIDE DEF c, t
  <2> QED
    BY <2>1, <2>2, <2>3, SMTT(40)
<1>10. ASSUME Distinct(s) PROVE Distinct(t)
  <2> SUFFICES ASSUME NEW i \in 1..c, NEW j \in 1..c, t[i] = t[j]
               PROVE  i = j
    BY <1>5 DEF Distinct
  <2>1. Nth(K, i) = Nth(K, j)
    BY <1>3, <1>5, <1>10 DEF Distinct
  <2> QED
    BY <1>3, <2>1
<1> QED
  BY <1>8, <1>9, <1>10

\* erase(remove(...)) leaves the other values.
LEMMA WithoutProperties ==
  ASSUME NEW S, NEW s \in Seq(S), NEW T
  PROVE  /\ Without(s, T) \in Seq(S)
         /\ Values(Without(s, T)) = Values(s) \ T
         /\ Distinct(s) => Distinct(Without(s, T))
<1> DEFINE K == {i \in DOMAIN s : s[i] \notin T}
<1>1. K \in SUBSET DOMAIN s
  OBVIOUS
<1>2. {s[k] : k \in K} = Values(s) \ T
  BY DEF Values
<1>3. /\ KeepAt(s, K) \in Seq(S)
      /\ Values(KeepAt(s, K)) = {s[k] : k \in K}
      /\ Distinct(s) => Distinct(KeepAt(s, K))
  BY <1>1, KeepAtProperties
<1> QED
  BY <1>2, <1>3 DEF Without

\* The entries of a queue that are in a set, as fill() picks those that failed.
LEMMA OnlyProperties ==
  ASSUME NEW S, NEW s \in Seq(S), NEW T
  PROVE  /\ Only(s, T) \in Seq(S)
         /\ Values(Only(s, T)) = Values(s) \cap T
         /\ Distinct(s) => Distinct(Only(s, T))
<1> DEFINE K == {i \in DOMAIN s : s[i] \in T}
<1>1. K \in SUBSET DOMAIN s
  OBVIOUS
<1>2. {s[k] : k \in K} = Values(s) \cap T
  BY DEF Values
<1>3. /\ KeepAt(s, K) \in Seq(S)
      /\ Values(KeepAt(s, K)) = {s[k] : k \in K}
      /\ Distinct(s) => Distinct(KeepAt(s, K))
  BY <1>1, KeepAtProperties
<1> QED
  BY <1>2, <1>3 DEF Only

\* Erasing the first entry of a value takes it out of a sequence without
\* repetitions.
LEMMA EraseProperties ==
  ASSUME NEW S, NEW s \in Seq(S), NEW x, Distinct(s)
  PROVE  /\ Erase(s, x) \in Seq(S)
         /\ Values(Erase(s, x)) = Values(s) \ {x}
         /\ Distinct(Erase(s, x))
<1> DEFINE K == {i \in DOMAIN s : s[i] # x \/ \E j \in DOMAIN s : j < i /\ s[j] = x}
<1>1. K \in SUBSET DOMAIN s
  OBVIOUS
<1>2. DOMAIN s \in SUBSET Nat
  OBVIOUS
<1>3. \A i \in K : s[i] # x
  BY <1>2 DEF Distinct
<1>4. {s[k] : k \in K} = Values(s) \ {x}
  BY <1>3 DEF Values
<1>5. /\ KeepAt(s, K) \in Seq(S)
      /\ Values(KeepAt(s, K)) = {s[k] : k \in K}
      /\ Distinct(KeepAt(s, K))
  BY <1>1, KeepAtProperties
<1> QED
  BY <1>4, <1>5 DEF Erase

\* push_back(): one more value, and no duplicate if it is new.
LEMMA AppendValues ==
  ASSUME NEW S, NEW s \in Seq(S), NEW x \in S
  PROVE  /\ Append(s, x) \in Seq(S)
         /\ Values(Append(s, x)) = Values(s) \cup {x}
         /\ Distinct(s) /\ x \notin Values(s) => Distinct(Append(s, x))
<1>1. Append(s, x) \in Seq(S) /\ DOMAIN Append(s, x) = 1..(Len(s) + 1)
  OBVIOUS
<1>2. DOMAIN s = 1..Len(s) /\ Len(s) \in Nat
  OBVIOUS
<1>3. \A i \in 1..(Len(s) + 1) : Append(s, x)[i] = IF i = Len(s) + 1 THEN x ELSE s[i]
  OBVIOUS
<1>4. Values(Append(s, x)) = Values(s) \cup {x}
  <2>1. \A y : y \in Values(Append(s, x)) => y \in Values(s) \cup {x}
    BY <1>1, <1>2, <1>3 DEF Values
  <2>2. \A y : y \in Values(s) => y \in Values(Append(s, x))
    BY <1>1, <1>2, <1>3 DEF Values
  <2>3. x \in Values(Append(s, x))
    BY <1>1, <1>2, <1>3, SMTT(40) DEF Values
  <2> QED
    BY <2>1, <2>2, <2>3
<1>5. ASSUME Distinct(s), x \notin Values(s) PROVE Distinct(Append(s, x))
  BY <1>1, <1>2, <1>3, <1>5, SMTT(40) DEF Distinct, Values
<1> QED
  BY <1>1, <1>4, <1>5

\* One queue behind another: the values of both.
LEMMA ConcatValues ==
  ASSUME NEW S, NEW s \in Seq(S), NEW t \in Seq(S)
  PROVE  /\ s \o t \in Seq(S)
         /\ Values(s \o t) = Values(s) \cup Values(t)
         /\ Distinct(s) /\ Distinct(t) /\ Values(s) \cap Values(t) = {}
              => Distinct(s \o t)
<1> DEFINE u == s \o t
<1>1. u \in Seq(S) /\ Len(u) = Len(s) + Len(t)
  OBVIOUS
<1>2. /\ DOMAIN s = 1..Len(s) /\ Len(s) \in Nat
      /\ DOMAIN t = 1..Len(t) /\ Len(t) \in Nat
      /\ DOMAIN u = 1..(Len(s) + Len(t))
  OBVIOUS
<1>3. \A i \in DOMAIN u : u[i] = IF i <= Len(s) THEN s[i] ELSE t[i - Len(s)]
  OBVIOUS
<1> HIDE DEF u
<1>4. Values(u) = Values(s) \cup Values(t)
  <2>1. \A i \in DOMAIN u : u[i] \in Values(s) \cup Values(t)
    BY <1>2, <1>3 DEF Values
  <2>2. \A i \in DOMAIN s : i \in DOMAIN u /\ u[i] = s[i]
    BY <1>2, <1>3
  <2>3. \A i \in DOMAIN t : i + Len(s) \in DOMAIN u /\ u[i + Len(s)] = t[i]
    BY <1>2, <1>3
  <2> QED
    BY <2>1, <2>2, <2>3, SMTT(40) DEF Values
<1>5. ASSUME Distinct(s), Distinct(t), Values(s) \cap Values(t) = {}
      PROVE  Distinct(u)
  <2> SUFFICES ASSUME NEW i \in DOMAIN u, NEW j \in DOMAIN u, u[i] = u[j]
               PROVE  i = j
    BY DEF Distinct
  <2>1. \A k \in DOMAIN s : s[k] \in Values(s)
    BY DEF Values
  <2>2. \A k \in DOMAIN t : t[k] \in Values(t)
    BY DEF Values
  <2>3. CASE i <= Len(s) /\ j <= Len(s)
    BY <1>2, <1>3, <1>5, <2>3, SMTT(40) DEF Distinct
  <2>4. CASE i > Len(s) /\ j > Len(s)
    BY <1>2, <1>3, <1>5, <2>4, SMTT(40) DEF Distinct
  <2>5. CASE i <= Len(s) /\ j > Len(s)
    BY <1>2, <1>3, <1>5, <2>1, <2>2, <2>5, SMTT(40)
  <2>6. CASE i > Len(s) /\ j <= Len(s)
    BY <1>2, <1>3, <1>5, <2>1, <2>2, <2>6, SMTT(40)
  <2> QED
    BY <1>2, <2>3, <2>4, <2>5, <2>6, SMTT(40)
<1> QED
  BY <1>1, <1>4, <1>5 DEF u

\* push_front() of several tasks: the same values in another order.
LEMMA ReversedProperties ==
  ASSUME NEW S, NEW s \in Seq(S)
  PROVE  /\ Reversed(s) \in Seq(S)
         /\ Values(Reversed(s)) = Values(s)
         /\ Distinct(s) => Distinct(Reversed(s))
<1> DEFINE r == Reversed(s)
<1>1. DOMAIN s = 1..Len(s) /\ Len(s) \in Nat
  OBVIOUS
<1>2. DOMAIN r = 1..Len(s) /\ \A i \in 1..Len(s) : r[i] = s[Len(s) + 1 - i]
  BY DEF Reversed
<1>3. \A i \in 1..Len(s) : Len(s) + 1 - i \in 1..Len(s)
  BY <1>1
<1>4. r \in Seq(S)
  <2>1. \A i \in 1..Len(s) : r[i] \in S
    BY <1>1, <1>2, <1>3
  <2>2. r = [i \in 1..Len(s) |-> r[i]]
    BY DEF Reversed
  <2> QED
    BY <1>1, <2>1, <2>2
<1>5. Values(r) = Values(s)
  <2>1. \A i \in 1..Len(s) : \E j \in 1..Len(s) : r[i] = s[j]
    BY <1>2, <1>3
  <2>2. \A i \in 1..Len(s) : r[Len(s) + 1 - i] = s[i]
    <3> TAKE i \in 1..Len(s)
    <3>1. Len(s) + 1 - (Len(s) + 1 - i) = i
      BY <1>1
    <3> QED
      BY <1>2, <1>3, <3>1
  <2> HIDE DEF r
  <2>3. \A i \in DOMAIN r : r[i] \in Values(s)
    BY <1>1, <1>2, <2>1 DEF Values
  <2>4. \A i \in DOMAIN s : \E j \in DOMAIN r : r[j] = s[i]
    BY <1>1, <1>2, <1>3, <2>2
  <2> QED
    BY <2>3, <2>4 DEF Values
<1>6. ASSUME Distinct(s) PROVE Distinct(r)
  <2> SUFFICES ASSUME NEW i \in 1..Len(s), NEW j \in 1..Len(s), r[i] = r[j]
               PROVE  i = j
    BY <1>2 DEF Distinct
  <2>1. Len(s) + 1 - i = Len(s) + 1 - j
    BY <1>1, <1>2, <1>3, <1>6, ZenonT(40) DEF Distinct
  <2> QED
    BY <1>1, <2>1
<1> QED
  BY <1>4, <1>5, <1>6

\* Inserting a new value anywhere.
LEMMA InsertProperties ==
  ASSUME NEW S, NEW s \in Seq(S), NEW x \in S, NEW at \in 0..Len(s)
  PROVE  /\ Insert(s, at, x) \in Seq(S)
         /\ Values(Insert(s, at, x)) = Values(s) \cup {x}
         /\ Distinct(s) /\ x \notin Values(s) => Distinct(Insert(s, at, x))
<1> DEFINE u == Insert(s, at, x)
<1>1. DOMAIN s = 1..Len(s) /\ Len(s) \in Nat /\ at \in Nat
  OBVIOUS
<1>2. DOMAIN u = 1..(Len(s) + 1)
  BY DEF Insert
<1>3. \A i \in 1..(Len(s) + 1) :
        u[i] = IF i <= at THEN s[i] ELSE IF i = at + 1 THEN x ELSE s[i - 1]
  BY DEF Insert
<1>a. u \in Seq(S)
  <2>1. \A i \in 1..(Len(s) + 1) : u[i] \in S
    <3> TAKE i \in 1..(Len(s) + 1)
    <3>1. CASE i <= at
      BY <1>1, <1>3, <3>1
    <3>2. CASE i = at + 1
      BY <1>1, <1>3, <3>2
    <3>3. CASE i > at + 1
      <4>1. i - 1 \in 1..Len(s)
        BY <1>1, <3>3
      <4> QED
        BY <1>1, <1>3, <3>3, <4>1, SMTT(40)
    <3> QED
      BY <1>1, <3>1, <3>2, <3>3, SMTT(40)
  <2>2. u = [i \in 1..(Len(s) + 1) |-> u[i]]
    BY DEF Insert
  <2>3. Len(s) + 1 \in Nat
    BY <1>1
  <2> QED
    BY <2>1, <2>2, <2>3, SMTT(40)
<1> HIDE DEF u
<1>4. Values(u) = Values(s) \cup {x}
  <2>1. \A i \in DOMAIN u : u[i] \in Values(s) \cup {x}
    <3> TAKE i \in DOMAIN u
    <3>1. u[i] = x \/ \E k \in DOMAIN s : u[i] = s[k]
      <4>1. CASE i <= at
        BY <1>1, <1>2, <1>3, <4>1, SMTT(40)
      <4>2. CASE i = at + 1
        BY <1>1, <1>2, <1>3, <4>2, SMTT(40)
      <4>3. CASE i > at + 1
        <5>1. i - 1 \in DOMAIN s /\ u[i] = s[i - 1]
          BY <1>1, <1>2, <1>3, <4>3, SMTT(40)
        <5> QED
          BY <5>1
      <4> QED
        BY <1>1, <1>2, <4>1, <4>2, <4>3, SMTT(40)
    <3> QED
      BY <3>1 DEF Values
  <2>2. \A i \in 1..Len(s) : \E j \in DOMAIN u : u[j] = s[i]
    <3> TAKE i \in 1..Len(s)
    <3>1. CASE i <= at
      BY <1>1, <1>2, <1>3, <3>1, SMTT(40)
    <3>2. CASE i > at
      <4>1. i + 1 \in DOMAIN u /\ u[i + 1] = s[i]
        BY <1>1, <1>2, <1>3, <3>2, SMTT(40)
      <4> QED
        BY <4>1
    <3> QED
      BY <1>1, <3>1, <3>2
  <2>3. at + 1 \in DOMAIN u /\ u[at + 1] = x
    BY <1>1, <1>2, <1>3
  <2> QED
    BY <1>1, <2>1, <2>2, <2>3, ZenonT(40) DEF Values
<1>5. ASSUME Distinct(s), x \notin Values(s) PROVE Distinct(u)
  <2> SUFFICES ASSUME NEW i \in DOMAIN u, NEW j \in DOMAIN u, u[i] = u[j]
               PROVE  i = j
    BY DEF Distinct
  <2>1. \A k \in DOMAIN s : s[k] # x
    BY <1>5 DEF Values
  <2> DEFINE k(n) == IF n <= at THEN n ELSE n - 1
  <2>2. ASSUME NEW n \in DOMAIN u, n # at + 1
        PROVE  k(n) \in DOMAIN s /\ u[n] = s[k(n)]
    BY <1>1, <1>2, <1>3, <2>2, SMTT(40)
  <2>3. CASE i # at + 1 /\ j # at + 1
    <3>1. k(i) = k(j)
      <4> HIDE DEF k
      <4> QED
        BY <1>5, <2>2, <2>3, ZenonT(40) DEF Distinct
    <3> QED
      BY <1>1, <1>2, <2>3, <3>1, SMTT(40)
  <2>4. CASE i = at + 1 \/ j = at + 1
    <3>1. u[at + 1] = x
      BY <1>1, <1>3
    <3> HIDE DEF k
    <3> QED
      BY <2>1, <2>2, <2>4, <3>1, ZenonT(40)
  <2> QED
    BY <2>3, <2>4
<1> QED
  BY <1>a, <1>4, <1>5 DEF u
=============================================================================

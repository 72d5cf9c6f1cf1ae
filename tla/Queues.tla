------------------------------- MODULE Queues -------------------------------
(***************************************************************************)
(* The containers of core/Engine are a vector and two deques that are      *)
(* changed by insert, push and erase.  An erase that keeps the order of    *)
(* what is left is a subsequence: the entries at a set of positions.  It   *)
(* is written with ranks rather than with SelectSeq so that its effect can *)
(* be proved for every sequence (QueueLemmas), not only tested.            *)
(***************************************************************************)
EXTENDS Naturals, Sequences, FiniteSets

\* The values in a sequence.
Values(s) == {s[i] : i \in DOMAIN s}

\* The number of positions of K up to k.
Rank(K, k) == Cardinality({j \in K : j <= k})

\* The position of K that has rank n.
Nth(K, n) == CHOOSE k \in K : Rank(K, k) = n

\* The entries of s at the positions K, in their order.
KeepAt(s, K) == [n \in 1..Cardinality(K) |-> s[Nth(K, n)]]

\* erase(remove(s, S)): what is left when every entry in S is taken out.
Without(s, S) == KeepAt(s, {i \in DOMAIN s : s[i] \notin S})

\* The entries of s that are in S, in their order.
Only(s, S) == KeepAt(s, {i \in DOMAIN s : s[i] \in S})

\* s.erase(find(s, x)): the first x alone.
Erase(s, x) ==
  KeepAt(s, {i \in DOMAIN s : s[i] # x \/ \E j \in DOMAIN s : j < i /\ s[j] = x})

\* s backwards: what is pushed to the front one by one.
Reversed(s) == [i \in 1..Len(s) |-> s[Len(s) + 1 - i]]

\* s.insert(s.begin() + at, x).
Insert(s, at, x) ==
  [i \in 1..(Len(s) + 1) |->
     IF i <= at THEN s[i] ELSE IF i = at + 1 THEN x ELSE s[i - 1]]

\* No entry twice.
Distinct(s) == \A i, j \in DOMAIN s : s[i] = s[j] => i = j
=============================================================================

------------------------------- MODULE Ranges -------------------------------
(***************************************************************************)
(* http/Ranges: RangeSet, a map from the begin of a range to its end.  A   *)
(* range <<b, e>> holds the bytes b .. e - 1; a RangeSet is the set R of   *)
(* its entries.  The loops of the code walk the map in order of begin;     *)
(* here they are sets of the entries they visit.                           *)
(***************************************************************************)
EXTENDS Integers, FiniteSets, FiniteSetsExt

\* std::min and std::max of two numbers.
Least(a, b) == IF a <= b THEN a ELSE b
Most(a, b) == IF a >= b THEN a ELSE b

\* upper_bound(x): the entries that begin after x.
After(R, x) == {r \in R : r[1] > x}

\* prev(upper_bound(x)) as a set: the last entry that begins at x or before, if any.
Before(R, x) ==
  {r \in R : r[1] <= x /\ \A q \in R : q[1] <= x => q[1] <= r[1]}

\* Where the loop of add() stops: every entry that begins at the new end or before
\* has been taken in, and the end is no larger than that needs.
Reach(R, e) ==
  Min({x \in {e} \cup {r[2] : r \in R} : x >= e /\ \A r \in R : r[1] <= x => r[2] <= x})

\* Mutant: ranges that touch are not joined.
AddApart(R, b, e) ==
  IF b >= e THEN R
  ELSE LET joined == {r \in Before(R, b) : r[2] > b}
           begin == IF joined = {} THEN b ELSE (CHOOSE r \in joined : TRUE)[1]
           ahead == joined \cup After(R, b)
           end == Reach(ahead, e)
       IN  (R \ {r \in ahead : r[1] <= end}) \cup {<<begin, end>>}

\* add(): ranges that overlap or touch the new one become one with it.
Add(R, b, e) ==
  IF b >= e THEN R
  ELSE LET joined == {r \in Before(R, b) : r[2] >= b}
           begin == IF joined = {} THEN b ELSE (CHOOSE r \in joined : TRUE)[1]
           ahead == joined \cup After(R, b)
           end == Reach(ahead, e)
       IN  (R \ {r \in ahead : r[1] <= end}) \cup {<<begin, end>>}

\* remove(): what is left of a range on either side of the cut stays.
Remove(R, b, e) ==
  IF b >= e THEN R
  ELSE LET hit == {r \in Before(R, b) \cup After(R, b) : r[1] < e /\ r[2] > b}
       IN  (R \ hit) \cup {<<r[1], b>> : r \in {q \in hit : q[1] < b}}
                     \cup {<<e, r[2]>> : r \in {q \in hit : q[2] > e}}

\* contains().
Contains(R, b, e) == b >= e \/ \E r \in Before(R, b) : r[2] >= e

\* total().
Total(R) == MapThenSumSet(LAMBDA r : r[2] - r[1], R)

\* covered(): the bytes of b .. e - 1 that are present.
Covered(R, b, e) ==
  MapThenSumSet(LAMBDA r : Most(0, Least(e, r[2]) - Most(b, r[1])),
                {r \in Before(R, b) \cup After(R, b) : r[1] < e})

\* firstGap(), as a set: the first missing range of from .. limit - 1, if any.
FirstGap(R, from, limit) ==
  LET cursor == Max({from} \cup {r[2] : r \in Before(R, from)})
      next == Min({limit} \cup {r[1] : r \in After(R, from)})
  IN  IF cursor >= limit THEN {} ELSE {<<cursor, next>>}

\* The bytes of a range and of a RangeSet: what the operations are about.
Span(b, e) == b .. (e - 1)
Bytes(R) == UNION {Span(r[1], r[2]) : r \in R}

\* "Disjoint, coalesced byte ranges" (Ranges.h): no range is empty and between
\* two ranges there is a byte that neither has.
Coalesced(R) ==
  /\ \A r \in R : r[1] < r[2]
  /\ \A r, q \in R : r[1] < q[1] => r[2] < q[1]
  /\ \A r, q \in R : r[1] = q[1] => r = q
=============================================================================

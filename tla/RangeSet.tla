------------------------------ MODULE RangeSet ------------------------------
(***************************************************************************)
(* A RangeSet under any sequence of add() and remove(), beside the plain   *)
(* set of bytes that its answers are about.                                *)
(***************************************************************************)
EXTENDS Ranges

CONSTANT Limit   \* the bytes are 0 .. Limit - 1

VARIABLES
  ranges,  \* ranges_
  bytes    \* the bytes that were added and not removed since

vars == <<ranges, bytes>>

Init == ranges = {} /\ bytes = {}

DoAdd(b, e) == ranges' = Add(ranges, b, e) /\ bytes' = bytes \cup Span(b, e)
DoRemove(b, e) == ranges' = Remove(ranges, b, e) /\ bytes' = bytes \ Span(b, e)

Next == \E b, e \in 0..Limit : DoAdd(b, e) \/ DoRemove(b, e)

Spec == Init /\ [][Next]_vars

-----------------------------------------------------------------------------
\* The map holds the bytes it should, "disjoint, coalesced" (Ranges.h): add() and
\* remove() keep each other's form whatever their order.
Exact == Coalesced(ranges) /\ Bytes(ranges) = bytes

\* The gap that firstGap() should name: from the first missing byte up to the
\* next present one.
GapOf(B, from, limit) ==
  LET missing == Span(from, limit) \ B
  IN  IF missing = {} THEN {}
      ELSE {<<Min(missing), Min({limit} \cup {x \in B : x > Min(missing)})>>}

\* Every query of RangeSet answers as the set of bytes would: contains(), total(),
\* covered() and, from any byte to any limit, firstGap().
QueriesExact ==
  /\ Total(ranges) = Cardinality(bytes)
  /\ \A b, e \in 0..Limit :
       /\ Contains(ranges, b, e) <=> Span(b, e) \subseteq bytes
       /\ Covered(ranges, b, e) = Cardinality(Span(b, e) \cap bytes)
       /\ FirstGap(ranges, b, e) = GapOf(bytes, b, e)
=============================================================================

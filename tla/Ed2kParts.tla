----------------------------- MODULE Ed2kParts ------------------------------
(***************************************************************************)
(* Progress of a file in ED2K parts (ed2k/Parts.cc): what was received,    *)
(* which parts are verified, and which blocks the sources have claimed.    *)
(* A Parts object is a record p; its methods are functions of p.  Offsets  *)
(* stand for the smallest unit that is requested.                          *)
(***************************************************************************)
EXTENDS Queues, Integers, FiniteSetsExt

CONSTANTS
  Size,        \* link_.size
  PartLength,  \* PIECE_LENGTH
  BlockLength, \* BLOCK_LENGTH
  Sources      \* the clients that may claim blocks

Offsets == 0 .. Size - 1
Count == (Size + PartLength - 1) \div PartLength
PartIndexes == 0 .. Count - 1
PartOf(o) == o \div PartLength
Part(i) == {o \in Offsets : PartOf(o) = i}

\* The parts these offsets lie in.
Touched(block) == {i \in PartIndexes : Part(i) \cap block # {}}

NoParts == [received |-> {}, verified |-> {}, claims |-> {}]

Complete(p) == p.verified = PartIndexes
Filled(p, i) == Part(i) \subseteq p.received

\* The part that add() reports: the first one these offsets complete.
FilledBy(p, block) ==
  LET full == {i \in Touched(block) : i \notin p.verified /\ Filled(p, i)}
  IN IF full = {} THEN {} ELSE {Min(full)}

Add(p, block) == [p EXCEPT !.received = @ \cup block]

\* verify() of each of these parts.
VerifyParts(p, parts) ==
  [p EXCEPT !.verified = @ \cup parts, !.received = @ \cup UNION {Part(i) : i \in parts}]
RejectKeepsData(p, i) == [p EXCEPT !.verified = @ \ {i}]

RejectPart(p, i) ==
  [p EXCEPT !.verified = @ \ {i}, !.received = @ \ Part(i)]

Wanted(p, available) ==
  {i \in available : i \notin p.verified /\ ~Filled(p, i)}

BlocksYoung(c, owner, endgame) == c.owner = owner \/ ~c.old

(***************************************************************************)
(* A claim covers the offsets of one block; `old` says that it was made    *)
(* more than duplicateAfter ago.                                           *)
(***************************************************************************)
Blocks(c, owner, endgame) == c.owner = owner \/ ~endgame \/ ~c.old

Free(p, owner, i, endgame) ==
  {o \in Part(i) \ p.received :
     \A c \in p.claims : o \in c.block => ~Blocks(c, owner, endgame)}

\* The first free stretch of part i, cut at the block grid.
NextBlock(p, owner, i, endgame) ==
  LET free == Free(p, owner, i, endgame)
      begin == Min(free)
      grid == begin - ((begin - i * PartLength) % BlockLength) + BlockLength
  IN {o \in free : o < grid /\ begin .. o \subseteq free}

\* claimGaps(): the next block, of the first candidate that has one.
ClaimNext(st, owner, order, endgame) ==
  LET open == {j \in DOMAIN order : Free(st.p, owner, order[j], endgame) # {}}
      block == NextBlock(st.p, owner, order[Min(open)], endgame)
  IN IF open = {} THEN st
     ELSE [p   |-> [st.p EXCEPT !.claims = @ \cup
                      {[block |-> block, owner |-> owner, old |-> FALSE]}],
           out |-> Append(st.out, block)]

\* One round over the candidates: up to count blocks.
ClaimRound(p, owner, order, count, endgame) ==
  LET after[k \in 0 .. count] ==
        IF k = 0 THEN [p |-> p, out |-> <<>>]
        ELSE ClaimNext(after[k - 1], owner, order, endgame)
  IN after[count]

(***************************************************************************)
(* Parts the source works on come first, then the edges of a preview, then *)
(* started parts, then rare ones; the rest of the order is random.         *)
(***************************************************************************)
PartRank(p, owner, i, rarity, preview) ==
  LET here == {c \in p.claims : c.block \cap Part(i) # {}}
      last == Count - 1
      edge == \/ i \in {0, last}
              \/ i + 1 = last /\ Cardinality(Part(last)) < PartLength \div 3
      bit(b) == IF b THEN 0 ELSE 1
  IN ((bit(\E c \in here : c.owner = owner) * 2 + bit(preview /\ edge)) * 2
       + bit(here # {} \/ Part(i) \cap p.received # {})) * (Cardinality(Sources) + 1)
     + rarity[i]

\* claim(): what it may return, with the object it leaves behind.
Claim(p, owner, available, count, rarity, preview) ==
  LET wanted == Wanted(p, available)
      orders == {s \in [1 .. Cardinality(wanted) -> wanted] :
                   /\ Distinct(s)
                   /\ \A j \in 1 .. Len(s) - 1 :
                        PartRank(p, owner, s[j], rarity, preview)
                          <= PartRank(p, owner, s[j + 1], rarity, preview)}
      round(order, endgame) == ClaimRound(p, owner, order, count, endgame)
  IN {IF round(s, FALSE).out # <<>> THEN round(s, FALSE) ELSE round(s, TRUE) : s \in orders}

Release(p, owner, block) ==
  [p EXCEPT !.claims = {c \in @ : ~(c.owner = owner /\ Min(c.block) = Min(block))}]
ReleaseAll(p, owner) ==
  [p EXCEPT !.claims = {c \in @ : c.owner # owner}]

\* Time passes: every claim is now older than duplicateAfter.
Aged(p) == [p EXCEPT !.claims = {[c EXCEPT !.old = TRUE] : c \in @}]
=============================================================================

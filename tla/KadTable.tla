------------------------------ MODULE KadTable ------------------------------
(***************************************************************************)
(* The Kad routing table (ed2k/KadRouting.cc, KadRoutingTable).            *)
(*                                                                         *)
(* An ID is a number of IdBits bits, given as its XOR distance from our    *)
(* own, which is 0.  A contact is its ID: none changes its address.  Each  *)
(* bucket has live contacts and replacements, in the order of use; `used`  *)
(* lists the buckets that were ever active, longest unused first, and the  *)
(* first `stale` of them are due for a refresh.                            *)
(***************************************************************************)
EXTENDS Integers, Sequences, SequencesExt, FiniteSets, Bitwise

CONSTANTS
  IdBits,       \* 128
  SplitLevels,  \* 4
  BucketSize,   \* 10
  MaxFails      \* 20

FarBuckets == 2 ^ SplitLevels - 1
BucketCount == FarBuckets + IdBits - SplitLevels
Buckets == 0 .. BucketCount - 1
Ids == 0 .. 2 ^ IdBits - 1

\* bucketIndex(): the top bits of a far distance, else its leading zeros.
BucketIndex(d) ==
  LET top == d \div 2 ^ (IdBits - SplitLevels)
      zeros == CHOOSE z \in 0 .. IdBits - 1 : d \div 2 ^ (IdBits - 1 - z) = 1
  IN CASE d = 0 -> BucketCount - 1
       [] top # 0 -> top - 1
       [] OTHER -> FarBuckets + zeros - SplitLevels

\* randomIdIn(): an ID inside the bucket, from random bits r.
RandomIdIn(index, r) ==
  IF index < FarBuckets
  THEN (index + 1) * 2 ^ (IdBits - SplitLevels) + r \div 2 ^ SplitLevels
  ELSE LET prefix == IF index - FarBuckets + SplitLevels < IdBits
                     THEN index - FarBuckets + SplitLevels ELSE IdBits - 1
           bit == 2 ^ (IdBits - 1 - prefix)
       IN bit + (r % bit)

EmptyBucket == [live |-> <<>>, rest |-> <<>>]
EmptyTable == [bucket |-> [b \in Buckets |-> EmptyBucket], used |-> <<>>, stale |-> 0]

Node(c, confirmed) == [id |-> c, confirmed |-> confirmed, fails |-> 0]
At(nodes, c) ==
  LET at == {i \in DOMAIN nodes : nodes[i].id = c} IN IF at = {} THEN 0 ELSE CHOOSE i \in at : TRUE

\* bucket.lastActive = now
Active(table, b) ==
  LET quiet == {i \in 1 .. table.stale : table.used[i] = b} IN
  [table EXCEPT !.used = Append(Remove(@, b), b), !.stale = @ - Cardinality(quiet)]

\* updateNode()
Updated(node, confirmed) ==
  [node EXCEPT !.confirmed = @ \/ confirmed, !.fails = IF confirmed THEN 0 ELSE @]

\* A new contact becomes live while there is room, else a replacement.
Inserted(bucket, node) ==
  IF Len(bucket.live) < BucketSize THEN [bucket EXCEPT !.live = Append(@, node)]
  ELSE [bucket EXCEPT !.rest = Append(IF Len(@) = BucketSize THEN Tail(@) ELSE @, node)]

\* A replacement that was seen takes a free place.
Promoted(bucket, i, node, confirmed) ==
  IF confirmed /\ Len(bucket.live) < BucketSize
  THEN [live |-> Append(bucket.live, node), rest |-> RemoveAt(bucket.rest, i)]
  ELSE [bucket EXCEPT !.rest[i] = node]

AddTo(bucket, c, confirmed) ==
  LET i == At(bucket.live, c)
      j == At(bucket.rest, c)
  IN IF i # 0
     THEN [bucket EXCEPT !.live = Append(RemoveAt(@, i), Updated(@[i], confirmed))]
     ELSE IF j # 0
     THEN Promoted(bucket, j, Updated(bucket.rest[j], confirmed), confirmed)
     ELSE Inserted(bucket, Node(c, confirmed))

\* addNode()
AddNode(table, c, confirmed) ==
  IF c = 0 THEN table
  ELSE LET b == BucketIndex(c)
       IN Active([table EXCEPT !.bucket[b] = AddTo(@, c, confirmed)], b)

HeardAbout(table, c) == AddNode(table, c, FALSE)
NodeSeen(table, c) == AddNode(table, c, TRUE)

\* nodeFailed()
NodeFailed(table, c) ==
  LET bucket == table.bucket[BucketIndex(c)]
      i == At(bucket.live, c)
      j == At(bucket.rest, c)
      after ==
        CASE i # 0 /\ ~bucket.live[i].confirmed ->
               [bucket EXCEPT !.live = RemoveAt(@, i)]
          [] i # 0 /\ bucket.live[i].confirmed /\ bucket.rest # <<>> ->
               [live |-> [bucket.live EXCEPT ![i] = Head(bucket.rest)], rest |-> Tail(bucket.rest)]
          [] i # 0 /\ bucket.live[i].confirmed /\ bucket.rest = <<>> ->
               IF bucket.live[i].fails + 1 >= MaxFails
               THEN [bucket EXCEPT !.live = RemoveAt(@, i)]
               ELSE [bucket EXCEPT !.live[i].fails = @ + 1]
          [] i = 0 /\ j # 0 -> [bucket EXCEPT !.rest = RemoveAt(@, j)]
          [] OTHER -> bucket
  IN [table EXCEPT !.bucket[BucketIndex(c)] = after]

IdsOf(nodes) == {nodes[i].id : i \in DOMAIN nodes}
Live(table) == UNION {IdsOf(table.bucket[b].live) : b \in Buckets}
Confirmed(table) ==
  {c \in Live(table) : LET l == table.bucket[BucketIndex(c)].live IN l[At(l, c)].confirmed}

\* findClosest(), findClosestExcluding(): the live contacts nearest the target.
Closest(table, target, limit, unconfirmed, excluded) ==
  LET nodes == (IF unconfirmed THEN Live(table) ELSE Confirmed(table)) \ {excluded}
      sorted == SetToSortSeq(nodes, LAMBDA a, b : a ^^ target < b ^^ target)
  IN SubSeq(sorted, 1, IF Len(sorted) < limit THEN Len(sorted) ELSE limit)

\* restore(snapshot()): every node is placed again.
Restored(table) ==
  LET place(bucket, node, wasLive) ==
        IF wasLive /\ Len(bucket.live) < BucketSize
        THEN [bucket EXCEPT !.live = Append(@, node)]
        ELSE IF Len(bucket.rest) < BucketSize
        THEN [bucket EXCEPT !.rest = Append(@, node)] ELSE bucket
      put(t, node, wasLive) ==
        [t EXCEPT !.bucket[BucketIndex(node.id)] = place(@, node, wasLive)]
      again(t, b) ==
        FoldLeft(LAMBDA s, node : put(s, node, FALSE),
                 FoldLeft(LAMBDA s, node : put(s, node, TRUE), t, table.bucket[b].live),
                 table.bucket[b].rest)
      filled == FoldLeft(again, EmptyTable, [i \in 1 .. BucketCount |-> i - 1])
      holds(b) == filled.bucket[b] # EmptyBucket
  IN [filled EXCEPT !.used = SelectSeq(table.used, holds),
        !.stale = Cardinality({i \in 1 .. table.stale : holds(table.used[i])})]

-----------------------------------------------------------------------------
(***************************************************************************)
(* Properties of one table, for the invariants of Kad.                     *)
(***************************************************************************)
PlacedIn(table, b) ==
  LET bucket == table.bucket[b] IN
  /\ Len(bucket.live) <= BucketSize /\ Len(bucket.rest) <= BucketSize
  /\ \A c \in IdsOf(bucket.live) \cup IdsOf(bucket.rest) : BucketIndex(c) = b

Once(table, b) ==
  LET bucket == table.bucket[b] IN
  /\ Cardinality(IdsOf(bucket.live)) = Len(bucket.live)
  /\ Cardinality(IdsOf(bucket.rest)) = Len(bucket.rest)
  /\ IdsOf(bucket.live) \cap IdsOf(bucket.rest) = {}
=============================================================================

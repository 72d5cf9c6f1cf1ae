------------------------------ MODULE Ed2kWire ------------------------------
(***************************************************************************)
(* The byte formats that every eDonkey and Kad message is made of          *)
(* (ed2k/Packet.cc, the part status of ed2k/PeerProtocol.cc,               *)
(* ed2k/Endpoint.cc).  A byte is a number below 256, a payload a sequence  *)
(* of bytes.  A 64-bit number is the pair <<low word, high word>>; the     *)
(* words an instance uses are below 2^31.                                  *)
(*                                                                         *)
(* Reading moves a cursor over a payload: the bytes, the offset, whether   *)
(* the reads so far succeeded (the code throws ProtocolError where they do *)
(* not) and the values read.  Writing is concatenation.  The two sides are *)
(* translated separately, from the functions that write and the ones that  *)
(* read.                                                                   *)
(***************************************************************************)
EXTENDS Integers, Sequences, SequencesExt, FiniteSetsExt

CONSTANT HashLength     \* HASH_LENGTH, 16 in the code

-----------------------------------------------------------------------------

\* packUInt16, packUInt32: the least significant byte first.
PackBytes(k, v) == [i \in 1..k |-> (v \div 256^(i - 1)) % 256]
U8(v) == <<v>>
U16(v) == PackBytes(2, v)
U32(v) == PackBytes(4, v)

\* packUInt64.
U64(v) == U32(v[1]) \o U32(v[2])

\* readUInt16, readUInt32.
UnpackBytes(bytes) ==
    LET from[i \in 1..(Len(bytes) + 1)] ==
          IF i > Len(bytes) THEN 0 ELSE bytes[i] + 256 * from[i + 1]
    IN from[1]

\* A file size or an offset that does not fit 32 bits.
Large(v) == v[2] # 0

\* Endpoint.cc: an IPv4 address in network order and the port.  Kad messages
\* hold the address as a number, which reverses its bytes.
PackEndpoint(e) == e[1] \o U16(e[2])
KadIp(host) == Reverse(host)

\* What a throw or a false return leaves: no message.
Rejected == [ok |-> FALSE, out |-> <<>>]
Accepted(m) == [ok |-> TRUE, out |-> m]

\* The result of parsing: the message that `Message' makes of the cursor, when all
\* reads succeeded and `Cond' holds.
Result(c, Cond(_), Message(_)) ==
    IF c.ok /\ Cond(c) THEN Accepted(Message(c)) ELSE Rejected

Always(c) == TRUE
Values(c) == c.out

\* The rest of the parsing, when the reads so far succeeded.
Then(c, Rest(_)) == IF c.ok THEN Rest(c) ELSE Rejected

\* n steps of a loop over a cursor, which ends when the cursor fails.  It is
\* halved so that TLC evaluates long loops.
Iterate(Step(_, _), c, n) ==
    LET RECURSIVE Steps(_, _, _)
        Steps(d, first, last) ==
          CASE first > last \/ ~d.ok -> d
            [] first = last -> Step(d, first)
            [] OTHER -> LET middle == (first + last) \div 2
                        IN Steps(Steps(d, first, middle), middle + 1, last)
    IN Steps(c, 1, n)

-----------------------------------------------------------------------------
Cursor(payload) == [data |-> payload, at |-> 0, ok |-> TRUE, out |-> <<>>]

Left(c) == Len(c.data) - c.at
AtEnd(c) == Left(c) = 0

\* A message of exactly these fields.
Filled(c) == Result(c, AtEnd, Values)

\* What is left when there is less.                              (mutant)
ReadBytesLeft(c, k) ==
    LET n == IF k <= Left(c) THEN k ELSE Left(c)
    IN [c EXCEPT !.at = @ + n, !.out = Append(@, SubSeq(c.data, c.at + 1, c.at + n))]

\* readByte, readBytes: the next k bytes, or the cursor fails.
ReadBytes(c, k) ==
    IF c.ok /\ k <= Left(c)
    THEN [c EXCEPT !.at = @ + k,
                   !.out = Append(@, SubSeq(c.data, c.at + 1, c.at + k))]
    ELSE [c EXCEPT !.ok = FALSE]

LastValue(c) == c.out[Len(c.out)]

\* The value read last, decoded.
Decode(c, Op(_)) == IF c.ok THEN [c EXCEPT !.out[Len(c.out)] = Op(@)] ELSE c

ReadNumber(c, k) == Decode(ReadBytes(c, k), UnpackBytes)

ReadWide(c) ==
    Decode(ReadBytes(c, 8),
           LAMBDA b : <<UnpackBytes(SubSeq(b, 1, 4)), UnpackBytes(SubSeq(b, 5, 8))>>)

\* Drop the length that was read and read as many bytes.
Sized(c) ==
    IF c.ok THEN ReadBytes([c EXCEPT !.out = Front(@)], LastValue(c)) ELSE c

\* The value read last stands for the two last ones.
Join(c) ==
    IF c.ok THEN [c EXCEPT !.out = Append(SubSeq(@, 1, Len(@) - 2),
                                          SubSeq(@, Len(@) - 1, Len(@)))]
            ELSE c

-----------------------------------------------------------------------------
\* appendPartStatus: the number of parts and one bit per part, the first part
\* in the lowest bit: LowFirst.  Place is the bit of the i-th part in its byte;
\* the UDP acknowledgement counts from the highest.
LowFirst == "bits"
HighFirst == "highbits"
Place(order, i) == 2 ^ (IF order = LowFirst THEN i % 8 ELSE 7 - (i % 8))

BitBytes(n) == (n + 7) \div 8

PackBits(bits, order) ==
    U16(Len(bits)) \o
    [j \in 1..BitBytes(Len(bits)) |->
        SumSet({Place(order, i) : i \in {i \in (8 * (j - 1))..(8 * j - 1) :
                                    i < Len(bits) /\ bits[i + 1]}})]

\* readPartStatus.
UnpackBits(n, raw, order) ==
    [i \in 1..n |-> (raw[((i - 1) \div 8) + 1] \div Place(order, i - 1)) % 2 = 1]

BitsAfter(n, order) ==
    IF n.ok THEN Decode(ReadBytes([n EXCEPT !.out = Front(@)], BitBytes(LastValue(n))),
                        LAMBDA bytes : UnpackBits(LastValue(n), bytes, order))
            ELSE n

ReadBits(c, order) == BitsAfter(ReadNumber(c, 2), order)

-----------------------------------------------------------------------------
\* createTagHeader, createUInt32Tag, createUInt64Tag.
TagHeader(type, id) == <<type + 128, id>>
UInt32Tag(id, v) == TagHeader(3, id) \o U32(v)
UInt64Tag(id, v) == TagHeader(11, id) \o U64(v)

\* createStringTag: up to 16 bytes the length is part of the type.
ShortString(s) == Len(s) \in 1..16
StringTag(id, s) ==
    IF ShortString(s) THEN TagHeader(16 + Len(s), id) \o s
                      ELSE TagHeader(2, id) \o U16(Len(s)) \o s

\* readTag: the value by its type; an unknown type has none.
TagValue(c, type) ==
    CASE type = 1 -> ReadBytes(c, HashLength)
      [] type \in 17..32 -> ReadBytes(c, type - 16)
      [] type \in {2, 7} -> Sized(ReadNumber(c, IF type = 2 THEN 2 ELSE 4))
      [] type \in {3, 8, 9} ->
           Decode(ReadNumber(c, CASE type = 3 -> 4 [] type = 8 -> 2 [] type = 9 -> 1),
                  LAMBDA v : <<v, 0>>)
      [] type = 11 -> ReadWide(c)
      [] OTHER -> [c EXCEPT !.out = Append(@, <<>>)]

ValueType(type) ==
    CASE type = 1 -> "hash"
      [] type = 2 \/ type \in 17..32 -> "string"
      [] type \in {3, 8, 9, 11} -> "uint"
      [] type = 7 -> "blob"
      [] OTHER -> "none"

\* The name of a tag is one byte, or a string; a string of one byte is one.
TagName(c) ==
    Decode(Sized(ReadNumber(c, 2)), LAMBDA s : IF Len(s) = 1 THEN s[1] ELSE 0)

\* The tag's type, its name and its value; then the three as one record.
AfterType(c) ==
    IF ~c.ok THEN c ELSE IF c.out[1] >= 128 THEN ReadNumber(c, 1) ELSE TagName(c)
AfterName(c) == IF c.ok THEN TagValue(c, c.out[1] % 128) ELSE c
Tag(c) == [id |-> c.out[2], type |-> ValueType(c.out[1] % 128), value |-> c.out[3]]
AfterValue(c, out) == IF c.ok THEN [c EXCEPT !.out = Append(out, Tag(c))] ELSE c

ReadTag(c) ==
    AfterValue(AfterName(AfterType(ReadNumber([c EXCEPT !.out = <<>>], 1))), c.out)

-----------------------------------------------------------------------------
Width == [u8 |-> 1, u16 |-> 2, u32 |-> 4, ip |-> 4, hash |-> HashLength]

\* One field of a message.
Field(c, kind) ==
    CASE kind \in {"u8", "u16", "u32"} -> ReadNumber(c, Width[kind])
      [] kind = "u64" -> ReadWide(c)
      [] kind \in {"ip", "hash"} -> ReadBytes(c, Width[kind])
      [] kind = "kadip" -> Decode(ReadBytes(c, 4), Reverse)
      [] kind = "endpoint" -> Join(ReadNumber(ReadBytes(c, 4), 2))
      [] kind = "string" -> Sized(ReadNumber(c, 2))
      [] kind \in {LowFirst, HighFirst} -> ReadBits(c, kind)
      [] kind = "tag"  -> ReadTag(c)

\* The fields one after the other, until one fails.
RECURSIVE Read(_, _)
Read(c, kinds) ==
    IF kinds = <<>> \/ ~c.ok THEN c ELSE Read(Field(c, Head(kinds)), Tail(kinds))

\* One entry of a layout, as one value; n of them, halved as in Iterate.
Nested(e, out) == [e EXCEPT !.out = Append(out, @)]

RECURSIVE Entries(_, _, _)
Entries(c, n, kinds) ==
    CASE n = 0 \/ ~c.ok -> c
      [] n = 1 -> Nested(Read([c EXCEPT !.out = <<>>], kinds), c.out)
      [] OTHER -> Entries(Entries(c, n \div 2, kinds), n - (n \div 2), kinds)

\* n entries of the same layout, read as one value: the sequence of them.
ReadMany(c, n, kinds) ==
    CASE ~c.ok -> c
      [] n > Left(c) -> [c EXCEPT !.ok = FALSE]
      [] OTHER -> Nested(Entries([c EXCEPT !.out = <<>>], n, kinds), c.out)

\* A count that was read last, then as many entries.
Counted(c, kinds) ==
    IF c.ok THEN ReadMany([c EXCEPT !.out = Front(@)], LastValue(c), kinds) ELSE c

\* parseTagList: the count of 32 bits and the tags, which must fill the payload.
TagList(c) == Counted(ReadNumber(c, 4), <<"tag">>)

\* The number, or the string, that the last tag of the name holds.
TagOf(tags, id, type, default) ==
    LET at == {i \in DOMAIN tags : tags[i][1].id = id /\ tags[i][1].type = type}
    IN IF at = {} THEN default ELSE tags[Max(at)][1].value

Concat(seqs) == FlattenSeq(seqs)

\* Entries of one field.
Firsts(entries) == [i \in DOMAIN entries |-> entries[i][1]]
=============================================================================

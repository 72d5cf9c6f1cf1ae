--------------------------- MODULE ServerMessages ---------------------------
(***************************************************************************)
(* The messages between the client and an eDonkey server, and the files of *)
(* servers (ed2k/ServerProtocol.cc, ed2k/Search.cc).  Where the client     *)
(* only reads a message, what the server writes is modelled from how the   *)
(* code reads it; where it only writes one, how the server reads it.       *)
(***************************************************************************)
EXTENDS Ed2kWire

EDONKEY == 227            \* PROTO_EDONKEY
GLOBFOUNDSOURCES == 155   \* OP_GLOBFOUNDSOURCES

HasUserHash == 128        \* SOURCE_CRYPT_HAS_USER_HASH

HasHash(options) == options >= HasUserHash

\* A low identifier: the fourth octet, the highest byte, is zero.
LowId(ip) == ip[4] = 0

-----------------------------------------------------------------------------
\* <<hash, size>>: createGetSourcesPayload; a size above 32 bits follows a zero.
CreateGetSources(m) ==
    m[1] \o (IF Large(m[2]) THEN U32(0) \o U64(m[2]) ELSE U32(m[2][1]))

ReadGetSources(payload) ==
    Then(Read(Cursor(payload), <<"hash", "u32">>), LAMBDA c :
      IF c.out[2] = 0 THEN Result(ReadWide(c), AtEnd, LAMBDA d : <<d.out[1], d.out[3]>>)
                      ELSE Result(c, AtEnd, LAMBDA d : <<d.out[1], <<d.out[2], 0>>>>))

\* <<hash, sources>>, a source <<endpoint, options, user hash, low id>>: what a
\* server answers; `plain' without the options.
WriteFoundSources(m, plain) ==
    m[1] \o U8(Len(m[2])) \o
    Concat([i \in DOMAIN m[2] |->
              LET s == m[2][i]
              IN PackEndpoint(s[1]) \o
                 (IF plain THEN <<>>
                  ELSE U8(s[2]) \o (IF HasHash(s[2]) THEN s[3] ELSE <<>>))])

\* One source of parseFoundSourcesPayload.
WithOptions(c, plain) == IF plain THEN [c EXCEPT !.out = Append(@, 0)] ELSE ReadNumber(c, 1)

WithUserHash(c) ==
    CASE ~c.ok -> c
      [] HasHash(LastValue(c)) -> ReadBytes(c, HashLength)
      [] OTHER -> [c EXCEPT !.out = Append(@, <<>>)]

WithLowId(c) == IF c.ok THEN [c EXCEPT !.out = Append(@, LowId(@[1][1]))] ELSE c

FoundSource(c, plain) ==
    Nested(WithLowId(WithUserHash(
             WithOptions(Read([c EXCEPT !.out = <<>>], <<"endpoint">>), plain))), c.out)

ParseFoundSources(payload, hash, plain) ==
    LET Each(d, i) == FoundSource(d, plain)
    IN Then(Read(Cursor(payload), <<"hash", "u8">>), LAMBDA c :
         IF c.out[1] # hash THEN Rejected
         ELSE Result(Iterate(Each, [c EXCEPT !.out = <<>>], c.out[2]),
                     AtEnd, LAMBDA d : <<c.out[1], d.out>>))

\* <<hash, answers <<hash, endpoints>>>>: several answers in one UDP packet,
\* each after the first with its own packet header; the file asked for is m[1].
WritePackedSources(m) ==
    LET One(a) == a[1] \o U8(Len(a[2])) \o
                  Concat([i \in DOMAIN a[2] |-> PackEndpoint(a[2][i])])
    IN Concat([i \in DOMAIN m[2] |->
                 (IF i = 1 THEN <<>> ELSE <<EDONKEY, GLOBFOUNDSOURCES>>) \o One(m[2][i])])

\* The sources of the file among the answers.
SourcesOf(m) ==
    Concat([i \in DOMAIN m[2] |-> IF m[2][i][1] = m[1] THEN m[2][i][2] ELSE <<>>])

\* One answer of parsePackedFoundSourcesPayloads, and the header of the next:
\* what is not one ends the packet.
NextPacket(c) ==
    IF Left(c) >= 2 /\ SubSeq(c.data, c.at + 1, c.at + 2) = <<EDONKEY, GLOBFOUNDSOURCES>>
    THEN c.at + 2 ELSE Len(c.data)

PackedAnswer(c, hash) ==
    LET Found(a) == IF a.out[1] = hash THEN Firsts(a.out[2]) ELSE <<>>
        Add(a) == IF a.ok THEN [a EXCEPT !.at = NextPacket(a), !.out = <<c.out[1] \o Found(a)>>]
                          ELSE a
    IN Add(Counted(Read([c EXCEPT !.out = <<>>], <<"hash", "u8">>), <<"endpoint">>))

ParsePackedSources(payload, hash) ==
    LET Each(d, i) == IF AtEnd(d) THEN d ELSE PackedAnswer(d, hash)
    IN Result(Iterate(Each, [Cursor(payload) EXCEPT !.out = <<<<>>>>], Len(payload)),
              Always, LAMBDA d : d.out[1])

-----------------------------------------------------------------------------
\* <<identifier, flags, auxiliary port, address, obfuscation port>>: the
\* answer to the login, of which older servers leave out the last fields.
WriteIdChange(fields) == Concat(fields)

\* parseServerIdChangePayload.  An address, or one in the identifier, is one
\* only above the low identifiers.
IdChange(o) ==
    LET own == IF LowId(o[1]) THEN <<>> ELSE o[1]
        full == Len(o) = 5
    IN <<o[1], ~LowId(o[1]), IF full /\ ~LowId(o[4]) THEN o[4] ELSE own,
         IF full /\ o[5] < 2 ^ 16 THEN o[5] ELSE 0>>

ParseIdChange(payload) ==
    Result(Read(Cursor(payload), IF Len(payload) >= 20 THEN <<"ip", "u32", "u32", "ip", "u32">>
                                                       ELSE <<"ip">>),
           Always, LAMBDA c : IdChange(c.out))

\* <<endpoints>>: the list of servers, whose rest is left.
CreateServerList(m) == U8(Len(m[1])) \o Concat([i \in DOMAIN m[1] |-> PackEndpoint(m[1][i])])

ParseServerList(payload) ==
    Result(Counted(ReadNumber(Cursor(payload), 1), <<"endpoint">>),
           Always, LAMBDA c : <<Firsts(c.out[1])>>)

\* <<endpoint, name>>: parseServerIdentPayload; the hash before is skipped.
WriteServerIdent(m, hash) ==
    hash \o PackEndpoint(m[1]) \o U32(1) \o StringTag(1, m[2])

ParseServerIdent(payload) ==
    Result(TagList(Read(Cursor(payload), <<"hash", "endpoint">>)),
           Always, LAMBDA c : <<c.out[2], TagOf(c.out[3], 1, "string", <<>>)>>)

\* <<entries>>, an entry <<endpoint, name, dynamic host, obfuscation port>>: a
\* server.met file.  A dynamic host replaces an unset address.
Unset == <<0, 0, 0, 0>>

WriteServerMet(m, header) ==
    header \o U32(Len(m[1])) \o
    Concat([i \in DOMAIN m[1] |->
              LET e == m[1][i]
              IN PackEndpoint(e[1]) \o U32(3) \o StringTag(1, e[2])
                 \o StringTag(133, e[3]) \o UInt32Tag(151, e[4])])

\* One entry of parseServerMetEntries; one without a port is left out.
MetServer(endpoint, tags) ==
    LET port == TagOf(tags, 151, "uint", <<0, 0>>)
        dyn == TagOf(tags, 133, "string", <<>>)
    IN <<<<IF endpoint[1] = Unset /\ dyn # <<>> THEN dyn ELSE endpoint[1], endpoint[2]>>,
         TagOf(tags, 1, "string", <<>>),
         IF Large(port) \/ port[1] >= 2 ^ 16 THEN 0 ELSE port[1]>>

MetEntry(c) ==
    LET Add(e) == CASE ~e.ok -> e
                    [] e.out[1][2] = 0 -> [e EXCEPT !.out = c.out]
                    [] OTHER -> [e EXCEPT !.out = Append(c.out, MetServer(@[1], @[2]))]
    IN Add(TagList(Read([c EXCEPT !.out = <<>>], <<"endpoint">>)))

\* The first byte is a header, or already the count.
ParseServerMet(payload) ==
    LET Each(d, i) == MetEntry(d)
        Count(h) == ReadNumber(IF h.out[1] \in {14, 15, 224} THEN [h EXCEPT !.out = <<>>]
                                                             ELSE Cursor(payload), 4)
    IN Then(ReadNumber(Cursor(payload), 1), LAMBDA h : Then(Count(h), LAMBDA n :
         Result(Iterate(Each, [n EXCEPT !.out = <<>>], n.out[1]),
                Always, LAMBDA d : <<d.out>>)))

-----------------------------------------------------------------------------
\* A search result: <<entries, more>>, an entry <<hash, endpoint, name, size,
\* sources>>; the size above 32 bits has a tag of its own.
WriteSearchResult(m) ==
    U32(Len(m[1])) \o
    Concat([i \in DOMAIN m[1] |->
              LET e == m[1][i]
              IN e[1] \o PackEndpoint(e[2]) \o U32(4) \o StringTag(1, e[3])
                 \o UInt32Tag(2, e[4][1]) \o UInt32Tag(58, e[4][2])
                 \o UInt32Tag(21, e[5])])
    \o (IF m[2] THEN U8(1) ELSE <<>>)

\* applySearchTag and finishSearchResultEntry for the name, size and sources.
SearchEntry(tags) ==
    LET Of(id) == TagOf(tags, id, "uint", <<0, 0>>)
    IN <<TagOf(tags, 1, "string", <<>>), <<Of(2)[1], Of(2)[2] + Of(58)[1]>>, Of(21)[1]>>

ResultEntry(c) ==
    LET Endpoint(e) == IF LowId(e[1]) \/ e[2] = 0 THEN <<>> ELSE <<e>>
        Add(e) == IF e.ok THEN [e EXCEPT !.out = Append(c.out,
                                  <<@[1], Endpoint(@[2])>> \o SearchEntry(@[3]))]
                          ELSE e
    IN Add(TagList(Read([c EXCEPT !.out = <<>>], <<"hash", "endpoint">>)))

\* parseSearchResultPayload: one more byte says whether there are more results.
ParseSearchResult(payload) ==
    LET Each(d, i) == ResultEntry(d)
    IN Then(ReadNumber(Cursor(payload), 4), LAMBDA n :
         Result(Iterate(Each, [n EXCEPT !.out = <<>>], n.out[1]),
                LAMBDA d : Left(d) <= 1,
                LAMBDA d : <<d.out, Left(d) = 1 /\ d.data[d.at + 1] # 0>>))

-----------------------------------------------------------------------------
\* A query: <<keyword, type, least size, most size, least sources>>, the terms
\* after the keyword only where they are set.  createSearchRequestPayload.
AndTerm == <<0, 0>>

StringTerm(tag, s) == U8(2) \o U16(Len(s)) \o s \o U16(1) \o U8(tag)

\* appendSearchTaggedNumber: a number above 32 bits only to servers that read
\* 64-bit ones, else the largest of 32 bits (here of 31).
NumberTerm(tag, op, v, wide) ==
    (IF Large(v) /\ wide THEN U8(8) \o U64(v)
     ELSE U8(3) \o U32(IF Large(v) THEN 2 ^ 30 + (2 ^ 30 - 1) ELSE v[1]))
    \o U8(op) \o U16(1) \o U8(tag)

SearchTerms(m, wide) ==
    <<U8(1) \o U16(Len(m[1])) \o m[1]>>
    \o (IF m[2] = <<>> THEN <<>> ELSE <<StringTerm(3, m[2])>>)
    \o (IF m[3] = <<0, 0>> THEN <<>> ELSE <<NumberTerm(2, 1, m[3], wide)>>)
    \o (IF m[4] = <<0, 0>> THEN <<>> ELSE <<NumberTerm(2, 2, m[4], wide)>>)
    \o (IF m[5] = 0 THEN <<>> ELSE <<NumberTerm(21, 1, <<m[5], 0>>, wide)>>)

\* The conjunction in prefix form: an AND before every term but the last.
CreateSearch(m, wide) ==
    LET terms == SearchTerms(m, wide)
    IN Concat([i \in DOMAIN terms |->
                 (IF i < Len(terms) THEN AndTerm ELSE <<>>) \o terms[i]])

\* How a server reads the expression: the operands that are still due and the
\* terms read, <<kind, text or number, tag, operator>>.
TermLayout(kind) ==
    CASE kind = 1 -> <<"string">>
      [] kind = 2 -> <<"string", "u16", "u8">>
      [] kind = 3 -> <<"u32", "u8", "u16", "u8">>
      [] kind = 8 -> <<"u64", "u8", "u16", "u8">>

SearchOperand(c) ==
    LET And(k) == [ReadNumber(k, 1) EXCEPT !.out = <<c.out[1] + 1, c.out[2]>>]
        Term(t) == [t EXCEPT !.out = <<c.out[1] - 1, Append(c.out[2], @)>>]
        Operand(k) == CASE ~k.ok -> k
                        [] LastValue(k) = 0 -> And(k)
                        [] LastValue(k) \in {1, 2, 3, 8} ->
                             Term(Read([k EXCEPT !.out = <<>>], TermLayout(LastValue(k))))
                        [] OTHER -> [k EXCEPT !.ok = FALSE]
    IN Operand(ReadNumber(c, 1))

\* The number of terms, when the expression ends with the payload.
ReadSearch(payload) ==
    LET Each(d, i) == IF d.out[1] > 0 THEN SearchOperand(d) ELSE d
    IN Result(Iterate(Each, [Cursor(payload) EXCEPT !.out = <<1, <<>>>>], Len(payload)),
              LAMBDA d : AtEnd(d) /\ d.out[1] = 0, LAMBDA d : d.out[2])

TermsOf(m, wide) ==
    LET Number(v) == IF wide /\ Large(v) THEN v
                     ELSE IF Large(v) THEN 2 ^ 30 + (2 ^ 30 - 1) ELSE v[1]
    IN <<<<m[1]>>>>
       \o (IF m[2] = <<>> THEN <<>> ELSE <<<<m[2], 1, 3>>>>)
       \o (IF m[3] = <<0, 0>> THEN <<>> ELSE <<<<Number(m[3]), 1, 1, 2>>>>)
       \o (IF m[4] = <<0, 0>> THEN <<>> ELSE <<<<Number(m[4]), 2, 1, 2>>>>)
       \o (IF m[5] = 0 THEN <<>> ELSE <<<<m[5], 1, 1, 21>>>>)

-----------------------------------------------------------------------------
\* The stored state of a server: <<endpoint of a named host, name, connected,
\* identifier, high id, address, obfuscation port, failures, next retry,
\* message>>; the other numbers are written as they are.
StateMagic == <<65, 50>>
StateVersion == 4
Flag(b) == IF b THEN U8(1) ELSE U8(0)
Text(s) == U16(Len(s)) \o s

CreateServerState(m) ==
    StateMagic \o U32(StateVersion) \o Text(m[1][1]) \o U16(m[1][2])
    \o Text(m[2]) \o Text(<<>>) \o Flag(m[3]) \o Flag(FALSE)
    \o U32(m[4]) \o Flag(m[5]) \o Text(m[6])
    \o Concat([i \in 1..8 |-> U32(i)])
    \o U16(0) \o U16(m[7]) \o U32(0) \o U32(0)
    \o U64(<<0, 0>>) \o U64(<<0, 0>>) \o U64(<<0, 0>>) \o U32(0) \o U64(<<0, 0>>)
    \o U32(m[8]) \o U64(<<0, 0>>) \o U64(m[9]) \o Text(m[10])

StateLayout(version) ==
    LET Since(v, kinds) == IF version >= v THEN kinds ELSE <<>>
    IN <<"string", "u16">> \o Since(3, <<"string", "string">>)
       \o <<"u8", "u8", "u32", "u8", "string">> \o [i \in 1..8 |-> "u32"]
       \o <<"u16", "u16", "u32", "u32", "u64">> \o Since(2, <<"u64">>)
       \o Since(4, <<"u64", "u32", "u64">>) \o <<"u32", "u64", "u64", "string">>

\* The fields that are kept, after the name and the description.
StateOf(o, name, rest) ==
    <<<<o[1], o[2]>>, name, rest[1] # 0, rest[3], rest[4] # 0, rest[5], rest[15],
      o[Len(o) - 3], o[Len(o) - 1], o[Len(o)]>>

\* parseServerStatePayload.  A state of version 1 or 2 has no name; version 3 is
\* not read.
ParseServerState(payload) ==
    Then(Read(ReadBytes(Cursor(payload), 2), <<"u32">>), LAMBDA h :
      IF h.out[1] # StateMagic \/ h.out[2] \notin {1, 2, StateVersion} THEN Rejected
      ELSE Result(Read([h EXCEPT !.out = <<>>], StateLayout(h.out[2])), AtEnd, LAMBDA c :
             IF h.out[2] >= 3 THEN StateOf(c.out, c.out[3], SubSeq(c.out, 5, Len(c.out)))
                              ELSE StateOf(c.out, <<>>, SubSeq(c.out, 3, Len(c.out)))))
=============================================================================

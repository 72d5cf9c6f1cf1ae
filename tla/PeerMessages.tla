---------------------------- MODULE PeerMessages ----------------------------
(***************************************************************************)
(* The messages that eDonkey clients exchange (ed2k/PeerProtocol.cc, the   *)
(* part requests of ed2k/SharedFile.cc, the multipacket answer of          *)
(* ed2k/Client.cc).  A message is the tuple of its fields.  For each kind  *)
(* there is what the client writes (Create...) and what it makes of the    *)
(* bytes it reads (Parse...): a message, or Rejected.                      *)
(***************************************************************************)
EXTENDS Ed2kWire

ExchangeVersion == 4    \* SOURCE_EXCHANGE2_VERSION
MaxEntries == 500       \* the entries of one source exchange answer

REQUESTFILENAME == 88
REQFILENAMEANSWER == 89
SETREQFILEID == 79
FILESTATUS == 80
REQUESTSOURCES2 == 131
AICHFILEHASHREQ == 158
AICHFILEHASHANS == 157

AichLength == 20

-----------------------------------------------------------------------------
\* <<hash, the parts the client has>>.
CreateFileStatus(m) == m[1] \o PackBits(m[2], LowFirst)

\* parseFileStatusPayload.
ParseFileStatus(payload) == Filled(Read(Cursor(payload), <<"hash", "bits">>))

\* <<hash, the part hashes>>.  The reader takes what the count announces and
\* leaves what follows.
CreateHashSet(m) == m[1] \o U16(Len(m[2])) \o Concat(m[2])

ParseHashSet(payload) ==
    Result(Counted(Read(Cursor(payload), <<"hash", "u16">>), <<"hash">>),
           Always, LAMBDA c : <<c.out[1], Firsts(c.out[2])>>)

-----------------------------------------------------------------------------
\* <<hash, up to three ranges <<begin, end>> of 64-bit offsets, wide>>: three
\* begins, then three ends, 64-bit offsets only where the file needs them.
CreateRequestParts(m) ==
    LET Word(v) == IF m[3] THEN U64(v) ELSE U32(v[1])
        At(i, k) == IF i <= Len(m[2]) THEN m[2][i][k] ELSE <<0, 0>>
    IN m[1] \o Concat([i \in 1..3 |-> Word(At(i, 1))])
            \o Concat([i \in 1..3 |-> Word(At(i, 2))])

Before(a, b) == a[2] < b[2] \/ (a[2] = b[2] /\ a[1] < b[1])

\* The ranges that are not empty of the six offsets read after the hash.
PartRanges(c, wide) ==
    LET At(i) == IF wide THEN c.out[i + 1] ELSE <<c.out[i + 1], 0>>
    IN SelectSeq([i \in 1..3 |-> <<At(i), At(i + 3)>>],
                 LAMBDA r : r # <<<<0, 0>>, <<0, 0>>>>)

ParsePartRequest(payload, wide) ==
    Result(Read(Cursor(payload), <<"hash">> \o [i \in 1..6 |-> IF wide THEN "u64" ELSE "u32"]),
           LAMBDA c : AtEnd(c) /\ \A r \in ToSet(PartRanges(c, wide)) : Before(r[1], r[2]),
           LAMBDA c : <<c.out[1], PartRanges(c, wide), wide>>)

-----------------------------------------------------------------------------
\* <<rank>>: written as 32 bits, read as 16 or 32.
CreateQueueRank(m) == U32(m[1])

ParseQueueRank(payload) ==
    IF Len(payload) \notin {2, 4} THEN Rejected
    ELSE Result(ReadNumber(Cursor(payload), Len(payload)),
                LAMBDA c : c.out[1] < 2 ^ 16, Values)

\* <<hash, version>>: the request for sources; the old form is the hash alone.
CreateRequestSources2(m) == U8(ExchangeVersion) \o U16(0) \o m[1]

ParseRequestSources2(payload) ==
    IF Len(payload) = HashLength THEN Accepted(<<payload, 1>>)
    ELSE Result(Read(Cursor(payload), <<"u8", "u16", "hash">>),
                LAMBDA c : AtEnd(c) /\ c.out[1] \in 1..ExchangeVersion,
                LAMBDA c : <<c.out[3], c.out[1]>>)

\* <<hash, version, entries>>, an entry <<endpoint, server, user hash, options>>.
\* The fields a version lacks are read as empty.
Answer(m) ==
    U16(Len(m[3])) \o
    Concat([i \in DOMAIN m[3] |->
              LET e == m[3][i]
              IN PackEndpoint(e[1]) \o PackEndpoint(e[2])
                 \o (IF m[2] >= 2 THEN e[3] ELSE <<>>)
                 \o (IF m[2] >= 4 THEN U8(e[4]) ELSE <<>>)])

CreateAnswerSources(m) == m[1] \o Answer(m)
CreateAnswerSources2(m) == U8(m[2]) \o m[1] \o Answer(m)

EntryLayout(version) ==
    <<"endpoint", "endpoint">> \o (IF version >= 2 THEN <<"hash">> ELSE <<>>)
                               \o (IF version >= 4 THEN <<"u8">> ELSE <<>>)

EntrySize(version) ==
    IF version = 1 THEN 12 ELSE IF version < 4 THEN 12 + HashLength ELSE 13 + HashLength

Entry(e, version) ==
    <<e[1], e[2], IF version >= 2 THEN e[3] ELSE <<>>, IF version >= 4 THEN e[4] ELSE 0>>

\* The count and the entries, which must fill the rest of the payload.
ParseEntries(c, hash, version) ==
    LET All(entries) == [i \in DOMAIN entries |-> Entry(entries[i], version)]
    IN Then(ReadNumber(c, 2), LAMBDA n :
         IF \/ version \notin 1..ExchangeVersion \/ LastValue(n) > MaxEntries
            \/ Left(n) # EntrySize(version) * LastValue(n)
         THEN Rejected
         ELSE Result(Counted(n, EntryLayout(version)),
                     Always, LAMBDA d : <<hash, version, All(LastValue(d))>>))

ParseAnswerSources(payload, version) ==
    Then(Read(Cursor(payload), <<"hash">>), LAMBDA c : ParseEntries(c, c.out[1], version))

ParseAnswerSources2(payload) ==
    Then(Read(Cursor(payload), <<"u8", "hash">>), LAMBDA c : ParseEntries(c, c.out[2], c.out[1]))

-----------------------------------------------------------------------------
\* <<hash, file size, our parts>>: several requests in one packet, to a peer
\* that announced what createLocalEmulePeerInfo does.
CreateMultipacket(m) ==
    m[1] \o U64(m[2]) \o U8(REQUESTFILENAME) \o PackBits(m[3], LowFirst) \o U16(0)
         \o (IF Len(m[3]) > 1 THEN U8(SETREQFILEID) ELSE <<>>)
         \o U8(REQUESTSOURCES2) \o U8(ExchangeVersion) \o U16(0)
         \o U8(AICHFILEHASHREQ)

\* Client::answerMultipacket: one request at a time; what is unknown ends it.
\* The answers it gives: the name, the parts, the sources.
Asks(c) ==
    LET op == LastValue(c)
        rest == [c EXCEPT !.out = Front(@)]
        Skip(kinds) == [Read(rest, kinds) EXCEPT !.out = rest.out]
        Says(d, answer) == IF d.ok THEN [d EXCEPT !.out[1] = @ \cup {answer}] ELSE d
    IN CASE op = REQUESTFILENAME -> Says(Skip(<<"bits", "u16">>), "name")
         [] op = SETREQFILEID -> Says(rest, "parts")
         [] op = REQUESTSOURCES2 -> Says(Skip(<<"u8", "u16">>), "sources")
         [] op = AICHFILEHASHREQ -> rest
         [] OTHER -> [rest EXCEPT !.at = Len(rest.data)]

\* As many requests as bytes are left at most.
Requests(c) ==
    LET Each(d, i) == IF AtEnd(d) THEN d ELSE Asks(ReadNumber(d, 1))
    IN Iterate(Each, c, Left(c))

ParseMultipacket(payload) ==
    Then(Read(Cursor(payload), <<"hash", "u64">>), LAMBDA c :
      Result(Requests([c EXCEPT !.out = <<{}>>]), Always, LAMBDA d : <<c.out[1], d.out[1]>>))

\* <<hash, name, parts>>: what answerMultipacket sends back.
CreateMultipacketAnswer(m) ==
    m[1] \o U8(REQFILENAMEANSWER) \o U16(Len(m[2])) \o m[2]
         \o U8(FILESTATUS) \o PackBits(m[3], LowFirst)

\* parseMultipacketAnswerPayload; an unknown answer rejects the packet.
AnswerItem(c) ==
    LET op == LastValue(c)
        rest == [c EXCEPT !.out = Front(@)]
        Into(d, k) ==
          IF d.ok THEN [d EXCEPT !.out = [rest.out EXCEPT ![k] = LastValue(d)]] ELSE d
    IN CASE op = REQFILENAMEANSWER -> Into(Read(rest, <<"string">>), 1)
         [] op = FILESTATUS -> Into(Read(rest, <<"bits">>), 2)
         [] op = AICHFILEHASHANS -> [ReadBytes(rest, AichLength) EXCEPT !.out = rest.out]
         [] OTHER -> [rest EXCEPT !.ok = FALSE]

ParseMultipacketAnswer(payload) ==
    LET Each(d, i) == IF AtEnd(d) THEN d ELSE AnswerItem(ReadNumber(d, 1))
    IN Then(Read(Cursor(payload), <<"hash">>), LAMBDA c :
         Result(Iterate(Each, [c EXCEPT !.out = <<<<>>, <<>>>>], Left(c)),
                Always, LAMBDA d : <<c.out[1], d.out[1], d.out[2]>>))

-----------------------------------------------------------------------------
\* emuleMiscOptions2Value and its inverse: the flags by their bit.  Asking for
\* the crypt layer needs its support, requiring it needs asking for it.
Options2Bits == [large |-> 4, extended |-> 5, supports |-> 7, requests |-> 8,
                 requires |-> 9, exchange2 |-> 10, callback |-> 12]

Options2Value(kad, flags) == (kad % 16) + SumSet({2 ^ Options2Bits[f] : f \in flags})

ParseOptions2(value) ==
    LET set == {f \in DOMAIN Options2Bits : (value \div 2 ^ Options2Bits[f]) % 2 = 1}
        requests == IF "supports" \in set THEN {} ELSE {"requests"}
        requires == IF "requests" \in set \ requests THEN {} ELSE {"requires"}
    IN <<value % 16, (set \ requests) \ requires>>

\* <<version, protocol, compression, udp port, udp version, source exchange,
\*   extended requests, secure ident>>: createEmuleInfoPayload.
CreateEmuleInfo(m) ==
    U8(m[1]) \o U8(m[2]) \o U32(9)
    \o UInt32Tag(32, m[3]) \o UInt32Tag(33, m[4]) \o UInt32Tag(34, m[5])
    \o UInt32Tag(35, m[6]) \o UInt32Tag(36, 0) \o UInt32Tag(37, m[7])
    \o UInt32Tag(38, 3) \o UInt32Tag(39, m[8] % 4) \o StringTag(85, <<97, 114>>)

ParseEmuleInfo(payload) ==
    LET Of(tags, id) == TagOf(tags, id, "uint", <<0, 0>>)[1]
        Info(o) == <<o[1], o[2], Of(o[3], 32) % 256, Of(o[3], 33) % 65536, Of(o[3], 34) % 256,
                     Of(o[3], 35) % 256, Of(o[3], 37) % 256, Of(o[3], 39) % 4>>
    IN Result(TagList(Read(Cursor(payload), <<"u8", "u8">>)), AtEnd, LAMBDA c : Info(c.out))

\* <<hash, id, port, server, name, udp port, options 1, kad, options 2>>:
\* createPeerHelloPayload; the first options word is opaque.
CreatePeerHello(m, hello) ==
    (IF hello THEN U8(HashLength) ELSE <<>>)
    \o m[1] \o U32(m[2]) \o U16(m[3]) \o U32(7)
    \o StringTag(1, m[5]) \o UInt32Tag(17, 60)
    \o TagHeader(3, 249) \o U16(m[6]) \o U16(m[6])
    \o UInt32Tag(251, 3 * 2 ^ 24 + 3 * 2 ^ 17)
    \o UInt32Tag(250, m[7]) \o UInt32Tag(254, Options2Value(m[8], m[9]))
    \o UInt32Tag(239, 1)
    \o PackEndpoint(m[4])

\* parsePeerHelloPayload: the tags lie between the fixed head and the server,
\* which is the last six bytes.  The identifier, the port, the name and the
\* server are not used.
PeerHello(hash, tags) ==
    LET Of(id) == TagOf(tags, id, "uint", <<0, 0>>)[1]
    IN <<hash, Of(249) % 65536, Of(250)>> \o ParseOptions2(Of(254))

ParsePeerHello(payload, hello) ==
    LET head == (IF hello THEN <<"u8">> ELSE <<>>) \o <<"hash", "u32", "u16">>
        fixed == Read(Cursor(SubSeq(payload, 1, Len(payload) - 6)), head)
    IN IF Len(payload) < 6 THEN Rejected
       ELSE Then(fixed, LAMBDA c :
              Result(TagList([c EXCEPT !.out = <<@[Len(@) - 2]>>]),
                     AtEnd, LAMBDA d : PeerHello(d.out[1], d.out[2])))

-----------------------------------------------------------------------------
\* <<hash, parts, complete sources, with parts>>: the UDP question for the
\* place in a queue; clients of an older UDP version leave the parts out.
CreateReaskPing(m) ==
    IF m[4] THEN m[1] \o PackBits(m[2], LowFirst) \o U16(m[3]) ELSE m[1] \o U16(m[3])

\* The count of complete sources, when there is one.
WithSources(c, parts, withParts) ==
    IF Left(c) \notin {0, 2} THEN Rejected
    ELSE Accepted(<<c.out[1], parts, IF AtEnd(c) THEN 0 ELSE LastValue(ReadNumber(c, 2)), withParts>>)

ParseReaskPing(payload) ==
    Then(Read(Cursor(payload), <<"hash">>), LAMBDA c :
      IF Left(c) \in {0, 2} THEN WithSources(c, <<>>, FALSE)
      ELSE Then(ReadBits(c, LowFirst), LAMBDA d : WithSources(d, d.out[2], TRUE)))

\* <<parts, rank, with parts>>: the answer, its bits from the highest.
CreateReaskAck(m) ==
    IF m[3] THEN PackBits(m[1], HighFirst) \o U16(m[2]) ELSE U16(m[2])

ParseReaskAck(payload) ==
    IF Len(payload) = 2 THEN Accepted(<<<<>>, UnpackBytes(payload), FALSE>>)
    ELSE Result(Read(Cursor(payload), <<"highbits", "u16">>),
                AtEnd, LAMBDA c : <<c.out[1], c.out[2], TRUE>>)
=============================================================================

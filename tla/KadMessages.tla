----------------------------- MODULE KadMessages -----------------------------
(***************************************************************************)
(* The Kad datagrams (ed2k/KadProtocol.cc, ed2k/KadSearch.cc), the index   *)
(* of published sources (KadSourceIndex of ed2k/KadRouting.cc, the handlers *)
(* of ed2k/Kad.cc that fill and read it) and the stored routing state.     *)
(***************************************************************************)
EXTENDS Ed2kWire

KAD == 228              \* KAD_PROTOCOL
KADPACKED == 229        \* KAD_PACKED_PROTOCOL
Plain == {227, 228, 229, 212, 197}    \* the protocols of plain datagrams

\* ed2kHashToKadId and kadIdToEd2kHash: every four bytes are reversed.
KadId(hash) ==
    [i \in 1..Len(hash) |-> hash[4 * ((i - 1) \div 4) + 4 - ((i - 1) % 4)]]

-----------------------------------------------------------------------------
\* A contact <<id, host, udp port, tcp port, version>>: packKadContact.
PackContact(c) == c[1] \o KadIp(c[2]) \o U16(c[3]) \o U16(c[4]) \o U8(c[5])
ContactLayout == <<"hash", "kadip", "u16", "u16", "u8">>

ContactSize == HashLength + 9
PackContacts(cs) == Concat([i \in DOMAIN cs |-> PackContact(cs[i])])

\* <<id, tcp port, version, asks for an acknowledgement, tcp firewalled, udp
\* firewalled>>.
HelloOptions(m) ==
    (IF m[4] THEN 4 ELSE 0) + (IF m[5] THEN 2 ELSE 0) + (IF m[6] THEN 1 ELSE 0)

CreateKadHello(m) ==
    m[1] \o U16(m[2]) \o U8(m[3])
    \o (IF HelloOptions(m) = 0 THEN U8(0)
                               ELSE U8(1) \o UInt32Tag(242, HelloOptions(m)))

ParseKadHello(payload) ==
    LET Bit(tags, b) == (TagOf(tags, 242, "uint", <<0, 0>>)[1] \div b) % 2 = 1
    IN Result(Counted(Read(Cursor(payload), <<"hash", "u16", "u8", "u8">>), <<"tag">>), AtEnd,
              LAMBDA c : SubSeq(c.out, 1, 3)
                         \o <<Bit(c.out[4], 4), Bit(c.out[4], 2), Bit(c.out[4], 1)>>)

\* <<id>>: createKadHelloAckPayload.
CreateHelloAck(m) == m[1] \o U8(0)
ParseHelloAck(payload) ==
    Result(Read(Cursor(payload), <<"hash", "u8">>),
           LAMBDA c : c.out[2] = 0, LAMBDA c : <<c.out[1]>>)

\* The contacts, as many as the count before them says, fill the rest.
WithContacts(h) ==
    IF Left(h) = LastValue(h) * ContactSize
    THEN Result(Counted(h, ContactLayout), Always, Values) ELSE Rejected

\* <<id, tcp port, version, contacts>>.
CreateBootstrap(m) ==
    m[1] \o U16(m[2]) \o U8(m[3]) \o U16(Len(m[4])) \o PackContacts(m[4])
ParseBootstrap(payload) ==
    Then(Read(Cursor(payload), <<"hash", "u16", "u8", "u16">>), WithContacts)

\* <<type, target, receiver>>, <<target, contacts>>.
CreateKadRequest(m) == U8(m[1]) \o m[2] \o m[3]
ParseKadRequest(payload) == Filled(Read(Cursor(payload), <<"u8", "hash", "hash">>))

CreateKadResponse(m) == m[1] \o U8(Len(m[2])) \o PackContacts(m[2])
ParseKadResponse(payload) == Then(Read(Cursor(payload), <<"hash", "u8">>), WithContacts)

\* <<file, count>>, and the answers and requests of the firewall check and of
\* callbacks: fixed layouts.
CreatePublishResult(m) == m[1] \o U8(m[2])
ParsePublishResult(payload) == Filled(Read(Cursor(payload), <<"hash", "u8">>))

\* <<tcp port, id, options>>.
CreateFirewalled(m) == U16(m[1]) \o m[2] \o U8(m[3])
ParseFirewalled(payload) == Filled(Read(Cursor(payload), <<"u16", "hash", "u8">>))

\* <<address>>.
CreateFirewalledAnswer(m) == KadIp(m[1])
ParseFirewalledAnswer(payload) == Filled(Read(Cursor(payload), <<"kadip">>))

\* <<error, tcp port>>.
CreateFirewalledUdp(m) == U8(m[1]) \o U16(m[2])
ParseFirewalledUdp(payload) == Filled(Read(Cursor(payload), <<"u8", "u16">>))

\* <<buddy, file, tcp port>>.
CreateKadCallback(m) == m[1] \o m[2] \o U16(m[3])
ParseKadCallback(payload) == Filled(Read(Cursor(payload), <<"hash", "hash", "u16">>))

\* <<buddy, file, endpoint>>: an endpoint without a port is refused.
CreateBuddyCallback(m) == m[1] \o m[2] \o PackEndpoint(m[3])
ParseBuddyCallback(payload) ==
    Result(Read(Cursor(payload), <<"hash", "hash", "endpoint">>),
           LAMBDA c : AtEnd(c) /\ c.out[3][2] # 0, Values)

-----------------------------------------------------------------------------
\* <<target, first position, size>>: createKadSearchSourcesRequestPayload.
CreateSearchSources(m) == m[1] \o U16(m[2]) \o U64(m[3])
ParseSearchSources(payload) == Filled(Read(Cursor(payload), <<"hash", "u16", "u64">>))

\* An entry <<id, tags>> of [id, type, value]: packKadSearchEntry writes strings
\* and numbers, a number above 32 bits as one of 64.
PackTag(t) ==
    IF t.type = "string" THEN StringTag(t.id, t.value)
    ELSE IF Large(t.value) THEN UInt64Tag(t.id, t.value) ELSE UInt32Tag(t.id, t.value[1])

PackEntry(e) == e[1] \o U8(Len(e[2])) \o Concat([i \in DOMAIN e[2] |-> PackTag(e[2][i])])

\* readKadSearchEntry.
EntryOf(c) ==
    LET Add(e) == IF e.ok THEN [e EXCEPT !.out = Append(c.out, <<@[1], Firsts(@[2])>>)] ELSE e
    IN Add(Counted(Read([c EXCEPT !.out = <<>>], <<"hash", "u8">>), <<"tag">>))

\* <<source, target, entries>>.
CreateSearchResult(m) ==
    m[1] \o m[2] \o U16(Len(m[3])) \o Concat([i \in DOMAIN m[3] |-> PackEntry(m[3][i])])

ParseKadSearchResult(payload) ==
    LET Each(d, i) == EntryOf(d)
    IN Then(Read(Cursor(payload), <<"hash", "hash", "u16">>), LAMBDA h :
         Result(Iterate(Each, [h EXCEPT !.out = <<>>], h.out[3]),
                AtEnd, LAMBDA c : <<h.out[1], h.out[2], c.out>>))

-----------------------------------------------------------------------------
\* The value of the last tag of the name, by type, of an entry's tags.
Tagged(tags, id, type, default) ==
    LET at == {i \in DOMAIN tags : tags[i].id = id /\ tags[i].type = type}
    IN IF at = {} THEN default ELSE tags[Max(at)].value

UIntTag(id, v) == [id |-> id, type |-> "uint", value |-> v]

\* createKadPublishSourceRequestPayload of <<file, user hash, tcp port, udp
\* port, options, size>>: the publisher does not name its own address.
CreatePublishSource(m) ==
    LET When(cond, tag) == IF cond THEN <<tag>> ELSE <<>>
    IN m[1] \o PackEntry(<<KadId(m[2]),
         <<UIntTag(255, <<IF Large(m[6]) THEN 4 ELSE 1, 0>>), UIntTag(253, <<m[3], 0>>)>>
         \o When(m[4] # 0, UIntTag(252, <<m[4], 0>>))
         \o When(m[5] # 0, UIntTag(243, <<m[5], 0>>))
         \o When(m[6] # <<0, 0>>, UIntTag(211, m[6]))>>)

\* parseKadPublishSourceRequestPayload: <<file, entry>>.
ParsePublishSource(payload) == Filled(EntryOf(Read(Cursor(payload), <<"hash">>)))

\* The handler of a publish: the source's address is the one the datagram came
\* from, whatever the entry says; the number is in the order Kad writes.
Addressed(entry, from) ==
    <<entry[1], <<UIntTag(254, <<UnpackBytes(KadIp(from)), 0>>)>>
                \o SelectSeq(entry[2], LAMBDA t : t.id # 254)>>

\* extractKadSourceEndpoint: <<endpoint, user hash, options, udp port, type>>.
SourceTypes == {0, 1, 3, 4, 5, 6}

ExtractSource(entry) ==
    LET Of(id) == Tagged(entry[2], id, "uint", <<-1, 0>>)
        Or0(v) == IF v[1] < 0 THEN 0 ELSE v[1]
        port == Or0(Of(253)) % 65536
        type == Or0(Of(255))
    IN IF Of(254)[1] < 0 \/ port = 0 \/ type \notin SourceTypes THEN Rejected
       ELSE Accepted(<<<<Reverse(U32(Of(254)[1])), port>>, KadId(entry[1]),
                       Or0(Of(243)) % 65536, Or0(Of(252)) % 65536, type>>)

\* KadSourceIndex::store for one file: the entry of the same publisher or of
\* the same endpoint is replaced.
Direct == {0, 1, 4}     \* isDirectKadTcpSourceType

SameSource(a, b) ==
    \/ a[1] = b[1]
    \/ LET x == ExtractSource(a)
           y == ExtractSource(b)
       IN x.ok /\ y.ok /\ x.out[5] \in Direct /\ y.out[5] \in Direct
          /\ x.out[1] = y.out[1]

StoreSource(index, entry) ==
    LET same == {i \in DOMAIN index : SameSource(index[i], entry)}
    IN IF same = {} THEN Append(index, entry) ELSE [index EXCEPT ![Min(same)] = entry]

-----------------------------------------------------------------------------
\* kadSearchEntriesToSearchResults and Kad::searchResult for keywords: <<hash,
\* name, size, the hash that the link of the result names>>.  The link is
\* finished before the hash is converted.
KeywordResult(entry) ==
    LET Of(id) == Tagged(entry[2], id, "uint", <<0, 0>>)
        name == Tagged(entry[2], 1, "string", <<>>)
    IN IF name = <<>> THEN Rejected
       ELSE Accepted(<<KadId(entry[1]), name,
                       <<Of(2)[1], Of(2)[2] + Of(58)[1]>>, entry[1]>>)

-----------------------------------------------------------------------------
\* Obfuscation.  md5Digest over a key and the random part stands for a number,
\* RC4 for a shift by it: what a key hides only the same key shows.
Digest(key, random) == 1 + ((UnpackBytes(SubSeq(key, 1, 2)) + 7 * random) % 251)
Encrypt(key, s) == [i \in DOMAIN s |-> (s[i] + key) % 256]
Decrypt(key, s) == [i \in DOMAIN s |-> (s[i] + 256 - key) % 256]

Sync == <<193, 46, 95, 57>>     \* KAD_UDP_SYNC_CLIENT

\* The three forms of createKadObfuscatedDatagram: keyed by the receiver's id,
\* or by the verify key it gave us.
Marker(byVerifyKey) == IF byVerifyKey THEN 10 ELSE 8

CreateObfuscated(datagram, key, random, byVerifyKey, receiverKey, senderKey) ==
    U8(Marker(byVerifyKey)) \o U16(random)
    \o Encrypt(Digest(key, random),
               Sync \o U8(0) \o receiverKey \o senderKey \o datagram)

\* possibleKadObfuscatedDatagram and the marker bits of the two forms.
Possible(datagram) ==
    Len(datagram) > 16 /\ datagram[1] \notin Plain /\ datagram[1] % 2 = 0

\* parseKadObfuscatedDatagram, tried as Kad::obfuscated does: the marker says
\* which key.  <<receiver key, sender key, datagram>>.
ParseObfuscated(datagram, selfId, verifyKey) ==
    LET key == IF datagram[1] % 4 = 2 THEN verifyKey ELSE selfId
        random == UnpackBytes(SubSeq(datagram, 2, 3))
        Inner(plain) ==
          IF Len(plain) <= 13 \/ SubSeq(plain, 1, 4) # Sync THEN Rejected
          ELSE Result(Read([Cursor(plain) EXCEPT !.at = 5 + plain[5]], <<"ip", "ip">>),
                      LAMBDA c : Left(c) >= 2 /\ plain[c.at + 1] \in {KAD, KADPACKED},
                      LAMBDA c : Append(c.out, SubSeq(plain, c.at + 1, Len(plain))))
    IN IF ~Possible(datagram) THEN Rejected
       ELSE Inner(Decrypt(Digest(key, random), SubSeq(datagram, 4, Len(datagram))))

-----------------------------------------------------------------------------
\* The routing state: <<self, firewalled, addresses, routers, contacts, buckets>>
\* with routers <<host, port>>, contacts <<id, host, udp, tcp, version, key>>
\* and buckets <<last active, live, replacements>> of nodes <<id, host, udp,
\* tcp, version, confirmed, seed, failures, first seen, last seen>>.
RoutingMagic == <<75, 65>>
RoutingVersion == 6
Put(s) == U16(Len(s)) \o s
Bool(b) == IF b THEN U8(1) ELSE U8(0)
List(s, Pack(_)) == Concat([i \in DOMAIN s |-> Pack(s[i])])

PackNode(x) ==
    x[1] \o Put(x[2]) \o U16(x[3]) \o U16(x[4]) \o U8(x[5]) \o Bool(x[6]) \o Bool(x[7])
         \o U32(x[8]) \o U64(x[9]) \o U64(x[10])

PackNodes(s) == U32(Len(s)) \o List(s, PackNode)

CreateRoutingState(m) ==
    RoutingMagic \o U32(RoutingVersion) \o m[1] \o Concat([i \in 1..6 |-> U64(<<i, 0>>)])
    \o U32(0) \o U32(1) \o Bool(m[2])
    \o U16(Len(m[3])) \o List(m[3], Put)
    \o U16(Len(m[4])) \o List(m[4], LAMBDA e : Put(e[1]) \o U16(e[2]))
    \o U16(Len(m[5])) \o List(m[5], LAMBDA x : x[1] \o Put(x[2]) \o U16(x[3])
                                                 \o U16(x[4]) \o U8(x[5]) \o U32(x[6]))
    \o U16(Len(m[6])) \o List(m[6], LAMBDA b : U64(b[1]) \o PackNodes(b[2]) \o PackNodes(b[3]))

NodeLayout == <<"hash", "string", "u16", "u16", "u8", "u8", "u8", "u32", "u64", "u64">>
NodeOf(x) == [x EXCEPT ![6] = @ # 0, ![7] = @ # 0]

ReadNodes(c) ==
    Decode(Counted(ReadNumber(c, 4), NodeLayout),
           LAMBDA nodes : [i \in DOMAIN nodes |-> NodeOf(nodes[i])])

ReadBuckets(c) ==
    LET Each(d, i) == Nested(ReadNodes(ReadNodes(ReadWide([d EXCEPT !.out = <<>>]))), d.out)
    IN IF c.ok THEN Nested(Iterate(Each, [c EXCEPT !.out = <<>>], LastValue(c)), Front(c.out))
               ELSE c

\* parseKadRoutingStatePayload, the version that is written.
ParseRoutingState(payload) ==
    LET Listed(c, kinds) == Counted(ReadNumber(c, 2), kinds)
        Rest(c) == ReadBuckets(ReadNumber(
                     Listed(Listed(Listed(c, <<"string">>), <<"string", "u16">>),
                            <<"hash", "string", "u16", "u16", "u8", "u32">>), 2))
    IN Then(Read(ReadBytes(Cursor(payload), 2),
                 <<"u32", "hash">> \o [i \in 1..6 |-> "u64"] \o <<"u32", "u32", "u8">>), LAMBDA h :
         IF h.out[1] # RoutingMagic \/ h.out[2] # RoutingVersion THEN Rejected
         ELSE Result(Rest([h EXCEPT !.out = <<@[3], @[12] # 0>>]),
                     AtEnd, LAMBDA b : [b.out EXCEPT ![3] = Firsts(@)]))

-----------------------------------------------------------------------------
\* A nodes.dat file: <<version, edition, entries>>, an entry <<contact,
\* verified>>; versions 2 and 3 keep whether a contact was verified, a
\* bootstrap edition does not.
HasVerified(version, edition) == version >= 2 /\ edition = 0

WriteNodesDat(m) ==
    (IF m[1] = 0 THEN <<>> ELSE U32(0) \o U32(m[1]) \o (IF m[1] >= 3 THEN U32(m[2]) ELSE <<>>))
    \o U32(Len(m[3]))
    \o List(m[3], LAMBDA e : PackContact(e[1]) \o
              (IF HasVerified(m[1], m[2]) THEN U64(<<0, 0>>) \o Bool(e[2]) ELSE <<>>))

\* validNodesDatContact.
ValidNode(c) == c[2] # <<0, 0, 0, 0>> /\ c[3] # 0 /\ c[5] > 1 /\ (c[3] # 53 \/ c[5] > 5)

\* The version, the edition and the count of a file that starts with a zero.
NodesHeader(v) ==
    CASE ~v.ok -> v
      [] v.out[2] \notin 1..3 -> [v EXCEPT !.out = <<@[2], 0, 0>>]
      [] v.out[2] = 3 -> Read([v EXCEPT !.out = Tail(@)], <<"u32", "u32">>)
      [] OTHER -> ReadNumber([v EXCEPT !.out = <<@[2], 0>>], 4)

\* parseNodesDat: the valid contacts, each verified when the file says so or
\* says so of none.
Nodes(n) ==
    LET verify == HasVerified(n.out[1], n.out[2])
        Contacts(good) ==
          LET any == \E i \in DOMAIN good : verify /\ good[i][7] # 0
          IN [i \in DOMAIN good |-> <<SubSeq(good[i], 1, 5), any => good[i][7] # 0>>]
    IN Result(Counted(n, ContactLayout \o (IF verify THEN <<"u64", "u8">> ELSE <<>>)),
              AtEnd, LAMBDA d : Contacts(SelectSeq(d.out[3], ValidNode)))

ParseNodesDat(payload) ==
    Then(ReadNumber(Cursor(payload), 4), LAMBDA h :
      IF h.out[1] # 0 THEN Nodes([h EXCEPT !.out = <<0, 0, @[1]>>])
                      ELSE Then(NodesHeader(ReadNumber(h, 4)), Nodes))
=============================================================================

------------------------------ MODULE Ed2kCodec ------------------------------
(***************************************************************************)
(* Every eDonkey and Kad message, written, sent and read: the peer that    *)
(* reads sees the whole payload, a part of it (a cut) or one with bytes    *)
(* after its end (a pad).  Next to them the index of published sources: a  *)
(* Kad node stores what other nodes publish and answers searches with it.  *)
(***************************************************************************)
EXTENDS PeerMessages, ServerMessages, KadMessages

CONSTANTS
    Messages,       \* the messages sent, by kind
    Publishers,     \* the user hashes that publish
    Addresses,      \* the addresses publishes come from
    Ports,          \* their TCP ports
    MaxPublishes,   \* bound: publishes of one behaviour
    SelfHash,       \* the hash of the node that answers
    Keywords        \* the entries a Kad node answers a keyword search with

VARIABLES
    wire,           \* the message on the way: [kind, message, data, fate]
    index,          \* KadSourceIndex: the entries of the file
    published,      \* what was published, oldest first: <<hash, endpoint>>
    results         \* the results of a keyword search

codecVars == <<wire, index, published, results>>

FileHash == SelfHash

-----------------------------------------------------------------------------
\* What the sender writes.
Written(kind, m) ==
    CASE kind = "file status"     -> CreateFileStatus(m)
      [] kind = "hash set"        -> CreateHashSet(m)
      [] kind = "request parts"   -> CreateRequestParts(m)
      [] kind = "queue rank"      -> CreateQueueRank(m)
      [] kind = "request sources" -> CreateRequestSources2(m)
      [] kind = "answer sources"  -> CreateAnswerSources(m)
      [] kind = "answer sources 2" -> CreateAnswerSources2(m)
      [] kind = "multipacket"     -> CreateMultipacket(m)
      [] kind = "multipacket answer" -> CreateMultipacketAnswer(m)
      [] kind = "emule info"      -> CreateEmuleInfo(m)
      [] kind = "hello"           -> CreatePeerHello(m, TRUE)
      [] kind = "hello answer"    -> CreatePeerHello(m, FALSE)
      [] kind = "reask ping"      -> CreateReaskPing(m)
      [] kind = "reask ack"       -> CreateReaskAck(m)
      [] kind = "get sources"     -> CreateGetSources(m)
      [] kind = "found sources"   -> WriteFoundSources(m, TRUE)
      [] kind = "found obfuscated" -> WriteFoundSources(m, FALSE)
      [] kind = "packed sources"  -> WritePackedSources(m)
      [] kind = "id change"       -> WriteIdChange(m)
      [] kind = "server list"     -> CreateServerList(m)
      [] kind = "server ident"    -> WriteServerIdent(m, SelfHash)
      [] kind = "server met"      -> WriteServerMet(m, U8(224))
      [] kind = "bare server met" -> WriteServerMet(m, <<>>)
      [] kind = "search result"   -> WriteSearchResult(m)
      [] kind = "search"          -> CreateSearch(m, FALSE)
      [] kind = "wide search"     -> CreateSearch(m, TRUE)
      [] kind = "server state"    -> CreateServerState(m)
      [] kind = "kad hello"       -> CreateKadHello(m)
      [] kind = "kad hello ack"   -> CreateHelloAck(m)
      [] kind = "kad bootstrap"   -> CreateBootstrap(m)
      [] kind = "kad request"     -> CreateKadRequest(m)
      [] kind = "kad response"    -> CreateKadResponse(m)
      [] kind = "kad published"   -> CreatePublishResult(m)
      [] kind = "kad firewalled"  -> CreateFirewalled(m)
      [] kind = "kad address"     -> CreateFirewalledAnswer(m)
      [] kind = "kad udp"         -> CreateFirewalledUdp(m)
      [] kind = "kad callback"    -> CreateKadCallback(m)
      [] kind = "buddy callback"  -> CreateBuddyCallback(m)
      [] kind = "kad search"      -> CreateSearchSources(m)
      [] kind = "kad result"      -> CreateSearchResult(m)
      [] kind = "routing state"   -> CreateRoutingState(m)
      [] kind = "nodes.dat"       -> WriteNodesDat(m)
      [] kind = "obfuscated"      -> CreateObfuscated(m[1], m[2], m[3], m[4], m[5], m[6])

\* What the reader makes of the bytes.
Parsed(kind, data, m) ==
    CASE kind = "file status"     -> ParseFileStatus(data)
      [] kind = "hash set"        -> ParseHashSet(data)
      [] kind = "request parts"   -> ParsePartRequest(data, m[3])
      [] kind = "queue rank"      -> ParseQueueRank(data)
      [] kind = "request sources" -> ParseRequestSources2(data)
      [] kind = "answer sources"  -> ParseAnswerSources(data, m[2])
      [] kind = "answer sources 2" -> ParseAnswerSources2(data)
      [] kind = "multipacket"     -> ParseMultipacket(data)
      [] kind = "multipacket answer" -> ParseMultipacketAnswer(data)
      [] kind = "emule info"      -> ParseEmuleInfo(data)
      [] kind = "hello"           -> ParsePeerHello(data, TRUE)
      [] kind = "hello answer"    -> ParsePeerHello(data, FALSE)
      [] kind = "reask ping"      -> ParseReaskPing(data)
      [] kind = "reask ack"       -> ParseReaskAck(data)
      [] kind = "get sources"     -> ReadGetSources(data)
      [] kind = "found sources"   -> ParseFoundSources(data, m[1], TRUE)
      [] kind = "found obfuscated" -> ParseFoundSources(data, m[1], FALSE)
      [] kind = "packed sources"  -> ParsePackedSources(data, m[1])
      [] kind = "id change"       -> ParseIdChange(data)
      [] kind = "server list"     -> ParseServerList(data)
      [] kind = "server ident"    -> ParseServerIdent(data)
      [] kind \in {"server met", "bare server met"} -> ParseServerMet(data)
      [] kind = "search result"   -> ParseSearchResult(data)
      [] kind \in {"search", "wide search"} -> ReadSearch(data)
      [] kind = "server state"    -> ParseServerState(data)
      [] kind = "kad hello"       -> ParseKadHello(data)
      [] kind = "kad hello ack"   -> ParseHelloAck(data)
      [] kind = "kad bootstrap"   -> ParseBootstrap(data)
      [] kind = "kad request"     -> ParseKadRequest(data)
      [] kind = "kad response"    -> ParseKadResponse(data)
      [] kind = "kad published"   -> ParsePublishResult(data)
      [] kind = "kad firewalled"  -> ParseFirewalled(data)
      [] kind = "kad address"     -> ParseFirewalledAnswer(data)
      [] kind = "kad udp"         -> ParseFirewalledUdp(data)
      [] kind = "kad callback"    -> ParseKadCallback(data)
      [] kind = "buddy callback"  -> ParseBuddyCallback(data)
      [] kind = "kad search"      -> ParseSearchSources(data)
      [] kind = "kad result"      -> ParseKadSearchResult(data)
      [] kind = "routing state"   -> ParseRoutingState(data)
      [] kind = "nodes.dat"       -> ParseNodesDat(data)
      [] kind = "obfuscated"      -> ParseObfuscated(data, SelfHash, U32(77))

-----------------------------------------------------------------------------
\* What the reader should know: the message, or what of it the code keeps.
Meaning(kind, m) ==
    CASE kind = "multipacket" ->
           <<m[1], {"name", "sources"} \cup (IF Len(m[3]) > 1 THEN {"parts"} ELSE {})>>
      [] kind = "request sources" -> <<m[1], ExchangeVersion>>
      [] kind \in {"hello", "hello answer"} -> <<m[1], m[6], m[7], m[8], m[9]>>
      [] kind \in {"search", "wide search"} -> TermsOf(m, kind = "wide search")
      [] kind = "packed sources" -> SourcesOf(m)
      [] kind = "id change" ->
           <<m[1], ~LowId(m[1]),
             IF Len(m) = 5 /\ ~LowId(m[4]) THEN m[4]
             ELSE IF LowId(m[1]) THEN <<>> ELSE m[1],
             IF Len(m) = 5 /\ UnpackBytes(m[5]) < 2 ^ 16 THEN UnpackBytes(m[5]) ELSE 0>>
      [] kind \in {"server met", "bare server met"} ->
           LET known == SelectSeq(m[1], LAMBDA e : e[1][2] # 0)
           IN <<[i \in DOMAIN known |->
                   <<IF known[i][1][1] = Unset THEN <<known[i][3], known[i][1][2]>>
                                               ELSE known[i][1],
                     known[i][2], known[i][4]>>]>>
      [] kind = "search result" ->
           <<[i \in DOMAIN m[1] |->
                [m[1][i] EXCEPT ![2] = IF LowId(@[1]) \/ @[2] = 0 THEN <<>> ELSE <<@>>]],
             m[2]>>
      [] kind = "nodes.dat" ->
           LET good == SelectSeq(m[3], LAMBDA e : ValidNode(e[1]))
               any == \E i \in DOMAIN good : good[i][2]
           IN [i \in DOMAIN good |->
                 <<good[i][1],
                   IF HasVerified(m[1], m[2]) /\ any THEN good[i][2] ELSE TRUE>>]
      [] kind = "obfuscated" -> <<m[5], m[6], m[1]>>
      [] OTHER -> m

\* Messages that a shorter payload can also be: fields at the end are optional,
\* or the length is not written.
Optional == {"id change", "reask ping", "reask ack", "multipacket", "queue rank",
             "multipacket answer", "packed sources", "search result", "request sources",
             "obfuscated", "nodes.dat"}

\* Messages whose reader leaves what follows the end.
Lenient == {"hash set", "multipacket", "kad hello ack", "server list", "server ident",
            "server met", "bare server met", "id change", "search result",
            "packed sources", "queue rank", "reask ping", "reask ack", "obfuscated"}

-----------------------------------------------------------------------------
Nothing == [kind |-> "none", message |-> <<>>, data |-> <<>>, fate |-> "whole"]

CodecInit ==
    /\ wire = Nothing
    /\ index = <<>>
    /\ published = <<>>
    /\ results = {}

\* The three parts share no state; a behaviour exercises one of them.
Send ==
    /\ wire = Nothing /\ index = <<>> /\ results = {}
    /\ \E kind \in DOMAIN Messages : \E m \in Messages[kind] :
         wire' = [kind |-> kind, message |-> m, data |-> Written(kind, m), fate |-> "whole"]
    /\ UNCHANGED <<index, published, results>>

\* A connection or a file ends early.
Cut ==
    /\ wire.fate = "whole" /\ wire.kind # "none"
    /\ \E k \in 0..(Len(wire.data) - 1) :
         wire' = [wire EXCEPT !.data = SubSeq(@, 1, k), !.fate = "cut"]
    /\ UNCHANGED <<index, published, results>>

Pad ==
    /\ wire.fate = "whole" /\ wire.kind # "none"
    /\ \E b \in {0, 255} : wire' = [wire EXCEPT !.data = Append(@, b), !.fate = "padded"]
    /\ UNCHANGED <<index, published, results>>

\* Kad::handle, KAD_PUBLISH_SOURCE_REQ.
Publish ==
    /\ wire = Nothing /\ results = {} /\ Len(published) < MaxPublishes
    /\ \E hash \in Publishers, from \in Addresses, port \in Ports :
         LET data == CreatePublishSource(<<FileHash, hash, port, 0, 1, <<5, 0>>>>)
         IN /\ \E request \in {ParsePublishSource(data)} :
                 request.ok /\ index' = StoreSource(index, Addressed(request.out[2], from))
            /\ published' = Append(published, <<hash, <<from, port>>>>)
    /\ UNCHANGED <<wire, results>>

\* Kad::searchResult for a keyword search.
KeywordAnswer ==
    /\ wire = Nothing /\ index = <<>>
    /\ \E e \in Keywords :
         LET r == KeywordResult(e)
         IN r.ok /\ r.out \notin results /\ results' = results \cup {r.out}
    /\ UNCHANGED <<wire, index, published>>

CodecNext == Send \/ Cut \/ Pad \/ Publish \/ KeywordAnswer

CodecSpec == CodecInit /\ [][CodecNext]_codecVars

-----------------------------------------------------------------------------
\* The state is well formed: the bytes are bytes, and the index holds no more
\* entries than were published.
CodecTypeOK ==
    /\ \A i \in DOMAIN wire.data : wire.data[i] \in 0..255
    /\ wire.fate \in {"whole", "cut", "padded"}
    /\ Len(index) <= Len(published)
    /\ \A r \in results : Len(r) = 4
    /\ Len(published) <= MaxPublishes

\* The reading side understands what the writing side means: for every message,
\* with every width, bit order, byte order and tag the two sides use.  The code
\* has the two in separate functions (create...Payload, parse...Payload).  A payload
\* that ends early is rejected, not read as another message, wherever the message
\* has no optional end; so is one with bytes after its end, but for the messages
\* whose reader says that it leaves a rest.
ReadAsMeant(result) ==
    CASE wire.fate = "whole" ->
           result.ok /\ result.out = Meaning(wire.kind, wire.message)
      [] wire.fate = "cut" -> wire.kind \in Optional \/ ~result.ok
      [] wire.fate = "padded" -> wire.kind \in Lenient \/ ~result.ok

MessagesRead ==
    wire.kind # "none" => ReadAsMeant(Parsed(wire.kind, wire.data, wire.message))

\* A search for sources finds every publisher where it was when it published
\* last (Kad.cc, the publish and the search handlers; KadSourceIndex), unless
\* another client published from the same endpoint since.
Found == {ExtractSource(index[i]).out : i \in DOMAIN index}

PublishedIsFound ==
    \A i \in DOMAIN published :
       \/ \E j \in (i + 1)..Len(published) :
            published[j][1] = published[i][1] \/ published[j][2] = published[i][2]
       \/ \E s \in Found : s[1] = published[i][2] /\ s[2] = published[i][1]

=============================================================================

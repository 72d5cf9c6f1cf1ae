---------------------------- MODULE CodecSamples ----------------------------
(***************************************************************************)
(* Messages for Ed2kCodec, of each kind: empty and longer lists, lengths   *)
(* around the limits of their encodings, both address forms, each set of   *)
(* optional fields.  Hashes have four bytes.                               *)
(***************************************************************************)
EXTENDS Ed2kWire, TLC

H1 == <<1, 2, 3, 4>>
H2 == <<250, 17, 9, 33>>
Ip1 == <<10, 0, 7, 99>>
Ip2 == <<93, 16, 80, 1>>
Low == <<5, 1, 0, 0>>
E1 == <<Ip1, 4662>>
E2 == <<Ip2, 80>>
Big == <<7, 3>>
Small == <<1000, 0>>
Zero == <<0, 0>>
Bits(n, S) == [i \in 1..n |-> i \in S]
BitSets == {<<>>, Bits(1, {1}), Bits(8, {1, 8}), Bits(9, {2, 9}), Bits(3, {})}
Infos == {<<60, 1, 1, 4672, 4, 3, 2, 3>>, <<60, 1, 0, 0, 0, 0, 0, 0>>}
Hellos == {<<H1, 500, 4662, E2, <<97, 98>>, 4672, 12345, 8, f>> :
             f \in {{}, {"large", "extended", "exchange2"}, {"supports", "requests"},
                    {"supports", "requests", "requires", "callback"}}}
Contact(h, ip, v) == <<h, ip, 4672, 4662, v>>
C1 == Contact(H1, Ip1, 8)
C2 == Contact(H2, Ip2, 5)
NodeRec(h, c) == <<h, <<49>>, 1, 2, 8, c, FALSE, 1, <<5, 0>>, <<6, 1>>>>
U(id, v) == [id |-> id, type |-> "uint", value |-> v]
S(id, v) == [id |-> id, type |-> "string", value |-> v]
Long17 == [i \in 1..17 |-> i]
Long16 == [i \in 1..16 |-> i]
MCKeywords == {<<H1, <<S(1, <<97>>), U(2, Small)>>>>, <<H2, <<U(2, Small)>>>>}
MCMessages ==
     "file status" :> {<<H1, b>> : b \in BitSets}
  @@ "hash set" :> {<<H1, s>> : s \in {<<>>, <<H2>>, <<H2, H1>>}}
  @@ "request parts" :> ({<<H1, r, w>> : w \in BOOLEAN,
            r \in {<<<<Zero, Small>>>>, <<<<Small, <<1001, 0>>>>, <<Zero, <<9, 0>>>>>>}}
          \cup {<<H2, <<<<Big, <<8, 3>>>>, <<Small, Big>>>>, TRUE>>})
  @@ "queue rank" :> {<<0>>, <<65535>>, <<300>>}
  @@ "request sources" :> {<<H1>>}
  @@ "answer sources" :> ({<<H1, v, <<>>>> : v \in 1..4}
          \cup {<<H1, 1, <<<<E1, E2, <<>>, 0>>>>>>, <<H1, 3, <<<<E1, E2, H2, 0>>, <<E2, E1, H1, 0>>>>>>,
                <<H2, 4, <<<<E1, E2, H2, 7>>>>>>})
  @@ "answer sources 2" :> {<<H1, 1, <<<<E1, E2, <<>>, 0>>>>>>, <<H1, 2, <<<<E1, E2, H2, 0>>>>>>,
                <<H2, 4, <<<<E1, E2, H2, 7>>, <<E2, E1, H1, 0>>>>>>}
  @@ "multipacket" :> {<<H1, s, b>> : s \in {Small, Big}, b \in {<<>>, Bits(1, {1}), Bits(9, {2, 9})}}
  @@ "multipacket answer" :> {<<H1, n, b>> : n \in {<<97>>, Long17}, b \in {<<>>, Bits(9, {1, 9})}}
  @@ "emule info" :> Infos
  @@ "hello" :> Hellos
  @@ "hello answer" :> Hellos
  @@ "reask ping" :> ({<<H1, b, c, TRUE>> : b \in {Bits(1, {1}), Bits(9, {2, 9})}, c \in {0, 300}} \cup {<<H1, <<>>, 300, FALSE>>})
  @@ "reask ack" :> ({<<b, 7, TRUE>> : b \in {Bits(1, {1}), Bits(9, {2, 9}), Bits(8, {3})}} \cup {<<<<>>, 7, FALSE>>})
  @@ "get sources" :> {<<H1, Small>>, <<H1, Big>>}
  @@ "found sources" :> {<<H1, <<>>>>, <<H1, <<<<E1, 0, <<>>, FALSE>>, <<<<Low, 9>>, 0, <<>>, TRUE>>>>>>}
  @@ "found obfuscated" :> {<<H1, <<<<E1, 3, <<>>, FALSE>>, <<E2, 131, H2, FALSE>>, <<<<Low, 9>>, 0, <<>>, TRUE>>>>>>}
  @@ "packed sources" :> {<<H1, <<<<H1, <<E1>>>>, <<H2, <<E2>>>>, <<H1, <<E2>>>>>>>>, <<H1, <<<<H2, <<>>>>>>>>}
  @@ "id change" :> ({<<i>> : i \in {Ip1, Low}}
          \cup {<<i, U32(1), U32(0), a, U32(p)>> : i \in {Ip1, Low}, a \in {Ip2, Low}, p \in {4662, 70000}})
  @@ "server list" :> {<<<<>>>>, <<<<E1, E2>>>>}
  @@ "server ident" :> {<<E1, <<97>>>>, <<E2, Long17>>}
  @@ "server met" :> {<<<<<<E1, <<97>>, <<>>, 4700>>, <<<<<<0, 0, 0, 0>>, 80>>, <<98>>, <<104>>, 0>>, <<<<Ip2, 0>>, <<>>, <<>>, 0>>>>>>}
  @@ "bare server met" :> {<<<<<<E1, Long16, <<104>>, 70>>>>>>}
  @@ "search result" :> {<<<<<<H1, E1, <<97>>, Small, 3>>, <<H2, <<Low, 9>>, Long17, Big, 0>>>>, b>> : b \in BOOLEAN}
  @@ "search" :> {<<<<97>>, <<>>, Zero, Zero, 0>>, <<<<97>>, <<86>>, Small, Big, 5>>}
  @@ "wide search" :> {<<<<97>>, <<86>>, Small, Big, 0>>, <<<<97>>, <<>>, Big, Zero, 5>>}
  @@ "server state" :> {<<<<<<104>>, 4661>>, <<97>>, TRUE, 500, FALSE, <<49>>, 4700, 2, Big, <<120>>>>}
  @@ "kad hello" :> {<<H1, 4662, 8, a, t, u>> : a \in BOOLEAN, t \in BOOLEAN, u \in BOOLEAN}
  @@ "kad hello ack" :> {<<H1>>}
  @@ "kad bootstrap" :> {<<H1, 4662, 8, c>> : c \in {<<>>, <<C1>>, <<C1, C2>>}}
  @@ "kad request" :> {<<11, H1, H2>>}
  @@ "kad response" :> {<<H1, c>> : c \in {<<>>, <<C1, C2>>}}
  @@ "kad published" :> {<<H1, 100>>}
  @@ "kad firewalled" :> {<<4662, H1, 3>>}
  @@ "kad address" :> {<<Ip1>>}
  @@ "kad udp" :> {<<0, 4662>>}
  @@ "kad callback" :> {<<H1, H2, 4662>>}
  @@ "buddy callback" :> {<<H1, H2, E1>>}
  @@ "kad search" :> {<<H1, 300, Big>>}
  @@ "kad result" :> {<<H1, H2, <<>>>>, <<H1, H2, <<<<H1, <<S(1, Long16), U(2, Big)>>>>, <<H2, <<S(1, Long17), S(3, <<>>), U(21, Small)>>>>>>>>}
  @@ "routing state" :> {<<H1, TRUE, <<<<49>>>>, <<<<<<50>>, 9>>>>, <<<<H2, <<51>>, 1, 2, 8, 77>>>>,
             <<<<<<4, 0>>, <<NodeRec(H1, TRUE)>>, <<>>>>, <<<<5, 0>>, <<>>, <<NodeRec(H2, FALSE)>>>>>>>>}
  @@ "nodes.dat" :> ({<<v, 0, <<<<C1, TRUE>>, <<Contact(H2, Ip2, 1), TRUE>>, <<C2, FALSE>>>>>> : v \in {0, 1, 2, 3}}
             \cup {<<3, 1, <<<<C1, FALSE>>>>>>, <<2, 0, <<<<C1, FALSE>>, <<<<H2, Ip2, 53, 1, 5>>, TRUE>>>>>>})
  @@ "obfuscated" :> {<<<<228, 33, 1>>, key, r, key = U32(77), U32(5), U32(6)>> : key \in {H1, U32(77)}, r \in {0, 300}}
MCPublishers == {H1, H2, <<9, 8, 7, 6>>}
MCAddresses == {Ip1, Ip2}
=============================================================================

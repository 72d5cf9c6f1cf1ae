------------------------------- MODULE MCEd2k -------------------------------
(***************************************************************************)
(* The ED2K network: small instances of Ed2kTask, Ed2kClient, Ed2kServer,  *)
(* Kad, Ed2kConnection, Ed2kCodec and PortMapper.  They share no state, so *)
(* one run checks them side by side: scene says which of them a behaviour  *)
(* is about; the others stay as they are initially.  Ed2kTask is extended, *)
(* so that its properties are checked as they are proved.                  *)
(***************************************************************************)
EXTENDS Ed2kTask, Sequences, TLC

CONSTANTS
  Scenes,           \* the instances that are checked
  Admitted,         \* "pending", "cross", "overlap": what DropPending,
                    \* CallsCross and Overlapping stand for
  ClientScenarios, ServerScenarios, KadScenarios,
  ConnectionScenarios, MapperScenarios, Messages, Keywords

VARIABLES
  scene,
  s, callers, file, allow,             \* Ed2kClient
  v, q, replies, grant,                \* Ed2kServer
  n, spare,                            \* Kad
  ends, link, luck,                    \* Ed2kConnection
  wire, index, published, results,     \* Ed2kCodec
  pm, gw, chance                       \* PortMapper

-----------------------------------------------------------------------------
(* Ed2kTask: two parts, of two blocks and of one; two sources, of which    *)
(* one has both parts.                                                     *)
Plain ==
  [found |-> "absent", option |-> "refuse", hashes |-> FALSE, from |-> {"a"},
   corrupt |-> 0, gone |-> 0, errors |-> 0, saves |-> 0, stops |-> 0,
   edits |-> 0, again |-> 0, crashes |-> 0, died |-> 0]
Found(what, option) == [Plain EXCEPT !.found = what, !.option = option]

\* Wrong blocks, lost sources, stops, deaths, disk errors and edits of the file,
\* with and without the hash set; each kind of file found under each option.
MCFile ==
  {[Plain EXCEPT !.from = {"a", "b"}, !.corrupt = 1],
   [Plain EXCEPT !.from = {"a", "b"}, !.gone = 1],
   [Plain EXCEPT !.stops = 1],
   [Plain EXCEPT !.saves = 1, !.crashes = 1, !.hashes = TRUE],
   [Plain EXCEPT !.stops = 1, !.edits = 1, !.hashes = TRUE],
   [Plain EXCEPT !.errors = 1, !.again = 1, !.hashes = TRUE],
   [Found("whole", "refuse") EXCEPT !.stops = 1],
   [Found("whole", "refuse") EXCEPT !.corrupt = 1],
   Found("short", "continue"), Found("short", "overwrite"), Found("short", "rename"),
   Found("short", "refuse"), Found("long", "continue"), Found("long", "rename")}

\* Two sources work on the last block, one of them sends wrong data.
WrongDuplicate == {[Plain EXCEPT !.from = {"a", "b"}, !.corrupt = 1, !.hashes = TRUE]}

MCAvailable == [a |-> {0, 1}, b |-> {0}]

\* The theorems about Ed2kTask are about this instance too.
ASSUME FileInstance == ~LateWrong => FileConstants

-----------------------------------------------------------------------------
(* Ed2kClient: two clients, of which one cannot be called.                 *)
Nobody == [calls |-> 0, fails |-> 0, answers |-> 0, uploads |-> 0, turns |-> 0,
           detach |-> 0, found |-> 0, sources |-> TRUE]
Strangers == [Nobody EXCEPT !.sources = FALSE]

\* Sources that are asked, callers that upload, connections that fail and files
\* that leave the network, in pairs.
MCClient ==
  {[Nobody EXCEPT !.answers = 2, !.fails = 1],
   [Nobody EXCEPT !.answers = 1, !.detach = 1],
   [Nobody EXCEPT !.answers = 1, !.calls = 1, !.uploads = 1],
   [Strangers EXCEPT !.calls = 1, !.fails = 1, !.found = 1],
   [Strangers EXCEPT !.calls = 2, !.uploads = 2, !.turns = 1],
   [Strangers EXCEPT !.calls = 2, !.uploads = 2, !.fails = 1],
   [Strangers EXCEPT !.calls = 2, !.uploads = 2, !.detach = 2],
   [Strangers EXCEPT !.calls = 2, !.uploads = 2, !.fails = 2, !.detach = 1]}

Peers == INSTANCE Ed2kClient WITH
  Clients <- {1, 2}, LowIds <- {2}, UploadSlots <- 1, MaxWaiting <- 1,
  MaxConnections <- 2, MaxAsking <- 2, BlocksAhead <- 2, MaxFailures <- 1,
  DropPending <- "pending" \in Admitted, CallsCross <- "cross" \in Admitted

-----------------------------------------------------------------------------
(* Ed2kServer: two servers, a third one is learned; two searches.          *)
Reached(who) == [dials |-> 1, reach |-> who, ids |-> {}, lost |-> 0, stop |-> 0,
                 late |-> 0, quiet |-> 1, more |-> 0]

\* A session that is lost or stopped, one dial or two at a time, and searches.
MCServer ==
  {[Reached({"s2"}) EXCEPT !.lost = 1, !.stop = 1],
   [Reached({"s1", "s2"}) EXCEPT !.lost = 1, !.stop = 1, !.dials = 2],
   [Reached({"s1"}) EXCEPT !.lost = 1, !.ids = {"q1"}, !.more = 1],
   [Reached({"s1"}) EXCEPT !.ids = {"q1", "q2"}]}

Session == INSTANCE Ed2kServer WITH
  Configured <- <<"s1", "s2">>, Learned <- {"s3"}, Named <- {"s2"}, Obfuscated <- {"s2"},
  MaxRuns <- 2, MaxFailures <- 1, Downloads <- {"f"}, Budget <- 2, Queries <- {"q1", "q2"}

-----------------------------------------------------------------------------
(* Kad: four other nodes, identifiers of three bits.                       *)
Saved(contacts) == [answers |-> 0, hellos |-> 0, searches |-> 0, quiet |-> 0,
                    aged |-> 0, restarts |-> 0, due |-> {}, saved |-> contacts]

\* A search, a table that stales and is restored, each periodic lookup, a lookup
\* that outlives its lifetime, and a node that starts without contacts.
MCKad ==
  {[Saved(<<5, 7>>) EXCEPT !.answers = 4, !.searches = 1, !.quiet = 1],
   [Saved(<<5, 6>>) EXCEPT !.hellos = 2, !.restarts = 1, !.due = {"bucket"}],
   [Saved(<<5>>) EXCEPT !.answers = 2, !.due = {"self", "sources"}],
   [Saved(<<5>>) EXCEPT !.answers = 2, !.aged = 1, !.due = {"sources", "publish"}],
   [Saved(<<5, 6>>) EXCEPT !.answers = 3, !.due = {"sources", "publish"}],
   [Saved(<<>>) EXCEPT !.answers = 2, !.hellos = 1]}

Node == INSTANCE Kad WITH
  IdBits <- 3, SplitLevels <- 1, BucketSize <- 2, MaxFails <- 2,
  Contacts <- {1, 5, 6, 7},
  Knows <- (1 :> {7} @@ 5 :> {6, 7} @@ 6 :> {1, 5} @@ 7 :> {1, 6}),
  Routers <- <<5>>, FileId <- 4, WordId <- 3, Tolerance <- 2, Branch <- 2,
  TargetNodes <- 2, MaxSearches <- 2, MaxObservers <- 3, EnoughContacts <- 2,
  Burst <- 1, MaxLookups <- 2, RandomBits <- {0, 7}, MaxTransactions <- 4,
  Overlapping <- "overlap" \in Admitted

-----------------------------------------------------------------------------
(* Ed2kConnection: the two ends of one connection.                         *)
Dials(mode, sent, answered, drains, closes, race) ==
  [mode |-> mode, packets |-> [caller |-> sent, called |-> answered],
   drains |-> drains, closes |-> closes, race |-> race, closed |-> FALSE]

\* Plain and obfuscated, with the right and with a wrong hash, to a peer that
\* says nothing and to a server.
MCConnection ==
  {Dials("plain", 2, 0, 1, 1, FALSE), Dials("plain", 1, 0, 0, 0, TRUE),
   Dials("hidden", 2, 0, 1, 0, FALSE), Dials("hidden", 1, 1, 0, 0, FALSE),
   Dials("wrong", 1, 0, 0, 0, TRUE), Dials("mute", 1, 0, 0, 0, TRUE),
   Dials("server", 1, 1, 0, 0, FALSE)}

Stream == INSTANCE Ed2kConnection WITH MaxPadding <- 1, Limit <- 2, IdleTimeout <- 1

-----------------------------------------------------------------------------
(* Ed2kCodec: hashes of four bytes, so that a byte can be off.             *)
Sample == INSTANCE CodecSamples WITH HashLength <- 4
MCMessages == Sample!MCMessages
MCKeywords == Sample!MCKeywords

Codec == INSTANCE Ed2kCodec WITH
  HashLength <- 4, Publishers <- Sample!MCPublishers, Addresses <- Sample!MCAddresses,
  Ports <- {80, 4662}, MaxPublishes <- 3, SelfHash <- Sample!H1

-----------------------------------------------------------------------------
(* PortMapper: two ports, two mappers, the second made when the first is   *)
(* closed: with overlap at once, otherwise when its mappings are removed.  *)
Gateway(closes, losses, outages, restarts) ==
  [busy |-> FALSE, overlap |-> FALSE, closes |-> closes, losses |-> losses,
   outages |-> outages, restarts |-> restarts, permanent |-> FALSE, taken |-> {},
   private |-> FALSE, faulty |-> FALSE]

\* A gateway that loses answers, goes away or restarts, that refuses a port,
\* knows no leases or has a private address itself; the option is turned off and
\* on again at once.
Overlap(g) == [g EXCEPT !.overlap = TRUE]
MCMapper ==
  {Overlap(Gateway(2, 0, 0, 0)), Overlap(Gateway(1, 0, 1, 0)), Overlap(Gateway(1, 1, 0, 0)),
   Gateway(2, 0, 0, 0), Gateway(1, 0, 1, 0), Gateway(1, 1, 0, 1),
   [Gateway(1, 0, 0, 0) EXCEPT !.permanent = TRUE, !.taken = {"tcp"}],
   [Gateway(1, 0, 0, 0) EXCEPT !.private = TRUE],
   [Gateway(0, 1, 1, 0) EXCEPT !.permanent = TRUE]}

Mapper == INSTANCE PortMapper WITH
  PortList <- <<"tcp", "udp">>, Mappers <- {1, 2}, Renew <- 3, Lease <- 6,
  Rediscover <- 1, Retry <- 1, Forever <- 9

-----------------------------------------------------------------------------
clientVars == <<s, callers, file, allow>>
serverVars == <<v, q, replies, grant>>
kadVars == <<n, spare>>
connectionVars == <<ends, link, luck>>
codecVars == <<wire, index, published, results>>
mapperVars == <<pm, gw, chance>>
allVars == <<scene, fileVars, clientVars, serverVars, kadVars, connectionVars,
             codecVars, mapperVars>>

MCInit ==
  /\ scene \in Scenes
  /\ FileInit /\ (scene = "file" \/ budget = CHOOSE x \in FileScenarios : x.found = "absent")
  /\ Peers!ClientInit /\ (scene = "clients" \/ allow = CHOOSE x \in ClientScenarios : TRUE)
  /\ Session!ServerInit /\ (scene = "server" \/ grant = CHOOSE x \in ServerScenarios : TRUE)
  /\ Node!KadInit /\ (scene = "kad" \/ spare = CHOOSE x \in KadScenarios : TRUE)
  /\ Stream!ConnectionInit
  /\ scene = "connection" \/ luck = CHOOSE x \in ConnectionScenarios : TRUE
  /\ Codec!CodecInit
  /\ Mapper!MapperInit /\ (scene = "ports" \/ chance = CHOOSE x \in MapperScenarios : TRUE)

MCNext ==
  \/ scene = "file" /\ FileNext
     /\ UNCHANGED <<scene, clientVars, serverVars, kadVars, connectionVars, codecVars, mapperVars>>
  \/ scene = "clients" /\ Peers!ClientNext
     /\ UNCHANGED <<scene, fileVars, serverVars, kadVars, connectionVars, codecVars, mapperVars>>
  \/ scene = "server" /\ Session!ServerNext
     /\ UNCHANGED <<scene, fileVars, clientVars, kadVars, connectionVars, codecVars, mapperVars>>
  \/ scene = "kad" /\ Node!KadNext
     /\ UNCHANGED <<scene, fileVars, clientVars, serverVars, connectionVars, codecVars, mapperVars>>
  \/ scene = "connection" /\ Stream!ConnectionNext
     /\ UNCHANGED <<scene, fileVars, clientVars, serverVars, kadVars, codecVars, mapperVars>>
  \/ scene = "codec" /\ Codec!CodecNext
     /\ UNCHANGED <<scene, fileVars, clientVars, serverVars, kadVars, connectionVars, mapperVars>>
  \/ scene = "ports" /\ Mapper!MapperNext
     /\ UNCHANGED <<scene, fileVars, clientVars, serverVars, kadVars, connectionVars, codecVars>>

\* The fairness each of the modules states, in its own scene.
In(name, step) == scene = name /\ step
MCFairness ==
  /\ WF_fileVars(In("file", StartFile)) /\ WF_fileVars(In("file", StrandSucceeds))
  /\ WF_fileVars(In("file", FileCompletion)) /\ WF_fileVars(In("file", ClaimsAge))
  /\ WF_fileVars(In("file", HashSetArrives)) /\ WF_fileVars(In("file", SharedEnough))
  /\ \A x \in Sources : /\ WF_fileVars(In("file", RequestBlocks(x)))
                        /\ WF_fileVars(In("file", DeliverRight(x)))
  /\ \A c \in {1, 2} :
       /\ WF_clientVars(In("clients", Peers!DialSucceeds(c) \/ Peers!DialFails(c)))
       /\ WF_clientVars(In("clients", Peers!ShutReaderEnds(c)))
       /\ WF_clientVars(In("clients", Peers!IdleTimeout(c)))
       /\ WF_clientVars(In("clients", Peers!TransferTimeout(c)))
       /\ WF_clientVars(In("clients", Peers!TimePasses(c)))
       /\ WF_clientVars(In("clients", Peers!NoCallback(c)))
  /\ WF_serverVars(In("server", Session!TickDial))
  /\ \A i \in {1, 2} :
       /\ WF_serverVars(In("server", \/ Session!Resolved(i) \/ Session!Connects(i)
                                     \/ Session!ObfuscationDone(i) \/ Session!DialEnds(i)))
       /\ WF_serverVars(In("server", Session!IdChange(i)))
       /\ WF_serverVars(In("server", v.runs[i].closed /\ Session!ReadEnds(i)))
  /\ \A x \in 1..3 : WF_serverVars(In("server", Session!RetryDue(x)))
  /\ WF_connectionVars(In("connection", Stream!Handshake))
  /\ WF_connectionVars(In("connection", Stream!IdleTick))
  /\ \A e \in {"caller", "called"} : WF_connectionVars(In("connection", Stream!Runs(e)))
  /\ WF_mapperVars(In("ports", Mapper!Tick))
  /\ \A m \in {1, 2} : WF_mapperVars(In("ports", Mapper!MapperStep(m)))

MCSpec == MCInit /\ [][MCNext]_allVars /\ MCFairness

-----------------------------------------------------------------------------
\* UploadQueue: whoever uploads holds one of the slots ed2k-upload-slots
\* gives out in total (grant, remove).
UploadsHoldSlots == scene = "clients" => Peers!UploadsHoldSlots

\* Network::detach() ends the uploads of the file, those it grants on the
\* way included.
DetachedIsNotServed == scene = "clients" => Peers!DetachedIsNotServed

\* "with at most one TCP connection" (Client.h): a call in each direction
\* leaves one of the two (attach).
OneConnection == scene = "clients" => Peers!OneConnection

\* Client: a source being connected to has a dial, a connection or a
\* callback deadline to wait for, since schedule() never looks at it again.
ConnectingHasReason == scene = "clients" => Peers!ConnectingHasReason

\* Client: blocks are claimed only by a source whose slot and connection can
\* still deliver them (closed, stopDownloading, dropSource).
ClaimsCanArrive == scene = "clients" => Peers!ClaimsCanArrive

\* Client: every attempt to reach a source or to ask it for the file comes
\* to an end (closed, tick).
AttemptsEnd == Peers!AttemptsEnd

\* ServerSession: only the dial that won reads, and late ones give up
\* without touching the session (run).
OneServer == scene = "server" => Session!OneServer

\* Searches: Kad works for a search only while it is active (finish,
\* remove).
KadSearchesActive == scene = "server" => Session!KadSearchesActive

\* Searches: a search gets the results of its own query only, although a
\* server answer names no search (Searches.cc).
OwnResults == scene = "server" => Session!OwnResults

\* ServerSession::stop() ends the session for good: no dial under way
\* connects and logs in afterwards.
NoLoginAfterStop == Session!NoLoginAfterStop

\* ServerSession::tick() finds the server that can be reached among those
\* that cannot.
ServerFound == []<>(scene = "server" => Session!Found)

\* KadRouting: every contact sits once, in the bucket of its distance, and
\* no bucket is over its size (addNode, nodeFailed, restore).
TableSound == scene = "kad" => Node!TableSound

\* KadRouting: a refresh looks up an ID of the bucket that was quiet the
\* longest (needRefresh, randomIdIn).
RefreshAims == scene = "kad" => Node!RefreshAims

\* KadRouting: the counters of a lookup match the requests outstanding, over
\* lost, late and repeated answers (onResponse, onFailure, finishSearch).
CountersExact == scene = "kad" => Node!CountersExact

\* KadRouting: a finished lookup has no search outstanding, and each contact
\* it searched had answered its walk (search, finishSearch).
DoneIsQuiet == scene = "kad" => Node!DoneIsQuiet

\* KadRouting: a lookup that is not finished has a request outstanding, so
\* an answer or a timeout moves it on (nextActions, onFailure).
NeverIdle == scene = "kad" => Node!NeverIdle

\* KadRouting: a live contact gives way only when a request to it went
\* unanswered (addNode, nodeFailed, restore).
LiveKept == Node!LiveKept

\* Connection: each end receives the packets the other sent, in order and
\* whole; batching, the byte accept() read ahead and the padding leave no
\* trace (Connection.cc, Cipher.cc).
StreamOrder == scene = "connection" => Stream!StreamOrder

\* Connection: between ends that agree on the hash nothing is ever
\* unreadable; a connection is closed by its owner, the peer or the
\* watchdog.
NothingGarbled == scene = "connection" => Stream!NothingGarbled

\* Connection: a call to another client's hash never gets a packet through
\* (accept).
WrongHashRejected == scene = "connection" => Stream!WrongHashRejected

\* Connection: drain() never misses its wake-up (write, drain).
DrainIsWoken == scene = "connection" => Stream!DrainIsWoken

\* Connection: a handshake is answered, refused, or closed by the watchdog
\* when the other end says nothing.
HandshakeEnds == \A e \in {"caller", "called"} : []<>(scene = "connection" => Stream!Settled(e))

\* Codecs: the parse functions read back what the create functions mean, for
\* every kind of message (peer, server and Kad packets, server.met,
\* nodes.dat, state files), and reject a payload that ends early or goes on,
\* where the message has no optional end and its reader leaves no rest.
MessagesRead == scene = "codec" => Codec!MessagesRead

\* Kad source index: a search for sources finds every publisher where it was
\* when it published last (KadSourceIndex::store, search).
PublishedIsFound == scene = "codec" => Codec!PublishedIsFound

\* PortMapper: while run() says "mapped" every port is forwarded until the
\* renewal, unless the gateway loses something; of a mapper made when no earlier
\* one was still removing its mappings (updatePortMapping).
ApartIsForwarded == scene = "ports" => Mapper!ApartIsForwarded

\* PortMapper: "Removes the mappings, then calls `done`" (PortMapper.h):
\* once closed, no port of ours is forwarded.
MappingsRemoved == scene = "ports" => Mapper!MappingsRemoved

\* PortMapper: after a gateway restarted or came back the ports are mapped
\* again (run).
PortsReturn == Mapper!PortsReturn

\* PortMapper::close() calls done, whatever the gateway does.
CloseAnswered == Mapper!CloseAnswered

-----------------------------------------------------------------------------
\* Ed2kTask: a download with a source comes to its end, and so does a task that
\* closes (partVerified, quiesce).
FileEnds == DownloadEnds /\ FileCloses

\* Client, UploadQueue: uploads hold a slot and serve an attached file, a client has
\* one connection and waits for something, claims can still arrive (Client.cc).
PeersSound ==
  /\ scene = "clients" => Peers!ClientTypeOK
  /\ UploadsHoldSlots
  /\ DetachedIsNotServed
  /\ OneConnection
  /\ ConnectingHasReason
  /\ ClaimsCanArrive

\* ServerSession, Searches: one dial wins, none after a stop, and a search gets its
\* own results while it is active (run, stop, serverResults).
SessionSound ==
  /\ [](/\ scene = "server" => Session!ServerTypeOK
        /\ OneServer
        /\ KadSearchesActive
        /\ OwnResults)
  /\ NoLoginAfterStop

\* Kad: the routing table is sound and gives up no live contact; a lookup's counts
\* are exact, it is never idle before its end and quiet after it (KadRouting.cc).
KadSound ==
  /\ [](/\ scene = "kad" => Node!KadTypeOK
        /\ TableSound
        /\ RefreshAims
        /\ CountersExact
        /\ DoneIsQuiet
        /\ NeverIdle)
  /\ LiveKept

\* Connection: packets arrive in order and readable, between ends that agree on the
\* hash and no others, and a sender that waits is woken (Connection.cc).
StreamSound ==
  /\ scene = "connection" => Stream!ConnectionTypeOK
  /\ StreamOrder
  /\ NothingGarbled
  /\ WrongHashRejected
  /\ DrainIsWoken

\* Codecs: what is written is read back, what is cut or padded is refused, and what
\* is published is found (Packet.cc, PeerProtocol.cc, ServerProtocol.cc,
\* KadProtocol.cc, KadSearch.cc).
CodecSound ==
  /\ scene = "codec" => Codec!CodecTypeOK
  /\ MessagesRead
  /\ PublishedIsFound

\* PortMapper: what it reports is what the gateway does, while it runs and after it
\* was closed (run, close).
PortsSound ==
  /\ scene = "ports" => Mapper!MapperTypeOK
  /\ ApartIsForwarded
  /\ MappingsRemoved

\* The network never waits for ever: for a source, a server, a handshake, a gateway
\* or the mapper's close (Client::tick, ServerSession::tick, the watchdog of a
\* connection, PortMapper::run).
NetworkProgress ==
  /\ AttemptsEnd
  /\ ServerFound
  /\ HandshakeEnds
  /\ PortsReturn
  /\ CloseAnswered
=============================================================================

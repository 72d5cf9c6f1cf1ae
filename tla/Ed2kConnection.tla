--------------------------- MODULE Ed2kConnection ---------------------------
(***************************************************************************)
(* ed2k/Connection.cc: a TCP connection between two ends, each with a      *)
(* reading coroutine, a writer coroutine that batches what send() queues,  *)
(* drain() waiting for the writer, and a watchdog.  With obfuscation every *)
(* byte after the handshake passes through RC4, so both ends must agree on *)
(* the key and on the position in each direction, padding included.        *)
(*                                                                         *)
(* The stream is a sequence of units: the first byte of a packet, the rest *)
(* of its header, its payload, and the fields of the handshakes.  A unit   *)
(* carries the key and the position it was encrypted with; it reads as     *)
(* what it is only under the same two, and as noise otherwise.             *)
(***************************************************************************)
EXTENDS Integers, Sequences, SequencesExt

CONSTANTS
  ConnectionScenarios, \* how the caller dials and the bounds of a behaviour
  MaxPadding,          \* padding(): at most 15 bytes in the code
  Limit,               \* what drain() waits for
  IdleTimeout          \* in ticks

VARIABLES
  ends,   \* the two Connection objects
  link,   \* link[e]: the units on their way to end e
  luck    \* the scenario: how the caller dials, and what may still happen

connectionVars == <<ends, link, luck>>

Ends == {"caller", "called"}
Peer(e) == IF e = "caller" THEN "called" ELSE "caller"

NoKey == <<"none", "none">>
Plain(is) == [is |-> is, n |-> 0, key |-> NoKey, at |-> 0]
Noise == Plain("noise")

-----------------------------------------------------------------------------
(***************************************************************************)
(* Ciphers.                                                                *)
(***************************************************************************)
\* Rc4 applied to units that follow the ones encrypted before.
Encrypted(x, units) ==
  IF x.sendKey = NoKey THEN units
  ELSE [i \in 1..Len(units) |-> [units[i] EXCEPT !.key = x.sendKey, !.at = x.sendAt + i]]

Advance(x, units) == [x EXCEPT !.sendAt = IF x.sendKey = NoKey THEN @ ELSE @ + Len(units)]

\* What readExactly() returns for `size` units.
Decrypted(x, units) ==
  [i \in 1..Len(units) |->
     IF units[i].key = x.receiveKey /\ (x.receiveKey # NoKey => units[i].at = x.receiveAt + i)
     THEN units[i] ELSE Noise]

\* keyStreams(): both ciphers start anew.
KeyStreams(x, sendKey, receiveKey) ==
  [x EXCEPT !.sendKey = sendKey, !.sendAt = 0, !.receiveKey = receiveKey, !.receiveAt = 0]

\* padding(): its length, then that many bytes.
Padding(length) == <<[Plain("length") EXCEPT !.n = length]>> \o [i \in 1..length |-> Plain("pad")]

\* createTcpObfuscationKey(): the hash of the called end and a direction.
Key(hash, magic) == <<hash, magic>>
HashDialled == IF luck.mode = "wrong" THEN "another" ELSE "own"

-----------------------------------------------------------------------------
(***************************************************************************)
(* Reading and writing.                                                    *)
(***************************************************************************)
NewEnd(pc) ==
  [open |-> TRUE, pc |-> pc, sendKey |-> NoKey, sendAt |-> 0, receiveKey |-> NoKey,
   receiveAt |-> 0, pending |-> FALSE, skip |-> 0, body |-> 0,
   outbox |-> <<>>, inflight |-> <<>>, writing |-> FALSE, drain |-> "none", idle |-> 0,
   sent |-> <<>>, got |-> <<>>]

ConnectionInit ==
  /\ luck \in ConnectionScenarios
  /\ ends = [e \in Ends |-> NewEnd(IF e = "called" THEN "marker"
                                   ELSE IF luck.mode = "plain" THEN "ready" ELSE "dial")]
  /\ link = [e \in Ends |-> <<>>]

Touched(x) == [x EXCEPT !.idle = 0]
Becomes(e, x) == ends' = [ends EXCEPT ![e] = x]

\* drained_.cancel(): the waiting drain() goes on.
Cancelled(x) == [x EXCEPT !.drain = IF @ = "waiting" THEN "woken" ELSE @]

\* close(): pending reads and writes fail, drain() throws.
Shut(x) == Cancelled([x EXCEPT !.open = FALSE])

\* The cipher and the counters after readExactly(size).
Took(size, x) ==
  Touched([x EXCEPT !.receiveAt = IF x.receiveKey = NoKey THEN @ ELSE @ + size])

Ready(e, size) == ends[e].open /\ Len(link[e]) >= size
Peek(e, size) == Decrypted(ends[e], SubSeq(link[e], 1, size))

\* readExactly(size) with the rest of the step that follows it: `x` on
\* success, an exception otherwise.
Consume(e, size) == link' = [link EXCEPT ![e] = SubSeq(@, size + 1, Len(@))]
ReadInto(e, size, good, x) ==
  /\ Consume(e, size)
  /\ Becomes(e, IF good THEN Took(size, x) ELSE Shut(ends[e]))
  /\ UNCHANGED luck

\* writeAll(): the handshakes bypass the queue.
WriteAll(e, x, units) ==
  /\ link' = [link EXCEPT ![Peer(e)] = @ \o Encrypted(x, units)]
  /\ Becomes(e, Touched(Advance(x, units)))

-----------------------------------------------------------------------------
(***************************************************************************)
(* The handshakes.                                                         *)
(***************************************************************************)
\* obfuscateToClient(): the marker and the random key part go out plain.
DialClient ==
  LET x == ends["caller"]
      keyed == KeyStreams(x, Key(HashDialled, "requester"), Key(HashDialled, "server"))
  IN /\ x.pc = "dial" /\ x.open /\ luck.mode \in {"hidden", "wrong", "mute"}
     /\ \E length \in 0..MaxPadding :
          LET hidden == <<Plain("magic"), Plain("method"), Plain("method")>> \o Padding(length)
          IN /\ link' = [link EXCEPT !["called"] =
                           @ \o <<Plain("marker"), Plain("random")>> \o Encrypted(keyed, hidden)]
             /\ Becomes("caller", Touched(Advance([keyed EXCEPT !.pc = "answer"], hidden)))
     /\ UNCHANGED luck

\* obfuscateToServer(): the Diffie-Hellman exchange; keys come with theirs.
DialServer ==
  /\ ends["caller"].pc = "dial" /\ ends["caller"].open /\ luck.mode = "server"
  /\ \E length \in 0..MaxPadding :
       WriteAll("caller", [ends["caller"] EXCEPT !.pc = "theirs"],
                <<Plain("marker"), Plain("ours")>> \o Padding(length))
  /\ UNCHANGED luck

Theirs ==
  /\ ends["caller"].pc = "theirs" /\ Ready("caller", 1)
  /\ Consume("caller", 1)
  /\ Becomes("caller", [KeyStreams(ends["caller"], Key("shared", "requester"), Key("shared", "server"))
                          EXCEPT !.pc = "answer", !.idle = 0])
  /\ UNCHANGED luck

\* The fields before the padding: magic, method, length to a client; magic,
\* supported, preferred, length from a caller or a server.
AnswerSize == IF luck.mode = "server" THEN 4 ELSE 3

Answer ==
  /\ ends["caller"].pc = "answer" /\ Ready("caller", AnswerSize)
  /\ LET units == Peek("caller", AnswerSize)
     IN ReadInto("caller", AnswerSize, units[1].is = "magic",
                 [ends["caller"] EXCEPT !.pc = "skip", !.skip = units[AnswerSize].n])

\* The padding is read and dropped; it counts for the cipher.
Skipped(e) ==
  /\ ends[e].pc = "skip" /\ Ready(e, ends[e].skip)
  /\ ReadInto(e, ends[e].skip, TRUE,
       [ends[e] EXCEPT !.pc = IF e = "called" \/ luck.mode = "server" THEN "respond" ELSE "ready"])

Respond(e) ==
  /\ ends[e].pc = "respond" /\ ends[e].open
  /\ \E length \in 0..MaxPadding :
       WriteAll(e, [ends[e] EXCEPT !.pc = "ready"],
                <<Plain("magic"), Plain("method")>> \o Padding(length))
  /\ UNCHANGED luck

\* accept(): a protocol marker is the first byte of a plain packet.
AcceptMarker ==
  /\ ends["called"].pc = "marker" /\ luck.mode \notin {"mute", "server"} /\ Ready("called", 1)
  /\ LET plain == link["called"][1].is = "first"
     IN ReadInto("called", 1, TRUE,
          [ends["called"] EXCEPT !.pc = IF plain THEN "ready" ELSE "random",
                                 !.pending = plain,
                                 !.body = IF plain THEN link["called"][1].n ELSE 0])

AcceptRandom ==
  /\ ends["called"].pc = "random" /\ Ready("called", 1)
  /\ Consume("called", 1)
  /\ Becomes("called", [KeyStreams(ends["called"], Key("own", "server"), Key("own", "requester"))
                          EXCEPT !.pc = "request", !.idle = 0])
  /\ UNCHANGED luck

AcceptRequest ==
  /\ ends["called"].pc = "request" /\ Ready("called", 4)
  /\ LET units == Peek("called", 4)
     IN ReadInto("called", 4, units[1].is = "magic",
                 [ends["called"] EXCEPT !.pc = "skip", !.skip = units[4].n])

\* A server answers obfuscateToServer(): its key share, then its fields; its
\* side of the streams is keyed and it waits for the response.
ServerShare ==
  /\ luck.mode = "server" /\ ends["called"].pc = "marker" /\ Ready("called", 3)
  /\ Ready("called", 3 + link["called"][3].n)
  /\ Consume("called", 3 + link["called"][3].n)
  /\ Becomes("called", [ends["called"] EXCEPT !.pc = "share"])
  /\ UNCHANGED luck

ServerAnswers ==
  LET keyed == KeyStreams(ends["called"], Key("shared", "server"), Key("shared", "requester"))
  IN /\ ends["called"].pc = "share" /\ ends["called"].open
     /\ \E length \in 0..MaxPadding :
          LET hidden == <<Plain("magic"), Plain("method"), Plain("method")>> \o Padding(length)
          IN /\ link' = [link EXCEPT !["caller"] = @ \o <<Plain("share")>> \o Encrypted(keyed, hidden)]
             /\ Becomes("called", Advance([keyed EXCEPT !.pc = "response"], hidden))
     /\ UNCHANGED luck

ServerReads ==
  /\ ends["called"].pc = "response" /\ Ready("called", 3)
  /\ LET units == Peek("called", 3)
         size == 3 + units[3].n
     IN /\ Ready("called", size)
        /\ ReadInto("called", size, units[1].is = "magic", [ends["called"] EXCEPT !.pc = "ready"])

-----------------------------------------------------------------------------
(***************************************************************************)
(* Packets.                                                                *)
(***************************************************************************)
\* <protocol><length><opcode><payload>; n names the packet.
Packet(n, size) ==
  <<[Plain("first") EXCEPT !.n = n], [Plain("rest") EXCEPT !.n = size]>>
    \o [i \in 1..size |-> Plain("payload")]

\* send(): queued, encrypted in the order of the queue; startWriter().
Send(e, size) ==
  LET x == ends[e]
      units == Packet(Len(x.sent) + 1, size)
  IN /\ x.pc = "ready" /\ x.open
     /\ luck.packets[e] > 0 /\ luck' = [luck EXCEPT !.packets[e] = @ - 1]
     /\ Becomes(e, [Advance(x, units) EXCEPT
                      !.outbox = @ \o Encrypted(x, units),
                      !.sent = Append(@, <<Len(x.sent) + 1, size>>),
                      !.writing = TRUE])
     /\ UNCHANGED link

Queued(x) == Len(x.outbox) + Len(x.inflight)

\* writer(): takes what is queued, and stops when there is nothing.
Batch(x) ==
  IF x.outbox # <<>> /\ x.open
  THEN [x EXCEPT !.inflight = x.outbox, !.outbox = <<>>]
  ELSE Cancelled([x EXCEPT !.writing = FALSE])

WriterStarts(e) ==
  /\ ends[e].writing /\ ends[e].inflight = <<>>
  /\ Becomes(e, Batch(ends[e]))
  /\ UNCHANGED <<link, luck>>

\* A variant of Written, used to test the properties.
WrittenQuietly(x) == Touched([x EXCEPT !.inflight = x.outbox, !.outbox = <<>>, !.writing = x.outbox # <<>>])

Written(x) == Batch(Cancelled(Touched([x EXCEPT !.inflight = <<>>])))

WriteEnds(e) ==
  LET x == ends[e]
  IN /\ x.writing /\ x.inflight # <<>>
     /\ IF x.open /\ ends[Peer(e)].open
        THEN /\ link' = [link EXCEPT ![Peer(e)] = @ \o x.inflight]
             /\ Becomes(e, Written(x))
        ELSE /\ Becomes(e, Cancelled([Shut(x) EXCEPT !.writing = FALSE]))
             /\ UNCHANGED link
     /\ UNCHANGED luck

\* drain(): waits while more than Limit is queued.
Draining(x) ==
  [x EXCEPT !.drain = IF ~x.open THEN "thrown"
                      ELSE IF Queued(x) > Limit THEN "waiting" ELSE "none"]

Drain(e) ==
  /\ \/ ends[e].drain = "woken" /\ UNCHANGED luck
     \/ /\ ends[e].drain = "none" /\ ends[e].pc = "ready" /\ Queued(ends[e]) > Limit
        /\ luck.drains > 0 /\ luck' = [luck EXCEPT !.drains = @ - 1]
  /\ Becomes(e, Draining(ends[e]))
  /\ UNCHANGED link

\* read(): the header, whose first byte accept() may have read.
ReadHeader(e) ==
  LET x == ends[e]
      size == IF x.pending THEN 1 ELSE 2
  IN /\ x.pc = "ready" /\ Ready(e, size)
     /\ LET units == Peek(e, size)
            rest == units[size]
            n == IF x.pending THEN x.body ELSE units[1].n
        IN ReadInto(e, size, rest.is = "rest" /\ (x.pending \/ units[1].is = "first"),
             [x EXCEPT !.pc = "payload", !.pending = FALSE, !.body = n, !.skip = rest.n])

ReadPayload(e) ==
  /\ ends[e].pc = "payload" /\ Ready(e, ends[e].skip)
  /\ LET units == Peek(e, ends[e].skip)
     IN ReadInto(e, ends[e].skip, \A i \in 1..Len(units) : units[i].is = "payload",
          [ends[e] EXCEPT !.pc = "ready", !.got = Append(@, <<ends[e].body, ends[e].skip>>)])

-----------------------------------------------------------------------------
(***************************************************************************)
(* The end of a connection.                                                *)
(***************************************************************************)
\* The owner closes it.
CloseConnection(e) ==
  /\ ends[e].open /\ luck.closes > 0 /\ luck' = [luck EXCEPT !.closes = @ - 1, !.closed = TRUE]
  /\ Becomes(e, Shut(ends[e]))
  /\ UNCHANGED link

\* The peer closed and its data is read: the next read fails.
EndOfStream(e) ==
  /\ ends[e].open /\ ~ends[Peer(e)].open
  /\ link[e] = <<>>
  /\ Becomes(e, Shut(ends[e]))
  /\ UNCHANGED <<link, luck>>

\* watchdog(): no traffic for IdleTimeout.
Watchdog(e) ==
  /\ ends[e].open /\ ends[e].idle >= IdleTimeout
  /\ Becomes(e, Shut(ends[e]))
  /\ UNCHANGED <<link, luck>>

\* Seconds pass when nothing is under way, or in the middle of it (luck.race).
IdleTick ==
  /\ luck.race \/ \A e \in Ends : link[e] = <<>> /\ ~ends[e].writing
  /\ \A e \in Ends : ends[e].open => ends[e].idle < IdleTimeout
  /\ \E e \in Ends : ends[e].open
  /\ ends' = [e \in Ends |-> [ends[e] EXCEPT !.idle = IF ends[e].open THEN @ + 1 ELSE @]]
  /\ UNCHANGED <<link, luck>>

Handshake ==
  \/ DialClient \/ DialServer \/ Theirs \/ Answer \/ AcceptMarker \/ AcceptRandom \/ AcceptRequest
  \/ ServerShare \/ ServerAnswers \/ ServerReads
  \/ \E e \in Ends : Skipped(e) \/ Respond(e)

Runs(e) ==
  \/ WriterStarts(e) \/ WriteEnds(e) \/ ReadHeader(e) \/ ReadPayload(e)
  \/ EndOfStream(e) \/ Watchdog(e)

ConnectionNext ==
  \/ Handshake \/ IdleTick
  \/ \E e \in Ends : Runs(e) \/ Drain(e) \/ CloseConnection(e) \/ \E size \in 0..1 : Send(e, size)

ConnectionSpec == ConnectionInit /\ [][ConnectionNext]_connectionVars

\* Coroutines run, and time passes.
ConnectionFairSpec ==
  /\ ConnectionSpec
  /\ WF_connectionVars(Handshake) /\ WF_connectionVars(IdleTick)
  /\ \A e \in Ends : WF_connectionVars(Runs(e))

-----------------------------------------------------------------------------
(***************************************************************************)
(* Properties.                                                             *)
(***************************************************************************)
ConnectionTypeOK ==
  \A e \in Ends :
    /\ ends[e].drain \in {"none", "waiting", "woken", "thrown"}
    /\ ends[e].idle \in 0..IdleTimeout
    /\ ends[e].skip \in 0..MaxPadding \cup 0..1
    /\ ends[e].inflight # <<>> => ends[e].writing \/ ~ends[e].open

\* Each end receives the packets the other sent, in their order and with their
\* payload: batching, the byte accept() read ahead and the padding of the
\* handshakes leave no trace in the stream.
StreamOrder ==
  \A e \in Ends : IsPrefix(ends[e].got, ends[Peer(e)].sent)

\* Between ends that agree on the hash nothing on the way is ever unreadable:
\* a connection is closed by its owner, the peer or the watchdog only.
NothingGarbled ==
  luck.mode # "wrong" =>
    \A e \in Ends :
      ~ends[e].open => ~ends[Peer(e)].open \/ luck.closed \/ ends[e].idle >= IdleTimeout

\* A call to another client's hash never gets through: no packet is accepted
\* at either end.
WrongHashRejected ==
  luck.mode = "wrong" => \A e \in Ends : ends[e].got = <<>> /\ ends[e].pc # "ready"

\* drain() never misses its wake-up: while it waits there is more than its
\* limit queued on an open connection and the writer is at work.
DrainIsWoken ==
  \A e \in Ends :
    ends[e].drain = "waiting" => ends[e].open /\ ends[e].writing /\ Queued(ends[e]) > Limit

\* A handshake ends: answered, refused, or closed by the watchdog when the
\* other end says nothing.
Settled(e) == ends[e].pc \in {"ready", "payload"} \/ ~ends[e].open
HandshakeEnds == \A e \in Ends : []<>Settled(e)
=============================================================================

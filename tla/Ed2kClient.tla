----------------------------- MODULE Ed2kClient -----------------------------
(***************************************************************************)
(* The clients of the ED2K network (ed2k/Client.cc), their connections     *)
(* (ed2k/Network.cc) and the upload slots they share (ed2k/UploadQueue.cc) *)
(* for one file that is downloaded and shared.                             *)
(*                                                                         *)
(* A state s of the control thread holds the client records and the queue. *)
(* grant() may choose any waiting client, so a method that can free a slot *)
(* yields a set of states.  Scores, ranks and packets are left out.        *)
(***************************************************************************)
EXTENDS Integers, Sequences, SequencesExt, FiniteSets, FiniteSetsExt

CONSTANTS
  Clients,
  LowIds,         \* the clients that cannot be called
  UploadSlots,    \* ed2k-upload-slots
  MaxWaiting,
  MaxConnections, \* ed2k-max-connections
  MaxAsking,
  BlocksAhead,
  MaxFailures,    \* failures at which a source is dropped
  DropPending,    \* may a slot be lost before the client was told of it?
  CallsCross,     \* may a client call, or be given up, while it is dialled?
  ClientScenarios \* what may happen how often: records of these bounds
                  \*   calls    incoming connections
                  \*   fails    dials that fail, connections that end
                  \*   answers  answers to a file request, or slots granted us
                  \*   uploads  requests for an upload slot
                  \*   turns    uploads that reach the end of their session
                  \*   detach   the file leaves the network
                  \*   found    clients found to be sources
                  \*   sources  is every client a source at first?

VARIABLES
  s,         \* [cl: the client records, waiting and active: the upload queue]
  callers,   \* incoming connections that have not said hello, by client
  file,      \* "wanted", "shared" (complete) or "gone" (detached)
  allow      \* what the bounds still admit

clientVars == <<s, callers, file, allow>>

Ids == 1 .. 3   \* connections of one client at a time; 0 is none

NewClient(source) ==
  [cur |-> 0, live |-> {}, shut |-> {}, out |-> FALSE, hand |-> FALSE,
   connecting |-> FALSE, dials |-> 0,
   down |-> IF source THEN "Idle" ELSE "None", fails |-> 0, due |-> TRUE,
   reask |-> FALSE, blocks |-> 0,
   up |-> "None", names |-> FALSE, slot |-> FALSE, spent |-> FALSE]

Connected(x) == x.cur # 0 /\ x.cur \notin x.shut

\* Network::openConnections_: dials, readers and callers all count.
OpenConnections ==
  MapThenSumSet(LAMBDA c : s.cl[c].dials + Cardinality(s.cl[c].live) + callers[c], Clients)
MayConnect == OpenConnections < MaxConnections

\* disconnect(): the socket closes; the reading coroutine ends later.
Disconnect(x) == IF x.cur = 0 THEN x ELSE [x EXCEPT !.shut = @ \cup {x.cur}]

StopDownloading(x, next) ==
  IF x.down = "None" THEN [x EXCEPT !.blocks = 0]
  ELSE LET y == [x EXCEPT !.blocks = 0, !.down = next, !.due = FALSE,
                          !.connecting = @ /\ Connected(x)]
       IN IF Connected(y) /\ y.up = "None" /\ next # "Downloading" THEN Disconnect(y) ELSE y

\* The source failed: it is asked again later, and later still next time.
Failing(x) ==
  StopDownloading([x EXCEPT !.fails = IF @ < MaxFailures THEN @ + 1 ELSE @], "Idle")

DropSource(x) ==
  IF x.down = "None" THEN x
  ELSE LET y == [x EXCEPT !.blocks = 0, !.down = "None"]
       IN IF y.up = "None" /\ Connected(y) /\ ~y.connecting THEN Disconnect(y) ELSE y

Dial(x) == [x EXCEPT !.connecting = TRUE, !.dials = @ + 1]

\* A variant of RevokeSlot, used to test the properties.
RevokeSlotSilently(x) == x

RevokeSlot(x) == IF x.up # "Uploading" THEN x ELSE [x EXCEPT !.up = "None"]

-----------------------------------------------------------------------------
(***************************************************************************)
(* UploadQueue.  grantSlot() tells a connected client of its slot and      *)
(* calls any other; a client that cannot be called loses it at once.       *)
(***************************************************************************)
RECURSIVE Grants(_)

GrantSlot(st, c) ==
  LET x == st.cl[c]
      lost == [st EXCEPT !.active = @ \ {c}]
      set(y) == [st EXCEPT !.cl[c] = y]
  IN IF ~x.names THEN Grants(lost)
     ELSE IF Connected(x) /\ x.hand
     THEN {set([x EXCEPT !.up = "Uploading", !.spent = FALSE])}
     ELSE IF Connected(x) \/ x.connecting
     THEN {set([x EXCEPT !.slot = TRUE, !.up = "Uploading"])}
     ELSE IF c \in LowIds
     THEN IF c \in st.active
          THEN Grants([lost EXCEPT !.cl[c].slot = FALSE, !.cl[c].up = "None"])
          ELSE {[st EXCEPT !.cl[c].slot = FALSE, !.cl[c].up = "Uploading"]}
     ELSE {set(Dial([x EXCEPT !.slot = TRUE, !.up = "Uploading"]))}

Grants(st) ==
  IF Cardinality(st.active) >= UploadSlots \/ st.waiting = {} THEN {st}
  ELSE UNION {UNION {Grants(g) :
                g \in GrantSlot([st EXCEPT !.waiting = @ \ {c}, !.active = @ \cup {c}], c)} :
              c \in st.waiting}

LeaveQueue(st, c) ==
  LET r == [st EXCEPT !.waiting = @ \ {c}, !.active = @ \ {c}]
  IN IF c \notin st.active THEN {r} ELSE Grants([r EXCEPT !.cl[c] = RevokeSlot(@)])

\* request(): a full queue names a rank without taking the client in.
Request(st, c) ==
  IF c \in st.active THEN {st}
  ELSE LET full == c \notin st.waiting /\ Cardinality(st.waiting) >= MaxWaiting
           after == IF full THEN {st} ELSE Grants([st EXCEPT !.waiting = @ \cup {c}])
       IN {IF (full \/ c \in g.waiting) /\ g.cl[c].up # "Uploading"
           THEN [g EXCEPT !.cl[c].up = "Waiting"] ELSE g : g \in after}

\* tick(): purge, rotation, slots of clients that do not upload, grants.
QueueTick(st, purged) ==
  LET rest == [st EXCEPT !.waiting = @ \ purged]
      ended == IF rest.waiting = {} THEN {} ELSE {c \in rest.active : rest.cl[c].spent}
      turned == [rest EXCEPT !.active = @ \ ended, !.waiting = @ \cup ended,
                   !.cl = [c \in Clients |-> IF c \in ended THEN RevokeSlot(@[c]) ELSE @[c]]]
  IN Grants([turned EXCEPT !.active = {c \in @ : turned.cl[c].up = "Uploading"}])

-----------------------------------------------------------------------------
(***************************************************************************)
(* What a packet or a lost connection does to a client.                    *)
(***************************************************************************)
HandshakeDone(st, c) ==
  LET x == st.cl[c]
      ready == [st EXCEPT !.cl[c].hand = TRUE, !.cl[c].slot = FALSE]
      ask(g) ==
        LET y == g.cl[c] IN
        IF file = "wanted" /\ y.down \in {"Connecting", "Idle", IF y.out THEN "Queued" ELSE "Idle"}
        THEN [g EXCEPT !.cl[c].down = "Asking"] ELSE g
  IN {ask(g) : g \in IF x.slot THEN GrantSlot(ready, c) ELSE {ready}}

Closed(st, c) ==
  LET x == [st.cl[c] EXCEPT !.cur = 0, !.hand = FALSE, !.blocks = 0]
      y == CASE x.down \in {"Connecting", "Asking"} -> Failing(x)
             [] x.down = "Downloading" -> StopDownloading(x, "Idle")
             [] OTHER -> x
      g == [st EXCEPT !.cl[c] = y]
  IN IF y.up = "Uploading" THEN LeaveQueue(g, c) ELSE {g}

FreeId(x) == CHOOSE i \in Ids : i \notin x.live

\* run() begins to read from a connection.
Carry(x, out) ==
  LET i == FreeId(x)
  IN [x EXCEPT !.cur = i, !.live = @ \cup {i}, !.out = out, !.hand = FALSE, !.connecting = FALSE]

\* An incoming connection said hello: it replaces the client's own.
Adopt(st, c) ==
  LET x == st.cl[c]
      old == IF x.cur = 0 THEN {st} ELSE Closed(st, c)
      take(g) == [g EXCEPT !.cl[c] =
                    Carry([@ EXCEPT !.shut = IF x.cur = 0 THEN @ ELSE @ \cup {x.cur}], FALSE)]
  IN UNION {HandshakeDone(take(g), c) : g \in old}

\* askForFile(), given whether the server can ask a low ID client to call.
AskForFile(x, c, callback) ==
  IF x.down = "None" \/ file # "wanted" THEN x
  ELSE IF Connected(x) THEN IF x.hand THEN [x EXCEPT !.down = "Asking"] ELSE x
  ELSE IF x.connecting THEN x
  ELSE IF c \in LowIds
  THEN IF callback THEN [x EXCEPT !.down = "Connecting", !.connecting = TRUE, !.due = FALSE]
       ELSE StopDownloading(x, "Idle")
  ELSE IF ~MayConnect THEN [x EXCEPT !.due = FALSE]
  ELSE Dial([x EXCEPT !.down = "Connecting"])

\* requestBlocks(), when the task has n blocks to claim.
RequestBlocks(x, n, wants) ==
  IF x.blocks >= BlocksAhead \/ x.blocks + n > 0
  THEN [x EXCEPT !.blocks = IF @ + n > BlocksAhead THEN BlocksAhead ELSE @ + n]
  ELSE StopDownloading(x, IF wants THEN "Idle" ELSE "NoNeededParts")

\* detach(): every client in turn is dropped as a source and from the queue.
Detach(st) ==
  LET drop(g, c) == [g EXCEPT !.cl[c] = DropSource(@)]
      leave(g, c) == {[h EXCEPT !.cl[c] = RevokeSlot(@)] : h \in LeaveQueue(g, c)}
      each(gs, c) == UNION {IF g.cl[c].names THEN leave(drop(g, c), c) ELSE {drop(g, c)} : g \in gs}
  IN FoldLeft(each, {st}, SetToSeq(Clients))

-----------------------------------------------------------------------------
\* The next state, unless it shows a lost slot that the constant leaves out.
Commit(st) ==
  /\ s' = st
  /\ DropPending \/ \A c \in Clients : st.cl[c].slot => st.cl[c].up = "Uploading"

With(c, x) == [s EXCEPT !.cl[c] = x]

Spend(bound) == allow[bound] > 0 /\ allow' = [allow EXCEPT ![bound] = @ - 1]

ClientInit ==
  /\ allow \in ClientScenarios
  /\ s = [cl |-> [c \in Clients |-> NewClient(allow.sources)], waiting |-> {}, active |-> {}]
  /\ callers = [c \in Clients |-> 0]
  /\ file = "wanted"

\* Ed2kTask::schedule() asks a source whose time has come.
Schedule(c) ==
  LET x == s.cl[c] IN
  /\ file = "wanted" /\ x.due
  /\ x.down \in {"Idle", "NoNeededParts", IF x.fails = 0 THEN "NoFile" ELSE "Idle"}
  /\ Cardinality({d \in Clients : s.cl[d].down \in {"Connecting", "Asking"}}) < MaxAsking
  /\ \E callback \in BOOLEAN : Commit(With(c, AskForFile(x, c, callback)))
  /\ UNCHANGED <<callers, file, allow>>

\* Ed2kTask::tick() drops a source that keeps failing; another may be found.
DropDead(c) ==
  /\ s.cl[c].fails >= MaxFailures /\ s.cl[c].down = "Idle" /\ ~Connected(s.cl[c])
  /\ file = "wanted"
  /\ Commit(With(c, DropSource(s.cl[c])))
  /\ UNCHANGED <<callers, file, allow>>

\* Ed2kTask::addSource() and setSource(): a client is found to have the file.
SetSource(c) ==
  /\ s.cl[c].down = "None" /\ file = "wanted"
  /\ Commit(With(c, [s.cl[c] EXCEPT !.down = "Idle", !.due = TRUE, !.fails = 0]))
  /\ Spend("found") /\ UNCHANGED <<callers, file>>

\* nextAttempt_ is reached; dials and closed connections end earlier.
TimePasses(c) ==
  /\ ~s.cl[c].due /\ s.cl[c].down # "None" /\ s.cl[c].dials = 0 /\ s.cl[c].shut = {}
  /\ Commit(With(c, [s.cl[c] EXCEPT !.due = TRUE]))
  /\ UNCHANGED <<callers, file, allow>>

\* callBack() and checkFirewall(): we call a client for another reason.
CallBack(c) ==
  LET x == s.cl[c] IN
  /\ ~Connected(x) /\ ~x.connecting /\ c \notin LowIds /\ MayConnect
  /\ CallsCross \/ x.live = {}
  /\ Commit(With(c, Dial(x)))
  /\ Spend("calls") /\ UNCHANGED <<callers, file>>

\* connectAndRun() connects, or cannot.
DialSucceeds(c) ==
  /\ s.cl[c].dials > 0
  /\ Commit(With(c, Carry([s.cl[c] EXCEPT !.dials = @ - 1], TRUE)))
  /\ UNCHANGED <<callers, file, allow>>

DialFails(c) ==
  LET x == [s.cl[c] EXCEPT !.dials = @ - 1, !.connecting = FALSE]
      y == IF x.down = "Connecting" THEN Failing(x) ELSE x
  IN /\ s.cl[c].dials > 0
     /\ \E g \in IF y.slot THEN LeaveQueue(With(c, [y EXCEPT !.slot = FALSE]), c) ELSE {With(c, y)} :
          Commit(g)
     /\ Spend("fails") /\ UNCHANGED <<callers, file>>

\* The client on an outgoing connection answers our hello.
HelloAnswer(c) ==
  /\ Connected(s.cl[c]) /\ s.cl[c].out /\ ~s.cl[c].hand
  /\ \E g \in HandshakeDone(s, c) : Commit(g)
  /\ UNCHANGED <<callers, file, allow>>

\* acceptLoop() and serve(): who calls shows in the hello.
Accepted(c) ==
  /\ OpenConnections < MaxConnections + 10
  /\ callers' = [callers EXCEPT ![c] = @ + 1]
  /\ Spend("calls") /\ UNCHANGED <<s, file>>

Hello(c) ==
  /\ callers[c] > 0
  /\ CallsCross \/ s.cl[c].dials = 0
  /\ DropPending \/ ~s.cl[c].slot
  /\ callers' = [callers EXCEPT ![c] = @ - 1]
  /\ \E g \in Adopt(s, c) : Commit(g)
  /\ UNCHANGED <<file, allow>>

CallerLeaves(c) ==
  /\ callers[c] > 0
  /\ callers' = [callers EXCEPT ![c] = @ - 1]
  /\ Spend("fails") /\ UNCHANGED <<s, file>>

\* The coroutine that reads connection i ends.
ReaderEnds(c, i) ==
  LET x == [s.cl[c] EXCEPT !.live = @ \ {i}, !.shut = @ \ {i}]
  IN \E g \in IF x.cur = i THEN Closed(With(c, x), c) ELSE {With(c, x)} : Commit(g)

ShutReaderEnds(c) ==
  /\ \E i \in s.cl[c].live \cap s.cl[c].shut : ReaderEnds(c, i)
  /\ UNCHANGED <<callers, file, allow>>

\* The peer closes, a packet is refused, or the idle timeout passes.
ConnectionLost(c) ==
  /\ \E i \in s.cl[c].live \ s.cl[c].shut : ReaderEnds(c, i)
  /\ Spend("fails") /\ UNCHANGED <<callers, file>>

IdleTimeout(c) ==
  LET x == s.cl[c] IN
  /\ Connected(x) /\ (~x.hand \/ x.down = "Asking" \/ x.down = "Downloading")
  /\ Commit(With(c, Disconnect(x)))
  /\ UNCHANGED <<callers, file, allow>>

-----------------------------------------------------------------------------
(***************************************************************************)
(* Packets of a client that has shaken hands.                              *)
(***************************************************************************)
Talking(c) == \E i \in s.cl[c].live \ s.cl[c].shut : s.cl[c].hand

Answers(c, x) == Commit(With(c, x)) /\ Spend("answers") /\ UNCHANGED <<callers, file>>

\* statusAnswered(): it has no part we need.
NothingNeeded(c) ==
  /\ Talking(c) /\ s.cl[c].down \in {"Asking", "Queued"}
  /\ Answers(c, StopDownloading(s.cl[c], "NoNeededParts"))

\* OP_FILEREQANSNOFIL.
NoSuchFile(c) ==
  /\ Talking(c) /\ s.cl[c].down # "None"
  /\ Answers(c, StopDownloading(s.cl[c], "NoFile"))

\* queued().
QueueRank(c) ==
  LET x == s.cl[c]
      y == [x EXCEPT !.down = "Queued", !.fails = 0, !.due = FALSE]
  IN /\ Talking(c) /\ x.down \notin {"None", "Downloading"}
     /\ Answers(c, IF y.up = "None" THEN Disconnect(y) ELSE y)

\* udpPacket(): OP_FILENOTFOUND, or OP_REASKACK and OP_QUEUEFULL.
FileNotFound(c) ==
  /\ s.cl[c].reask
  /\ CallsCross \/ s.cl[c].dials = 0
  /\ Answers(c, StopDownloading([s.cl[c] EXCEPT !.reask = FALSE], "NoFile"))

ReaskAnswered(c) ==
  /\ s.cl[c].reask
  /\ Answers(c, [s.cl[c] EXCEPT !.reask = FALSE, !.due = FALSE])

\* OP_ACCEPTUPLOADREQ, when there are n blocks to ask for.
AcceptUpload(c) ==
  /\ Talking(c) /\ s.cl[c].down # "None" /\ file = "wanted"
  /\ \E n \in 0 .. BlocksAhead, wants \in BOOLEAN :
       Answers(c, RequestBlocks([s.cl[c] EXCEPT !.down = "Downloading"], n, wants))

\* OP_OUTOFPARTREQS.
OutOfPartRequests(c) ==
  /\ Talking(c) /\ s.cl[c].down = "Downloading"
  /\ Answers(c, [s.cl[c] EXCEPT !.blocks = 0, !.down = "Queued", !.due = FALSE])

\* receiveBlock() of the rest of a block, and blockDone().
BlockReceived(c) ==
  /\ Talking(c) /\ s.cl[c].down = "Downloading" /\ s.cl[c].blocks > 0
  /\ \E n \in 0 .. 1, wants \in BOOLEAN :
       Commit(With(c, RequestBlocks([s.cl[c] EXCEPT !.blocks = @ - 1], n, wants)))
  /\ UNCHANGED <<callers, file, allow>>

\* answerUploadRequest().
UploadRequested(c) ==
  LET x == s.cl[c] IN
  /\ Talking(c) /\ file # "gone" /\ ~(x.up = "Uploading" /\ x.names)
  /\ \E g \in Request(With(c, [x EXCEPT !.names = TRUE]), c) : Commit(g)
  /\ Spend("uploads") /\ UNCHANGED <<callers, file>>

\* OP_CANCELTRANSFER.
TransferCancelled(c) ==
  /\ Talking(c) /\ c \in s.waiting \cup s.active
  /\ \E g \in LeaveQueue(s, c) : Commit(g)
  /\ Spend("answers") /\ UNCHANGED <<callers, file>>

\* uploadLoop() sends: a part or an hour later the slot may be passed on.
Uploads(c) ==
  /\ s.cl[c].up = "Uploading" /\ ~s.cl[c].spent /\ ~s.cl[c].slot /\ Connected(s.cl[c])
  /\ Commit(With(c, [s.cl[c] EXCEPT !.spent = TRUE]))
  /\ Spend("turns") /\ UNCHANGED <<callers, file>>

-----------------------------------------------------------------------------
\* UploadQueue::tick(); a waiting client that is not connected may be purged.
UploadTick ==
  /\ \E purged \in SUBSET {c \in s.waiting : ~Connected(s.cl[c])} :
       \E g \in QueueTick(s, purged) : g # s /\ Commit(g)
  /\ UNCHANGED <<callers, file, allow>>

\* Client::tick(): nothing was sent in time, no callback came, or a queued
\* source is asked again, by UDP first.
TransferTimeout(c) ==
  /\ s.cl[c].down = "Downloading"
  /\ Commit(With(c, StopDownloading(s.cl[c], "Idle")))
  /\ UNCHANGED <<callers, file, allow>>

NoCallback(c) ==
  LET x == s.cl[c] IN
  /\ x.down = "Connecting" /\ x.connecting /\ c \in LowIds /\ x.due
  /\ Commit(With(c, StopDownloading([x EXCEPT !.connecting = FALSE], "Idle")))
  /\ UNCHANGED <<callers, file, allow>>

AskQueued(c) ==
  LET x == s.cl[c] IN
  /\ x.down = "Queued" /\ ~Connected(x) /\ x.due /\ file = "wanted"
  /\ \/ ~x.reask /\ c \notin LowIds /\ Commit(With(c, [x EXCEPT !.reask = TRUE]))
     \/ \E callback \in BOOLEAN :
          Commit(With(c, AskForFile([x EXCEPT !.reask = FALSE], c, callback)))
  /\ UNCHANGED <<callers, file, allow>>

\* The download completes: dropSources(); or the task leaves the network.
FileComplete ==
  /\ file = "wanted"
  /\ file' = "shared"
  /\ Commit([s EXCEPT !.cl = [c \in Clients |-> DropSource(@[c])]])
  /\ Spend("detach") /\ UNCHANGED callers

FileDetached ==
  /\ file # "gone"
  /\ file' = "gone"
  /\ \E g \in Detach(s) : Commit(g)
  /\ Spend("detach") /\ UNCHANGED callers

ClientNext ==
  \/ \E c \in Clients :
       \/ SetSource(c) \/ Schedule(c) \/ DropDead(c) \/ TimePasses(c) \/ CallBack(c)
       \/ DialSucceeds(c) \/ DialFails(c) \/ HelloAnswer(c)
       \/ Accepted(c) \/ Hello(c) \/ CallerLeaves(c)
       \/ ShutReaderEnds(c) \/ ConnectionLost(c) \/ IdleTimeout(c)
       \/ NothingNeeded(c) \/ NoSuchFile(c) \/ FileNotFound(c) \/ QueueRank(c) \/ ReaskAnswered(c)
       \/ AcceptUpload(c) \/ OutOfPartRequests(c) \/ BlockReceived(c)
       \/ UploadRequested(c) \/ TransferCancelled(c) \/ Uploads(c)
       \/ TransferTimeout(c) \/ NoCallback(c) \/ AskQueued(c)
  \/ UploadTick \/ FileComplete \/ FileDetached

(***************************************************************************)
(* A dial ends within its timeout, a closed connection's reader ends, and  *)
(* the timers of connections and clients run.                              *)
(***************************************************************************)
ClientFairness ==
  \A c \in Clients :
    /\ WF_clientVars(DialSucceeds(c) \/ DialFails(c)) /\ WF_clientVars(ShutReaderEnds(c))
    /\ WF_clientVars(IdleTimeout(c)) /\ WF_clientVars(TransferTimeout(c))
    /\ WF_clientVars(TimePasses(c)) /\ WF_clientVars(NoCallback(c))

ClientSpec == ClientInit /\ [][ClientNext]_clientVars /\ ClientFairness

-----------------------------------------------------------------------------
\* Client records and the queue are well formed.
ClientTypeOK ==
  /\ s.waiting \cup s.active \subseteq Clients /\ s.waiting \cap s.active = {}
  /\ \A c \in Clients : LET x == s.cl[c] IN
       /\ x.cur \in {0} \cup x.live /\ x.shut \subseteq x.live /\ x.live \subseteq Ids
       /\ x.down \in {"None", "Idle", "Connecting", "Asking", "Queued", "Downloading",
                      "NoNeededParts", "NoFile"}
       /\ x.up \in {"None", "Waiting", "Uploading"}
       /\ x.hand => x.cur # 0

(***************************************************************************)
(* Slots are given out in total as ed2k-upload-slots says: whoever         *)
(* uploads, or is being called to be told so, holds one of them.           *)
(***************************************************************************)
UploadsHoldSlots ==
  /\ Cardinality(s.active) <= UploadSlots
  /\ \A c \in Clients : s.cl[c].up = "Uploading" => c \in s.active

(***************************************************************************)
(* Nobody uploads a file that left the network: detach() ends the uploads  *)
(* of the file, those it grants on the way included.                       *)
(***************************************************************************)
DetachedIsNotServed == file = "gone" => \A c \in Clients : s.cl[c].up # "Uploading"

\* A client has at most one TCP connection (Client.h).
OneConnection == \A c \in Clients : Cardinality(s.cl[c].live \ s.cl[c].shut) <= 1

(***************************************************************************)
(* A source that is being connected to has something to wait for: a dial,  *)
(* a connection, or a callback with a deadline.  schedule() never looks at *)
(* such a source again, so without it the source would be lost for good.   *)
(***************************************************************************)
ConnectingHasReason ==
  \A c \in Clients : LET x == s.cl[c] IN
    x.down = "Connecting" => x.dials > 0 \/ x.cur # 0 \/ (c \in LowIds /\ x.connecting)

(***************************************************************************)
(* Blocks are claimed only by a source whose slot and connection can still *)
(* deliver them: no lost connection, cancelled slot or dropped source      *)
(* leaves a claim that keeps other sources from a block.                   *)
(***************************************************************************)
ClaimsCanArrive ==
  \A c \in Clients : s.cl[c].blocks > 0 => s.cl[c].down = "Downloading" /\ s.cl[c].cur # 0

\* Every attempt to reach a source or to ask it for the file comes to an end.
AttemptsEnd ==
  \A c \in Clients : []<>(s.cl[c].down \notin {"Connecting", "Asking"})
=============================================================================

----------------------------- MODULE RpcServer -----------------------------
(***************************************************************************)
(* The RPC server: the HTTP sessions and WebSocket clients of              *)
(* rpc/Server.cc and the calls rpc/Dispatcher.cc makes for them, on the    *)
(* one thread that runs the engine.  Handlers given to asio::post run in   *)
(* the order they were posted (io); the network and the engine act at any  *)
(* time between two handlers.                                              *)
(*                                                                         *)
(* A request is a document: one call, a batch, or neither.  What a method  *)
(* does is left out; that it was performed is not.  An answer lists the    *)
(* outcome of every call.                                                  *)
(***************************************************************************)
EXTENDS Integers, Sequences, FiniteSetsExt, RpcDocuments

CONSTANTS
  Clients,
  Scenarios   \* see RpcDocuments

VARIABLES
  rpc,        \* Server::State, its sessions and sockets
  io,         \* the posted handlers, in order
  engine,     \* what of the engine the server meets
  budget      \* the scenario: what the clients and the world will still do

rpcVars == <<rpc, io, engine, budget>>

Methods == {"tell", "fail", "shutdown", "listMethods"}
AsyncMethods == {"move"}

-----------------------------------------------------------------------------
(* Dispatcher *)

\* A token that is missing is let through, and not only a multicall's.
AuthorizedWithout(call) ==
  \/ ~budget.secret \/ call.name = "listMethods" \/ call.token # "wrong"

\* authorize(): the parameter "token:..." against the secret.  A multicall
\* without one is let in, for its calls carry their own.
Authorized(call) ==
  \/ ~budget.secret \/ call.name = "listMethods" \/ call.token = "right"
  \/ call.name = "multicall" /\ call.token = "none"

\* invoke() of anything but a multicall.
InvokeOne(call) ==
  CASE ~Authorized(call) -> "unauthorized"
    [] call.name \in AsyncMethods -> "alone"
    [] call.name \notin Methods -> "no such method"
    [] call.name = "fail" -> "failed"
    [] OTHER -> "done"

\* One call of a multicall: a failure is its own result and ends no other.
Nested(call) ==
  IF call.name \in {"multicall", "invalid"} THEN "invalid" ELSE InvokeOne(call)

\* invoke(): the outcomes of the call, one for each call of a multicall.
Invoke(call) ==
  IF call.name = "multicall" /\ Authorized(call)
  THEN [i \in DOMAIN call.calls |-> Nested(call.calls[i])]
  ELSE <<InvokeOne(call)>>

\* call()
Outcomes(call) == IF call.name = "invalid" THEN <<"invalid">> ELSE Invoke(call)

\* handle(): the response document to a batch, a call, or neither.
Handle(request) ==
  IF request.form = "garbage" THEN <<<<"invalid">>>>
  ELSE [i \in DOMAIN request.calls |-> Outcomes(request.calls[i])]

\* respond(): is the document a call of an asynchronous method?
IsAsync(request) == request.form = "call" /\ request.calls[1].name \in AsyncMethods

\* The calls of a document that reached their methods.
Performed(request) ==
  LET inner(call) == {call.calls[i] : i \in {j \in DOMAIN call.calls :
                        Authorized(call) /\ Nested(call.calls[j]) \in {"done", "failed"}}}
      of(call) == CASE call.name = "multicall" -> inner(call)
                    [] InvokeOne(call) \in {"done", "failed"} -> {call}
                    [] OTHER -> {}
  IN  UNION {of(request.calls[i]) : i \in DOMAIN request.calls}

-----------------------------------------------------------------------------
(* The engine, as far as the server meets it *)

Finish ==
  [what |-> "finish", client |-> "none", number |-> 0, says |-> <<>>, late |-> FALSE]

\* shutdown(false): with nothing active the end is posted; otherwise the stops
\* of the active tasks bring it.
Shutdown(s) ==
  IF s.engine.shutting THEN s
  ELSE [s EXCEPT !.engine.shutting = TRUE,
                 !.io = IF s.engine.active THEN s.io ELSE Append(s.io, Finish)]

Perform(s, calls) ==
  LET noted == [s EXCEPT !.engine.performed = @ \union calls]
  IN  IF \E call \in calls : call.name = "shutdown" THEN Shutdown(noted) ELSE noted

-----------------------------------------------------------------------------
(* Sessions *)

Now == [rpc |-> rpc, io |-> io, engine |-> engine]
Become(s) == rpc' = s.rpc /\ io' = s.io /\ engine' = s.engine

Answer(number, says) == [number |-> number, says |-> says]
\* A notification: the message with no request, numbered below zero.
Event(n) == [number |-> 0 - n, says |-> <<>>]

\* Every message starts a coroutine of its own.
SendEach(s, c, message) ==
  [s EXCEPT !.rpc.conn[c].queue = Append(@, message), !.rpc.conn[c].writers = @ + 1]

\* Socket::send(): a coroutine drains the queue, started with its first message.
Send(s, c, message) ==
  [s EXCEPT !.rpc.conn[c].queue = Append(@, message),
            !.rpc.conn[c].writers = IF s.rpc.conn[c].queue = <<>> THEN @ + 1 ELSE @]

\* The dispatcher's `done`: a session's coroutine is resumed by a posted
\* handler, a socket gets the message at once.  late: a shutdown was asked for.
Done(s, c, number, says) ==
  IF s.rpc.conn[c].socket THEN Send(s, c, Answer(number, says))
  ELSE [s EXCEPT !.io = Append(@, [what |-> "reply", client |-> c, number |-> number,
                                   says |-> says, late |-> s.engine.shutting])]

\* respond(): an asynchronous method refuses at once, by throwing, or answers
\* later; everything else is answered at once.
Respond(s, c, number, request) ==
  LET call == request.calls[1]
  IN  IF ~IsAsync(request)
      THEN Done(Perform(s, Performed(request)), c, number, Handle(request))
      ELSE IF ~Authorized(call)
           THEN Done(s, c, number, <<<<"unauthorized">>>>)
           ELSE [Perform(s, {call}) EXCEPT
                  !.rpc.pending = @ \union {[client |-> c, number |-> number]}]

Running == ~engine.stopped

\* accept(): a new session.
Connect(c) ==
  /\ Running /\ rpc.conn[c].at = "away"
  /\ rpc' = [rpc EXCEPT !.conn[c].at = "reading"]
  /\ UNCHANGED <<io, engine, budget>>

\* The session writes a response: async_write() of one message.
Write(s, c, message) ==
  [s EXCEPT !.rpc.conn[c].at = "writing", !.rpc.conn[c].queue = <<message>>,
            !.rpc.conn[c].writers = @ + 1]

\* answer() and answerXml(): is the response a status alone?  A GET is a call like
\* a POST (getRequest()); a document of /rpc that is no call is a bad request.
StatusOnly(request) ==
  request.way = "plain" \/ (request.way = "xml" /\ request.form = "garbage")

\* session(): the next request of a session that waits for one.
ReadRequest(c) ==
  LET k == rpc.conn[c].read + 1
      request == budget.script[c][k]
      s == [Now EXCEPT !.rpc.conn[c].read = k]
  IN  /\ Running /\ rpc.conn[c].at = "reading"
      /\ k <= Len(budget.script[c])
      /\ Become(
           IF request.large THEN Write(s, c, Answer(k, <<<<"too large">>>>))
           ELSE IF request.way = "upgrade" THEN [s EXCEPT !.rpc.conn[c].at = "accepting"]
           ELSE IF StatusOnly(request) THEN Write(s, c, Answer(k, <<<<"status">>>>))
           ELSE Respond([s EXCEPT !.rpc.conn[c].at = "asked"], c, k, request))
      /\ UNCHANGED budget

\* The handler posted by dispatch(): the session has its answer and writes it.
Reply(c, number, says) ==
  Become([Write(Now, c, Answer(number, says)) EXCEPT !.io = Tail(@)])

\* A session's response is written: the next request, unless the client asked
\* for the end of the connection or sent too much (rejectTooLarge()).
Written(c) ==
  LET message == Head(rpc.conn[c].queue)
      request == budget.script[c][message.number]
  IN  /\ Running /\ rpc.conn[c].at = "writing"
      /\ IF rpc.conn[c].broken
         THEN rpc' = [rpc EXCEPT !.conn[c].at = "closed", !.conn[c].queue = <<>>,
                                 !.conn[c].writers = @ - 1]
         ELSE rpc' = [rpc EXCEPT
                !.conn[c].at = IF request.keep /\ ~request.large THEN "reading" ELSE "closed",
                !.conn[c].queue = <<>>, !.conn[c].writers = @ - 1,
                !.conn[c].got = Append(@, message)]
      /\ UNCHANGED <<io, engine, budget>>

\* serveSocket(): the upgrade succeeds and the client gets notifications from
\* now on.
Accepted(c) ==
  /\ Running /\ rpc.conn[c].at = "accepting"
  /\ rpc' = IF rpc.conn[c].broken THEN [rpc EXCEPT !.conn[c].at = "closed"]
            ELSE [rpc EXCEPT !.conn[c].at = "socket", !.conn[c].socket = TRUE,
                             !.conn[c].joined = rpc.events,
                             !.sockets = @ \union {c}]
  /\ UNCHANGED <<io, engine, budget>>

\* serveSocket(): a message; one beyond rpc-max-request-size fails the read.
ReadMessage(c) ==
  LET k == rpc.conn[c].read + 1
      request == budget.script[c][k]
      s == [Now EXCEPT !.rpc.conn[c].read = k]
  IN  /\ Running /\ rpc.conn[c].at = "socket"
      /\ k <= Len(budget.script[c])
      /\ Become(IF request.large
                THEN [s EXCEPT !.rpc.conn[c].at = "closed", !.rpc.conn[c].broken = TRUE,
                               !.rpc.sockets = @ \ {c}]
                ELSE Respond(s, c, k, request))
      /\ UNCHANGED budget

\* drain(), after a write: the next message follows, or the write failed and
\* nothing does.
AfterWrite(conn) ==
  IF conn.broken \/ conn.queue = <<>>
  THEN [conn EXCEPT !.queue = <<>>, !.writers = @ - 1]
  ELSE [conn EXCEPT !.got = Append(@, Head(conn.queue)), !.queue = Tail(@),
                    !.writers = IF Len(conn.queue) = 1 THEN @ - 1 ELSE @]

Drained(c) ==
  /\ Running /\ rpc.conn[c].socket /\ rpc.conn[c].writers > 0
  /\ rpc' = [rpc EXCEPT !.conn[c] = AfterWrite(@)]
  /\ UNCHANGED <<io, engine, budget>>

\* The client goes away or a timeout ends its connection: reads and writes
\* fail from now on.
Drop(c) ==
  /\ Running /\ budget.drops > 0
  /\ rpc.conn[c].at \notin {"away", "closed"} /\ ~rpc.conn[c].broken
  /\ budget' = [budget EXCEPT !.drops = @ - 1]
  /\ rpc' = [rpc EXCEPT
       !.conn[c].broken = TRUE,
       !.conn[c].at = IF @ \in {"reading", "socket"} THEN "closed" ELSE @,
       !.sockets = @ \ {c}]
  /\ UNCHANGED <<io, engine>>

-----------------------------------------------------------------------------
(* What the engine does *)

\* An asynchronous method answers, with a result or an error.
AsyncAnswers(p) ==
  /\ Running /\ p \in rpc.pending
  /\ \E outcome \in {"done", "failed"} :
       Become(Done([Now EXCEPT !.rpc.pending = @ \ {p}], p.client, p.number,
                   <<<<outcome>>>>))
  /\ UNCHANGED budget

\* notify(): the event goes to every socket.
Tell(n) ==
  FoldSet(LAMBDA c, s : Send(s, c, Event(n)), [Now EXCEPT !.rpc.events = n], rpc.sockets)

\* A download's event: the listener of Main.cc.
Notify ==
  /\ Running /\ budget.events > 0
  /\ budget' = [budget EXCEPT !.events = @ - 1]
  /\ Become(Tell(rpc.events + 1))

\* A signal: Main.cc's onSignal.
Signal ==
  /\ Running /\ budget.signals > 0
  /\ budget' = [budget EXCEPT !.signals = @ - 1]
  /\ Become(Shutdown(Now))

\* The last active task has stopped for the shutdown: its `done` is posted.  (A
\* task that was stopping already may have posted it before the shutdown.)
TasksStopped ==
  /\ Running /\ engine.shutting /\ engine.active
  /\ engine' = [engine EXCEPT !.active = FALSE]
  /\ io' = Append(io, Finish)
  /\ UNCHANGED <<rpc, budget>>

\* finishShutdown() and stopLoop(): io_.stop(), after the ED2K network closed.
FinishShutdown ==
  Become([Now EXCEPT !.io = Tail(@),
            !.engine = IF budget.ed2k THEN [@ EXCEPT !.closing = TRUE]
                       ELSE [@ EXCEPT !.stopped = TRUE]])

NetworkClosed ==
  /\ Running /\ engine.closing
  /\ engine' = [engine EXCEPT !.stopped = TRUE]
  /\ UNCHANGED <<rpc, io, budget>>

\* The loop runs the next posted handler.
RunPosted ==
  /\ Running /\ io # <<>>
  /\ LET head == Head(io)
     IN  IF head.what = "finish" THEN FinishShutdown
         ELSE Reply(head.client, head.number, head.says)
  /\ UNCHANGED budget

\* Server::stop(), after Engine::run() returned; the process ends, and with it
\* every session.
StopServer ==
  /\ engine.stopped /\ ~rpc.stopped
  /\ rpc' = [rpc EXCEPT !.stopped = TRUE, !.sockets = {},
                        !.conn = [c \in Clients |-> [rpc.conn[c] EXCEPT !.at = "closed"]]]
  /\ UNCHANGED <<io, engine, budget>>

-----------------------------------------------------------------------------
NoConnection ==
  [at |-> "away", socket |-> FALSE, broken |-> FALSE, read |-> 0, joined |-> 0,
   writers |-> 0, queue |-> <<>>, got |-> <<>>]

RpcInit ==
  /\ budget \in Scenarios
  /\ rpc = [conn |-> [c \in Clients |-> NoConnection], sockets |-> {}, events |-> 0,
            pending |-> {}, stopped |-> FALSE]
  /\ io = <<>>
  /\ engine = [shutting |-> FALSE, active |-> budget.tasks, closing |-> FALSE,
               stopped |-> FALSE, performed |-> {}]

ClientStep(c) ==
  Connect(c) \/ ReadRequest(c) \/ Written(c) \/ Accepted(c) \/ ReadMessage(c)
    \/ Drained(c) \/ Drop(c)

RpcNext ==
  \/ \E c \in Clients : ClientStep(c)
  \/ \E p \in rpc.pending : AsyncAnswers(p)
  \/ Notify \/ Signal \/ TasksStopped \/ NetworkClosed \/ RunPosted \/ StopServer

-----------------------------------------------------------------------------
(* Properties *)

Messages(c) == rpc.conn[c].got \o rpc.conn[c].queue
Numbers(messages) == [i \in DOMAIN messages |-> messages[i].number]
IsEvent(n) == n < 0
IsAnswer(n) == n > 0

\* Every request that was read is answered exactly once: by a message that was
\* written or waits to be, by a posted handler, or by an asynchronous method
\* that will still answer.  Only a client that went away loses its answers.
AnsweredOnce ==
  \A c \in Clients : \A k \in 1..rpc.conn[c].read :
    LET written == Len(SelectSeq(Numbers(Messages(c)), LAMBDA n : n = k))
        posted == Len(SelectSeq(io, LAMBDA p : p.client = c /\ p.number = k))
        owed == IF [client |-> c, number |-> k] \in rpc.pending THEN 1 ELSE 0
    IN  \/ written + posted + owed = 1
        \/ /\ written + posted + owed = 0
           /\ rpc.conn[c].broken \/ budget.script[c][k].way = "upgrade"

\* The answers to a client come in the order of its requests; those of the
\* asynchronous methods called over a WebSocket may come later, and they alone.
InTurn ==
  \A c \in Clients :
    LET slow(k) == rpc.conn[c].socket /\ IsAsync(budget.script[c][k])
        answers == SelectSeq(Numbers(Messages(c)), LAMBDA n : IsAnswer(n) /\ ~slow(n))
    IN  \A i, j \in DOMAIN answers : i < j => answers[i] < answers[j]

\* A WebSocket client gets every notification since it was accepted, once and
\* in order, whatever answers are written in between.
NotifiedExactly ==
  \A c \in rpc.sockets :
    SelectSeq(Numbers(Messages(c)), IsEvent)
      = [i \in 1..(rpc.events - rpc.conn[c].joined) |-> 0 - (rpc.conn[c].joined + i)]

\* A queue with a message has exactly one coroutine that writes it: no two
\* writes of one socket overlap, and no message waits without a writer.
OneWriter ==
  \A c \in Clients : rpc.conn[c].writers = (IF rpc.conn[c].queue = <<>> THEN 0 ELSE 1)

\* With a secret set every method that was performed was called with it, or is
\* an open one: the token of a multicall or of a batch's other calls stands for
\* no call inside.  An asynchronous method was the whole document.
PerformedProperly ==
  \A call \in engine.performed :
    /\ budget.secret => call.name = "listMethods" \/ call.token = "right"
    /\ call.name \in AsyncMethods =>
         \E c \in Clients : \E k \in 1..rpc.conn[c].read :
           budget.script[c][k].form = "call" /\ budget.script[c][k].calls[1] = call

\* A request that a session read before the shutdown was asked for has its
\* answer written when the loop stops, if its method answers at once: its
\* handler was posted before the end was.
AnsweredAtExit ==
  engine.stopped =>
    \A i \in DOMAIN io : io[i].what = "reply" =>
      LET c == io[i].client
          request == budget.script[c][io[i].number]
      IN  IsAsync(request) \/ io[i].late

\* As long as the loop runs every request gets its answer.
NothingOwed ==
  engine.stopped \/ (io = <<>> /\ rpc.pending = {}
                      /\ \A c \in Clients : rpc.conn[c].queue = <<>>)
RequestsAnswered == []<>NothingOwed
=============================================================================

--------------------------- MODULE MCEngineScenes ---------------------------
(***************************************************************************)
(* Engine in two settings that one run checks side by side: a daemon with  *)
(* the clients of the configuration, and a command line without RPC, whose *)
(* downloads end by themselves and may seed meanwhile.  In a third scene   *)
(* RpcServer serves its clients; the engine stays as it is initially.      *)
(***************************************************************************)
EXTENDS MCEngine

CONSTANT RpcScenarios    \* of RpcServer

VARIABLES
  scene,                         \* "daemon", "command line" or "rpc"
  rpc, posted, engine, budget    \* RpcServer

CommandLine == INSTANCE Engine WITH
  Rpc <- FALSE, Calls <- {}, Situations <- {"sharing"}

\* The command line with both downloads as its input; with one of them, the
\* other can be added by a follower.
CommandLineTwo == INSTANCE Engine WITH
  Rpc <- FALSE, Calls <- {}, Situations <- {"sharing"}, Input <- <<h, b>>

-----------------------------------------------------------------------------
(* RpcServer: two clients, "q" over a WebSocket where its script begins    *)
(* with an upgrade.                                                        *)
Server == INSTANCE RpcServer WITH
  Clients <- {"p", "q"}, Scenarios <- RpcScenarios, io <- posted

Doc == INSTANCE RpcDocuments

With(name, token) == Doc!Call(name, token, <<>>)
Ask(name, token) == Doc!Request("json", "call", <<With(name, token)>>)
AskAll(token, calls) ==
  Doc!Request("json", "call", <<Doc!Call("multicall", token, calls)>>)
Upgrade == Doc!Request("upgrade", "garbage", <<>>)
BadXml == Doc!Request("xml", "garbage", <<>>)
LastOne == [Doc!Request("plain", "garbage", <<>>) EXCEPT !.keep = FALSE]
Large == [Ask("tell", "none") EXCEPT !.large = TRUE]
Scripts(p, q) == [c \in {"p", "q"} |-> IF c = "p" THEN p ELSE q]

\* Slow and quick calls, notifications and a client that leaves; a secret, and
\* every shape of a document; a shutdown by a client or a signal, with and
\* without downloads and the ED2K network.
MCRpc ==
  {Doc!Scenario(
     Scripts(<<Ask("move", "none"), Ask("tell", "none")>>,
             <<Upgrade, Ask("move", "none"), Ask("tell", "none"), Ask("fail", "none")>>),
     FALSE, FALSE, FALSE, 2, 0, 1),
   Doc!Scenario(
     Scripts(<<AskAll("none", <<With("tell", "right"), With("tell", "wrong"),
                                With("move", "right"), With("multicall", "right"),
                                With("fail", "right"), With("listMethods", "none")>>),
               BadXml, AskAll("wrong", <<With("tell", "right")>>), LastOne>>,
             <<Upgrade, AskAll("right", <<With("tell", "none"), With("other", "right")>>),
               Doc!Request("json", "batch", <<With("tell", "right"), With("move", "right"),
                                                 With("tell", "none"), With("invalid", "right")>>),
               Ask("move", "none"), Ask("move", "right"), Large>>),
     TRUE, FALSE, FALSE, 1, 0, 0),
   Doc!Scenario(
     Scripts(<<Ask("tell", "none"), Large>>, <<Ask("shutdown", "none"), Ask("tell", "none")>>),
     FALSE, FALSE, FALSE, 0, 1, 0)}
  \union
  {Doc!Scenario(
     Scripts(<<Ask("tell", "none"), Ask("move", "none")>>,
             <<Upgrade, Ask("tell", "none"), Ask("shutdown", "none")>>),
     FALSE, tasksRun, ed2k, 1, 1, 0) : tasksRun, ed2k \in BOOLEAN}

-----------------------------------------------------------------------------
serverVars == <<rpc, posted, engine, budget>>
sceneVars == <<vars, scene, serverVars>>

ScenesInit ==
  /\ \/ scene = "daemon" /\ Init
     \/ scene = "command line" /\ (CommandLine!Init \/ CommandLineTwo!Init)
     \/ scene = "rpc" /\ Init /\ limit = 1 /\ \A g \in Gid : state[g] # "Paused"
  /\ Server!RpcInit
  /\ scene = "rpc" \/ budget = CHOOSE s \in RpcScenarios : TRUE

\* Between two requests, and after its end, the server may stand still.
Rest == scene = "rpc" /\ UNCHANGED sceneVars

ScenesNext ==
  \/ scene = "daemon" /\ Next /\ UNCHANGED <<scene, serverVars>>
  \/ scene = "command line" /\ CommandLine!Next /\ UNCHANGED <<scene, serverVars>>
  \/ scene = "rpc" /\ Server!RpcNext /\ UNCHANGED <<scene, vars>>
  \/ Rest

\* Engine's Fairness, and of EndingSpec what concerns the command line.  Of the
\* fair steps only fill() tells the two settings apart.
ScenesFairness ==
  /\ WF_vars(\/ scene = "daemon" /\ RunHandler
             \/ scene = "command line" /\ CommandLine!RunHandler)
  /\ WF_vars(StopLoop)
  /\ \A g \in Gid : /\ WF_vars(Quiesce(g) \/ Detached(g))
                    /\ WF_vars(DiskCloses(g))
                    /\ WF_vars(\E ok \in BOOLEAN : DiskMoves(g, ok))
                    /\ WF_vars(/\ scene = "command line"
                               /\ Complete(g, <<>>) \/ Fail(g) \/ AwaitSelection(g))

\* The loop runs what is posted, writes end, asynchronous methods answer.
ServerFairness ==
  /\ WF_serverVars(scene = "rpc" /\ Server!RunPosted)
  /\ WF_serverVars(scene = "rpc" /\ \E p \in rpc.pending : Server!AsyncAnswers(p))
  /\ \A c \in {"p", "q"} : WF_serverVars(scene = "rpc" /\ (Server!Written(c) \/ Server!Drained(c)))

ScenesSpec ==
  ScenesInit /\ [][ScenesNext]_sceneVars /\ ScenesFairness /\ ServerFairness

-----------------------------------------------------------------------------
\* In a daemon a free slot is given to a waiting download, if there is one.
DaemonFreeSlotIsUsed == []<>(scene = "daemon" => ~FreeSlot)

\* Without RPC the process ends once its downloads do, and not before: what a
\* finished .torrent or Metalink file added meanwhile has run too (Engine::fill).
\* The queues of a stopped loop stay as they are.
ExitExact == []<>(scene = "command line" => loop = "stopped" /\ DrainedAtExit)

\* Every request the RPC server read is answered exactly once, whatever its
\* shape; only a client that went away loses its answers (Dispatcher::respond,
\* Server::State::dispatch, Socket::send).
AnsweredOnce == scene = "rpc" => Server!AnsweredOnce

\* The answers to a client come in the order of its requests, except those of
\* asynchronous methods over a WebSocket (session, serveSocket).
InTurn == scene = "rpc" => Server!InTurn

\* A WebSocket client gets every notification since it was accepted, once and
\* in order, whatever answers are written in between (Server::notify).
NotifiedExactly == scene = "rpc" => Server!NotifiedExactly

\* A socket's queue has exactly one coroutine that writes it: writes never
\* overlap and no message waits without a writer (Socket::send, drain).
OneWriter == scene = "rpc" => Server!OneWriter

\* With a secret set every method performed was called with it or is an open
\* one; an asynchronous method was called alone (authorize, invoke, respond).
PerformedProperly == scene = "rpc" => Server!PerformedProperly

\* When the loop stops, a session's request read before the shutdown was asked
\* for has its answer written (Engine::shutdown posts its end).
AnsweredAtExit == scene = "rpc" => Server!AnsweredAtExit

\* As long as the loop runs every request gets its answer (drain, dispatch).
RequestsAnswered == Server!RequestsAnswered

\* What a client of the RPC server receives is exact: one answer per request, in
\* turn, also around an exit, and every notification once; the one writer of each
\* socket is what this rests on (Server.cc, Dispatcher::respond).
AnsweredExactly ==
  /\ AnsweredOnce
  /\ InTurn
  /\ AnsweredAtExit
  /\ NotifiedExactly
  /\ OneWriter

\* What was asked for is done at last: a shutdown ends the process, stops, moves
\* and requests are answered, and a waiting download gets the slot that is free
\* (Engine::shutdown, stopTask, moveFilesOf, fill; Server.cc, drain).
EngineProgress ==
  /\ ShutdownEnds
  /\ StopsAnswered
  /\ MoveAnswered
  /\ DaemonFreeSlotIsUsed
  /\ RequestsAnswered
=============================================================================

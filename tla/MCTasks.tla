------------------------------ MODULE MCTasks ------------------------------
(***************************************************************************)
(* The tasks of the engine: small instances of HttpTransfer, BtTask and    *)
(* Media, and, for what must eventually happen, of SegmentPlanner and      *)
(* HostPool.  They share no state, so one run checks them side by side:    *)
(* scene says which of them a behaviour is about; the others stay as they  *)
(* are initially.  Media is extended, so that its properties are checked   *)
(* as they are proved.                                                     *)
(***************************************************************************)
EXTENDS Media

CONSTANTS
  Scenes,            \* the instances that are checked
  HttpScenarios, BtScenarios

VARIABLES
  scene,
  t, disk, record, remote, left, dead,                               \* HttpTransfer
  bt, torrent, alerts, posted, popping, batch, metainfo, resume, bounds, \* BtTask
  phase, ranged, length, received, workers, done, delivered, raced,
  named, faults,                                                     \* SegmentPlanner
  joined, demand, hosts, allowances, stale, overloads                \* HostPool

-----------------------------------------------------------------------------
(* HttpTransfer: two connections, a file of two units, up to three         *)
(* versions of it.                                                         *)
Quiet == [kind |-> "none", changes |-> 0, faults |-> 0, errors |-> 0,
          damage |-> 0, stops |-> 0, crashes |-> 0, rangeless |-> FALSE]

\* The server's file changes, responses fail or carry damage, the task is
\* stopped and started again, a write fails, the process dies.
MCHttp ==
  {[Quiet EXCEPT !.changes = 1, !.stops = 2],
   [Quiet EXCEPT !.changes = 2, !.faults = 1],
   [Quiet EXCEPT !.changes = 1, !.faults = 2],
   [Quiet EXCEPT !.stops = 1, !.faults = 1],
   [Quiet EXCEPT !.changes = 1, !.crashes = 2],
   [Quiet EXCEPT !.changes = 1, !.errors = 1],
   [Quiet EXCEPT !.damage = 2, !.crashes = 1],
   [Quiet EXCEPT !.kind = "record", !.changes = 1, !.stops = 1],
   [Quiet EXCEPT !.kind = "foreign", !.changes = 1, !.faults = 1, !.rangeless = TRUE],
   [Quiet EXCEPT !.rangeless = TRUE, !.changes = 1, !.stops = 1]}

\* An existing file is adopted, then the task is paused and resumed.
AdoptThenPause == {[Quiet EXCEPT !.kind = "foreign", !.changes = 1, !.stops = 1]}

Http == INSTANCE HttpTransfer WITH
  Slots <- {1, 2}, Units <- {1, 2}, Versions <- {1, 2, 3}, MaxRestarts <- 2,
  MaxRepairs <- 1, MaxTries <- 3, Checked <- TRUE, Scenarios <- HttpScenarios,
  CrashUnrecorded <- FALSE

-----------------------------------------------------------------------------
(* BtTask: two tasks, a torrent of one piece.                              *)
B(adds, stops, saves, errors, again, crashes) ==
  [adds |-> adds, stops |-> stops, saves |-> saves, errors |-> errors,
   again |-> again, crashes |-> crashes, fails |-> 0, died |-> 0]

\* Stops, checkpoints, libtorrent errors and process deaths around each kind of
\* addition; the same torrent added twice, at once or one after the other; saves
\* and resume writes that fail.
MCBt ==
  {B(<<"data">>, 2, 0, 0, 0, 0), B(<<"hold">>, 1, 0, 0, 0, 0),
   B(<<"magnet">>, 1, 1, 0, 0, 0), B(<<"data">>, 1, 0, 1, 0, 0),
   B(<<"hold">>, 0, 0, 0, 0, 1), B(<<"data">>, 1, 0, 0, 0, 1),
   B(<<"data">>, 0, 0, 1, 1, 0), B(<<"data", "magnet">>, 0, 0, 0, 1, 0),
   B(<<"data", "data">>, 1, 0, 0, 0, 0),
   [B(<<"data">>, 2, 1, 0, 0, 0) EXCEPT !.fails = 1],
   [B(<<"magnet">>, 1, 0, 0, 0, 0) EXCEPT !.fails = 2]}

Bt == INSTANCE BtTask WITH
  Gids <- {1, 2}, MaxPieces <- 1, Scenarios <- BtScenarios, Unselected <- FALSE,
  task <- bt, left <- bounds

-----------------------------------------------------------------------------
(* Media: two segments, a live window of two, three names for the output.  *)
Plain ==
  [found |-> FALSE, overwrite |-> FALSE, live |-> FALSE, probe |-> FALSE,
   starts |-> 2, stops |-> 0, finishes |-> 0, changes |-> 0, retries |-> 0,
   faults |-> 0, edits |-> 0, takes |-> 0, crashes |-> 0, places |-> 0,
   died |-> 0, took |-> FALSE, orphan |-> FALSE]

\* Pauses, removals, retries and deaths of downloads and of recordings whose
\* manifest changes, with outputs the user has, places or takes away.
MCMedia ==
  {[Plain EXCEPT !.starts = 3, !.stops = 1, !.retries = 1, !.faults = 1, !.edits = 1],
   [Plain EXCEPT !.stops = 1, !.edits = 1, !.crashes = 1],
   [Plain EXCEPT !.found = TRUE, !.retries = 1, !.takes = 1, !.crashes = 1],
   [Plain EXCEPT !.found = TRUE, !.overwrite = TRUE, !.stops = 1, !.crashes = 1],
   [Plain EXCEPT !.retries = 1, !.crashes = 1, !.places = 1],
   [Plain EXCEPT !.probe = TRUE, !.starts = 3, !.stops = 1, !.changes = 2],
   [Plain EXCEPT !.live = TRUE, !.stops = 1, !.finishes = 1, !.edits = 1, !.crashes = 1],
   [Plain EXCEPT !.live = TRUE, !.finishes = 1, !.retries = 1,
                 !.faults = 1, !.edits = 2]}

\* The theorems about Media are about this instance too.
ASSUME MediaInstance == Sizes

-----------------------------------------------------------------------------
(* SegmentPlanner with two connections, HostPool with one server.          *)
Planner == INSTANCE SegmentPlanner WITH
  Ids <- {1, 2}, Size <- 4, MinSplit <- 2, Floor <- 1, Alignment <- 2,
  MaxCopies <- 2, MaxChunk <- 2, Piece <- 3, HiddenSize <- FALSE, MaxFaults <- 1

Wants(wanted, remaining, transferring) ==
  [wanted |-> wanted, remaining |-> remaining, transferring |-> transferring]

Pool == INSTANCE HostPool WITH
  Members <- {1, 2}, Hosts <- {"a"}, Demands <- {Wants(3, 4, 1), Wants(3, 1, 2)},
  Calm <- 2, MaxPause <- 2, Waits <- {2}, MaxAge <- 1, MaxOverloads <- 2

-----------------------------------------------------------------------------
httpVars == <<t, disk, record, remote, left, dead>>
btVars == <<bt, torrent, alerts, posted, popping, batch, metainfo, resume, bounds>>
plannerVars == <<phase, ranged, length, received, workers, done, delivered, raced,
                 named, faults>>
poolVars == <<joined, demand, hosts, allowances, stale, overloads>>
allVars == <<scene, httpVars, btVars, mediaVars, plannerVars, poolVars>>

MCInit ==
  /\ scene \in Scenes
  /\ Http!Init /\ (scene = "http" \/ left = CHOOSE s \in HttpScenarios : TRUE)
  /\ Bt!Init /\ (scene = "bt" \/ bounds = CHOOSE s \in BtScenarios : TRUE)
  /\ MediaInit /\ (scene = "media" \/ rest = CHOOSE s \in MediaScenarios : TRUE)
  /\ Planner!Init /\ (scene = "planner" \/ phase = "Probing")
  /\ Pool!Init

\* Every task may come to rest, a plan may not: it has Terminated.
Stop == scene # "planner" /\ UNCHANGED allVars

MCNext ==
  \/ scene = "http" /\ Http!Next
     /\ UNCHANGED <<scene, btVars, mediaVars, plannerVars, poolVars>>
  \/ scene = "bt" /\ Bt!Next
     /\ UNCHANGED <<scene, httpVars, mediaVars, plannerVars, poolVars>>
  \/ scene = "media" /\ MediaNext
     /\ UNCHANGED <<scene, httpVars, btVars, plannerVars, poolVars>>
  \/ scene = "planner" /\ Planner!Next
     /\ UNCHANGED <<scene, httpVars, btVars, mediaVars, poolVars>>
  \/ scene = "pool" /\ Pool!Next
     /\ UNCHANGED <<scene, httpVars, btVars, mediaVars, plannerVars>>
  \/ Stop

\* The fairness each of the modules states, in its own scene.
In(name, step) == scene = name /\ step
MCFairness ==
  /\ WF_httpVars(In("http", Http!DiskJob \/ Http!CheckJob \/ Http!Completion))
  /\ WF_httpVars(In("http", Http!Network))
  /\ WF_btVars(In("bt", Bt!DrainStarts)) /\ WF_btVars(In("bt", Bt!DrainPops))
  /\ WF_btVars(In("bt", Bt!DrainDispatches))
  /\ \A g \in {1, 2} : /\ WF_btVars(In("bt", Bt!Execute(g))) /\ WF_btVars(In("bt", Bt!Writes(g)))
                       /\ WF_btVars(In("bt", Bt!WriteCompletes(g)))
  /\ WF_mediaVars(In("media", Poll)) /\ WF_mediaVars(In("media", WorkerStep))
  /\ WF_plannerVars(In("planner", Planner!Output))
  /\ WF_plannerVars(In("planner", \E id \in {1, 2} : \/ Planner!Probe(id)
                                                     \/ Planner!Whole(id) \/ Planner!Assign(id)))
  /\ \A id \in {1, 2} : /\ WF_plannerVars(In("planner", Planner!Answer(id) \/ Planner!Deliver(id)))
                        /\ WF_plannerVars(In("planner", Planner!Finished(id)))
  /\ WF_poolVars(In("pool", Pool!Tick))

MCSpec == MCInit /\ [][MCNext]_allVars /\ MCFairness

-----------------------------------------------------------------------------
\* HttpTask: while the server still serves the version a record names, every
\* byte the record claims is on disk in that version, whenever the process
\* dies (written, changed, checkpoint).
RecordTruthful == scene = "http" => Http!RecordTruthful

\* HttpTask: a completed file has every unit, all of one version, through
\* restarts, pauses and crashes (changed, restartWhenQuiet, succeed).
CompleteIsOneVersion == scene = "http" => Http!CompleteIsOneVersion

\* HttpTask: with piece hashes no damaged unit survives completion (checkPieces, repair).
CompleteIsSound == scene = "http" => Http!CompleteIsSound

\* HttpTask: an Output is opened only when no earlier one has work left on
\* the file (restartWhenQuiet).
OneOutput == scene = "http" => Http!OneOutput

\* HttpTask: pendingWrites_ counts exactly the writes whose completion is
\* still to come, across restarts and stops (write, written).
PendingExact == scene = "http" => Http!PendingExact

\* HttpTask: "An existing file is adopted as a prefix and never truncated"
\* (HttpTask.cc, decidePath).
AdoptedFileKept == scene = "http" => Http!AdoptedFileKept

\* HttpTask: stop() is answered, whatever phase it meets (stop, quiesce).
StopAnswered == Http!StopAnswered

\* HttpTask: a started download completes, fails or is stopped; it never
\* stays under way.
Ends == Http!Ends

\* HttpTask is a task as the engine expects one: HttpTransfer implements
\* TaskContract (Task.h).
HttpKeepsContract == Http!KeepsContract

\* BtTask: a torrent leaves the session only after its newest resume data
\* reached the disk, unless that save or that write failed (maybeRemove).
LeavesSaved == scene = "bt" => Bt!LeavesSaved

\* BtTask: a removed task leaves no resume file behind, whatever was on its
\* way to the disk when discardState() ran.
DiscardedStaysDiscarded == scene = "bt" => Bt!DiscardedStaysDiscarded

\* BtTask: with pause-metadata no content of a magnet link is fetched before
\* its files were selected (metadataReceived).
SelectionFirst == scene = "bt" => Bt!SelectionFirst

\* BtTask: the metainfo a waiting or active task will be restored from stays
\* in the state directory (discardState, the duplicate check).
MetainfoKept == scene = "bt" => Bt!MetainfoKept

\* BtTask: every stop is answered, by attached(), addFailed() or detached(),
\* and no alert is left queued without a drain to fetch it (bt/Session.cc).
StopsAnswered == Bt!StopsAnswered

\* BtTask is a task as the engine expects one: it implements TaskContract,
\* for each of its tasks.
BtKeepsContract == Bt!KeepsContract

\* SegmentPlanner: every plan is finished when the connections make progress
\* (Assign, Finished).
Completes == []<>(scene = "planner" => phase = "Done")

\* HostPool: once the overload answers stop, every limit is lifted for good,
\* whatever the downloads do meanwhile (update, recovery).
LimitsLifted == Pool!LimitsLifted

-----------------------------------------------------------------------------
\* HttpTask: a completed file is whole, of one version and free of damage
\* (changed, restartWhenQuiet, checkPieces, succeed).
CompleteIsRight ==
  /\ scene = "http" => Http!TypeOK
  /\ CompleteIsOneVersion
  /\ CompleteIsSound

\* HttpTask: the file on disk has one writer whose writes are counted, and is not
\* truncated when it was the user's (decidePath, restartWhenQuiet, written).
FilesKept == OneOutput /\ PendingExact /\ AdoptedFileKept

\* BtTask: what the state directory holds of a torrent is what its task needs, and
\* nothing runs that was not selected (maybeRemove, discardState,
\* metadataReceived).
TorrentKept ==
  /\ scene = "bt" => Bt!TypeOK
  /\ LeavesSaved
  /\ DiscardedStaysDiscarded
  /\ SelectionFirst
  /\ MetainfoKept

\* HttpTask, BtTask: every stop is answered, whatever phase it meets (stop,
\* quiesce, maybeRemove, drain).
TasksStop == StopAnswered /\ StopsAnswered

\* HttpTask, MediaTask, SegmentPlanner, HostPool: what was started comes to its
\* end, a plan to a whole file, and a limit is lifted when the refusals end.
TasksEnd == Ends /\ MediaEnds /\ Completes /\ LimitsLifted

\* Every kind of task here implements what the engine relies on (Task.h).
TasksKeepContract == HttpKeepsContract /\ BtKeepsContract /\ MediaKeepsContract
=============================================================================

------------------------------- MODULE Engine -------------------------------
(***************************************************************************)
(* core/Engine: the task queue and the life of a task, from aria2.add* to  *)
(* its stopped result, and the end of the process.                         *)
(*                                                                         *)
(* Everything runs on the control thread.  io is the queue of handlers     *)
(* posted to it (asio::post and completions of the disk pool), served in   *)
(* order; a client call is a handler of the RPC server, whose socket event *)
(* may have been queued before any of them, so a call may come between any *)
(* two handlers.  Protocol tasks (HttpTask, BtTask, Ed2kTask, MediaTask)   *)
(* appear by their contract: start(), stop(force, done), complete() and    *)
(* failed().  They differ in when stop() answers:                          *)
(*   http   within the call when no output file is open, else after its    *)
(*          pending writes and the close of the file, which carries done;  *)
(*   bt     BitTorrent and ED2K: after the session let go of the download; *)
(*   media  once the worker thread noticed the cancellation.               *)
(* A second stop() of a task replaces the callback that still waits        *)
(* (stopped_); one that already travels with a file close is not recalled. *)
(***************************************************************************)
EXTENDS Queues, Integers

CONSTANTS
  Gid,            \* the downloads that may be added
  NoGid,          \* the gid of a handler that is about no download
  Kind,           \* the kind of task each of them starts as
  Input,          \* the downloads queued by the command line or the session file
  Limits,         \* the values max-concurrent-downloads may take
  MaxResults,     \* max-download-result
  KeepUnfinished, \* keep-unfinished-download-result
  Rpc,            \* enable-rpc
  Ed2k,           \* whether the ED2K network is up: its close() is asynchronous
  Calls,          \* the client calls that are made
  Situations      \* the overlaps of requests that occur, see SituationNames

\* Overlaps of a request with work in flight, under which the engine behaves
\* differently from what it does for requests made one after the other:
\*   ending   a stop reaches a task whose complete() or failed() was called
\*            and whose retire() is still queued
\*   restop   a forced stop reaches a task that is stopping already
\*   moving   files are moved while the engine shuts down
\*   nodisk   files are moved before any transfer created the disk pool
\*   sharing  a task stops counting toward max-concurrent-downloads
\*   handing  a stop reaches an HTTP task whose handOver() is still queued
SituationNames == {"ending", "restop", "moving", "nodisk", "sharing", "handing"}

CallNames == {"add", "pause", "unpause", "remove", "forceRemove", "pauseAll",
              "unpauseAll", "moveDownload", "changePosition", "changeLimit",
              "removeResult", "purge", "retry", "saveSession", "shutdown",
              "forceShutdown"}

Kinds == {"http", "bt", "media"}
Queued == {"Waiting", "Paused"}
Results == {"Complete", "Error", "Removed"}
States == {"New", "Active"} \cup Queued \cup Results
Nexts == {"Paused", "Waiting", "Removed"}   \* what stopTask() is asked for

ASSUME ConstantsOK ==
  /\ NoGid \notin Gid
  /\ Kind \in [Gid -> Kinds]
  /\ Input \in Seq(Gid) /\ Distinct(Input)
  /\ Limits \subseteq Nat \ {0} /\ Limits # {}
  /\ MaxResults \in Nat
  /\ KeepUnfinished \in BOOLEAN /\ Rpc \in BOOLEAN /\ Ed2k \in BOOLEAN
  /\ Calls \subseteq CallNames
  /\ Situations \subseteq SituationNames

VARIABLES
  tasks,          \* keys of tasks_
  state,          \* Task::state_, "New" before add()
  stopping,       \* Task::stopping_
  kind,           \* the class of the task object; handOver() replaces it
  work,           \* the protocol side: idle, running, handing (handOver() is
                  \* posted), over (complete() or failed() posted retire())
  onStop,         \* what the callback in Task's stopped_ will do
  closing,        \* http: callbacks that travel with a close of the output file
  active, waiting, stopped, \* active_, waiting_, stopped_
  moving,         \* moving_: no entry, waits for the stop, started (the pool
                  \* moves the files), posted (its completion is queued)
  resume,         \* Move::resume
  astray,         \* the files were moved, relocated() did not run yet
  sharing,        \* finished_ and detach-share-only: while active such a task does
                  \* not count toward the limit; finished_ stays until the next start
  limit,          \* max-concurrent-downloads
  disk,           \* disk_ was created
  scheduled, shuttingDown, forceShutdown,
  loop,           \* the event loop: running, closing (finished_), stopped
  session,        \* the entries of the session file
  io              \* the handlers posted to the control thread

object == <<tasks, state, stopping, kind, work, onStop, closing>>
queues == <<active, waiting, stopped>>
moves == <<moving, resume, astray>>
flags == <<sharing, limit, disk, shuttingDown, forceShutdown>>
vars == <<object, queues, moves, flags, scheduled, loop, session, io>>

Handlers ==
  [do : {"fill", "finish"}, gid : {NoGid}, arg : {"none"}]
    \cup [do : {"retire"}, gid : Gid, arg : Results]
    \cup [do : {"done"}, gid : Gid, arg : Nexts]
    \cup [do : {"moved"}, gid : Gid, arg : {"ok", "failed"}]
    \cup [do : {"handOver"}, gid : Gid, arg : {"none"}]

Entries == [gid : Gid, paused : BOOLEAN]

\* The queues, the flags of the tasks, the handlers in flight and the session file
\* keep the types of the fields of Engine and Task they stand for.
TypeOK ==
  /\ tasks \in SUBSET Gid
  /\ state \in [Gid -> States]
  /\ stopping \in [Gid -> BOOLEAN]
  /\ kind \in [Gid -> Kinds]
  /\ work \in [Gid -> {"idle", "running", "handing", "over"}]
  /\ onStop \in [Gid -> Nexts \cup {"none"}]
  /\ closing \in [Gid -> Seq(Nexts)]
  /\ active \in Seq(Gid) /\ waiting \in Seq(Gid) /\ stopped \in Seq(Gid)
  /\ moving \in [Gid -> {"no", "waits", "started", "posted"}]
  /\ resume \in [Gid -> BOOLEAN]
  /\ astray \in SUBSET Gid
  /\ sharing \in SUBSET Gid
  /\ limit \in Limits
  /\ disk \in BOOLEAN /\ scheduled \in BOOLEAN
  /\ shuttingDown \in BOOLEAN /\ forceShutdown \in BOOLEAN
  /\ loop \in {"running", "closing", "stopped", "crashed"}
  /\ session \in Seq(Entries)
  /\ io \in Seq(Handlers)

Handler(do, gid, arg) == [do |-> do, gid |-> gid, arg |-> arg]
Fill == Handler("fill", NoGid, "none")
Finish == Handler("finish", NoGid, "none")
\* Mutant: a finished task answers a stop that nobody asked for.
RetireAsDone(g, as) == Handler("done", g, as)
Retire(g, as) == Handler("retire", g, as)

-----------------------------------------------------------------------------
(* Helpers of the engine.                                                  *)

\* Mutants: the test of scheduled_ is missing; the flag is set and nothing posted.
ScheduleTwice(queue) == scheduled' = TRUE /\ io' = Append(queue, Fill)
ScheduleFlagOnly(queue) == scheduled' = TRUE /\ io' = queue

\* schedule(): at most one fill() is queued; queue is what else was posted.
Schedule(queue) ==
  /\ scheduled' = TRUE
  /\ io' = IF scheduled THEN queue ELSE Append(queue, Fill)

\* Like Schedule, when the call may end before schedule().
ScheduleIf(wanted, queue) ==
  IF wanted THEN Schedule(queue) ELSE io' = queue /\ UNCHANGED scheduled

\* activeCount().
ActiveCount == Cardinality({i \in DOMAIN active : active[i] \notin sharing})

\* What fill() may still start; the mutant compares with <= for <.
RoomOneMore == limit - ActiveCount + 1
Room == limit - ActiveCount

\* The trim loop of retire(): the oldest results beyond max-download-result.
Excess(s, st) ==
  LET old == {i \in DOMAIN s : KeepUnfinished => st[s[i]] = "Complete"}
      over == Len(s) - MaxResults
  IN  {i \in old : Rank(old, i) <= over}

\* Mutant: a trimmed result stays in tasks_.
RetireTaskKept(g, st) ==
  LET s == Append(stopped, g)
  IN  /\ active' = Without(active, {g})
      /\ stopped' = KeepAt(s, DOMAIN s \ Excess(s, st))
      /\ UNCHANGED tasks

\* retire() of one task, st being the states after it; the caller schedules.
RetireTask(g, st) ==
  LET s == Append(stopped, g)
  IN  /\ active' = Without(active, {g})
      /\ stopped' = KeepAt(s, DOMAIN s \ Excess(s, st))
      /\ tasks' = tasks \ {s[i] : i \in Excess(s, st)}

\* saved(): what of the queue goes to the session file.
Saved(s) == s \notin {"Complete", "Removed"}

\* Mutant: pause=true is not written.
SessionUnpaused(all, st) ==
  LET kept == KeepAt(all, {i \in DOMAIN all : Saved(st[all[i]])})
  IN  [i \in DOMAIN kept |-> [gid |-> kept[i], paused |-> FALSE]]

\* serializeSession() of active_, waiting_ and stopped_, in this order.
SessionOf(all, st) ==
  LET kept == KeepAt(all, {i \in DOMAIN all : Saved(st[all[i]])})
  IN  [i \in DOMAIN kept |-> [gid |-> kept[i], paused |-> st[kept[i]] = "Paused"]]

\* finishShutdown(), once: the session is saved and the loop ends, at once or
\* when the ED2K network closed.
FinishShutdown ==
  /\ loop' = IF Ed2k THEN "closing" ELSE "stopped"
  /\ session' = SessionOf(active' \o waiting' \o stopped', state')

Live == loop \in {"running", "closing"}

\* How stop() of a task may answer: within the call, or later.
MaySync(g) == ~stopping[g] /\ (kind[g] = "http" \/ work[g] = "over")
MayWait(g) ==
  IF kind[g] = "http" THEN disk /\ work[g] # "handing" ELSE work[g] = "running"

\* The overlaps with work in flight that this instance admits.
Stoppable(S) ==
  \A g \in S : /\ work[g] = "over" => "ending" \in Situations
               /\ work[g] = "handing" => "handing" \in Situations
               /\ stopping[g] => "restop" \in Situations

\* The callback of stopTask(), run for the tasks ys one after the other.  st and
\* mv are state and moving before it, down is shuttingDown_, queue the handlers
\* posted before it.
StopDone(ys, next, st, mv, down, queue) ==
  LET Y == Values(ys)
      held == {g \in Y : mv[g] = "waits"}
      move == next = "Paused" /\ ~down
  IN  /\ state' = [g \in Gid |-> IF g \in Y THEN next ELSE st[g]]
      /\ work' = [g \in Gid |-> IF g \in Y THEN "idle" ELSE work[g]]
      /\ IF next = "Removed" /\ ys # <<>>
         THEN RetireTask(ys[1], state') /\ UNCHANGED waiting
         ELSE /\ active' = Without(active, Y)
              /\ waiting' = Reversed(ys) \o waiting
              /\ UNCHANGED <<stopped, tasks>>
      /\ moving' = [g \in Gid |-> IF g \in held
                                 THEN IF move THEN "started" ELSE "no"
                                 ELSE mv[g]]
      /\ IF move /\ held # {} /\ ~disk   \* moveFilesOf() uses disk_ as it is
         THEN loop' = "crashed" /\ UNCHANGED session
         ELSE IF ys # <<>> /\ down /\ active' = <<>> /\ loop = "running"
              THEN FinishShutdown
              ELSE UNCHANGED <<loop, session>>
      /\ ScheduleIf(ys # <<>>, queue)

\* stopTask() of every task in S; those in Y answer within the call.
StopTasks(S, Y, next, st, mv, down) ==
  LET later == S \ Y
  IN  /\ stopping' = [g \in Gid |-> g \notin Y /\ (g \in later \/ stopping[g])]
      /\ onStop' = [g \in Gid |-> IF g \in later /\ closing[g] = <<>>
                                 THEN next ELSE onStop[g]]
      /\ closing' = [g \in Gid |-> IF g \in later /\ closing[g] # <<>>
                                  THEN Append(closing[g], next) ELSE closing[g]]
      /\ StopDone(Only(active, Y), next, st, mv, down, io)

\* The tasks of S whose stop() may answer within the call.
Answers(S) ==
  {Y \in SUBSET S : (\A g \in Y : MaySync(g)) /\ (\A g \in S \ Y : MayWait(g))}

-----------------------------------------------------------------------------
(* Client calls.  The guards on state are those of rpc/Methods.            *)

Call(name) == name \in Calls /\ Live

\* add(): by aria2.add*, with a position or at the end.
Add(g, paused, at) ==
  /\ Call("add") /\ state[g] = "New"
  /\ tasks' = tasks \cup {g}
  /\ state' = [state EXCEPT ![g] = IF paused THEN "Paused" ELSE "Waiting"]
  /\ waiting' = Insert(waiting, at, g)
  /\ Schedule(io)
  /\ UNCHANGED <<stopping, kind, work, onStop, closing, active, stopped,
                 moves, flags, loop, session>>

\* pause(): by aria2.pause and forcePause, which refuse other states, and by a
\* task that waits for a selection.  A stop answers the later, Y, or at once.
PauseTask(g, Y) ==
  /\ resume' = [resume EXCEPT ![g] = FALSE]
  /\ \/ /\ state[g] = "Waiting"
        /\ state' = [state EXCEPT ![g] = "Paused"]
        /\ UNCHANGED <<tasks, stopping, kind, work, onStop, closing, queues,
                       moving, scheduled, loop, session, io>>
     \/ /\ state[g] = "Active" /\ ~stopping[g]
        /\ StopTasks({g}, Y, "Paused", state, moving, shuttingDown)
        /\ UNCHANGED kind
     \/ /\ state[g] = "Active" /\ stopping[g]
        /\ UNCHANGED <<object, queues, moving, scheduled, loop, session, io>>
  /\ UNCHANGED <<astray, flags>>

Pause(g) ==
  /\ Call("pause") /\ g \in tasks
  /\ LET S == {g} \cap {t \in Gid : state[t] = "Active" /\ ~stopping[t]}
     IN  Stoppable(S) /\ \E Y \in Answers(S) : PauseTask(g, Y)

\* Mutant: a move in progress does not hold the task back.
UnpauseMoving(g) ==
  /\ Call("unpause") /\ g \in tasks /\ state[g] = "Paused"
  /\ state' = [state EXCEPT ![g] = "Waiting"]
  /\ Schedule(io)
  /\ UNCHANGED <<tasks, stopping, kind, work, onStop, closing, queues, moves,
                 flags, loop, session>>

\* unpause(): by aria2.unpause, which refuses what is not paused.
Unpause(g) ==
  /\ Call("unpause") /\ g \in tasks /\ state[g] = "Paused"
  /\ IF moving[g] # "no"
     THEN /\ resume' = [resume EXCEPT ![g] = TRUE]
          /\ UNCHANGED <<state, scheduled, io>>
     ELSE /\ state' = [state EXCEPT ![g] = "Waiting"]
          /\ Schedule(io)
          /\ UNCHANGED resume
  /\ UNCHANGED <<tasks, stopping, kind, work, onStop, closing, queues, moving,
                 astray, flags, loop, session>>

\* remove(): a queued task becomes a result at once, an active one is stopped
\* first; one that is stopping only when forced.  Refused during a move.
Remove(g, force) ==
  /\ Call(IF force THEN "forceRemove" ELSE "remove")
  /\ g \in tasks /\ moving[g] = "no"
  /\ \/ /\ state[g] \in Queued
        /\ waiting' = Without(waiting, {g})
        /\ state' = [state EXCEPT ![g] = "Removed"]
        /\ RetireTask(g, state')
        /\ Schedule(io)
        /\ UNCHANGED <<stopping, work, onStop, closing, moving, loop, session>>
     \/ /\ state[g] = "Active" /\ (~stopping[g] \/ force)
        /\ Stoppable({g})
        /\ \E Y \in Answers({g}) : StopTasks({g}, Y, "Removed", state, moving, shuttingDown)
  /\ UNCHANGED <<kind, resume, astray, flags>>

\* pauseAll().
PauseAll ==
  LET S == {g \in Values(active) : ~stopping[g]}
      st == [g \in Gid |-> IF g \in Values(waiting) /\ state[g] = "Waiting"
                           THEN "Paused" ELSE state[g]]
  IN  /\ Call("pauseAll") /\ Stoppable(S)
      /\ resume' = [g \in Gid |-> FALSE]
      /\ \E Y \in Answers(S) : StopTasks(S, Y, "Paused", st, moving, shuttingDown)
      /\ UNCHANGED <<kind, astray, flags>>

\* unpauseAll(): tasks being moved resume later.
UnpauseAll ==
  /\ Call("unpauseAll")
  /\ resume' = [g \in Gid |-> moving[g] # "no"]
  /\ state' = [g \in Gid |->
       IF g \in Values(waiting) /\ state[g] = "Paused" /\ moving[g] = "no"
       THEN "Waiting" ELSE state[g]]
  /\ Schedule(io)
  /\ UNCHANGED <<tasks, stopping, kind, work, onStop, closing, queues, moving,
                 astray, flags, loop, session>>

\* relocate(): aria2.moveDownload of an unfinished HTTP or BitTorrent download.
\* A queued one moves at once, an active one after its transfers stopped.
Relocate(g) ==
  /\ Call("moveDownload") /\ g \in tasks
  /\ moving[g] = "no" /\ kind[g] # "media"
  /\ disk \/ "nodisk" \in Situations
  /\ ~shuttingDown \/ "moving" \in Situations
  /\ resume' = [resume EXCEPT ![g] = state[g] # "Paused"]
  /\ \/ /\ state[g] \in Queued
        /\ state' = [state EXCEPT ![g] = "Paused"]
        /\ moving' = [moving EXCEPT ![g] = "started"]
        /\ loop' = IF disk THEN loop ELSE "crashed"
        /\ UNCHANGED <<stopping, work, onStop, closing, tasks, queues,
                       scheduled, session, io>>
     \/ /\ state[g] = "Active" /\ ~stopping[g] /\ Stoppable({g})
        /\ \E Y \in Answers({g}) :
             StopTasks({g}, Y, "Paused", state, [moving EXCEPT ![g] = "waits"],
                       shuttingDown)
     \/ /\ state[g] = "Active" /\ stopping[g]
        /\ moving' = [moving EXCEPT ![g] = "waits"]
        /\ UNCHANGED <<state, stopping, work, onStop, closing, tasks, queues,
                       scheduled, loop, session, io>>
  /\ UNCHANGED <<kind, astray, flags>>

\* move(): aria2.changePosition.
ChangePosition(g, at) ==
  /\ Call("changePosition") /\ g \in tasks /\ g \in Values(waiting)
  /\ at <= Len(Erase(waiting, g))
  /\ waiting' = Insert(Erase(waiting, g), at, g)
  /\ UNCHANGED <<object, active, stopped, moves, flags, scheduled, loop,
                 session, io>>

\* Mutant: the new limit waits for something else to call schedule().
ChangeLimitSilent(n) ==
  /\ Call("changeLimit") /\ n # limit
  /\ limit' = n
  /\ UNCHANGED <<object, queues, moves, sharing, disk, scheduled, shuttingDown,
                 forceShutdown, loop, session, io>>

\* globalOptionsChanged() for max-concurrent-downloads.
ChangeLimit(n) ==
  /\ Call("changeLimit") /\ n # limit
  /\ limit' = n
  /\ Schedule(io)
  /\ UNCHANGED <<object, queues, moves, sharing, disk, shuttingDown,
                 forceShutdown, loop, session>>

\* removeResult().
RemoveResult(g) ==
  /\ Call("removeResult") /\ g \in Values(stopped)
  /\ tasks' = tasks \ {g}
  /\ stopped' = Erase(stopped, g)
  /\ UNCHANGED <<state, stopping, kind, work, onStop, closing, active, waiting,
                 moves, flags, scheduled, loop, session, io>>

\* purgeResults().
PurgeResults ==
  /\ Call("purge") /\ stopped # <<>>
  /\ tasks' = tasks \ Values(stopped)
  /\ stopped' = <<>>
  /\ UNCHANGED <<state, stopping, kind, work, onStop, closing, active, waiting,
                 moves, flags, scheduled, loop, session, io>>

\* requeue(): aria2.retryMedia of a failed media task.
Requeue(g) ==
  /\ Call("retry") /\ g \in tasks /\ kind[g] = "media"
  /\ state[g] = "Error" /\ g \in Values(stopped)
  /\ stopped' = Erase(stopped, g)
  /\ state' = [state EXCEPT ![g] = "Waiting"]
  /\ waiting' = Append(waiting, g)
  /\ Schedule(io)
  /\ UNCHANGED <<tasks, stopping, kind, work, onStop, closing, active, moves,
                 flags, loop, session>>

\* saveSession(): aria2.saveSession and the timer in tick().
SaveSession ==
  /\ Call("saveSession")
  /\ session' = SessionOf(active \o waiting \o stopped, state)
  /\ UNCHANGED <<object, queues, moves, flags, scheduled, loop, io>>

\* Mutant: the end does not wait for the active tasks.
ShutdownAtOnce(force) ==
  /\ Call(IF force THEN "forceShutdown" ELSE "shutdown") /\ ~shuttingDown
  /\ shuttingDown' = TRUE /\ forceShutdown' = force
  /\ io' = Append(io, Finish)
  /\ UNCHANGED <<object, queues, moves, sharing, limit, disk, scheduled, loop, session>>

\* shutdown(): by aria2.shutdown, forceShutdown, signals and the timers of tick().
Shutdown(force) ==
  LET S == {g \in Values(active) : ~stopping[g] \/ force}
  IN  /\ Call(IF force THEN "forceShutdown" ELSE "shutdown")
      /\ ~shuttingDown \/ (force /\ ~forceShutdown)
      /\ "moving" \in Situations \/ \A g \in Gid : moving[g] = "no"
      /\ shuttingDown' = TRUE
      /\ forceShutdown' = (forceShutdown \/ force)
      /\ IF active = <<>>
         THEN /\ io' = Append(io, Finish)
              /\ UNCHANGED <<object, queues, moving, scheduled, loop, session>>
         ELSE /\ Stoppable(S)
              /\ \E Y \in Answers(S) : StopTasks(S, Y, "Waiting", state, moving, TRUE)
              /\ UNCHANGED kind
      /\ UNCHANGED <<resume, astray, sharing, limit, disk>>

-----------------------------------------------------------------------------
(* Steps of the protocol tasks.                                            *)

Running(g) ==
  /\ Live /\ g \in Values(active)
  /\ work[g] = "running" /\ ~stopping[g]

\* An HTTP task opens its output file: the first disk() creates the pool.
OpenOutput(g) ==
  /\ Running(g) /\ kind[g] = "http" /\ ~disk
  /\ disk' = TRUE
  /\ UNCHANGED <<object, queues, moves, sharing, limit, shuttingDown,
                 forceShutdown, scheduled, loop, session, io>>

\* complete() and taskCompleted(): the follower queues the downloads new that a
\* fetched .torrent or Metalink names; retire() is deferred.
Complete(g, new) ==
  /\ Running(g)
  /\ \A n \in Values(new) : state[n] = "New" /\ kind[g] = "http"
  /\ work' = [work EXCEPT ![g] = "over"]
  /\ tasks' = tasks \cup Values(new)
  /\ state' = [n \in Gid |-> IF n \in Values(new) THEN "Waiting" ELSE state[n]]
  /\ waiting' = waiting \o new
  /\ io' = Append(IF new = <<>> \/ scheduled THEN io ELSE Append(io, Fill),
                  Retire(g, "Complete"))
  /\ scheduled' = (scheduled \/ new # <<>>)
  /\ UNCHANGED <<stopping, kind, onStop, closing, active, stopped, moves, flags,
                 loop, session>>

\* failed() and taskFailed().
Fail(g) ==
  /\ Running(g)
  /\ work' = [work EXCEPT ![g] = "over"]
  /\ io' = Append(io, Retire(g, "Error"))
  /\ UNCHANGED <<tasks, state, stopping, kind, onStop, closing, queues, moves,
                 flags, scheduled, loop, session>>

\* A magnet with its metadata (bt) or a probed presentation (media, whose worker
\* has ended) pauses itself until a client selects files or tracks.
AwaitSelection(g) ==
  /\ Running(g) /\ kind[g] # "http"
  /\ PauseTask(g, IF kind[g] = "media" THEN {g} ELSE {})

\* A seeding or sharing task with detach-share-only frees its slot, or takes it
\* back when more files were selected.  Nothing calls schedule().
Share(g) ==
  /\ "sharing" \in Situations
  /\ Running(g) /\ kind[g] = "bt"
  /\ sharing' = IF g \in sharing THEN sharing \ {g} ELSE sharing \cup {g}
  /\ UNCHANGED <<object, queues, moves, limit, disk, shuttingDown,
                 forceShutdown, scheduled, loop, session, io>>

\* handOverToMedia(): the first response is a manifest.
AskHandOver(g) ==
  /\ Running(g) /\ kind[g] = "http"
  /\ work' = [work EXCEPT ![g] = "handing"]
  /\ io' = Append(io, Handler("handOver", g, "none"))
  /\ UNCHANGED <<tasks, state, stopping, kind, onStop, closing, queues, moves,
                 flags, scheduled, loop, session>>

\* The last pending write of a stopping HTTP task ends: quiesce() closes the file.
Quiesce(g) ==
  /\ Live /\ kind[g] = "http" /\ onStop[g] # "none"
  /\ closing' = [closing EXCEPT ![g] = Append(@, onStop[g])]
  /\ onStop' = [onStop EXCEPT ![g] = "none"]
  /\ UNCHANGED <<tasks, state, stopping, kind, work, queues, moves, flags,
                 scheduled, loop, session, io>>

\* The session or the worker let go of a stopping task, whose event runs done.
Detached(g) ==
  LET next == onStop[g]
  IN  /\ Live /\ kind[g] # "http" /\ next # "none"
      /\ stopping' = [stopping EXCEPT ![g] = FALSE]
      /\ onStop' = [onStop EXCEPT ![g] = "none"]
      /\ UNCHANGED <<kind, closing, resume, astray, flags>>
      /\ StopDone(<<g>>, next, state, moving, shuttingDown, io)

-----------------------------------------------------------------------------
(* The disk pool.  Its completions are posted to the control thread.       *)

DiskCloses(g) ==
  /\ closing[g] # <<>> /\ loop # "crashed"
  /\ closing' = [closing EXCEPT ![g] = Tail(@)]
  /\ io' = Append(io, Handler("done", g, Head(closing[g])))
  /\ UNCHANGED <<tasks, state, stopping, kind, work, onStop, queues, moves,
                 flags, scheduled, loop, session>>

\* moveFiles(): all files, or none.  stopLoop() drains the pool, so this also
\* happens when nobody runs the completion any more.
DiskMoves(g, ok) ==
  /\ moving[g] = "started" /\ loop # "crashed"
  /\ moving' = [moving EXCEPT ![g] = "posted"]
  /\ astray' = IF ok THEN astray \cup {g} ELSE astray
  /\ io' = Append(io, Handler("moved", g, IF ok THEN "ok" ELSE "failed"))
  /\ UNCHANGED <<object, queues, resume, flags, scheduled, loop, session>>

-----------------------------------------------------------------------------
(* The handlers at the head of io.                                         *)

Head1(do) == Live /\ io # <<>> /\ Head(io).do = do

\* On the command line fill() ends the process when nothing runs or waits to run;
\* the mutant forgets what runs.
QueueDrained == \A i \in DOMAIN waiting' : state'[waiting'[i]] # "Waiting"
Drained == active' = <<>> /\ QueueDrained

\* fill(): starts waiting tasks, oldest first, while there is room; those in
\* failing fail within start().  On the command line an idle engine ends.
RunFill(failing) ==
  LET first == {i \in DOMAIN waiting : /\ state[waiting[i]] = "Waiting"
                                       /\ \A j \in 1..(i - 1) : waiting[j] # waiting[i]}
      picked == {i \in first : Rank(first, i) <= Room}
      started == KeepAt(waiting, picked)
      failed == Only(started, failing)
      end == Drained /\ ~Rpc /\ ~shuttingDown
  IN  /\ Head1("fill")
      /\ scheduled' = FALSE
      /\ IF shuttingDown
         THEN /\ failing = {}
              /\ io' = Tail(io)
              /\ UNCHANGED <<state, work, active, waiting, sharing, disk, shuttingDown>>
         ELSE /\ failing \subseteq Values(started)
              /\ state' = [g \in Gid |-> IF g \in Values(started) THEN "Active" ELSE state[g]]
              /\ work' = [g \in Gid |-> IF g \in failing THEN "over"
                                        ELSE IF g \in Values(started) THEN "running"
                                        ELSE work[g]]
              /\ active' = active \o started
              /\ waiting' = KeepAt(waiting, DOMAIN waiting \ picked)
              /\ sharing' = sharing \ Values(started)
              /\ disk' = (disk \/ \E g \in Values(started) \ failing : kind[g] = "bt")
              /\ shuttingDown' = (shuttingDown \/ end)
              /\ io' = Tail(io) \o [i \in DOMAIN failed |-> Retire(failed[i], "Error")]
                         \o (IF end THEN <<Finish>> ELSE <<>>)
      /\ UNCHANGED <<tasks, stopping, kind, onStop, closing, stopped, moves,
                     limit, forceShutdown, loop, session>>

\* The deferred retire() of taskCompleted() and taskFailed().
RunRetire ==
  LET g == Head(io).gid
  IN  /\ Head1("retire")
      /\ state' = [state EXCEPT ![g] = Head(io).arg]
      /\ work' = [work EXCEPT ![g] = "idle"]
      /\ RetireTask(g, state')
      /\ Schedule(Tail(io))
      /\ UNCHANGED <<stopping, kind, onStop, closing, waiting, moves, flags,
                     loop, session>>

\* The done callback that came with the close of an output file.
RunDone ==
  LET g == Head(io).gid
  IN  /\ Head1("done")
      /\ stopping' = [stopping EXCEPT ![g] = FALSE]
      /\ UNCHANGED <<kind, onStop, closing, resume, astray, flags>>
      /\ StopDone(<<g>>, Head(io).arg, state, moving, shuttingDown, Tail(io))

\* The completion of moveFilesOf(): relocated(), then unpause() if wanted.
RunMoved ==
  LET g == Head(io).gid
      wake == resume[g] /\ state[g] = "Paused"
  IN  /\ Head1("moved")
      /\ moving' = [moving EXCEPT ![g] = "no"]
      /\ astray' = astray \ {g}
      /\ state' = IF wake THEN [state EXCEPT ![g] = "Waiting"] ELSE state
      /\ ScheduleIf(wake, Tail(io))
      /\ UNCHANGED <<tasks, stopping, kind, work, onStop, closing, queues,
                     resume, flags, loop, session>>

\* handOver(): the media task takes the slot of the HTTP task that found the
\* manifest, unless that one left the active list meanwhile.
RunHandOver(fails) ==
  LET g == Head(io).gid
      found == g \in Values(active) /\ kind[g] = "http"
  IN  /\ Head1("handOver")
      /\ kind' = IF found THEN [kind EXCEPT ![g] = "media"] ELSE kind
      /\ work' = IF found THEN [work EXCEPT ![g] = IF fails THEN "over" ELSE "running"]
                 ELSE work
      /\ io' = IF found /\ fails THEN Append(Tail(io), Retire(g, "Error")) ELSE Tail(io)
      /\ UNCHANGED <<tasks, state, stopping, onStop, closing, queues, moves,
                     flags, scheduled, loop, session>>

\* The posted finishShutdown().
RunFinish ==
  /\ Head1("finish")
  /\ io' = Tail(io)
  /\ UNCHANGED <<object, queues, moves, flags, scheduled>>
  /\ IF loop = "running" THEN FinishShutdown ELSE UNCHANGED <<loop, session>>

\* The ED2K network has closed: stopLoop().
StopLoop ==
  /\ loop = "closing"
  /\ loop' = "stopped"
  /\ UNCHANGED <<object, queues, moves, flags, scheduled, session, io>>

\* The process is gone once the pool is drained.
Terminated ==
  /\ \/ loop = "crashed"
     \/ loop = "stopped" /\ \A g \in Gid : closing[g] = <<>> /\ moving[g] # "started"
  /\ UNCHANGED vars

-----------------------------------------------------------------------------
\* run() after addInput(): some of the input may be paused.
Init ==
  /\ tasks = Values(Input)
  /\ \E paused \in SUBSET Values(Input) :
       state = [g \in Gid |-> IF g \in paused THEN "Paused"
                              ELSE IF g \in Values(Input) THEN "Waiting" ELSE "New"]
  /\ stopping = [g \in Gid |-> FALSE]
  /\ kind = Kind
  /\ work = [g \in Gid |-> "idle"]
  /\ onStop = [g \in Gid |-> "none"]
  /\ closing = [g \in Gid |-> <<>>]
  /\ active = <<>> /\ waiting = Input /\ stopped = <<>>
  /\ moving = [g \in Gid |-> "no"]
  /\ resume = [g \in Gid |-> FALSE]
  /\ astray = {} /\ sharing = {}
  /\ limit \in Limits
  /\ disk = FALSE /\ shuttingDown = FALSE /\ forceShutdown = FALSE
  /\ scheduled = TRUE /\ io = <<Fill>>
  /\ loop = "running"
  /\ session = <<>>

TaskCall ==
  \E g \in Gid : Pause(g) \/ Unpause(g) \/ \E force \in BOOLEAN : Remove(g, force)

OtherCall ==
  \/ \E g \in Gid :
       \/ \E paused \in BOOLEAN, at \in 0..Len(waiting) : Add(g, paused, at)
       \/ Relocate(g) \/ RemoveResult(g) \/ Requeue(g)
       \/ \E at \in 0..Len(waiting) : ChangePosition(g, at)
  \/ PauseAll \/ UnpauseAll \/ PurgeResults \/ SaveSession
  \/ \E n \in Limits : ChangeLimit(n)
  \/ \E force \in BOOLEAN : Shutdown(force)

TaskStep ==
  \E g \in Gid :
    \/ OpenOutput(g) \/ Fail(g) \/ AwaitSelection(g) \/ Share(g) \/ AskHandOver(g)
    \/ Complete(g, <<>>) \/ \E n \in Gid : Complete(g, <<n>>)

StopStep == \E g \in Gid : Quiesce(g) \/ Detached(g)

DiskStep == \E g \in Gid : DiskCloses(g) \/ \E ok \in BOOLEAN : DiskMoves(g, ok)

RunHandler ==
  \/ \E failing \in SUBSET Gid : RunFill(failing)
  \/ RunRetire \/ RunDone \/ RunMoved \/ RunFinish
  \/ \E fails \in BOOLEAN : RunHandOver(fails)

EngineStep == TaskStep \/ StopStep \/ DiskStep \/ RunHandler \/ StopLoop \/ Terminated

Next == TaskCall \/ OtherCall \/ EngineStep

Spec == Init /\ [][Next]_vars

\* The loop serves its handlers, the pool its jobs; sessions and workers let go of
\* what they were told to stop; the ED2K network closes (its timers bound it).
Fairness ==
  /\ WF_vars(RunHandler) /\ WF_vars(StopLoop)
  /\ \A g \in Gid : /\ WF_vars(Quiesce(g) \/ Detached(g))
                    /\ WF_vars(DiskCloses(g))
                    /\ WF_vars(\E ok \in BOOLEAN : DiskMoves(g, ok))

\* Calls are not fair: clients may stop calling at any time.
FairSpec == Spec /\ Fairness

\* Downloads that end by themselves, for the command line.
EndingSpec ==
  FairSpec /\ \A g \in Gid : WF_vars(Complete(g, <<>>) \/ Fail(g) \/ AwaitSelection(g))

-----------------------------------------------------------------------------
(* Properties.                                                             *)

\* Every task is in exactly one of active_, waiting_ and stopped_, once, the
\* one its state says, and tasks_ holds these tasks and no other: Engine's
\* queues and Task::state_ never disagree.
OneQueue ==
  /\ Distinct(active) /\ Distinct(waiting) /\ Distinct(stopped)
  /\ Values(active) = {g \in Gid : state[g] = "Active"}
  /\ Values(waiting) = {g \in Gid : state[g] \in Queued}
  /\ Values(stopped) = {g \in tasks : state[g] \in Results}
  /\ tasks = Values(active) \cup Values(waiting) \cup Values(stopped)

\* A handler about g that does this is in the queue q, or in io.
Has(q, g, do) == \E i \in DOMAIN q : q[i].gid = g /\ q[i].do = do
Pending(g, do) == Has(io, g, do)

\* The phase of g: its flags, the protocol side and the handlers queued for it.
Agrees(g) ==
  /\ work[g] = "idle" <=> state[g] # "Active"
  /\ work[g] = "over" <=> Pending(g, "retire")
  /\ work[g] = "handing" <=> Pending(g, "handOver")
  /\ work[g] = "handing" => kind[g] = "http"
  /\ moving[g] = "posted" <=> Pending(g, "moved")
  /\ moving[g] \in {"started", "posted"} => state[g] = "Paused"
  /\ moving[g] = "waits" => stopping[g]
  /\ stopping[g] => work[g] = "running"
  /\ stopping[g] <=> onStop[g] # "none" \/ closing[g] # <<>> \/ Pending(g, "done")
  /\ onStop[g] # "none" => closing[g] = <<>> /\ ~Pending(g, "done")
  /\ closing[g] # <<>> => Len(closing[g]) = 1 /\ ~Pending(g, "done")
  /\ g \in astray => moving[g] = "posted"

\* No two handlers about one download, and no two fill(), are queued.
Once(q) ==
  /\ \A i, j \in DOMAIN q : q[i].gid = q[j].gid /\ q[i].gid # NoGid => i = j
  /\ \A i, j \in DOMAIN q : q[i].do = "fill" /\ q[j].do = "fill" => i = j

\* The flags of a task agree with what is in flight for it: a stop is answered by
\* exactly one callback, held by the task, travelling with a file close or queued;
\* a deferred retire() or handOver() is queued exactly for the task that waits
\* for it; a move that waits has a stop to wait for; and at most one handler
\* about a download is queued at a time, so none finds its task in another phase.
InFlightAgrees ==
  /\ \A g \in Gid : Agrees(g)
  /\ Once(io)
  /\ scheduled <=> Pending(NoGid, "fill")

\* moveFilesOf() moves the files of a task only while the task is paused and
\* none of its transfers, pending stops or deferred results can touch them.
MovesOnlyQuiet ==
  \A g \in Gid : moving[g] \in {"started", "posted"} =>
    /\ state[g] = "Paused" /\ work[g] = "idle" /\ ~stopping[g]
    /\ onStop[g] = "none" /\ closing[g] = <<>>
    /\ \A i \in DOMAIN io : io[i].gid = g => io[i].do = "moved"

\* A download waits although there is room for it.
FreeSlot ==
  /\ loop = "running" /\ ~shuttingDown /\ ActiveCount < limit
  /\ \E i \in DOMAIN waiting : state[waiting[i]] = "Waiting"

\* The same, and the slot is not one that a seeding task gave up: fewer tasks are
\* active, those that seed included, than may run.
SpareSlot == FreeSlot /\ Len(active) < limit

\* A waiting task and a slot that no active task holds always come with a queued
\* fill(): schedule() is called by whatever makes either of them, so no download is
\* forgotten.  Only a task that begins to seed gives up its slot without schedule();
\* once it left, that slot too is one that no task holds.
NoLostWakeup == SpareSlot => scheduled /\ Pending(NoGid, "fill")

\* The engine leaves its loop only when no task is active: shutdown() lets every
\* transfer flush and record its progress first.
NoTaskCutOff == loop \in {"closing", "stopped"} => active = <<>>

\* The engine's bookkeeping holds together: tasks and queues, flags, callbacks and
\* handlers agree, a waiting task and a slot that no task holds, seeding or not,
\* come with a queued fill(), and the loop ends only when no task is active
\* (Engine.cc: retire, stopTask, schedule, finishShutdown).
QueueSound ==
  /\ TypeOK
  /\ OneQueue
  /\ InFlightAgrees
  /\ NoLostWakeup
  /\ NoTaskCutOff

\* What saveSession() writes on exit: each unfinished download once, paused
\* exactly if its task is, and with the directory its files are in.
SessionExact ==
  loop = "stopped" =>
    /\ \A i, j \in DOMAIN session : session[i].gid = session[j].gid => i = j
    /\ {session[i].gid : i \in DOMAIN session} = {g \in tasks : Saved(state[g])}
    /\ \A i \in DOMAIN session : session[i].paused = (state[session[i].gid] = "Paused")
    /\ \A i \in DOMAIN session : session[i].gid \notin astray

\* fill() starts no task beyond max-concurrent-downloads, also when the limit was
\* lowered or seeding tasks came and went since it was scheduled.
LimitKept ==
  [][~(Values(active') \subseteq Values(active)) => ActiveCount' <= limit']_vars

\* On the command line the process ends only when no download is left to run,
\* those included that a finished .torrent or Metalink file added meanwhile.
DrainedAtExit ==
  loop # "running" => \A g \in tasks : state[g] \in Results \cup {"Paused"}

\* A shutdown ends the process, whatever clients do meanwhile.
ShutdownEnds == []<>(shuttingDown => loop = "stopped")

\* Every stop is answered: no task stays between active and paused, waiting or
\* removed for ever.
StopsAnswered == \A g \in Gid : []<>~stopping[g]

\* Every aria2.moveDownload is answered, unless the process ends first.
MoveAnswered == \A g \in Gid : []<>(moving[g] = "no" \/ loop = "stopped")

=============================================================================

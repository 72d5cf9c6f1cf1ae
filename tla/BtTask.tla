------------------------------- MODULE BtTask -------------------------------
(***************************************************************************)
(* BitTorrent tasks (bt/BtTask.cc), the libtorrent session they share      *)
(* (bt/Session.cc) and the part of core/Factory.cc that creates them.  All *)
(* tasks of the model name one torrent.                                    *)
(*                                                                         *)
(* Three threads meet here: the control thread runs every method of a      *)
(* task, libtorrent's own thread executes the requests made to a torrent   *)
(* in order and queues alerts, and the task's disk strand writes resume    *)
(* files.  A task record also holds the requests (asks) and the resume     *)
(* writes (jobs) it has issued; a control-thread method is a function from *)
(* record to record, and Apply gives the record back to the task.          *)
(***************************************************************************)
EXTENDS Integers, Sequences, SequencesExt

CONSTANTS
  Gids,        \* the tasks
  MaxPieces,   \* pieces of the torrent
  Scenarios,   \* what may happen how often: records of the bounds below
               \*   adds     the torrents added, in order: torrent "data", a
               \*            "magnet" link, or one on "hold" (pause-metadata)
               \*   stops    tasks paused or removed by the user
               \*   saves    checkpoints of the engine
               \*   errors   errors libtorrent reports
               \*   fails    saves libtorrent fails and resume writes the disk fails
               \*   again    results requeued or forgotten
               \*   crashes  process deaths (died counts them, from 0)
  Unselected   \* may a task awaiting its selection be unpaused without one?

VARIABLES
  task,        \* the tasks, by GID
  torrent,     \* libtorrent's torrent of each task
  alerts,      \* libtorrent's alert queue
  posted,      \* Session::drainPosted_, with the posted drain() itself
  popping,     \* drain() has cleared the flag and not yet popped
  batch,       \* popped alerts that drain() still has to dispatch
  metainfo,    \* does torrents/<sha1>.torrent exist?
  resume,      \* pieces named by <gid>.fastresume; None when there is none
  left         \* what the bounds still admit

vars == <<task, torrent, alerts, posted, popping, batch, metainfo, resume, left>>

None == MaxPieces + 1
Pieces == 0 .. MaxPieces

(***************************************************************************)
(* Where the engine keeps the task: "waiting" includes paused tasks, and   *)
(* "result" (ended by itself) and "removed" are Engine::stopped_.          *)
(***************************************************************************)
Places == {"absent", "waiting", "active", "result", "removed", "forgotten", "lost"}
Phases == {"Idle", "Adding", "Running", "Saving", "Removing"}

NoTask ==
  [place |-> "absent", data |-> FALSE, phase |-> "Idle", stop |-> "no",
   outcome |-> "Stop", saves |-> 0, jobs |-> <<>>, ran |-> 0,
   finished |-> FALSE, info |-> FALSE, hold |-> FALSE, select |-> FALSE,
   asks |-> <<>>, discard |-> FALSE, unwritten |-> FALSE]

NoTorrent == [in |-> "out", have |-> 0, meta |-> FALSE, open |-> FALSE,
              changed |-> FALSE, unsaved |-> FALSE]

TypeOK ==
  /\ \A g \in Gids :
       /\ task[g].place \in Places
       /\ task[g].phase \in Phases
       /\ task[g].stop \in {"no", "pause", "remove"}
       /\ task[g].outcome \in {"Stop", "Complete", "Fail"}
       /\ task[g].saves >= 0 /\ task[g].ran >= 0
       /\ task[g].jobs \in Seq(Pieces)
       /\ torrent[g].in \in {"out", "running", "paused"}
       /\ torrent[g].have \in Pieces
       /\ task[g].unwritten \in BOOLEAN /\ torrent[g].unsaved \in BOOLEAN
       /\ resume[g] \in Pieces \cup {None}
  /\ posted \in BOOLEAN /\ popping \in BOOLEAN /\ metainfo \in BOOLEAN

(***************************************************************************)
(* The task's methods.                                                     *)
(***************************************************************************)
SaveResume(x, ask) == [x EXCEPT !.saves = @ + 1, !.asks = Append(@, ask)]

Finish(x, outcome) ==
  IF x.phase # "Running" THEN x
  ELSE SaveResume([x EXCEPT !.outcome = outcome, !.phase = "Saving",
                            !.asks = Append(@, "pause")], "save")

(***************************************************************************)
(* Engine's completion of a stop: a paused task waits again, a removed one *)
(* is retired, which discards its state.                                   *)
(***************************************************************************)
Done(x) ==
  IF x.stop = "pause" THEN [x EXCEPT !.stop = "no", !.place = "waiting"]
  ELSE [x EXCEPT !.stop = "no", !.place = "removed", !.discard = TRUE]

StopTask(x, why) ==
  LET y == [x EXCEPT !.stop = why]
  IN  CASE x.phase = "Idle" -> Done(y)
        [] x.phase = "Running" -> Finish(y, "Stop")
        [] OTHER -> y

(***************************************************************************)
(* A task whose metadata arrives before a selection was made pauses.       *)
(***************************************************************************)
AwaitingSelection(x) == ~x.data /\ x.hold /\ ~x.select

MaybeRemoveEarly(x) ==
  IF x.phase = "Saving" /\ x.saves = 0
  THEN [x EXCEPT !.phase = "Removing", !.asks = Append(@, "remove")]
  ELSE x

MaybeRemove(x) ==
  IF x.phase = "Saving" /\ x.saves = 0 /\ x.jobs = <<>> /\ x.ran = 0
  THEN [x EXCEPT !.phase = "Removing", !.asks = Append(@, "remove")]
  ELSE x

ResumeSaved(x, have) == [x EXCEPT !.jobs = Append(@, have)]

Attached(x) ==
  LET y == [x EXCEPT !.phase = "Running"]
  IN  IF x.stop # "no" THEN Finish(y, "Stop") ELSE y

AddFailed(x) ==
  LET y == [x EXCEPT !.phase = "Idle"]
  IN  IF x.stop # "no" THEN Done(y)
      ELSE [y EXCEPT !.place = "result", !.outcome = "Fail"]

DetachedByOutcome(x) ==
  LET y == [x EXCEPT !.phase = "Idle"]
  IN  IF x.outcome # "Stop" THEN [y EXCEPT !.place = "result"]
      ELSE IF x.stop # "no" THEN Done(y) ELSE y

Detached(x) ==
  LET y == [x EXCEPT !.phase = "Idle"]
  IN  IF x.stop # "no" THEN Done(y)
      ELSE IF x.outcome = "Stop" THEN y ELSE [y EXCEPT !.place = "result"]

MetadataReceived(x) ==
  LET y == [x EXCEPT !.info = TRUE]
  IN  IF AwaitingSelection(y)
      THEN IF x.stop = "no" THEN StopTask(y, "pause") ELSE y
      ELSE SaveResume([y EXCEPT !.asks = Append(@, "prioritize")], "save")

(***************************************************************************)
(* A status update; whole says that every wanted piece is there and enough *)
(* that the seeding goal is met.                                           *)
(***************************************************************************)
EvaluateSeeding(x, enough) ==
  IF x.phase = "Running" /\ x.finished /\ enough THEN Finish(x, "Complete") ELSE x

Updated(x, whole, enough) ==
  IF x.phase # "Running" THEN x
  ELSE LET done == whole /\ ~AwaitingSelection(x)
           y == IF done /\ ~x.finished
                THEN SaveResume([x EXCEPT !.finished = TRUE], "save")
                ELSE [x EXCEPT !.finished = done]
       IN  EvaluateSeeding(y, enough)

CheckpointTask(x) == IF x.phase = "Running" THEN SaveResume(x, "saveIfChanged") ELSE x

(***************************************************************************)
(* addParams() and start(): a task whose files are known is added with its *)
(* priorities, a magnet link without metadata with every file deselected.  *)
(***************************************************************************)
StartTask(x) ==
  [x EXCEPT !.place = "active", !.phase = "Adding", !.finished = FALSE,
            !.outcome = "Stop", !.hold = @ /\ ~x.select,
            !.asks = Append(@, IF x.info THEN "addKnown" ELSE "addMagnet")]

(***************************************************************************)
(* handle() and Session::dispatch() for one alert of the task's torrent.   *)
(***************************************************************************)
Dispatch(x, a) ==
  CASE a.kind = "added" -> Attached(x)
    [] a.kind = "addError" -> AddFailed(x)
    [] a.kind = "removed" -> Detached(x)
    [] a.kind = "saved" -> ResumeSaved([x EXCEPT !.saves = @ - 1], a.have)
    [] a.kind = "unsaved" -> MaybeRemove([x EXCEPT !.saves = @ - 1])
    [] a.kind = "metadata" -> MetadataReceived(x)
    [] a.kind = "error" -> Finish(x, "Fail")
    [] a.kind = "status" -> Updated(x, a.have = MaxPieces, a.enough)

(***************************************************************************)
(* discardState(): the resume file goes, and the stored metainfo with it.  *)
(***************************************************************************)
Apply(g, y) ==
  /\ task' = [task EXCEPT ![g] = [y EXCEPT !.discard = FALSE]]
  /\ resume' = IF y.discard THEN [resume EXCEPT ![g] = None] ELSE resume
  /\ metainfo' = (metainfo /\ ~(y.discard /\ y.data))

(***************************************************************************)
(* The control thread is free while drain() has nothing left to dispatch.  *)
(***************************************************************************)
Free == batch = <<>> /\ ~popping

Init ==
  /\ task = [g \in Gids |-> NoTask]
  /\ torrent = [g \in Gids |-> NoTorrent]
  /\ alerts = <<>> /\ batch = <<>>
  /\ posted = FALSE /\ popping = FALSE
  /\ metainfo = FALSE
  /\ resume = [g \in Gids |-> None]
  /\ left \in Scenarios

Library == <<torrent, alerts, posted, popping, batch>>

(***************************************************************************)
(* rejectDuplicate() looks at the active and the waiting tasks only.       *)
(***************************************************************************)
RejectDuplicate == \E h \in Gids : task[h].place \in {"waiting", "active"}

(***************************************************************************)
(* createTorrentTask() stores metainfo that is not there yet and then      *)
(* rejects a duplicate; a magnet link stores nothing.                      *)
(***************************************************************************)
AddTorrent ==
  /\ Free /\ left.adds # <<>>
  /\ left' = [left EXCEPT !.adds = Tail(@)]
  /\ LET kind == Head(left.adds)
         data == kind = "data"
         g == CHOOSE h \in Gids : task[h].place = "absent"
     IN  /\ metainfo' = (metainfo \/ data)
         /\ IF RejectDuplicate THEN UNCHANGED task
            ELSE task' = [task EXCEPT ![g] = [NoTask EXCEPT !.place = "waiting",
                            !.data = data, !.info = data, !.hold = (kind = "hold")]]
  /\ UNCHANGED <<Library, resume>>

Start(g) ==
  /\ Free /\ task[g].place = "waiting"
  /\ Unselected \/ ~(task[g].info /\ AwaitingSelection(task[g]))
  /\ Apply(g, StartTask(task[g]))
  /\ UNCHANGED <<Library, left>>

SelectFile(g) ==
  /\ Free /\ task[g].place = "waiting" /\ task[g].info /\ AwaitingSelection(task[g])
  /\ Apply(g, [task[g] EXCEPT !.select = TRUE])
  /\ UNCHANGED <<Library, left>>

(***************************************************************************)
(* Engine::pause and Engine::remove of a task that is not being stopped.   *)
(***************************************************************************)
Stop(g, why) ==
  /\ Free /\ task[g].place \in {"active", "waiting"} /\ task[g].stop = "no"
  /\ task[g].place = "waiting" => why = "remove"
  /\ left.stops > 0
  /\ left' = [left EXCEPT !.stops = @ - 1]
  /\ Apply(g, StopTask(task[g], why))
  /\ UNCHANGED Library

Checkpoint(g) ==
  /\ Free /\ task[g].place = "active" /\ left.saves > 0
  /\ left' = [left EXCEPT !.saves = @ - 1]
  /\ Apply(g, CheckpointTask(task[g]))
  /\ UNCHANGED Library

(***************************************************************************)
(* Engine::removeResult and purgeResults discard once more, and the result *)
(* is forgotten; Engine::requeue gives it another attempt.                 *)
(***************************************************************************)
RemoveResult(g) ==
  /\ Free /\ task[g].place \in {"result", "removed"}
  /\ left.again > 0
  /\ left' = [left EXCEPT !.again = @ - 1]
  /\ Apply(g, [NoTask EXCEPT !.data = task[g].data, !.discard = TRUE])
  /\ UNCHANGED Library

Requeue(g) ==
  /\ Free /\ task[g].place = "result"
  /\ left.again > 0
  /\ left' = [left EXCEPT !.again = @ - 1]
  /\ Apply(g, [task[g] EXCEPT !.place = "waiting"])
  /\ UNCHANGED Library

(***************************************************************************)
(* Session::drain() clears the flag first, pops the alerts, and dispatches *)
(* them one after the other.                                               *)
(***************************************************************************)
DrainStarts ==
  /\ Free /\ posted
  /\ posted' = FALSE /\ popping' = TRUE
  /\ UNCHANGED <<task, torrent, alerts, batch, metainfo, resume, left>>

DrainPops ==
  /\ popping
  /\ batch' = alerts /\ alerts' = <<>>
  /\ popping' = FALSE
  /\ UNCHANGED <<task, torrent, posted, metainfo, resume, left>>

DrainDispatches ==
  /\ ~popping /\ batch # <<>>
  /\ Apply(Head(batch).gid, Dispatch(task[Head(batch).gid], Head(batch)))
  /\ batch' = Tail(batch)
  /\ UNCHANGED <<torrent, alerts, posted, popping, left>>

(***************************************************************************)
(* libtorrent queues an alert and calls Session::schedule() when the queue *)
(* was empty; schedule() posts drain() unless one is posted already.       *)
(***************************************************************************)
Post(as) ==
  /\ alerts' = alerts \o as
  /\ posted' = (posted \/ (alerts = <<>> /\ as # <<>>))

Alert(g, kind) == [gid |-> g, kind |-> kind, have |-> torrent[g].have, enough |-> FALSE]

(***************************************************************************)
(* libtorrent executes the next request of a task.  It refuses a second    *)
(* torrent with the same info hash, and a conditional save fails when      *)
(* nothing changed since the last one; any save may fail for a reason of   *)
(* libtorrent's own, which unsaved remembers until one succeeds.           *)
(***************************************************************************)
Execute(g) ==
  /\ task[g].asks # <<>>
  /\ LET ask == Head(task[g].asks)
         known == ask = "addKnown"
     IN  CASE ask \in {"addKnown", "addMagnet"} ->
                IF \E h \in Gids : torrent[h].in # "out"
                THEN UNCHANGED torrent /\ Post(<<Alert(g, "addError")>>)
                ELSE /\ torrent' = [torrent EXCEPT ![g] =
                          [NoTorrent EXCEPT !.in = "running", !.meta = known, !.open = known,
                           !.have = IF resume[g] = None THEN 0 ELSE resume[g]]]
                     /\ Post(<<Alert(g, "added")>>)
           [] ask = "pause" ->
                torrent' = [torrent EXCEPT ![g].in = "paused"] /\ Post(<<>>)
           [] ask = "prioritize" ->
                torrent' = [torrent EXCEPT ![g].open = TRUE] /\ Post(<<>>)
           [] ask = "saveIfChanged" /\ ~torrent[g].changed ->
                UNCHANGED torrent /\ Post(<<Alert(g, "unsaved")>>)
           [] ask \in {"save", "saveIfChanged"} ->
                /\ torrent' = [torrent EXCEPT ![g].changed = FALSE, ![g].unsaved = FALSE]
                /\ Post(<<Alert(g, "saved")>>)
           [] ask = "remove" ->
                torrent' = [torrent EXCEPT ![g] = NoTorrent] /\ Post(<<Alert(g, "removed")>>)
  /\ task' = [task EXCEPT ![g].asks = Tail(@)]
  /\ UNCHANGED <<popping, batch, metainfo, resume, left>>

SaveFails(g) ==
  /\ task[g].asks # <<>> /\ Head(task[g].asks) \in {"save", "saveIfChanged"}
  /\ left.fails > 0
  /\ left' = [left EXCEPT !.fails = @ - 1]
  /\ torrent' = [torrent EXCEPT ![g].unsaved = TRUE]
  /\ Post(<<Alert(g, "unsaved")>>)
  /\ task' = [task EXCEPT ![g].asks = Tail(@)]
  /\ UNCHANGED <<popping, batch, metainfo, resume>>

(***************************************************************************)
(* What libtorrent does by itself with a running torrent.                  *)
(***************************************************************************)
Downloads(g) ==
  /\ torrent[g].in = "running" /\ torrent[g].open /\ torrent[g].have < MaxPieces
  /\ torrent' = [torrent EXCEPT ![g].have = @ + 1, ![g].changed = TRUE]
  /\ UNCHANGED <<task, alerts, posted, popping, batch, metainfo, resume, left>>

MetadataArrives(g) ==
  /\ torrent[g].in = "running" /\ ~torrent[g].meta
  /\ torrent' = [torrent EXCEPT ![g].meta = TRUE, ![g].changed = TRUE]
  /\ Post(<<Alert(g, "metadata")>>)
  /\ UNCHANGED <<task, popping, batch, metainfo, resume, left>>

Reports(g, enough) ==
  /\ torrent[g].in = "running" /\ torrent[g].open /\ torrent[g].have = MaxPieces
  /\ ~\E i \in 1 .. Len(alerts \o batch) : (alerts \o batch)[i].kind = "status"
  /\ ~task[g].finished \/ enough
  /\ Post(<<[Alert(g, "status") EXCEPT !.enough = enough]>>)
  /\ UNCHANGED <<task, torrent, popping, batch, metainfo, resume, left>>

Errors(g) ==
  /\ torrent[g].in = "running" /\ left.errors > 0
  /\ left' = [left EXCEPT !.errors = @ - 1]
  /\ Post(<<Alert(g, "error")>>)
  /\ UNCHANGED <<task, torrent, popping, batch, metainfo, resume>>

(***************************************************************************)
(* The strand writes one resume file after the other; a write that fails   *)
(* leaves the earlier file in place, and unwritten remembers it.  The      *)
(* completion runs on the control thread and goes on either way.           *)
(***************************************************************************)
Writes(g) ==
  /\ task[g].jobs # <<>>
  /\ resume' = [resume EXCEPT ![g] = Head(task[g].jobs)]
  /\ task' = [task EXCEPT ![g].jobs = Tail(@), ![g].ran = @ + 1, ![g].unwritten = FALSE]
  /\ UNCHANGED <<Library, metainfo, left>>

WriteFails(g) ==
  /\ task[g].jobs # <<>> /\ left.fails > 0
  /\ left' = [left EXCEPT !.fails = @ - 1]
  /\ task' = [task EXCEPT ![g].jobs = Tail(@), ![g].ran = @ + 1, ![g].unwritten = TRUE]
  /\ UNCHANGED <<Library, metainfo, resume>>

WriteCompletes(g) ==
  /\ Free /\ task[g].ran > 0
  /\ Apply(g, MaybeRemove([task[g] EXCEPT !.ran = @ - 1]))
  /\ UNCHANGED <<Library, left>>

(***************************************************************************)
(* The process dies.  The next one restores the unfinished and the failed  *)
(* tasks from the session file and forgets the completed ones; a task      *)
(* added from torrent data is named there by its stored metainfo, and      *)
(* overlayResume() finds the metadata of a magnet link in its resume file. *)
(***************************************************************************)
Restored(g) ==
  LET x == task[g]
  IN  IF x.place \in {"absent", "forgotten", "lost"} THEN x
      ELSE IF x.place = "removed" THEN NoTask
      ELSE IF x.place = "result" /\ x.outcome = "Complete"
        THEN [NoTask EXCEPT !.place = "forgotten"]
      ELSE IF x.data /\ ~metainfo THEN [NoTask EXCEPT !.place = "lost"]
      ELSE [NoTask EXCEPT !.place = "waiting", !.data = x.data, !.hold = x.hold,
              !.select = x.select, !.info = x.data \/ (x.info /\ resume[g] # None)]

Crash ==
  /\ left.crashes > 0
  /\ left' = [left EXCEPT !.crashes = @ - 1, !.died = @ + 1]
  /\ task' = [g \in Gids |-> Restored(g)]
  /\ torrent' = [g \in Gids |-> NoTorrent]
  /\ alerts' = <<>> /\ batch' = <<>> /\ posted' = FALSE /\ popping' = FALSE
  /\ UNCHANGED <<metainfo, resume>>

Next ==
  \/ AddTorrent
  \/ \E g \in Gids :
       \/ Start(g) \/ SelectFile(g)
       \/ \E why \in {"pause", "remove"} : Stop(g, why)
       \/ Checkpoint(g) \/ RemoveResult(g) \/ Requeue(g)
       \/ Execute(g) \/ Downloads(g) \/ MetadataArrives(g)
       \/ \E enough \in BOOLEAN : Reports(g, enough)
       \/ Errors(g) \/ SaveFails(g) \/ Writes(g) \/ WriteFails(g) \/ WriteCompletes(g)
  \/ DrainStarts \/ DrainPops \/ DrainDispatches \/ Crash

Spec == Init /\ [][Next]_vars

(***************************************************************************)
(* The control thread, libtorrent's thread and the strand keep running.    *)
(***************************************************************************)
Fairness ==
  /\ WF_vars(DrainStarts) /\ WF_vars(DrainPops) /\ WF_vars(DrainDispatches)
  /\ \A g \in Gids : WF_vars(Execute(g)) /\ WF_vars(Writes(g)) /\ WF_vars(WriteCompletes(g))

FairSpec == Spec /\ Fairness

-----------------------------------------------------------------------------
(* Properties. *)

(***************************************************************************)
(* A torrent leaves the session only when its resume file names all it     *)
(* has, or the newest save or the newest write of it failed, which the     *)
(* code reports and goes on (resumeSaved(), maybeRemove()).  A failure     *)
(* before the newest one is made good by it: the save that finish() asks   *)
(* for is made whether anything changed since or not.                      *)
(***************************************************************************)
LeavesSaved ==
  \A g \in Gids :
    task[g].phase = "Removing" /\ torrent[g].in # "out"
      => \/ resume[g] = torrent[g].have
         \/ torrent[g].unsaved \/ task[g].unwritten

(***************************************************************************)
(* A removed or forgotten task leaves no resume file behind, whatever was  *)
(* still on its way to the disk when discardState() ran.                   *)
(***************************************************************************)
DiscardedStaysDiscarded ==
  \A g \in Gids :
    task[g].place \in {"absent", "removed"} => resume[g] = None

(***************************************************************************)
(* No byte of a magnet link's content is fetched before the files were     *)
(* selected, when the user asked for that with pause-metadata.             *)
(***************************************************************************)
SelectionFirst ==
  \A g \in Gids : torrent[g].have > 0 => ~AwaitingSelection(task[g])

(***************************************************************************)
(* The metainfo a waiting or active task will be restored from stays in    *)
(* the state directory (discardState()).                                   *)
(***************************************************************************)
MetainfoKept ==
  \A g \in Gids : task[g].data /\ task[g].place \in {"waiting", "active"} => metainfo

(***************************************************************************)
(* Every stop is answered, whatever phase it met: attached(), addFailed()  *)
(* or detached() continues it, and no alert is left in the queue without a *)
(* drain() to fetch it.                                                    *)
(***************************************************************************)
StopsAnswered ==
  \A g \in Gids : []<>(task[g].stop = "no")

(***************************************************************************)
(* Seen by the engine, every torrent is a task as TaskContract describes   *)
(* it: it starts only when idle, ends by itself only while it runs, and    *)
(* after an answered stop nothing of it is under way.                      *)
(***************************************************************************)
Mode(g) ==
  IF task[g].place = "result" THEN "over"
  ELSE IF task[g].place # "active" THEN "idle"
  ELSE IF task[g].stop = "no" THEN "busy" ELSE "stopping"

InFlight(g) == task[g].phase # "Idle" \/ task[g].jobs # <<>> \/ task[g].ran > 0

Contract(g) == INSTANCE TaskContract
  WITH mode <- Mode(g), inflight <- InFlight(g), crashes <- left.died

KeepsContract ==
  /\ \A g \in Gids : Contract(g)!Init
  /\ [][\A g \in Gids : [Contract(g)!Next]_<<Mode(g), InFlight(g), left.died>>]_vars
=============================================================================

------------------------------- MODULE Media -------------------------------
(***************************************************************************)
(* media/MediaTask.cc with its worker thread (MediaSession, MediaJob,      *)
(* MediaTransfer, MediaSegments, MediaPublication), the media state        *)
(* database (MediaStore) and the files of the download.                    *)
(*                                                                         *)
(* The task polls the Control block its worker writes.  The worker fetches *)
(* segments into its cache, commits each to the database, stages the       *)
(* remuxed output beside its destination, records the publication and      *)
(* links the staged file into place.  The process may die between any two  *)
(* of these steps.  GPAC and FFmpeg are external: the client delivers      *)
(* segments in order, a live one from anywhere in the server's window.     *)
(***************************************************************************)
EXTENDS Integers, FiniteSets, FiniteSetsExt

CONSTANTS
  Last,            \* a finite presentation has the segments 1..Last
  Width,           \* how many segments a live server offers at a time
  MaxPath,         \* the output's name and its numbered variants
  MaxVersion,      \* versions of the manifest
  MediaScenarios   \* the bounds of one behaviour, see MediaInit

VARIABLES
  task,     \* MediaTask and what the engine knows of it
  ctl,      \* the Control block shared with the worker
  worker,   \* the worker thread; pc "none" when there is no thread
  db,       \* state.db: the rows of this task
  fs,       \* outputs and staging files by path, and the segment cache
  server,   \* the manifest's version; the first segment of a live window
  rest      \* what may still happen in this behaviour

mediaVars == <<task, ctl, worker, db, fs, server, rest>>

Paths == 1..MaxPath
Segments == 1..Last
NoFile == [kind |-> "none", segs |-> {}]
Foreign == [kind |-> "foreign", segs |-> {}]
Partial == [kind |-> "partial", segs |-> {}]
Muxed(segs) == [kind |-> "media", segs |-> segs]

NoRows == [segs |-> {}, manifest |-> 0, identity |-> 0, pub |-> FALSE,
           path |-> 0, digest |-> NoFile]
NoControl == [on |-> FALSE, cancel |-> FALSE, finish |-> FALSE, done |-> FALSE,
              state |-> "waiting"]
NoWorker == [pc |-> "none", next |-> 0, manifest |-> 0, had |-> {}, identity |-> 0,
             staged |-> {}]

\* What a behaviour is given in MediaInit.
Scenario ==
  [found : BOOLEAN, overwrite : BOOLEAN, live : BOOLEAN, probe : BOOLEAN,
   starts : Nat, stops : Nat, finishes : Nat, changes : Nat, retries : Nat, faults : Nat,
   edits : Nat, takes : Nat, places : Nat, crashes : Nat,
   died : Nat, took : BOOLEAN, orphan : BOOLEAN]

Fresh == {s \in Scenario : s.died = 0 /\ ~s.took /\ ~s.orphan}

\* What the constants of an instance are.
Sizes ==
  /\ Last \in Nat /\ Width \in Nat
  /\ MaxPath \in Nat \ {0} /\ MaxVersion \in Nat \ {0}
  /\ MediaScenarios \subseteq Fresh

-----------------------------------------------------------------------------
(***************************************************************************)
(* MediaTask.                                                              *)
(***************************************************************************)
NewMedia == [place |-> "waiting", snap |-> "waiting", stop |-> "no", path |-> 1,
             identity |-> 1, finish |-> FALSE]

\* The first name nobody uses.
Numbered(f) == Min({p \in Paths : f.out[p] = NoFile} \cup {MaxPath + 1})

\* start(): where the output goes.  A file that is there is the task's own when
\* a publication of it is pending.
OutputName(t, d, f) ==
  IF f.out[t.path] = NoFile \/ rest.overwrite \/ (d.pub /\ d.path = t.path)
  THEN t.path
  ELSE Numbered(f)

\* The engine's part of a stop that is done: a removed task discards its state.
StopDone(t) ==
  [t EXCEPT !.stop = "no", !.place = IF t.stop = "pause" THEN "waiting" ELSE "removed"]

\* workerDone(): a stop comes before the outcome.
WorkerDone(t) ==
  CASE t.stop # "no" -> StopDone(t)
    [] t.stop = "no" /\ t.snap = "complete" -> [t EXCEPT !.place = "complete"]
    [] t.stop = "no" /\ t.snap = "awaiting" -> [t EXCEPT !.place = "waiting"]
    [] OTHER -> [t EXCEPT !.place = "failed"]

\* Store::discard(): the staging file a publication names, the rows, the cache.
Discarded(d, f) ==
  [f EXCEPT !.cache = {},
            !.staging = IF d.pub THEN [@ EXCEPT ![d.path] = NoFile] ELSE @]

\* discardState() when the engine retires a removed task.
Settle(t) ==
  /\ task' = t
  /\ IF t.place = "removed"
     THEN db' = NoRows /\ fs' = Discarded(db, fs)
     ELSE UNCHANGED <<db, fs>>

Spend(bound) == rest[bound] > 0 /\ rest' = [rest EXCEPT ![bound] = @ - 1]

MediaInit ==
  /\ rest \in MediaScenarios
  /\ task = NewMedia
  /\ ctl = NoControl
  /\ worker = NoWorker
  /\ db = NoRows
  /\ fs = [out |-> [p \in Paths |-> IF p = 1 /\ rest.found THEN Foreign ELSE NoFile],
           staging |-> [p \in Paths |-> NoFile], cache |-> {}]
  /\ server = [version |-> 1, first |-> 1]

\* start(): fails at once when the file exists and no name is free.
StartMedia ==
  /\ task.place = "waiting" /\ Spend("starts")
  /\ task.snap = "awaiting" => task.identity = 2
  /\ LET path == OutputName(task, db, fs)
     IN IF path \notin Paths
        THEN /\ task' = [task EXCEPT !.place = "failed", !.snap = "error"]
             /\ UNCHANGED <<ctl, worker>>
        ELSE /\ task' = [task EXCEPT !.place = "active", !.path = path,
                                     !.snap = "probing", !.finish = FALSE]
             /\ ctl' = [NoControl EXCEPT !.on = TRUE, !.finish = task.finish,
                                         !.state = "probing"]
             /\ worker' = [NoWorker EXCEPT !.pc = "open", !.identity = task.identity]
  /\ UNCHANGED <<db, fs, server>>

\* poll(): the snapshot is copied, and the worker's end noticed.
Poll ==
  /\ ctl.on
  /\ LET t == [task EXCEPT !.snap = ctl.state]
     IN IF ctl.done
        THEN /\ Settle(WorkerDone(t))
             /\ ctl' = NoControl /\ worker' = NoWorker
        ELSE /\ task' = t
             /\ UNCHANGED <<ctl, worker, db, fs>>
  /\ UNCHANGED <<server, rest>>

\* stop(): without a worker it is done at once.
StopMedia(why) ==
  /\ task.place = "active" \/ (task.place = "waiting" /\ why = "remove")
  /\ task.stop = "no" /\ Spend("stops")
  /\ LET t == [task EXCEPT !.stop = why]
     IN IF ctl.on
        THEN task' = t /\ ctl' = [ctl EXCEPT !.cancel = TRUE] /\ UNCHANGED <<db, fs>>
        ELSE Settle(StopDone(t)) /\ UNCHANGED ctl
  /\ UNCHANGED <<worker, server>>

\* finishRecording()
FinishRecording ==
  /\ rest.live /\ Spend("finishes")
  /\ task.place \in {"waiting", "active"} /\ task.snap # "complete"
  /\ IF ctl.on
     THEN ctl' = [ctl EXCEPT !.finish = TRUE] /\ UNCHANGED task
     ELSE task' = [task EXCEPT !.finish = TRUE] /\ UNCHANGED ctl
  /\ UNCHANGED <<worker, db, fs, server>>

\* aria2.changeOption of a waiting task: another selection, or another name.
ChangeSelection ==
  /\ task.place = "waiting" /\ task.identity = 1 /\ Spend("changes")
  /\ task' = [task EXCEPT !.identity = 2]
  /\ UNCHANGED <<ctl, worker, db, fs, server>>

ChangeName ==
  /\ task.place = "waiting" /\ ~rest.found /\ task.path < MaxPath /\ Spend("changes")
  /\ task' = [task EXCEPT !.path = @ + 1]
  /\ UNCHANGED <<ctl, worker, db, fs, server>>

\* aria2.retryMedia
RetryMedia ==
  /\ task.place = "failed" /\ Spend("retries")
  /\ task' = [task EXCEPT !.place = "waiting"]
  /\ UNCHANGED <<ctl, worker, db, fs, server>>

\* Engine::removeResult
RemoveMediaResult ==
  /\ task.place \in {"complete", "failed"} /\ Spend("stops")
  /\ Settle([task EXCEPT !.place = "removed"])
  /\ UNCHANGED <<ctl, worker, server>>

-----------------------------------------------------------------------------
(***************************************************************************)
(* The worker.  One step per change of the database or of a file; each     *)
(* names the step that follows it.                                         *)
(***************************************************************************)
At(pc) == worker.pc = pc
Go(pc) == worker' = [worker EXCEPT !.pc = pc]
Says(state) == ctl' = [ctl EXCEPT !.state = state]
Idle == UNCHANGED <<task, server, rest>>

\* An exception ends the worker; the catch block of Session's thread.
Throw ==
  /\ Go("end")
  /\ ctl' = IF ctl.cancel \/ ctl.state = "awaiting" THEN ctl ELSE [ctl EXCEPT !.state = "error"]

\* MediaJob::MediaJob and Store::identity(): another selection drops the
\* segments, unless a publication is pending.
OpenJob ==
  /\ At("open")
  /\ LET changed == db.identity \notin {0, worker.identity}
     IN IF changed /\ db.pub
        THEN Throw /\ UNCHANGED db
        ELSE /\ db' = [db EXCEPT !.identity = worker.identity,
                                 !.segs = IF changed THEN {} ELSE @,
                                 !.manifest = IF changed THEN 0 ELSE @]
             /\ worker' = [worker EXCEPT !.pc = "recover", !.had = db'.segs]
             /\ UNCHANGED ctl
  /\ UNCHANGED fs /\ Idle

\* recoverPublication(): what the record, the output and the staged file say.
Recovery(d, f) ==
  CASE ~d.pub -> "manifest"
    [] d.pub /\ f.out[d.path] = d.digest -> "unlink"
    [] d.pub /\ f.out[d.path] # d.digest /\ f.staging[d.path] = d.digest -> "link"
    [] OTHER -> "forget"

Recover ==
  /\ At("recover")
  /\ IF db.pub /\ db.path # task.path THEN Throw
     ELSE Go(Recovery(db, fs)) /\ UNCHANGED ctl
  /\ UNCHANGED <<db, fs>> /\ Idle

\* Neither file is the recorded one: the record goes after the staged file.
ForgetStaging ==
  /\ At("forget")
  /\ fs' = [fs EXCEPT !.staging[db.path] = NoFile]
  /\ Go("clear")
  /\ UNCHANGED <<ctl, db>> /\ Idle

ClearPublication ==
  /\ At("clear")
  /\ db' = [db EXCEPT !.pub = FALSE, !.digest = NoFile, !.path = 0]
  /\ Go("manifest")
  /\ UNCHANGED <<ctl, fs>> /\ Idle

\* A variant of Manifest, used to test the properties.
ManifestKeepsSegments(d, version) == [d EXCEPT !.manifest = version]

\* Store::manifest(): the segments of another version are dropped.
Manifest(d, version) ==
  [d EXCEPT !.manifest = version,
            !.segs = IF d.manifest \in {0, version} THEN @ ELSE {}]

\* gf_dash_open(), manifestUpdated(), selectGroups() and, of a recording,
\* resumeLive().  A finished recording opens nothing.
OpenManifest ==
  /\ At("manifest")
  /\ IF ctl.finish
     THEN Go("stage") /\ UNCHANGED <<ctl, db>>
     ELSE \/ /\ rest.live
             /\ \E n \in server.first..(server.first + Width - 1) :
                  worker' = [worker EXCEPT !.pc = "fetch", !.next = n, !.manifest = 1]
             /\ Says("downloading") /\ UNCHANGED db
          \/ /\ ~rest.live
             /\ db' = Manifest(db, server.version)
             /\ worker' = [worker EXCEPT
                             !.pc = IF rest.probe /\ worker.identity = 1 THEN "end" ELSE "fetch",
                             !.next = 1, !.manifest = server.version, !.had = db'.segs]
             /\ Says(IF rest.probe /\ worker.identity = 1 THEN "awaiting" ELSE "downloading")
  /\ UNCHANGED fs /\ Idle

\* run(): leaves its loop when told to, or when every segment was consumed.
Complete == ~rest.live /\ worker.next > Last

\* A variant of LeaveLoop, used to test the properties.
LeaveLoopWhenDone ==
  /\ At("fetch") /\ ~ctl.cancel /\ (ctl.finish \/ Complete)
  /\ Go("stage")
  /\ UNCHANGED <<ctl, db, fs>> /\ Idle

LeaveLoop ==
  /\ At("fetch") /\ (ctl.cancel \/ ctl.finish \/ Complete)
  /\ Go(IF ctl.cancel THEN "end" ELSE "stage")
  /\ UNCHANGED <<ctl, db, fs>> /\ Idle

\* consumeSegment(): there is a next segment, and not only a later one.
Offered ==
  worker.next \in IF rest.live
                  THEN server.first..(server.first + Width - 1) ELSE Segments

\* Transport::get(): a resource in the cache is verified and reused, another
\* one fetched.
FetchSegment ==
  /\ At("fetch") /\ ~ctl.cancel /\ ~ctl.finish /\ ~Complete
  /\ Offered
  /\ fs' = [fs EXCEPT !.cache = @ \cup {<<worker.manifest, worker.next>>}]
  /\ Go("commit")
  /\ UNCHANGED <<ctl, db>> /\ Idle

\* The request, or the source, fails.
FetchFails ==
  /\ At("fetch") /\ Spend("faults")
  /\ Throw
  /\ UNCHANGED <<task, db, fs, server>>

\* The segment a recording waits for left the window: the client moves on to
\* the first there is, or reports it (event(), GF_DASH_EVENT_TIMESHIFT_OVERFLOW).
LeftWindow ==
  /\ At("fetch") /\ rest.live /\ worker.next < server.first
  /\ \/ worker' = [worker EXCEPT !.next = server.first] /\ UNCHANGED ctl
     \/ worker.had # {} /\ Throw
  /\ UNCHANGED <<db, fs>> /\ Idle

\* commit(): a segment must follow the last one.
Gap(had, n) == had # {} /\ n > Max({s[2] : s \in had}) + 1
Earlier(had, n) ==
  /\ had # {} /\ n <= Max({s[2] : s \in had})
  /\ \A s \in had : s[2] # n

\* MediaJob::commit(), Store::commit(), remember() and progress().
CommitSegment ==
  /\ At("commit")
  /\ LET n == worker.next
         segment == <<worker.manifest, n>>
     IN IF Gap(worker.had, n)
        THEN Throw /\ UNCHANGED db
        ELSE LET new == IF Earlier(worker.had, n) THEN {} ELSE {segment}
             IN /\ db' = [db EXCEPT !.segs = @ \cup new]
                /\ worker' = [worker EXCEPT !.pc = "fetch", !.next = n + 1, !.had = @ \cup new]
                /\ UNCHANGED ctl
  /\ UNCHANGED fs /\ Idle

\* finalize() and Muxer::stage(): refuses damaged segments, writes the staging
\* file, and takes it back when interrupted.
StageBegins ==
  /\ At("stage")
  /\ IF db.segs = {} \/ ~(db.segs \subseteq fs.cache)
     THEN Throw /\ UNCHANGED fs
     ELSE /\ worker' = [worker EXCEPT !.pc = "staging", !.staged = db.segs]
          /\ fs' = [fs EXCEPT !.staging[task.path] = Partial]
          /\ Says("finalizing")
  /\ UNCHANGED db /\ Idle

StageEnds ==
  /\ At("staging")
  /\ IF ctl.cancel
     THEN Throw /\ fs' = [fs EXCEPT !.staging[task.path] = NoFile]
     ELSE /\ fs' = [fs EXCEPT !.staging[task.path] = Muxed(worker.staged)]
          /\ Go("prepare") /\ UNCHANGED ctl
  /\ UNCHANGED db /\ Idle

\* The muxer refuses what it was given; the staging file goes.
StageFails ==
  /\ At("staging") /\ Spend("faults")
  /\ Throw /\ fs' = [fs EXCEPT !.staging[task.path] = NoFile]
  /\ UNCHANGED <<task, db, server>>

\* finalize(): the publication is recorded before anything is published.
Prepare ==
  /\ At("prepare")
  /\ db' = [db EXCEPT !.pub = TRUE, !.path = task.path, !.digest = fs.staging[task.path]]
  /\ Go(IF ctl.cancel THEN "end" ELSE "link")
  /\ UNCHANGED <<ctl, fs>> /\ Idle

\* A variant of Linked, used to test the properties.
LinkedAnyway(f, p) == [f EXCEPT !.out[p] = f.staging[p]]

\* Muxer::publish(): a rename when the file may be replaced, otherwise a hard
\* link, which fails when the name is taken.
Linked(f, p) ==
  IF rest.overwrite THEN [f EXCEPT !.out[p] = f.staging[p], !.staging[p] = NoFile]
  ELSE IF f.out[p] = NoFile THEN [f EXCEPT !.out[p] = f.staging[p]] ELSE f

Publish ==
  /\ At("link")
  /\ fs' = Linked(fs, db.path)
  /\ IF fs' = fs THEN Throw ELSE Go("unlink") /\ UNCHANGED ctl
  /\ UNCHANGED db /\ Idle

Unlink ==
  /\ At("unlink")
  /\ fs' = [fs EXCEPT !.staging[db.path] = NoFile]
  /\ Go("complete")
  /\ UNCHANGED <<ctl, db>> /\ Idle

\* complete(): the snapshot, then the cache, then the rows.
CompleteSnapshot ==
  /\ At("complete")
  /\ Says("complete") /\ Go("uncache")
  /\ UNCHANGED <<db, fs>> /\ Idle

RemoveCache ==
  /\ At("uncache")
  /\ fs' = [fs EXCEPT !.cache = {}]
  /\ Go("unrecord")
  /\ UNCHANGED <<ctl, db>> /\ Idle

RemoveRows ==
  /\ At("unrecord")
  /\ db' = NoRows
  /\ Go("end")
  /\ UNCHANGED <<ctl, fs>> /\ Idle

\* The end of Session's thread.
Outcome(c) ==
  CASE c.cancel /\ c.state \notin {"complete", "awaiting"} -> "paused"
    [] ~c.cancel /\ c.finish /\ c.state \notin {"complete", "error"} -> "error"
    [] OTHER -> c.state

EndWorker ==
  /\ At("end") /\ ~ctl.done
  /\ ctl' = [ctl EXCEPT !.done = TRUE, !.state = Outcome(ctl)]
  /\ UNCHANGED <<worker, db, fs>> /\ Idle

-----------------------------------------------------------------------------
(***************************************************************************)
(* The world: the source changes, the user takes files, the process dies.  *)
(***************************************************************************)
SourceChanges ==
  /\ Spend("edits")
  /\ IF rest.live THEN server' = [server EXCEPT !.first = @ + 1]
     ELSE server.version < MaxVersion /\ server' = [server EXCEPT !.version = @ + 1]
  /\ UNCHANGED <<task, ctl, worker, db, fs>>

\* A file of the task disappears while no worker runs.
UserRemoves ==
  /\ At("none") /\ rest.takes > 0
  /\ rest' = [rest EXCEPT !.takes = @ - 1, !.took = TRUE]
  /\ \E p \in Paths :
       \/ fs.out[p].kind = "media" /\ fs' = [fs EXCEPT !.out[p] = NoFile]
       \/ fs.staging[p] # NoFile /\ fs' = [fs EXCEPT !.staging[p] = NoFile]
  /\ UNCHANGED <<task, ctl, worker, db, server>>

\* Somebody else creates the file the task is going to publish.
UserPlaces ==
  /\ task.place = "active" /\ fs.out[task.path] = NoFile /\ Spend("places")
  /\ fs' = [fs EXCEPT !.out[task.path] = Foreign]
  /\ UNCHANGED <<task, ctl, worker, db, server>>

\* The process ends without notice.  The next one restores the task from the
\* session saved last, before or after its options changed.
MediaCrash ==
  /\ rest.crashes > 0
  /\ rest' = [rest EXCEPT !.crashes = @ - 1, !.died = @ + 1,
                          !.orphan = @ \/ (~db.pub /\ \E p \in Paths : fs.staging[p] # NoFile)]
  /\ task.place \in {"waiting", "active"}
  /\ \E path \in {1, task.path}, identity \in {1, task.identity} :
       task' = [NewMedia EXCEPT !.path = path, !.identity = identity]
  /\ ctl' = NoControl /\ worker' = NoWorker
  /\ UNCHANGED <<db, fs, server>>

\* What the worker does by itself.
WorkerStep ==
  \/ OpenJob \/ Recover \/ ForgetStaging \/ ClearPublication \/ OpenManifest
  \/ LeaveLoop \/ FetchSegment \/ LeftWindow \/ CommitSegment
  \/ StageBegins \/ StageEnds \/ Prepare \/ Publish \/ Unlink
  \/ CompleteSnapshot \/ RemoveCache \/ RemoveRows \/ EndWorker

MediaNext ==
  \/ StartMedia \/ Poll \/ StopMedia("pause") \/ StopMedia("remove")
  \/ FinishRecording \/ ChangeSelection \/ ChangeName \/ RetryMedia \/ RemoveMediaResult
  \/ WorkerStep \/ FetchFails \/ StageFails
  \/ SourceChanges \/ UserRemoves \/ UserPlaces \/ MediaCrash

MediaSpec == MediaInit /\ [][MediaNext]_mediaVars

\* The poll timer and the worker thread keep running; the source need not
\* offer another segment, and nothing need fail.
MediaFairSpec == MediaSpec /\ WF_mediaVars(Poll) /\ WF_mediaVars(WorkerStep)

-----------------------------------------------------------------------------
(***************************************************************************)
(* Properties.                                                             *)
(***************************************************************************)
MediaTypeOK ==
  /\ task.place \in {"waiting", "active", "complete", "failed", "removed"}
  /\ task.stop \in {"no", "pause", "remove"}
  /\ task.path \in Paths /\ task.identity \in 1..2
  /\ ctl.on <=> worker.pc # "none"
  /\ ctl.on <=> task.place = "active"
  /\ task.stop # "no" => task.place = "active" /\ ctl.cancel
  /\ db.segs \subseteq Nat \X Nat /\ fs.cache \subseteq Nat \X Nat
  /\ db.pub <=> db.path \in Paths
  /\ DOMAIN fs.out = Paths /\ DOMAIN fs.staging = Paths

\* One version of a finite presentation, or a stretch of a recording.
Whole(segs) ==
  IF rest.live
  THEN segs # {} /\ \A s, q \in segs : s[1] = 1 /\ \A n \in s[2]..q[2] : <<1, n>> \in segs
  ELSE \E v \in 1..MaxVersion : segs = {v} \X Segments

\* A download reported complete has its output in place, and the output is
\* every segment of one version of the presentation, or a recording without a
\* gap, whatever was interrupted on the way (MediaPublication.cc, commit()).
CompleteIsWhole ==
  ctl.state = "complete" =>
    /\ fs.out[task.path].kind = "media"
    /\ Whole(fs.out[task.path].segs)

\* Without allow-overwrite no step changes a file that was there before, or
\* one the task published earlier (Muxer::publish links, it does not rename).
UserFilesKept ==
  [][\A p \in Paths :
       fs.out[p].kind \in {"foreign", "media"} /\ ~rest.overwrite
         => fs'.out[p] \in {fs.out[p], NoFile} /\ (fs'.out[p] = NoFile => fs.out[p] # Foreign)]_mediaVars

\* The database never counts a segment the cache does not hold, unless a
\* publication of those segments is under way: what is committed is there when
\* the next run resumes (Transport::get before Store::commit, and the cache
\* before the rows in complete()).  A file the user took away is the exception.
RecordedIsStored == db.segs \subseteq fs.cache \/ db.pub \/ rest.took

\* The staged file a publication names is given up only for the output it
\* became, by removing the task, or by the user: recoverPublication() resumes
\* what finalize() recorded and never downloads it again.
PublicationResumes ==
  [][db.pub /\ fs.staging[db.path] = db.digest /\ fs'.staging[db.path] = NoFile
       => fs.out[db.path] = db.digest \/ fs'.out[db.path] = db.digest
            \/ task'.place = "removed" \/ rest'.took]_mediaVars

\* A removed task leaves no rows, no cache and no staging file behind
\* (Store::discard()), except when the process died while it was staging.
RemovedLeavesNothing ==
  task.place = "removed" =>
    /\ db = NoRows /\ fs.cache = {}
    /\ rest.orphan \/ \A p \in Paths : fs.staging[p] = NoFile

\* An output that is complete is whole, and rows, cache and staging file agree,
\* over any death of the process (MediaPublication.cc, MediaStore.cc).
MediaSound ==
  /\ MediaTypeOK
  /\ CompleteIsWhole
  /\ RecordedIsStored
  /\ RemovedLeavesNothing

\* A publication changes no file of the user and is never half undone
\* (Muxer::publish, recoverPublication).
PublicationSafe == UserFilesKept /\ PublicationResumes

\* A download, and a recording told to finish or to stop, gives its slot back:
\* the worker notices and the poll reports it.
MediaEnds ==
  []<>(task.place = "active" => rest.live /\ ~ctl.finish /\ ~ctl.cancel)

\* The download as the engine sees it.
MediaMode ==
  CASE task.place \in {"waiting", "removed"} -> "idle"
    [] task.place = "active" -> IF task.stop = "no" THEN "busy" ELSE "stopping"
    [] OTHER -> "over"

MediaContract == INSTANCE TaskContract
  WITH mode <- MediaMode, inflight <- worker.pc # "none", crashes <- rest.died

\* MediaTask is a task as the engine expects one: it implements TaskContract
\* (start, poll, stop, workerDone).
MediaKeepsContract == MediaContract!Spec
=============================================================================

---------------------------- MODULE HttpTransfer ----------------------------
(***************************************************************************)
(* One HTTP download from start() to its end: the phases of http/HttpTask, *)
(* its connections, the buffers between a response and the disk, the       *)
(* strand of disk/Output, the resume record of state/StateStore, and what  *)
(* a crash leaves of them.                                                 *)
(*                                                                         *)
(* A file is a few units; the server's file has a version, which is also   *)
(* its entity tag.  SegmentPlanner.tla models which ranges a connection    *)
(* gets; here a connection fetches any missing unit.  The control thread's *)
(* calls are functions on the task `t`, composed as the code composes      *)
(* them; the disk thread runs one job of the strand at a time and posts    *)
(* its completion back.                                                    *)
(***************************************************************************)
EXTENDS Integers, Sequences, FiniteSets, FiniteSetsExt

CONSTANTS
  Slots,        \* connection slots, 1..n
  Units,        \* the parts of the file, 1..n
  Versions,     \* the server's files, 1..n
  MaxRestarts,  \* maxRestarts
  MaxRepairs,   \* maxRepairs
  MaxTries,     \* --max-tries
  Checked,      \* TRUE: piece hashes are known
  Scenarios,    \* [kind, changes, faults, errors, damage, stops, crashes,
                \*  rangeless]: what is on disk at first ("none", "foreign",
                \*  "record"), and bounds on what the world may do
  CrashUnrecorded  \* TRUE: also while the file has no record of its own

VARIABLES
  t,       \* the HttpTask
  disk,    \* [exists, file]: the output file, per unit what was written last
  record,  \* its row of the state database, or NoRecord
  remote,  \* the version the server serves now
  left,    \* the scenario: what remains of its bounds
  dead     \* crashes so far

vars == <<t, disk, record, remote, left, dead>>

NoTag == 0
Hole == 0
Foreign == -1
Damaged == -2
NoRecord == [tag |-> NoTag, done |-> {}, there |-> FALSE]
Off == [live |-> FALSE, todo |-> {}, buf |-> {}, ver |-> NoTag]
First == Min(Units)

Live(x) == {c \in Slots : x.conns[c].live}

\* The object after its constructor.
NewTask ==
  [phase |-> "Idle", conns |-> [c \in Slots |-> Off], got |-> {},
   known |-> FALSE, persisted |-> {}, tag |-> NoTag, named |-> FALSE,
   own |-> TRUE, ranged |-> TRUE, single |-> FALSE, distrust |-> FALSE,
   out |-> FALSE, open |-> FALSE, held |-> {}, pending |-> 0, restarts |-> 0,
   repairs |-> 0, failures |-> [c \in Slots |-> 0], stopcb |-> FALSE, owed |-> FALSE,
   ended |-> "no", strand |-> <<>>, posted |-> <<>>, checks |-> 0, save |-> FALSE,
   erase |-> FALSE]

-----------------------------------------------------------------------------
(* The calls of the control thread.  `save` and `erase` note what they     *)
(* did to the record last; Apply brings it to the database.                *)

\* checkpoint(): the engine also calls it when the task ends and after
\* `done`.  state() is Complete only once the engine retires the task.
Checkpoint(x) ==
  IF x.named /\ x.known /\ x.phase # "Restarting"
  THEN [x EXCEPT !.save = TRUE, !.erase = FALSE]
  ELSE x

RemoveTransfer(x) == [x EXCEPT !.erase = TRUE, !.save = FALSE]

Job(x, job) == [x EXCEPT !.strand = Append(@, job)]
Close(x, then) == Job(x, [op |-> "close", then |-> then])

\* reset()
Reset(x) ==
  [x EXCEPT !.conns = [c \in Slots |-> Off], !.got = {}, !.known = FALSE,
            !.persisted = {}, !.out = FALSE, !.open = FALSE, !.held = {},
            !.pending = 0, !.failures = [c \in Slots |-> 0]]

\* openOutput(): a new Output with a strand of its own.
OpenOutput(x, truncate) ==
  Job([x EXCEPT !.out = TRUE], [op |-> "open", truncate |-> truncate])

\* Mutant of Write: the bytes count as stored before they are.
WriteCountsEarly(x, data) ==
  Job([x EXCEPT !.pending = @ + 1, !.persisted = @ \cup {d[1] : d \in data}],
      [op |-> "write", data |-> data])

\* write()
Write(x, data) ==
  Job([x EXCEPT !.pending = @ + 1], [op |-> "write", data |-> data])

\* flush(): where a connection's buffer goes depends on the phase.
Flush(x, c) ==
  LET data == x.conns[c].buf
      y == [x EXCEPT !.conns[c].buf = {}]
  IN CASE data = {} -> x
       [] data # {} /\ x.phase = "Restarting" -> y
       [] data # {} /\ x.phase \notin {"Restarting", "Probing", "Opening"}
          /\ x.out -> Write(y, data)
       [] OTHER -> [y EXCEPT !.held = @ \cup data]

\* retireWorker()
Retire(x, c) == [x EXCEPT !.conns[c] = Off]

\* cancelWorker()
Cancel(x, c) == Retire(Flush(x, c), c)
CancelAll(x) == FoldSet(LAMBDA c, y : Cancel(y, c), x, Live(x))

\* abort(), and failed() with the engine's last checkpoint.
Abort(x) ==
  IF x.phase \in {"Done", "Stopping"}
  THEN x
  ELSE LET y == Checkpoint(CancelAll([x EXCEPT !.phase = "Done"]))
       IN [IF y.out THEN Close(y, "nothing") ELSE y EXCEPT !.ended = "failed"]

\* The `finish` lambda of quiesce(): `done` runs, and checkpoints.
Stopped(x) ==
  Checkpoint([x EXCEPT !.out = FALSE, !.phase = "Idle", !.owed = FALSE])

\* quiesce()
Quiesce(x) ==
  IF x.phase # "Stopping" \/ x.pending > 0 \/ ~x.stopcb
  THEN x
  ELSE LET y == [Checkpoint(x) EXCEPT !.stopcb = FALSE]
       IN IF x.out THEN Close(y, "stopped") ELSE Stopped(y)

\* Mutant of RestartWhenQuiet: restarts beside the old output.
RestartAtOnce(x) ==
  IF x.phase # "Restarting"
  THEN x
  ELSE [x EXCEPT !.posted = Append(@, [then |-> "restart"])]

\* restartWhenQuiet()
RestartWhenQuiet(x) ==
  IF x.phase # "Restarting" \/ x.pending > 0
  THEN x
  ELSE IF x.out
       THEN Close(x, "restart")
       ELSE [x EXCEPT !.posted = Append(@, [then |-> "restart"])]

\* changed(): the stored bytes belong to another file.
Changed(x) ==
  IF (~x.own /\ x.named) \/ x.restarts = MaxRestarts
  THEN Abort([x EXCEPT !.restarts = Min({@ + 1, MaxRestarts})])
  ELSE RestartWhenQuiet(RemoveTransfer(
         [x EXCEPT !.restarts = @ + 1,
                   !.single = @ \/ x.restarts > 0 \/ x.distrust,
                   !.phase = "Restarting",
                   !.conns = [c \in Slots |-> Off]]))

\* Mutant of Restart: what was received before still counts.
RestartKeeps(x) ==
  IF x.phase # "Restarting"
  THEN Quiesce(x)
  ELSE [x EXCEPT !.tag = NoTag, !.phase = "Probing", !.out = FALSE]

\* The `restart` lambda.
Restart(x) ==
  IF x.phase # "Restarting"
  THEN Quiesce(x)
  ELSE [Reset(x) EXCEPT !.tag = NoTag, !.ranged = ~x.distrust,
                        !.phase = "Probing"]

\* tryFinish()
TryFinish(x) ==
  IF x.phase # "Running" \/ x.got # Units
  THEN x
  ELSE LET y == CancelAll(x)
       IN IF y.pending > 0 \/ y.held # {}
          THEN y
          ELSE Close([y EXCEPT !.phase = "Finishing"], "verify")

\* outputReady()
OutputReady(x, ok) ==
  IF x.phase # "Opening"
  THEN Quiesce(x)
  ELSE IF ~ok
  THEN Abort(x)
  ELSE LET y == Checkpoint([x EXCEPT !.phase = "Running", !.held = {}])
           z == IF x.held = {} THEN y ELSE Write(y, x.held)
       IN TryFinish(FoldSet(LAMBDA c, w : Flush(w, c), z, Live(z)))

\* Mutant of Written: the last write of a stopping task is not noticed.
WrittenForgetsStop(x, data, ok) ==
  LET y == [x EXCEPT !.pending = @ - 1]
  IN CASE x.phase = "Restarting" -> RestartWhenQuiet(y)
       [] x.phase # "Restarting" /\ ~ok -> Abort(y)
       [] OTHER -> TryFinish([y EXCEPT !.persisted = @ \cup {d[1] : d \in data}])

\* written()
Written(x, data, ok) ==
  LET y == [x EXCEPT !.pending = @ - 1]
      z == [y EXCEPT !.persisted = @ \cup {d[1] : d \in data}]
  IN CASE x.phase = "Restarting" -> RestartWhenQuiet(y)
       [] x.phase # "Restarting" /\ ~ok -> Abort(y)
       [] x.phase = "Stopping" /\ ok -> Quiesce(z)
       [] OTHER -> TryFinish(z)

\* succeed(): the record is removed, then complete() checkpoints.
Succeed(x) ==
  [Checkpoint(RemoveTransfer([x EXCEPT !.phase = "Done"]))
     EXCEPT !.ended = "complete"]

\* verifyAndComplete(): piece hashes are checked on the disk pool.
Verify(x) ==
  CASE x.phase # "Finishing" -> Quiesce(x)
    [] x.phase = "Finishing" /\ ~Checked -> Succeed(x)
    [] OTHER -> [x EXCEPT !.checks = @ + 1]

\* checkPieces() and repair()
Checks(x, bad) ==
  CASE x.phase # "Finishing" -> Quiesce(x)
    [] x.phase = "Finishing" /\ bad = {} -> Succeed(x)
    [] x.phase = "Finishing" /\ bad # {} /\ x.repairs < MaxRepairs ->
       OpenOutput([x EXCEPT !.repairs = @ + 1, !.got = @ \ bad,
                            !.persisted = @ \ bad, !.phase = "Opening"], FALSE)
    [] OTHER -> Abort([x EXCEPT !.phase = "Running"])

\* slotFailed(): the task fails when nothing runs and the tries are used up.
SlotFailed(x, c) ==
  LET slot == IF x.phase = "Probing" THEN 1 ELSE c
      y == [x EXCEPT !.failures[slot] = @ + 1]
      used == IF x.phase = "Probing" THEN {1} ELSE Slots
  IN IF Live(y) = {} /\ \A d \in used : y.failures[d] >= MaxTries
     THEN Abort(y)
     ELSE y

\* parallel() and connectionTarget(): slots in use; with ranges the servers'
\* allowance may be anything up to all of them.
Parallel(x) == x.ranged /\ ~x.single /\ x.known

-----------------------------------------------------------------------------
Saved(x) ==
  CASE x.save -> [tag |-> x.tag, done |-> x.persisted, there |-> TRUE]
    [] x.erase -> NoRecord
    [] OTHER -> record

\* One handler of the control thread turned the task into x.
Apply(x) ==
  /\ record' = Saved(x)
  /\ t' = [x EXCEPT !.save = FALSE, !.erase = FALSE]

Quiet == UNCHANGED <<disk, remote, left, dead>>

Init ==
  /\ t = NewTask
  /\ remote = 1
  /\ dead = 0
  /\ left \in Scenarios
  /\ LET kind == left.kind IN
       /\ disk = [exists |-> kind # "none",
                  file |-> [u \in Units |->
                    CASE kind = "foreign" /\ u = First -> Foreign
                      [] kind = "record" /\ u = First -> 1
                      [] OTHER -> Hole]]
       /\ record = IF kind = "record"
                   THEN [tag |-> 1, done |-> {First}, there |-> TRUE]
                   ELSE NoRecord

\* start(): resumes the file its record names, unless that was deleted.
Start ==
  /\ t.phase = "Idle" /\ t.ended = "no"
  /\ LET x == [Reset(t) EXCEPT !.phase = "Probing"]
     IN Apply(IF record.there /\ disk.exists
              THEN OpenOutput([x EXCEPT !.named = TRUE, !.own = TRUE,
                                        !.tag = record.tag, !.known = TRUE,
                                        !.got = record.done,
                                        !.persisted = record.done,
                                        !.phase = "Opening"], FALSE)
              ELSE x)
  /\ Quiet

\* launch() and startWorker(), while probing: one request for the file, and a
\* hedged copy of it.
Probe(c) ==
  /\ t.phase = "Probing" /\ ~t.conns[c].live /\ t.failures[1] < MaxTries
  /\ c <= 2 /\ (c = 2 => t.conns[1].live)
  /\ Apply([t EXCEPT !.conns[c] = [Off EXCEPT !.live = TRUE, !.todo = Units]])
  /\ Quiet

\* launch(), while running: a range nobody fetches, or the tail of another
\* connection's; without ranges the whole file over one connection.
Launch(c) ==
  /\ t.phase = "Running" /\ ~t.conns[c].live /\ t.failures[c] < MaxTries
  /\ t.got # Units
  /\ Parallel(t) \/ c = 1
  /\ IF t.ranged
     THEN \E u \in Units \ t.got :
            /\ Parallel(t) \/ u = Min(Units \ t.got)
            /\ \A d \in Live(t) : u \in t.conns[d].todo => u # Min(t.conns[d].todo)
            /\ Apply([t EXCEPT !.conns = [d \in Slots |->
                 IF d = c THEN [Off EXCEPT !.live = TRUE, !.todo = {u}]
                 ELSE [@[d] EXCEPT !.todo = @ \ {u}]]])
     ELSE /\ Live(t) = {}
          /\ Apply([t EXCEPT !.conns[c] =
                      [Off EXCEPT !.live = TRUE, !.todo = Units]])
  /\ Quiet

\* decidePath(): a new file, an existing one adopted as a prefix, or one that
\* a claimed record continues.
DecidePath(x, c) ==
  LET new == [x EXCEPT !.named = TRUE, !.own = TRUE]
      size == IF \E u \in Units : disk.file[u] = Foreign THEN {First} ELSE Units
  IN CASE record.there /\ disk.exists /\ record.tag = x.tag ->
            OpenOutput(Cancel([new EXCEPT !.got = record.done,
                                          !.persisted = record.done], c), FALSE)
       [] record.there /\ disk.exists /\ record.tag # x.tag -> OpenOutput(new, TRUE)
       [] ~record.there /\ disk.exists /\ ~x.ranged -> Abort(x)
       [] ~record.there /\ disk.exists /\ x.ranged ->
            OpenOutput(Cancel([new EXCEPT !.own = FALSE, !.got = size,
                                          !.persisted = size], c), FALSE)
       [] OTHER -> OpenOutput(new, TRUE)

\* rangesIgnored(): the whole file in answer to a range.
RangesIgnored(x, c) ==
  CASE x.tag # remote -> Changed(x)
    [] x.tag = remote /\ ~x.own /\ x.named -> Abort(x)
    [] OTHER -> Cancel([x EXCEPT !.ranged = FALSE], c)

\* accept(): the headers of a response.  A server answers a range asked for
\* under another tag with the whole file, or, ignoring If-Range, with the range.
Accept(c) ==
  /\ t.conns[c].live /\ t.conns[c].ver = NoTag
  /\ t.phase \in {"Probing", "Opening", "Running"}
  /\ \E whole \in BOOLEAN :
       /\ whole \/ t.ranged
       /\ t.single /\ t.tag # NoTag /\ t.tag # remote => whole
       /\ left.rangeless \/ (whole => ~t.ranged \/ t.tag \notin {NoTag, remote})
       /\ LET x == [t EXCEPT !.conns[c].ver = remote]
              y == FoldSet(LAMBDA d, w : Cancel(w, d), x, Live(x) \ {c})
              z == [y EXCEPT !.known = TRUE, !.tag = remote, !.phase = "Opening",
                             !.ranged = @ /\ ~whole]
          IN Apply(CASE whole /\ First \notin t.conns[c].todo -> RangesIgnored(t, c)
                     [] ~(whole /\ First \notin t.conns[c].todo)
                        /\ ~t.single /\ t.tag \notin {NoTag, remote} -> Changed(t)
                     [] OTHER ->
                          IF t.phase # "Probing" THEN x
                          ELSE IF t.named
                          THEN OpenOutput(z, z.own /\ z.persisted = {})
                          ELSE DecidePath(z, c))
  /\ Quiet

\* receive(): the next unit of the body; the last one flushes the buffer.
Receive(c) ==
  LET conn == t.conns[c]
      u == Min(conn.todo)
      x(v) == [t EXCEPT !.got = @ \cup {u}, !.failures[c] = 0,
                        !.conns[c].todo = @ \ {u},
                        !.conns[c].buf = @ \cup {<<u, v>>}]
      done == conn.todo = {u}
  IN /\ conn.live /\ conn.ver # NoTag /\ conn.todo # {}
     /\ t.phase \in {"Opening", "Running"}
     /\ \/ /\ Apply(IF done THEN TryFinish(Flush(x(conn.ver), c)) ELSE x(conn.ver))
           /\ UNCHANGED left
        \/ /\ left.damage > 0
           /\ left' = [left EXCEPT !.damage = @ - 1]
           /\ Apply(IF done THEN TryFinish(Flush(x(Damaged), c)) ELSE x(Damaged))
     /\ UNCHANGED <<disk, remote, dead>>

\* receive(): bytes past the announced length.
Overrun(c) ==
  /\ t.conns[c].live /\ t.conns[c].ver # NoTag /\ t.conns[c].todo = {}
  /\ t.phase \in {"Opening", "Running"} /\ left.faults > 0
  /\ left' = [left EXCEPT !.faults = @ - 1]
  /\ Apply(Changed([t EXCEPT !.distrust = TRUE]))
  /\ UNCHANGED <<disk, remote, dead>>

\* tick(): a buffer that waited long enough.
TickFlush(c) ==
  /\ t.phase \in {"Opening", "Running"} /\ t.conns[c].buf # {}
  /\ Apply(Flush(t, c))
  /\ Quiet

\* finished(): the response ended after its last byte.
Finished(c) ==
  /\ t.conns[c].live /\ t.conns[c].ver # NoTag /\ t.conns[c].todo = {}
  /\ Apply(TryFinish(Cancel(t, c)))
  /\ Quiet

\* finished(), failedResponse(), and a stalled connection in tick(): the
\* attempt failed, the answer is final, or the range is not satisfiable.
Fails(c) ==
  /\ t.conns[c].live /\ left.faults > 0
  /\ left' = [left EXCEPT !.faults = @ - 1]
  /\ LET x == Cancel(t, c)
     IN \/ Apply(SlotFailed(x, c))
        \/ t.conns[c].ver = NoTag /\ Apply(Abort(x))
        \/ t.conns[c].ver = NoTag /\ t.known /\ Apply(Changed(x))
  /\ UNCHANGED <<disk, remote, dead>>

\* stop(), called once the engine is to release an active task.
Stop ==
  /\ t.phase \notin {"Idle", "Done", "Stopping"} /\ left.stops > 0
  /\ left' = [left EXCEPT !.stops = @ - 1]
  /\ Apply(Quiesce(CancelAll([t EXCEPT !.stopcb = TRUE, !.owed = TRUE,
                                       !.phase = "Stopping"])))
  /\ UNCHANGED <<disk, remote, dead>>

\* The engine's timer.
TickCheckpoint ==
  /\ t.phase \notin {"Idle", "Done"}
  /\ Apply(Checkpoint(t))
  /\ Quiet

-----------------------------------------------------------------------------
(* The disk thread, the completions it posts, and the world.               *)

\* Output::open, write and close on the strand.
Perform(job, ok) ==
  LET post == [t EXCEPT !.strand = Tail(@)]
      done(note) == [post EXCEPT !.posted = Append(@, note)]
  IN CASE job.op = "open" ->
            /\ t' = [done([then |-> "opened", ok |-> ok]) EXCEPT !.open = ok]
            /\ disk' = IF ~ok THEN disk
                       ELSE [exists |-> TRUE,
                             file |-> IF job.truncate \/ ~disk.exists
                                      THEN [u \in Units |-> Hole]
                                      ELSE disk.file]
       [] job.op = "write" ->
            /\ t' = done([then |-> "written", data |-> job.data,
                          ok |-> ok /\ t.open])
            /\ disk' = IF ok /\ t.open
                       THEN [disk EXCEPT !.file = [u \in Units |->
                              IF \E d \in job.data : d[1] = u
                              THEN (CHOOSE d \in job.data : d[1] = u)[2]
                              ELSE @[u]]]
                       ELSE disk
       [] OTHER ->
            /\ t' = [done([then |-> job.then]) EXCEPT !.open = FALSE]
            /\ UNCHANGED disk

DiskJob ==
  /\ t.strand # <<>>
  /\ \/ Perform(Head(t.strand), TRUE) /\ UNCHANGED left
     \/ /\ Head(t.strand).op \in {"open", "write"} /\ left.errors > 0
        /\ left' = [left EXCEPT !.errors = @ - 1]
        /\ Perform(Head(t.strand), FALSE)
  /\ UNCHANGED <<record, remote, dead>>

\* badPieces() on a strand of its own.
CheckJob ==
  /\ t.checks > 0
  /\ t' = [t EXCEPT !.checks = @ - 1,
                    !.posted = Append(@, [then |-> "checked",
                      bad |-> {u \in Units : disk.file[u] \in {Damaged, Hole}}])]
  /\ UNCHANGED <<disk, record, remote, left, dead>>

\* The completion handlers, in the order they were posted.
Completion ==
  /\ t.posted # <<>>
  /\ LET note == Head(t.posted)
         x == [t EXCEPT !.posted = Tail(@)]
     IN Apply(CASE note.then = "opened" -> OutputReady(x, note.ok)
                [] note.then = "written" -> Written(x, note.data, note.ok)
                [] note.then = "verify" -> Verify([x EXCEPT !.out = FALSE])
                [] note.then = "checked" -> Checks(x, note.bad)
                [] note.then = "restart" -> Restart(x)
                [] note.then = "stopped" -> Stopped(x)
                [] OTHER -> x)
  /\ Quiet

ServerChanges ==
  /\ left.changes > 0
  /\ left' = [left EXCEPT !.changes = @ - 1]
  /\ remote' = remote + 1
  /\ UNCHANGED <<t, disk, record, dead>>

\* The file on disk has no record of its own yet: an open created or truncated
\* it and its handler has not run, or changed() removed the old record.
Unrecorded ==
  \/ disk.exists /\ ~record.there /\ left.kind # "foreign"
  \/ \E i \in DOMAIN t.posted : t.posted[i].then = "opened"

\* The process dies; the next one starts the task from its session entry.
Crash ==
  /\ left.crashes > 0 /\ t.phase # "Done" /\ t # NewTask
  /\ CrashUnrecorded \/ ~Unrecorded
  /\ left' = [left EXCEPT !.crashes = @ - 1]
  /\ dead' = dead + 1
  /\ t' = NewTask
  /\ UNCHANGED <<disk, record, remote>>

Next ==
  \/ Start \/ Stop \/ TickCheckpoint
  \/ \E c \in Slots :
       \/ Probe(c) \/ Launch(c) \/ Accept(c) \/ Receive(c) \/ Overrun(c)
       \/ TickFlush(c) \/ Finished(c) \/ Fails(c)
  \/ DiskJob \/ CheckJob \/ Completion
  \/ ServerChanges \/ Crash

Spec == Init /\ [][Next]_vars

\* The disk and control threads run, and the server answers.
Network ==
  \E c \in Slots : Probe(c) \/ Launch(c) \/ Accept(c) \/ Receive(c) \/ Finished(c)

FairSpec ==
  /\ Spec
  /\ WF_vars(DiskJob \/ CheckJob \/ Completion)
  /\ WF_vars(Network)

-----------------------------------------------------------------------------
TypeOK ==
  /\ t.phase \in {"Idle", "Probing", "Opening", "Running", "Restarting",
                  "Finishing", "Stopping", "Done"}
  /\ t.got \subseteq Units /\ t.persisted \subseteq Units
  /\ t.tag \in Versions \cup {NoTag}
  /\ t.restarts \in 0..MaxRestarts /\ t.repairs \in 0..MaxRepairs
  /\ t.ended \in {"no", "complete", "failed"}
  /\ disk.file \in [Units -> Versions \cup {Hole, Foreign, Damaged}]
  /\ record.tag \in Versions \cup {NoTag} /\ record.done \subseteq Units

\* A resume the server would honour is never wrong: while it still serves the
\* version the record's validators name, every byte the record claims is on
\* disk in that version, whatever the phase, and so whenever the process dies.
\* written() adds a range only after its write, and changed() removes the
\* record before the file is truncated (HttpTask.cc:1442, 1735).
RecordTruthful ==
  record.there /\ record.tag = remote =>
    \A u \in record.done : disk.file[u] \in {remote, Foreign, Damaged}

\* A download that completes leaves a file with every unit, all of one
\* version: bytes of a file the server replaced never remain beside new ones,
\* through restarts, pauses and crashes (HttpTask.cc:1716-1771).
CompleteIsOneVersion ==
  t.ended = "complete" =>
    /\ \A u \in Units : disk.file[u] # Hole
    /\ \E v \in Versions : \A u \in Units : disk.file[u] \in {v, Foreign, Damaged}

\* With piece hashes no damaged unit survives completion (HttpTask.cc:1832).
CompleteIsSound ==
  Checked /\ t.ended = "complete" => \A u \in Units : disk.file[u] # Damaged

\* An Output is only opened when no earlier one has work left: two strands on
\* one file would run in any order (HttpTask.cc:1742-1768).
OneOutput ==
  \A i \in DOMAIN t.strand : t.strand[i].op = "open" => i = 1

\* pendingWrites_ counts exactly the writes whose completion is still to come,
\* across restarts and stops: a count that drifts either hangs the task or
\* finishes it early (HttpTask.cc:1416-1443).
PendingExact ==
  t.pending = Cardinality({i \in DOMAIN t.strand : t.strand[i].op = "write"})
              + Cardinality({i \in DOMAIN t.posted : t.posted[i].then = "written"})

\* "An existing file is adopted as a prefix and never truncated"
\* (HttpTask.cc:1181): its bytes stay as they were.
AdoptedFileKept ==
  left.kind = "foreign" => disk.file[First] = Foreign

\* stop() is answered (HttpTask.cc:1984-2022).
StopAnswered == []<>~t.owed

\* A started download completes, fails or is stopped: it never stays under way.
Ends == []<>(t.phase \in {"Done", "Idle"})

-----------------------------------------------------------------------------
mode ==
  CASE t.owed -> "stopping"
    [] ~t.owed /\ t.ended # "no" -> "over"
    [] ~t.owed /\ t.ended = "no" /\ t.phase = "Idle" -> "idle"
    [] OTHER -> "busy"

inflight == Live(t) # {} \/ t.strand # <<>> \/ t.pending > 0

Contract == INSTANCE TaskContract WITH crashes <- dead

\* The task keeps the contract of core/Task.h:68-78.
KeepsContract == Contract!Spec
=============================================================================

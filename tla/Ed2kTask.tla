------------------------------ MODULE Ed2kTask ------------------------------
(***************************************************************************)
(* One ED2K download (ed2k/Ed2kTask.cc): its file, the parts it verifies   *)
(* and shares, the disk strand it writes through and the record of its     *)
(* progress.  The sources are the environment: they claim blocks as        *)
(* Client::requestBlocks does and deliver them as Client::receiveBlock     *)
(* does, with the right data or with wrong data.                           *)
(*                                                                         *)
(* The task is a record t; a method of the task is a function of it.  The  *)
(* strand executes t.jobs in order and its completions wait in t.ended     *)
(* until the control thread runs them.  pendingWrites_ and pendingHashes_  *)
(* count the jobs between these two ends.                                  *)
(***************************************************************************)
EXTENDS Ed2kParts

CONSTANTS
  Available,    \* the parts each source holds
  Preview,      \* ed2k-preview-priority
  BlocksAhead,  \* blocks a source is asked for at a time
  LateWrong,    \* may wrong data arrive for a part that has all its data, or
                \* is being hashed?
  MaxQueue,     \* a block arrives only while fewer jobs than this are under way
  OpenErrors,   \* may opening or extending the file fail?
  FileScenarios \* what may happen how often: records of these bounds
                \*   found    the file at the default path: "absent", "whole",
                \*            "short" or "long"
                \*   option   "continue", "overwrite", "rename" or "refuse"
                \*   hashes   does the link carry the hash set?
                \*   from     the sources that serve the file
                \*   corrupt  wrong blocks the sources deliver
                \*   gone     sources that are dropped
                \*   errors   disk errors
                \*   saves, stops, edits, again, crashes; died counts crashes

VARIABLES
  t,        \* the task
  files,    \* the files at the default and at the numbered path
  stored,   \* the record in Store; NoRecord when there is none
  budget    \* what the bounds still admit

fileVars == <<t, files, stored, budget>>

Paths == {"default", "numbered"}
Data == {"right", "wrong", "hole"}
Sizes == {"absent", "short", "whole", "long"}
NoRecord == [path |-> "none"]

\* What a behaviour is given in FileInit.
Scenario ==
  [found : Sizes, option : {"continue", "overwrite", "rename", "refuse"},
   hashes : BOOLEAN, from : SUBSET Sources, corrupt : Nat, gone : Nat, errors : Nat,
   saves : Nat, stops : Nat, edits : Nat, again : Nat, crashes : Nat, died : Nat]

\* What the constants of an instance are, when no wrong data comes late.
FileConstants ==
  /\ Size \in Nat \ {0} /\ PartLength \in Nat \ {0} /\ BlockLength \in Nat \ {0}
  /\ BlocksAhead \in Nat
  /\ Available \in [Sources -> SUBSET PartIndexes]
  /\ ~LateWrong
  /\ IsFiniteSet(Sources)
  /\ FileScenarios \subseteq {b \in Scenario : b.died = 0}
  /\ \A b \in FileScenarios : b.found = "short" => Count > 1  \* a part of it is there

\* hashSetPartCount() is zero for a file shorter than one part.
Multipart == Size >= PartLength
NeedsHashSet(x) == Multipart /\ ~x.hashes

NewFileTask(hashes) ==
  [phase |-> "Idle", over |-> FALSE, stopping |-> FALSE, outcome |-> "Stop",
   opened |-> FALSE, path |-> "default", p |-> NoParts, waiting |-> {},
   unchecked |-> FALSE, local |-> {}, hashes |-> hashes,
   jobs |-> <<>>, ended |-> <<>>]

Enqueue(x, job) == [x EXCEPT !.jobs = Append(@, job)]
HashJob(i) == [kind |-> "hash", part |-> i]
Pending(x) == x.jobs # <<>> \/ x.ended # <<>>

\* checkpoint(): the record is written with the file's present time stamp.
Saves(x) == x.opened /\ x.phase \in {"Downloading", "Sharing", "Idle"}
RecordCountsFilled(x) ==
  [path |-> x.path, parts |-> {i \in PartIndexes : Filled(x.p, i)},
   received |-> x.p.received, hashes |-> x.hashes, current |-> TRUE]

RecordOf(x) ==
  [path |-> x.path, parts |-> x.p.verified,
   received |-> {o \in x.p.received : PartOf(o) \notin x.p.verified},
   hashes |-> x.hashes, current |-> TRUE]

CloseFileAtOnce(x) ==
  IF x.phase # "Closing" THEN x ELSE Enqueue(x, [kind |-> "close"])

(***************************************************************************)
(* quiesce(): once nothing is queued the file is closed; the completion of *)
(* that job ends the phase.                                                *)
(***************************************************************************)
CloseFile(x) ==
  IF x.phase # "Closing" \/ Pending(x) THEN x ELSE Enqueue(x, [kind |-> "close"])

\* finish(): sources are dropped and the task leaves the network.
FinishFile(x, outcome) ==
  IF x.phase \in {"Closing", "Idle"} THEN x
  ELSE LET y == [x EXCEPT !.outcome = outcome, !.phase = "Closing", !.p.claims = {}]
       IN IF x.phase = "Opening" THEN y ELSE CloseFile(y)

\* downloaded(): the file is shared; its data is synced in the background.
Downloaded(x) ==
  Enqueue([x EXCEPT !.phase = "Sharing", !.p.claims = {}], [kind |-> "sync"])

\* The hashing of these parts, first part first.
HashJobs(parts) ==
  KeepAt([k \in 1 .. Count |-> HashJob(k - 1)], {k \in 1 .. Count : k - 1 \in parts})

\* verifyFilled() of each of these parts.
VerifyFilled(x, parts) ==
  IF NeedsHashSet(x) THEN [x EXCEPT !.waiting = @ \cup parts]
  ELSE [x EXCEPT !.jobs = @ \o HashJobs(parts)]

RunFile(x) ==
  IF Complete(x.p) THEN Downloaded(x) ELSE [x EXCEPT !.phase = "Downloading"]

AcceptStaleHashes(x) ==
  IF ~NeedsHashSet(x) THEN x
  ELSE LET y == VerifyFilled([x EXCEPT !.hashes = TRUE, !.waiting = {}], x.waiting)
           z == [y EXCEPT !.unchecked = FALSE, !.local = {},
                          !.p = VerifyParts(@, x.local)]
       IN IF ~x.unchecked THEN y
          ELSE IF Complete(z.p) /\ z.phase = "Downloading" THEN Downloaded(z) ELSE z

(***************************************************************************)
(* acceptHashSet() with the right hash set; any other is refused.  Parts   *)
(* of an existing file that nobody wrote to are judged by the hashes taken *)
(* when it was opened.                                                     *)
(***************************************************************************)
AcceptHashSet(x) ==
  IF ~NeedsHashSet(x) THEN x
  ELSE LET y == VerifyFilled([x EXCEPT !.hashes = TRUE, !.waiting = {}], x.waiting)
           kept == {i \in x.local : Part(i) \cap x.p.received = {}}
           z == [y EXCEPT !.unchecked = FALSE, !.local = {},
                          !.p = VerifyParts(@, kept)]
       IN IF ~x.unchecked THEN y
          ELSE IF Complete(z.p) /\ z.phase = "Downloading" THEN Downloaded(z) ELSE z

\* partVerified().
PartVerified(x, i, ok) ==
  IF x.phase # "Downloading" \/ i \in x.p.verified THEN x
  ELSE IF ~ok THEN [x EXCEPT !.p = RejectPart(@, i)]
  ELSE LET y == [x EXCEPT !.p = VerifyParts(@, {i})]
       IN IF Complete(y.p) THEN Downloaded(y) ELSE y

(***************************************************************************)
(* checkAll(): every part is hashed.  With the hash set a part is verified *)
(* by its own hash; without it the hashes are kept, and prove themselves   *)
(* when all are right.  run() follows the last one.                        *)
(***************************************************************************)
CheckAll(x) ==
  [x EXCEPT !.phase = "Checking", !.local = {}, !.jobs = @ \o HashJobs(PartIndexes)]

Hashing(x) == \E q \in {x.jobs, x.ended} : \E k \in DOMAIN q : q[k].kind = "hash"

PartChecked(x, i, ok) ==
  LET kept == [x EXCEPT !.local = IF ok THEN @ \cup {i} ELSE @]
      verified == [x EXCEPT !.p = IF ok THEN VerifyParts(@, {i}) ELSE @]
      proven == [kept EXCEPT !.hashes = TRUE, !.local = {},
                             !.p = [@ EXCEPT !.verified = PartIndexes, !.received = Offsets]]
      unproven == [kept EXCEPT !.unchecked = TRUE]
  IN IF ~NeedsHashSet(x) THEN IF Hashing(x) THEN verified ELSE RunFile(verified)
     ELSE IF Hashing(x) THEN kept
     ELSE RunFile(IF kept.local = PartIndexes THEN proven ELSE unproven)

(***************************************************************************)
(* open(): the recorded download when its file is as it was saved, else an *)
(* existing file, which is checked, else a new file.                       *)
(***************************************************************************)
Restored(rec) ==
  [NoParts EXCEPT !.verified = rec.parts,
                  !.received = rec.received \cup UNION {Part(i) : i \in rec.parts}]

OpenJob(x, path, truncate, check) ==
  Enqueue([x EXCEPT !.phase = "Opening", !.path = path],
          [kind |-> "open", truncate |-> truncate, check |-> check])

Failed(x) == [x EXCEPT !.over = TRUE, !.phase = "Idle"]

\* A file that is not the recorded one.
Existing(x, path, size) ==
  IF size = "whole" \/ budget.option = "continue"
  THEN IF size = "long" THEN Failed(x) ELSE OpenJob(x, path, FALSE, TRUE)
  ELSE CASE budget.option = "overwrite" -> OpenJob(x, path, TRUE, FALSE)
         [] budget.option = "rename"    -> OpenJob(x, "numbered", TRUE, FALSE)
         [] OTHER                       -> Failed(x)

OpenFile(x) ==
  LET fresh == [x EXCEPT !.opened = FALSE, !.p = NoParts, !.waiting = {},
                         !.unchecked = FALSE, !.outcome = "Stop"]
      path == IF stored = NoRecord THEN "default" ELSE stored.path
      size == files[path].size
      parts == Restored(stored)
  IN IF stored # NoRecord /\ size = "whole" /\ stored.current
     THEN OpenJob([fresh EXCEPT !.p = parts,
                     !.waiting = {i \in PartIndexes \ parts.verified : Filled(parts, i)},
                     !.hashes = @ \/ stored.hashes],
                  path, FALSE, FALSE)
     ELSE IF size = "absent" THEN OpenJob(fresh, path, TRUE, FALSE)
     ELSE IF stored # NoRecord THEN OpenJob(fresh, path, FALSE, size = "whole")
     ELSE Existing(fresh, path, size)

\* opened(): the completion of the open job.
Opened(x, job, error) ==
  IF x.phase # "Opening" THEN CloseFile(x)
  ELSE IF error THEN FinishFile(x, "Fail")
  ELSE IF job.check THEN CheckAll([x EXCEPT !.opened = TRUE])
  ELSE VerifyFilled(RunFile([x EXCEPT !.opened = TRUE, !.waiting = {}]), x.waiting)

(***************************************************************************)
(* The control thread.  ApplyFile gives the record back, writing the       *)
(* task's progress where the code calls checkpoint().                      *)
(***************************************************************************)
ApplyFile(x) ==
  /\ t' = x
  /\ stored' = IF Saves(x) /\ (x.phase = "Sharing" /\ t.phase # "Sharing")
               THEN RecordOf(x) ELSE stored

FileInit ==
  /\ budget \in FileScenarios
  /\ t = NewFileTask(budget.hashes)
  /\ stored = NoRecord
  /\ files \in [Paths -> [size : {"absent", "short", "whole", "long"}, data : [Offsets -> Data]]]
  /\ files["default"].size = budget.found
  /\ files["numbered"].size = "absent"
  /\ \A path \in Paths :
       \A o \in Offsets : \* whole parts are there, or not, right or wrong
         /\ \A q \in Part(PartOf(o)) : files[path].data[q] = files[path].data[o]
         /\ files[path].data[o] = "hole" <=>
              \/ files[path].size = "absent"
              \/ files[path].size = "short" /\ PartOf(o) = Count - 1

StartFile ==
  /\ t.phase = "Idle" /\ ~t.over
  /\ t' = OpenFile(t)
  /\ UNCHANGED <<files, stored, budget>>

\* stop(); a task that is Idle answers at once, which changes nothing.
StopFile ==
  /\ t.phase # "Idle" /\ ~t.stopping
  /\ budget.stops > 0
  /\ budget' = [budget EXCEPT !.stops = @ - 1]
  /\ ApplyFile([FinishFile(t, "Stop") EXCEPT !.stopping = TRUE])
  /\ UNCHANGED files

\* How many sources hold each part.
Rarity(x) ==
  [i \in PartIndexes |-> Cardinality({s \in budget.from : i \in Available[s]})]

\* Client::requestBlocks(): a source with a slot claims its next blocks.
RequestBlocks(s) ==
  LET mine == {c \in t.p.claims : c.owner = s}
  IN /\ t.phase = "Downloading" /\ s \in budget.from
     /\ Cardinality(mine) < BlocksAhead
     /\ \E r \in Claim(t.p, s, Available[s], BlocksAhead - Cardinality(mine), Rarity(t), Preview) :
          /\ r.out # <<>>
          /\ t' = [t EXCEPT !.p = r.p]
     /\ UNCHANGED <<files, stored, budget>>

(***************************************************************************)
(* receive() of a claimed block, and release() of the claim once it is     *)
(* complete (Client::blockDone).                                           *)
(***************************************************************************)
ReceiveBlock(x, block, data) ==
  LET p == Add(x.p, block)
      y == Enqueue([x EXCEPT !.p = p], [kind |-> "write", block |-> block, data |-> data])
  IN VerifyFilled(y, FilledBy(p, block))

Settling(x, i) ==
  \/ Filled(x.p, i)
  \/ \E k \in DOMAIN x.jobs : x.jobs[k] = HashJob(i)
  \/ \E k \in DOMAIN x.ended : x.ended[k].job = HashJob(i)

Deliver(s, data) ==
  \E c \in t.p.claims :
    /\ t.phase = "Downloading" /\ c.owner = s
    /\ Len(t.jobs) + Len(t.ended) < MaxQueue
    /\ data = "right" \/ LateWrong \/ \A i \in Touched(c.block) : ~Settling(t, i)
    /\ LET y == ReceiveBlock(t, c.block, data)
       IN t' = [y EXCEPT !.p = Release(@, s, c.block)]
    /\ UNCHANGED <<files, stored>>

DeliverRight(s) == Deliver(s, "right") /\ UNCHANGED budget
DeliverWrong(s) ==
  /\ budget.corrupt > 0
  /\ budget' = [budget EXCEPT !.corrupt = @ - 1]
  /\ Deliver(s, "wrong")

\* A source is lost, or stops sending: Client::releaseBlocks().
SourceGone(s) ==
  /\ budget.gone > 0
  /\ ReleaseAll(t.p, s) # t.p
  /\ budget' = [budget EXCEPT !.gone = @ - 1]
  /\ t' = [t EXCEPT !.p = ReleaseAll(@, s)]
  /\ UNCHANGED <<files, stored>>

ClaimsAge ==
  /\ Aged(t.p) # t.p
  /\ t' = [t EXCEPT !.p = Aged(@)]
  /\ UNCHANGED <<files, stored, budget>>

\* A source answers the request for the hash set.
HashSetArrives ==
  /\ t.phase = "Downloading" /\ NeedsHashSet(t)
  /\ ApplyFile(AcceptHashSet(t))
  /\ UNCHANGED <<files, budget>>

\* tick(): evaluateSharing() finds that enough was shared.
SharedEnough ==
  /\ t.phase = "Sharing"
  /\ t' = FinishFile(t, "Complete")
  /\ UNCHANGED <<files, stored, budget>>

\* The engine's periodic checkpoint of an active task.
CheckpointFile ==
  /\ Saves(t) /\ t.phase # "Idle" /\ budget.saves > 0
  /\ budget' = [budget EXCEPT !.saves = @ - 1]
  /\ stored' = RecordOf(t)
  /\ UNCHANGED <<t, files>>

(***************************************************************************)
(* The strand executes its next job.  A write may leave the time stamp,    *)
(* which has seconds, as it was when the record was saved.                 *)
(***************************************************************************)
Touch ==
  \/ stored' = stored
  \/ /\ stored # NoRecord /\ stored.path = t.path
     /\ stored' = [stored EXCEPT !.current = FALSE]

Blank == [o \in Offsets |-> "hole"]

Effect(job, file) ==
  CASE job.kind = "open" ->
         [size |-> IF file.size = "long" /\ ~job.truncate THEN "long" ELSE "whole",
          data |-> IF job.truncate THEN Blank ELSE file.data]
    [] job.kind = "write" ->
         [file EXCEPT !.data = [o \in Offsets |-> IF o \in job.block THEN job.data ELSE @[o]]]
    [] OTHER -> file

StrandRuns(error) ==
  /\ t.jobs # <<>>
  /\ LET job == Head(t.jobs)
         file == files[t.path]
         ok == \A o \in Part(IF job.kind = "hash" THEN job.part ELSE 0) : file.data[o] = "right"
     IN /\ t' = [t EXCEPT !.jobs = Tail(@),
                   !.ended = Append(@, [kind |-> job.kind, job |-> job, ok |-> ok, error |-> error])]
        /\ IF error
           THEN /\ job.kind \in {"write", "hash"} \cup (IF OpenErrors THEN {"open"} ELSE {})
                /\ UNCHANGED <<files, stored>>
           ELSE /\ files' = [files EXCEPT ![t.path] = Effect(job, file)]
                /\ IF job.kind \in {"open", "write"} THEN Touch ELSE UNCHANGED stored

StrandSucceeds == StrandRuns(FALSE) /\ UNCHANGED budget
StrandFails ==
  /\ budget.errors > 0
  /\ budget' = [budget EXCEPT !.errors = @ - 1]
  /\ StrandRuns(TRUE)

(***************************************************************************)
(* The control thread runs a completion: opened(), the completions of      *)
(* receive(), digestPart() and downloaded(), and the end of quiesce().     *)
(***************************************************************************)
Closed(x) == [x EXCEPT !.phase = "Idle", !.stopping = FALSE,
                       !.over = ~x.stopping /\ x.outcome # "Stop"]

Ended(x, e) ==
  CASE e.kind = "open"  -> Opened(x, e.job, e.error)
    [] e.kind = "write" -> IF e.error /\ x.phase # "Closing" THEN FinishFile(x, "Fail")
                           ELSE CloseFile(x)
    [] e.kind = "hash"  -> IF x.phase = "Closing" THEN CloseFile(x)
                           ELSE IF e.error THEN FinishFile(x, "Fail")
                           ELSE IF x.phase = "Checking" THEN PartChecked(x, e.job.part, e.ok)
                           ELSE PartVerified(x, e.job.part, e.ok)
    [] e.kind = "sync"  -> CloseFile(x)
    [] e.kind = "close" -> Closed(x)

FileCompletion ==
  /\ t.ended # <<>>
  /\ LET x == Ended([t EXCEPT !.ended = Tail(@)], Head(t.ended))
     IN IF Head(t.ended).kind = "close"
        THEN /\ t' = x
             /\ stored' = IF Saves(x) THEN RecordOf(x) ELSE stored
        ELSE ApplyFile(x)
  /\ UNCHANGED <<files, budget>>

\* The user changes a part of the file while the task does not run.
UserEdits ==
  /\ t.phase = "Idle" /\ ~t.over /\ budget.edits > 0
  /\ files[t.path].size = "whole"
  /\ budget' = [budget EXCEPT !.edits = @ - 1]
  /\ \E i \in PartIndexes :
       files' = [files EXCEPT ![t.path].data =
                   [o \in Offsets |-> IF o \in Part(i) THEN "wrong" ELSE @[o]]]
  /\ stored' = IF stored = NoRecord THEN stored ELSE [stored EXCEPT !.current = FALSE]
  /\ UNCHANGED t

\* A failed task is put back into the queue, or discardState() forgets it.
RequeueFile ==
  /\ t.over /\ budget.again > 0
  /\ budget' = [budget EXCEPT !.again = @ - 1]
  /\ t' = [t EXCEPT !.over = FALSE]
  /\ stored' \in {stored, NoRecord}
  /\ UNCHANGED files

(***************************************************************************)
(* The process dies; the file keeps what the strand wrote.  The task is    *)
(* created anew from the session, and loadProgress() reads the record.     *)
(***************************************************************************)
FileCrash ==
  /\ budget.crashes > 0 /\ ~t.over
  /\ budget' = [budget EXCEPT !.crashes = @ - 1, !.died = @ + 1]
  /\ t' = [NewFileTask(budget.hashes) EXCEPT
             !.path = IF stored = NoRecord THEN "default" ELSE stored.path,
             !.p = IF stored = NoRecord THEN NoParts ELSE Restored(stored)]
  /\ UNCHANGED <<files, stored>>

FileNext ==
  \/ StartFile \/ StopFile \/ HashSetArrives \/ SharedEnough \/ CheckpointFile
  \/ \E s \in Sources : RequestBlocks(s) \/ DeliverRight(s) \/ DeliverWrong(s) \/ SourceGone(s)
  \/ ClaimsAge \/ StrandSucceeds \/ StrandFails \/ FileCompletion
  \/ UserEdits \/ RequeueFile \/ FileCrash

(***************************************************************************)
(* The strand and the control thread run; the engine starts the task; time *)
(* passes; every source answers, sends what it was asked for and serves a  *)
(* slot again after a loss.                                                *)
(***************************************************************************)
FileFairness ==
  /\ WF_fileVars(StartFile) /\ WF_fileVars(StrandSucceeds) /\ WF_fileVars(FileCompletion)
  /\ WF_fileVars(ClaimsAge) /\ WF_fileVars(HashSetArrives) /\ WF_fileVars(SharedEnough)
  /\ \A s \in Sources : WF_fileVars(RequestBlocks(s)) /\ WF_fileVars(DeliverRight(s))

FileSpec == FileInit /\ [][FileNext]_fileVars /\ FileFairness

-----------------------------------------------------------------------------
\* The task and its record are well formed.
FileTypeOK ==
  /\ t.phase \in {"Idle", "Opening", "Checking", "Downloading", "Sharing", "Closing"}
  /\ t.path \in Paths
  /\ t.p.received \subseteq Offsets /\ t.p.verified \subseteq PartIndexes
  /\ \A c \in t.p.claims : c.block \subseteq Part(PartOf(Min(c.block)))
  /\ t.phase \in {"Idle", "Opening"} => t.p.claims = {}
  /\ t.waiting # {} => NeedsHashSet(t) \/ t.phase \in {"Opening", "Closing", "Idle"}
  /\ stored = NoRecord \/ stored.path \in Paths

Right(path, i) == \A o \in Part(i) : files[path].data[o] = "right"

(***************************************************************************)
(* A part is shared only after its hash verified, so what the task counts  *)
(* as verified while it shares is right on disk: every part it offers,     *)
(* whatever the sources sent (Parts.h, "a part is shared with other        *)
(* clients only after its hash verified").                                 *)
(***************************************************************************)
VerifiedIsRight ==
  t.phase \in {"Downloading", "Sharing"} => \A i \in t.p.verified : Right(t.path, i)

(***************************************************************************)
(* A download that ends complete left the whole right file.                *)
(***************************************************************************)
CompleteIsWhole ==
  t.over /\ t.outcome = "Complete" => \A i \in PartIndexes : Right(t.path, i)

(***************************************************************************)
(* What a record claims verified is right as long as its file has the time *)
(* stamp of the record, over any crash, so open() may trust it.            *)
(***************************************************************************)
RecordIsRight ==
  stored # NoRecord /\ stored.current => \A i \in stored.parts : Right(stored.path, i)

(***************************************************************************)
(* A file that was there is not truncated unless allow-overwrite says so:  *)
(* open() checks it, renames the download or refuses.                      *)
(***************************************************************************)
FoundFileKept ==
  budget.found # "absent" /\ budget.option # "overwrite" =>
    files["default"].data[0] # "hole"

\* What is complete or recorded is right on disk, and a file that was found is
\* not lost (finishFile, checkpoint, open).
FileSound == FileTypeOK /\ CompleteIsWhole /\ RecordIsRight /\ FoundFileKept

(***************************************************************************)
(* Two sources work on the same block only when the later one found        *)
(* nothing unclaimed that it could be asked for (Parts.h:20).              *)
(***************************************************************************)
EndgameOnly ==
  [][\A c \in t'.p.claims \ t.p.claims, d \in t.p.claims :
       c.owner # d.owner /\ ~c.old /\ c.block \cap d.block # {} =>
         \A i \in Wanted(t.p, Available[c.owner]) : Free(t.p, c.owner, i, FALSE) = {}]_fileVars

(***************************************************************************)
(* A part that could not be verified is downloaded again, and in the end   *)
(* the file is complete or the task has ended or is stopped: no claim of a *)
(* lost source, no wrong block and no missing hash set leaves it waiting.  *)
(***************************************************************************)
DownloadEnds == []<>(t.phase # "Downloading")

(***************************************************************************)
(* A task that closes its file comes to an end: finish() waits for what is *)
(* queued, and then every stop is answered and every failure reported.     *)
(***************************************************************************)
FileCloses == []<>(t.phase # "Closing")

\* The download as the engine sees it.
FileMode ==
  IF t.over THEN "over" ELSE IF t.stopping THEN "stopping"
  ELSE IF t.phase = "Idle" THEN "idle" ELSE "busy"

FileContract == INSTANCE TaskContract
  WITH mode <- FileMode, inflight <- Pending(t), crashes <- budget.died

(***************************************************************************)
(* The download is a task as TaskContract describes it: one end per start, *)
(* one done per stop, and nothing left on its strand when it is idle       *)
(* (start, stop, finish, quiesce).                                         *)
(***************************************************************************)
FileKeepsContract == FileContract!Spec
=============================================================================

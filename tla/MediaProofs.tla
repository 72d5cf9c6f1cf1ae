---------------------------- MODULE MediaProofs ----------------------------
(***************************************************************************)
(* Proofs about Media, for every presentation, live window, number of      *)
(* names and versions, and for every sequence of failures, stops, changes  *)
(* and crashes.                                                            *)
(***************************************************************************)
EXTENDS Media, TLAPS

-----------------------------------------------------------------------------
(* The inductive invariant.                                                *)

Numbers == SUBSET (Nat \X Nat)
File == [kind : {"none", "foreign", "partial", "media"}, segs : Numbers]
Snap == {"waiting", "probing", "downloading", "awaiting", "finalizing", "complete",
         "error", "paused"}
Early == {"manifest", "fetch", "commit", "stage", "staging", "prepare"}
Late == {"unlink", "complete", "uncache", "unrecord"}
Pc == {"none", "open", "recover", "forget", "clear", "link", "end"} \cup Early \cup Late

TaskSet ==
  [place : {"waiting", "active", "complete", "failed", "removed"}, snap : Snap,
   stop : {"no", "pause", "remove"}, path : Paths, identity : 1..2, finish : BOOLEAN]
ControlSet ==
  [on : BOOLEAN, cancel : BOOLEAN, finish : BOOLEAN, done : BOOLEAN, state : Snap]
WorkerSet ==
  [pc : Pc, next : Nat, manifest : Nat, had : Numbers, identity : 0..2, staged : Numbers]
RowSet ==
  [segs : Numbers, manifest : Nat, identity : 0..2, pub : BOOLEAN, path : 0..MaxPath,
   digest : File]
DiskSet == [out : [Paths -> File], staging : [Paths -> File], cache : Numbers]
ServerSet == [version : 1..MaxVersion, first : Nat]

Types ==
  /\ task \in TaskSet /\ ctl \in ControlSet /\ worker \in WorkerSet
  /\ db \in RowSet /\ fs \in DiskSet /\ server \in ServerSet /\ rest \in Scenario

\* The task and its worker.
Attached ==
  /\ ctl.on <=> worker.pc # "none"
  /\ ctl.on <=> task.place = "active"
  /\ task.stop # "no" => task.place = "active" /\ ctl.cancel
  /\ ctl.done => worker.pc = "end"
  /\ ctl.finish \/ task.finish => rest.live
  /\ ctl.state = "complete" => worker.pc \in {"uncache", "unrecord", "end"}
  /\ task.place = "removed" => db = NoRows /\ fs.cache = {}

\* What a pending publication says of the files, and the worker of both.
Published ==
  /\ db.pub <=> db.path \in Paths
  /\ worker.pc \in Early => ~db.pub
  /\ worker.pc \in Late \cup {"forget", "clear", "link"} => db.pub /\ db.path = task.path
  /\ db.pub => /\ db.digest.kind = "media"
               /\ \/ fs.staging[db.path] = db.digest
                  \/ fs.out[db.path] = db.digest
                  \/ rest.took
  /\ worker.pc = "link" => fs.staging[db.path] = db.digest
  /\ worker.pc \in Late => fs.out[db.path] = db.digest
  /\ worker.pc \in {"forget", "clear"} => rest.took
  /\ worker.pc \in {"clear"} \cup (Late \ {"unlink"}) => fs.staging[db.path] = NoFile
  /\ worker.pc = "prepare" => fs.staging[task.path] = Muxed(worker.staged)

\* Every staging file is the record's or the worker's.
Owned ==
  rest.orphan \/ \A p \in Paths :
    fs.staging[p] # NoFile => \/ db.pub /\ p = db.path
                              \/ worker.pc \in {"staging", "prepare"} /\ p = task.path

\* The committed segments are in the cache until the output is in place.
Cached ==
  /\ \/ db.segs \subseteq fs.cache
     \/ rest.took
     \/ db.pub /\ fs.out[db.path] = db.digest
  /\ worker.pc = "commit" => <<worker.manifest, worker.next>> \in fs.cache

\* Segments without a hole, from the first one on of a finite presentation.
Stretch(live, version, segs) ==
  IF live
  THEN \E a, b \in Nat : segs = {1} \X (a..b)
  ELSE \E b \in 0..Last : segs = {version} \X (1..b) /\ (b > 0 => version \in 1..MaxVersion)

\* The worker of a finite presentation consumed what is before its next segment.
Reached(version, next, segs) ==
  /\ version \in 1..MaxVersion /\ next \in 1..(Last + 1)
  /\ {version} \X (1..(next - 1)) \subseteq segs

\* Whole() as an operator on values.
Entire(live, segs) ==
  IF live
  THEN segs # {} /\ \A s, q \in segs : s[1] = 1 /\ \A n \in s[2]..q[2] : <<1, n>> \in segs
  ELSE \E v \in 1..MaxVersion : segs = {v} \X Segments

\* What is committed and what the worker remembers of it.
Consumed ==
  /\ Stretch(rest.live, db.manifest, db.segs)
  /\ worker.pc \in {"recover", "forget", "clear", "manifest", "fetch", "commit"}
       => worker.had = db.segs
  /\ worker.pc \in {"fetch", "commit"} =>
       IF rest.live THEN worker.manifest = 1
       ELSE worker.manifest = db.manifest /\ Reached(db.manifest, worker.next, db.segs)
  /\ worker.pc = "commit" /\ ~rest.live => worker.next <= Last

\* What is staged, recorded and published is whole.
Finished ==
  /\ worker.pc = "stage" => db.segs = {} \/ Entire(rest.live, db.segs)
  /\ worker.pc \in {"staging", "prepare"} => Entire(rest.live, worker.staged)
  /\ db.pub => Entire(rest.live, db.digest.segs)
  /\ ctl.state = "complete" => /\ fs.out[task.path].kind = "media"
                               /\ Entire(rest.live, fs.out[task.path].segs)

MediaInv == Types /\ Attached /\ Published /\ Owned /\ Cached /\ Consumed /\ Finished

-----------------------------------------------------------------------------
(* The steps.                                                              *)

\* The kinds of files are told apart.
LEMMA Kinds ==
  /\ NoFile \in File /\ Foreign \in File /\ Partial \in File
  /\ NoFile.kind = "none" /\ Foreign.kind = "foreign" /\ Partial.kind = "partial"
  /\ \A s \in Numbers : Muxed(s) \in File /\ Muxed(s).kind = "media" /\ Muxed(s).segs = s
  BY SMTT(20) DEF NoFile, Foreign, Partial, Muxed, File, Numbers

\* No segments are a stretch, and all of them up to the last are whole.
LEMMA Stretches ==
  ASSUME Sizes, NEW live \in BOOLEAN, NEW v, NEW segs
  PROVE  /\ Stretch(live, v, {})
         /\ live /\ Stretch(live, v, segs) => segs = {} \/ Entire(live, segs)
         /\ \A next : ~live /\ Stretch(live, v, segs) /\ Reached(v, next, segs) /\ next > Last
              => Entire(live, segs)
<1>0. Last \in Nat /\ MaxVersion \in Nat
  BY DEF Sizes
<1>1. Stretch(live, v, {})
  <2>1. {1} \X (1..0) = {} /\ {v} \X (1..0) = {} /\ 0 \in 0..Last
    BY <1>0, SMTT(20)
  <2> QED
    BY <2>1, SMTT(20) DEF Stretch
<1>2. ASSUME live, Stretch(live, v, segs), segs # {} PROVE Entire(live, segs)
  <2>1. PICK a, b \in Nat : segs = {1} \X (a..b)
    BY <1>2 DEF Stretch
  <2>2. \A s \in segs : s[1] = 1 /\ s[2] \in a..b
    BY <2>1, SMTT(20)
  <2>3. \A s, q \in segs : \A n \in s[2]..q[2] : <<1, n>> \in segs
    BY <2>1, <2>2, SMTT(20)
  <2> QED
    BY <1>2, <2>2, <2>3 DEF Entire
<1>3. ASSUME NEW next, ~live, Stretch(live, v, segs), Reached(v, next, segs), next > Last
      PROVE  Entire(live, segs)
  <2>1. PICK b \in 0..Last : segs = {v} \X (1..b)
    BY <1>3 DEF Stretch
  <2>2. v \in 1..MaxVersion /\ next = Last + 1 /\ {v} \X (1..Last) \subseteq segs
    BY <1>0, <1>3, SMTT(20) DEF Reached
  <2>3. b = Last
    <3>1. ASSUME b # Last PROVE FALSE
      <4>1. Last \in 1..Last /\ Last \notin 1..b
        BY <1>0, <2>1, <3>1, SMTT(20)
      <4>2. <<v, Last>> \in {v} \X (1..Last)
        BY <4>1, SMTT(20)
      <4> QED
        BY <2>1, <2>2, <4>1, <4>2, SMTT(20)
    <3> QED
      BY <3>1
  <2> QED
    BY <1>3, <2>1, <2>2, <2>3 DEF Entire, Segments
<1> QED
  BY <1>1, <1>2, <1>3

\* recoverPublication() reads and decides.
LEMMA RecoverKeeps ==
  ASSUME Sizes, MediaInv, Recover
  PROVE  MediaInv'
<1> USE DEF MediaInv, Types, Attached, Published, Early, Late, Pc, Recover, At, Throw,
           Go, Recovery, Idle, ControlSet, WorkerSet
<1>1. Types'
  BY Kinds, SMTT(20) DEF Snap, Numbers
<1>2. Attached'
  BY <1>1, Kinds, SMTT(20)
<1>3. Published'
  BY <1>1, Kinds, SMTT(20)
<1>4. Owned'
  BY <1>1, Kinds, SMTT(20) DEF Owned
<1>5. Cached'
  BY <1>1, Kinds, SMTT(20) DEF Cached
<1>6. Consumed'
  BY <1>1, Kinds, SMTT(20) DEF Consumed
<1>7. Finished'
  BY <1>1, Kinds, SMTT(20) DEF Finished
<1> QED
  BY <1>1, <1>2, <1>3, <1>4, <1>5, <1>6, <1>7

\* The staged file of a publication the user took apart is dropped.
LEMMA ForgetStagingKeeps ==
  ASSUME Sizes, MediaInv, ForgetStaging
  PROVE  MediaInv'
<1> USE DEF MediaInv, Types, Attached, Published, Early, Late, Pc, ForgetStaging, At,
           Go, Idle, WorkerSet, DiskSet
<1>1. Types'
  BY Kinds, SMTT(20) DEF Snap, Numbers
<1>2. Attached'
  BY <1>1, Kinds, SMTT(20)
<1>3. Published'
  BY <1>1, Kinds, SMTT(20)
<1>4. Owned'
  BY <1>1, Kinds, SMTT(20) DEF Owned
<1>5. Cached'
  BY <1>1, Kinds, SMTT(20) DEF Cached
<1>6. Consumed'
  BY <1>1, Kinds, SMTT(20) DEF Consumed
<1>7. Finished'
  BY <1>1, Kinds, SMTT(20) DEF Finished
<1> QED
  BY <1>1, <1>2, <1>3, <1>4, <1>5, <1>6, <1>7

\* Store::clearPublication(), after the user took the files away.
LEMMA ClearPublicationKeeps ==
  ASSUME Sizes, MediaInv, ClearPublication
  PROVE  MediaInv'
<1> USE DEF MediaInv, Types, Attached, Published, Early, Late, Pc, ClearPublication, At,
           Go, Idle, WorkerSet, RowSet
<1>0. MaxPath \in Nat \ {0}
  BY DEF Sizes
<1>1. Types'
  <2>1. db' \in RowSet
    <3>1. db' = [db EXCEPT !.pub = FALSE, !.digest = NoFile, !.path = 0]
          /\ NoFile \in File /\ 0 \in 0..MaxPath
      BY <1>0, Kinds, SMTT(20)
    <3> QED
      BY <3>1, ZenonT(20)
  <2> QED
    BY <2>1, SMTT(20)
<1>2. Attached'
  BY <1>1, Kinds, SMTT(20)
<1>3. Published'
  BY <1>1, SMTT(20) DEF Paths
<1>4. Owned'
  BY <1>1, Kinds, SMTT(20) DEF Owned
<1>5. Cached'
  BY <1>1, Kinds, SMTT(20) DEF Cached
<1>6. Consumed'
  BY <1>1, Kinds, SMTT(20) DEF Consumed
<1>7. Finished'
  BY <1>1, Kinds, SMTT(20) DEF Finished
<1> QED
  BY <1>1, <1>2, <1>3, <1>4, <1>5, <1>6, <1>7

\* run() leaves its loop with every segment of a finite presentation, or told to.
LEMMA LeaveLoopKeeps ==
  ASSUME Sizes, MediaInv, LeaveLoop
  PROVE  MediaInv'
<1> USE DEF MediaInv, Types, Attached, Published, Early, Late, Pc, LeaveLoop, At,
           Complete, Go, Idle, WorkerSet
<1>1. Types'
  BY Kinds, SMTT(20) DEF Snap, Numbers
<1>2. Attached'
  BY <1>1, Kinds, SMTT(20)
<1>3. Published'
  BY <1>1, Kinds, SMTT(20)
<1>4. Owned'
  BY <1>1, Kinds, SMTT(20) DEF Owned
<1>5. Cached'
  BY <1>1, Kinds, SMTT(20) DEF Cached
<1>6. Consumed'
  BY <1>1, Kinds, SMTT(20) DEF Consumed
<1>7. Finished'
  <2>1. worker.pc = "fetch" /\ rest.live \in BOOLEAN /\ UNCHANGED <<db, rest, fs, ctl, task>>
    BY SMTT(20) DEF Scenario
  <2>2. ASSUME worker'.pc = "stage" PROVE db.segs = {} \/ Entire(rest.live, db.segs)
    <3>1. CASE rest.live
      BY <2>1, <3>1, Stretches DEF Consumed
    <3>2. CASE ~rest.live
      <4>1. Reached(db.manifest, worker.next, db.segs) /\ worker.next > Last
        BY <2>1, <2>2, <3>2, SMTT(20) DEF Consumed
      <4> QED
        BY <2>1, <3>2, <4>1, Stretches DEF Consumed
    <3> QED
      BY <3>1, <3>2
  <2> QED
    BY <1>1, <2>1, <2>2, SMTT(20) DEF Finished
<1> QED
  BY <1>1, <1>2, <1>3, <1>4, <1>5, <1>6, <1>7

\* Transport::get() adds to the cache.
LEMMA FetchSegmentKeeps ==
  ASSUME Sizes, MediaInv, FetchSegment
  PROVE  MediaInv'
<1> USE DEF MediaInv, Types, Attached, Published, Early, Late, Pc, FetchSegment, At,
           Complete, Offered, Go, Idle, WorkerSet, DiskSet
<1>1. Types'
  BY Kinds, SMTT(20) DEF Snap, Numbers
<1>2. Attached'
  BY <1>1, Kinds, SMTT(20)
<1>3. Published'
  BY <1>1, Kinds, SMTT(20)
<1>4. Owned'
  BY <1>1, Kinds, SMTT(20) DEF Owned
<1>5. Cached'
  BY <1>1, Kinds, SMTT(20) DEF Cached
<1>6. Consumed'
  BY <1>1, SMTT(20) DEF Consumed, Segments
<1>7. Finished'
  BY <1>1, Kinds, SMTT(20) DEF Finished
<1> QED
  BY <1>1, <1>2, <1>3, <1>4, <1>5, <1>6, <1>7

\* The client moves on in the live window.
LEMMA LeftWindowKeeps ==
  ASSUME Sizes, MediaInv, LeftWindow
  PROVE  MediaInv'
<1> USE DEF MediaInv, Types, Attached, Published, Early, Late, Pc, LeftWindow, At,
           Throw, Idle, Go, ControlSet, WorkerSet
<1>1. Types'
  BY SMTT(20) DEF Snap, ServerSet
<1>2. Attached'
  BY <1>1, Kinds, SMTT(20)
<1>3. Published'
  BY <1>1, Kinds, SMTT(20)
<1>4. Owned'
  BY <1>1, Kinds, SMTT(20) DEF Owned
<1>5. Cached'
  BY <1>1, Kinds, SMTT(20) DEF Cached
<1>6. Consumed'
  <2>1. rest.live /\ worker.pc = "fetch" /\ UNCHANGED <<db, rest>>
    BY SMTT(20)
  <2>2. worker'.pc \in {"fetch", "end"} /\ worker'.had = worker.had
        /\ worker'.manifest = worker.manifest
    BY SMTT(20)
  <2> QED
    BY <2>1, <2>2, ZenonT(20) DEF Consumed
<1>7. Finished'
  BY <1>1, Kinds, SMTT(20) DEF Finished
<1> QED
  BY <1>1, <1>2, <1>3, <1>4, <1>5, <1>6, <1>7

\* Muxer::stage() has written the output, or takes the staging file back.
LEMMA StageEndsKeeps ==
  ASSUME Sizes, MediaInv, StageEnds
  PROVE  MediaInv'
<1> USE DEF MediaInv, Types, Attached, Published, Early, Late, Pc, StageEnds, At, Throw,
           Go, Idle, ControlSet, WorkerSet, DiskSet
<1>1. Types'
  BY Kinds, SMTT(20) DEF Snap, Numbers
<1>2. Attached'
  BY <1>1, Kinds, SMTT(20)
<1>3. Published'
  BY <1>1, Kinds, SMTT(20) DEF TaskSet
<1>4. Owned'
  BY <1>1, Kinds, SMTT(20) DEF Owned
<1>5. Cached'
  BY <1>1, Kinds, SMTT(20) DEF Cached
<1>6. Consumed'
  BY <1>1, Kinds, SMTT(20) DEF Consumed
<1>7. Finished'
  BY <1>1, Kinds, SMTT(20) DEF Finished
<1> QED
  BY <1>1, <1>2, <1>3, <1>4, <1>5, <1>6, <1>7

\* Muxer::stage() takes the staging file back.
LEMMA StageFailsKeeps ==
  ASSUME Sizes, MediaInv, StageFails
  PROVE  MediaInv'
<1> USE DEF MediaInv, Types, Attached, Published, Early, Late, Pc, StageFails, At,
           Spend, Throw, Go, ControlSet, WorkerSet, DiskSet, Scenario
<1>1. Types'
  BY Kinds, SMTT(20) DEF Snap, Numbers
<1>2. Attached'
  BY <1>1, Kinds, SMTT(20)
<1>3. Published'
  BY <1>1, Kinds, SMTT(20)
<1>4. Owned'
  BY <1>1, Kinds, SMTT(20) DEF Owned
<1>5. Cached'
  BY <1>1, Kinds, SMTT(20) DEF Cached
<1>6. Consumed'
  BY <1>1, Kinds, SMTT(20) DEF Consumed
<1>7. Finished'
  BY <1>1, Kinds, SMTT(20) DEF Finished
<1> QED
  BY <1>1, <1>2, <1>3, <1>4, <1>5, <1>6, <1>7

\* A failed request ends the worker.
LEMMA FetchFailsKeeps ==
  ASSUME Sizes, MediaInv, FetchFails
  PROVE  MediaInv'
<1> USE DEF MediaInv, Types, Attached, Published, Early, Late, Pc, FetchFails, At,
           Spend, Throw, Go, ControlSet, WorkerSet, Scenario
<1>1. Types'
  BY Kinds, SMTT(20) DEF Snap, Numbers
<1>2. Attached'
  BY <1>1, Kinds, SMTT(20)
<1>3. Published'
  BY <1>1, Kinds, SMTT(20)
<1>4. Owned'
  BY <1>1, Kinds, SMTT(20) DEF Owned
<1>5. Cached'
  BY <1>1, Kinds, SMTT(20) DEF Cached
<1>6. Consumed'
  BY <1>1, Kinds, SMTT(20) DEF Consumed
<1>7. Finished'
  BY <1>1, Kinds, SMTT(20) DEF Finished
<1> QED
  BY <1>1, <1>2, <1>3, <1>4, <1>5, <1>6, <1>7

\* Store::preparePublication() records what is staged.
LEMMA PrepareKeeps ==
  ASSUME Sizes, MediaInv, Prepare
  PROVE  MediaInv'
<1> USE DEF MediaInv, Types, Attached, Published, Early, Late, Pc, Prepare, At, Go,
           Idle, WorkerSet, RowSet
<1>0. MaxPath \in Nat \ {0}
  BY DEF Sizes
<1>1. Types'
  <2>1. task.path \in Paths /\ task.path \in 0..MaxPath /\ fs.staging[task.path] \in File
    BY <1>0, SMTT(20) DEF TaskSet, DiskSet, Paths
  <2>2. db' \in RowSet
    BY <2>1, ZenonT(20)
  <2> QED
    BY <2>2, SMTT(20)
<1>2. Attached'
  BY <1>1, Kinds, SMTT(20)
<1>3. Published'
  BY <1>1, Kinds, SMTT(20) DEF TaskSet
<1>4. Owned'
  BY <1>1, Kinds, SMTT(20) DEF Owned
<1>5. Cached'
  BY <1>1, Kinds, SMTT(20) DEF Cached
<1>6. Consumed'
  BY <1>1, Kinds, SMTT(20) DEF Consumed
<1>7. Finished'
  BY <1>1, Kinds, SMTT(20) DEF Finished
<1> QED
  BY <1>1, <1>2, <1>3, <1>4, <1>5, <1>6, <1>7

\* Muxer::publish() puts the staged file in place.
LEMMA PublishKeeps ==
  ASSUME Sizes, MediaInv, Publish
  PROVE  MediaInv'
<1> USE DEF MediaInv, Types, Attached, Published, Early, Late, Pc, Publish, At, Linked,
           Throw, Go, Idle, ControlSet, WorkerSet, DiskSet
<1>1. Types'
  <2>1. db.path \in Paths
    BY SMTT(20)
  <2> HIDE DEF Attached, Published
  <2>2. fs.staging[db.path] \in File /\ fs.out \in [Paths -> File] /\ fs.staging \in [Paths -> File]
    BY <2>1, SMTT(20)
  <2>3. fs' \in DiskSet
    <3> DEFINE out == [fs.out EXCEPT ![db.path] = fs.staging[db.path]]
               staging == [fs.staging EXCEPT ![db.path] = NoFile]
    <3>1. out \in [Paths -> File] /\ staging \in [Paths -> File]
      BY <2>1, <2>2, Kinds, SMTT(20)
    <3>2. \/ fs' = [fs EXCEPT !.out = out, !.staging = staging]
          \/ fs' = [fs EXCEPT !.out = out] \/ fs' = fs
      BY SMTT(20)
    <3> HIDE DEF out, staging
    <3> QED
      BY <3>1, <3>2, ZenonT(20)
  <2> QED
    BY <2>3, SMTT(20) DEF Snap
<1>2. Attached'
  BY <1>1, Kinds, SMTT(20)
<1>3. Published'
  BY <1>1, Kinds, SMTT(20)
<1>4. Owned'
  BY <1>1, Kinds, SMTT(20) DEF Owned
<1>5. Cached'
  BY <1>1, Kinds, SMTT(20) DEF Cached
<1>6. Consumed'
  BY <1>1, Kinds, SMTT(20) DEF Consumed
<1>7. Finished'
  BY <1>1, Kinds, SMTT(20) DEF Finished
<1> QED
  BY <1>1, <1>2, <1>3, <1>4, <1>5, <1>6, <1>7

\* The staging file goes once the output is in place.
LEMMA UnlinkKeeps ==
  ASSUME Sizes, MediaInv, Unlink
  PROVE  MediaInv'
<1> USE DEF MediaInv, Types, Attached, Published, Early, Late, Pc, Unlink, At, Go, Idle,
           WorkerSet, DiskSet
<1>1. Types'
  BY Kinds, SMTT(20) DEF Snap, Numbers
<1>2. Attached'
  BY <1>1, Kinds, SMTT(20)
<1>3. Published'
  BY <1>1, Kinds, SMTT(20)
<1>4. Owned'
  BY <1>1, Kinds, SMTT(20) DEF Owned
<1>5. Cached'
  BY <1>1, Kinds, SMTT(20) DEF Cached
<1>6. Consumed'
  BY <1>1, Kinds, SMTT(20) DEF Consumed
<1>7. Finished'
  BY <1>1, Kinds, SMTT(20) DEF Finished
<1> QED
  BY <1>1, <1>2, <1>3, <1>4, <1>5, <1>6, <1>7

\* complete() says so when the output is in place.
LEMMA CompleteSnapshotKeeps ==
  ASSUME Sizes, MediaInv, CompleteSnapshot
  PROVE  MediaInv'
<1> USE DEF MediaInv, Types, Attached, Published, Early, Late, Pc, CompleteSnapshot, At,
           Says, Go, Idle, ControlSet, WorkerSet
<1>1. Types'
  BY Kinds, SMTT(20) DEF Snap, Numbers
<1>2. Attached'
  BY <1>1, Kinds, SMTT(20)
<1>3. Published'
  BY <1>1, Kinds, SMTT(20)
<1>4. Owned'
  BY <1>1, Kinds, SMTT(20) DEF Owned
<1>5. Cached'
  BY <1>1, Kinds, SMTT(20) DEF Cached
<1>6. Consumed'
  BY <1>1, Kinds, SMTT(20) DEF Consumed
<1>7. Finished'
  BY <1>1, Kinds, SMTT(20) DEF Finished
<1> QED
  BY <1>1, <1>2, <1>3, <1>4, <1>5, <1>6, <1>7

\* The cache goes while the record still names the output.
LEMMA RemoveCacheKeeps ==
  ASSUME Sizes, MediaInv, RemoveCache
  PROVE  MediaInv'
<1> USE DEF MediaInv, Types, Attached, Published, Early, Late, Pc, RemoveCache, At, Go,
           Idle, WorkerSet, DiskSet
<1>1. Types'
  BY Kinds, SMTT(20) DEF Snap, Numbers
<1>2. Attached'
  BY <1>1, Kinds, SMTT(20)
<1>3. Published'
  BY <1>1, Kinds, SMTT(20)
<1>4. Owned'
  BY <1>1, Kinds, SMTT(20) DEF Owned
<1>5. Cached'
  BY <1>1, Kinds, SMTT(20) DEF Cached
<1>6. Consumed'
  BY <1>1, Kinds, SMTT(20) DEF Consumed
<1>7. Finished'
  BY <1>1, Kinds, SMTT(20) DEF Finished
<1> QED
  BY <1>1, <1>2, <1>3, <1>4, <1>5, <1>6, <1>7

\* Store::remove() when nothing is left to do.
LEMMA RemoveRowsKeeps ==
  ASSUME Sizes, MediaInv, RemoveRows
  PROVE  MediaInv'
<1> USE DEF MediaInv, Types, Attached, Published, Early, Late, Pc, RemoveRows, At,
           NoRows, Go, Idle, WorkerSet, RowSet
<1>0. MaxPath \in Nat \ {0}
  BY DEF Sizes
<1>1. Types'
  BY <1>0, Kinds, SMTT(20) DEF Numbers
<1>2. Attached'
  BY <1>1, Kinds, SMTT(20)
<1>3. Published'
  BY <1>1, Kinds, SMTT(20) DEF Paths
<1>4. Owned'
  BY <1>1, Kinds, SMTT(20) DEF Owned
<1>5. Cached'
  BY <1>1, Kinds, SMTT(20) DEF Cached
<1>6. Consumed'
  <2>1. Stretch(rest.live, 0, {})
    BY Stretches, SMTT(20) DEF Scenario
  <2> QED
    BY <1>1, <2>1, SMTT(20) DEF Consumed
<1>7. Finished'
  BY <1>1, Kinds, SMTT(20) DEF Finished
<1> QED
  BY <1>1, <1>2, <1>3, <1>4, <1>5, <1>6, <1>7

\* The end of the worker's thread.
LEMMA EndWorkerKeeps ==
  ASSUME Sizes, MediaInv, EndWorker
  PROVE  MediaInv'
<1> USE DEF MediaInv, Types, Attached, Published, Early, Late, Pc, EndWorker, At,
           Outcome, Idle, ControlSet
<1>1. Types'
  <2>1. Outcome(ctl) \in Snap
    BY SMTT(20) DEF Snap
  <2> HIDE DEF Outcome, Attached, Published
  <2>2. ctl' \in ControlSet
    BY <2>1, ZenonT(20)
  <2> QED
    BY <2>2, SMTT(20)
<1>2. Attached'
  BY <1>1, Kinds, SMTT(20)
<1>3. Published'
  BY <1>1, Kinds, SMTT(20)
<1>4. Owned'
  BY <1>1, Kinds, SMTT(20) DEF Owned
<1>5. Cached'
  BY <1>1, Kinds, SMTT(20) DEF Cached
<1>6. Consumed'
  BY <1>1, Kinds, SMTT(20) DEF Consumed
<1>7. Finished'
  BY <1>1, Kinds, SMTT(20) DEF Finished
<1> QED
  BY <1>1, <1>2, <1>3, <1>4, <1>5, <1>6, <1>7

\* finishRecording() of a live recording.
LEMMA FinishRecordingKeeps ==
  ASSUME Sizes, MediaInv, FinishRecording
  PROVE  MediaInv'
<1> USE DEF MediaInv, Types, Attached, Published, Early, Late, Pc, FinishRecording,
           Spend, TaskSet, ControlSet, Scenario
<1>1. Types'
  <2> HIDE DEF Attached, Published
  <2>1. rest' \in Scenario
    BY SMTT(20)
  <2>2. task' \in TaskSet
    BY ZenonT(20)
  <2>3. ctl' \in ControlSet
    BY ZenonT(20)
  <2> QED
    BY <2>1, <2>2, <2>3, SMTT(20)
<1>2. Attached'
  BY <1>1, Kinds, SMTT(20)
<1>3. Published'
  BY <1>1, Kinds, SMTT(20)
<1>4. Owned'
  BY <1>1, Kinds, SMTT(20) DEF Owned
<1>5. Cached'
  BY <1>1, Kinds, SMTT(20) DEF Cached
<1>6. Consumed'
  <2> HIDE DEF Attached, Published
  <2>1. UNCHANGED <<worker, db, fs>>
    BY ZenonT(20)
  <2>2. rest'.live = rest.live
    <3>1. rest' = [rest EXCEPT !["finishes"] = @ - 1]
      BY ZenonT(20)
    <3> QED
      BY <3>1, ZenonT(20)
  <2>3. ctl'.state = ctl.state /\ task'.path = task.path
    BY SMTT(20)
  <2> QED
    BY <2>1, <2>2, <2>3, ZenonT(20) DEF Consumed
<1>7. Finished'
  <2> HIDE DEF Attached, Published
  <2>1. UNCHANGED <<worker, db, fs>>
    BY ZenonT(20)
  <2>2. rest'.live = rest.live
    <3>1. rest' = [rest EXCEPT !["finishes"] = @ - 1]
      BY ZenonT(20)
    <3> QED
      BY <3>1, ZenonT(20)
  <2>3. ctl'.state = ctl.state /\ task'.path = task.path
    BY SMTT(20)
  <2> QED
    BY <2>1, <2>2, <2>3, ZenonT(20) DEF Finished
<1> QED
  BY <1>1, <1>2, <1>3, <1>4, <1>5, <1>6, <1>7

\* aria2.changeOption: another selection.
LEMMA ChangeSelectionKeeps ==
  ASSUME Sizes, MediaInv, ChangeSelection
  PROVE  MediaInv'
<1> USE DEF MediaInv, Types, Attached, Published, Early, Late, Pc, ChangeSelection,
           Spend, TaskSet, Scenario
<1>1. Types'
  BY Kinds, SMTT(20) DEF Snap, Numbers
<1>2. Attached'
  BY <1>1, Kinds, SMTT(20)
<1>3. Published'
  BY <1>1, Kinds, SMTT(20)
<1>4. Owned'
  BY <1>1, Kinds, SMTT(20) DEF Owned
<1>5. Cached'
  BY <1>1, Kinds, SMTT(20) DEF Cached
<1>6. Consumed'
  BY <1>1, Kinds, SMTT(20) DEF Consumed
<1>7. Finished'
  BY <1>1, Kinds, SMTT(20) DEF Finished
<1> QED
  BY <1>1, <1>2, <1>3, <1>4, <1>5, <1>6, <1>7

\* aria2.changeOption: another name.
LEMMA ChangeNameKeeps ==
  ASSUME Sizes, MediaInv, ChangeName
  PROVE  MediaInv'
<1> USE DEF MediaInv, Types, Attached, Published, Early, Late, Pc, ChangeName, Spend,
           TaskSet, Scenario
<1>0. MaxPath \in Nat \ {0}
  BY DEF Sizes
<1>1. Types'
  <2>1. rest' \in Scenario
    BY SMTT(20)
  <2>2. task.path + 1 \in Paths
    BY <1>0, SMTT(20) DEF Paths
  <2> QED
    BY <2>1, <2>2, SMTT(20)
<1>2. Attached'
  BY <1>1, Kinds, SMTT(20)
<1>3. Published'
  BY <1>1, Kinds, SMTT(20)
<1>4. Owned'
  BY <1>1, Kinds, SMTT(20) DEF Owned
<1>5. Cached'
  BY <1>1, Kinds, SMTT(20) DEF Cached
<1>6. Consumed'
  BY <1>1, Kinds, SMTT(20) DEF Consumed
<1>7. Finished'
  BY <1>1, Kinds, SMTT(20) DEF Finished
<1> QED
  BY <1>1, <1>2, <1>3, <1>4, <1>5, <1>6, <1>7

\* aria2.retryMedia.
LEMMA RetryMediaKeeps ==
  ASSUME Sizes, MediaInv, RetryMedia
  PROVE  MediaInv'
<1> USE DEF MediaInv, Types, Attached, Published, Early, Late, Pc, RetryMedia, Spend,
           TaskSet, Scenario
<1>1. Types'
  BY Kinds, SMTT(20) DEF Snap, Numbers
<1>2. Attached'
  BY <1>1, Kinds, SMTT(20)
<1>3. Published'
  BY <1>1, Kinds, SMTT(20)
<1>4. Owned'
  BY <1>1, Kinds, SMTT(20) DEF Owned
<1>5. Cached'
  BY <1>1, Kinds, SMTT(20) DEF Cached
<1>6. Consumed'
  BY <1>1, Kinds, SMTT(20) DEF Consumed
<1>7. Finished'
  BY <1>1, Kinds, SMTT(20) DEF Finished
<1> QED
  BY <1>1, <1>2, <1>3, <1>4, <1>5, <1>6, <1>7

\* The source changes.
LEMMA SourceChangesKeeps ==
  ASSUME Sizes, MediaInv, SourceChanges
  PROVE  MediaInv'
<1> USE DEF MediaInv, Types, Attached, Published, Early, Late, Pc, SourceChanges, Spend,
           ServerSet, Scenario
<1>0. MaxVersion \in Nat
  BY DEF Sizes
<1>1. Types'
  BY <1>0, Kinds, SMTT(20) DEF Snap, Numbers
<1>2. Attached'
  BY <1>1, Kinds, SMTT(20)
<1>3. Published'
  BY <1>1, Kinds, SMTT(20)
<1>4. Owned'
  BY <1>1, Kinds, SMTT(20) DEF Owned
<1>5. Cached'
  BY <1>1, Kinds, SMTT(20) DEF Cached
<1>6. Consumed'
  BY <1>1, Kinds, SMTT(20) DEF Consumed
<1>7. Finished'
  BY <1>1, Kinds, SMTT(20) DEF Finished
<1> QED
  BY <1>1, <1>2, <1>3, <1>4, <1>5, <1>6, <1>7

\* The user takes a file away while no worker runs.
LEMMA UserRemovesKeeps ==
  ASSUME Sizes, MediaInv, UserRemoves
  PROVE  MediaInv'
<1> USE DEF MediaInv, Types, Attached, Published, Early, Late, Pc, UserRemoves, At,
           DiskSet, Scenario
<1>1. Types'
  <2> HIDE DEF Attached, Published
  <2>1. rest' \in Scenario
    <3>1. rest' = [rest EXCEPT !.takes = @ - 1, !.took = TRUE]
      BY ZenonT(20)
    <3>2. rest.takes - 1 \in Nat
      BY SMTT(20)
    <3> QED
      BY <3>1, <3>2, ZenonT(20)
  <2>2. fs' \in DiskSet
    BY Kinds, SMTT(20)
  <2> QED
    BY <2>1, <2>2, SMTT(20)
<1>2. Attached'
  BY <1>1, Kinds, SMTT(20)
<1>3. Published'
  BY <1>1, Kinds, SMTT(20)
<1>4. Owned'
  BY <1>1, Kinds, SMTT(20) DEF Owned
<1>5. Cached'
  BY <1>1, Kinds, SMTT(20) DEF Cached
<1>6. Consumed'
  BY <1>1, Kinds, SMTT(20) DEF Consumed
<1>7. Finished'
  BY <1>1, Kinds, SMTT(20) DEF Finished
<1> QED
  BY <1>1, <1>2, <1>3, <1>4, <1>5, <1>6, <1>7

\* The user creates the output first.
LEMMA UserPlacesKeeps ==
  ASSUME Sizes, MediaInv, UserPlaces
  PROVE  MediaInv'
<1> USE DEF MediaInv, Types, Attached, Published, Early, Late, Pc, UserPlaces, Spend,
           DiskSet, Scenario
<1>1. Types'
  BY Kinds, SMTT(20) DEF Snap, Numbers
<1>2. Attached'
  BY <1>1, Kinds, SMTT(20)
<1>3. Published'
  BY <1>1, Kinds, SMTT(20)
<1>4. Owned'
  BY <1>1, Kinds, SMTT(20) DEF Owned
<1>5. Cached'
  BY <1>1, Kinds, SMTT(20) DEF Cached
<1>6. Consumed'
  BY <1>1, Kinds, SMTT(20) DEF Consumed
<1>7. Finished'
  BY <1>1, Kinds, SMTT(20) DEF Finished
<1> QED
  BY <1>1, <1>2, <1>3, <1>4, <1>5, <1>6, <1>7

\* Without a worker, what is recorded stays as good as the rows and the files.
LEMMA IdlePublished ==
  ASSUME Published, UNCHANGED <<db, fs>>, worker'.pc = "none", rest'.took = rest.took
  PROVE  Published'
<1>1. "none" \notin Early /\ "none" \notin Late \cup {"forget", "clear", "link"}
  BY Zenon DEF Early, Late
<1>2. "none" \notin Late /\ "none" \notin {"clear"} \cup (Late \ {"unlink"})
  BY Zenon DEF Late
<1> QED
  BY <1>1, <1>2, ZenonT(20) DEF Published

\* Nor does what was consumed change without a worker.
LEMMA IdleConsumed ==
  ASSUME Consumed, UNCHANGED db, worker'.pc = "none", rest'.live = rest.live
  PROVE  Consumed'
  BY ZenonT(20) DEF Consumed

\* A crash counted in a scenario leaves a scenario.
LEMMA CrashCounted ==
  ASSUME NEW r \in Scenario, NEW c \in Nat, NEW d \in Nat, NEW b \in BOOLEAN
  PROVE  [r EXCEPT !.crashes = c, !.died = d, !.orphan = b] \in Scenario
  BY Zenon DEF Scenario

\* The process dies and the task is restored.
LEMMA MediaCrashKeeps ==
  ASSUME Sizes, MediaInv, MediaCrash
  PROVE  MediaInv'
<1> USE DEF MediaInv, Types, Attached, Published, Early, Late, Pc, MediaCrash, NewMedia,
           NoControl, NoWorker, TaskSet, ControlSet, WorkerSet, Scenario
<1>0. MaxPath \in Nat \ {0}
  BY DEF Sizes
<1>1. Types'
  <2> HIDE DEF Attached, Published
  <2>1. rest' \in Scenario
    <3> DEFINE lost == rest.orphan \/ (~db.pub /\ \E p \in Paths : fs.staging[p] # NoFile)
    <3>1. rest' = [rest EXCEPT !.crashes = @ - 1, !.died = @ + 1, !.orphan = lost]
      BY ZenonT(20)
    <3>2. lost \in BOOLEAN
      BY ZenonT(20)
    <3>3. rest.crashes - 1 \in Nat /\ rest.died + 1 \in Nat
      BY SMTT(20)
    <3>4. rest \in Scenario
      BY Zenon
    <3> HIDE DEF lost, MediaInv, Types, MediaCrash, Scenario
    <3> QED
      BY <3>1, <3>2, <3>3, <3>4, CrashCounted, Zenon
  <2>2. task' \in TaskSet
    <3>1. PICK path \in {1, task.path}, identity \in {1, task.identity} :
            task' = [NewMedia EXCEPT !.path = path, !.identity = identity]
      BY ZenonT(20)
    <3>2. path \in Paths /\ identity \in 1..2
      BY <1>0, SMTT(20) DEF Paths
    <3>3. task' = [place |-> "waiting", snap |-> "waiting", stop |-> "no", path |-> path,
                   identity |-> identity, finish |-> FALSE]
      BY <3>1, ZenonT(20)
    <3> QED
      BY <3>2, <3>3, ZenonT(20) DEF Snap
  <2>3. ctl' \in ControlSet /\ worker' \in WorkerSet
    BY SMTT(20) DEF Snap, Numbers
  <2> QED
    BY <2>1, <2>2, <2>3, SMTT(20)
<1>2. Attached'
  BY <1>1, Kinds, SMTT(20)
<1>3. Published'
  <2>1. Published /\ UNCHANGED <<db, fs>> /\ worker'.pc = "none" /\ rest'.took = rest.took
    BY ZenonT(20)
  <2> HIDE DEF MediaInv, Published, MediaCrash
  <2> QED
    BY <2>1, IdlePublished, Zenon
<1>4. Owned'
  BY <1>1, Kinds, SMTT(20) DEF Owned
<1>5. Cached'
  BY <1>1, Kinds, SMTT(20) DEF Cached
<1>6. Consumed'
  <2>1. Consumed /\ UNCHANGED db /\ worker'.pc = "none" /\ rest'.live = rest.live
    BY ZenonT(20)
  <2> HIDE DEF MediaInv, MediaCrash
  <2> QED
    BY <2>1, IdleConsumed, Zenon
<1>7. Finished'
  BY <1>1, Kinds, SMTT(20) DEF Finished
<1> QED
  BY <1>1, <1>2, <1>3, <1>4, <1>5, <1>6, <1>7

\* An exception in the worker that leaves no staging file.
LEMMA ThrowKeeps ==
  ASSUME Sizes, MediaInv, Throw, worker.pc \in {"open", "commit", "stage"},
         UNCHANGED <<task, db, fs, server, rest>>
  PROVE  MediaInv'
<1> USE DEF MediaInv, Types, Attached, Published, Early, Late, Pc, Throw, Go, WorkerSet, ControlSet
<1>1. Types'
  BY SMTT(20) DEF Snap
<1>2. Attached'
  BY <1>1, SMTT(20)
<1>3. Published'
  BY <1>1, SMTT(20)
<1>4. Owned'
  BY <1>1, SMTT(20) DEF Owned
<1>5. Cached'
  BY <1>1, SMTT(20) DEF Cached
<1>6. Consumed'
  BY <1>1, SMTT(20) DEF Consumed
<1>7. Finished'
  BY <1>1, SMTT(20) DEF Finished
<1> QED
  BY <1>1, <1>2, <1>3, <1>4, <1>5, <1>6, <1>7

\* MediaJob::MediaJob(): the segments stay or go with the selection.
LEMMA OpenJobKeeps ==
  ASSUME Sizes, MediaInv, OpenJob
  PROVE  MediaInv'
<1> DEFINE changed == db.identity \notin {0, worker.identity}
<1>1. CASE changed /\ db.pub
  <2>1. Throw /\ worker.pc = "open" /\ UNCHANGED <<task, db, fs, server, rest>>
    BY <1>1, ZenonT(20) DEF OpenJob, At, Idle
  <2> QED
    BY <2>1, ThrowKeeps, ZenonT(20)
<1>2. CASE ~(changed /\ db.pub)
  <2>1. /\ db' = [db EXCEPT !.identity = worker.identity,
                            !.segs = IF changed THEN {} ELSE @,
                            !.manifest = IF changed THEN 0 ELSE @]
        /\ worker' = [worker EXCEPT !.pc = "recover", !.had = db'.segs]
        /\ worker.pc = "open" /\ UNCHANGED <<task, ctl, fs, server, rest>>
    BY <1>2, ZenonT(20) DEF OpenJob, At, Idle
  <2> HIDE DEF changed
  <2>2. db \in RowSet /\ worker \in WorkerSet
    BY ZenonT(20) DEF MediaInv, Types
  <2>3. /\ db'.identity = worker.identity /\ db'.pub = db.pub
        /\ db'.path = db.path /\ db'.digest = db.digest
        /\ \/ db'.segs = db.segs /\ db'.manifest = db.manifest
           \/ db'.segs = {} /\ db'.manifest = 0 /\ ~db.pub
        /\ db' \in RowSet
    <3> DEFINE segs == IF changed THEN {} ELSE db.segs
               manifest == IF changed THEN 0 ELSE db.manifest
    <3>1. db' = [db EXCEPT !.identity = worker.identity, !.segs = segs, !.manifest = manifest]
      BY <2>1, ZenonT(20)
    <3>2. segs \in Numbers /\ manifest \in Nat /\ worker.identity \in 0..2
      BY <2>2, SMTT(20) DEF RowSet, WorkerSet, Numbers
    <3>3. \/ segs = db.segs /\ manifest = db.manifest
          \/ segs = {} /\ manifest = 0 /\ ~db.pub
      <4>1. CASE changed
        BY <1>2, <4>1, ZenonT(20)
      <4>2. CASE ~changed
        BY <4>2, ZenonT(20)
      <4> QED
        BY <4>1, <4>2, ZenonT(20)
    <3> HIDE DEF segs, manifest
    <3> QED
      BY <2>2, <3>1, <3>2, <3>3, ZenonT(20) DEF RowSet
  <2>4. worker'.pc = "recover" /\ worker'.had = db'.segs /\ worker' \in WorkerSet
    <3>1. db'.segs \in Numbers /\ "recover" \in Pc
      BY <2>3, SMTT(20) DEF RowSet, Pc
    <3> QED
      BY <2>1, <2>2, <3>1, ZenonT(20) DEF WorkerSet
  <2> USE DEF MediaInv, Types, Attached, Published, Early, Late
  <2>5. Types'
    BY <2>1, <2>3, <2>4, ZenonT(20)
  <2>6. Attached'
    BY <2>1, <2>3, <2>4, SMTT(20)
  <2>7. Published'
    BY <2>1, <2>3, <2>4, SMTT(20)
  <2>8. Owned'
    BY <2>1, <2>3, <2>4, SMTT(20) DEF Owned
  <2>9. Cached'
    BY <2>1, <2>3, <2>4, SMTT(20) DEF Cached
  <2>10. Consumed'
    <3>1. Stretch(rest.live, 0, {})
      BY Stretches, SMTT(20) DEF Scenario
    <3> QED
      BY <2>1, <2>3, <2>4, <3>1, SMTT(20) DEF Consumed
  <2>11. Finished'
    BY <2>1, <2>3, <2>4, SMTT(20) DEF Finished
  <2> QED
    BY <2>5, <2>6, <2>7, <2>8, <2>9, <2>10, <2>11
<1> QED
  BY <1>1, <1>2

\* Muxer::stage() begins with every committed segment in the cache.
LEMMA StageBeginsKeeps ==
  ASSUME Sizes, MediaInv, StageBegins
  PROVE  MediaInv'
<1> DEFINE refused == db.segs = {} \/ ~(db.segs \subseteq fs.cache)
<1>1. CASE refused
  <2>1. Throw /\ worker.pc = "stage" /\ UNCHANGED <<task, db, fs, server, rest>>
    BY <1>1, ZenonT(20) DEF StageBegins, At, Idle
  <2> QED
    BY <2>1, ThrowKeeps, ZenonT(20)
<1>2. CASE ~refused
  <2>1. /\ worker' = [worker EXCEPT !.pc = "staging", !.staged = db.segs]
        /\ fs' = [fs EXCEPT !.staging[task.path] = Partial]
        /\ ctl' = [ctl EXCEPT !.state = "finalizing"]
        /\ worker.pc = "stage" /\ UNCHANGED <<task, db, server, rest>>
    BY <1>2, ZenonT(20) DEF StageBegins, At, Idle, Says
  <2>2. Types /\ db.segs # {}
    BY <1>2, ZenonT(20) DEF MediaInv
  <2>3. worker'.pc = "staging" /\ worker'.staged = db.segs /\ worker' \in WorkerSet
    <3>1. db.segs \in Numbers /\ "staging" \in Pc
      BY <2>2, SMTT(20) DEF Types, RowSet, Pc, Early
    <3> QED
      BY <2>1, <2>2, <3>1, ZenonT(20) DEF Types, WorkerSet
  <2>4. /\ fs' \in DiskSet /\ fs'.out = fs.out /\ fs'.cache = fs.cache
        /\ \A p \in Paths : fs'.staging[p] = IF p = task.path THEN Partial ELSE fs.staging[p]
    BY <2>1, <2>2, Kinds, SMTT(20) DEF Types, DiskSet, TaskSet
  <2>5. /\ ctl' \in ControlSet /\ ctl'.state = "finalizing" /\ ctl'.on = ctl.on
        /\ ctl'.cancel = ctl.cancel /\ ctl'.finish = ctl.finish /\ ctl'.done = ctl.done
    BY <2>1, <2>2, SMTT(20) DEF Types, ControlSet, Snap
  <2> HIDE DEF refused
  <2> USE DEF MediaInv, Attached, Published, Early, Late
  <2>6. Types'
    BY <2>1, <2>2, <2>3, <2>4, <2>5, ZenonT(20) DEF Types
  <2>7. Attached'
    BY <2>1, <2>3, <2>4, <2>5, SMTT(20)
  <2>8. Published'
    BY <2>1, <2>3, <2>4, SMTT(20)
  <2>9. Owned'
    BY <2>1, <2>3, <2>4, SMTT(20) DEF Owned
  <2>10. Cached'
    BY <2>1, <2>3, <2>4, SMTT(20) DEF Cached
  <2>11. Consumed'
    BY <2>1, <2>3, SMTT(20) DEF Consumed
  <2>12. Finished'
    BY <2>1, <2>2, <2>3, <2>4, <2>5, SMTT(20) DEF Finished
  <2> QED
    BY <2>6, <2>7, <2>8, <2>9, <2>10, <2>11, <2>12
<1> QED
  BY <1>1, <1>2

\* What Store::manifest() keeps is a stretch of the version that is played.
LEMMA ManifestStretch ==
  ASSUME Sizes, db \in RowSet, Stretch(FALSE, db.manifest, db.segs), NEW v \in 1..MaxVersion
  PROVE  LET d == Manifest(db, v)
         IN  /\ d \in RowSet /\ d.manifest = v
             /\ d.segs = db.segs \/ d.segs = {}
             /\ d.pub = db.pub /\ d.path = db.path /\ d.digest = db.digest
             /\ Stretch(FALSE, v, d.segs)
<1> DEFINE segs == IF db.manifest \in {0, v} THEN db.segs ELSE {}
           d == Manifest(db, v)
<1>1. d = [db EXCEPT !.manifest = v, !.segs = segs]
  BY ZenonT(20) DEF Manifest
<1>2. segs \in Numbers /\ v \in Nat
  BY SMTT(20) DEF RowSet, Numbers, Sizes
<1>3. Stretch(FALSE, v, segs)
  <2>1. CASE db.manifest \notin {0, v}
    BY <2>1, Stretches, ZenonT(20)
  <2>2. CASE db.manifest = v
    BY <2>2, ZenonT(20)
  <2>3. CASE db.manifest = 0
    <3>1. PICK b \in 0..Last : db.segs = {db.manifest} \X (1..b) /\ (b > 0 => db.manifest \in 1..MaxVersion)
      BY ZenonT(20) DEF Stretch
    <3>2. b = 0
      BY <2>3, <3>1, SMTT(20) DEF Sizes
    <3>3. db.segs = {}
      BY <3>1, <3>2, SMTT(20)
    <3> QED
      BY <2>3, <3>3, Stretches, ZenonT(20)
  <2> QED
    BY <2>1, <2>2, <2>3, ZenonT(20)
<1>4. segs = db.segs \/ segs = {}
  BY ZenonT(20)
<1> HIDE DEF segs, d
<1>5. /\ d \in RowSet /\ d.manifest = v /\ d.segs = segs
      /\ d.pub = db.pub /\ d.path = db.path /\ d.digest = db.digest
  BY <1>1, <1>2, ZenonT(20) DEF RowSet
<1> QED
  BY <1>3, <1>4, <1>5, ZenonT(20) DEF d

\* The manifest is opened: the segments of this version stay.
LEMMA OpenManifestKeeps ==
  ASSUME Sizes, MediaInv, OpenManifest
  PROVE  MediaInv'
<1>0. /\ worker.pc = "manifest" /\ UNCHANGED <<fs, task, server, rest>>
      /\ task \in TaskSet /\ ctl \in ControlSet /\ worker \in WorkerSet /\ db \in RowSet
      /\ fs \in DiskSet /\ server \in ServerSet /\ rest \in Scenario /\ rest.live \in BOOLEAN
  BY ZenonT(20) DEF MediaInv, Types, OpenManifest, At, Idle, Scenario
<1> USE DEF MediaInv, Attached, Published, Early, Late
<1>1. CASE ctl.finish
  <2>1. worker' = [worker EXCEPT !.pc = "stage"] /\ UNCHANGED <<ctl, db>>
    BY <1>1, ZenonT(20) DEF OpenManifest, Go
  <2>2. worker'.pc = "stage" /\ worker' \in WorkerSet
    BY <1>0, <2>1, SMTT(20) DEF WorkerSet, Pc
  <2>3. db.segs = {} \/ Entire(rest.live, db.segs)
    <3>1. rest.live
      BY <1>1, ZenonT(20)
    <3> QED
      BY <1>0, <3>1, Stretches, ZenonT(20) DEF Consumed
  <2>4. Types'
    BY <1>0, <2>1, <2>2, ZenonT(20) DEF Types
  <2>5. Attached' /\ Published'
    BY <1>0, <2>1, <2>2, SMTT(20)
  <2>6. Owned' /\ Cached'
    BY <1>0, <2>1, <2>2, SMTT(20) DEF Owned, Cached
  <2>7. Consumed'
    BY <1>0, <2>1, <2>2, SMTT(20) DEF Consumed
  <2>8. Finished'
    BY <1>0, <2>1, <2>2, <2>3, ZenonT(20) DEF Finished
  <2> QED
    BY <2>4, <2>5, <2>6, <2>7, <2>8
<1>2. CASE ~ctl.finish /\ rest.live
  <2>1. PICK n \in server.first..(server.first + Width - 1) :
          worker' = [worker EXCEPT !.pc = "fetch", !.next = n, !.manifest = 1]
    BY <1>2, ZenonT(20) DEF OpenManifest
  <2>2. ctl' = [ctl EXCEPT !.state = "downloading"] /\ UNCHANGED db
    BY <1>2, ZenonT(20) DEF OpenManifest, Says
  <2>3. n \in Nat
    BY <1>0, <2>1, SMTT(20) DEF ServerSet, Sizes
  <2>4. worker'.pc = "fetch" /\ worker'.manifest = 1 /\ worker'.had = worker.had
        /\ worker' \in WorkerSet
    <3>1. "fetch" \in Pc /\ 1 \in Nat
      BY SMTT(20) DEF Pc
    <3> QED
      BY <1>0, <2>1, <2>3, <3>1, ZenonT(20) DEF WorkerSet
  <2>5. /\ ctl' \in ControlSet /\ ctl'.state = "downloading" /\ ctl'.on = ctl.on
        /\ ctl'.cancel = ctl.cancel /\ ctl'.finish = ctl.finish /\ ctl'.done = ctl.done
    BY <1>0, <2>2, SMTT(20) DEF ControlSet, Snap
  <2>6. Types'
    BY <1>0, <2>2, <2>4, <2>5, ZenonT(20) DEF Types
  <2>7. Attached' /\ Published'
    BY <1>0, <2>2, <2>4, <2>5, SMTT(20)
  <2>8. Owned' /\ Cached'
    BY <1>0, <2>2, <2>4, SMTT(20) DEF Owned, Cached
  <2>9. Consumed'
    <3>1. worker.had = db.segs /\ rest'.live
      BY <1>0, <1>2, ZenonT(20) DEF Consumed
    <3> QED
      BY <1>0, <2>2, <2>4, <3>1, ZenonT(20) DEF Consumed
  <2>10. Finished'
    BY <1>0, <2>2, <2>4, <2>5, SMTT(20) DEF Finished
  <2> QED
    BY <2>6, <2>7, <2>8, <2>9, <2>10
<1>3. CASE ~ctl.finish /\ ~rest.live
  <2> DEFINE probe == rest.probe /\ worker.identity = 1
             pc == IF probe THEN "end" ELSE "fetch"
             state == IF probe THEN "awaiting" ELSE "downloading"
             v == server.version
  <2>1. /\ db' = Manifest(db, v)
        /\ worker' = [worker EXCEPT !.pc = pc, !.next = 1, !.manifest = v, !.had = db'.segs]
        /\ ctl' = [ctl EXCEPT !.state = state]
    BY <1>3, ZenonT(20) DEF OpenManifest, Says
  <2>2. pc \in {"end", "fetch"} /\ pc \in Pc /\ state \in {"awaiting", "downloading"}
        /\ v \in 1..MaxVersion /\ v \in Nat
    BY <1>0, SMTT(20) DEF Pc, ServerSet, Sizes
  <2> HIDE DEF probe, pc, state, v
  <2>3. /\ db' \in RowSet /\ db'.manifest = v /\ (db'.segs = db.segs \/ db'.segs = {})
        /\ db'.pub = db.pub /\ db'.path = db.path /\ db'.digest = db.digest
        /\ Stretch(rest.live, v, db'.segs)
    <3>1. Stretch(FALSE, db.manifest, db.segs) /\ rest.live = FALSE
      BY <1>0, <1>3, ZenonT(20) DEF Consumed
    <3>2. LET d == Manifest(db, v)
          IN  /\ d \in RowSet /\ d.manifest = v
              /\ d.segs = db.segs \/ d.segs = {}
              /\ d.pub = db.pub /\ d.path = db.path /\ d.digest = db.digest
              /\ Stretch(FALSE, v, d.segs)
      BY <1>0, <2>2, <3>1, ManifestStretch, ZenonT(20)
    <3> QED
      BY <2>1, <3>1, <3>2, ZenonT(20)
  <2>4. worker'.pc = pc /\ worker'.manifest = v /\ worker'.had = db'.segs /\ worker'.next = 1
        /\ worker' \in WorkerSet
    <3>1. db'.segs \in Numbers /\ 1 \in Nat
      BY <2>3, SMTT(20) DEF RowSet
    <3> QED
      BY <1>0, <2>1, <2>2, <3>1, ZenonT(20) DEF WorkerSet
  <2>5. /\ ctl' \in ControlSet /\ ctl'.state = state /\ ctl'.on = ctl.on
        /\ ctl'.cancel = ctl.cancel /\ ctl'.finish = ctl.finish /\ ctl'.done = ctl.done
    BY <1>0, <2>1, <2>2, SMTT(20) DEF ControlSet, Snap
  <2>6. Types'
    BY <1>0, <2>3, <2>4, <2>5, ZenonT(20) DEF Types
  <2>7. Attached' /\ Published'
    BY <1>0, <2>2, <2>3, <2>4, <2>5, SMTT(20)
  <2>8. Owned' /\ Cached'
    BY <1>0, <2>2, <2>3, <2>4, SMTT(20) DEF Owned, Cached
  <2>9. Consumed'
    <3>1. Reached(v, 1, db'.segs)
      <4>1. {v} \X (1..(1 - 1)) \subseteq db'.segs /\ 1 \in 1..(Last + 1)
        BY SMTT(20) DEF Sizes
      <4> QED
        BY <2>2, <4>1, ZenonT(20) DEF Reached
    <3> QED
      BY <1>0, <1>3, <2>2, <2>3, <2>4, <3>1, SMTT(20) DEF Consumed
  <2>10. Finished'
    BY <1>0, <2>2, <2>3, <2>4, <2>5, SMTT(20) DEF Finished
  <2> QED
    BY <2>6, <2>7, <2>8, <2>9, <2>10
<1> QED
  BY <1>1, <1>2, <1>3

\* The greatest number of an interval, as FiniteSetsExt's Max chooses it.
LEMMA MaxOfStretch ==
  ASSUME NEW v, NEW a \in Nat, NEW b \in Nat, a <= b
  PROVE  Max({s[2] : s \in {v} \X (a..b)}) = b
<1> DEFINE S == {s[2] : s \in {v} \X (a..b)}
<1>1. S = a..b
  <2>1. \A s \in {v} \X (a..b) : s[2] \in a..b
    BY SMTT(20)
  <2>2. \A n \in a..b : <<v, n>> \in {v} \X (a..b) /\ <<v, n>>[2] = n
    BY SMTT(20)
  <2> QED
    BY <2>1, <2>2, ZenonT(20)
<1> HIDE DEF S
<1>2. \A x \in S : (\A y \in S : x >= y) <=> x = b
  BY <1>1, SMTT(20)
<1>3. \E x \in S : \A y \in S : x >= y
  BY <1>1, <1>2, SMTT(20)
<1>4. Max(S) \in S /\ \A y \in S : Max(S) >= y
  BY <1>3, ZenonT(20) DEF Max
<1> QED
  BY <1>2, <1>4, ZenonT(20) DEF S

\* What commit() makes of the segments a..b.
Prolonged(v, a, b, n, segs, all) ==
  \/ all = segs /\ n <= b /\ segs # {}
  \/ all = {v} \X (a..n) /\ n = b + 1 /\ segs # {}
  \/ all = {v} \X (n..n) /\ segs = {}

\* commit(): a segment right after the last one, or the first of all, prolongs
\* the stretch; one that is there already, or was skipped, changes nothing.
LEMMA CommitStretch ==
  ASSUME Sizes, NEW v, NEW a \in Nat, NEW b \in Nat, NEW n \in Nat, NEW segs,
         segs = {v} \X (a..b), ~Gap(segs, n),
         NEW new, new = IF Earlier(segs, n) THEN {} ELSE {<<v, n>>}
  PROVE  Prolonged(v, a, b, n, segs, segs \cup new)
<1> USE DEF Prolonged
<1>1. CASE segs = {}
  <2>1. ~Earlier(segs, n)
    BY <1>1, ZenonT(20) DEF Earlier
  <2>2. {v} \X (n..n) = {<<v, n>>}
    BY SMTT(20)
  <2> QED
    BY <1>1, <2>1, <2>2, ZenonT(20)
<1>2. CASE segs # {}
  <2>1. a <= b
    BY <1>2, SMTT(20)
  <2>2. Max({s[2] : s \in segs}) = b
    BY <2>1, MaxOfStretch, ZenonT(20)
  <2>3. n <= b + 1
    BY <1>2, <2>2, SMTT(20) DEF Gap
  <2>4. CASE n = b + 1
    <3>1. ~Earlier(segs, n)
      BY <2>2, <2>4, SMTT(20) DEF Earlier
    <3>2. segs \cup {<<v, n>>} = {v} \X (a..n)
      <4>1. a..n = (a..b) \cup {n}
        BY <2>1, <2>4, SMTT(20)
      <4>2. \A x : x \in {v} \X ((a..b) \cup {n}) <=> x \in ({v} \X (a..b)) \cup {<<v, n>>}
        BY SMTT(20)
      <4> QED
        BY <4>1, <4>2, SMTT(20)
    <3> QED
      BY <1>2, <2>4, <3>1, <3>2, ZenonT(20)
  <2>5. CASE n <= b
    <3>1. CASE Earlier(segs, n)
      BY <1>2, <2>5, <3>1, ZenonT(20)
    <3>2. CASE ~Earlier(segs, n)
      <4>1. PICK s \in segs : s[2] = n
        BY <1>2, <2>2, <2>5, <3>2, ZenonT(20) DEF Earlier
      <4>2. s = <<v, n>>
        BY <4>1, SMTT(20)
      <4> QED
        BY <1>2, <2>5, <3>2, <4>1, <4>2, ZenonT(20)
    <3> QED
      BY <3>1, <3>2
  <2>6. n = b + 1 \/ n <= b
    BY <2>3, SMTT(20)
  <2> QED
    BY <2>4, <2>5, <2>6, ZenonT(20)
<1> QED
  BY <1>1, <1>2

\* commit() of the next segment of a recording keeps it without a gap.
LEMMA CommitLive ==
  ASSUME Sizes, NEW v, NEW segs, NEW n \in Nat, Stretch(TRUE, v, segs), ~Gap(segs, n)
  PROVE  Stretch(TRUE, v, segs \cup (IF Earlier(segs, n) THEN {} ELSE {<<1, n>>}))
<1> DEFINE new == IF Earlier(segs, n) THEN {} ELSE {<<1, n>>}
<1>1. PICK a, b \in Nat : segs = {1} \X (a..b)
  BY ZenonT(20) DEF Stretch
<1>2. \/ segs \cup new = segs
      \/ segs \cup new = {1} \X (a..n)
      \/ segs \cup new = {1} \X (n..n)
  <2>1. Prolonged(1, a, b, n, segs, segs \cup new)
    <3>1. new = IF Earlier(segs, n) THEN {} ELSE {<<1, n>>}
      BY ZenonT(20)
    <3> HIDE DEF new
    <3> QED
      BY <1>1, <3>1, CommitStretch, ZenonT(20)
  <2> QED
    BY <2>1, ZenonT(20) DEF Prolonged
<1> HIDE DEF new
<1>3. \E c, d \in Nat : segs \cup new = {1} \X (c..d)
  BY <1>1, <1>2, ZenonT(20)
<1>4. Stretch(TRUE, v, segs \cup new)
  BY <1>3, ZenonT(20) DEF Stretch
<1> QED
  BY <1>4, ZenonT(20) DEF new

\* commit() of the next segment of a finite presentation adds the one after the
\* last, or finds it there.
LEMMA CommitFinite ==
  ASSUME Sizes, NEW v, NEW segs, NEW n \in Nat, Stretch(FALSE, v, segs),
         Reached(v, n, segs), n <= Last, ~Gap(segs, n)
  PROVE  LET all == segs \cup (IF Earlier(segs, n) THEN {} ELSE {<<v, n>>})
         IN  Stretch(FALSE, v, all) /\ Reached(v, n + 1, all)
<1> DEFINE new == IF Earlier(segs, n) THEN {} ELSE {<<v, n>>}
           all == segs \cup new
<1>0. Last \in Nat /\ MaxVersion \in Nat
  BY DEF Sizes
<1>1. PICK b \in 0..Last : segs = {v} \X (1..b)
  BY ZenonT(20) DEF Stretch
<1>2. v \in 1..MaxVersion /\ n \in 1..(Last + 1) /\ {v} \X (1..(n - 1)) \subseteq segs
  BY ZenonT(20) DEF Reached
<1>3. b \in Nat /\ 1 \in Nat
  BY <1>0, <1>1, SMTT(20)
<1>4. \/ all = segs /\ n <= b
      \/ all = {v} \X (1..n) /\ n = b + 1
      \/ all = {v} \X (n..n) /\ segs = {}
  <2>1. Prolonged(v, 1, b, n, segs, segs \cup new)
    <3>1. new = IF Earlier(segs, n) THEN {} ELSE {<<v, n>>}
      BY ZenonT(20)
    <3> HIDE DEF new, all
    <3> QED
      BY <1>1, <1>3, <3>1, CommitStretch, ZenonT(20)
  <2> QED
    BY <2>1, ZenonT(20) DEF Prolonged
<1> HIDE DEF new, all
<1>5. \E c \in 0..Last : all = {v} \X (1..c) /\ n <= c
  <2>1. CASE all = segs /\ n <= b
    BY <1>1, <2>1, ZenonT(20)
  <2>2. n \in 0..Last /\ n <= n
    BY <1>0, <1>2, SMTT(20)
  <2>3. CASE all = {v} \X (1..n)
    BY <2>2, <2>3, ZenonT(20)
  <2>4. CASE all = {v} \X (n..n) /\ segs = {}
    <3>1. n = 1
      <4>1. ASSUME n # 1 PROVE FALSE
        <5>1. <<v, 1>> \in {v} \X (1..(n - 1))
          BY <1>2, <4>1, SMTT(20)
        <5> QED
          BY <1>2, <2>4, <5>1, ZenonT(20)
      <4> QED
        BY <4>1, ZenonT(20)
    <3>2. all = {v} \X (1..n)
      BY <2>4, <3>1, ZenonT(20)
    <3> QED
      BY <2>3, <3>2
  <2> QED
    BY <1>4, <2>1, <2>3, <2>4, ZenonT(20)
<1>6. PICK c \in 0..Last : all = {v} \X (1..c) /\ n <= c
  BY <1>5, ZenonT(20)
<1>7. Stretch(FALSE, v, all)
  BY <1>2, <1>6, ZenonT(20) DEF Stretch
<1>8. Reached(v, n + 1, all)
  <2>1. n + 1 \in 1..(Last + 1) /\ n + 1 - 1 = n
    BY <1>0, <1>2, SMTT(20)
  <2>2. {v} \X (1..n) \subseteq all
    <3>1. \A i \in 1..n : i \in 1..c
      BY <1>0, <1>6, SMTT(20)
    <3> QED
      BY <1>6, <3>1, SMTT(20)
  <2> DEFINE next == n + 1
             before == next - 1
  <2>3. before = n /\ next \in 1..(Last + 1)
    BY <2>1, SMTT(20)
  <2> HIDE DEF before
  <2>4. {v} \X (1..before) \subseteq all
    BY <2>2, <2>3, ZenonT(20)
  <2> HIDE DEF next
  <2>5. Reached(v, next, all)
    BY <1>2, <2>3, <2>4, ZenonT(20) DEF Reached, before
  <2> QED
    BY <2>5, ZenonT(20) DEF next
<1> QED
  BY <1>7, <1>8, ZenonT(20) DEF all, new

\* MediaJob::commit(): the next segment is recorded, refused or there already.
LEMMA CommitSegmentKeeps ==
  ASSUME Sizes, MediaInv, CommitSegment
  PROVE  MediaInv'
<1> DEFINE n == worker.next
           new == IF Earlier(worker.had, n) THEN {} ELSE {<<worker.manifest, n>>}
<1>0. /\ worker.pc = "commit" /\ UNCHANGED <<fs, task, server, rest>>
      /\ task \in TaskSet /\ ctl \in ControlSet /\ worker \in WorkerSet /\ db \in RowSet
      /\ fs \in DiskSet /\ server \in ServerSet /\ rest \in Scenario /\ rest.live \in BOOLEAN
  BY ZenonT(20) DEF MediaInv, Types, CommitSegment, At, Idle, Scenario
<1>1. CASE Gap(worker.had, n)
  <2>1. Throw /\ UNCHANGED db
    BY <1>1, ZenonT(20) DEF CommitSegment
  <2> QED
    BY <1>0, <2>1, ThrowKeeps, ZenonT(20)
<1>2. CASE ~Gap(worker.had, n)
  <2>1. /\ db' = [db EXCEPT !.segs = @ \cup new]
        /\ worker' = [worker EXCEPT !.pc = "fetch", !.next = n + 1, !.had = @ \cup new]
        /\ UNCHANGED ctl
    BY <1>2, ZenonT(20) DEF CommitSegment
  <2>2. worker.had = db.segs /\ <<worker.manifest, n>> \in fs.cache
        /\ n \in Nat /\ n + 1 \in Nat /\ worker.manifest \in Nat
    BY <1>0, SMTT(20) DEF MediaInv, Cached, Consumed, WorkerSet
  <2>3. /\ new \subseteq fs.cache /\ new \in Numbers
        /\ db.segs \cup new \in Numbers /\ "fetch" \in Pc
    <3>1. fs.cache \in Numbers /\ db.segs \in Numbers
      BY <1>0, SMTT(20) DEF DiskSet, RowSet
    <3>2. new \subseteq fs.cache
      BY <2>2, ZenonT(20)
    <3> HIDE DEF new
    <3> QED
      BY <3>1, <3>2, SMTT(20) DEF Numbers, Pc, Early
  <2>4. /\ rest.live => Stretch(rest.live, db.manifest, db.segs \cup new) /\ worker.manifest = 1
        /\ ~rest.live => /\ Stretch(rest.live, db.manifest, db.segs \cup new)
                         /\ worker.manifest = db.manifest
                         /\ Reached(db.manifest, n + 1, db.segs \cup new)
    <3>1. CASE rest.live
      <4>1. Stretch(TRUE, db.manifest, db.segs) /\ worker.manifest = 1
        BY <1>0, <3>1, ZenonT(20) DEF MediaInv, Consumed
      <4>2. Stretch(TRUE, db.manifest, db.segs \cup new)
        BY <1>2, <2>2, <4>1, CommitLive, ZenonT(20)
      <4> QED
        BY <1>0, <3>1, <4>1, <4>2, ZenonT(20)
    <3>2. CASE ~rest.live
      <4>1. /\ Stretch(FALSE, db.manifest, db.segs) /\ worker.manifest = db.manifest
            /\ Reached(db.manifest, n, db.segs) /\ n <= Last
        BY <1>0, <3>2, ZenonT(20) DEF MediaInv, Consumed
      <4>2. LET all == db.segs \cup new
            IN  Stretch(FALSE, db.manifest, all) /\ Reached(db.manifest, n + 1, all)
        BY <1>2, <2>2, <4>1, CommitFinite, ZenonT(20)
      <4> QED
        BY <1>0, <3>2, <4>1, <4>2, ZenonT(20)
    <3> QED
      BY <1>0, <3>1, <3>2, ZenonT(20)
  <2> HIDE DEF new, n
  <2>5. /\ db' \in RowSet /\ db'.segs = db.segs \cup new /\ db'.manifest = db.manifest
        /\ db'.pub = db.pub /\ db'.path = db.path /\ db'.digest = db.digest
    BY <1>0, <2>1, <2>3, ZenonT(20) DEF RowSet
  <2>6. /\ worker' \in WorkerSet /\ worker'.pc = "fetch" /\ worker'.next = n + 1
        /\ worker'.had = db'.segs /\ worker'.manifest = worker.manifest
    BY <1>0, <2>1, <2>2, <2>3, <2>5, ZenonT(20) DEF WorkerSet
  <2> USE DEF MediaInv, Attached, Published, Early, Late
  <2>7. Types'
    BY <1>0, <2>1, <2>5, <2>6, ZenonT(20) DEF Types
  <2>8. Attached' /\ Published'
    BY <1>0, <2>1, <2>5, <2>6, SMTT(20)
  <2>9. Owned'
    BY <1>0, <2>1, <2>5, <2>6, SMTT(20) DEF Owned
  <2>10. Cached'
    BY <1>0, <2>3, <2>5, <2>6, SMTT(20) DEF Cached
  <2>11. Consumed'
    BY <1>0, <2>4, <2>5, <2>6, ZenonT(20) DEF Consumed
  <2>12. Finished'
    BY <1>0, <2>1, <2>5, <2>6, SMTT(20) DEF Finished
  <2> QED
    BY <2>7, <2>8, <2>9, <2>10, <2>11, <2>12
<1> QED
  BY <1>1, <1>2

\* Spending a bound changes nothing else.
LEMMA SpendKeeps ==
  ASSUME rest \in Scenario, NEW bound \in {"starts", "stops"}, Spend(bound)
  PROVE  /\ rest' \in Scenario /\ rest'.live = rest.live /\ rest'.took = rest.took
         /\ rest'.orphan = rest.orphan /\ rest'.died = rest.died
  BY SMTT(40) DEF Scenario, Spend

\* start(): a worker begins, or the task fails at once.
LEMMA StartMediaKeeps ==
  ASSUME Sizes, MediaInv, StartMedia
  PROVE  MediaInv'
<1> DEFINE path == OutputName(task, db, fs)
<1>0. /\ task.place = "waiting" /\ UNCHANGED <<db, fs, server>>
      /\ task \in TaskSet /\ ctl \in ControlSet /\ worker \in WorkerSet /\ db \in RowSet
      /\ fs \in DiskSet /\ server \in ServerSet
  BY ZenonT(20) DEF MediaInv, Types, StartMedia
<1>1. /\ rest' \in Scenario /\ rest'.live = rest.live /\ rest'.took = rest.took
      /\ rest'.orphan = rest.orphan
  BY SpendKeeps, ZenonT(20) DEF StartMedia, MediaInv, Types
<1>2. worker.pc = "none" /\ ~ctl.on /\ task.stop = "no" /\ (task.finish => rest.live)
      /\ ctl.state # "complete"
  BY <1>0, SMTT(20) DEF MediaInv, Attached
<1>3. CASE path \notin Paths
  <2>1. task' = [task EXCEPT !.place = "failed", !.snap = "error"] /\ UNCHANGED <<ctl, worker>>
    BY <1>3, ZenonT(20) DEF StartMedia
  <2>2. /\ task' \in TaskSet /\ task'.place = "failed" /\ task'.stop = task.stop
        /\ task'.path = task.path /\ task'.finish = task.finish
    <3>1. "failed" \in {"waiting", "active", "complete", "failed", "removed"} /\ "error" \in Snap
      BY ZenonT(20) DEF Snap
    <3> QED
      BY <1>0, <2>1, <3>1, ZenonT(20) DEF TaskSet
  <2> HIDE DEF path
  <2> USE DEF MediaInv, Attached, Published, Early, Late
  <2>3. Types'
    BY <1>0, <1>1, <2>1, <2>2, ZenonT(20) DEF Types
  <2>4. Attached'
    BY <1>0, <1>1, <1>2, <2>1, <2>2, SMTT(20)
  <2>5. Published'
    BY <1>0, <1>1, <1>2, <2>1, <2>2, SMTT(20)
  <2>6. Owned' /\ Cached'
    BY <1>0, <1>1, <1>2, <2>1, <2>2, SMTT(20) DEF Owned, Cached
  <2>7. Consumed' /\ Finished'
    BY <1>0, <1>1, <1>2, <2>1, <2>2, SMTT(20) DEF Consumed, Finished
  <2> QED
    BY <2>3, <2>4, <2>5, <2>6, <2>7
<1>4. CASE path \in Paths
  <2>1. /\ task' = [task EXCEPT !.place = "active", !.path = path, !.snap = "probing",
                                !.finish = FALSE]
        /\ ctl' = [NoControl EXCEPT !.on = TRUE, !.finish = task.finish, !.state = "probing"]
        /\ worker' = [NoWorker EXCEPT !.pc = "open", !.identity = task.identity]
    BY <1>4, ZenonT(20) DEF StartMedia
  <2> HIDE DEF path
  <2>2. /\ task' \in TaskSet /\ task'.place = "active" /\ task'.stop = task.stop
        /\ task'.path = path /\ task'.finish = FALSE
    <3>1. "active" \in {"waiting", "active", "complete", "failed", "removed"} /\ "probing" \in Snap
      BY ZenonT(20) DEF Snap
    <3> QED
      BY <1>0, <1>4, <2>1, <3>1, ZenonT(20) DEF TaskSet
  <2>3. /\ ctl' \in ControlSet /\ ctl'.on /\ ctl'.finish = task.finish /\ ~ctl'.done
        /\ ctl'.state = "probing"
    <3>1. task.finish \in BOOLEAN /\ "probing" \in Snap
      BY <1>0, SMTT(20) DEF TaskSet, Snap
    <3>2. ctl' = [on |-> TRUE, cancel |-> FALSE, finish |-> task.finish, done |-> FALSE,
                  state |-> "probing"]
      BY <2>1, ZenonT(20) DEF NoControl
    <3> QED
      BY <3>1, <3>2, ZenonT(20) DEF ControlSet
  <2>4. worker' \in WorkerSet /\ worker'.pc = "open"
    <3>1. task.identity \in 0..2 /\ "open" \in Pc /\ {} \in Numbers /\ 0 \in Nat
      BY <1>0, SMTT(20) DEF TaskSet, Pc, Numbers
    <3>2. worker' = [pc |-> "open", next |-> 0, manifest |-> 0, had |-> {},
                     identity |-> task.identity, staged |-> {}]
      BY <2>1, ZenonT(20) DEF NoWorker
    <3> QED
      BY <3>1, <3>2, ZenonT(20) DEF WorkerSet
  <2> USE DEF MediaInv, Attached, Published, Early, Late
  <2>5. Types'
    BY <1>0, <1>1, <2>2, <2>3, <2>4, ZenonT(20) DEF Types
  <2>6. Attached'
    BY <1>0, <1>1, <1>2, <2>2, <2>3, <2>4, ZenonT(20)
  <2>7. Published'
    BY <1>0, <1>1, <1>2, <2>2, <2>4, SMTT(20)
  <2>8. Owned' /\ Cached'
    BY <1>0, <1>1, <1>2, <2>2, <2>4, SMTT(20) DEF Owned, Cached
  <2>9. Consumed'
    BY <1>0, <1>1, <1>2, <2>4, SMTT(20) DEF Consumed
  <2>10. Finished'
    BY <1>0, <1>1, <1>2, <2>3, <2>4, SMTT(20) DEF Finished
  <2> QED
    BY <2>5, <2>6, <2>7, <2>8, <2>9, <2>10
<1> QED
  BY <1>3, <1>4

\* The engine lets a task go: it waits, it ended, or it is removed with its
\* state (Store::discard()).
LEMMA SettleKeeps ==
  ASSUME Sizes, MediaInv, worker.pc \in {"none", "end"},
         NEW t \in TaskSet, Settle(t), t.place # "active", t.stop = "no", t.path = task.path,
         t.finish => rest.live,
         ctl' \in ControlSet, ~ctl'.on, ~ctl'.done, ctl'.state # "complete",
         ctl'.finish => rest.live,
         worker' \in WorkerSet, worker'.pc = "none", UNCHANGED server,
         rest' \in Scenario, rest'.live = rest.live, rest'.took = rest.took,
         rest'.orphan = rest.orphan
  PROVE  MediaInv'
<1>0. /\ task \in TaskSet /\ ctl \in ControlSet /\ worker \in WorkerSet /\ db \in RowSet
      /\ fs \in DiskSet /\ server \in ServerSet /\ rest \in Scenario /\ task' = t
      /\ rest.live \in BOOLEAN
  BY ZenonT(20) DEF MediaInv, Types, Settle, Scenario
<1>1. CASE t.place # "removed"
  <2>1. UNCHANGED <<db, fs>>
    BY <1>1, ZenonT(20) DEF Settle
  <2> USE DEF MediaInv, Attached, Published, Early, Late
  <2>2. Types'
    BY <1>0, <2>1, ZenonT(20) DEF Types
  <2>3. Attached'
    BY <1>0, <1>1, <2>1, ZenonT(20)
  <2>4. Published'
    <3> HIDE DEF Published
    <3> QED
      BY <2>1, IdlePublished, Zenon
  <2>5. Owned' /\ Cached'
    BY <1>0, <2>1, SMTT(20) DEF Owned, Cached
  <2>6. Consumed'
    <3> HIDE DEF Published, Attached
    <3> QED
      BY <2>1, IdleConsumed, Zenon
  <2>7. Finished'
    BY <1>0, <2>1, SMTT(20) DEF Finished
  <2> QED
    BY <2>2, <2>3, <2>4, <2>5, <2>6, <2>7
<1>2. CASE t.place = "removed"
  <2>1. db' = NoRows /\ fs' = Discarded(db, fs)
    BY <1>2, ZenonT(20) DEF Settle
  <2>2. /\ db' \in RowSet /\ ~db'.pub /\ db'.path \notin Paths /\ db'.segs = {}
        /\ db'.manifest = 0
    <3>1. 0 \in Nat /\ 0 \in 0..2 /\ 0 \in 0..MaxPath /\ {} \in Numbers /\ NoFile \in File
          /\ 0 \notin Paths
      BY Kinds, SMTT(20) DEF Sizes, Numbers, Paths
    <3> QED
      BY <2>1, <3>1, ZenonT(20) DEF NoRows, RowSet
  <2>3. /\ fs' \in DiskSet /\ fs'.cache = {}
        /\ \A p \in Paths : fs'.staging[p] = IF db.pub /\ p = db.path THEN NoFile ELSE fs.staging[p]
    <3> DEFINE staging == IF db.pub THEN [fs.staging EXCEPT ![db.path] = NoFile] ELSE fs.staging
    <3>1. fs' = [fs EXCEPT !.cache = {}, !.staging = staging]
      BY <2>1, ZenonT(20) DEF Discarded
    <3>2. staging \in [Paths -> File] /\ {} \in Numbers
      <4>1. fs.staging \in [Paths -> File] /\ {} \in Numbers
        BY <1>0, SMTT(20) DEF DiskSet, Numbers
      <4>2. db.pub => db.path \in Paths
        BY ZenonT(20) DEF MediaInv, Published
      <4>3. db.pub => [fs.staging EXCEPT ![db.path] = NoFile] \in [Paths -> File]
        BY <4>1, <4>2, Kinds, SMTT(20)
      <4> QED
        BY <4>1, <4>3, ZenonT(20)
    <3>3. \A p \in Paths : staging[p] = IF db.pub /\ p = db.path THEN NoFile ELSE fs.staging[p]
      BY <1>0, SMTT(20) DEF DiskSet
    <3> HIDE DEF staging
    <3>4. fs' \in DiskSet /\ fs'.cache = {} /\ fs'.staging = staging
      BY <1>0, <3>1, <3>2, ZenonT(20) DEF DiskSet
    <3> QED
      BY <3>3, <3>4, ZenonT(20)
  <2> USE DEF MediaInv, Attached, Published, Early, Late
  <2>4. Types'
    BY <1>0, <2>2, <2>3, ZenonT(20) DEF Types
  <2>5. Attached'
    BY <1>0, <1>2, <2>1, <2>3, ZenonT(20)
  <2>6. Published'
    BY <1>0, <2>2, SMTT(20)
  <2>7. Owned'
    BY <1>0, <2>2, <2>3, SMTT(20) DEF Owned
  <2>8. Cached'
    BY <1>0, <2>2, SMTT(20) DEF Cached
  <2>9. Consumed'
    <3>1. Stretch(rest.live, 0, {})
      BY <1>0, Stretches, ZenonT(20)
    <3> QED
      BY <1>0, <2>2, <3>1, SMTT(20) DEF Consumed
  <2>10. Finished'
    BY <1>0, <2>2, SMTT(20) DEF Finished
  <2> QED
    BY <2>4, <2>5, <2>6, <2>7, <2>8, <2>9, <2>10
<1> QED
  BY <1>1, <1>2

\* What workerDone() and a stop without a worker make of the task.
LEMMA TaskDone ==
  ASSUME NEW t \in TaskSet
  PROVE  /\ t.stop # "no" => LET d == StopDone(t)
                             IN  /\ d \in TaskSet /\ d.stop = "no" /\ d.path = t.path
                                 /\ d.finish = t.finish
                                 /\ d.place = IF t.stop = "pause" THEN "waiting" ELSE "removed"
         /\ LET d == WorkerDone(t)
            IN  /\ d \in TaskSet /\ d.stop = "no" /\ d.path = t.path /\ d.finish = t.finish
                /\ d.place \in {"waiting", "complete", "failed", "removed"}
                /\ t.stop = "no" => d.place \in {"waiting", "complete", "failed"}
                /\ t.stop # "no" => d.place \in {"waiting", "removed"}
<1>1. ASSUME t.stop # "no"
      PROVE  LET d == StopDone(t)
             IN  /\ d \in TaskSet /\ d.stop = "no" /\ d.path = t.path /\ d.finish = t.finish
                 /\ d.place = IF t.stop = "pause" THEN "waiting" ELSE "removed"
  <2> DEFINE place == IF t.stop = "pause" THEN "waiting" ELSE "removed"
  <2>1. StopDone(t) = [t EXCEPT !.stop = "no", !.place = place]
    BY ZenonT(20) DEF StopDone
  <2>2. place \in {"waiting", "active", "complete", "failed", "removed"}
        /\ "no" \in {"no", "pause", "remove"}
    BY ZenonT(20)
  <2> HIDE DEF place
  <2>3. /\ StopDone(t) \in TaskSet /\ StopDone(t).stop = "no" /\ StopDone(t).path = t.path
        /\ StopDone(t).finish = t.finish /\ StopDone(t).place = place
    BY <2>1, <2>2, ZenonT(20) DEF TaskSet
  <2> QED
    BY <2>3, ZenonT(20) DEF place
<1>2. CASE t.stop # "no"
  <2>1. WorkerDone(t) = StopDone(t)
    BY <1>2, ZenonT(20) DEF WorkerDone
  <2> QED
    BY <1>1, <1>2, <2>1, ZenonT(20)
<1>3. CASE t.stop = "no"
  <2>1. PICK place \in {"waiting", "complete", "failed"} :
          WorkerDone(t) = [t EXCEPT !.place = place]
    BY <1>3, SMTT(20) DEF WorkerDone
  <2>2. LET d == WorkerDone(t)
        IN  /\ d \in TaskSet /\ d.stop = "no" /\ d.path = t.path /\ d.finish = t.finish
            /\ d.place = place
    BY <1>3, <2>1, SMTT(20) DEF TaskSet
  <2> QED
    BY <1>3, <2>1, <2>2, ZenonT(20)
<1> QED
  BY <1>1, <1>2, <1>3, ZenonT(20)

\* poll(): the snapshot, and the end of the worker.
LEMMA PollKeeps ==
  ASSUME Sizes, MediaInv, Poll
  PROVE  MediaInv'
<1> DEFINE t == [task EXCEPT !.snap = ctl.state]
<1>0. /\ task \in TaskSet /\ ctl \in ControlSet /\ worker \in WorkerSet /\ db \in RowSet
      /\ fs \in DiskSet /\ server \in ServerSet /\ rest \in Scenario
      /\ UNCHANGED <<server, rest>>
  BY ZenonT(20) DEF MediaInv, Types, Poll
<1>1. t \in TaskSet /\ t.stop = task.stop /\ t.path = task.path /\ t.finish = task.finish
      /\ t.place = task.place
  BY <1>0, SMTT(20) DEF TaskSet, ControlSet
<1>2. CASE ctl.done
  <2>1. Settle(WorkerDone(t)) /\ ctl' = NoControl /\ worker' = NoWorker
    BY <1>2, ZenonT(20) DEF Poll
  <2> HIDE DEF t
  <2>2. /\ worker.pc = "end" /\ (task.finish => rest.live)
    BY <1>2, ZenonT(20) DEF MediaInv, Attached
  <2> DEFINE d == WorkerDone(t)
  <2>3. d \in TaskSet /\ d.stop = "no" /\ d.path = t.path /\ d.finish = t.finish
        /\ d.place \in {"waiting", "complete", "failed", "removed"}
    BY <1>1, TaskDone, ZenonT(20)
  <2>4. /\ ctl' \in ControlSet /\ ~ctl'.on /\ ~ctl'.done /\ ctl'.state # "complete"
        /\ ~ctl'.finish
    BY <2>1, ZenonT(20) DEF NoControl, ControlSet, Snap
  <2>5. worker' \in WorkerSet /\ worker'.pc = "none"
    BY <2>1, SMTT(20) DEF NoWorker, WorkerSet, Pc, Numbers
  <2>6. Settle(d)
    BY <2>1
  <2> HIDE DEF d
  <2>7. d.place # "active" /\ d.path = task.path /\ (d.finish => rest.live)
    BY <1>1, <2>2, <2>3, ZenonT(20)
  <2>8. /\ rest' \in Scenario /\ rest'.live = rest.live /\ rest'.took = rest.took
        /\ rest'.orphan = rest.orphan
    BY <1>0, ZenonT(20)
  <2> QED
    BY <1>0, <2>2, <2>3, <2>4, <2>5, <2>6, <2>7, <2>8, SettleKeeps, ZenonT(40)
<1>3. CASE ~ctl.done
  <2>1. task' = t /\ UNCHANGED <<ctl, worker, db, fs>>
    BY <1>3, ZenonT(20) DEF Poll
  <2> HIDE DEF t
  <2> USE DEF MediaInv, Attached, Published, Early, Late
  <2>2. Types'
    BY <1>0, <1>1, <2>1, ZenonT(20) DEF Types
  <2>3. Attached' /\ Published'
    BY <1>0, <1>1, <2>1, SMTT(20)
  <2>4. Owned' /\ Cached'
    BY <1>0, <1>1, <2>1, SMTT(20) DEF Owned, Cached
  <2>5. Consumed'
    <3> HIDE DEF Attached, Published
    <3> QED
      BY <1>0, <2>1, ZenonT(20) DEF Consumed
  <2>6. Finished'
    <3> HIDE DEF Attached, Published
    <3>1. task'.path = task.path
      BY <1>1, <2>1, Zenon
    <3> QED
      BY <1>0, <2>1, <3>1, ZenonT(20) DEF Finished
  <2> QED
    BY <2>2, <2>3, <2>4, <2>5, <2>6
<1> QED
  BY <1>2, <1>3

\* stop(): asks the worker to end, or is done at once.
LEMMA StopMediaKeeps ==
  ASSUME Sizes, MediaInv, NEW why \in {"pause", "remove"}, StopMedia(why)
  PROVE  MediaInv'
<1> DEFINE t == [task EXCEPT !.stop = why]
<1>0. /\ task \in TaskSet /\ ctl \in ControlSet /\ worker \in WorkerSet /\ db \in RowSet
      /\ fs \in DiskSet /\ server \in ServerSet /\ rest \in Scenario
      /\ UNCHANGED <<worker, server>>
  BY ZenonT(20) DEF MediaInv, Types, StopMedia
<1>1. t \in TaskSet /\ t.stop = why /\ t.path = task.path /\ t.finish = task.finish
      /\ t.place = task.place
  BY <1>0, SMTT(20) DEF TaskSet
<1>2. /\ rest' \in Scenario /\ rest'.live = rest.live /\ rest'.took = rest.took
      /\ rest'.orphan = rest.orphan
  BY <1>0, SpendKeeps, ZenonT(20) DEF StopMedia
<1>3. CASE ctl.on
  <2>1. task' = t /\ ctl' = [ctl EXCEPT !.cancel = TRUE] /\ UNCHANGED <<db, fs>>
    BY <1>3, ZenonT(20) DEF StopMedia
  <2>2. /\ ctl' \in ControlSet /\ ctl'.cancel /\ ctl'.on = ctl.on /\ ctl'.done = ctl.done
        /\ ctl'.finish = ctl.finish /\ ctl'.state = ctl.state
    BY <1>0, <2>1, ZenonT(20) DEF ControlSet
  <2> HIDE DEF t
  <2> USE DEF MediaInv, Attached, Published, Early, Late
  <2>3. Types'
    BY <1>0, <1>1, <1>2, <2>1, <2>2, ZenonT(20) DEF Types
  <2>4. Attached'
    BY <1>0, <1>1, <1>2, <1>3, <2>1, <2>2, ZenonT(20)
  <2>5. Published'
    BY <1>0, <1>1, <1>2, <2>1, SMTT(20)
  <2>6. Owned' /\ Cached'
    BY <1>0, <1>1, <1>2, <2>1, SMTT(20) DEF Owned, Cached
  <2>7. Consumed' /\ Finished'
    BY <1>0, <1>1, <1>2, <2>1, <2>2, SMTT(20) DEF Consumed, Finished
  <2> QED
    BY <2>3, <2>4, <2>5, <2>6, <2>7
<1>4. CASE ~ctl.on
  <2>1. Settle(StopDone(t)) /\ UNCHANGED ctl
    BY <1>4, ZenonT(20) DEF StopMedia
  <2> HIDE DEF t
  <2> DEFINE d == StopDone(t)
  <2>2. d \in TaskSet /\ d.stop = "no" /\ d.path = t.path /\ d.finish = t.finish
        /\ d.place = IF t.stop = "pause" THEN "waiting" ELSE "removed"
    <3>1. t.stop # "no"
      BY <1>1, ZenonT(20)
    <3> QED
      BY <1>1, <3>1, TaskDone, ZenonT(20)
  <2>3. Settle(d)
    BY <2>1
  <2> HIDE DEF d
  <2>4. /\ worker.pc = "none" /\ (task.finish => rest.live) /\ (ctl.finish => rest.live)
        /\ ~ctl.done /\ ctl.state # "complete"
    BY <1>4, ZenonT(20) DEF MediaInv, Attached
  <2>5. /\ d.place # "active" /\ d.path = task.path /\ (d.finish => rest.live)
        /\ worker.pc \in {"none", "end"}
    BY <1>1, <2>2, <2>4, ZenonT(20)
  <2>6. /\ ctl' \in ControlSet /\ ~ctl'.on /\ ~ctl'.done /\ ctl'.state # "complete"
        /\ (ctl'.finish => rest.live) /\ worker' \in WorkerSet /\ worker'.pc = "none"
    BY <1>0, <1>4, <2>1, <2>4, ZenonT(20)
  <2> QED
    BY <1>0, <1>2, <2>2, <2>3, <2>5, <2>6, SettleKeeps, ZenonT(40)
<1> QED
  BY <1>3, <1>4

\* Engine::removeResult() of a media download.
LEMMA RemoveMediaResultKeeps ==
  ASSUME Sizes, MediaInv, RemoveMediaResult
  PROVE  MediaInv'
<1> DEFINE d == [task EXCEPT !.place = "removed"]
<1>0. /\ task \in TaskSet /\ ctl \in ControlSet /\ worker \in WorkerSet /\ rest \in Scenario
      /\ UNCHANGED <<ctl, worker, server>> /\ Settle(d) /\ task.place # "active"
  BY ZenonT(20) DEF MediaInv, Types, RemoveMediaResult
<1>1. d \in TaskSet /\ d.stop = task.stop /\ d.path = task.path /\ d.finish = task.finish
      /\ d.place = "removed"
  BY <1>0, SMTT(20) DEF TaskSet
<1>2. /\ rest' \in Scenario /\ rest'.live = rest.live /\ rest'.took = rest.took
      /\ rest'.orphan = rest.orphan
  BY <1>0, SpendKeeps, ZenonT(20) DEF RemoveMediaResult
<1> HIDE DEF d
<1>3. /\ worker.pc = "none" /\ ~ctl.on /\ (task.finish => rest.live) /\ (ctl.finish => rest.live)
      /\ ~ctl.done /\ ctl.state # "complete" /\ task.stop = "no"
  BY <1>0, ZenonT(20) DEF MediaInv, Attached
<1>4. /\ d.place # "active" /\ d.stop = "no" /\ (d.finish => rest.live)
      /\ worker.pc \in {"none", "end"}
  BY <1>1, <1>3, ZenonT(20)
<1>5. /\ ctl' \in ControlSet /\ ~ctl'.on /\ ~ctl'.done /\ ctl'.state # "complete"
      /\ (ctl'.finish => rest.live) /\ worker' \in WorkerSet /\ worker'.pc = "none"
  BY <1>0, <1>3, ZenonT(20)
<1> QED
  BY <1>0, <1>1, <1>2, <1>4, <1>5, SettleKeeps, ZenonT(40)

-----------------------------------------------------------------------------
(* The invariant.                                                          *)

\* A new task has no rows, no files and no worker.
LEMMA MediaInitInv ==
  ASSUME Sizes, MediaInit
  PROVE  MediaInv
<1>0. /\ rest \in Scenario /\ rest.live \in BOOLEAN /\ MaxPath \in Nat \ {0}
      /\ MaxVersion \in Nat \ {0}
  BY SMTT(20) DEF Sizes, Fresh, MediaInit, Scenario
<1>1. /\ task.place = "waiting" /\ task.stop = "no" /\ task.finish = FALSE /\ task \in TaskSet
  BY <1>0, SMTT(20) DEF MediaInit, NewMedia, TaskSet, Snap, Paths
<1>2. /\ ctl \in ControlSet /\ ~ctl.on /\ ~ctl.finish /\ ~ctl.done /\ ctl.state = "waiting"
  BY ZenonT(20) DEF MediaInit, NoControl, ControlSet, Snap
<1>3. worker \in WorkerSet /\ worker.pc = "none"
  BY SMTT(20) DEF MediaInit, NoWorker, WorkerSet, Pc, Numbers
<1>4. /\ db \in RowSet /\ ~db.pub /\ db.path \notin Paths /\ db.segs = {} /\ db.manifest = 0
  <2>1. 0 \in Nat /\ 0 \in 0..2 /\ 0 \in 0..MaxPath /\ {} \in Numbers /\ NoFile \in File
        /\ 0 \notin Paths
    BY <1>0, Kinds, SMTT(20) DEF Numbers, Paths
  <2> QED
    BY <2>1, ZenonT(20) DEF MediaInit, NoRows, RowSet
<1>5. fs \in DiskSet /\ \A p \in Paths : fs.staging[p] = NoFile
  BY Kinds, SMTT(20) DEF MediaInit, DiskSet, Numbers
<1>6. server \in ServerSet
  BY <1>0, SMTT(20) DEF MediaInit, ServerSet
<1>7. Types
  BY <1>0, <1>1, <1>2, <1>3, <1>4, <1>5, <1>6, ZenonT(20) DEF Types
<1>8. Attached
  BY <1>1, <1>2, <1>3, ZenonT(20) DEF Attached
<1>9. Published /\ Owned /\ Cached
  BY <1>3, <1>4, <1>5, SMTT(20) DEF Published, Owned, Cached, Early, Late
<1>10. Consumed
  BY <1>0, <1>3, <1>4, Stretches, SMTT(20) DEF Consumed
<1>11. Finished
  BY <1>2, <1>3, <1>4, SMTT(20) DEF Finished
<1> QED
  BY <1>7, <1>8, <1>9, <1>10, <1>11, ZenonT(20) DEF MediaInv

\* Every step keeps the invariant.
LEMMA MediaNextInv ==
  ASSUME Sizes, MediaInv, [MediaNext]_mediaVars
  PROVE  MediaInv'
<1>1. CASE WorkerStep
  BY <1>1, OpenJobKeeps, RecoverKeeps, ForgetStagingKeeps, ClearPublicationKeeps,
     OpenManifestKeeps, LeaveLoopKeeps, FetchSegmentKeeps, LeftWindowKeeps, CommitSegmentKeeps,
     StageBeginsKeeps, StageEndsKeeps, PrepareKeeps, PublishKeeps, UnlinkKeeps,
     CompleteSnapshotKeeps, RemoveCacheKeeps, RemoveRowsKeeps, EndWorkerKeeps, ZenonT(20)
     DEF WorkerStep
<1>2. CASE MediaNext /\ ~WorkerStep
  BY <1>2, StartMediaKeeps, PollKeeps, StopMediaKeeps, FinishRecordingKeeps,
     ChangeSelectionKeeps, ChangeNameKeeps, RetryMediaKeeps, RemoveMediaResultKeeps,
     FetchFailsKeeps, StageFailsKeeps, SourceChangesKeeps, UserRemovesKeeps, UserPlacesKeeps,
     MediaCrashKeeps, ZenonT(20) DEF MediaNext
<1>3. CASE UNCHANGED mediaVars
  <2>1. UNCHANGED <<task, ctl, worker, db, fs, server, rest>>
    BY <1>3, ZenonT(20) DEF mediaVars
  <2>2. Types' /\ Attached' /\ Owned' /\ Cached'
    BY <2>1, SMTT(20) DEF MediaInv, Types, Attached, Owned, Cached
  <2>3. Published'
    BY <2>1, SMTT(20) DEF MediaInv, Published
  <2>4. Consumed' /\ Finished'
    BY <2>1, SMTT(20) DEF MediaInv, Consumed, Finished
  <2> QED
    BY <2>2, <2>3, <2>4 DEF MediaInv
<1> QED
  BY <1>1, <1>2, <1>3

\* In every state the record of the publication, the cache, the staged file and
\* the output agree with each other and with what the worker is about to do.
THEOREM MediaInvariant ==
  ASSUME Sizes
  PROVE  MediaSpec => []MediaInv
<1>1. MediaInit => MediaInv
  BY MediaInitInv
<1>2. MediaInv /\ [MediaNext]_mediaVars => MediaInv'
  BY MediaNextInv
<1> QED
  BY <1>1, <1>2, PTL DEF MediaSpec

-----------------------------------------------------------------------------
(* Files.                                                                  *)

\* MediaPublication.cc and MediaJob::commit(): a download reported complete has
\* its output in place, and the output is every segment of one version of the
\* presentation, or a recording without a gap, whatever was interrupted on the
\* way and however many segments there are.
THEOREM PublishedWhole ==
  ASSUME Sizes
  PROVE  MediaSpec => []CompleteIsWhole
<1>1. MediaInv => CompleteIsWhole
  BY ZenonT(20) DEF MediaInv, Finished, CompleteIsWhole, Whole, Entire
<1> QED
  BY <1>1, MediaInvariant, PTL

\* Transport::get() before Store::commit(), and the cache before the rows in
\* complete(): what the database counts is in the cache when the next run
\* resumes, unless its publication is under way or the user took a file.
THEOREM SegmentsStored ==
  ASSUME Sizes
  PROVE  MediaSpec => []RecordedIsStored
<1>1. MediaInv => RecordedIsStored
  BY ZenonT(20) DEF MediaInv, Cached, RecordedIsStored
<1> QED
  BY <1>1, MediaInvariant, PTL

\* Store::discard(): a removed task leaves no rows, no cache and no staging file
\* behind, except when the process died while it was staging.
THEOREM RemovalClean ==
  ASSUME Sizes
  PROVE  MediaSpec => []RemovedLeavesNothing
<1>1. MediaInv => RemovedLeavesNothing
  <2> SUFFICES ASSUME MediaInv, task.place = "removed"
               PROVE  /\ db = NoRows /\ fs.cache = {}
                      /\ rest.orphan \/ \A p \in Paths : fs.staging[p] = NoFile
    BY ZenonT(20) DEF RemovedLeavesNothing
  <2>1. db = NoRows /\ fs.cache = {} /\ worker.pc = "none"
    BY ZenonT(20) DEF MediaInv, Attached
  <2>2. ~db.pub
    BY <2>1, ZenonT(20) DEF NoRows
  <2> QED
    BY <2>1, <2>2, ZenonT(20) DEF MediaInv, Owned
<1> QED
  BY <1>1, MediaInvariant, PTL

\* Which steps touch an output.
LEMMA OutputSteps ==
  ASSUME Types, [MediaNext]_mediaVars
  PROVE  fs'.out = fs.out \/ Publish \/ UserRemoves \/ UserPlaces
<1>1. fs \in DiskSet
  BY ZenonT(20) DEF Types
<1>2. ASSUME UNCHANGED fs PROVE fs'.out = fs.out
  BY <1>2, ZenonT(20)
<1>3. ASSUME NEW t, Settle(t) PROVE fs'.out = fs.out
  <2>1. UNCHANGED fs \/ fs' = Discarded(db, fs)
    BY <1>3, ZenonT(20) DEF Settle
  <2>2. ASSUME NEW c, NEW staging, fs' = [fs EXCEPT !.cache = c, !.staging = staging]
        PROVE  fs'.out = fs.out
    BY <1>1, <2>2, SMTT(20) DEF DiskSet
  <2> QED
    BY <1>2, <2>1, <2>2, ZenonT(20) DEF Discarded
<1>4. ASSUME NEW p, NEW f, fs' = [fs EXCEPT !.staging[p] = f] PROVE fs'.out = fs.out
  BY <1>1, <1>4, SMTT(20) DEF DiskSet
<1>5. ASSUME NEW c, fs' = [fs EXCEPT !.cache = c] PROVE fs'.out = fs.out
  BY <1>1, <1>5, SMTT(20) DEF DiskSet
<1>6. CASE ForgetStaging \/ StageBegins \/ StageEnds \/ StageFails \/ Unlink
  BY <1>2, <1>4, <1>6, ZenonT(20) DEF ForgetStaging, StageBegins, StageEnds, StageFails, Unlink
<1>7. CASE FetchSegment \/ RemoveCache
  BY <1>5, <1>7, ZenonT(20) DEF FetchSegment, RemoveCache
<1>8. CASE Poll \/ StopMedia("pause") \/ StopMedia("remove") \/ RemoveMediaResult
  BY <1>2, <1>3, <1>8, ZenonT(20) DEF Poll, StopMedia, RemoveMediaResult
<1>9. CASE \/ OpenJob \/ Recover \/ ClearPublication \/ OpenManifest \/ LeaveLoop \/ LeftWindow
           \/ CommitSegment \/ Prepare \/ CompleteSnapshot \/ RemoveRows \/ EndWorker
  BY <1>2, <1>9, ZenonT(20) DEF OpenJob, Recover, ClearPublication, OpenManifest, LeaveLoop,
     LeftWindow, CommitSegment, Prepare, CompleteSnapshot, RemoveRows, EndWorker
<1>10. CASE \/ StartMedia \/ FinishRecording \/ ChangeSelection \/ ChangeName \/ RetryMedia
            \/ FetchFails \/ SourceChanges \/ MediaCrash \/ UNCHANGED mediaVars
  BY <1>2, <1>10, ZenonT(20) DEF StartMedia, FinishRecording, ChangeSelection, ChangeName,
     RetryMedia, FetchFails, SourceChanges, MediaCrash, mediaVars
<1> QED
  BY <1>6, <1>7, <1>8, <1>9, <1>10, ZenonT(20) DEF MediaNext, WorkerStep

\* Muxer::publish() links, it does not rename: without allow-overwrite no step
\* changes a file that was there before, or one the task published earlier.
THEOREM FilesUntouched ==
  ASSUME Sizes
  PROVE  MediaSpec => UserFilesKept
<1> DEFINE Kept == \A p \in Paths :
             fs.out[p].kind \in {"foreign", "media"} /\ ~rest.overwrite
               => fs'.out[p] \in {fs.out[p], NoFile} /\ (fs'.out[p] = NoFile => fs.out[p] # Foreign)
<1>1. ASSUME MediaInv, [MediaNext]_mediaVars PROVE Kept
  <2> SUFFICES ASSUME NEW p \in Paths, fs.out[p].kind \in {"foreign", "media"}, ~rest.overwrite
               PROVE  fs'.out[p] \in {fs.out[p], NoFile}
                        /\ (fs'.out[p] = NoFile => fs.out[p] # Foreign)
    OBVIOUS
  <2>0. Types /\ fs \in DiskSet
    BY <1>1, ZenonT(20) DEF MediaInv, Types
  <2>1. fs.out[p] # NoFile
    BY Kinds, SMTT(20)
  <2>2. CASE fs'.out[p] = fs.out[p]
    BY <2>1, <2>2, ZenonT(20)
  <2>3. ASSUME NEW q \in Paths, NEW f, fs.out[q] = NoFile, fs' = [fs EXCEPT !.out[q] = f]
        PROVE  fs'.out[p] = fs.out[p]
    BY <2>0, <2>1, <2>3, SMTT(20) DEF DiskSet
  <2>4. CASE Publish
    <3>1. db.path \in Paths
      BY <1>1, <2>4, ZenonT(20) DEF MediaInv, Published, Publish, At
    <3>2. CASE fs.out[db.path] = NoFile
      <4>1. fs' = [fs EXCEPT !.out[db.path] = fs.staging[db.path]]
        BY <2>4, <3>2, ZenonT(20) DEF Publish, Linked
      <4> QED
        BY <2>2, <2>3, <3>1, <3>2, <4>1, ZenonT(20)
    <3>3. CASE fs.out[db.path] # NoFile
      BY <2>2, <2>4, <3>3, ZenonT(20) DEF Publish, Linked
    <3> QED
      BY <3>2, <3>3
  <2>5. CASE UserPlaces
    <3>1. fs.out[task.path] = NoFile /\ fs' = [fs EXCEPT !.out[task.path] = Foreign]
          /\ task.path \in Paths
      BY <2>0, <2>5, SMTT(20) DEF UserPlaces, Types, TaskSet
    <3> QED
      BY <2>2, <2>3, <3>1, ZenonT(20)
  <2>6. CASE UserRemoves
    <3>1. PICK q \in Paths :
            \/ fs.out[q].kind = "media" /\ fs' = [fs EXCEPT !.out[q] = NoFile]
            \/ fs.staging[q] # NoFile /\ fs' = [fs EXCEPT !.staging[q] = NoFile]
      BY <2>6, ZenonT(20) DEF UserRemoves
    <3>2. CASE fs' = [fs EXCEPT !.staging[q] = NoFile]
      <4>1. fs'.out = fs.out
        BY <2>0, <3>2, SMTT(20) DEF DiskSet
      <4> QED
        BY <2>2, <4>1, ZenonT(20)
    <3>3. CASE fs.out[q].kind = "media" /\ fs' = [fs EXCEPT !.out[q] = NoFile]
      <4>1. CASE p = q
        <5>1. fs'.out[p] = NoFile /\ fs.out[p] # Foreign
          BY <2>0, <3>3, <4>1, Kinds, SMTT(20) DEF DiskSet
        <5> QED
          BY <5>1, ZenonT(20)
      <4>2. CASE p # q
        <5>1. fs'.out[p] = fs.out[p]
          BY <2>0, <3>3, <4>2, SMTT(20) DEF DiskSet
        <5> QED
          BY <2>2, <5>1
      <4> QED
        BY <4>1, <4>2
    <3> QED
      BY <3>1, <3>2, <3>3, ZenonT(20)
  <2> QED
    BY <1>1, <2>0, <2>2, <2>4, <2>5, <2>6, OutputSteps, ZenonT(20)
<1>2. MediaInv /\ [MediaNext]_mediaVars => [Kept]_mediaVars
  BY <1>1
<1> HIDE DEF Kept
<1>3. MediaSpec => [][Kept]_mediaVars
  BY <1>2, MediaInvariant, PTL DEF MediaSpec
<1> QED
  BY <1>3 DEF Kept, UserFilesKept

\* Which steps touch the staging file a publication names.
LEMMA StagingSteps ==
  ASSUME MediaInv, [MediaNext]_mediaVars, db.pub
  PROVE  \/ fs'.staging = fs.staging \/ ForgetStaging \/ Publish \/ Unlink \/ UserRemoves
         \/ task'.place = "removed"
<1>0. fs \in DiskSet
  BY ZenonT(20) DEF MediaInv, Types
<1>1. worker.pc \notin {"stage", "staging"}
  BY ZenonT(20) DEF MediaInv, Published, Early
<1>2. ASSUME UNCHANGED fs PROVE fs'.staging = fs.staging
  BY <1>2, ZenonT(20)
<1>3. ASSUME NEW t, Settle(t) PROVE fs'.staging = fs.staging \/ task'.place = "removed"
  BY <1>3, ZenonT(20) DEF Settle
<1>4. ASSUME NEW c, fs' = [fs EXCEPT !.cache = c] PROVE fs'.staging = fs.staging
  BY <1>0, <1>4, SMTT(20) DEF DiskSet
<1>5. ASSUME NEW p, NEW f, fs' = [fs EXCEPT !.out[p] = f] PROVE fs'.staging = fs.staging
  BY <1>0, <1>5, SMTT(20) DEF DiskSet
<1>6. ~StageBegins /\ ~StageEnds /\ ~StageFails
  BY <1>1, ZenonT(20) DEF StageBegins, StageEnds, StageFails, At
<1>7. CASE FetchSegment \/ RemoveCache
  BY <1>4, <1>7, ZenonT(20) DEF FetchSegment, RemoveCache
<1>8. CASE Poll \/ StopMedia("pause") \/ StopMedia("remove") \/ RemoveMediaResult
  BY <1>2, <1>3, <1>8, ZenonT(20) DEF Poll, StopMedia, RemoveMediaResult
<1>9. CASE \/ OpenJob \/ Recover \/ ClearPublication \/ OpenManifest \/ LeaveLoop \/ LeftWindow
           \/ CommitSegment \/ Prepare \/ CompleteSnapshot \/ RemoveRows \/ EndWorker
  BY <1>2, <1>9, ZenonT(20) DEF OpenJob, Recover, ClearPublication, OpenManifest, LeaveLoop,
     LeftWindow, CommitSegment, Prepare, CompleteSnapshot, RemoveRows, EndWorker
<1>10. CASE \/ StartMedia \/ FinishRecording \/ ChangeSelection \/ ChangeName \/ RetryMedia
            \/ FetchFails \/ SourceChanges \/ MediaCrash \/ UNCHANGED mediaVars
  BY <1>2, <1>10, ZenonT(20) DEF StartMedia, FinishRecording, ChangeSelection, ChangeName,
     RetryMedia, FetchFails, SourceChanges, MediaCrash, mediaVars
<1>11. CASE UserPlaces
  BY <1>5, <1>11, ZenonT(20) DEF UserPlaces
<1> QED
  BY <1>6, <1>7, <1>8, <1>9, <1>10, <1>11, ZenonT(20) DEF MediaNext, WorkerStep

\* recoverPublication() resumes what finalize() recorded: the staged file a
\* publication names is given up only for the output it became, by removing the
\* task, or by the user.
THEOREM PublicationKept ==
  ASSUME Sizes
  PROVE  MediaSpec => PublicationResumes
<1> DEFINE Resumed == db.pub /\ fs.staging[db.path] = db.digest /\ fs'.staging[db.path] = NoFile
             => fs.out[db.path] = db.digest \/ fs'.out[db.path] = db.digest
                  \/ task'.place = "removed" \/ rest'.took
<1>1. ASSUME MediaInv, [MediaNext]_mediaVars PROVE Resumed
  <2> SUFFICES ASSUME db.pub, fs.staging[db.path] = db.digest, fs'.staging[db.path] = NoFile,
                      task'.place # "removed"
               PROVE  \/ fs.out[db.path] = db.digest \/ fs'.out[db.path] = db.digest
                      \/ rest'.took
    OBVIOUS
  <2>0. fs \in DiskSet /\ rest \in Scenario /\ db.path \in Paths /\ db.digest # NoFile
    BY <1>1, Kinds, ZenonT(20) DEF MediaInv, Types, Published
  <2>1. ~(fs'.staging = fs.staging)
    BY <2>0, ZenonT(20)
  <2>2. CASE ForgetStaging
    BY <1>1, <2>2, SMTT(20) DEF ForgetStaging, At, Idle, MediaInv, Published
  <2>3. CASE Unlink
    BY <1>1, <2>3, SMTT(20) DEF Unlink, At, MediaInv, Published, Late
  <2>4. CASE UserRemoves
    <3>1. rest' = [rest EXCEPT !.takes = @ - 1, !.took = TRUE]
      BY <2>4, ZenonT(20) DEF UserRemoves
    <3> QED
      BY <2>0, <3>1, ZenonT(20) DEF Scenario
  <2>5. CASE Publish
    <3>1. \/ fs' = [fs EXCEPT !.out[db.path] = fs.staging[db.path], !.staging[db.path] = NoFile]
          \/ fs' = [fs EXCEPT !.out[db.path] = fs.staging[db.path]]
          \/ fs' = fs
      BY <2>5, ZenonT(20) DEF Publish, Linked
    <3>2. fs'.out[db.path] = fs.staging[db.path]
      <4>1. CASE fs' = [fs EXCEPT !.out[db.path] = fs.staging[db.path],
                                  !.staging[db.path] = NoFile]
        BY <2>0, <4>1, SMTT(20) DEF DiskSet
      <4>2. CASE fs' = [fs EXCEPT !.out[db.path] = fs.staging[db.path]]
        BY <2>0, <4>2, SMTT(20) DEF DiskSet
      <4> QED
        BY <2>1, <3>1, <4>1, <4>2, ZenonT(20)
    <3> QED
      BY <3>2, ZenonT(20)
  <2> QED
    BY <1>1, <2>1, <2>2, <2>3, <2>4, <2>5, StagingSteps, ZenonT(20)
<1>2. MediaInv /\ [MediaNext]_mediaVars => [Resumed]_mediaVars
  BY <1>1
<1> HIDE DEF Resumed
<1>3. MediaSpec => [][Resumed]_mediaVars
  BY <1>2, MediaInvariant, PTL DEF MediaSpec
<1> QED
  BY <1>3 DEF Resumed, PublicationResumes

-----------------------------------------------------------------------------
(* MediaTask keeps the contract of a task.                                 *)

\* The worker's own steps are invisible to the engine.
LEMMA WorkerHidden ==
  ASSUME Types, WorkerStep \/ FetchFails \/ StageFails
  PROVE  /\ worker.pc # "none" /\ worker'.pc # "none" /\ UNCHANGED task
         /\ rest'.died = rest.died
<1>0. worker \in WorkerSet /\ rest \in Scenario
  BY ZenonT(20) DEF Types
<1>1. ASSUME NEW pc \in {"end", "recover", "manifest", "unlink", "link", "forget", "clear",
                         "stage", "commit", "prepare", "complete", "uncache", "unrecord"},
             Go(pc)
      PROVE  worker'.pc # "none"
  BY <1>0, <1>1, SMTT(20) DEF Go, WorkerSet
<1>2. ASSUME Throw PROVE worker'.pc # "none"
  BY <1>1, <1>2, ZenonT(20) DEF Throw
<1>3. UNCHANGED rest => rest'.died = rest.died
  BY ZenonT(20)
<1>4. CASE OpenJob \/ Recover \/ ForgetStaging \/ ClearPublication
  <2>1. CASE OpenJob
    <3>1. Throw \/ worker' = [worker EXCEPT !.pc = "recover", !.had = db'.segs]
      BY <2>1, ZenonT(20) DEF OpenJob
    <3>2. worker' = [worker EXCEPT !.pc = "recover", !.had = db'.segs] => worker'.pc = "recover"
      BY <1>0, ZenonT(20) DEF WorkerSet
    <3> QED
      BY <1>2, <1>3, <2>1, <3>1, <3>2, ZenonT(20) DEF OpenJob, At, Idle
  <2>2. CASE Recover
    <3>1. Recovery(db, fs) \in {"manifest", "unlink", "link", "forget"}
      BY SMTT(20) DEF Recovery
    <3>2. worker'.pc # "none"
      BY <1>1, <1>2, <2>2, <3>1, ZenonT(20) DEF Recover
    <3> QED
      BY <1>3, <2>2, <3>2, ZenonT(20) DEF Recover, At, Idle
  <2>3. CASE ForgetStaging \/ ClearPublication
    BY <1>1, <1>3, <2>3, ZenonT(20) DEF ForgetStaging, ClearPublication, At, Idle
  <2> QED
    BY <1>4, <2>1, <2>2, <2>3
<1>5. CASE OpenManifest
  <2>1. ASSUME NEW n, worker' = [worker EXCEPT !.pc = "fetch", !.next = n, !.manifest = 1]
        PROVE  worker'.pc # "none"
    BY <1>0, <2>1, ZenonT(20) DEF WorkerSet
  <2>2. ASSUME NEW pc \in {"end", "fetch"}, NEW v, NEW s,
               worker' = [worker EXCEPT !.pc = pc, !.next = 1, !.manifest = v, !.had = s]
        PROVE  worker'.pc # "none"
    <3>1. worker'.pc = pc
      BY <1>0, <2>2, ZenonT(20) DEF WorkerSet
    <3> QED
      BY <2>2, <3>1, ZenonT(20)
  <2>3. CASE ctl.finish
    BY <1>1, <1>3, <1>5, <2>3, ZenonT(20) DEF OpenManifest, At, Idle
  <2>4. CASE ~ctl.finish
    <3> DEFINE pc == IF rest.probe /\ worker.identity = 1 THEN "end" ELSE "fetch"
    <3>1. pc \in {"end", "fetch"}
      BY ZenonT(20)
    <3>2. \/ \E n : worker' = [worker EXCEPT !.pc = "fetch", !.next = n, !.manifest = 1]
          \/ worker' = [worker EXCEPT !.pc = pc, !.next = 1, !.manifest = server.version,
                                      !.had = db'.segs]
      BY <1>5, <2>4, ZenonT(20) DEF OpenManifest
    <3> HIDE DEF pc
    <3>3. worker'.pc # "none"
      BY <2>1, <2>2, <3>1, <3>2, ZenonT(20)
    <3> QED
      BY <1>3, <1>5, <3>3, ZenonT(20) DEF OpenManifest, At, Idle
  <2> QED
    BY <2>3, <2>4
<1>6. CASE LeaveLoop \/ FetchSegment
  BY <1>1, <1>3, <1>6, ZenonT(20) DEF LeaveLoop, FetchSegment, At, Idle
<1>7. CASE LeftWindow
  <2>1. worker' = [worker EXCEPT !.next = server.first] => worker'.pc = worker.pc
    BY <1>0, ZenonT(20) DEF WorkerSet
  <2> QED
    BY <1>2, <1>3, <1>7, <2>1, ZenonT(20) DEF LeftWindow, At, Idle
<1>8. CASE CommitSegment
  <2>1. ASSUME NEW n, NEW h, worker' = [worker EXCEPT !.pc = "fetch", !.next = n, !.had = h]
        PROVE  worker'.pc # "none"
    BY <1>0, <2>1, ZenonT(20) DEF WorkerSet
  <2>2. \/ Throw
        \/ \E n, h : worker' = [worker EXCEPT !.pc = "fetch", !.next = n, !.had = h]
    BY <1>8, ZenonT(20) DEF CommitSegment
  <2> QED
    BY <1>2, <1>3, <1>8, <2>1, <2>2, ZenonT(20) DEF CommitSegment, At, Idle
<1>9. CASE StageBegins
  <2>1. worker' = [worker EXCEPT !.pc = "staging", !.staged = db.segs] => worker'.pc = "staging"
    BY <1>0, ZenonT(20) DEF WorkerSet
  <2> QED
    BY <1>2, <1>3, <1>9, <2>1, ZenonT(20) DEF StageBegins, At, Idle
<1>10. CASE StageEnds \/ Prepare \/ Publish
  BY <1>1, <1>2, <1>3, <1>10, ZenonT(20) DEF StageEnds, Prepare, Publish, At, Idle
<1>11. CASE Unlink \/ CompleteSnapshot \/ RemoveCache \/ RemoveRows \/ EndWorker
  BY <1>1, <1>3, <1>11, ZenonT(20) DEF Unlink, CompleteSnapshot, RemoveCache, RemoveRows,
     EndWorker, At, Idle
<1>12. CASE FetchFails \/ StageFails
  <2>1. rest'.died = rest.died
    BY <1>0, <1>12, SMTT(20) DEF FetchFails, StageFails, Spend, Scenario
  <2> QED
    BY <1>2, <1>12, <2>1, ZenonT(20) DEF FetchFails, StageFails, At
<1> QED
  BY <1>4, <1>5, <1>6, <1>7, <1>8, <1>9, <1>10, <1>11, <1>12, ZenonT(20) DEF WorkerStep

\* What the engine sees of a step: the task's place, a stop it owes an answer,
\* and the process dying.
Seen(from, owed, to, owing) ==
  /\ task.place = from /\ task'.place = to
  /\ task.stop # "no" <=> owed
  /\ task'.stop # "no" <=> owing

SeenStep ==
  \/ task'.place = task.place /\ task'.stop = task.stop
  \/ Seen("waiting", FALSE, "active", FALSE)
  \/ Seen("waiting", FALSE, "failed", FALSE)
  \/ \E to \in {"complete", "failed", "waiting"} : Seen("active", FALSE, to, FALSE)
  \/ Seen("active", FALSE, "active", TRUE)
  \/ \E to \in {"waiting", "removed"} : Seen("active", TRUE, to, FALSE)
  \/ Seen("waiting", FALSE, "removed", FALSE)
  \/ \E from \in {"complete", "failed"}, to \in {"waiting", "removed"} :
       Seen(from, FALSE, to, FALSE)

\* The steps of MediaTask are those the engine knows.
LEMMA SeenSteps ==
  ASSUME MediaInv, [MediaNext]_mediaVars
  PROVE  \/ SeenStep /\ rest'.died = rest.died
         \/ task'.place = "waiting" /\ task'.stop = "no" /\ rest'.died = rest.died + 1
<1>0. /\ Types /\ task \in TaskSet /\ ctl \in ControlSet /\ rest \in Scenario
      /\ (task.stop # "no" => task.place = "active")
  BY ZenonT(20) DEF MediaInv, Types, Attached
<1>1. ASSUME UNCHANGED task PROVE SeenStep
  BY <1>1, ZenonT(20) DEF SeenStep
<1>2. ASSUME UNCHANGED rest PROVE rest'.died = rest.died
  BY <1>2, ZenonT(20)
<1>3. ASSUME NEW bound \in {"starts", "stops", "finishes", "changes", "retries", "edits", "places"},
             Spend(bound)
      PROVE  rest'.died = rest.died
  BY <1>0, <1>3, SMTT(20) DEF Spend, Scenario
<1>4. CASE WorkerStep \/ FetchFails \/ StageFails
  BY <1>0, <1>1, <1>4, WorkerHidden, ZenonT(20)
<1>5. CASE StartMedia
  <2>1. task.place = "waiting" /\ rest'.died = rest.died /\ task.stop = "no"
    BY <1>0, <1>3, <1>5, ZenonT(20) DEF StartMedia
  <2>2. ASSUME task' = [task EXCEPT !.place = "failed", !.snap = "error"]
        PROVE  Seen("waiting", FALSE, "failed", FALSE)
    BY <1>0, <2>1, <2>2, SMTT(20) DEF TaskSet, Seen
  <2>3. ASSUME NEW path,
               task' = [task EXCEPT !.place = "active", !.path = path, !.snap = "probing",
                                    !.finish = FALSE]
        PROVE  Seen("waiting", FALSE, "active", FALSE)
    <3>1. task'.place = "active" /\ task'.stop = task.stop
      BY <1>0, <2>3, ZenonT(20) DEF TaskSet
    <3> QED
      BY <2>1, <3>1, ZenonT(20) DEF Seen
  <2> QED
    BY <1>5, <2>1, <2>2, <2>3, ZenonT(20) DEF StartMedia, SeenStep
<1>6. CASE Poll
  <2> DEFINE t == [task EXCEPT !.snap = ctl.state]
  <2>1. t \in TaskSet /\ t.stop = task.stop /\ t.place = task.place
    BY <1>0, SMTT(20) DEF TaskSet, ControlSet
  <2>2. (task' = t \/ task' = WorkerDone(t)) /\ UNCHANGED rest /\ task.place = "active"
    BY <1>6, ZenonT(20) DEF Poll, Settle, MediaInv, Attached
  <2> HIDE DEF t
  <2>3. CASE task' = t
    BY <1>2, <2>1, <2>2, <2>3, ZenonT(20) DEF SeenStep
  <2>4. CASE task' = WorkerDone(t)
    <3>1. /\ task'.stop = "no"
          /\ t.stop = "no" => task'.place \in {"waiting", "complete", "failed"}
          /\ t.stop # "no" => task'.place \in {"waiting", "removed"}
      BY <2>1, <2>4, TaskDone, ZenonT(20)
    <3>2. CASE task.stop = "no"
      BY <1>2, <2>1, <2>2, <3>1, <3>2, SMTT(20) DEF SeenStep, Seen
    <3>3. CASE task.stop # "no"
      BY <1>2, <2>1, <2>2, <3>1, <3>3, SMTT(20) DEF SeenStep, Seen
    <3> QED
      BY <3>2, <3>3
  <2> QED
    BY <2>2, <2>3, <2>4
<1>7. ASSUME NEW why \in {"pause", "remove"}, StopMedia(why)
      PROVE  SeenStep /\ rest'.died = rest.died
  <2> DEFINE t == [task EXCEPT !.stop = why]
  <2>1. t \in TaskSet /\ t.stop = why /\ t.place = task.place
    BY <1>0, SMTT(20) DEF TaskSet
  <2>2. rest'.died = rest.died /\ task.stop = "no"
    BY <1>3, <1>7, ZenonT(20) DEF StopMedia
  <2>3. CASE ctl.on
    <3>1. task' = t /\ task.place = "active"
      BY <1>7, <2>3, ZenonT(20) DEF StopMedia, MediaInv, Attached
    <3>2. Seen("active", FALSE, "active", TRUE)
      BY <2>1, <2>2, <3>1, SMTT(20) DEF Seen
    <3> QED
      BY <2>2, <3>2, ZenonT(20) DEF SeenStep
  <2>4. CASE ~ctl.on
    <3>1. task' = StopDone(t) /\ task.place = "waiting" /\ why = "remove"
      BY <1>7, <2>4, ZenonT(20) DEF StopMedia, Settle, MediaInv, Attached
    <3> HIDE DEF t
    <3>2. t.stop # "no" /\ t.stop # "pause"
      BY <2>1, <3>1, ZenonT(20)
    <3>3. task'.stop = "no" /\ task'.place = "removed"
      BY <2>1, <3>1, <3>2, TaskDone, ZenonT(20)
    <3>4. Seen("waiting", FALSE, "removed", FALSE)
      BY <2>2, <3>1, <3>3, ZenonT(20) DEF Seen
    <3> QED
      BY <2>2, <3>4, ZenonT(20) DEF SeenStep
  <2> QED
    BY <2>3, <2>4
<1>8. CASE FinishRecording
  <2>1. task'.place = task.place /\ task'.stop = task.stop
    <3>1. UNCHANGED task \/ task' = [task EXCEPT !.finish = TRUE]
      BY <1>8, ZenonT(20) DEF FinishRecording
    <3> QED
      BY <1>0, <3>1, ZenonT(20) DEF TaskSet
  <2> QED
    BY <1>3, <1>8, <2>1, ZenonT(20) DEF FinishRecording, SeenStep
<1>9. CASE ChangeSelection \/ ChangeName
  <2>1. task'.place = task.place /\ task'.stop = task.stop
    BY <1>0, <1>9, SMTT(20) DEF ChangeSelection, ChangeName, TaskSet
  <2> QED
    BY <1>3, <1>9, <2>1, ZenonT(20) DEF ChangeSelection, ChangeName, SeenStep
<1>10. CASE RetryMedia
  <2>1. Seen("failed", FALSE, "waiting", FALSE)
    BY <1>0, <1>10, SMTT(20) DEF RetryMedia, TaskSet, Seen
  <2> QED
    BY <1>3, <1>10, <2>1, ZenonT(20) DEF RetryMedia, SeenStep
<1>11. CASE RemoveMediaResult
  <2>1. task' = [task EXCEPT !.place = "removed"] /\ task.place \in {"complete", "failed"}
        /\ task.stop = "no"
    BY <1>0, <1>11, ZenonT(20) DEF RemoveMediaResult, Settle
  <2>2. Seen(task.place, FALSE, "removed", FALSE)
    BY <1>0, <2>1, SMTT(20) DEF TaskSet, Seen
  <2> QED
    BY <1>3, <1>11, <2>1, <2>2, ZenonT(20) DEF RemoveMediaResult, SeenStep
<1>12. CASE SourceChanges \/ UserPlaces
  BY <1>1, <1>3, <1>12, ZenonT(20) DEF SourceChanges, UserPlaces
<1>13. CASE UserRemoves
  <2>1. rest' = [rest EXCEPT !.takes = @ - 1, !.took = TRUE] /\ UNCHANGED task
    BY <1>13, ZenonT(20) DEF UserRemoves
  <2>2. rest'.died = rest.died
    BY <1>0, <2>1, ZenonT(20) DEF Scenario
  <2> QED
    BY <1>1, <2>1, <2>2, ZenonT(20)
<1>14. CASE MediaCrash
  <2>1. task'.place = "waiting" /\ task'.stop = "no"
    <3>1. PICK path \in {1, task.path}, identity \in {1, task.identity} :
            task' = [NewMedia EXCEPT !.path = path, !.identity = identity]
      BY <1>14, ZenonT(20) DEF MediaCrash
    <3> QED
      BY <3>1, SMTT(20) DEF NewMedia
  <2>2. rest'.died = rest.died + 1
    <3> DEFINE c == rest.orphan \/ (~db.pub /\ \E p \in Paths : fs.staging[p] # NoFile)
    <3>1. rest' = [rest EXCEPT !.crashes = @ - 1, !.died = @ + 1, !.orphan = c]
      BY <1>14, ZenonT(20) DEF MediaCrash
    <3> HIDE DEF c
    <3> QED
      BY <1>0, <3>1, ZenonT(20) DEF Scenario
  <2> QED
    BY <2>1, <2>2
<1>15. CASE UNCHANGED mediaVars
  BY <1>1, <1>2, <1>15, ZenonT(20) DEF mediaVars
<1> QED
  BY <1>4, <1>5, <1>6, <1>7, <1>8, <1>9, <1>10, <1>11, <1>12, <1>13, <1>14, <1>15, ZenonT(20)
     DEF MediaNext

\* What MediaTask promises the engine (core/Task.h): start() is answered by one
\* end, stop() by one `done`, and the worker is gone whenever the task is idle.
THEOREM ContractKept ==
  ASSUME Sizes
  PROVE  MediaSpec => MediaKeepsContract
<1>1. MediaInit => MediaContract!Init
  <2> SUFFICES ASSUME MediaInit PROVE MediaContract!Init
    OBVIOUS
  <2>1. task.place = "waiting" /\ worker.pc = "none" /\ rest.died = 0
    <3>1. rest \in Fresh /\ task = NewMedia /\ worker = NoWorker
      BY SMTT(20) DEF MediaInit, Sizes
    <3> QED
      BY <3>1, SMTT(20) DEF Fresh, NewMedia, NoWorker
  <2> QED
    BY <2>1, SMTT(20) DEF MediaContract!Init, MediaMode
<1>2. MediaInv /\ MediaInv' /\ [MediaNext]_mediaVars
        => [MediaContract!Next]_(MediaContract!vars)
  <2> SUFFICES ASSUME MediaInv, MediaInv', [MediaNext]_mediaVars
               PROVE  [MediaContract!Next]_(MediaContract!vars)
    OBVIOUS
  <2>1. /\ worker.pc # "none" <=> task.place = "active"
        /\ (worker.pc # "none")' <=> task'.place = "active"
    BY ZenonT(20) DEF MediaInv, Attached
  <2>2. CASE SeenStep /\ rest'.died = rest.died
    BY <2>1, <2>2, SMTT(20) DEF SeenStep, Seen, MediaMode, MediaContract!Next, MediaContract!vars,
         MediaContract!Start, MediaContract!StartFails, MediaContract!End, MediaContract!Stop,
         MediaContract!StopAtOnce, MediaContract!Answer, MediaContract!Again
  <2>3. CASE task'.place = "waiting" /\ task'.stop = "no" /\ rest'.died = rest.died + 1
    BY <2>1, <2>3, SMTT(20) DEF MediaMode, MediaContract!Next, MediaContract!Crash
  <2> QED
    BY <2>2, <2>3, SeenSteps
<1> QED
  BY <1>1, <1>2, MediaInvariant, PTL DEF MediaSpec, MediaKeepsContract, MediaContract!Spec

-----------------------------------------------------------------------------
(* What the parts say together.                                            *)

\* The state of a media download is sound over any death of the process: an output
\* that is complete is whole, and rows, cache and staging file agree.
THEOREM MediaKept ==
  ASSUME Sizes
  PROVE  MediaSpec => []MediaSound
<1>1. MediaInv => MediaTypeOK
  <2> SUFFICES ASSUME MediaInv PROVE MediaTypeOK
    OBVIOUS
  <2>1. Types /\ Attached /\ (db.pub <=> db.path \in Paths)
    BY ZenonT(20) DEF MediaInv, Published
  <2>2. db.segs \subseteq Nat \X Nat /\ fs.cache \subseteq Nat \X Nat
    BY <2>1, SMTT(20) DEF Types, RowSet, DiskSet, Numbers
  <2>3. DOMAIN fs.out = Paths /\ DOMAIN fs.staging = Paths
    BY <2>1, SMTT(20) DEF Types, DiskSet
  <2>4. /\ task.place \in {"waiting", "active", "complete", "failed", "removed"}
        /\ task.stop \in {"no", "pause", "remove"}
        /\ task.path \in Paths /\ task.identity \in 1..2
    BY <2>1, SMTT(20) DEF Types, TaskSet
  <2> QED
    BY <2>1, <2>2, <2>3, <2>4, ZenonT(20) DEF MediaTypeOK, Attached
<1>2. MediaTypeOK /\ CompleteIsWhole /\ RecordedIsStored /\ RemovedLeavesNothing => MediaSound
  BY DEF MediaSound
<1> QED
  BY <1>1, <1>2, MediaInvariant, PublishedWhole, SegmentsStored, RemovalClean, PTL

\* Publishing changes no file of the user and is never half undone.
THEOREM PublicationSound ==
  ASSUME Sizes
  PROVE  MediaSpec => PublicationSafe
  BY FilesUntouched, PublicationKept DEF PublicationSafe
=============================================================================

-------------------------- MODULE EngineStepProofs --------------------------
(* The steps of the protocol tasks and of the disk pool, and the handlers   *)
(* posted to the control thread, keep the invariant of EngineLemmas.        *)
EXTENDS EngineLemmas

\* A step of a running task that posts one handler about it.
LEMMA PostKeeps ==
  ASSUME IInv, NEW g \in Gid, state[g] = "Active", ~stopping[g], work[g] = "running",
         NEW w \in {"over", "handing"}, NEW x \in Handlers, x.gid = g,
         w = "over" => x.do = "retire",
         w = "handing" => x.do = "handOver" /\ kind[g] = "http",
         work' = [work EXCEPT ![g] = w], io' = Append(io, x),
         UNCHANGED <<tasks, state, stopping, kind, onStop, closing, active, waiting, stopped,
                     moving, resume, astray, sharing, limit, disk, shuttingDown,
                     forceShutdown, scheduled, loop, session>>
  PROVE  IInv'
<1>1. Agrees(g) /\ moving[g] \in {"no", "waits", "started", "posted"} /\ g # NoGid
  BY IInvFacts, ConstantsOK, ZenonT(40)
<1>2. \A do : ~Has(io, g, do)
  <2>1. /\ ~Has(io, g, "retire") /\ ~Has(io, g, "handOver") /\ ~Has(io, g, "moved")
        /\ ~Has(io, g, "done")
    BY <1>1, ZenonT(40) DEF Agrees, Pending
  <2>2. \A i \in DOMAIN io : io[i] \in Handlers
    BY IInvFacts, SMTT(40)
  <2> QED
    BY <1>1, <2>1, <2>2, HandlerType, ZenonT(40) DEF Has
<1>3. x.do # "fill"
  BY ZenonT(40)
<1>4. /\ io' \in Seq(Handlers) /\ Once(io')
      /\ \A h, do : Has(io', h, do) <=> Has(io, h, do) \/ (g = h /\ x.do = do)
  BY <1>1, <1>2, <1>3, IInvFacts, HandlerAppend, ZenonT(40)
<1>5. TypeOK'
  BY <1>4, IInvFacts, ZenonT(40) DEF TypeOK
<1>6. OneQueue'
  BY IInvFacts, ZenonT(40) DEF OneQueue
<1>7. ASSUME NEW h \in Gid PROVE Agrees(h)'
  <2>1. CASE h # g
    <3>1. work'[h] = work[h]
      BY <2>1, IInvFacts, ZenonT(40)
    <3> QED
      BY <1>4, <2>1, <3>1, IInvFacts, AgreesFrame, ZenonT(40)
  <2>2. CASE h = g
    <3>1. work'[g] = w
      BY IInvFacts, ZenonT(40)
    <3> QED
      BY <1>1, <1>2, <1>4, <2>2, <3>1, SMTT(40) DEF Agrees, Pending
  <2> QED
    BY <2>1, <2>2, ZenonT(40)
<1>8. scheduled' <=> Has(io', NoGid, "fill")
  BY <1>1, <1>4, IInvFacts, ZenonT(40)
<1> QED
  BY <1>4, <1>5, <1>6, <1>7, <1>8, ZenonT(40) DEF IInv, InFlightAgrees, Pending

\* What the invariant says of a task that runs and was not told to stop.
LEMMA RunningFacts ==
  ASSUME IInv, NEW g \in Gid, Running(g)
  PROVE  state[g] = "Active" /\ ~stopping[g] /\ work[g] = "running"
  BY IInvFacts, ZenonT(40) DEF Running, OneQueue

\* Engine::taskFailed() posts retire().
LEMMA FailKeeps ==
  ASSUME IInv, NEW g \in Gid, Fail(g)
  PROVE  IInv'
<1> USE DEF queues, moves, flags
<1>1. Running(g)
  BY ZenonT(40) DEF Fail
<1> DEFINE x == Retire(g, "Error")
<1>2. x \in Handlers /\ x.do = "retire" /\ x.gid = g
  BY HandlerMade, ZenonT(40) DEF Results
<1>3. /\ work' = [work EXCEPT ![g] = "over"] /\ io' = Append(io, x)
      /\ UNCHANGED <<tasks, state, stopping, kind, onStop, closing, active, waiting, stopped,
                     moving, resume, astray, sharing, limit, disk, shuttingDown,
                     forceShutdown, scheduled, loop, session>>
  BY ZenonT(40) DEF Fail
<1> HIDE DEF x
<1> QED
  BY <1>1, <1>2, <1>3, RunningFacts, PostKeeps, ZenonT(40)

\* HttpTask::handOverToMedia() posts handOver().
LEMMA AskHandOverKeeps ==
  ASSUME IInv, NEW g \in Gid, AskHandOver(g)
  PROVE  IInv'
<1> USE DEF queues, moves, flags
<1>1. Running(g) /\ kind[g] = "http"
  BY ZenonT(40) DEF AskHandOver
<1> DEFINE x == Handler("handOver", g, "none")
<1>2. x \in Handlers /\ x.do = "handOver" /\ x.gid = g
  BY HandlerMade, ZenonT(40)
<1>3. /\ work' = [work EXCEPT ![g] = "handing"] /\ io' = Append(io, x)
      /\ UNCHANGED <<tasks, state, stopping, kind, onStop, closing, active, waiting, stopped,
                     moving, resume, astray, sharing, limit, disk, shuttingDown,
                     forceShutdown, scheduled, loop, session>>
  BY ZenonT(40) DEF AskHandOver
<1> HIDE DEF x
<1> QED
  BY <1>1, <1>2, <1>3, RunningFacts, PostKeeps, ZenonT(40)

\* complete(): the downloads the follower adds, then the deferred retire().
LEMMA CompleteKeeps ==
  ASSUME IInv, NEW g \in Gid, NEW new \in Seq(Gid), Distinct(new), Complete(g, new)
  PROVE  IInv'
<1> USE DEF moves, flags
<1> DEFINE N == Values(new)
           q == IF new = <<>> \/ scheduled THEN io ELSE Append(io, Fill)
           x == Retire(g, "Complete")
<1>1. /\ Running(g) /\ \A n \in N : state[n] = "New"
      /\ work' = [work EXCEPT ![g] = "over"]
      /\ tasks' = tasks \cup N
      /\ state' = [n \in Gid |-> IF n \in N THEN "Waiting" ELSE state[n]]
      /\ waiting' = waiting \o new
      /\ io' = Append(q, x)
      /\ scheduled' = (scheduled \/ new # <<>>)
      /\ UNCHANGED <<stopping, kind, onStop, closing, active, stopped,
                     moving, resume, astray, sharing, limit, disk, shuttingDown,
                     forceShutdown, loop, session>>
  BY ZenonT(40) DEF Complete
<1>2. state[g] = "Active" /\ ~stopping[g] /\ work[g] = "running"
  BY <1>1, RunningFacts, ZenonT(40)
<1>3. x \in Handlers /\ x.do = "retire" /\ x.gid = g
  BY HandlerMade DEF Results
<1>4. N \subseteq Gid
  BY DEF Values
<1>5. Agrees(g) /\ moving[g] \in {"no", "waits", "started", "posted"} /\ g # NoGid
  BY IInvFacts, ConstantsOK, ZenonT(40)
<1>6. \A do : ~Has(io, g, do)
  <2>1. /\ ~Has(io, g, "retire") /\ ~Has(io, g, "handOver") /\ ~Has(io, g, "moved")
        /\ ~Has(io, g, "done")
    BY <1>2, <1>5, ZenonT(40) DEF Agrees, Pending
  <2>2. \A i \in DOMAIN io : io[i] \in Handlers
    BY IInvFacts, SMTT(40)
  <2> QED
    BY <1>5, <2>1, <2>2, HandlerType, ZenonT(40) DEF Has
<1>7. /\ q \in Seq(Handlers) /\ Once(q)
      /\ \A h \in Gid : \A do : Has(q, h, do) <=> Has(io, h, do)
      /\ Has(q, NoGid, "fill") <=> scheduled \/ new # <<>>
  <2>1. CASE new = <<>> \/ scheduled
    BY <2>1, IInvFacts, ZenonT(40)
  <2>2. CASE ~(new = <<>> \/ scheduled)
    <3>1. q = Append(io, Fill) /\ ~Has(io, NoGid, "fill")
      BY <2>2, IInvFacts, ZenonT(40)
    <3>2. /\ q \in Seq(Handlers) /\ Once(q)
          /\ \A h, do : Has(q, h, do) <=> Has(io, h, do) \/ (NoGid = h /\ "fill" = do)
      BY <3>1, IInvFacts, HandlerMade, HandlerAppend, SMTT(40)
    <3> QED
      BY <2>2, <3>2, ConstantsOK, SMTT(40)
  <2> QED
    BY <2>1, <2>2, ZenonT(40)
<1> HIDE DEF q, x, N
<1>8. /\ io' \in Seq(Handlers) /\ Once(io')
      /\ \A h, do : Has(io', h, do) <=> Has(q, h, do) \/ (g = h /\ "retire" = do)
  <2>1. \A do : ~Has(q, g, do)
    BY <1>6, <1>7, ZenonT(40)
  <2>2. io' = Append(q, x) /\ x \in Handlers /\ x.gid = g /\ x.do = "retire"
    BY <1>1, <1>3, ZenonT(40)
  <2> QED
    BY <1>5, <1>7, <2>1, <2>2, HandlerAppend, ZenonT(40)
<1>9. scheduled' \in BOOLEAN /\ (scheduled' <=> Has(io', NoGid, "fill"))
  BY <1>1, <1>5, <1>7, <1>8, IInvFacts, ZenonT(40)
<1>10. \A n \in N : n \notin Values(active) /\ n \notin Values(waiting) /\ n \notin Values(stopped)
  BY <1>1, IInvFacts, ZenonT(40) DEF OneQueue, Queued, Results
<1>11. /\ waiting' \in Seq(Gid) /\ Values(waiting') = Values(waiting) \cup N
       /\ Distinct(waiting')
  <2>1. Values(waiting) \cap Values(new) = {} /\ Distinct(waiting)
    BY <1>10, IInvFacts, ZenonT(40) DEF OneQueue, N
  <2> QED
    BY <1>1, <2>1, IInvFacts, ConcatValues, SMTT(40) DEF N
<1>12. state' \in [Gid -> States]
  BY <1>1, IInvFacts, ZenonT(40) DEF States, Queued
<1>13. TypeOK'
  <2>1. tasks' \in SUBSET Gid /\ work' \in [Gid -> {"idle", "running", "handing", "over"}]
    BY <1>1, <1>4, IInvFacts, ZenonT(40)
  <2> QED
    BY <1>1, <1>8, <1>9, <1>11, <1>12, <2>1, IInvFacts, ZenonT(40) DEF TypeOK
<1>14. OneQueue'
  <2>1. "Waiting" \in Queued /\ "Waiting" \notin Results /\ "Waiting" # "Active"
    BY DEF Queued, Results
  <2>2. \A h \in Gid : /\ h \in N => state'[h] = "Waiting"
                       /\ h \notin N => state'[h] = state[h]
    BY <1>1, ZenonT(40)
  <2>3. Values(active') = {h \in Gid : state'[h] = "Active"}
    BY <1>1, <1>10, <2>1, <2>2, IInvFacts, ZenonT(40) DEF OneQueue
  <2>4. Values(waiting') = {h \in Gid : state'[h] \in Queued}
    BY <1>4, <1>11, <2>1, <2>2, IInvFacts, SMTT(40) DEF OneQueue
  <2>5. Values(stopped') = {h \in tasks' : state'[h] \in Results}
    <3>1. \A h \in tasks : h \notin N /\ h \in Gid
      BY <1>10, IInvFacts, ZenonT(40) DEF OneQueue
    <3> QED
      BY <1>1, <1>4, <2>1, <2>2, <3>1, IInvFacts, ZenonT(40) DEF OneQueue
  <2>6. tasks' = Values(active') \cup Values(waiting') \cup Values(stopped')
    BY <1>1, <1>11, IInvFacts, ZenonT(40) DEF OneQueue
  <2> QED
    BY <1>1, <1>11, <2>3, <2>4, <2>5, <2>6, IInvFacts, ZenonT(40) DEF OneQueue
<1>15. ASSUME NEW h \in Gid PROVE Agrees(h)'
  <2>1. Agrees(h)
    BY IInvFacts, ZenonT(40)
  <2>2. CASE h = g
    <3>1. work'[g] = "over" /\ state'[g] = "Active"
      BY <1>1, <1>2, IInvFacts, ZenonT(40)
    <3>2. /\ \A do : Has(io', g, do) <=> do = "retire"
          /\ moving[g] = "no" /\ onStop[g] = "none" /\ closing[g] = <<>> /\ g \notin astray
      BY <1>2, <1>5, <1>6, <1>7, <1>8, ZenonT(40) DEF Agrees, Pending
    <3> QED
      BY <1>1, <1>2, <2>2, <3>1, <3>2, SMTT(40) DEF Agrees, Pending
  <2>3. CASE h # g
    <3>1. work'[h] = work[h] /\ \A do : Has(io', h, do) <=> Has(io, h, do)
      BY <1>1, <1>7, <1>8, <2>3, IInvFacts, ZenonT(40)
    <3>2. CASE h \in N
      <4>1. state'[h] = "Waiting" /\ state[h] = "New"
        BY <1>1, <3>2, ZenonT(40)
      <4> QED
        BY <1>1, <2>1, <3>1, <4>1, ZenonT(40) DEF Agrees, Pending
    <3>3. CASE h \notin N
      <4>1. state'[h] = state[h]
        BY <1>1, <3>3, ZenonT(40)
      <4> QED
        BY <1>1, <2>1, <3>1, <4>1, AgreesFrame, ZenonT(40)
    <3> QED
      BY <3>2, <3>3, ZenonT(40)
  <2> QED
    BY <2>2, <2>3, ZenonT(40)
<1> QED
  BY <1>8, <1>9, <1>13, <1>14, <1>15, ZenonT(40) DEF IInv, InFlightAgrees, Pending

\* BtTask::metadataReceived() pauses a task that waits for a choice of files.
LEMMA AwaitSelectionKeeps ==
  ASSUME Orderly, IInv, NEW g \in Gid, AwaitSelection(g)
  PROVE  IInv'
<1> DEFINE Y == IF kind[g] = "media" THEN {g} ELSE {}
<1>1. Running(g) /\ PauseTask(g, Y)
  BY SMTT(40) DEF AwaitSelection
<1>2. Stoppable({g}) /\ Y \in SUBSET {g}
  BY <1>1, RunningFacts, ZenonT(40) DEF Stoppable, Orderly
<1> HIDE DEF Y
<1> QED
  BY <1>1, <1>2, PauseTaskKeeps, ZenonT(40)

\* The first use of Engine::disk() creates the pool.
LEMMA OpenOutputKeeps ==
  ASSUME IInv, NEW g \in Gid, OpenOutput(g)
  PROVE  IInv'
<1> USE DEF object, queues, moves
<1>1. /\ disk' = TRUE
      /\ UNCHANGED <<tasks, state, stopping, kind, work, onStop, closing, active, waiting,
                     stopped, moving, resume, astray, sharing, limit, shuttingDown,
                     forceShutdown, scheduled, loop, session, io>>
  BY ZenonT(40) DEF OpenOutput
<1> QED
  BY <1>1, IInvFacts, QueuedStep, ZenonT(40)

\* A task that starts or ends sharing changes what counts, and no queue.
LEMMA ShareKeeps ==
  ASSUME IInv, NEW g \in Gid, Share(g)
  PROVE  IInv'
<1> USE DEF object, queues, moves
<1>1. UNCHANGED <<tasks, state, stopping, kind, work, onStop, closing, active, waiting,
                  stopped, moving, resume, astray, limit, disk, shuttingDown,
                  forceShutdown, scheduled, loop, session, io>>
  BY ZenonT(40) DEF Share
<1>2. sharing' \in SUBSET Gid
  <2>1. sharing' = sharing \ {g} \/ sharing' = sharing \cup {g}
    BY ZenonT(40) DEF Share
  <2> QED
    BY <2>1, IInvFacts, SMTT(40)
<1> QED
  BY <1>1, <1>2, IInvFacts, QueuedStep, ZenonT(40)

\* Engine::stopLoop() saves the session and ends the loop.
LEMMA StopLoopKeeps ==
  ASSUME IInv, StopLoop
  PROVE  IInv'
<1> USE DEF object, queues, moves, flags
<1>1. /\ loop' = "stopped"
      /\ UNCHANGED <<tasks, state, stopping, kind, work, onStop, closing, active, waiting,
                     stopped, moving, resume, astray, sharing, limit, disk, shuttingDown,
                     forceShutdown, scheduled, session, io>>
  BY SMTT(40) DEF StopLoop
<1> QED
  BY <1>1, IInvFacts, QueuedStep, ZenonT(40)

\* The last write of a stopping HTTP task: its callback goes to the file close.
LEMMA QuiesceKeeps ==
  ASSUME IInv, NEW g \in Gid, Quiesce(g)
  PROVE  IInv'
<1> USE DEF queues, moves, flags
<1>1. /\ onStop[g] # "none"
      /\ closing' = [closing EXCEPT ![g] = Append(@, onStop[g])]
      /\ onStop' = [onStop EXCEPT ![g] = "none"]
      /\ UNCHANGED <<tasks, state, stopping, kind, work, active, waiting, stopped,
                     moving, resume, astray, sharing, limit, disk, shuttingDown,
                     forceShutdown, scheduled, loop, session, io>>
  BY ZenonT(40) DEF Quiesce
<1>2. Agrees(g)
  BY IInvFacts, ZenonT(40)
<1>3. closing[g] = <<>> /\ stopping[g] /\ ~Has(io, g, "done")
  BY <1>1, <1>2, ZenonT(40) DEF Agrees, Pending
<1>4. closing \in [Gid -> Seq(Nexts)] /\ onStop \in [Gid -> Nexts \cup {"none"}]
  BY IInvFacts DEF TypeOK
<1>5. closing' \in [Gid -> Seq(Nexts)] /\ onStop' \in [Gid -> Nexts \cup {"none"}]
  BY <1>1, <1>4, SMTT(40)
<1>6. closing'[g] # <<>> /\ Len(closing'[g]) = 1 /\ onStop'[g] = "none"
  BY <1>1, <1>3, <1>4, SMTT(40)
<1>7. TypeOK'
  BY <1>1, <1>5, IInvFacts, ZenonT(40) DEF TypeOK
<1>8. OneQueue'
  BY <1>1, IInvFacts, ZenonT(40) DEF OneQueue
<1>9. ASSUME NEW h \in Gid PROVE Agrees(h)'
  <2>1. CASE h = g
    BY <1>1, <1>2, <1>3, <1>6, <2>1, ZenonT(40) DEF Agrees, Pending
  <2>2. CASE h # g
    <3>1. closing'[h] = closing[h] /\ onStop'[h] = onStop[h]
      BY <1>1, <1>4, <2>2, ZenonT(40)
    <3> QED
      BY <1>1, <3>1, IInvFacts, AgreesFrame, ZenonT(40)
  <2> QED
    BY <2>1, <2>2, ZenonT(40)
<1> QED
  BY <1>1, <1>7, <1>8, <1>9, IInvFacts, ZenonT(40) DEF IInv, InFlightAgrees, Pending

\* BtTask::detached() and the end of a media worker answer the stop.
LEMMA DetachedKeeps ==
  ASSUME IInv, NEW g \in Gid, Detached(g)
  PROVE  IInv'
<1> USE DEF flags
<1> DEFINE next == onStop[g]
<1>1. /\ next # "none"
      /\ stopping' = [stopping EXCEPT ![g] = FALSE]
      /\ onStop' = [onStop EXCEPT ![g] = "none"]
      /\ UNCHANGED <<kind, closing, resume, astray, sharing, limit, disk, shuttingDown,
                     forceShutdown>>
      /\ StopDone(<<g>>, next, state, moving, shuttingDown, io)
  BY DEF Detached
<1>2. next \in Nexts
  BY <1>1, IInvFacts, ZenonT(40) DEF TypeOK
<1>3. Agrees(g)
  BY IInvFacts, ZenonT(40)
<1>4. /\ stopping[g] /\ work[g] = "running" /\ closing[g] = <<>> /\ ~Has(io, g, "done")
      /\ moving[g] # "posted"
  BY <1>1, <1>3, ZenonT(40) DEF Agrees, Pending
<1>5. \A do : ~Has(io, g, do)
  BY <1>4, NothingPending, SMTT(40)
<1> HIDE DEF next
<1>6. StopKeeps'
  BY <1>1, <1>2, <1>4, <1>5, IInvFacts, StopOneKeeps, ZenonT(40)
<1> QED
  BY <1>1, <1>6, IInvFacts, StopKeepsIInv, ZenonT(40)

\* The pool closed an output file and posts the callback that came with it.
LEMMA DiskClosesKeeps ==
  ASSUME IInv, NEW g \in Gid, DiskCloses(g)
  PROVE  IInv'
<1> USE DEF queues, moves, flags
<1> DEFINE x == Handler("done", g, Head(closing[g]))
<1>1. /\ closing[g] # <<>>
      /\ closing' = [closing EXCEPT ![g] = Tail(@)]
      /\ io' = Append(io, x)
      /\ UNCHANGED <<tasks, state, stopping, kind, work, onStop, active, waiting, stopped,
                     moving, resume, astray, sharing, limit, disk, shuttingDown,
                     forceShutdown, scheduled, loop, session>>
  BY ZenonT(40) DEF DiskCloses
<1>2. closing \in [Gid -> Seq(Nexts)] /\ Agrees(g) /\ g # NoGid
  BY IInvFacts, ConstantsOK, ZenonT(40) DEF TypeOK
<1>3. /\ Len(closing[g]) = 1 /\ stopping[g] /\ work[g] = "running" /\ ~Has(io, g, "done")
      /\ moving[g] # "posted" /\ onStop[g] = "none"
  BY <1>1, <1>2, ZenonT(40) DEF Agrees, Pending
<1>4. Head(closing[g]) \in Nexts /\ Tail(closing[g]) = <<>>
  BY <1>1, <1>2, <1>3, SMTT(40)
<1>5. x \in Handlers /\ x.do = "done" /\ x.gid = g
  BY <1>4, HandlerMade, ZenonT(40)
<1>6. \A do : ~Has(io, g, do)
  BY <1>3, NothingPending, ZenonT(40)
<1> HIDE DEF x
<1>7. /\ io' \in Seq(Handlers) /\ Once(io')
      /\ \A h, do : Has(io', h, do) <=> Has(io, h, do) \/ (g = h /\ "done" = do)
  BY <1>1, <1>5, <1>6, IInvFacts, HandlerAppend, ZenonT(40)
<1>8. closing' \in [Gid -> Seq(Nexts)] /\ closing'[g] = <<>>
  BY <1>1, <1>2, <1>4, SMTT(40)
<1>9. TypeOK'
  BY <1>1, <1>7, <1>8, IInvFacts, ZenonT(40) DEF TypeOK
<1>10. OneQueue'
  BY <1>1, IInvFacts DEF OneQueue
<1>11. ASSUME NEW h \in Gid PROVE Agrees(h)'
  <2>1. CASE h = g
    BY <1>1, <1>2, <1>3, <1>6, <1>7, <1>8, <2>1, SMTT(40) DEF Agrees, Pending
  <2>2. CASE h # g
    <3>1. closing'[h] = closing[h]
      BY <1>1, <1>2, <2>2, ZenonT(40)
    <3> QED
      BY <1>1, <1>7, <2>2, <3>1, IInvFacts, AgreesFrame, ZenonT(40)
  <2> QED
    BY <2>1, <2>2, ZenonT(40)
<1>12. scheduled' <=> Has(io', NoGid, "fill")
  BY <1>1, <1>2, <1>7, IInvFacts, ZenonT(40)
<1> QED
  BY <1>7, <1>9, <1>10, <1>11, <1>12, ZenonT(40) DEF IInv, InFlightAgrees, Pending

\* The pool moved the files of a task, or failed to, and posts the completion.
LEMMA DiskMovesKeeps ==
  ASSUME IInv, NEW g \in Gid, NEW ok \in BOOLEAN, DiskMoves(g, ok)
  PROVE  IInv'
<1> USE DEF object, queues, flags
<1> DEFINE x == Handler("moved", g, IF ok THEN "ok" ELSE "failed")
<1>1. /\ moving[g] = "started"
      /\ moving' = [moving EXCEPT ![g] = "posted"]
      /\ astray' \in {astray, astray \cup {g}}
      /\ io' = Append(io, x)
      /\ UNCHANGED <<tasks, state, stopping, kind, work, onStop, closing, active, waiting,
                     stopped, resume, sharing, limit, disk, shuttingDown, forceShutdown,
                     scheduled, loop, session>>
  BY DEF DiskMoves
<1>2. Agrees(g) /\ g # NoGid
  BY IInvFacts, ConstantsOK, ZenonT(40)
<1>3. /\ state[g] = "Paused" /\ work[g] = "idle" /\ ~stopping[g] /\ ~Has(io, g, "done")
      /\ onStop[g] = "none" /\ closing[g] = <<>>
  BY <1>1, <1>2, ZenonT(40) DEF Agrees, Pending
<1>4. x \in Handlers /\ x.do = "moved" /\ x.gid = g
  BY HandlerMade, SMTT(40)
<1>5. \A do : ~Has(io, g, do)
  BY <1>1, <1>3, NothingPending, ZenonT(40)
<1> HIDE DEF x
<1>6. /\ io' \in Seq(Handlers) /\ Once(io')
      /\ \A h, do : Has(io', h, do) <=> Has(io, h, do) \/ (g = h /\ "moved" = do)
  BY <1>1, <1>4, <1>5, IInvFacts, HandlerAppend, ZenonT(40)
<1>7. /\ moving' \in [Gid -> {"no", "waits", "started", "posted"}] /\ moving'[g] = "posted"
      /\ astray' \in SUBSET Gid
  BY <1>1, IInvFacts, ZenonT(40)
<1>8. TypeOK'
  BY <1>1, <1>6, <1>7, IInvFacts, ZenonT(40) DEF TypeOK
<1>9. OneQueue'
  BY <1>1, IInvFacts DEF OneQueue
<1>10. ASSUME NEW h \in Gid PROVE Agrees(h)'
  <2>1. CASE h = g
    <3>1. /\ Has(io', g, "moved") /\ ~Has(io', g, "done") /\ ~Has(io', g, "retire")
          /\ ~Has(io', g, "handOver")
      BY <1>5, <1>6, SMTT(40)
    <3> QED
      BY <1>1, <1>2, <1>3, <1>7, <2>1, <3>1, ZenonT(40) DEF Agrees, Pending
  <2>2. CASE h # g
    <3>1. moving'[h] = moving[h] /\ (h \in astray' <=> h \in astray)
      BY <1>1, <2>2, IInvFacts, ZenonT(40)
    <3> QED
      BY <1>1, <1>6, <2>2, <3>1, IInvFacts, AgreesFrame, ZenonT(40)
  <2> QED
    BY <2>1, <2>2, ZenonT(40)
<1>11. scheduled' <=> Has(io', NoGid, "fill")
  BY <1>1, <1>2, <1>6, IInvFacts
<1> QED
  BY <1>6, <1>8, <1>9, <1>10, <1>11, ZenonT(40) DEF IInv, InFlightAgrees, Pending

-----------------------------------------------------------------------------
(* The handlers posted to the control thread.                              *)

\* Taking the handler at the head of io.
LEMMA HeadFacts ==
  ASSUME IInv, NEW do, Head1(do)
  PROVE  LET x == Head(io)  t == Tail(io)
         IN  /\ x \in Handlers /\ x.do = do /\ Has(io, x.gid, do)
             /\ t \in Seq(Handlers) /\ Once(t)
             /\ do \notin {"fill", "finish"} => x.gid \in Gid
             /\ \A h \in Gid : \A d : h # x.gid => (Has(t, h, d) <=> Has(io, h, d))
             /\ x.gid # NoGid => \A d : ~Has(t, x.gid, d)
             /\ do # "fill" => (scheduled <=> Has(t, NoGid, "fill"))
             /\ do = "fill" => ~Has(t, NoGid, "fill")
<1>1. io # <<>> /\ Head(io).do = do
  BY DEF Head1
<1>2. io \in Seq(Handlers) /\ Once(io) /\ (scheduled <=> Has(io, NoGid, "fill"))
  BY IInvFacts
<1>3. Head(io) \in Handlers
  BY <1>1, <1>2, HandlerTail, ZenonT(40)
<1>4. do \notin {"fill", "finish"} => Head(io).gid \in Gid
  BY <1>1, <1>3, HandlerType, ZenonT(40)
<1> QED
  BY <1>1, <1>2, <1>3, <1>4, HandlerTail, ZenonT(40)

\* The deferred retire() takes its task out of active_ and trims the results.
LEMMA RunRetireKeeps ==
  ASSUME IInv, RunRetire
  PROVE  IInv'
<1> USE DEF moves, flags
<1> DEFINE g == Head(io).gid
           r == Head(io).arg
           t == Tail(io)
<1>1. /\ Head1("retire")
      /\ state' = [state EXCEPT ![g] = r]
      /\ work' = [work EXCEPT ![g] = "idle"]
      /\ RetireTask(g, state')
      /\ Schedule(t)
      /\ UNCHANGED <<stopping, kind, onStop, closing, waiting, moving, resume, astray,
                     sharing, limit, disk, shuttingDown, forceShutdown, loop, session>>
  BY ZenonT(40) DEF RunRetire
<1>2. /\ g \in Gid /\ Has(io, g, "retire") /\ r \in Results /\ g # NoGid
      /\ t \in Seq(Handlers) /\ Once(t) /\ (scheduled <=> Has(t, NoGid, "fill"))
      /\ \A h \in Gid : \A d : h # g => (Has(t, h, d) <=> Has(io, h, d))
      /\ \A d : ~Has(t, g, d)
  BY <1>1, HeadFacts, HandlerType, ConstantsOK, SMTT(40)
<1> HIDE DEF g, r, t
<1>3. Agrees(g)
  BY <1>2, IInvFacts, ZenonT(40)
<1>4. /\ work[g] = "over" /\ state[g] = "Active" /\ ~stopping[g] /\ moving[g] = "no"
      /\ onStop[g] = "none" /\ closing[g] = <<>> /\ g \notin astray
  <2>1. work[g] = "over" /\ moving[g] \in {"no", "waits", "started", "posted"}
    BY <1>2, <1>3, IInvFacts, ZenonT(40) DEF Agrees, Pending
  <2> QED
    BY <1>3, <2>1, ZenonT(40) DEF Agrees, Pending
<1>5. Values(waiting) = Values(waiting) \ {g}
  BY <1>4, IInvFacts, ZenonT(40) DEF OneQueue, Queued
<1>6. /\ OneQueue' /\ active' \in Seq(Gid) /\ stopped' \in Seq(Gid) /\ tasks' \in SUBSET Gid
  <2>1. waiting' \in Seq(Gid) /\ Distinct(waiting') /\ Values(waiting') = Values(waiting) \ {g}
    BY <1>1, <1>5, IInvFacts, ZenonT(40) DEF OneQueue
  <2> QED
    BY <1>1, <1>2, <1>4, <2>1, IInvFacts, RetireQueues, ZenonT(40)
<1>7. /\ io' \in Seq(Handlers) /\ Once(io') /\ scheduled' \in BOOLEAN
      /\ scheduled' <=> Has(io', NoGid, "fill")
      /\ \A h \in Gid : \A d : Has(io', h, d) <=> Has(t, h, d)
  <2>1. ScheduleIf(TRUE, t)
    BY <1>1, ZenonT(40) DEF ScheduleIf
  <2> QED
    BY <1>2, <2>1, IInvFacts, ScheduleKeeps, ZenonT(40)
<1>8. /\ state' \in [Gid -> States] /\ state'[g] = r
      /\ work' \in [Gid -> {"idle", "running", "handing", "over"}] /\ work'[g] = "idle"
  BY <1>1, <1>2, IInvFacts, ZenonT(40) DEF States, Results
<1>9. TypeOK'
  BY <1>1, <1>6, <1>7, <1>8, IInvFacts, ZenonT(40) DEF TypeOK
<1>10. ASSUME NEW h \in Gid PROVE Agrees(h)'
  <2>1. CASE h = g
    <3>1. r # "Active"
      BY <1>2, ZenonT(40) DEF Results
    <3> QED
      BY <1>1, <1>2, <1>4, <1>7, <1>8, <2>1, <3>1, ZenonT(40) DEF Agrees, Pending
  <2>2. CASE h # g
    <3>1. state'[h] = state[h] /\ work'[h] = work[h]
      BY <1>1, <2>2, IInvFacts, ZenonT(40)
    <3> QED
      BY <1>1, <1>2, <1>7, <2>2, <3>1, IInvFacts, AgreesFrame, ZenonT(40)
  <2> QED
    BY <2>1, <2>2, ZenonT(40)
<1> QED
  BY <1>6, <1>7, <1>9, <1>10, ZenonT(40) DEF IInv, InFlightAgrees, Pending

\* The callback of a stop puts the task where stopTask() was asked to.
LEMMA RunDoneKeeps ==
  ASSUME IInv, RunDone
  PROVE  IInv'
<1> USE DEF flags
<1> DEFINE g == Head(io).gid
           n == Head(io).arg
           t == Tail(io)
<1>1. /\ Head1("done")
      /\ stopping' = [stopping EXCEPT ![g] = FALSE]
      /\ StopDone(<<g>>, n, state, moving, shuttingDown, t)
      /\ UNCHANGED <<kind, onStop, closing, resume, astray, sharing, limit, disk,
                     shuttingDown, forceShutdown>>
  BY ZenonT(40) DEF RunDone
<1>2. /\ g \in Gid /\ Has(io, g, "done") /\ n \in Nexts /\ g # NoGid
      /\ t \in Seq(Handlers) /\ Once(t) /\ (scheduled <=> Has(t, NoGid, "fill"))
      /\ \A h \in Gid : \A d : h # g => (Has(t, h, d) <=> Has(io, h, d))
      /\ \A d : ~Has(t, g, d)
  BY <1>1, HeadFacts, HandlerType, ConstantsOK, SMTT(40)
<1> HIDE DEF g, n, t
<1>3. Agrees(g)
  BY <1>2, IInvFacts, ZenonT(40)
<1>4. stopping[g] /\ onStop[g] = "none" /\ closing[g] = <<>>
  BY <1>2, <1>3, ZenonT(40) DEF Agrees, Pending
<1>5. onStop' = [onStop EXCEPT ![g] = "none"]
  BY <1>1, <1>4, IInvFacts, ZenonT(40) DEF TypeOK
<1>6. StopKeeps'
  BY <1>1, <1>2, <1>4, <1>5, StopOneKeeps, ZenonT(40)
<1> QED
  BY <1>1, <1>6, IInvFacts, StopKeepsIInv, ZenonT(40)

\* The completion of a move stores the directory and resumes the task.
LEMMA RunMovedKeeps ==
  ASSUME IInv, RunMoved
  PROVE  IInv'
<1> USE DEF queues, flags
<1> DEFINE g == Head(io).gid
           t == Tail(io)
           wake == resume[g] /\ state[g] = "Paused"
<1>1. /\ Head1("moved")
      /\ moving' = [moving EXCEPT ![g] = "no"]
      /\ astray' = astray \ {g}
      /\ state' = IF wake THEN [state EXCEPT ![g] = "Waiting"] ELSE state
      /\ ScheduleIf(wake, t)
      /\ UNCHANGED <<tasks, stopping, kind, work, onStop, closing, active, waiting, stopped,
                     resume, sharing, limit, disk, shuttingDown, forceShutdown, loop, session>>
  BY DEF RunMoved
<1>2. /\ g \in Gid /\ Has(io, g, "moved") /\ g # NoGid
      /\ t \in Seq(Handlers) /\ Once(t) /\ (scheduled <=> Has(t, NoGid, "fill"))
      /\ \A h \in Gid : \A d : h # g => (Has(t, h, d) <=> Has(io, h, d))
      /\ \A d : ~Has(t, g, d)
  BY <1>1, HeadFacts, ConstantsOK, SMTT(40)
<1>3. wake \in BOOLEAN
  BY <1>2, IInvFacts, ZenonT(40)
<1> HIDE DEF g, t, wake
<1>4. Agrees(g)
  BY <1>2, IInvFacts, ZenonT(40)
<1>5. /\ moving[g] = "posted" /\ state[g] = "Paused" /\ work[g] = "idle" /\ ~stopping[g]
      /\ onStop[g] = "none" /\ closing[g] = <<>>
  BY <1>2, <1>4, ZenonT(40) DEF Agrees, Pending
<1>6. /\ io' \in Seq(Handlers) /\ Once(io') /\ scheduled' \in BOOLEAN
      /\ scheduled' <=> Has(io', NoGid, "fill")
      /\ \A h \in Gid : \A d : Has(io', h, d) <=> Has(t, h, d)
  BY <1>1, <1>2, <1>3, IInvFacts, ScheduleKeeps, ZenonT(40)
<1>7. /\ state' \in [Gid -> States] /\ state'[g] \in Queued
      /\ \A h \in Gid : h # g => state'[h] = state[h]
  BY <1>1, <1>2, <1>5, IInvFacts, ZenonT(40) DEF States, Queued
<1>8. /\ moving' \in [Gid -> {"no", "waits", "started", "posted"}] /\ moving'[g] = "no"
      /\ astray' \in SUBSET Gid /\ g \notin astray'
  BY <1>1, <1>2, IInvFacts, ZenonT(40)
<1>9. TypeOK'
  BY <1>1, <1>6, <1>7, <1>8, IInvFacts, ZenonT(40) DEF TypeOK
<1>10. OneQueue'
  <2>1. state[g] \in Queued
    BY <1>5 DEF Queued
  <2> QED
    BY <1>1, <1>7, <2>1, IInvFacts, QueuedStates, ZenonT(40)
<1>11. ASSUME NEW h \in Gid PROVE Agrees(h)'
  <2>1. CASE h = g
    <3>1. state'[g] # "Active"
      BY <1>7, SMTT(40) DEF Queued
    <3> QED
      BY <1>1, <1>2, <1>5, <1>6, <1>8, <2>1, <3>1, ZenonT(40) DEF Agrees, Pending
  <2>2. CASE h # g
    <3>1. /\ state'[h] = state[h] /\ moving'[h] = moving[h]
          /\ h \in astray' <=> h \in astray
      BY <1>1, <1>7, <2>2, IInvFacts, ZenonT(40)
    <3> QED
      BY <1>1, <1>2, <1>6, <2>2, <3>1, IInvFacts, AgreesFrame, ZenonT(40)
  <2> QED
    BY <2>1, <2>2, ZenonT(40)
<1> QED
  BY <1>6, <1>9, <1>10, <1>11, ZenonT(40) DEF IInv, InFlightAgrees, Pending

\* The posted finishShutdown().
LEMMA RunFinishKeeps ==
  ASSUME IInv, RunFinish
  PROVE  IInv'
<1> USE DEF object, queues, moves, flags
<1>1. /\ Head1("finish") /\ io' = Tail(io)
      /\ UNCHANGED <<tasks, state, stopping, kind, work, onStop, closing, active, waiting,
                     stopped, moving, resume, astray, sharing, limit, disk, shuttingDown,
                     forceShutdown, scheduled>>
      /\ IF loop = "running" THEN FinishShutdown ELSE UNCHANGED <<loop, session>>
  BY SMTT(40) DEF RunFinish
<1>2. Head(io).gid = NoGid /\ NoGid \notin Gid
  BY <1>1, HeadFacts, HandlerType, ConstantsOK, ZenonT(40)
<1>3. /\ io' \in Seq(Handlers) /\ Once(io')
      /\ scheduled' <=> Has(io', NoGid, "fill")
      /\ \A h \in Gid : \A d : Has(io', h, d) <=> Has(io, h, d)
  <2> DEFINE t == Tail(io)
  <2>1. /\ t \in Seq(Handlers) /\ Once(t) /\ (scheduled <=> Has(t, NoGid, "fill"))
        /\ \A h \in Gid : \A d : h # Head(io).gid => (Has(t, h, d) <=> Has(io, h, d))
    BY <1>1, HeadFacts, SMTT(40)
  <2> HIDE DEF t
  <2>2. \A h \in Gid : \A d : Has(t, h, d) <=> Has(io, h, d)
    BY <1>2, <2>1, ZenonT(40)
  <2>3. io' = t /\ scheduled' = scheduled
    BY <1>1, ZenonT(40) DEF t
  <2> QED
    BY <2>1, <2>2, <2>3, ZenonT(40)
<1>4. loop' \in {"running", "closing", "stopped", "crashed"} /\ session' \in Seq(Entries)
  <2>1. active' \o waiting' \o stopped' \in Seq(Gid)
    BY <1>1, IInvFacts
  <2>2. SessionOf(active' \o waiting' \o stopped', state') \in Seq(Entries)
    BY <2>1, SessionType, ZenonT(40)
  <2> QED
    BY <1>1, <2>2, IInvFacts, ZenonT(40) DEF FinishShutdown
<1> QED
  BY <1>1, <1>3, <1>4, IInvFacts, QueuedStep, ZenonT(40)

\* Engine::handOver() replaces an HTTP task by a media task that runs.
LEMMA RunHandOverKeeps ==
  ASSUME IInv, NEW fails \in BOOLEAN, RunHandOver(fails)
  PROVE  IInv'
<1> USE DEF queues, moves, flags
<1> DEFINE g == Head(io).gid
           t == Tail(io)
           w == IF fails THEN "over" ELSE "running"
<1>1. /\ Head1("handOver")
      /\ UNCHANGED <<tasks, state, stopping, onStop, closing, active, waiting, stopped,
                     moving, resume, astray, sharing, limit, disk, shuttingDown,
                     forceShutdown, scheduled, loop, session>>
  BY SMTT(40) DEF RunHandOver
<1>2. /\ g \in Gid /\ Has(io, g, "handOver") /\ g # NoGid
      /\ t \in Seq(Handlers) /\ Once(t) /\ (scheduled <=> Has(t, NoGid, "fill"))
      /\ \A h \in Gid : \A d : h # g => (Has(t, h, d) <=> Has(io, h, d))
      /\ \A d : ~Has(t, g, d)
  BY <1>1, HeadFacts, ConstantsOK, SMTT(40)
<1>3. Agrees(g)
  BY <1>2, IInvFacts, ZenonT(40)
<1>4. /\ work[g] = "handing" /\ state[g] = "Active" /\ kind[g] = "http" /\ ~stopping[g]
      /\ onStop[g] = "none" /\ closing[g] = <<>> /\ g \notin astray /\ moving[g] = "no"
  <2>1. work[g] = "handing" /\ moving[g] \in {"no", "waits", "started", "posted"}
    BY <1>2, <1>3, IInvFacts, ZenonT(40) DEF Agrees, Pending
  <2> QED
    BY <1>3, <2>1, SMTT(40) DEF Agrees, Pending
<1>5. g \in Values(active)
  BY <1>2, <1>4, IInvFacts, ZenonT(40) DEF OneQueue
<1>6. /\ kind' = [kind EXCEPT ![g] = "media"] /\ work' = [work EXCEPT ![g] = w]
      /\ io' = IF fails THEN Append(t, Retire(g, "Error")) ELSE t
  BY <1>4, <1>5, SMTT(40) DEF RunHandOver
<1> HIDE DEF g, t
<1>7. /\ io' \in Seq(Handlers) /\ Once(io')
      /\ \A h, d : Has(io', h, d) <=> Has(t, h, d) \/ (fails /\ h = g /\ d = "retire")
  <2>1. CASE ~fails
    BY <1>2, <1>6, <2>1, ZenonT(40)
  <2>2. CASE fails
    <3> DEFINE x == Retire(g, "Error")
    <3>1. x \in Handlers /\ x.do = "retire" /\ x.gid = g
      BY <1>2, HandlerMade, ZenonT(40) DEF Results
    <3>2. io' = Append(t, x)
      BY <1>6, <2>2, ZenonT(40)
    <3> HIDE DEF x
    <3> QED
      BY <1>2, <2>2, <3>1, <3>2, HandlerAppend, ZenonT(40)
  <2> QED
    BY <2>1, <2>2, ZenonT(40)
<1>8. /\ kind' \in [Gid -> Kinds] /\ kind'[g] = "media" /\ work'[g] = w
      /\ work' \in [Gid -> {"idle", "running", "handing", "over"}]
  BY <1>2, <1>6, IInvFacts, ZenonT(40) DEF Kinds
<1>9. TypeOK'
  BY <1>1, <1>7, <1>8, IInvFacts, ZenonT(40) DEF TypeOK
<1>10. OneQueue'
  BY <1>1, IInvFacts DEF OneQueue
<1>11. ASSUME NEW h \in Gid PROVE Agrees(h)'
  <2>1. CASE h = g
    BY <1>1, <1>2, <1>4, <1>7, <1>8, <2>1, SMTT(40) DEF Agrees, Pending
  <2>2. CASE h # g
    <3>1. kind'[h] = kind[h] /\ work'[h] = work[h]
      BY <1>6, <2>2, IInvFacts, ZenonT(40)
    <3> QED
      BY <1>1, <1>2, <1>7, <2>2, <3>1, IInvFacts, AgreesFrame, ZenonT(40)
  <2> QED
    BY <2>1, <2>2, ZenonT(40)
<1>12. scheduled' <=> Has(io', NoGid, "fill")
  BY <1>1, <1>2, <1>7, ZenonT(40)
<1> QED
  BY <1>7, <1>9, <1>10, <1>11, <1>12, ZenonT(40) DEF IInv, InFlightAgrees, Pending

\* Two queues of handlers one after the other.
LEMMA HandlerConcat ==
  ASSUME NEW q \in Seq(Handlers), NEW r \in Seq(Handlers)
  PROVE  /\ q \o r \in Seq(Handlers)
         /\ \A g, do : Has(q \o r, g, do) <=> Has(q, g, do) \/ Has(r, g, do)
         /\ (/\ Once(q) /\ Once(r) /\ ~Has(r, NoGid, "fill")
             /\ \A g \in Gid : \A do, e : ~(Has(q, g, do) /\ Has(r, g, e)))
            => Once(q \o r)
<1> DEFINE u == q \o r
<1>1. /\ u \in Seq(Handlers) /\ DOMAIN u = 1..(Len(q) + Len(r))
      /\ DOMAIN q = 1..Len(q) /\ Len(q) \in Nat /\ DOMAIN r = 1..Len(r) /\ Len(r) \in Nat
  OBVIOUS
<1>2. \A i \in DOMAIN u : u[i] = IF i <= Len(q) THEN q[i] ELSE r[i - Len(q)]
  OBVIOUS
<1>3. /\ \A i \in DOMAIN q : i \in DOMAIN u /\ u[i] = q[i]
      /\ \A i \in DOMAIN r : i + Len(q) \in DOMAIN u /\ u[i + Len(q)] = r[i]
  BY <1>1, <1>2
<1>4. \A i \in DOMAIN u : \/ i \in DOMAIN q /\ u[i] = q[i]
                          \/ /\ i \notin DOMAIN q /\ i - Len(q) \in DOMAIN r
                             /\ u[i] = r[i - Len(q)]
  BY <1>1, <1>2
<1> HIDE DEF u
<1>5. ASSUME NEW g, NEW do PROVE Has(u, g, do) <=> Has(q, g, do) \/ Has(r, g, do)
  <2>1. Has(u, g, do) => Has(q, g, do) \/ Has(r, g, do)
    BY <1>4 DEF Has
  <2>2. Has(q, g, do) \/ Has(r, g, do) => Has(u, g, do)
    BY <1>3 DEF Has
  <2> QED
    BY <2>1, <2>2
<1>6. ASSUME Once(q), Once(r), ~Has(r, NoGid, "fill"),
             \A g \in Gid : \A do, e : ~(Has(q, g, do) /\ Has(r, g, e))
      PROVE  Once(u)
  <2>1. \A i \in DOMAIN q : q[i].gid \in Gid \cup {NoGid}
    BY <1>1, HandlerType
  <2>2. \A i \in DOMAIN r : r[i] \in Handlers
    BY <1>1
  <2>3. \A i \in DOMAIN r : r[i].do # "fill"
    BY <1>6, <2>2, HandlerType, ZenonT(40) DEF Has
  <2>4. \A i \in DOMAIN q, j \in DOMAIN r : q[i].gid # NoGid => q[i].gid # r[j].gid
    BY <1>6, <2>1, ZenonT(40) DEF Has
  <2>5. \A i, j \in DOMAIN u : i - Len(q) = j - Len(q) => i = j
    BY <1>1
  <2>6. ASSUME NEW i \in DOMAIN u, NEW j \in DOMAIN u,
               u[i].gid = u[j].gid, u[i].gid # NoGid
        PROVE  i = j
    BY <1>4, <1>6, <2>4, <2>5, <2>6, SMTT(40) DEF Once
  <2>7. ASSUME NEW i \in DOMAIN u, NEW j \in DOMAIN u, u[i].do = "fill", u[j].do = "fill"
        PROVE  i = j
    BY <1>4, <1>6, <2>3, <2>7, ZenonT(40) DEF Once
  <2> QED
    BY <2>6, <2>7 DEF Once
<1> QED
  BY <1>1, <1>5, <1>6, ZenonT(40) DEF u

\* The handlers that tasks failing within start() post.
LEMMA FailedHandlers ==
  ASSUME NEW f \in Seq(Gid), Distinct(f)
  PROVE  LET rs == [i \in DOMAIN f |-> Retire(f[i], "Error")]
         IN  /\ rs \in Seq(Handlers) /\ Once(rs)
             /\ \A g, do : Has(rs, g, do) <=> g \in Values(f) /\ do = "retire"
<1> DEFINE rs == [i \in DOMAIN f |-> Retire(f[i], "Error")]
<1>1. DOMAIN f = 1..Len(f) /\ Len(f) \in Nat /\ \A i \in DOMAIN f : f[i] \in Gid
  OBVIOUS
<1>2. DOMAIN rs = DOMAIN f
  OBVIOUS
<1>3. \A i \in DOMAIN f : rs[i] \in Handlers /\ rs[i].do = "retire" /\ rs[i].gid = f[i]
  <2> SUFFICES ASSUME NEW i \in DOMAIN f
               PROVE  rs[i] \in Handlers /\ rs[i].do = "retire" /\ rs[i].gid = f[i]
    OBVIOUS
  <2> DEFINE x == Retire(f[i], "Error")
  <2>1. rs[i] = x
    OBVIOUS
  <2>2. x \in Handlers /\ x.do = "retire" /\ x.gid = f[i]
    BY <1>1, HandlerMade, ZenonT(40) DEF Results
  <2> HIDE DEF x, rs
  <2> QED
    BY <2>1, <2>2, ZenonT(40)
<1>4. rs \in Seq(Handlers)
  <2>1. rs = [i \in 1..Len(f) |-> rs[i]]
    BY <1>1, ZenonT(40)
  <2> HIDE DEF rs
  <2> QED
    BY <1>1, <1>2, <1>3, <2>1, SMTT(40)
<1> HIDE DEF rs
<1>5. Once(rs)
  BY <1>2, <1>3 DEF Once, Distinct
<1>6. ASSUME NEW g, NEW do PROVE Has(rs, g, do) <=> g \in Values(f) /\ do = "retire"
  BY <1>2, <1>3 DEF Has, Values
<1> QED
  BY <1>4, <1>5, <1>6, ZenonT(40) DEF rs

\* Handlers about downloads, then handlers about none.
LEMMA ThreeQueues ==
  ASSUME NEW q \in Seq(Handlers), Once(q), ~Has(q, NoGid, "fill"),
         NEW r \in Seq(Handlers), Once(r), ~Has(r, NoGid, "fill"),
         \A g \in Gid : \A do, e : ~(Has(q, g, do) /\ Has(r, g, e)),
         NEW last \in Seq(Handlers), Once(last), ~Has(last, NoGid, "fill"),
         \A g \in Gid : \A do : ~Has(last, g, do)
  PROVE  LET new == (q \o r) \o last
         IN  /\ new \in Seq(Handlers) /\ Once(new) /\ ~Has(new, NoGid, "fill")
             /\ \A g \in Gid : \A do : Has(new, g, do) <=> Has(q, g, do) \/ Has(r, g, do)
<1> DEFINE u == q \o r
<1>1. u \in Seq(Handlers) /\ Once(u)
  BY HandlerConcat, ZenonT(40)
<1>2. \A g, do : Has(u, g, do) <=> Has(q, g, do) \/ Has(r, g, do)
  BY HandlerConcat
<1> HIDE DEF u
<1> DEFINE new == u \o last
<1>3. new \in Seq(Handlers) /\ Once(new)
  BY <1>1, HandlerConcat, ZenonT(40)
<1>4. \A g, do : Has(new, g, do) <=> Has(u, g, do) \/ Has(last, g, do)
  BY <1>1, HandlerConcat
<1> HIDE DEF new
<1>5. ~Has(new, NoGid, "fill")
  BY <1>2, <1>4
<1>6. \A g \in Gid : \A do : Has(new, g, do) <=> Has(q, g, do) \/ Has(r, g, do)
  BY <1>2, <1>4, ZenonT(40)
<1> QED
  BY <1>3, <1>5, <1>6, ZenonT(40) DEF new, u

\* The handlers queued after fill().
LEMMA FillHandlers ==
  ASSUME NEW q \in Seq(Handlers), Once(q), ~Has(q, NoGid, "fill"),
         NEW f \in Seq(Gid), Distinct(f), \A g \in Values(f) : \A do : ~Has(q, g, do),
         NEW end \in BOOLEAN
  PROVE  LET new == q \o [i \in DOMAIN f |-> Retire(f[i], "Error")]
                      \o (IF end THEN <<Finish>> ELSE <<>>)
         IN  /\ new \in Seq(Handlers) /\ Once(new) /\ ~Has(new, NoGid, "fill")
             /\ \A g \in Gid : \A do :
                  Has(new, g, do) <=> Has(q, g, do) \/ (g \in Values(f) /\ do = "retire")
<1> DEFINE rs == [i \in DOMAIN f |-> Retire(f[i], "Error")]
           last == IF end THEN <<Finish>> ELSE <<>>
<1>1. /\ rs \in Seq(Handlers) /\ Once(rs)
      /\ \A g, do : Has(rs, g, do) <=> g \in Values(f) /\ do = "retire"
  BY FailedHandlers
<1>2. last \in Seq(Handlers) /\ Once(last) /\ ~Has(last, NoGid, "fill")
  <2>1. CASE ~end
    BY <2>1, SMTT(40) DEF Once, Has
  <2>2. CASE end
    <3>1. last = <<Finish>> /\ Finish \in Handlers /\ Finish.do = "finish" /\ Finish.gid = NoGid
      BY <2>2, HandlerMade
    <3>2. DOMAIN last = {1} /\ last[1] = Finish
      BY <3>1
    <3> HIDE DEF last
    <3>3. last \in Seq(Handlers)
      BY <3>1
    <3> QED
      BY <3>1, <3>2, <3>3, ZenonT(40) DEF Once, Has
  <2> QED
    BY <2>1, <2>2, ZenonT(40)
<1>3. \A g \in Gid : \A do : ~Has(last, g, do)
  <2>1. CASE ~end
    BY <2>1, SMTT(40) DEF Has
  <2>2. CASE end
    <3>1. last = <<Finish>> /\ Finish.gid = NoGid /\ NoGid \notin Gid
      BY <2>2, HandlerMade, ConstantsOK, ZenonT(40)
    <3>2. DOMAIN last = {1} /\ last[1] = Finish
      BY <3>1
    <3> QED
      BY <3>1, <3>2, ZenonT(40) DEF Has
  <2> QED
    BY <2>1, <2>2, ZenonT(40)
<1> HIDE DEF rs, last
<1>5. /\ \A g \in Gid : \A do, e : ~(Has(q, g, do) /\ Has(rs, g, e))
      /\ ~Has(rs, NoGid, "fill")
  BY <1>1
<1> DEFINE all == (q \o rs) \o last
<1>6. /\ all \in Seq(Handlers) /\ Once(all) /\ ~Has(all, NoGid, "fill")
      /\ \A g \in Gid : \A do : Has(all, g, do) <=> Has(q, g, do) \/ Has(rs, g, do)
  BY <1>1, <1>2, <1>3, <1>5, ThreeQueues, ZenonT(40)
<1> HIDE DEF all
<1>7. \A g \in Gid : \A do :
        Has(all, g, do) <=> Has(q, g, do) \/ (g \in Values(f) /\ do = "retire")
  BY <1>1, <1>6, SMTT(40)
<1> QED
  BY <1>6, <1>7, ZenonT(40) DEF all, rs, last

\* What fill() takes from the waiting list.
LEMMA FillQueues ==
  ASSUME TypeOK, OneQueue, NEW picked \in SUBSET DOMAIN waiting,
         \A i \in picked : state[waiting[i]] = "Waiting",
         NEW started, started = KeepAt(waiting, picked),
         state' = [g \in Gid |-> IF g \in Values(started) THEN "Active" ELSE state[g]],
         active' = active \o started,
         waiting' = KeepAt(waiting, DOMAIN waiting \ picked),
         UNCHANGED <<tasks, stopped>>
  PROVE  /\ started \in Seq(Gid) /\ Distinct(started) /\ Values(started) \subseteq Gid
         /\ \A g \in Values(started) : state[g] = "Waiting"
         /\ active' \in Seq(Gid) /\ waiting' \in Seq(Gid)
         /\ OneQueue'
<1> DEFINE P == Values(started)
           rest == DOMAIN waiting \ picked
<1>1. /\ active \in Seq(Gid) /\ waiting \in Seq(Gid) /\ stopped \in Seq(Gid)
      /\ tasks \in SUBSET Gid /\ state \in [Gid -> States]
  BY DEF TypeOK
<1>2. Distinct(waiting) /\ Distinct(active) /\ Distinct(stopped)
  BY DEF OneQueue
<1>3. /\ started \in Seq(Gid) /\ P = {waiting[k] : k \in picked} /\ Distinct(started)
  BY <1>1, <1>2, KeepAtProperties, ZenonT(40)
<1>4. rest \in SUBSET DOMAIN waiting
  OBVIOUS
<1>5. /\ waiting' \in Seq(Gid) /\ Values(waiting') = {waiting[k] : k \in rest}
      /\ Distinct(waiting')
  <2> HIDE DEF rest
  <2> QED
    BY <1>1, <1>2, <1>4, KeepAtProperties, ZenonT(40) DEF rest
<1>6. P \subseteq Gid /\ P \subseteq Values(waiting) /\ \A g \in P : state[g] = "Waiting"
  <2> HIDE DEF P
  <2> QED
    BY <1>1, <1>3 DEF Values
<1>7. Values(waiting') = Values(waiting) \ P
  <2>1. \A x : x \in {waiting[k] : k \in rest}
                <=> x \in Values(waiting) /\ x \notin {waiting[k] : k \in picked}
    BY <1>2 DEF Values, Distinct
  <2> HIDE DEF P, rest
  <2> QED
    BY <1>3, <1>5, <2>1, ZenonT(40)
<1>8. "Active" \notin Queued /\ "Active" \notin Results /\ "Waiting" \notin Results
      /\ "Waiting" \in Queued
  BY ZenonT(40) DEF Queued, Results
<1>9. P \cap Values(active) = {}
  BY <1>6, ZenonT(40) DEF OneQueue
<1>10. active' \in Seq(Gid) /\ Values(active') = Values(active) \cup P /\ Distinct(active')
  BY <1>1, <1>2, <1>3, <1>9, ConcatValues, SMTT(40)
<1> HIDE DEF P, rest
<1>11. \A g \in Gid : state'[g] = IF g \in P THEN "Active" ELSE state[g]
  BY ZenonT(40) DEF P
<1>12. Values(active') = {g \in Gid : state'[g] = "Active"}
  BY <1>6, <1>10, <1>11, ZenonT(40) DEF OneQueue
<1>13. Values(waiting') = {g \in Gid : state'[g] \in Queued}
  BY <1>6, <1>7, <1>8, <1>11, ZenonT(40) DEF OneQueue
<1>14. Values(stopped) = {g \in tasks : state'[g] \in Results}
  <2>1. \A g \in Gid : state'[g] \in Results <=> state[g] \in Results
    BY <1>6, <1>8, <1>11, ZenonT(40)
  <2> QED
    BY <1>1, <2>1, ZenonT(40) DEF OneQueue
<1>15. tasks = Values(active') \cup Values(waiting') \cup Values(stopped)
  BY <1>6, <1>7, <1>10, ZenonT(40) DEF OneQueue
<1> QED
  BY <1>2, <1>3, <1>5, <1>6, <1>10, <1>12, <1>13, <1>14, <1>15, ZenonT(40) DEF OneQueue, P

\* Engine::fill() starts what there is room for; tasks that fail within start() post
\* their retire().
LEMMA RunFillKeeps ==
  ASSUME IInv, NEW failing \in SUBSET Gid, RunFill(failing)
  PROVE  IInv'
<1> USE DEF moves
<1> DEFINE q == Tail(io)
<1>1. /\ Head1("fill") /\ scheduled' = FALSE
      /\ UNCHANGED <<tasks, stopping, kind, onStop, closing, stopped, moving, resume, astray,
                     limit, forceShutdown, loop, session>>
  BY ZenonT(40) DEF RunFill
<1>2. /\ q \in Seq(Handlers) /\ Once(q) /\ ~Has(q, NoGid, "fill")
      /\ Head(io).gid = NoGid /\ NoGid \notin Gid
  BY <1>1, HeadFacts, HandlerType, ConstantsOK, ZenonT(40)
<1>3. \A h \in Gid : \A d : Has(q, h, d) <=> Has(io, h, d)
  <2>1. \A h \in Gid : \A d : h # Head(io).gid => (Has(q, h, d) <=> Has(io, h, d))
    BY <1>1, HeadFacts, ZenonT(40)
  <2> QED
    BY <1>2, <2>1, ZenonT(40)
<1> HIDE DEF q
<1>4. CASE shuttingDown
  <2>1. /\ io' = q
        /\ UNCHANGED <<state, work, active, waiting, sharing, disk, shuttingDown>>
    BY <1>4, ZenonT(40) DEF RunFill, q
  <2>2. /\ io' \in Seq(Handlers) /\ Once(io') /\ scheduled' \in BOOLEAN
        /\ scheduled' <=> Has(io', NoGid, "fill")
        /\ \A h \in Gid : \A d : Has(io', h, d) <=> Has(io, h, d)
    BY <1>1, <1>2, <1>3, <2>1, ZenonT(40)
  <2> QED
    BY <1>1, <2>1, <2>2, IInvFacts, QueuedStep, ZenonT(40)
<1>5. CASE ~shuttingDown
  <2> DEFINE first == {i \in DOMAIN waiting :
                         /\ state[waiting[i]] = "Waiting"
                         /\ \A j \in 1..(i - 1) : waiting[j] # waiting[i]}
             picked == {i \in first : Rank(first, i) <= Room}
             started == KeepAt(waiting, picked)
             P == Values(started)
             failed == Only(started, failing)
             end == Drained /\ ~Rpc /\ ~shuttingDown
  <2>1. /\ failing \subseteq P
        /\ state' = [g \in Gid |-> IF g \in P THEN "Active" ELSE state[g]]
        /\ work' = [g \in Gid |-> IF g \in failing THEN "over"
                                  ELSE IF g \in P THEN "running" ELSE work[g]]
        /\ active' = active \o started
        /\ waiting' = KeepAt(waiting, DOMAIN waiting \ picked)
        /\ sharing' = sharing \ P
        /\ disk' \in BOOLEAN
        /\ shuttingDown' \in BOOLEAN
        /\ io' = q \o [i \in DOMAIN failed |-> Retire(failed[i], "Error")]
                   \o (IF end THEN <<Finish>> ELSE <<>>)
    BY <1>5, ZenonT(40) DEF RunFill, q
  <2>2. /\ picked \in SUBSET DOMAIN waiting
        /\ \A i \in picked : state[waiting[i]] = "Waiting"
        /\ end \in BOOLEAN
    BY SMTT(40) DEF Drained
  <2> HIDE DEF picked, end
  <2> HIDE DEF started
  <2>3. /\ started \in Seq(Gid) /\ Distinct(started) /\ P \subseteq Gid
        /\ \A g \in P : state[g] = "Waiting"
        /\ active' \in Seq(Gid) /\ waiting' \in Seq(Gid)
        /\ OneQueue'
    <3>1. started = KeepAt(waiting, picked) /\ UNCHANGED <<tasks, stopped>>
      BY <1>1, SMTT(40) DEF started
    <3> QED
      BY <2>1, <2>2, <3>1, IInvFacts, FillQueues, ZenonT(40)
  <2>4. failed \in Seq(Gid) /\ Distinct(failed) /\ Values(failed) = failing
    <3>1. /\ failed \in Seq(Gid) /\ Distinct(failed)
          /\ Values(failed) = Values(started) \cap failing
      BY <2>3, OnlyProperties, ZenonT(40)
    <3>2. failing \subseteq Values(started)
      BY <2>1, ZenonT(40)
    <3> HIDE DEF failed
    <3> QED
      BY <3>1, <3>2, ZenonT(40)
  <2>5. ASSUME NEW g \in P
        PROVE  /\ g \in Gid /\ work[g] = "idle" /\ ~stopping[g] /\ moving[g] = "no"
               /\ onStop[g] = "none" /\ closing[g] = <<>> /\ g \notin astray
               /\ \A do : ~Has(io, g, do)
    <3>1. g \in Gid /\ state[g] = "Waiting" /\ Agrees(g)
      BY <2>3, IInvFacts, ZenonT(40)
    <3>2. work[g] = "idle" /\ moving[g] \in {"no", "waits", "started", "posted"}
      BY <3>1, IInvFacts, ZenonT(40) DEF Agrees
    <3>3. /\ ~stopping[g] /\ moving[g] = "no" /\ onStop[g] = "none" /\ closing[g] = <<>>
          /\ g \notin astray /\ ~Has(io, g, "done")
      BY <3>1, <3>2, ZenonT(40) DEF Agrees, Pending
    <3>4. \A do : ~Has(io, g, do)
      BY <3>1, <3>2, <3>3, NothingPending, ZenonT(40)
    <3> QED
      BY <3>1, <3>2, <3>3, <3>4, ZenonT(40)
  <2> HIDE DEF failed, P
  <2>6. /\ io' \in Seq(Handlers) /\ Once(io') /\ ~Has(io', NoGid, "fill")
        /\ \A g \in Gid : \A do :
             Has(io', g, do) <=> Has(q, g, do) \/ (g \in failing /\ do = "retire")
    <3>1. \A g \in Values(failed) : \A do : ~Has(q, g, do)
      BY <1>3, <2>1, <2>4, <2>5, ZenonT(40)
    <3>2. /\ io' \in Seq(Handlers) /\ Once(io') /\ ~Has(io', NoGid, "fill")
          /\ \A g \in Gid : \A do :
               Has(io', g, do) <=> Has(q, g, do) \/ (g \in Values(failed) /\ do = "retire")
      <4> DEFINE all == q \o [i \in DOMAIN failed |-> Retire(failed[i], "Error")]
                          \o (IF end THEN <<Finish>> ELSE <<>>)
      <4>1. /\ all \in Seq(Handlers) /\ Once(all) /\ ~Has(all, NoGid, "fill")
            /\ \A g \in Gid : \A do :
                 Has(all, g, do) <=> Has(q, g, do) \/ (g \in Values(failed) /\ do = "retire")
        BY <1>2, <2>2, <2>4, <3>1, FillHandlers, ZenonT(40)
      <4>2. io' = all
        BY <2>1, ZenonT(40)
      <4> HIDE DEF all
      <4> QED
        BY <4>1, <4>2, SMTT(40)
    <3> QED
      BY <2>4, <3>2, ZenonT(40)
  <2>7. /\ state' \in [Gid -> States]
        /\ work' \in [Gid -> {"idle", "running", "handing", "over"}]
        /\ sharing' \in SUBSET Gid
    BY <2>1, IInvFacts, SMTT(40) DEF States
  <2>8. TypeOK'
    BY <1>1, <2>1, <2>3, <2>6, <2>7, IInvFacts, ZenonT(40) DEF TypeOK
  <2>9. ASSUME NEW h \in Gid PROVE Agrees(h)'
    <3>1. CASE h \in P
      <4>1. state'[h] = "Active" /\ work'[h] = IF h \in failing THEN "over" ELSE "running"
        BY <2>1, <3>1, ZenonT(40)
      <4>2. \A do : Has(io', h, do) <=> h \in failing /\ do = "retire"
        BY <1>3, <2>5, <2>6, <3>1, ZenonT(40)
      <4>3. /\ ~stopping'[h] /\ moving'[h] = "no" /\ onStop'[h] = "none"
            /\ closing'[h] = <<>> /\ h \notin astray'
        BY <1>1, <2>5, <3>1, ZenonT(40)
      <4>4. /\ Has(io', h, "retire") <=> h \in failing
            /\ ~Has(io', h, "handOver") /\ ~Has(io', h, "moved") /\ ~Has(io', h, "done")
        BY <4>2
      <4>5. work'[h] \in {"over", "running"} /\ (work'[h] = "over" <=> h \in failing)
        BY <4>1
      <4> QED
        BY <4>1, <4>3, <4>4, <4>5, ZenonT(40) DEF Agrees, Pending
    <3>2. CASE h \notin P
      <4>1. state'[h] = state[h] /\ work'[h] = work[h] /\ h \notin failing
        BY <2>1, <3>2, ZenonT(40)
      <4>2. \A do : Has(io', h, do) <=> Has(io, h, do)
        BY <1>3, <2>6, <4>1, ZenonT(40)
      <4> QED
        BY <1>1, <4>1, <4>2, IInvFacts, AgreesFrame, ZenonT(40)
    <3> QED
      BY <3>1, <3>2, ZenonT(40)
  <2> QED
    BY <1>1, <2>3, <2>6, <2>8, <2>9, ZenonT(40) DEF IInv, InFlightAgrees, Pending
<1> QED
  BY <1>4, <1>5
=============================================================================

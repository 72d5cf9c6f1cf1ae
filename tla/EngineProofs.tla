---------------------------- MODULE EngineProofs ----------------------------
(* Engine keeps its queues and what is in flight in agreement, for any      *)
(* downloads, limits and options, as long as no stop reaches a download     *)
(* that has ended, hands over or is stopping already.                       *)
EXTENDS EngineStepProofs

\* Every step of the engine, its clients, its tasks and the disk pool.
LEMMA NextKeeps ==
  ASSUME Orderly, IInv, [Next]_vars
  PROVE  IInv'
<1>1. CASE TaskCall
  <2>1. PICK g \in Gid : Pause(g) \/ Unpause(g) \/ \E force \in BOOLEAN : Remove(g, force)
    BY <1>1, ZenonT(40) DEF TaskCall
  <2> QED
    BY <2>1, PauseKeeps, UnpauseKeeps, RemoveKeeps, ZenonT(40)
<1>2. CASE OtherCall
  <2>1. CASE \E g \in Gid :
                \/ \E paused \in BOOLEAN, at \in 0..Len(waiting) : Add(g, paused, at)
                \/ Relocate(g) \/ RemoveResult(g) \/ Requeue(g)
                \/ \E at \in 0..Len(waiting) : ChangePosition(g, at)
    BY <2>1, AddKeeps, RelocateKeeps, RemoveResultKeeps, RequeueKeeps, ChangePositionKeeps, ZenonT(40)
  <2>2. CASE PauseAll \/ UnpauseAll \/ PurgeResults \/ SaveSession
    BY <2>2, PauseAllKeeps, UnpauseAllKeeps, PurgeResultsKeeps, SaveSessionKeeps, ZenonT(40)
  <2>3. CASE \E n \in Limits : ChangeLimit(n)
    BY <2>3, ChangeLimitKeeps, ZenonT(40)
  <2>4. CASE \E force \in BOOLEAN : Shutdown(force)
    BY <2>4, ShutdownKeeps, ZenonT(40)
  <2> QED
    BY <1>2, <2>1, <2>2, <2>3, <2>4, ZenonT(40) DEF OtherCall
<1>3. CASE EngineStep
  <2>1. CASE TaskStep
    <3>1. PICK g \in Gid :
             \/ OpenOutput(g) \/ Fail(g) \/ AwaitSelection(g) \/ Share(g) \/ AskHandOver(g)
             \/ Complete(g, <<>>) \/ \E n \in Gid : Complete(g, <<n>>)
      BY <2>1, ZenonT(40) DEF TaskStep
    <3>2. CASE Share(g)
      BY <3>2, ShareKeeps, ZenonT(40)
    <3>3. CASE OpenOutput(g) \/ Fail(g) \/ AwaitSelection(g) \/ AskHandOver(g)
      BY <3>3, OpenOutputKeeps, FailKeeps, AwaitSelectionKeeps, AskHandOverKeeps, ZenonT(40)
    <3>4. CASE Complete(g, <<>>)
      <4> DEFINE new == <<>>
      <4>1. new \in Seq(Gid) /\ Distinct(new) /\ Complete(g, new)
        BY <3>4, SMTT(40) DEF Distinct
      <4> HIDE DEF new
      <4> QED
        BY <4>1, CompleteKeeps, ZenonT(40)
    <3>5. CASE \E n \in Gid : Complete(g, <<n>>)
      <4>1. PICK n \in Gid : Complete(g, <<n>>)
        BY <3>5, ZenonT(40)
      <4> DEFINE new == <<n>>
      <4>2. new \in Seq(Gid) /\ Distinct(new) /\ Complete(g, new)
        BY <4>1, SMTT(40) DEF Distinct
      <4> HIDE DEF new
      <4> QED
        BY <4>2, CompleteKeeps, ZenonT(40)
    <3> QED
      BY <3>1, <3>2, <3>3, <3>4, <3>5, ZenonT(40)
  <2>2. CASE StopStep
    BY <2>2, QuiesceKeeps, DetachedKeeps, ZenonT(40) DEF StopStep
  <2>3. CASE DiskStep
    BY <2>3, DiskClosesKeeps, DiskMovesKeeps, ZenonT(40) DEF DiskStep
  <2>4. CASE RunHandler
    BY <2>4, RunFillKeeps, RunRetireKeeps, RunDoneKeeps, RunMovedKeeps, RunFinishKeeps,
       RunHandOverKeeps, ZenonT(40) DEF RunHandler
  <2>5. CASE StopLoop
    BY <2>5, StopLoopKeeps, ZenonT(40)
  <2>6. CASE Terminated
    BY <2>6, StutterKeeps, ZenonT(40) DEF Terminated
  <2> QED
    BY <1>3, <2>1, <2>2, <2>3, <2>4, <2>5, <2>6, ZenonT(40) DEF EngineStep
<1>4. CASE UNCHANGED vars
  BY <1>4, StutterKeeps, ZenonT(40)
<1> QED
  BY <1>1, <1>2, <1>3, <1>4, ZenonT(40) DEF Next

\* That files move only while a task is quiet follows from the invariant.
LEMMA IInvMovesOnlyQuiet == IInv => MovesOnlyQuiet
<1> SUFFICES ASSUME IInv, NEW g \in Gid, moving[g] \in {"started", "posted"}
             PROVE  /\ state[g] = "Paused" /\ work[g] = "idle" /\ ~stopping[g]
                    /\ onStop[g] = "none" /\ closing[g] = <<>>
                    /\ \A i \in DOMAIN io : io[i].gid = g => io[i].do = "moved"
  BY DEF MovesOnlyQuiet
<1>1. Agrees(g) /\ g # NoGid
  BY IInvFacts, ConstantsOK, ZenonT(40)
<1>2. /\ state[g] = "Paused" /\ work[g] = "idle" /\ ~stopping[g]
      /\ onStop[g] = "none" /\ closing[g] = <<>>
      /\ ~Has(io, g, "done") /\ ~Has(io, g, "retire") /\ ~Has(io, g, "handOver")
  BY <1>1, ZenonT(40) DEF Agrees, Pending
<1>3. \A i \in DOMAIN io : io[i] \in Handlers
  BY IInvFacts
<1>4. \A i \in DOMAIN io : io[i].gid = g => io[i].do = "moved"
  BY <1>1, <1>2, <1>3, HandlerType, ZenonT(40) DEF Has
<1> QED
  BY <1>2, <1>4, ZenonT(40)

\* The inductive invariant holds in every state of the engine as long as no
\* stop reaches a download that ended, hands over or is stopping already.
THEOREM EngineInvariant ==
  ASSUME Orderly
  PROVE  Spec => []IInv
<1>1. Init => IInv
  BY InitIInv
<1>2. IInv /\ [Next]_vars => IInv'
  BY NextKeeps
<1> QED
  BY <1>1, <1>2, PTL DEF Spec

\* Every variable keeps its type: in particular no handler about an unknown
\* download is posted and moving_ has no entry in an undefined phase.
THEOREM TypeCorrect ==
  ASSUME Orderly
  PROVE  Spec => []TypeOK
<1>1. IInv => TypeOK
  BY DEF IInv
<1> QED
  BY <1>1, EngineInvariant, PTL

\* active_, waiting_ and stopped_ partition tasks_ by Task::state_, for any
\* number of downloads, any limits and any max-download-result.
THEOREM QueuesPartition ==
  ASSUME Orderly
  PROVE  Spec => []OneQueue
<1>1. IInv => OneQueue
  BY DEF IInv
<1> QED
  BY <1>1, EngineInvariant, PTL

\* The flags of every task agree with the handlers, file closes and moves in
\* flight for it: each stop has exactly one callback on its way, each deferred
\* retire() or handOver() exactly one waiting task.
THEOREM FlightAgreement ==
  ASSUME Orderly
  PROVE  Spec => []InFlightAgrees
<1>1. IInv => InFlightAgrees
  BY DEF IInv
<1> QED
  BY <1>1, EngineInvariant, PTL

\* The files of a download are moved only while nothing else can touch them.
THEOREM QuietMoves ==
  ASSUME Orderly
  PROVE  Spec => []MovesOnlyQuiet
<1>1. IInv => MovesOnlyQuiet
  BY IInvMovesOnlyQuiet
<1> QED
  BY <1>1, EngineInvariant, PTL

-----------------------------------------------------------------------------
(* Slots: no wakeup of fill() is lost, fill() keeps to the limit, and the  *)
(* loop ends only when no task is active.                                  *)

\* Steps of the protocol tasks and of the disk pool, and the last ones of the loop.
LEMMA StepMild ==
  ASSUME IInv, TaskStep \/ StopStep \/ DiskStep \/ StopLoop \/ Terminated,
         \A g \in Gid : ~Share(g)
  PROVE  Mild
<1> USE DEF object, queues, moves, flags
<1>1. /\ io \in Seq(Handlers) /\ shuttingDown \in BOOLEAN
      /\ \A g \in Gid : onStop[g] \in Nexts \cup {"none"} /\ closing[g] \in Seq(Nexts)
  BY IInvFacts, ZenonT(40) DEF TypeOK
<1>2. ASSUME NEW g \in Gid, OpenOutput(g) \/ Quiesce(g) PROVE Mild
  BY <1>2, SilentMild, ZenonT(40) DEF OpenOutput, Quiesce
<1>3. ASSUME NEW g \in Gid, Fail(g) \/ AskHandOver(g) PROVE Mild
  <2>1. PICK x \in Handlers : x.do # "finish" /\ io' = Append(io, x)
    BY <1>3, HandlerMade, ZenonT(40) DEF Fail, AskHandOver, Results
  <2>2. Has(io', NoGid, "finish") => Has(io, NoGid, "finish")
    BY <1>1, <2>1, OtherFinish, ZenonT(40)
  <2>3. UNCHANGED <<active, shuttingDown, loop, sharing, limit, scheduled, state>>
    BY <1>3, ZenonT(40) DEF Fail, AskHandOver
  <2> QED
    BY <2>2, <2>3, StillMild, ZenonT(40)
<1>4. ASSUME NEW g \in Gid, AwaitSelection(g) PROVE Mild
  BY <1>4, PauseTaskMild, ZenonT(40) DEF AwaitSelection
<1>5. ASSUME NEW g \in Gid, NEW new, Complete(g, new) PROVE Mild
  <2> DEFINE q == IF new = <<>> \/ scheduled THEN io ELSE Append(io, Fill)
  <2>1. q \in Seq(Handlers) /\ (Has(q, NoGid, "finish") => Has(io, NoGid, "finish"))
    BY <1>1, HandlerMade, HandlerAppend, OtherFinish, ZenonT(40)
  <2>2. io' = Append(q, Retire(g, "Complete"))
    BY <1>5, ZenonT(40) DEF Complete
  <2> HIDE DEF q
  <2>3. Retire(g, "Complete") \in Handlers /\ Retire(g, "Complete").do # "finish"
    BY HandlerMade, ZenonT(40) DEF Results
  <2>4. Has(io', NoGid, "finish") => Has(io, NoGid, "finish")
    BY <2>1, <2>2, <2>3, OtherFinish, ZenonT(40)
  <2>5. /\ UNCHANGED <<active, shuttingDown, loop, sharing, limit>>
        /\ scheduled' = (scheduled \/ new # <<>>)
        /\ state' = [n \in Gid |-> IF n \in Values(new) THEN "Waiting" ELSE state[n]]
    BY <1>5, ZenonT(40) DEF Complete
  <2>6. ASSUME new = <<>> PROVE \A n \in Gid : state'[n] = "Waiting" => state[n] = "Waiting"
    <3>1. Values(new) = {}
      BY <2>6, SMTT(40) DEF Values
    <3> QED
      BY <2>5, <3>1, SMTT(40)
  <2> QED
    BY <2>4, <2>5, <2>6, StillMild, ZenonT(40)
<1>6. ASSUME NEW g \in Gid, Detached(g) PROVE Mild
  <2> DEFINE ys == <<g>>
  <2>1. ys \in Seq(Gid) /\ ys # <<>>
    BY SMTT(40)
  <2>2. /\ UNCHANGED <<sharing, limit, shuttingDown>> /\ onStop[g] \in Nexts
        /\ StopDone(ys, onStop[g], state, moving, shuttingDown, io)
    BY <1>1, <1>6, ZenonT(40) DEF Detached
  <2> HIDE DEF ys
  <2> QED
    BY <1>1, <2>1, <2>2, StopDoneMild, ZenonT(40)
<1>7. ASSUME NEW g \in Gid, DiskCloses(g) PROVE Mild
  <2>1. Head(closing[g]) \in Nexts
    BY <1>1, <1>7, SMTT(40) DEF DiskCloses
  <2>2. PICK x \in Handlers : x.do # "finish" /\ io' = Append(io, x)
    BY <1>7, <2>1, HandlerMade, ZenonT(40) DEF DiskCloses
  <2>3. Has(io', NoGid, "finish") => Has(io, NoGid, "finish")
    BY <1>1, <2>2, OtherFinish, ZenonT(40)
  <2> QED
    BY <1>7, <2>3, StillMild, ZenonT(40) DEF DiskCloses
<1>8. ASSUME NEW g \in Gid, NEW ok \in BOOLEAN, DiskMoves(g, ok) PROVE Mild
  <2>1. PICK x \in Handlers : x.do # "finish" /\ io' = Append(io, x)
    BY <1>8, HandlerMade, ZenonT(40) DEF DiskMoves
  <2>2. Has(io', NoGid, "finish") => Has(io, NoGid, "finish")
    BY <1>1, <2>1, OtherFinish, ZenonT(40)
  <2> QED
    BY <1>8, <2>2, StillMild, ZenonT(40) DEF DiskMoves
<1>9. ASSUME StopLoop PROVE Mild
  BY <1>9, ZenonT(40) DEF StopLoop, Mild, Ended, SomeWaiting
<1>10. ASSUME Terminated PROVE Mild
  BY <1>10, SilentMild, ZenonT(40) DEF Terminated, vars
<1>11. ASSUME TaskStep PROVE Mild
  <2>1. PICK g \in Gid :
           \/ OpenOutput(g) \/ Fail(g) \/ AwaitSelection(g) \/ Share(g) \/ AskHandOver(g)
           \/ Complete(g, <<>>) \/ \E n \in Gid : Complete(g, <<n>>)
    BY <1>11, ZenonT(40) DEF TaskStep
  <2> QED
    BY <1>2, <1>3, <1>4, <1>5, <2>1, ZenonT(40)
<1>12. ASSUME StopStep \/ DiskStep PROVE Mild
  BY <1>2, <1>6, <1>7, <1>8, <1>12, ZenonT(40) DEF StopStep, DiskStep
<1> QED
  BY <1>9, <1>10, <1>11, <1>12, ZenonT(40)

\* The handlers other than fill().
LEMMA HandlerMild ==
  ASSUME IInv, RunRetire \/ RunDone \/ RunMoved \/ RunFinish
                 \/ \E fails \in BOOLEAN : RunHandOver(fails)
  PROVE  Mild
<1> USE DEF object, queues, moves, flags
<1> DEFINE g == Head(io).gid
           q == Tail(io)
<1>1. /\ io # <<>> /\ Head(io) \in Handlers /\ q \in Seq(Handlers)
      /\ Has(q, NoGid, "finish") => Has(io, NoGid, "finish")
      /\ shuttingDown \in BOOLEAN /\ active \in Seq(Gid)
  <2>1. io # <<>> /\ io \in Seq(Handlers)
    BY IInvFacts, ZenonT(40) DEF RunRetire, RunDone, RunMoved, RunFinish, RunHandOver, Head1
  <2>2. Head(io) \in Handlers
    BY <2>1, SMTT(40)
  <2> QED
    BY <2>1, <2>2, OtherFinish, IInvFacts, ZenonT(40) DEF TypeOK
<1>2. ASSUME RunRetire PROVE Mild
  <2>1. /\ UNCHANGED <<shuttingDown, loop, sharing>> /\ Schedule(q)
        /\ active' = Without(active, {g})
    BY <1>2, ZenonT(40) DEF RunRetire, RetireTask
  <2>2. Values(active') \subseteq Values(active)
    BY <1>1, <2>1, WithoutLess, ZenonT(40)
  <2> HIDE DEF q, g
  <2> QED
    BY <1>1, <2>1, <2>2, SchedulingMild, ZenonT(40)
<1>3. ASSUME RunDone PROVE Mild
  <2> DEFINE ys == <<g>>
  <2>1. g \in Gid /\ Head(io).arg \in Nexts
    BY <1>1, <1>3, HandlerType, ZenonT(40) DEF RunDone, Head1
  <2>2. ys \in Seq(Gid) /\ ys # <<>>
    BY <2>1, SMTT(40)
  <2>3. /\ UNCHANGED <<sharing, limit, shuttingDown>>
        /\ StopDone(ys, Head(io).arg, state, moving, shuttingDown, q)
    BY <1>3, ZenonT(40) DEF RunDone
  <2> HIDE DEF ys, q, g
  <2> QED
    BY <1>1, <2>1, <2>2, <2>3, StopDoneMild, ZenonT(40)
<1>4. ASSUME RunMoved PROVE Mild
  <2> DEFINE wake == resume[g] /\ state[g] = "Paused"
  <2>1. /\ UNCHANGED <<active, shuttingDown, loop, sharing, limit>>
        /\ state' = IF wake THEN [state EXCEPT ![g] = "Waiting"] ELSE state
        /\ ScheduleIf(wake, q)
    BY <1>4, ZenonT(40) DEF RunMoved
  <2>2. wake \in BOOLEAN
    BY <1>1, <1>4, HandlerType, IInvFacts, ZenonT(40) DEF RunMoved, Head1
  <2> HIDE DEF wake, q
  <2>3. /\ Has(io', NoGid, "finish") => Has(q, NoGid, "finish")
        /\ scheduled => scheduled'
        /\ wake => scheduled'
    BY <1>1, <2>1, <2>2, ScheduleFinish, ZenonT(40)
  <2>4. scheduled' \/ \A h \in Gid : state'[h] = "Waiting" => state[h] = "Waiting"
    BY <2>1, <2>2, <2>3, ZenonT(40)
  <2>5. Has(io', NoGid, "finish") => Has(io, NoGid, "finish")
    BY <1>1, <2>3, ZenonT(40)
  <2> QED
    BY <2>1, <2>3, <2>4, <2>5, StillMild, ZenonT(40)
<1>5. ASSUME RunFinish PROVE Mild
  <2>1. /\ UNCHANGED <<active, state, limit, shuttingDown, sharing, scheduled>>
        /\ Has(io, NoGid, "finish")
        /\ loop' = "running" => loop = "running"
    <3>1. io \in Seq(Handlers) /\ Head(io).do = "finish"
      BY <1>5, IInvFacts, ZenonT(40) DEF RunFinish, Head1
    <3>2. Head(io).gid = NoGid
      BY <1>1, <3>1, HandlerType, ZenonT(40)
    <3>3. 1 \in DOMAIN io /\ io[1] = Head(io)
      BY <1>1, <3>1, SMTT(40)
    <3>4. Has(io, NoGid, "finish")
      BY <3>1, <3>2, <3>3, ZenonT(40) DEF Has
    <3> QED
      BY <1>5, <3>4, ZenonT(40) DEF RunFinish, FinishShutdown
  <2> QED
    BY <2>1, ZenonT(40) DEF Mild, SomeWaiting
<1>6. ASSUME NEW fails, RunHandOver(fails) PROVE Mild
  <2>1. UNCHANGED <<active, shuttingDown, loop, sharing, limit, scheduled, state>>
    BY <1>6, ZenonT(40) DEF RunHandOver
  <2>2. io' = q \/ io' = Append(q, Retire(g, "Error"))
    BY <1>6, ZenonT(40) DEF RunHandOver
  <2>3. Retire(g, "Error") \in Handlers /\ Retire(g, "Error").do # "finish"
    <3>1. g \in Gid
      BY <1>1, <1>6, HandlerType, ZenonT(40) DEF RunHandOver, Head1
    <3> QED
      BY <3>1, HandlerMade, ZenonT(40) DEF Results
  <2> HIDE DEF q, g
  <2>4. Has(io', NoGid, "finish") => Has(io, NoGid, "finish")
    BY <1>1, <2>2, <2>3, OtherFinish, ZenonT(40)
  <2> QED
    BY <2>1, <2>4, StillMild, ZenonT(40)
<1> QED
  BY <1>2, <1>3, <1>4, <1>5, <1>6, ZenonT(40)

-----------------------------------------------------------------------------
(* fill().                                                                 *)

\* What is started counts, whatever of the rest does.
LEMMA CountStarted ==
  ASSUME NEW a \in Seq(Gid), NEW b \in Seq(Gid), Values(a) \cap Values(b) = {}, NEW T
  PROVE  /\ Cardinality({i \in DOMAIN a : a[i] \notin T}) \in Nat
         /\ Cardinality({i \in DOMAIN (a \o b) : (a \o b)[i] \notin T \ Values(b)})
              = Cardinality({i \in DOMAIN a : a[i] \notin T}) + Len(b)
<1> DEFINE c == a \o b
           old == {i \in DOMAIN a : a[i] \notin T}
           new == (Len(a) + 1)..(Len(a) + Len(b))
           all == {i \in DOMAIN c : c[i] \notin T \ Values(b)}
<1>1. /\ DOMAIN a = 1..Len(a) /\ Len(a) \in Nat
      /\ DOMAIN b = 1..Len(b) /\ Len(b) \in Nat
      /\ DOMAIN c = 1..(Len(a) + Len(b))
      /\ \A i \in 1..(Len(a) + Len(b)) : c[i] = IF i <= Len(a) THEN a[i] ELSE b[i - Len(a)]
  BY SMTT(40)
<1> HIDE DEF c
<1>2. \A i \in DOMAIN a : i \in DOMAIN c /\ c[i] = a[i] /\ a[i] \notin Values(b)
  <2>1. \A i \in DOMAIN a : i \in DOMAIN c /\ c[i] = a[i]
    BY <1>1, SMTT(40)
  <2>2. \A i \in DOMAIN a : a[i] \in Values(a)
    BY SMTT(40) DEF Values
  <2> QED
    BY <2>1, <2>2, SMTT(40)
<1>3. \A i \in new : i \in DOMAIN c /\ i \notin DOMAIN a /\ c[i] \in Values(b)
  <2> SUFFICES ASSUME NEW i \in new
               PROVE  i \in DOMAIN c /\ i \notin DOMAIN a /\ c[i] \in Values(b)
    OBVIOUS
  <2>1. i \in DOMAIN c /\ i \notin DOMAIN a /\ i - Len(a) \in DOMAIN b /\ c[i] = b[i - Len(a)]
    BY <1>1, SMTT(40)
  <2> QED
    BY <2>1, SMTT(40) DEF Values
<1>4. DOMAIN c = DOMAIN a \cup new
  BY <1>1, SMTT(40)
<1>5. all = old \cup new /\ old \cap new = {}
  <2> HIDE DEF new
  <2> QED
    BY <1>2, <1>3, <1>4, SMTT(40)
<1>6. IsFiniteSet(old) /\ Cardinality(old) \in Nat
  <2>1. old \subseteq 1..Len(a)
    BY <1>1, SMTT(40)
  <2>2. IsFiniteSet(1..Len(a))
    <3>1. \A p, q \in Int : IsFiniteSet(p..q)
      BY FS_Interval, ZenonT(40)
    <3>2. 1 \in Int /\ Len(a) \in Int
      BY <1>1, SMTT(40)
    <3> QED
      BY <3>1, <3>2, ZenonT(40)
  <2> QED
    BY <2>1, <2>2, FS_Subset, FS_CardinalityType
<1>7. IsFiniteSet(new) /\ Cardinality(new) = Len(b)
  <2>1. \A p, q \in Int : IsFiniteSet(p..q) /\ Cardinality(p..q) = IF p > q THEN 0 ELSE q - p + 1
    BY FS_Interval, ZenonT(40)
  <2>2. Len(a) + 1 \in Int /\ Len(a) + Len(b) \in Int
    BY <1>1, SMTT(40)
  <2> DEFINE low == Len(a) + 1
             high == Len(a) + Len(b)
  <2>3. new = low..high /\ low \in Int /\ high \in Int
    BY <2>2, ZenonT(40)
  <2>4. low > high <=> Len(b) = 0
    BY <1>1, SMTT(40)
  <2>5. high - low + 1 = Len(b)
    BY <1>1, SMTT(40)
  <2> HIDE DEF low, high, new
  <2>6. IsFiniteSet(new) /\ Cardinality(new) = IF low > high THEN 0 ELSE high - low + 1
    BY <2>1, <2>3, ZenonT(40)
  <2> QED
    BY <2>4, <2>5, <2>6, ZenonT(40)
<1> HIDE DEF old, new
<1>8. Cardinality(old \cup new) = Cardinality(old) + Cardinality(new)
  <2>1. Cardinality(old \cup new) = Cardinality(old) + Cardinality(new) - Cardinality(old \cap new)
    BY <1>6, <1>7, FS_Union
  <2>2. Cardinality(old \cap new) = 0
    BY <1>5, FS_EmptySet, ZenonT(40)
  <2> QED
    BY <1>1, <1>6, <1>7, <2>1, <2>2, SMTT(40)
<1>9. Cardinality(old) \in Nat /\ Cardinality(all) = Cardinality(old) + Len(b)
  BY <1>5, <1>6, <1>7, <1>8, ZenonT(40)
<1> QED
  BY <1>9, ZenonT(40) DEF c, old

\* The retirements of tasks that failed within start() are no finishShutdown().
LEMMA FailedFinish ==
  ASSUME NEW q \in Seq(Handlers), NEW failed \in Seq(Gid)
  PROVE  LET r == [i \in DOMAIN failed |-> Retire(failed[i], "Error")]
         IN  Has((q \o r) \o <<>>, NoGid, "finish") => Has(q, NoGid, "finish")
<1> DEFINE r == [i \in DOMAIN failed |-> Retire(failed[i], "Error")]
           all == (q \o r) \o <<>>
<1>1. /\ r \in Seq(Handlers)
      /\ \A i \in DOMAIN r : r[i].do = "retire"
  <2>1. \A i \in DOMAIN failed : /\ Retire(failed[i], "Error") \in Handlers
                                 /\ Retire(failed[i], "Error").do = "retire"
    <3>1. \A i \in DOMAIN failed : failed[i] \in Gid
      BY SMTT(40)
    <3> QED
      BY <3>1, HandlerMade, ZenonT(40) DEF Results
  <2>2. DOMAIN failed = 1..Len(failed) /\ Len(failed) \in Nat
    BY SMTT(40)
  <2> QED
    BY <2>1, <2>2, SMTT(40)
<1> HIDE DEF r
<1>2. /\ \A i \in DOMAIN all : \/ i \in DOMAIN q /\ all[i] = q[i]
                               \/ \E j \in DOMAIN r : all[i] = r[j]
  <2>1. /\ DOMAIN q = 1..Len(q) /\ Len(q) \in Nat
        /\ DOMAIN r = 1..Len(r) /\ Len(r) \in Nat
        /\ DOMAIN all = 1..(Len(q) + Len(r))
        /\ \A i \in 1..(Len(q) + Len(r)) :
             all[i] = IF i <= Len(q) THEN q[i] ELSE r[i - Len(q)]
    BY <1>1, SMTT(40)
  <2> HIDE DEF all
  <2>2. ASSUME NEW i \in 1..(Len(q) + Len(r)), i > Len(q)
        PROVE  \E j \in DOMAIN r : all[i] = r[j]
    <3>1. i - Len(q) \in DOMAIN r /\ all[i] = r[i - Len(q)]
      BY <2>1, <2>2, SMTT(40)
    <3> QED
      BY <3>1
  <2>3. ASSUME NEW i \in 1..(Len(q) + Len(r)), i <= Len(q)
        PROVE  i \in DOMAIN q /\ all[i] = q[i]
    BY <2>1, <2>3, SMTT(40)
  <2> QED
    BY <2>1, <2>2, <2>3, SMTT(40)
<1> HIDE DEF all
<1>3. ASSUME NEW i \in DOMAIN all, all[i].gid = NoGid, all[i].do = "finish"
      PROVE  Has(q, NoGid, "finish")
  BY <1>1, <1>2, <1>3, ZenonT(40) DEF Has
<1> QED
  BY <1>3, ZenonT(40) DEF Has, all, r

\* fill() uses all the room there is, and no more.
LEMMA FillUsesRoom ==
  ASSUME IInv, NEW failing \in SUBSET Gid, RunFill(failing), ~shuttingDown
  PROVE  /\ ~(Values(active') \subseteq Values(active)) => ActiveCount' <= limit'
         /\ SomeWaiting' => ~(ActiveCount' < limit')
         /\ loop' = loop
         /\ Has(io', NoGid, "finish") =>
              Has(io, NoGid, "finish") \/ (shuttingDown' /\ active' = <<>>)
<1> DEFINE first == {i \in DOMAIN waiting :
                       /\ state[waiting[i]] = "Waiting"
                       /\ \A j \in 1..(i - 1) : waiting[j] # waiting[i]}
           picked == {i \in first : Rank(first, i) <= Room}
           started == KeepAt(waiting, picked)
           failed == Only(started, failing)
           end == Drained /\ ~Rpc /\ ~shuttingDown
           q == Tail(io)
           r == [i \in DOMAIN failed |-> Retire(failed[i], "Error")]
<1>1. /\ active' = active \o started /\ limit' = limit /\ loop' = loop
      /\ sharing' = sharing \ Values(started)
      /\ state' = [g \in Gid |-> IF g \in Values(started) THEN "Active" ELSE state[g]]
      /\ shuttingDown' = (shuttingDown \/ end)
      /\ io' = (q \o r) \o (IF end THEN <<Finish>> ELSE <<>>)
      /\ Head1("fill")
  BY ZenonT(40) DEF RunFill
<1>2. /\ active \in Seq(Gid) /\ waiting \in Seq(Gid) /\ limit \in Nat
      /\ io \in Seq(Handlers) /\ Distinct(waiting)
      /\ \A g \in Gid : state[g] = "Waiting" => g \in Values(waiting)
      /\ Values(active) \cap Values(waiting) = {}
  <2>1. /\ active \in Seq(Gid) /\ waiting \in Seq(Gid) /\ limit \in Limits
        /\ io \in Seq(Handlers) /\ OneQueue
    BY IInvFacts, ZenonT(40) DEF TypeOK
  <2>2. limit \in Nat
    BY <2>1, ConstantsOK, SMTT(40)
  <2>3. Values(active) \cap Values(waiting) = {}
    BY <2>1, SMTT(40) DEF OneQueue, Queued
  <2> QED
    BY <2>1, <2>2, <2>3, ZenonT(40) DEF OneQueue, Queued
<1>4. first \in SUBSET DOMAIN waiting
  BY ZenonT(40)
<1>5. ActiveCount \in Nat /\ Room = limit - ActiveCount
  <2> DEFINE none == <<>>
  <2>1. none \in Seq(Gid) /\ Values(none) = {}
    BY SMTT(40) DEF Values
  <2> HIDE DEF none
  <2>2. Values(active) \cap Values(none) = {}
    BY <2>1, ZenonT(40)
  <2>3. ActiveCount \in Nat
    BY <1>2, <2>1, <2>2, CountStarted, ZenonT(40) DEF ActiveCount
  <2> QED
    BY <2>3, ZenonT(40) DEF Room
<1>6. /\ picked \in SUBSET DOMAIN waiting
      /\ Cardinality(picked) \in Nat
      /\ Room <= 0 => picked = {}
      /\ Room >= 0 => Cardinality(picked) <= Room
      /\ picked # first => Cardinality(picked) >= Room
  <2>1. first \in SUBSET Nat /\ IsFiniteSet(first)
    BY <1>2, <1>4, PositionsFinite, ZenonT(40)
  <2>2. Room \in Int
    BY <1>2, <1>5, SMTT(40)
  <2>3. picked \in SUBSET DOMAIN waiting
    BY <1>4, ZenonT(40)
  <2> HIDE DEF first
  <2> QED
    BY <2>1, <2>2, <2>3, LowestRanks, ZenonT(40)
<1> HIDE DEF picked
<1>7. /\ started \in Seq(Gid) /\ Values(started) = {waiting[i] : i \in picked}
      /\ Len(started) = Cardinality(picked)
  <2>1. started \in Seq(Gid) /\ Values(started) = {waiting[i] : i \in picked}
    <3>1. waiting \in Seq(Gid) /\ picked \in SUBSET DOMAIN waiting
      BY <1>2, <1>6, ZenonT(40)
    <3>2. KeepAt(waiting, picked) \in Seq(Gid)
          /\ Values(KeepAt(waiting, picked)) = {waiting[i] : i \in picked}
      BY <3>1, KeepAtProperties, ZenonT(40)
    <3> QED
      BY <3>2, ZenonT(40)
  <2>2. started = [n \in 1..Cardinality(picked) |-> waiting[Nth(picked, n)]]
    BY ZenonT(40) DEF KeepAt
  <2> HIDE DEF started
  <2>3. Len(started) = Cardinality(picked)
    BY <1>6, <2>1, <2>2, SMTT(40)
  <2> QED
    BY <2>1, <2>3, ZenonT(40)
<1> HIDE DEF started
<1>8. ActiveCount' = ActiveCount + Cardinality(picked)
  <2>1. Values(active) \cap Values(started) = {}
    <3>1. \A i \in picked : waiting[i] \in Values(waiting)
      BY <1>6, SMTT(40) DEF Values
    <3> QED
      BY <1>2, <1>7, <3>1, SMTT(40)
  <2>2. Cardinality({i \in DOMAIN (active \o started) :
                       (active \o started)[i] \notin sharing \ Values(started)})
          = Cardinality({i \in DOMAIN active : active[i] \notin sharing}) + Len(started)
    BY <1>2, <1>7, <2>1, CountStarted, ZenonT(40)
  <2>3. active' = active \o started /\ sharing' = sharing \ Values(started)
    BY <1>1, ZenonT(40)
  <2>4. ActiveCount' = ActiveCount + Len(started)
    BY <2>2, <2>3, ZenonT(40) DEF ActiveCount
  <2> QED
    BY <1>7, <2>4, ZenonT(40)
<1>9. ASSUME ~(Values(active') \subseteq Values(active)) PROVE ActiveCount' <= limit'
  <2>1. picked # {}
    <3>1. ASSUME picked = {} PROVE FALSE
      <4>1. Values(started) = {}
        BY <1>7, <3>1, ZenonT(40)
      <4>2. Values(active') = Values(active) \cup Values(started)
        <5>1. active' = active \o started
          BY <1>1, ZenonT(40)
        <5>2. active \in Seq(Gid) /\ started \in Seq(Gid)
          BY <1>2, <1>7, ZenonT(40)
        <5>3. Values(active \o started) = Values(active) \cup Values(started)
          BY <5>2, ConcatValues, ZenonT(40)
        <5> QED
          BY <5>1, <5>3, ZenonT(40)
      <4> QED
        BY <1>9, <4>1, <4>2, ZenonT(40)
    <3> QED
      BY <3>1, ZenonT(40)
  <2> QED
    BY <1>1, <1>2, <1>5, <1>6, <1>8, <2>1, SMTT(40)
<1>10. ASSUME SomeWaiting' PROVE ~(ActiveCount' < limit')
  <2>1. PICK g \in Gid : state'[g] = "Waiting"
    BY <1>10, ZenonT(40) DEF SomeWaiting
  <2>2. g \notin Values(started) /\ state[g] = "Waiting"
    BY <1>1, <2>1, SMTT(40)
  <2>3. PICK i \in DOMAIN waiting : waiting[i] = g
    BY <1>2, <2>2, ZenonT(40) DEF Values
  <2>4. i \in first /\ i \notin picked
    <3>1. \A j \in 1..(i - 1) : waiting[j] # waiting[i]
      BY <1>2, <2>3, SMTT(40) DEF Distinct
    <3> QED
      BY <1>7, <2>2, <2>3, <3>1, ZenonT(40)
  <2>5. Cardinality(picked) >= Room
    BY <1>6, <2>4, ZenonT(40)
  <2> QED
    BY <1>1, <1>2, <1>5, <1>6, <1>8, <2>5, SMTT(40)
<1>11. ASSUME Has(io', NoGid, "finish")
       PROVE  Has(io, NoGid, "finish") \/ (shuttingDown' /\ active' = <<>>)
  <2>1. CASE end
    BY <1>1, <2>1, ZenonT(40) DEF Drained
  <2>2. CASE ~end
    <3>1. failed \in Seq(Gid) /\ io # <<>>
      BY <1>1, <1>7, OnlyProperties, ZenonT(40) DEF Head1
    <3>2. q \in Seq(Handlers) /\ (Has(q, NoGid, "finish") => Has(io, NoGid, "finish"))
      BY <1>2, <3>1, OtherFinish, ZenonT(40)
    <3>3. io' = (q \o r) \o <<>>
      BY <1>1, <2>2, ZenonT(40)
    <3> HIDE DEF q, failed
    <3>4. Has(io', NoGid, "finish") => Has(q, NoGid, "finish")
      BY <3>1, <3>2, <3>3, FailedFinish, ZenonT(40)
    <3> QED
      BY <1>11, <3>2, <3>4, ZenonT(40)
  <2> QED
    BY <2>1, <2>2, ZenonT(40)
<1> QED
  BY <1>1, <1>9, <1>10, <1>11, ZenonT(40)

-----------------------------------------------------------------------------
\* Every slot that is not some task's, whether that task counts or not, and a
\* waiting task come with a queued fill(): a task that begins to share schedules
\* nothing, and its slot is not among these.
Woken ==
  loop = "running" /\ ~shuttingDown /\ Len(active) < limit /\ SomeWaiting => scheduled

\* The slots part of the invariant: the end finds nothing active, and no wakeup
\* is lost.
Slots == Exit /\ Woken

\* NoLostWakeup without the positions of the queue and the handler.
LEMMA WakeupStated ==
  ASSUME IInv
  PROVE  Woken => NoLostWakeup
<1>1. /\ Values(waiting) = {g \in Gid : state[g] \in Queued} /\ waiting \in Seq(Gid)
      /\ scheduled <=> Has(io, NoGid, "fill")
  BY IInvFacts, ZenonT(40) DEF OneQueue, TypeOK
<1>2. (\E i \in DOMAIN waiting : state[waiting[i]] = "Waiting") <=> SomeWaiting
  <2>1. ASSUME NEW i \in DOMAIN waiting, state[waiting[i]] = "Waiting" PROVE SomeWaiting
    <3>1. waiting[i] \in Gid
      BY <1>1, SMTT(40)
    <3> QED
      BY <2>1, <3>1, ZenonT(40) DEF SomeWaiting
  <2>2. ASSUME NEW g \in Gid, state[g] = "Waiting"
        PROVE  \E i \in DOMAIN waiting : state[waiting[i]] = "Waiting"
    <3>1. g \in Values(waiting)
      BY <1>1, <2>2, ZenonT(40) DEF Queued
    <3> QED
      BY <2>2, <3>1, ZenonT(40) DEF Values
  <2> QED
    BY <2>1, <2>2, ZenonT(40) DEF SomeWaiting
<1> QED
  BY <1>1, <1>2, ZenonT(40) DEF NoLostWakeup, SpareSlot, FreeSlot, Pending, Woken

\* activeCount() counts no more than the active tasks.
LEMMA CountBound ==
  ASSUME IInv
  PROVE  ActiveCount \in Nat /\ ActiveCount <= Len(active)
<1> DEFINE C == {i \in DOMAIN active : active[i] \notin sharing}
<1>1. active \in Seq(Gid)
  BY IInvFacts, ZenonT(40) DEF TypeOK
<1>2. DOMAIN active = 1..Len(active) /\ Len(active) \in Nat
  BY <1>1
<1>3. IsFiniteSet(1..Len(active)) /\ Cardinality(1..Len(active)) = Len(active)
  <2>1. 1 \in Int /\ Len(active) \in Int
    BY <1>2
  <2>2. /\ IsFiniteSet(1..Len(active))
        /\ Cardinality(1..Len(active)) = IF 1 > Len(active) THEN 0 ELSE Len(active) - 1 + 1
    BY <2>1, FS_Interval
  <2> QED
    BY <1>2, <2>2
<1>4. Cardinality(C) \in Nat /\ Cardinality(C) <= Cardinality(1..Len(active))
  BY <1>2, <1>3, FS_Subset, FS_CardinalityType
<1> QED
  BY <1>3, <1>4 DEF ActiveCount

\* Any step but fill() and Share() is mild.
LEMMA NextMild ==
  ASSUME IInv, Next, \A failing \in SUBSET Gid : ~RunFill(failing),
         \A g \in Gid : ~Share(g)
  PROVE  Mild
<1>1. CASE TaskCall
  BY <1>1, TaskCallMild, ZenonT(40) DEF TaskCall
<1>2. CASE OtherCall
  BY <1>2, OtherCallMild, ZenonT(40)
<1>3. CASE EngineStep
  <2>1. CASE RunHandler
    BY <2>1, HandlerMild, ZenonT(40) DEF RunHandler
  <2>2. CASE TaskStep \/ StopStep \/ DiskStep \/ StopLoop \/ Terminated
    BY <2>2, StepMild, ZenonT(40)
  <2> QED
    BY <1>3, <2>1, <2>2, ZenonT(40) DEF EngineStep
<1> QED
  BY <1>1, <1>2, <1>3, ZenonT(40) DEF Next

\* A mild step keeps the slots as they should be.
LEMMA MildKeeps ==
  ASSUME IInv, IInv', Slots, Mild
  PROVE  Slots'
<1>2. Exit'
  <2>1. ASSUME active = <<>> PROVE active' = <<>>
    <3>1. active' \in Seq(Gid)
      BY DEF IInv, TypeOK
    <3>2. Values(active) = {}
      BY <2>1, SMTT(40) DEF Values
    <3>3. Values(active') = {}
      BY <3>2, ZenonT(40) DEF Mild
    <3> QED
      BY <3>1, <3>3, SMTT(40) DEF Values
  <2> QED
    BY <2>1, ZenonT(40) DEF Slots, Mild, Exit, Ended
<1>3. Woken'
  BY ZenonT(40) DEF Slots, Mild, Woken
<1> QED
  BY <1>2, <1>3, ZenonT(40) DEF Slots

\* fill() keeps the slots as they should be: it takes what room there is, and
\* decides to end the process only when it found nothing to run.
LEMMA FillKeepsSlots ==
  ASSUME IInv, IInv', Slots, NEW failing \in SUBSET Gid, RunFill(failing)
  PROVE  Slots'
<1>1. Exit /\ shuttingDown \in BOOLEAN /\ io \in Seq(Handlers)
  BY IInvFacts, ZenonT(40) DEF Slots
<1>2. io # <<>> /\ loop' = loop
  BY ZenonT(40) DEF RunFill, Head1
<1>3. CASE shuttingDown
  <2>1. io' = Tail(io) /\ UNCHANGED <<active, shuttingDown>>
    BY <1>3, ZenonT(40) DEF RunFill
  <2>2. Has(io', NoGid, "finish") => Has(io, NoGid, "finish")
    BY <1>1, <1>2, <2>1, OtherFinish, ZenonT(40)
  <2>3. Exit'
    BY <1>1, <1>2, <2>1, <2>2, ZenonT(40) DEF Exit, Ended
  <2>4. Woken'
    BY <1>3, <2>1, ZenonT(40) DEF Woken
  <2> QED
    BY <2>3, <2>4, ZenonT(40) DEF Slots
<1>4. CASE ~shuttingDown
  <2>1. /\ SomeWaiting' => ~(ActiveCount' < limit')
        /\ Has(io', NoGid, "finish") =>
             Has(io, NoGid, "finish") \/ (shuttingDown' /\ active' = <<>>)
    BY <1>1, <1>4, FillUsesRoom, ZenonT(40)
  <2>2. ~(Ended \/ Has(io, NoGid, "finish"))
    BY <1>1, <1>4, ZenonT(40) DEF Exit
  <2>3. Exit'
    BY <1>2, <2>1, <2>2, ZenonT(40) DEF Exit, Ended
  <2>4. ActiveCount' \in Nat /\ ActiveCount' <= Len(active') /\ limit' \in Nat /\ Len(active') \in Nat
    <3>1. (ActiveCount \in Nat /\ ActiveCount <= Len(active))'
      BY CountBound, PTL
    <3>2. limit' \in Limits /\ active' \in Seq(Gid)
      BY ZenonT(40) DEF IInv, TypeOK
    <3> QED
      BY <3>1, <3>2, ConstantsOK
  <2>5. SomeWaiting' => ~(Len(active') < limit')
    BY <2>1, <2>4
  <2>6. Woken'
    BY <2>5, ZenonT(40) DEF Woken
  <2> QED
    BY <2>3, <2>6, ZenonT(40) DEF Slots
<1> QED
  BY <1>1, <1>3, <1>4, ZenonT(40)

\* run() begins with its first fill() queued and nothing active.
LEMMA InitSlots == Init => Slots
<1> SUFFICES ASSUME Init PROVE Slots
  OBVIOUS
<1>1. loop = "running" /\ io = <<Fill>> /\ scheduled
  BY ZenonT(40) DEF Init
<1>2. 1 \in DOMAIN io /\ io[1] = Fill /\ \A i \in DOMAIN io : io[i] = Fill
  BY <1>1, SMTT(40)
<1>3. Fill.gid = NoGid /\ Fill.do = "fill"
  BY SMTT(40) DEF Fill, Handler
<1>4. Has(io, NoGid, "fill") /\ ~Has(io, NoGid, "finish")
  <2>1. "fill" # "finish"
    OBVIOUS
  <2> QED
    BY <1>2, <1>3, <2>1, ZenonT(40) DEF Has
<1> QED
  BY <1>1, <1>4, ZenonT(40) DEF Slots, Exit, Ended, Woken

\* A step that changes nothing.
LEMMA StutterSlots ==
  ASSUME Slots, UNCHANGED vars
  PROVE  Slots'
<1>1. UNCHANGED <<sharing, loop, io, shuttingDown, active, limit, waiting, state, scheduled>>
  BY ZenonT(40) DEF vars, object, queues, flags
<1> QED
  BY <1>1, ZenonT(40) DEF Slots, Exit, Ended, Woken, SomeWaiting, Has

\* The slots stay as they should be in every step.
LEMMA NextKeepsSlots ==
  ASSUME IInv, IInv', Slots, [Next]_vars
  PROVE  Slots'
<1>1. CASE UNCHANGED vars
  BY <1>1, StutterSlots, ZenonT(40)
<1>2. CASE \E failing \in SUBSET Gid : RunFill(failing)
  BY <1>2, FillKeepsSlots, ZenonT(40)
<1>3. CASE \E g \in Gid : Share(g)
  <2>1. UNCHANGED <<loop, io, shuttingDown, active, limit, state, scheduled>>
    BY <1>3, ZenonT(40) DEF Share, queues, object
  <2> QED
    BY <2>1, ZenonT(40) DEF Slots, Exit, Ended, Has, Woken, SomeWaiting
<1>4. CASE /\ Next /\ \A failing \in SUBSET Gid : ~RunFill(failing)
           /\ \A g \in Gid : ~Share(g)
  BY <1>4, NextMild, MildKeeps, ZenonT(40)
<1> QED
  BY <1>1, <1>2, <1>3, <1>4, ZenonT(40)

\* Only fill() starts tasks, and no more than there is room for.
LEMMA StartsKeepLimit ==
  ASSUME IInv, [Next]_vars,
         ~(Values(active') \subseteq Values(active))
  PROVE  ActiveCount' <= limit'
<1>1. ~UNCHANGED vars
  <2>1. active' # active
    BY ZenonT(40)
  <2> QED
    BY <2>1, ZenonT(40) DEF vars, queues
<1>2. PICK failing \in SUBSET Gid : RunFill(failing)
  <2>1. ~Mild
    BY ZenonT(40) DEF Mild
  <2>2. \A g \in Gid : ~Share(g)
    <3>1. ASSUME NEW g \in Gid, Share(g) PROVE active' = active
      BY <3>1, ZenonT(40) DEF Share, queues
    <3> QED
      BY <3>1, ZenonT(40)
  <2> QED
    BY <1>1, <2>1, <2>2, NextMild, ZenonT(40)
<1>3. ~shuttingDown
  <2>1. ASSUME shuttingDown PROVE active' = active
    BY <1>2, <2>1, ZenonT(40) DEF RunFill
  <2> QED
    BY <2>1, ZenonT(40)
<1> QED
  BY <1>2, <1>3, FillUsesRoom, ZenonT(40)

\* What the three theorems below rest on: with the invariant of the queues, the
\* slots are as they should be in every state.
THEOREM SlotInvariant ==
  ASSUME Orderly
  PROVE  Spec => [](IInv /\ Slots)
<1>1. Init => IInv /\ Slots
  BY InitIInv, InitSlots
<1>2. IInv /\ Slots /\ [Next]_vars => (IInv /\ Slots)'
  <2> SUFFICES ASSUME IInv, Slots, [Next]_vars PROVE IInv' /\ Slots'
    OBVIOUS
  <2>1. IInv'
    BY NextKeeps
  <2> QED
    BY <2>1, NextKeepsSlots, ZenonT(40)
<1> QED
  BY <1>1, <1>2, PTL DEF Spec

\* The engine leaves its loop only when no task is active, for any number of
\* downloads: shutdown() and the idle end of fill() both wait for the last
\* stopTask() callback before finishShutdown() ends the loop.
THEOREM NothingCutOff ==
  ASSUME Orderly
  PROVE  Spec => []NoTaskCutOff
<1>1. IInv /\ Slots => NoTaskCutOff
  BY ZenonT(40) DEF Slots, Exit, Ended, NoTaskCutOff
<1> QED
  BY <1>1, SlotInvariant, PTL

\* Whatever ends a task, raises the limit or lets a task wait has called
\* schedule(): a waiting task and a slot that no active task holds always come with
\* a queued fill(), while torrents seed and after they left.
THEOREM WakeupsKept ==
  ASSUME Orderly
  PROVE  Spec => []NoLostWakeup
<1>1. IInv /\ Slots => NoLostWakeup
  BY WakeupStated, Zenon DEF Slots
<1> QED
  BY <1>1, SlotInvariant, PTL

\* The engine's bookkeeping holds together, for any downloads, limits and calls:
\* the queues and the states, the flags and the handlers in flight, the wakeups of
\* fill() and the end of the loop (retire, stopTask, schedule, finishShutdown).
THEOREM QueueKept ==
  ASSUME Orderly
  PROVE  Spec => []QueueSound
<1>1. TypeOK /\ OneQueue /\ InFlightAgrees /\ NoLostWakeup /\ NoTaskCutOff
        => QueueSound
  BY DEF QueueSound
<1> QED
  BY <1>1, TypeCorrect, QueuesPartition, FlightAgreement, WakeupsKept, NothingCutOff, PTL

\* No step starts a task beyond max-concurrent-downloads, whatever limit was set
\* and however often it changed while fill() was queued.
THEOREM LimitRespected ==
  ASSUME Orderly
  PROVE  Spec => LimitKept
<1>1. IInv /\ [Next]_vars
        => [~(Values(active') \subseteq Values(active)) => ActiveCount' <= limit']_vars
  BY StartsKeepLimit, ZenonT(40)
<1> QED
  BY <1>1, SlotInvariant, PTL DEF Spec, LimitKept

-----------------------------------------------------------------------------
(* The session file that finishShutdown() leaves behind.                   *)

NoMoves == \A g \in Gid : moving[g] = "no"

\* The session part of the invariant, without an ED2K network to wait for: the
\* file on disk is the queue as it is once the loop stopped, and no move is in
\* progress from shutdown() on.
Settled ==
  /\ loop # "closing"
  /\ loop = "stopped" => session = SessionOf(active \o waiting \o stopped, state)
  /\ shuttingDown \/ ~Rpc => NoMoves

\* What a step may do to the loop and the moves, unless it is stopLoop().
Ending ==
  /\ UNCHANGED loop \/ loop' = "crashed" \/ FinishShutdown
  /\ shuttingDown' \/ ~Rpc => /\ NoMoves => NoMoves'
                              /\ shuttingDown' => shuttingDown \/ ~Rpc \/ NoMoves

\* serializeSession(): one entry per unfinished download, paused as its task is.
LEMMA SessionEntries ==
  ASSUME NEW all \in Seq(Gid), Distinct(all), NEW st
  PROVE  LET s == SessionOf(all, st)
         IN  /\ \A i, j \in DOMAIN s : s[i].gid = s[j].gid => i = j
             /\ {s[i].gid : i \in DOMAIN s} = {g \in Values(all) : Saved(st[g])}
             /\ \A i \in DOMAIN s : s[i].paused = (st[s[i].gid] = "Paused")
<1> DEFINE K == {i \in DOMAIN all : Saved(st[all[i]])}
           kept == KeepAt(all, K)
           s == SessionOf(all, st)
<1>1. kept \in Seq(Gid) /\ Distinct(kept) /\ Values(kept) = {all[k] : k \in K}
  <2>1. K \in SUBSET DOMAIN all
    BY ZenonT(40)
  <2> HIDE DEF K
  <2> QED
    BY <2>1, KeepAtProperties, ZenonT(40)
<1>2. {all[k] : k \in K} = {g \in Values(all) : Saved(st[g])}
  BY ZenonT(40) DEF Values
<1>3. s = [i \in DOMAIN kept |-> [gid |-> kept[i], paused |-> st[kept[i]] = "Paused"]]
  BY ZenonT(40) DEF SessionOf
<1> HIDE DEF kept, K, s
<1>4. /\ DOMAIN s = DOMAIN kept
      /\ \A i \in DOMAIN kept : s[i].gid = kept[i] /\ s[i].paused = (st[kept[i]] = "Paused")
  BY <1>3, SMTT(40)
<1>5. \A i, j \in DOMAIN s : s[i].gid = s[j].gid => i = j
  BY <1>1, <1>4, SMTT(40) DEF Distinct
<1>6. {s[i].gid : i \in DOMAIN s} = Values(kept)
  BY <1>4, SMTT(40) DEF Values
<1>7. \A i \in DOMAIN s : s[i].paused = (st[s[i].gid] = "Paused")
  BY <1>4, ZenonT(40)
<1> QED
  BY <1>1, <1>2, <1>5, <1>6, <1>7, ZenonT(40) DEF s

\* After the loop stopped only the pool still works, on files.
LEMMA StoppedStill ==
  ASSUME loop = "stopped", Next
  PROVE  UNCHANGED <<loop, session, active, waiting, stopped, state>>
<1> USE DEF object, queues
<1>1. ~Live
  BY ZenonT(40) DEF Live
<1>2. ~TaskCall
  BY <1>1, ZenonT(40) DEF TaskCall, Pause, Unpause, Remove, Call
<1>3. ~OtherCall
  BY <1>1, ZenonT(40) DEF OtherCall, Add, Relocate, RemoveResult, Requeue, ChangePosition,
       PauseAll, UnpauseAll, PurgeResults, SaveSession, ChangeLimit, Shutdown, Call
<1>4. ~TaskStep
  BY <1>1, ZenonT(40) DEF TaskStep, OpenOutput, Fail, AwaitSelection, Share, AskHandOver,
       Complete, Running
<1>5. ~StopStep /\ ~RunHandler /\ ~StopLoop
  BY <1>1, ZenonT(40) DEF StopStep, Quiesce, Detached, RunHandler, RunFill, RunRetire, RunDone,
       RunMoved, RunFinish, RunHandOver, Head1, StopLoop
<1>6. DiskStep \/ Terminated
  BY <1>2, <1>3, <1>4, <1>5, ZenonT(40) DEF Next, EngineStep
<1> QED
  BY <1>6, ZenonT(40) DEF DiskStep, DiskCloses, DiskMoves, Terminated, vars

\* A step that starts and ends nothing.
LEMMA QuietEnding ==
  ASSUME UNCHANGED <<loop, moving, shuttingDown>>
  PROVE  Ending
  BY ZenonT(40) DEF Ending, NoMoves

\* The callback of stopTask() starts no move that did not wait for it.
LEMMA StopDoneEnding ==
  ASSUME NEW ys, NEW next, NEW st, NEW mv, NEW down, NEW q,
         StopDone(ys, next, st, mv, down, q)
  PROVE  /\ UNCHANGED loop \/ loop' = "crashed" \/ FinishShutdown
         /\ (\A g \in Gid : mv[g] = "no") => NoMoves'
<1>1. UNCHANGED loop \/ loop' = "crashed" \/ FinishShutdown
  BY ZenonT(40) DEF StopDone
<1>2. ASSUME \A g \in Gid : mv[g] = "no" PROVE NoMoves'
  <2> DEFINE Y == Values(ys)
             held == {g \in Y : mv[g] = "waits"}
             move == next = "Paused" /\ ~down
  <2>1. moving' = [g \in Gid |-> IF g \in held THEN IF move THEN "started" ELSE "no" ELSE mv[g]]
    BY ZenonT(40) DEF StopDone
  <2>2. \A g \in Gid : g \notin held
    BY <1>2, SMTT(40)
  <2> HIDE DEF held, move
  <2> QED
    BY <1>2, <2>1, <2>2, SMTT(40) DEF NoMoves
<1> QED
  BY <1>1, <1>2, ZenonT(40)

\* stopTask() while the engine stays in its phase.
LEMMA StopTasksEnding ==
  ASSUME NEW S, NEW Y, NEW next, NEW st, NEW down, UNCHANGED shuttingDown,
         StopTasks(S, Y, next, st, moving, down)
  PROVE  Ending
<1>1. PICK ys : StopDone(ys, next, st, moving, down, io)
  BY ZenonT(40) DEF StopTasks
<1> QED
  BY <1>1, StopDoneEnding, ZenonT(40) DEF Ending, NoMoves

\* The client calls.
LEMMA CallEnding ==
  ASSUME "moving" \notin Situations, "moveDownload" \in Calls => Rpc, IInv, TaskCall \/ OtherCall
  PROVE  Ending
<1> USE DEF object, queues, moves, flags
<1>1. ASSUME NEW g \in Gid, NEW Y, PauseTask(g, Y) PROVE Ending
  <2>1. UNCHANGED shuttingDown /\ (UNCHANGED <<loop, moving>>
           \/ StopTasks({g}, Y, "Paused", state, moving, shuttingDown))
    BY <1>1, ZenonT(40) DEF PauseTask
  <2> QED
    BY <2>1, QuietEnding, StopTasksEnding, ZenonT(40)
<1>2. ASSUME NEW g \in Gid, Pause(g) \/ Unpause(g) PROVE Ending
  <2>1. CASE Pause(g)
    BY <1>1, <2>1, ZenonT(40) DEF Pause
  <2>2. CASE Unpause(g)
    BY <2>2, QuietEnding, ZenonT(40) DEF Unpause
  <2> QED
    BY <1>2, <2>1, <2>2
<1>3. ASSUME NEW g \in Gid, NEW force, Remove(g, force) PROVE Ending
  <2>1. UNCHANGED shuttingDown
        /\ (UNCHANGED <<loop, moving>>
              \/ \E Y : StopTasks({g}, Y, "Removed", state, moving, shuttingDown))
    BY <1>3, ZenonT(40) DEF Remove
  <2> QED
    BY <2>1, QuietEnding, StopTasksEnding, ZenonT(40)
<1>4. ASSUME NEW g \in Gid, Relocate(g) PROVE Ending
  <2>1. ~shuttingDown' /\ Rpc
    BY <1>4, ZenonT(40) DEF Relocate, Call
  <2>2. CASE loop' = IF disk THEN loop ELSE "crashed"
    BY <2>1, <2>2, ZenonT(40) DEF Ending
  <2>3. CASE UNCHANGED loop
    BY <2>1, <2>3, ZenonT(40) DEF Ending
  <2>4. ASSUME NEW Y, NEW mv, StopTasks({g}, Y, "Paused", state, mv, shuttingDown)
        PROVE  Ending
    <3>1. PICK ys : StopDone(ys, "Paused", state, mv, shuttingDown, io)
      BY <2>4, ZenonT(40) DEF StopTasks
    <3> QED
      BY <2>1, <3>1, StopDoneEnding, ZenonT(40) DEF Ending
  <2> QED
    BY <1>4, <2>2, <2>3, <2>4, ZenonT(40) DEF Relocate
<1>5. ASSUME PauseAll PROVE Ending
  <2> DEFINE S == {g \in Values(active) : ~stopping[g]}
             st == [g \in Gid |-> IF g \in Values(waiting) /\ state[g] = "Waiting"
                                  THEN "Paused" ELSE state[g]]
  <2>1. UNCHANGED shuttingDown /\ \E Y : StopTasks(S, Y, "Paused", st, moving, shuttingDown)
    BY <1>5, ZenonT(40) DEF PauseAll
  <2> HIDE DEF S, st
  <2> QED
    BY <2>1, StopTasksEnding, ZenonT(40)
<1>6. ASSUME NEW force, Shutdown(force) PROVE Ending
  <2> DEFINE S == {g \in Values(active) : ~stopping[g] \/ force}
  <2>1. NoMoves
    BY <1>6, ZenonT(40) DEF Shutdown, NoMoves
  <2>2. CASE UNCHANGED <<loop, moving>>
    BY <2>1, <2>2, ZenonT(40) DEF Ending, NoMoves
  <2>3. ASSUME NEW Y, StopTasks(S, Y, "Waiting", state, moving, TRUE) PROVE Ending
    <3>1. PICK ys : StopDone(ys, "Waiting", state, moving, TRUE, io)
      BY <2>3, ZenonT(40) DEF StopTasks
    <3> QED
      BY <2>1, <3>1, StopDoneEnding, ZenonT(40) DEF Ending, NoMoves
  <2> QED
    BY <1>6, <2>2, <2>3, ZenonT(40) DEF Shutdown
<1>7. ASSUME NEW g \in Gid, NEW paused, NEW at,
             \/ Add(g, paused, at) \/ RemoveResult(g) \/ Requeue(g) \/ ChangePosition(g, at)
      PROVE  Ending
  BY <1>7, QuietEnding, ZenonT(40) DEF Add, RemoveResult, Requeue, ChangePosition
<1>8. ASSUME NEW n, UnpauseAll \/ PurgeResults \/ SaveSession \/ ChangeLimit(n) PROVE Ending
  BY <1>8, QuietEnding, ZenonT(40) DEF UnpauseAll, PurgeResults, SaveSession, ChangeLimit
<1>9. CASE TaskCall
  BY <1>2, <1>3, <1>9, ZenonT(40) DEF TaskCall
<1>10. CASE OtherCall
  BY <1>4, <1>5, <1>6, <1>7, <1>8, <1>10, ZenonT(40) DEF OtherCall
<1> QED
  BY <1>9, <1>10

\* The steps of the tasks, the pool and the loop, up to stopLoop().
LEMMA StepEnding ==
  ASSUME IInv, EngineStep, ~StopLoop
  PROVE  Ending
<1> USE DEF object, queues, moves, flags
<1>1. ASSUME NEW g \in Gid, NEW new,
             \/ OpenOutput(g) \/ Fail(g) \/ AskHandOver(g) \/ Complete(g, new) \/ Quiesce(g)
             \/ DiskCloses(g)
      PROVE  Ending
  BY <1>1, QuietEnding, ZenonT(40) DEF OpenOutput, Fail, AskHandOver, Complete, Quiesce, DiskCloses
<1>2. ASSUME NEW g \in Gid, AwaitSelection(g) PROVE Ending
  <2>1. PICK Y : PauseTask(g, Y)
    BY <1>2, ZenonT(40) DEF AwaitSelection
  <2>2. UNCHANGED shuttingDown /\ (UNCHANGED <<loop, moving>>
           \/ StopTasks({g}, Y, "Paused", state, moving, shuttingDown))
    BY <2>1, ZenonT(40) DEF PauseTask
  <2> QED
    BY <2>2, QuietEnding, StopTasksEnding, ZenonT(40)
<1>3. ASSUME NEW ys, NEW next, NEW q, UNCHANGED shuttingDown,
             StopDone(ys, next, state, moving, shuttingDown, q)
      PROVE  Ending
  BY <1>3, StopDoneEnding, ZenonT(40) DEF Ending, NoMoves
<1>4. ASSUME NEW g \in Gid, Detached(g) PROVE Ending
  <2>1. \E ys, next, q : StopDone(ys, next, state, moving, shuttingDown, q)
    BY <1>4, ZenonT(40) DEF Detached
  <2> QED
    BY <1>3, <1>4, <2>1, ZenonT(40) DEF Detached
<1>5. ASSUME RunDone PROVE Ending
  <2>1. \E ys, next, q : StopDone(ys, next, state, moving, shuttingDown, q)
    BY <1>5, ZenonT(40) DEF RunDone
  <2> QED
    BY <1>3, <1>5, <2>1, ZenonT(40) DEF RunDone
<1>6. ASSUME NEW g \in Gid, NEW ok, DiskMoves(g, ok) PROVE Ending
  <2>1. ~NoMoves /\ UNCHANGED <<loop, shuttingDown>>
    BY <1>6, ZenonT(40) DEF DiskMoves, NoMoves
  <2> QED
    BY <2>1, ZenonT(40) DEF Ending
<1>7. ASSUME RunMoved PROVE Ending
  <2>1. PICK g : moving' = [moving EXCEPT ![g] = "no"]
    BY <1>7, ZenonT(40) DEF RunMoved
  <2>2. NoMoves => NoMoves'
    BY <2>1, IInvFacts, SMTT(40) DEF NoMoves
  <2>3. UNCHANGED <<loop, shuttingDown>>
    BY <1>7, ZenonT(40) DEF RunMoved
  <2> QED
    BY <2>2, <2>3, ZenonT(40) DEF Ending
<1>8. ASSUME NEW failing, RunFill(failing) PROVE Ending
  <2>1. UNCHANGED <<loop, moving>> /\ (shuttingDown' => shuttingDown \/ ~Rpc)
    BY <1>8, ZenonT(40) DEF RunFill
  <2> QED
    BY <2>1, ZenonT(40) DEF Ending, NoMoves
<1>9. ASSUME NEW fails, RunRetire \/ RunHandOver(fails) PROVE Ending
  BY <1>9, QuietEnding, ZenonT(40) DEF RunRetire, RunHandOver
<1>10. ASSUME RunFinish PROVE Ending
  BY <1>10, ZenonT(40) DEF RunFinish, Ending, NoMoves
<1>11. CASE TaskStep
  <2>1. ASSUME NEW g \in Gid, Share(g) PROVE Ending
    BY <2>1, QuietEnding, ZenonT(40) DEF Share
  <2> QED
    BY <1>1, <1>2, <1>11, <2>1, ZenonT(40) DEF TaskStep
<1>12. CASE StopStep \/ DiskStep
  BY <1>1, <1>4, <1>6, <1>12, ZenonT(40) DEF StopStep, DiskStep
<1>13. CASE RunHandler
  BY <1>5, <1>7, <1>8, <1>9, <1>10, <1>13, ZenonT(40) DEF RunHandler
<1>14. CASE Terminated
  BY <1>14, QuietEnding, ZenonT(40) DEF Terminated, vars
<1> QED
  BY <1>11, <1>12, <1>13, <1>14, ZenonT(40) DEF EngineStep

\* The session stays as it should be in every step.
LEMMA NextKeepsSettled ==
  ASSUME "moving" \notin Situations, ~Ed2k, "moveDownload" \in Calls => Rpc, IInv, Settled, [Next]_vars
  PROVE  Settled'
<1>1. CASE UNCHANGED vars
  <2>1. UNCHANGED <<loop, session, active, waiting, stopped, state, shuttingDown, moving>>
    BY <1>1, ZenonT(40) DEF vars, object, queues, moves, flags
  <2> QED
    BY <2>1, ZenonT(40) DEF Settled, NoMoves
<1>2. CASE Next
  <2>1. ~StopLoop
    BY ZenonT(40) DEF Settled, StopLoop
  <2>2. Ending
    BY <1>2, <2>1, CallEnding, StepEnding, ZenonT(40) DEF Next
  <2>3. shuttingDown' \/ ~Rpc => NoMoves'
    BY <2>2, ZenonT(40) DEF Ending, Settled
  <2>4. CASE loop = "stopped"
    <3>1. UNCHANGED <<loop, session, active, waiting, stopped, state>>
      BY <1>2, <2>4, StoppedStill, ZenonT(40)
    <3> QED
      BY <2>3, <3>1, ZenonT(40) DEF Settled
  <2>5. CASE loop # "stopped"
    <3>1. CASE UNCHANGED loop \/ loop' = "crashed"
      BY <2>3, <2>5, <3>1 DEF Settled
    <3>2. CASE FinishShutdown
      BY <2>3, <3>2 DEF Settled, FinishShutdown
    <3> QED
      BY <2>2, <3>1, <3>2, ZenonT(40) DEF Ending
  <2> QED
    BY <2>4, <2>5
<1> QED
  BY <1>1, <1>2

\* The three queues one after the other hold every task once.
LEMMA AllQueues ==
  ASSUME IInv
  PROVE  LET all == active \o waiting \o stopped
         IN  all \in Seq(Gid) /\ Distinct(all) /\ Values(all) = tasks
<1>1. /\ active \in Seq(Gid) /\ waiting \in Seq(Gid) /\ stopped \in Seq(Gid)
      /\ Distinct(active) /\ Distinct(waiting) /\ Distinct(stopped)
      /\ Values(active) = {g \in Gid : state[g] = "Active"}
      /\ Values(waiting) = {g \in Gid : state[g] \in Queued}
      /\ Values(stopped) = {g \in tasks : state[g] \in Results}
      /\ tasks = Values(active) \cup Values(waiting) \cup Values(stopped)
  BY IInvFacts, ZenonT(40) DEF OneQueue
<1>2. /\ Values(active) \cap Values(waiting) = {}
      /\ (Values(active) \cup Values(waiting)) \cap Values(stopped) = {}
  BY <1>1, SMTT(40) DEF Queued, Results
<1>0. ASSUME NEW s \in Seq(Gid), NEW t \in Seq(Gid), Distinct(s), Distinct(t),
             Values(s) \cap Values(t) = {}
      PROVE  /\ s \o t \in Seq(Gid) /\ Distinct(s \o t)
             /\ Values(s \o t) = Values(s) \cup Values(t)
  BY <1>0, ConcatValues
<1>3. /\ active \o waiting \in Seq(Gid) /\ Distinct(active \o waiting)
      /\ Values(active \o waiting) = Values(active) \cup Values(waiting)
  BY <1>0, <1>1, <1>2, ZenonT(40)
<1> DEFINE some == active \o waiting
<1> HIDE DEF some
<1>4. /\ some \in Seq(Gid) /\ Distinct(some) /\ Values(some) \cap Values(stopped) = {}
      /\ Values(some) = Values(active) \cup Values(waiting)
  BY <1>2, <1>3, ZenonT(40) DEF some
<1>5. /\ some \o stopped \in Seq(Gid) /\ Distinct(some \o stopped)
      /\ Values(some \o stopped) = Values(some) \cup Values(stopped)
  BY <1>0, <1>1, <1>4, ZenonT(40)
<1> QED
  BY <1>1, <1>4, <1>5, ZenonT(40) DEF some

\* The invariants give the session file its contents.
LEMMA SettledSession ==
  ASSUME IInv, Slots, Settled
  PROVE  SessionExact
<1> SUFFICES ASSUME loop = "stopped"
             PROVE  /\ \A i, j \in DOMAIN session : session[i].gid = session[j].gid => i = j
                    /\ {session[i].gid : i \in DOMAIN session} = {g \in tasks : Saved(state[g])}
                    /\ \A i \in DOMAIN session :
                         session[i].paused = (state[session[i].gid] = "Paused")
                    /\ \A i \in DOMAIN session : session[i].gid \notin astray
  BY ZenonT(40) DEF SessionExact
<1> DEFINE all == active \o waiting \o stopped
<1>1. all \in Seq(Gid) /\ Distinct(all) /\ Values(all) = tasks
  BY AllQueues, ZenonT(40)
<1>2. session = SessionOf(all, state)
  BY ZenonT(40) DEF Settled
<1> HIDE DEF all
<1>3. /\ \A i, j \in DOMAIN session : session[i].gid = session[j].gid => i = j
      /\ {session[i].gid : i \in DOMAIN session} = {g \in Values(all) : Saved(state[g])}
      /\ \A i \in DOMAIN session : session[i].paused = (state[session[i].gid] = "Paused")
  <2>1. LET s == SessionOf(all, state)
        IN  /\ \A i, j \in DOMAIN s : s[i].gid = s[j].gid => i = j
            /\ {s[i].gid : i \in DOMAIN s} = {g \in Values(all) : Saved(state[g])}
            /\ \A i \in DOMAIN s : s[i].paused = (state[s[i].gid] = "Paused")
    BY <1>1, SessionEntries, ZenonT(40)
  <2> QED
    BY <1>2, <2>1
<1>4. astray = {}
  <2>1. NoMoves
    BY ZenonT(40) DEF Slots, Exit, Ended, Settled
  <2>2. \A g \in Gid : g \in astray => moving[g] = "posted"
    BY IInvFacts, ZenonT(40) DEF Agrees
  <2> QED
    BY <2>1, <2>2, IInvFacts, SMTT(40) DEF NoMoves
<1> QED
  BY <1>1, <1>3, <1>4, ZenonT(40)

\* What the process leaves for its next start: the session file written on exit
\* names each unfinished download once, paused exactly if its task is, and none
\* whose files were moved without its record following.  Without an ED2K network
\* the loop stops with the save; moves are asked for by RPC clients.
THEOREM SessionSaved ==
  ASSUME Orderly, "moving" \notin Situations, ~Ed2k, "moveDownload" \in Calls => Rpc
  PROVE  Spec => []SessionExact
<1>1. Init => Settled
  BY ZenonT(40) DEF Init, Settled, NoMoves
<1>2. IInv /\ Settled /\ [Next]_vars => Settled'
  BY NextKeepsSettled
<1>3. IInv /\ Slots /\ Settled => SessionExact
  BY SettledSession
<1> QED
  BY <1>1, <1>2, <1>3, SlotInvariant, PTL DEF Spec
=============================================================================

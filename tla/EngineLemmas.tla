---------------------------- MODULE EngineLemmas ----------------------------
(* The invariant of Engine that is inductive; what the parts of its steps   *)
(* keep of it: posting and serving handlers, retiring and stopping; and     *)
(* that every client call keeps it.                                         *)
EXTENDS Engine, QueueLemmas

\* A posted handler has a known task (or none) and one of five bodies.
LEMMA HandlerType ==
  ASSUME NEW x \in Handlers
  PROVE  /\ x.gid \in Gid \cup {NoGid}
         /\ x.do \in {"fill", "finish"} <=> x.gid = NoGid
         /\ x.do \in {"fill", "finish", "retire", "done", "moved", "handOver"}
         /\ x.do = "retire" => x.arg \in Results
         /\ x.do = "done" => x.arg \in Nexts
  BY ConstantsOK DEF Handlers

\* What the engine posts is a handler of the right type.
LEMMA HandlerMade ==
  /\ Fill \in Handlers /\ Fill.do = "fill" /\ Fill.gid = NoGid
  /\ Finish \in Handlers /\ Finish.do = "finish" /\ Finish.gid = NoGid
  /\ \A g \in Gid, r \in Results :
       Retire(g, r) \in Handlers /\ Retire(g, r).do = "retire" /\ Retire(g, r).gid = g
  /\ \A g \in Gid, n \in Nexts :
       /\ Handler("done", g, n) \in Handlers
       /\ Handler("done", g, n).do = "done" /\ Handler("done", g, n).gid = g
  /\ \A g \in Gid, a \in {"ok", "failed"} :
       /\ Handler("moved", g, a) \in Handlers
       /\ Handler("moved", g, a).do = "moved" /\ Handler("moved", g, a).gid = g
  /\ \A g \in Gid :
       /\ Handler("handOver", g, "none") \in Handlers
       /\ Handler("handOver", g, "none").do = "handOver"
       /\ Handler("handOver", g, "none").gid = g
  BY DEF Handlers, Handler, Fill, Finish, Retire

\* asio::post: one more handler at the end of io.
LEMMA HandlerAppend ==
  ASSUME NEW q \in Seq(Handlers), NEW x \in Handlers
  PROVE  /\ Append(q, x) \in Seq(Handlers)
         /\ \A g, do : Has(Append(q, x), g, do) <=> Has(q, g, do) \/ (x.gid = g /\ x.do = do)
         /\ (/\ Once(q)
             /\ x.gid # NoGid => \A do : ~Has(q, x.gid, do)
             /\ x.do = "fill" => ~Has(q, NoGid, "fill"))
            => Once(Append(q, x))
<1> DEFINE r == Append(q, x)
<1>1. r \in Seq(Handlers) /\ DOMAIN r = 1..(Len(q) + 1)
  OBVIOUS
<1>2. DOMAIN q = 1..Len(q) /\ Len(q) \in Nat
  OBVIOUS
<1>3. \A i \in 1..(Len(q) + 1) : r[i] = IF i = Len(q) + 1 THEN x ELSE q[i]
  OBVIOUS
<1> HIDE DEF r
<1>4. ASSUME NEW g, NEW do
      PROVE  Has(r, g, do) <=> Has(q, g, do) \/ (x.gid = g /\ x.do = do)
  <2>1. ASSUME Has(r, g, do) PROVE Has(q, g, do) \/ (x.gid = g /\ x.do = do)
    BY <1>1, <1>2, <1>3, <2>1, SMTT(40) DEF Has
  <2>2. ASSUME Has(q, g, do) PROVE Has(r, g, do)
    BY <1>1, <1>2, <1>3, <2>2, SMTT(40) DEF Has
  <2>3. ASSUME x.gid = g /\ x.do = do PROVE Has(r, g, do)
    <3>1. Len(q) + 1 \in DOMAIN r /\ r[Len(q) + 1] = x
      BY <1>1, <1>2, <1>3, SMTT(40)
    <3> QED
      BY <2>3, <3>1 DEF Has
  <2> QED
    BY <2>1, <2>2, <2>3, ZenonT(40)
<1>5. ASSUME Once(q), x.gid # NoGid => \A do : ~Has(q, x.gid, do),
             x.do = "fill" => ~Has(q, NoGid, "fill")
      PROVE  Once(r)
  <2>1. \A i \in DOMAIN q : q[i] \in Handlers
    BY <1>2
  <2>2. \A i \in DOMAIN q : x.gid # NoGid => q[i].gid # x.gid
    BY <1>5, ZenonT(40) DEF Has
  <2>3. \A i \in DOMAIN q : x.do = "fill" => q[i].do # "fill"
    BY <1>5, <2>1, HandlerType, ZenonT(40) DEF Has
  <2>4. \A i \in DOMAIN r : (i \in DOMAIN q /\ r[i] = q[i]) \/ (i = Len(q) + 1 /\ r[i] = x)
    BY <1>1, <1>2, <1>3, SMTT(40)
  <2> QED
    BY <1>5, <2>2, <2>3, <2>4, ZenonT(40) DEF Once
<1> QED
  BY <1>1, <1>4, <1>5 DEF r

\* The loop takes the first handler off io; the others stay.
LEMMA HandlerTail ==
  ASSUME NEW q \in Seq(Handlers), q # <<>>, Once(q)
  PROVE  /\ Head(q) \in Handlers
         /\ Has(q, Head(q).gid, Head(q).do)
         /\ Tail(q) \in Seq(Handlers)
         /\ Once(Tail(q))
         /\ \A g \in Gid : \A do : g # Head(q).gid => (Has(Tail(q), g, do) <=> Has(q, g, do))
         /\ Head(q).gid # NoGid => \A do : ~Has(Tail(q), Head(q).gid, do)
         /\ Head(q).do # "fill" => (Has(Tail(q), NoGid, "fill") <=> Has(q, NoGid, "fill"))
         /\ Head(q).do = "fill" => ~Has(Tail(q), NoGid, "fill")
<1> DEFINE t == Tail(q)
<1>1. t \in Seq(Handlers) /\ DOMAIN t = 1..(Len(q) - 1)
  OBVIOUS
<1>2. DOMAIN q = 1..Len(q) /\ Len(q) \in Nat \ {0} /\ Head(q) = q[1] /\ q[1] \in Handlers
  OBVIOUS
<1>3. \A i \in DOMAIN t : i + 1 \in DOMAIN q /\ i + 1 # 1 /\ t[i] = q[i + 1]
  OBVIOUS
<1>4. \A i \in DOMAIN q : i = 1 \/ (i - 1 \in DOMAIN t /\ t[i - 1] = q[i])
  OBVIOUS
<1>5. DOMAIN t \subseteq Nat
  BY <1>1, SMTT(40)
<1> HIDE DEF t
<1>6. Once(t)
  BY <1>3, <1>5, SMTT(40) DEF Once
<1>7. \A g, do : Has(t, g, do) => Has(q, g, do)
  BY <1>3 DEF Has
<1>8. \A g, do : Has(q, g, do) => Has(t, g, do) \/ (q[1].gid = g /\ q[1].do = do)
  BY <1>4 DEF Has
<1>9. q[1].gid # NoGid => \A do : ~Has(t, q[1].gid, do)
  BY <1>2, <1>3 DEF Has, Once
<1>10. q[1].do = "fill" => ~Has(t, NoGid, "fill")
  BY <1>2, <1>3, SMTT(40) DEF Has, Once
<1>11. Has(q, q[1].gid, q[1].do)
  BY <1>2, SMTT(40) DEF Has
<1> QED
  BY <1>1, <1>2, <1>6, <1>7, <1>8, <1>9, <1>10, <1>11, ZenonT(40) DEF t

\* Engine::schedule() posts at most one fill() and sets scheduled_ with it.
LEMMA ScheduleKeeps ==
  ASSUME NEW w \in BOOLEAN, NEW q \in Seq(Handlers), Once(q), scheduled \in BOOLEAN,
         scheduled <=> Has(q, NoGid, "fill"), ScheduleIf(w, q)
  PROVE  /\ io' \in Seq(Handlers) /\ Once(io') /\ scheduled' \in BOOLEAN
         /\ scheduled' <=> Has(io', NoGid, "fill")
         /\ \A g \in Gid : \A do : Has(io', g, do) <=> Has(q, g, do)
<1>1. CASE io' = q /\ scheduled' = scheduled
  BY <1>1, ZenonT(40)
<1>2. CASE io' = Append(q, Fill) /\ scheduled' = TRUE /\ ~scheduled
  <2>1. /\ Append(q, Fill) \in Seq(Handlers)
        /\ \A g, do : Has(Append(q, Fill), g, do)
                        <=> Has(q, g, do) \/ (Fill.gid = g /\ Fill.do = do)
        /\ Once(Append(q, Fill))
    BY <1>2, HandlerMade, HandlerAppend, SMTT(40)
  <2>2. NoGid \notin Gid
    BY ConstantsOK, ZenonT(40)
  <2> QED
    BY <1>2, <2>1, <2>2, HandlerMade, SMTT(40)
<1> QED
  BY <1>1, <1>2, ZenonT(40) DEF ScheduleIf, Schedule

\* A task no step touches keeps its phase.
LEMMA AgreesFrame ==
  ASSUME NEW g \in Gid, Agrees(g),
         state'[g] = state[g], stopping'[g] = stopping[g], kind'[g] = kind[g],
         work'[g] = work[g], onStop'[g] = onStop[g], closing'[g] = closing[g],
         moving'[g] = moving[g], g \in astray' <=> g \in astray,
         \A do : Has(io', g, do) <=> Has(io, g, do)
  PROVE  Agrees(g)'
  BY DEF Agrees, Pending

\* The session file of a queue.
LEMMA SessionType ==
  ASSUME NEW all \in Seq(Gid), NEW st
  PROVE  SessionOf(all, st) \in Seq(Entries)
<1> DEFINE K == {i \in DOMAIN all : Saved(st[all[i]])}
           kept == KeepAt(all, K)
           e(i) == [gid |-> kept[i], paused |-> st[kept[i]] = "Paused"]
<1>1. kept \in Seq(Gid)
  <2>1. K \in SUBSET DOMAIN all
    BY ZenonT(40)
  <2> HIDE DEF K
  <2> QED
    BY <2>1, KeepAtProperties, ZenonT(40)
<1>2. SessionOf(all, st) = [i \in DOMAIN kept |-> e(i)]
  BY ZenonT(40) DEF SessionOf
<1> HIDE DEF kept
<1>3. \A i \in DOMAIN kept : e(i) \in Entries
  BY <1>1 DEF Entries
<1>4. DOMAIN kept = 1..Len(kept) /\ Len(kept) \in Nat
  BY <1>1, SMTT(40)
<1> HIDE DEF e
<1> QED
  BY <1>2, <1>3, <1>4

\* retire(): the task moves to the results, and results beyond the limit go.
LEMMA RetireQueues ==
  ASSUME TypeOK, OneQueue, NEW g \in Gid, NEW r \in Results, NEW st,
         state[g] \in Queued \cup {"Active"},
         state' = [state EXCEPT ![g] = r],
         waiting' \in Seq(Gid), Distinct(waiting'), Values(waiting') = Values(waiting) \ {g},
         RetireTask(g, st)
  PROVE  /\ OneQueue'
         /\ active' \in Seq(Gid) /\ stopped' \in Seq(Gid) /\ tasks' \in SUBSET Gid
<1> DEFINE s == Append(stopped, g)
           E == Excess(s, st)
<1>1. /\ active \in Seq(Gid) /\ waiting \in Seq(Gid) /\ stopped \in Seq(Gid)
      /\ tasks \in SUBSET Gid /\ state \in [Gid -> States]
  BY DEF TypeOK
<1>2. r \in Results /\ "Active" \notin Results /\ Queued \cap Results = {} /\ "Active" \notin Queued
  BY ZenonT(40) DEF Results, Queued
<1>3. g \notin Values(stopped)
  BY <1>2, ZenonT(40) DEF OneQueue
<1>4. s \in Seq(Gid) /\ Values(s) = Values(stopped) \cup {g} /\ Distinct(s)
  BY <1>1, <1>3, AppendValues, SMTT(40) DEF OneQueue
<1>5. E \in SUBSET DOMAIN s
  BY ZenonT(40) DEF Excess
<1>6. /\ active' = Without(active, {g})
      /\ stopped' = KeepAt(s, DOMAIN s \ E)
      /\ tasks' = tasks \ {s[i] : i \in E}
  BY DEF RetireTask
<1> HIDE DEF s, E
<1>7. DOMAIN s \ E \in SUBSET DOMAIN s
  BY ZenonT(40)
<1>8. /\ stopped' \in Seq(Gid)
      /\ Values(stopped') = {s[k] : k \in DOMAIN s \ E}
      /\ Distinct(stopped')
  BY <1>4, <1>6, <1>7, KeepAtProperties, ZenonT(40)
<1>9. Values(stopped') = Values(s) \ {s[i] : i \in E}
  <2>1. \A k \in DOMAIN s \ E, i \in E : s[k] # s[i]
    BY <1>4, <1>5, ZenonT(40) DEF Distinct
  <2> QED
    BY <1>5, <1>8, <2>1, ZenonT(40) DEF Values
<1>10. {s[i] : i \in E} \subseteq Values(s)
  BY <1>5, ZenonT(40) DEF Values
<1>11. /\ active' \in Seq(Gid) /\ Values(active') = Values(active) \ {g}
       /\ Distinct(active')
  BY <1>1, <1>6, WithoutProperties, SMTT(40) DEF OneQueue
<1>12. \A h \in Gid : state'[h] = IF h = g THEN r ELSE state[h]
  BY <1>1
<1>13. tasks = Values(active) \cup Values(waiting) \cup Values(stopped) /\ g \in tasks
  BY <1>2 DEF OneQueue
<1>14. Values(active') = {h \in Gid : state'[h] = "Active"}
  BY <1>2, <1>11, <1>12, ZenonT(40) DEF OneQueue
<1>15. Values(waiting') = {h \in Gid : state'[h] \in Queued}
  BY <1>2, <1>12 DEF OneQueue
<1>16. Values(stopped') = {h \in tasks' : state'[h] \in Results}
  <2>1. \A h \in Values(s) : h \in tasks /\ state'[h] \in Results
    BY <1>1, <1>2, <1>4, <1>12, <1>13, ZenonT(40) DEF OneQueue
  <2>2. \A h \in tasks : state'[h] \in Results => h \in Values(s)
    BY <1>1, <1>2, <1>4, <1>12, ZenonT(40) DEF OneQueue
  <2> QED
    BY <1>6, <1>9, <2>1, <2>2, ZenonT(40)
<1>17. tasks' = Values(active') \cup Values(waiting') \cup Values(stopped')
  <2>1. \A h \in Values(s) : h \notin Values(active') /\ h \notin Values(waiting')
    BY <1>2, <1>4, <1>11, ZenonT(40) DEF OneQueue
  <2> QED
    BY <1>4, <1>6, <1>9, <1>10, <1>11, <1>13, <2>1, ZenonT(40)
<1> QED
  BY <1>1, <1>6, <1>8, <1>11, <1>14, <1>15, <1>16, <1>17, ZenonT(40) DEF OneQueue

\* The callback of stopTask() moves its tasks from the active list to the front of
\* the waiting one, or to the results.
LEMMA StopDoneQueues ==
  ASSUME TypeOK, OneQueue,
         NEW ys \in Seq(Gid), Distinct(ys), Values(ys) \subseteq Values(active),
         NEW next \in Nexts, next = "Removed" => Values(ys) \subseteq {ys[1]},
         NEW st \in [Gid -> States],
         \A g \in Gid : st[g] = state[g] \/ (state[g] = "Waiting" /\ st[g] = "Paused"),
         next = "Removed" => st = state,
         NEW mv, NEW down, NEW q, StopDone(ys, next, st, mv, down, q)
  PROVE  /\ OneQueue'
         /\ state' \in [Gid -> States]
         /\ active' \in Seq(Gid) /\ waiting' \in Seq(Gid) /\ stopped' \in Seq(Gid)
         /\ tasks' \in SUBSET Gid
<1>1. /\ active \in Seq(Gid) /\ waiting \in Seq(Gid) /\ stopped \in Seq(Gid)
      /\ tasks \in SUBSET Gid /\ state \in [Gid -> States]
  BY DEF TypeOK
<1>2. /\ state' = [g \in Gid |-> IF g \in Values(ys) THEN next ELSE st[g]]
      /\ next \in States
  BY DEF StopDone, States, Nexts, Queued, Results
<1>3. state' \in [Gid -> States]
  BY <1>2
<1>4. CASE next = "Removed" /\ ys # <<>>
  <2>1. RetireTask(ys[1], state') /\ waiting' = waiting
    BY <1>4 DEF StopDone
  <2>2. ys[1] \in Gid /\ Values(ys) = {ys[1]} /\ state[ys[1]] = "Active"
    <3>1. 1 \in DOMAIN ys
      BY <1>4
    <3>2. ys[1] \in Values(ys)
      BY <3>1 DEF Values
    <3> QED
      BY <1>4, <3>1, <3>2, ZenonT(40) DEF OneQueue
  <2>3. state' = [state EXCEPT ![ys[1]] = "Removed"]
    BY <1>1, <1>2, <1>4, <2>2, ZenonT(40)
  <2>4. waiting' \in Seq(Gid) /\ Distinct(waiting') /\ Values(waiting') = Values(waiting) \ {ys[1]}
    <3>1. ys[1] \notin Values(waiting)
      BY <2>2 DEF OneQueue, Queued
    <3> QED
      BY <1>1, <2>1, <3>1, SMTT(40) DEF OneQueue
  <2>5. "Removed" \in Results
    BY DEF Results
  <2> QED
    BY <1>3, <2>1, <2>2, <2>3, <2>4, <2>5, RetireQueues, ZenonT(40)
<1>5. CASE ~(next = "Removed" /\ ys # <<>>)
  <2>1. /\ active' = Without(active, Values(ys))
        /\ waiting' = Reversed(ys) \o waiting
        /\ stopped' = stopped /\ tasks' = tasks
    BY <1>5, ZenonT(40) DEF StopDone
  <2>2. /\ active' \in Seq(Gid) /\ Values(active') = Values(active) \ Values(ys)
        /\ Distinct(active')
    BY <1>1, <2>1, WithoutProperties, SMTT(40) DEF OneQueue
  <2>3. Values(ys) \cap Values(waiting) = {}
    BY DEF OneQueue, Queued
  <2>4. /\ Reversed(ys) \in Seq(Gid) /\ Values(Reversed(ys)) = Values(ys)
        /\ Distinct(Reversed(ys))
    BY ReversedProperties
  <2>5. /\ waiting' \in Seq(Gid) /\ Values(waiting') = Values(ys) \cup Values(waiting)
        /\ Distinct(waiting')
    <3>1. Values(Reversed(ys)) \cap Values(waiting) = {} /\ Distinct(waiting)
      BY <2>3, <2>4 DEF OneQueue
    <3> QED
      BY <1>1, <2>1, <2>4, <3>1, ConcatValues, SMTT(40)
  <2>6. ys = <<>> \/ next \in Queued
    BY <1>5 DEF Nexts, Queued
  <2>7. \A g \in Values(ys) : next \in Queued
    <3>1. ASSUME ys = <<>> PROVE Values(ys) = {}
      BY <3>1 DEF Values
    <3> QED
      BY <2>6, <3>1
  <2>8. Values(ys) \subseteq Gid
    BY <1>1 DEF OneQueue
  <2>9. /\ "Active" \notin Queued /\ "Active" \notin Results /\ Queued \cap Results = {}
        /\ "Waiting" \in Queued /\ "Paused" \in Queued
    BY DEF Queued, Results
  <2>10. \A g \in Gid : /\ st[g] = "Active" <=> state[g] = "Active"
                        /\ st[g] \in Queued <=> state[g] \in Queued
                        /\ st[g] \in Results <=> state[g] \in Results
    BY <2>9, ZenonT(40)
  <2>11. Values(active') = {g \in Gid : state'[g] = "Active"}
    BY <1>2, <2>2, <2>7, <2>9, <2>10, ZenonT(40) DEF OneQueue
  <2>12. Values(waiting') = {g \in Gid : state'[g] \in Queued}
    BY <1>2, <2>5, <2>7, <2>8, <2>10, ZenonT(40) DEF OneQueue
  <2>13. Values(stopped') = {g \in tasks' : state'[g] \in Results}
    <3>1. \A g \in tasks : state'[g] \in Results <=> state[g] \in Results
      BY <1>1, <1>2, <2>7, <2>9, <2>10, ZenonT(40) DEF OneQueue
    <3> QED
      BY <2>1, <3>1, ZenonT(40) DEF OneQueue
  <2>14. tasks' = Values(active') \cup Values(waiting') \cup Values(stopped')
    BY <2>1, <2>2, <2>5, ZenonT(40) DEF OneQueue
  <2> QED
    BY <1>1, <1>3, <2>1, <2>2, <2>5, <2>11, <2>12, <2>13, <2>14, ZenonT(40) DEF OneQueue
<1> QED
  BY <1>4, <1>5

\* The rest of what the callback changes has its type.
LEMMA StopDoneType ==
  ASSUME TypeOK, OneQueue,
         NEW ys, NEW next, NEW st, NEW down, NEW q,
         NEW mv \in [Gid -> {"no", "waits", "started", "posted"}],
         active' \in Seq(Gid), waiting' \in Seq(Gid), stopped' \in Seq(Gid),
         StopDone(ys, next, st, mv, down, q)
  PROVE  /\ work' \in [Gid -> {"idle", "running", "handing", "over"}]
         /\ moving' \in [Gid -> {"no", "waits", "started", "posted"}]
         /\ loop' \in {"running", "closing", "stopped", "crashed"}
         /\ session' \in Seq(Entries)
<1>1. work' \in [Gid -> {"idle", "running", "handing", "over"}]
  BY DEF StopDone, TypeOK
<1>2. moving' \in [Gid -> {"no", "waits", "started", "posted"}]
  BY DEF StopDone
<1>3. active' \o waiting' \o stopped' \in Seq(Gid)
  OBVIOUS
<1>4. SessionOf(active' \o waiting' \o stopped', state') \in Seq(Entries)
  BY <1>3, SessionType, ZenonT(40)
<1>5. /\ loop' \in {loop, "crashed", "closing", "stopped"}
      /\ session' \in {session, SessionOf(active' \o waiting' \o stopped', state')}
  BY ZenonT(40) DEF StopDone, FinishShutdown
<1> QED
  BY <1>1, <1>2, <1>4, <1>5, ZenonT(40) DEF TypeOK

IInv == TypeOK /\ OneQueue /\ InFlightAgrees

\* No stop reaches a task that has ended, hands over or is stopping already.
Orderly == Situations \subseteq {"moving", "nodisk", "sharing"}

\* What a stop leaves of the invariant, besides the variables it does not change.
StopKeeps ==
  /\ tasks \in SUBSET Gid
  /\ state \in [Gid -> States]
  /\ stopping \in [Gid -> BOOLEAN]
  /\ work \in [Gid -> {"idle", "running", "handing", "over"}]
  /\ onStop \in [Gid -> Nexts \cup {"none"}]
  /\ closing \in [Gid -> Seq(Nexts)]
  /\ active \in Seq(Gid) /\ waiting \in Seq(Gid) /\ stopped \in Seq(Gid)
  /\ moving \in [Gid -> {"no", "waits", "started", "posted"}]
  /\ scheduled \in BOOLEAN
  /\ loop \in {"running", "closing", "stopped", "crashed"}
  /\ session \in Seq(Entries)
  /\ io \in Seq(Handlers)
  /\ OneQueue
  /\ InFlightAgrees

\* stopTask() of a set of running tasks, whoever asks for it.
LEMMA StopTasksKeeps ==
  ASSUME Orderly, IInv,
         NEW S \in SUBSET Values(active), Stoppable(S), NEW Y \in SUBSET S,
         NEW next \in Nexts, NEW st \in [Gid -> States],
         next = "Removed" => st = state /\ \E g \in Gid : S \subseteq {g},
         \A g \in Gid : st[g] = state[g] \/ (state[g] = "Waiting" /\ st[g] = "Paused"),
         NEW mv \in [Gid -> {"no", "waits", "started", "posted"}],
         \A g \in Gid : mv[g] = moving[g] \/ (g \in S /\ next = "Paused" /\ mv[g] = "waits"),
         NEW down \in BOOLEAN, StopTasks(S, Y, next, st, mv, down),
         kind' = kind, astray' = astray
  PROVE  StopKeeps'
<1> DEFINE ys == Only(active, Y)
<1>1. /\ TypeOK /\ OneQueue /\ InFlightAgrees
      /\ active \in Seq(Gid) /\ scheduled \in BOOLEAN /\ io \in Seq(Handlers)
      /\ stopping \in [Gid -> BOOLEAN] /\ onStop \in [Gid -> Nexts \cup {"none"}]
      /\ closing \in [Gid -> Seq(Nexts)]
  BY ZenonT(40) DEF IInv, TypeOK
<1>2. /\ ys \in Seq(Gid) /\ Values(ys) = Values(active) \cap Y /\ Distinct(ys)
  BY <1>1, OnlyProperties, SMTT(40) DEF OneQueue
<1>3. Y \subseteq S /\ S \subseteq Gid /\ Values(ys) = Y
  BY <1>1, <1>2, ZenonT(40) DEF OneQueue
<1>4. StopDone(ys, next, st, mv, down, io)
  BY DEF StopTasks
<1>5. next = "Removed" => Values(ys) \subseteq {ys[1]}
  <2> SUFFICES ASSUME next = "Removed", NEW x \in Values(ys) PROVE x = ys[1]
    OBVIOUS
  <2>1. PICK g \in Gid : S \subseteq {g}
    OBVIOUS
  <2> HIDE DEF ys
  <2>2. 1 \in DOMAIN ys
    BY <1>2 DEF Values
  <2>3. ys[1] \in Values(ys)
    BY <2>2, SMTT(40) DEF Values
  <2> QED
    BY <1>3, <2>1, <2>3, SMTT(40)
<1> HIDE DEF ys
<1>6. /\ OneQueue'
      /\ state' \in [Gid -> States]
      /\ active' \in Seq(Gid) /\ waiting' \in Seq(Gid) /\ stopped' \in Seq(Gid)
      /\ tasks' \in SUBSET Gid
  BY <1>1, <1>2, <1>3, <1>4, <1>5, StopDoneQueues, ZenonT(40)
<1>7. /\ work' \in [Gid -> {"idle", "running", "handing", "over"}]
      /\ moving' \in [Gid -> {"no", "waits", "started", "posted"}]
      /\ loop' \in {"running", "closing", "stopped", "crashed"}
      /\ session' \in Seq(Entries)
  BY <1>1, <1>4, <1>6, StopDoneType
<1>8. /\ io' \in Seq(Handlers) /\ Once(io') /\ scheduled' \in BOOLEAN
      /\ scheduled' <=> Has(io', NoGid, "fill")
      /\ \A g \in Gid : \A do : Has(io', g, do) <=> Has(io, g, do)
  <2>1. ScheduleIf(ys # <<>>, io)
    BY <1>4, ZenonT(40) DEF StopDone
  <2>2. Once(io) /\ (scheduled <=> Has(io, NoGid, "fill"))
    BY <1>1, ZenonT(40) DEF InFlightAgrees, Pending
  <2> QED
    BY <1>1, <2>1, <2>2, ScheduleKeeps, ZenonT(40)
<1>9. /\ stopping' = [g \in Gid |-> g \notin Y /\ (g \in S \ Y \/ stopping[g])]
      /\ onStop' = [g \in Gid |-> IF g \in S \ Y /\ closing[g] = <<>> THEN next ELSE onStop[g]]
      /\ closing' = [g \in Gid |-> IF g \in S \ Y /\ closing[g] # <<>>
                                  THEN Append(closing[g], next) ELSE closing[g]]
  BY ZenonT(40) DEF StopTasks
<1>10. /\ stopping' \in [Gid -> BOOLEAN]
       /\ onStop' \in [Gid -> Nexts \cup {"none"}]
       /\ closing' \in [Gid -> Seq(Nexts)]
  BY <1>1, <1>9, SMTT(40)
<1>11. /\ state' = [g \in Gid |-> IF g \in Y THEN next ELSE st[g]]
       /\ work' = [g \in Gid |-> IF g \in Y THEN "idle" ELSE work[g]]
       /\ moving' = [g \in Gid |-> IF g \in Y /\ mv[g] = "waits"
                                   THEN IF next = "Paused" /\ ~down THEN "started" ELSE "no"
                                   ELSE mv[g]]
  BY <1>3, <1>4, ZenonT(40) DEF StopDone
<1>12. \A g \in Gid : Agrees(g)'
  <2> SUFFICES ASSUME NEW g \in Gid PROVE Agrees(g)'
    BY ZenonT(40)
  <2>1. Agrees(g)
    BY <1>1, ZenonT(40) DEF InFlightAgrees
  <2>2. \A do : Has(io', g, do) <=> Has(io, g, do)
    BY <1>8, ZenonT(40)
  <2>3. CASE g \in S
    <3>1. state[g] = "Active"
      <4>1. Values(active) = {h \in Gid : state[h] = "Active"}
        BY <1>1, ZenonT(40) DEF OneQueue
      <4> QED
        BY <2>3, <4>1, ZenonT(40)
    <3>2. ~stopping[g] /\ work[g] = "running"
      <4>1. work[g] \in {"idle", "running", "handing", "over"} /\ stopping[g] \in BOOLEAN
        BY <1>1, ZenonT(40) DEF TypeOK
      <4>2. work[g] # "over" /\ work[g] # "handing" /\ ~stopping[g]
        BY <2>3, ZenonT(40) DEF Stoppable, Orderly
      <4>3. work[g] # "idle"
        BY <2>1, <3>1, ZenonT(40) DEF Agrees
      <4> QED
        BY <4>1, <4>2, <4>3, ZenonT(40)
    <3>3. /\ onStop[g] = "none" /\ closing[g] = <<>>
          /\ moving[g] = "no" /\ g \notin astray
          /\ ~Has(io, g, "retire") /\ ~Has(io, g, "handOver")
          /\ ~Has(io, g, "moved") /\ ~Has(io, g, "done")
      <4>1. moving[g] \in {"no", "waits", "started", "posted"}
        BY <1>1, ZenonT(40) DEF TypeOK
      <4> QED
        BY <2>1, <3>1, <3>2, <4>1, ZenonT(40) DEF Agrees, Pending
    <3>4. st[g] = "Active"
      BY <3>1
    <3>5. next # "Active" /\ next # "none"
      BY ZenonT(40) DEF Nexts
    <3>6. mv[g] = "no" \/ (mv[g] = "waits" /\ next = "Paused")
      BY <3>3, ZenonT(40)
    <3>7. CASE g \in Y
      <4>1. /\ state'[g] = next /\ work'[g] = "idle" /\ ~stopping'[g]
            /\ onStop'[g] = "none" /\ closing'[g] = <<>>
            /\ moving'[g] \in {"no", "started"} /\ (moving'[g] = "started" => next = "Paused")
        BY <1>9, <1>11, <3>3, <3>6, <3>7, ZenonT(40)
      <4> QED
        BY <2>2, <3>3, <3>5, <4>1, ZenonT(40) DEF Agrees, Pending
    <3>8. CASE g \notin Y
      <4>1. /\ state'[g] = "Active" /\ work'[g] = "running" /\ stopping'[g]
            /\ onStop'[g] = next /\ closing'[g] = <<>>
            /\ moving'[g] \in {"no", "waits"}
        BY <1>9, <1>11, <2>3, <3>2, <3>3, <3>4, <3>6, <3>8, ZenonT(40)
      <4> QED
        BY <2>2, <3>3, <3>5, <4>1, ZenonT(40) DEF Agrees, Pending
    <3> QED
      BY <3>7, <3>8, ZenonT(40)
  <2>4. CASE g \notin S
    <3>1. /\ state'[g] = st[g] /\ work'[g] = work[g] /\ moving'[g] = moving[g]
          /\ stopping'[g] = stopping[g] /\ onStop'[g] = onStop[g]
          /\ closing'[g] = closing[g]
      BY <1>1, <1>3, <1>9, <1>11, <2>4, ZenonT(40)
    <3>2. CASE st[g] = state[g]
      BY <2>1, <2>2, <3>1, <3>2, AgreesFrame, ZenonT(40)
    <3>3. CASE state[g] = "Waiting" /\ st[g] = "Paused"
      BY <2>1, <2>2, <3>1, <3>3, ZenonT(40) DEF Agrees, Pending
    <3> QED
      BY <3>2, <3>3, ZenonT(40)
  <2> QED
    BY <2>3, <2>4, ZenonT(40)
<1> QED
  BY <1>6, <1>7, <1>8, <1>10, <1>12, ZenonT(40) DEF StopKeeps, InFlightAgrees, Pending

\* The callback of one stop, run by the session, the worker or a handler.
LEMMA StopOneKeeps ==
  ASSUME IInv, NEW g \in Gid, stopping[g], NEW next \in Nexts,
         NEW q \in Seq(Handlers), Once(q), scheduled <=> Has(q, NoGid, "fill"),
         \A h \in Gid : \A do : h # g => (Has(q, h, do) <=> Has(io, h, do)),
         \A do : ~Has(q, g, do),
         stopping' = [stopping EXCEPT ![g] = FALSE],
         onStop' = [onStop EXCEPT ![g] = "none"],
         closing[g] = <<>>, closing' = closing, kind' = kind, astray' = astray,
         StopDone(<<g>>, next, state, moving, shuttingDown, q)
  PROVE  StopKeeps'
<1> DEFINE ys == <<g>>
<1>1. /\ TypeOK /\ OneQueue /\ InFlightAgrees
      /\ active \in Seq(Gid) /\ scheduled \in BOOLEAN /\ state \in [Gid -> States]
      /\ stopping \in [Gid -> BOOLEAN] /\ onStop \in [Gid -> Nexts \cup {"none"}]
      /\ closing \in [Gid -> Seq(Nexts)]
      /\ moving \in [Gid -> {"no", "waits", "started", "posted"}]
  BY DEF IInv, TypeOK
<1>2. Agrees(g)
  BY <1>1, ZenonT(40) DEF InFlightAgrees
<1>3. state[g] = "Active" /\ work[g] = "running"
  BY <1>2 DEF Agrees
<1>4. ys \in Seq(Gid) /\ Values(ys) = {g} /\ Distinct(ys) /\ ys[1] = g /\ ys # <<>>
  BY SMTT(40) DEF Values, Distinct
<1>5. StopDone(ys, next, state, moving, shuttingDown, q)
  BY ZenonT(40)
<1> HIDE DEF ys
<1>6. Values(ys) \subseteq Values(active)
  BY <1>1, <1>3, <1>4, ZenonT(40) DEF OneQueue
<1>7. /\ OneQueue'
      /\ state' \in [Gid -> States]
      /\ active' \in Seq(Gid) /\ waiting' \in Seq(Gid) /\ stopped' \in Seq(Gid)
      /\ tasks' \in SUBSET Gid
  BY <1>1, <1>4, <1>5, <1>6, StopDoneQueues, ZenonT(40)
<1>8. /\ work' \in [Gid -> {"idle", "running", "handing", "over"}]
      /\ moving' \in [Gid -> {"no", "waits", "started", "posted"}]
      /\ loop' \in {"running", "closing", "stopped", "crashed"}
      /\ session' \in Seq(Entries)
  BY <1>1, <1>5, <1>7, StopDoneType
<1>9. /\ io' \in Seq(Handlers) /\ Once(io') /\ scheduled' \in BOOLEAN
      /\ scheduled' <=> Has(io', NoGid, "fill")
      /\ \A h \in Gid : \A do : Has(io', h, do) <=> Has(q, h, do)
  <2>1. ScheduleIf(ys # <<>>, q)
    BY <1>5, ZenonT(40) DEF StopDone
  <2> QED
    BY <1>1, <2>1, ScheduleKeeps, ZenonT(40)
<1>10. /\ stopping' \in [Gid -> BOOLEAN]
       /\ onStop' \in [Gid -> Nexts \cup {"none"}]
       /\ closing' \in [Gid -> Seq(Nexts)]
  BY <1>1, SMTT(40)
<1>11. /\ state' = [h \in Gid |-> IF h = g THEN next ELSE state[h]]
       /\ work' = [h \in Gid |-> IF h = g THEN "idle" ELSE work[h]]
       /\ moving' = [h \in Gid |-> IF h = g /\ moving[h] = "waits"
                                   THEN IF next = "Paused" /\ ~shuttingDown THEN "started" ELSE "no"
                                   ELSE moving[h]]
  BY <1>4, <1>5, ZenonT(40) DEF StopDone
<1>12. ASSUME NEW h \in Gid PROVE Agrees(h)'
  <2>1. CASE h = g
    <3>1. /\ moving[g] \in {"no", "waits"} /\ g \notin astray
      BY <1>1, <1>2, <1>3, ZenonT(40) DEF Agrees
    <3>2. next # "Active"
      BY ZenonT(40) DEF Nexts
    <3>3. /\ state'[g] = next /\ work'[g] = "idle" /\ ~stopping'[g]
          /\ onStop'[g] = "none" /\ closing'[g] = <<>>
          /\ moving'[g] \in {"no", "started"} /\ (moving'[g] = "started" => next = "Paused")
      BY <1>1, <1>11, <3>1, ZenonT(40)
    <3>4. \A do : ~Has(io', g, do)
      BY <1>9, SMTT(40)
    <3> QED
      BY <2>1, <3>1, <3>2, <3>3, <3>4, ZenonT(40) DEF Agrees, Pending
  <2>2. CASE h # g
    <3>1. /\ state'[h] = state[h] /\ work'[h] = work[h] /\ moving'[h] = moving[h]
          /\ stopping'[h] = stopping[h] /\ onStop'[h] = onStop[h]
      BY <1>1, <1>11, <2>2, ZenonT(40)
    <3>2. \A do : Has(io', h, do) <=> Has(io, h, do)
      BY <1>9, <2>2, ZenonT(40)
    <3>3. Agrees(h)
      BY <1>1 DEF InFlightAgrees
    <3> QED
      BY <3>1, <3>2, <3>3, AgreesFrame, ZenonT(40)
  <2> QED
    BY <2>1, <2>2, SMTT(40)
<1> QED
  BY <1>7, <1>8, <1>9, <1>10, <1>12, ZenonT(40) DEF StopKeeps, InFlightAgrees, Pending

\* The invariant holds when the input list has been queued.
LEMMA InitIInv == Init => IInv
<1> SUFFICES ASSUME Init PROVE IInv
  OBVIOUS
<1>1. Input \in Seq(Gid) /\ Distinct(Input) /\ Values(Input) \subseteq Gid
  BY ConstantsOK DEF Values
<1>2. /\ state \in [Gid -> States]
      /\ \A g \in Gid : state[g] \in Queued <=> g \in Values(Input)
      /\ \A g \in Gid : state[g] # "Active" /\ state[g] \notin Results
  BY <1>1, ZenonT(40) DEF Init, States, Queued, Results
<1>3. io = <<Fill>> /\ Fill \in Handlers /\ Fill.do = "fill" /\ Fill.gid = NoGid
  BY HandlerMade DEF Init
<1>4. /\ io \in Seq(Handlers) /\ Once(io) /\ Has(io, NoGid, "fill")
      /\ \A g \in Gid : \A do : ~Has(io, g, do)
  <2>1. DOMAIN io = {1} /\ io[1] = Fill
    BY <1>3
  <2>2. NoGid \notin Gid
    BY ConstantsOK, SMTT(40)
  <2> QED
    BY <1>3, <2>1, <2>2 DEF Once, Has
<1>5. TypeOK
  <2>1. <<>> \in Seq(Nexts) /\ <<>> \in Seq(Entries) /\ <<>> \in Seq(Gid)
    OBVIOUS
  <2>2. /\ kind \in [Gid -> Kinds] /\ limit \in Limits
        /\ tasks \in SUBSET Gid /\ waiting \in Seq(Gid)
    BY <1>1, ConstantsOK DEF Init
  <2> QED
    BY <1>2, <1>4, <2>1, <2>2, ZenonT(40) DEF Init, TypeOK
<1>6. OneQueue
  <2>1. active = <<>> /\ waiting = Input /\ stopped = <<>> /\ tasks = Values(Input)
    BY DEF Init
  <2>2. Values(<<>>) = {} /\ Distinct(<<>>)
    BY DEF Values, Distinct
  <2> QED
    BY <1>1, <1>2, <2>1, <2>2, ZenonT(40) DEF OneQueue
<1>7. InFlightAgrees
  BY <1>2, <1>4, ZenonT(40) DEF Init, InFlightAgrees, Agrees, Pending
<1> QED
  BY <1>5, <1>6, <1>7 DEF IInv

\* A step that changes a task only as stopTask() does keeps the invariant.
LEMMA StopKeepsIInv ==
  ASSUME StopKeeps', kind' \in [Gid -> Kinds], resume' \in [Gid -> BOOLEAN],
         astray' \in SUBSET Gid, sharing' \in SUBSET Gid, limit' \in Limits,
         disk' \in BOOLEAN, shuttingDown' \in BOOLEAN, forceShutdown' \in BOOLEAN
  PROVE  IInv'
  BY SMTT(40) DEF StopKeeps, IInv, TypeOK

\* Changes between waiting and paused leave the lists right.
LEMMA QueuedStates ==
  ASSUME TypeOK, OneQueue, UNCHANGED <<tasks, active, waiting, stopped>>,
         \A g \in Gid : state'[g] = state[g] \/ (state[g] \in Queued /\ state'[g] \in Queued)
  PROVE  OneQueue'
<1>1. /\ "Active" \notin Queued /\ "Active" \notin Results /\ Queued \cap Results = {}
  BY DEF Queued, Results
<1>2. \A g \in Gid : /\ state'[g] = "Active" <=> state[g] = "Active"
                     /\ state'[g] \in Queued <=> state[g] \in Queued
                     /\ state'[g] \in Results <=> state[g] \in Results
  BY <1>1
<1>3. tasks \in SUBSET Gid
  BY DEF TypeOK
<1> QED
  BY <1>2, <1>3, ZenonT(40) DEF OneQueue

\* The handlers after a step that only schedules.
LEMMA ScheduledIo ==
  ASSUME IInv, NEW w \in BOOLEAN, ScheduleIf(w, io)
  PROVE  /\ io' \in Seq(Handlers) /\ Once(io') /\ scheduled' \in BOOLEAN
         /\ scheduled' <=> Has(io', NoGid, "fill")
         /\ \A g \in Gid : \A do : Has(io', g, do) <=> Has(io, g, do)
<1>1. /\ io \in Seq(Handlers) /\ Once(io) /\ scheduled \in BOOLEAN
      /\ scheduled <=> Has(io, NoGid, "fill")
  BY DEF IInv, TypeOK, InFlightAgrees, Pending
<1> QED
  BY <1>1, ScheduleKeeps

\* Engine::schedule() leaves the handlers about downloads alone.
LEMMA ScheduledIoPlain ==
  ASSUME IInv, Schedule(io)
  PROVE  /\ io' \in Seq(Handlers) /\ Once(io') /\ scheduled' \in BOOLEAN
         /\ scheduled' <=> Has(io', NoGid, "fill")
         /\ \A g \in Gid : \A do : Has(io', g, do) <=> Has(io, g, do)
<1>1. ScheduleIf(TRUE, io)
  BY DEF ScheduleIf
<1> QED
  BY <1>1, ScheduledIo, ZenonT(40)

\* A step that changes nothing keeps the invariant.
LEMMA StutterKeeps == IInv /\ UNCHANGED vars => IInv'
<1> SUFFICES ASSUME IInv, UNCHANGED vars PROVE IInv'
  OBVIOUS
<1> USE DEF vars, object, queues, moves, flags
<1>1. TypeOK'
  BY DEF IInv, TypeOK
<1>2. OneQueue'
  BY SMTT(40) DEF IInv, OneQueue
<1>3. InFlightAgrees'
  BY ZenonT(40) DEF IInv, InFlightAgrees, Agrees, Pending
<1> QED
  BY <1>1, <1>2, <1>3 DEF IInv

\* What is used of the invariant when the handlers do not change.
LEMMA IInvFacts ==
  ASSUME IInv
  PROVE  /\ TypeOK /\ OneQueue /\ InFlightAgrees /\ \A g \in Gid : Agrees(g)
         /\ io \in Seq(Handlers) /\ Once(io) /\ scheduled \in BOOLEAN
         /\ scheduled <=> Has(io, NoGid, "fill")
         /\ state \in [Gid -> States] /\ kind \in [Gid -> Kinds]
         /\ stopping \in [Gid -> BOOLEAN]
         /\ work \in [Gid -> {"idle", "running", "handing", "over"}]
         /\ moving \in [Gid -> {"no", "waits", "started", "posted"}]
         /\ resume \in [Gid -> BOOLEAN] /\ astray \in SUBSET Gid /\ sharing \in SUBSET Gid
         /\ limit \in Limits /\ disk \in BOOLEAN /\ shuttingDown \in BOOLEAN
         /\ forceShutdown \in BOOLEAN
         /\ loop \in {"running", "closing", "stopped", "crashed"}
         /\ session \in Seq(Entries) /\ tasks \in SUBSET Gid
         /\ active \in Seq(Gid) /\ waiting \in Seq(Gid) /\ stopped \in Seq(Gid)
  BY SMTT(40) DEF IInv, InFlightAgrees, TypeOK, Pending

\* A step that turns waiting tasks into paused ones or back.
LEMMA QueuedStep ==
  ASSUME IInv,
         UNCHANGED <<tasks, stopping, kind, work, onStop, closing, active, waiting,
                     stopped, astray>>,
         state' \in [Gid -> States],
         \A g \in Gid : state'[g] = state[g] \/ (state[g] \in Queued /\ state'[g] \in Queued),
         moving' \in [Gid -> {"no", "waits", "started", "posted"}],
         \A g \in Gid :
           \/ moving'[g] = moving[g]
           \/ moving[g] = "no" /\ moving'[g] = "started" /\ state'[g] = "Paused"
           \/ moving[g] = "no" /\ moving'[g] = "waits" /\ stopping[g],
         \A g \in Gid : moving[g] # "no" => state'[g] = state[g],
         io' \in Seq(Handlers), Once(io'), scheduled' \in BOOLEAN,
         scheduled' <=> Has(io', NoGid, "fill"),
         \A g \in Gid : \A do : Has(io', g, do) <=> Has(io, g, do),
         resume' \in [Gid -> BOOLEAN], sharing' \in SUBSET Gid, limit' \in Limits,
         disk' \in BOOLEAN, shuttingDown' \in BOOLEAN, forceShutdown' \in BOOLEAN,
         loop' \in {"running", "closing", "stopped", "crashed"},
         session' \in Seq(Entries)
  PROVE  IInv'
<1>1. TypeOK /\ OneQueue /\ InFlightAgrees
  BY ZenonT(40) DEF IInv
<1>2. TypeOK'
  BY <1>1, ZenonT(40) DEF TypeOK
<1>3. OneQueue'
  BY <1>1, QueuedStates, SMTT(40)
<1>4. ASSUME NEW g \in Gid PROVE Agrees(g)'
  <2>1. Agrees(g) /\ \A do : Has(io', g, do) <=> Has(io, g, do)
    BY <1>1, ZenonT(40) DEF InFlightAgrees
  <2>2. state'[g] = "Active" <=> state[g] = "Active"
    BY ZenonT(40) DEF Queued
  <2>3. moving[g] \in {"started", "posted"} => state'[g] = "Paused"
    BY <2>1 DEF Agrees
  <2> QED
    BY <2>1, <2>2, <2>3, ZenonT(40) DEF Agrees, Pending
<1>5. InFlightAgrees'
  BY <1>4, ZenonT(40) DEF InFlightAgrees, Pending
<1> QED
  BY <1>2, <1>3, <1>5, ZenonT(40) DEF IInv

\* No handler about a task in this phase is queued.
LEMMA NothingPending ==
  ASSUME IInv, NEW g \in Gid, work[g] \in {"idle", "running"}, moving[g] # "posted",
         ~Has(io, g, "done")
  PROVE  \A do : ~Has(io, g, do)
<1>1. Agrees(g) /\ g # NoGid
  BY IInvFacts, ConstantsOK, ZenonT(40)
<1>2. /\ ~Has(io, g, "retire") /\ ~Has(io, g, "handOver") /\ ~Has(io, g, "moved")
  BY <1>1 DEF Agrees, Pending
<1>3. \A i \in DOMAIN io : io[i] \in Handlers
  BY IInvFacts, SMTT(40)
<1> QED
  BY <1>1, <1>2, <1>3, HandlerType, ZenonT(40) DEF Has

\* Engine::pause(), also as metadataReceived() and pauseAll() use it.
LEMMA PauseTaskKeeps ==
  ASSUME Orderly, IInv, NEW g \in Gid, NEW Y,
         state[g] = "Active" /\ ~stopping[g] => Stoppable({g}) /\ Y \in SUBSET {g},
         PauseTask(g, Y)
  PROVE  IInv'
<1> USE DEF object, queues, flags
<1>2. /\ resume' \in [Gid -> BOOLEAN] /\ astray' = astray /\ sharing' = sharing
      /\ limit' = limit /\ disk' = disk /\ shuttingDown' = shuttingDown
      /\ forceShutdown' = forceShutdown
  BY IInvFacts, ZenonT(40) DEF PauseTask
<1>3. CASE /\ state[g] = "Waiting"
           /\ state' = [state EXCEPT ![g] = "Paused"]
           /\ UNCHANGED <<tasks, stopping, kind, work, onStop, closing, queues,
                          moving, scheduled, loop, session, io>>
  <2>1. /\ state' \in [Gid -> States]
        /\ \A h \in Gid : state'[h] = state[h] \/ (state[h] \in Queued /\ state'[h] \in Queued)
    BY <1>3, IInvFacts, ZenonT(40) DEF States, Queued
  <2>2. \A h \in Gid : moving[h] # "no" => state'[h] = state[h]
    <3>1. Agrees(g) /\ moving[g] \in {"no", "waits", "started", "posted"}
      BY IInvFacts, ZenonT(40)
    <3>2. moving[g] = "no"
      BY <1>3, <3>1 DEF Agrees
    <3> QED
      BY <1>3, <3>2, IInvFacts, ZenonT(40)
  <2> QED
    BY <1>2, <1>3, <2>1, <2>2, IInvFacts, QueuedStep, ZenonT(40)
<1>4. CASE /\ state[g] = "Active" /\ ~stopping[g]
           /\ StopTasks({g}, Y, "Paused", state, moving, shuttingDown)
           /\ UNCHANGED kind
  <2> DEFINE S == {g}
  <2>1. /\ S \in SUBSET Values(active) /\ "Paused" \in Nexts /\ "Paused" # "Removed"
        /\ Stoppable(S) /\ Y \in SUBSET S /\ kind' = kind
        /\ StopTasks(S, Y, "Paused", state, moving, shuttingDown)
    BY <1>4, IInvFacts DEF OneQueue, Nexts
  <2> HIDE DEF S
  <2>2. StopKeeps'
    BY <1>2, <2>1, IInvFacts, StopTasksKeeps, ZenonT(40)
  <2> QED
    BY <1>2, <1>4, <2>2, IInvFacts, StopKeepsIInv, ZenonT(40)
<1>5. CASE UNCHANGED <<object, queues, moving, scheduled, loop, session, io>>
  BY <1>2, <1>5, IInvFacts, QueuedStep
<1> QED
  BY <1>3, <1>4, <1>5, ZenonT(40) DEF PauseTask

-----------------------------------------------------------------------------
(* Every client call keeps the invariant.                                  *)

\* Engine::add() queues a new download.
LEMMA AddKeeps ==
  ASSUME IInv, NEW g \in Gid, NEW paused \in BOOLEAN, NEW at \in 0..Len(waiting),
         Add(g, paused, at)
  PROVE  IInv'
<1> USE DEF moves, flags
<1>1. TypeOK /\ OneQueue /\ InFlightAgrees /\ Agrees(g) /\ state \in [Gid -> States]
      /\ waiting \in Seq(Gid) /\ tasks \in SUBSET Gid
  BY DEF IInv, InFlightAgrees, TypeOK
<1>2. /\ io' \in Seq(Handlers) /\ Once(io') /\ scheduled' \in BOOLEAN
      /\ scheduled' <=> Has(io', NoGid, "fill")
      /\ \A h \in Gid : \A do : Has(io', h, do) <=> Has(io, h, do)
  BY ScheduledIoPlain DEF Add
<1>3. state[g] = "New" /\ "New" \notin Queued /\ "New" # "Active" /\ "New" \notin Results
  BY DEF Add, Queued, Results
<1>4. g \notin Values(waiting) /\ g \notin Values(active) /\ g \notin Values(stopped)
  BY <1>1, <1>3, ZenonT(40) DEF OneQueue
<1>5. /\ waiting' \in Seq(Gid) /\ Values(waiting') = Values(waiting) \cup {g}
      /\ Distinct(waiting')
  BY <1>1, <1>4, InsertProperties, SMTT(40) DEF Add, OneQueue
<1>6. /\ state' \in [Gid -> States] /\ state'[g] \in Queued
      /\ \A h \in Gid : h # g => state'[h] = state[h]
  BY <1>1, ZenonT(40) DEF Add, States, Queued
<1>7. TypeOK'
  BY <1>1, <1>2, <1>5, <1>6, ZenonT(40) DEF Add, TypeOK
<1>8. OneQueue'
  <2>1. /\ tasks' = tasks \cup {g} /\ active' = active /\ stopped' = stopped
    BY DEF Add
  <2>2. "Active" \notin Queued /\ Queued \cap Results = {}
    BY DEF Queued, Results
  <2> QED
    BY <1>1, <1>3, <1>4, <1>5, <1>6, <2>1, <2>2, SMTT(40) DEF OneQueue
<1>9. ASSUME NEW h \in Gid PROVE Agrees(h)'
  <2>1. Agrees(h) /\ \A do : Has(io', h, do) <=> Has(io, h, do)
    BY <1>1, <1>2, ZenonT(40) DEF InFlightAgrees
  <2>2. /\ stopping' = stopping /\ kind' = kind /\ work' = work /\ onStop' = onStop
        /\ closing' = closing /\ moving' = moving /\ astray' = astray
    BY ZenonT(40) DEF Add
  <2>3. CASE h # g
    BY <1>6, <2>1, <2>2, <2>3, AgreesFrame, ZenonT(40)
  <2>4. CASE h = g
    <3>1. state'[g] # "Active" /\ state[g] # "Active" /\ state[g] # "Paused"
      BY <1>3, <1>6, ZenonT(40) DEF Queued
    <3> QED
      BY <2>1, <2>2, <2>4, <3>1, ZenonT(40) DEF Agrees, Pending
  <2> QED
    BY <2>3, <2>4, ZenonT(40)
<1> QED
  BY <1>2, <1>7, <1>8, <1>9, ZenonT(40) DEF IInv, InFlightAgrees, Pending

\* aria2.pause, which refuses tasks that neither run nor wait.
LEMMA PauseKeeps ==
  ASSUME Orderly, IInv, NEW g \in Gid, Pause(g)
  PROVE  IInv'
<1> DEFINE S == {g} \cap {t \in Gid : state[t] = "Active" /\ ~stopping[t]}
<1>1. Stoppable(S) /\ \E Y \in Answers(S) : PauseTask(g, Y)
  BY ZenonT(40) DEF Pause
<1>2. PICK Y \in Answers(S) : PauseTask(g, Y)
  BY <1>1, ZenonT(40)
<1>3. state[g] = "Active" /\ ~stopping[g] => S = {g}
  BY ZenonT(40)
<1>4. Y \in SUBSET S
  BY ZenonT(40) DEF Answers
<1> QED
  BY <1>1, <1>2, <1>3, <1>4, PauseTaskKeeps, ZenonT(40)

\* Engine::unpause(), which leaves a task alone while its files move.
LEMMA UnpauseKeeps ==
  ASSUME IInv, NEW g \in Gid, Unpause(g)
  PROVE  IInv'
<1> USE DEF queues, flags
<1>1. /\ state[g] = "Paused"
      /\ UNCHANGED <<tasks, stopping, kind, work, onStop, closing, active, waiting,
                     stopped, moving, astray, sharing, limit, disk, shuttingDown,
                     forceShutdown, loop, session>>
  BY ZenonT(40) DEF Unpause
<1>2. CASE /\ resume' = [resume EXCEPT ![g] = TRUE]
           /\ UNCHANGED <<state, scheduled, io>>
  BY <1>1, <1>2, IInvFacts, QueuedStep, ZenonT(40)
<1>3. CASE /\ moving[g] = "no"
           /\ state' = [state EXCEPT ![g] = "Waiting"]
           /\ Schedule(io) /\ UNCHANGED resume
  <2>1. /\ io' \in Seq(Handlers) /\ Once(io') /\ scheduled' \in BOOLEAN
        /\ scheduled' <=> Has(io', NoGid, "fill")
        /\ \A h \in Gid : \A do : Has(io', h, do) <=> Has(io, h, do)
    BY <1>3, ScheduledIoPlain, ZenonT(40)
  <2>2. /\ state' \in [Gid -> States]
        /\ \A h \in Gid : state'[h] = state[h] \/ (state[h] \in Queued /\ state'[h] \in Queued)
        /\ \A h \in Gid : moving[h] # "no" => state'[h] = state[h]
    BY <1>1, <1>3, IInvFacts, ZenonT(40) DEF States, Queued
  <2> QED
    BY <1>1, <1>3, <2>1, <2>2, IInvFacts, QueuedStep, ZenonT(40)
<1> QED
  BY <1>2, <1>3, ZenonT(40) DEF Unpause

\* Engine::unpauseAll().
LEMMA UnpauseAllKeeps ==
  ASSUME IInv, UnpauseAll
  PROVE  IInv'
<1> USE DEF queues, flags
<1>1. /\ resume' = [g \in Gid |-> moving[g] # "no"]
      /\ state' = [g \in Gid |->
           IF g \in Values(waiting) /\ state[g] = "Paused" /\ moving[g] = "no"
           THEN "Waiting" ELSE state[g]]
      /\ Schedule(io)
      /\ UNCHANGED <<tasks, stopping, kind, work, onStop, closing, active, waiting,
                     stopped, moving, astray, sharing, limit, disk, shuttingDown,
                     forceShutdown, loop, session>>
  BY ZenonT(40) DEF UnpauseAll
<1>2. /\ io' \in Seq(Handlers) /\ Once(io') /\ scheduled' \in BOOLEAN
      /\ scheduled' <=> Has(io', NoGid, "fill")
      /\ \A h \in Gid : \A do : Has(io', h, do) <=> Has(io, h, do)
  BY <1>1, ScheduledIoPlain
<1>3. /\ state' \in [Gid -> States]
      /\ \A h \in Gid : state'[h] = state[h] \/ (state[h] \in Queued /\ state'[h] \in Queued)
      /\ \A h \in Gid : moving[h] # "no" => state'[h] = state[h]
  BY <1>1, IInvFacts, ZenonT(40) DEF States, Queued
<1>4. resume' \in [Gid -> BOOLEAN]
  BY <1>1, ZenonT(40)
<1> QED
  BY <1>1, <1>2, <1>3, <1>4, IInvFacts, QueuedStep, ZenonT(40)

\* Engine::pauseAll() stops the active tasks and pauses the waiting ones.
LEMMA PauseAllKeeps ==
  ASSUME Orderly, IInv, PauseAll
  PROVE  IInv'
<1> USE DEF flags
<1> DEFINE S == {g \in Values(active) : ~stopping[g]}
           st == [g \in Gid |-> IF g \in Values(waiting) /\ state[g] = "Waiting"
                                THEN "Paused" ELSE state[g]]
<1>1. PICK Y \in Answers(S) : StopTasks(S, Y, "Paused", st, moving, shuttingDown)
  BY DEF PauseAll
<1>2. /\ Stoppable(S) /\ resume' = [g \in Gid |-> FALSE]
      /\ UNCHANGED <<kind, astray, sharing, limit, disk, shuttingDown, forceShutdown>>
  BY DEF PauseAll
<1>3. /\ st \in [Gid -> States]
      /\ \A g \in Gid : st[g] = state[g] \/ (state[g] = "Waiting" /\ st[g] = "Paused")
  BY IInvFacts DEF States, Queued
<1>4. S \in SUBSET Values(active) /\ "Paused" \in Nexts /\ "Paused" # "Removed"
  BY DEF Nexts
<1> HIDE DEF S, st
<1>a. Y \in SUBSET S
  BY DEF Answers
<1>5. StopKeeps'
  BY <1>1, <1>2, <1>3, <1>4, <1>a, IInvFacts, StopTasksKeeps, ZenonT(40)
<1>6. resume' \in [Gid -> BOOLEAN]
  BY <1>2, ZenonT(40)
<1> QED
  BY <1>2, <1>5, <1>6, IInvFacts, StopKeepsIInv, ZenonT(40)

\* Engine::remove() retires a queued task at once and stops an active one.
LEMMA RemoveKeeps ==
  ASSUME Orderly, IInv, NEW g \in Gid, NEW force \in BOOLEAN, Remove(g, force)
  PROVE  IInv'
<1> USE DEF flags
<1>1. /\ moving[g] = "no" /\ Agrees(g)
      /\ UNCHANGED <<kind, resume, astray, sharing, limit, disk, shuttingDown, forceShutdown>>
  BY IInvFacts DEF Remove
<1>2. CASE /\ state[g] \in Queued
           /\ waiting' = Without(waiting, {g})
           /\ state' = [state EXCEPT ![g] = "Removed"]
           /\ RetireTask(g, state')
           /\ Schedule(io)
           /\ UNCHANGED <<stopping, work, onStop, closing, moving, loop, session>>
  <2>1. /\ waiting' \in Seq(Gid) /\ Values(waiting') = Values(waiting) \ {g}
        /\ Distinct(waiting')
    BY <1>2, IInvFacts, WithoutProperties, SMTT(40) DEF OneQueue
  <2>2. "Removed" \in Results /\ state[g] \in Queued \cup {"Active"}
    BY <1>2 DEF Results
  <2>3. /\ OneQueue'
        /\ active' \in Seq(Gid) /\ stopped' \in Seq(Gid) /\ tasks' \in SUBSET Gid
    BY <1>2, <2>1, <2>2, IInvFacts, RetireQueues, ZenonT(40)
  <2>4. /\ io' \in Seq(Handlers) /\ Once(io') /\ scheduled' \in BOOLEAN
        /\ scheduled' <=> Has(io', NoGid, "fill")
        /\ \A h \in Gid : \A do : Has(io', h, do) <=> Has(io, h, do)
    BY <1>2, ScheduledIoPlain, ZenonT(40)
  <2>5. state' \in [Gid -> States]
    BY <1>2, IInvFacts, ZenonT(40) DEF States, Results
  <2>6. TypeOK'
    BY <1>1, <1>2, <2>1, <2>3, <2>4, <2>5, IInvFacts, ZenonT(40) DEF TypeOK
  <2>7. ASSUME NEW h \in Gid PROVE Agrees(h)'
    <3>1. Agrees(h) /\ \A do : Has(io', h, do) <=> Has(io, h, do)
      BY <2>4, IInvFacts, ZenonT(40)
    <3>2. CASE h # g
      <4>1. state'[h] = state[h]
        BY <1>2, <3>2, IInvFacts, ZenonT(40)
      <4> QED
        BY <1>1, <1>2, <3>1, <4>1, AgreesFrame, ZenonT(40)
    <3>3. CASE h = g
      <4>1. state'[g] = "Removed" /\ state[g] # "Active"
        BY <1>2, IInvFacts, ZenonT(40) DEF Queued
      <4> QED
        BY <1>1, <1>2, <3>1, <3>3, <4>1, ZenonT(40) DEF Agrees, Pending
    <3> QED
      BY <3>2, <3>3, ZenonT(40)
  <2> QED
    BY <2>3, <2>4, <2>6, <2>7, ZenonT(40) DEF IInv, InFlightAgrees, Pending
<1>3. ASSUME state[g] = "Active", Stoppable({g}), NEW Y \in Answers({g}),
             StopTasks({g}, Y, "Removed", state, moving, shuttingDown)
      PROVE  IInv'
  <2> DEFINE S == {g}
  <2>1. /\ S \in SUBSET Values(active) /\ "Removed" \in Nexts
        /\ Stoppable(S) /\ Y \in SUBSET S /\ \E x \in Gid : S \subseteq {x}
        /\ StopTasks(S, Y, "Removed", state, moving, shuttingDown)
    BY <1>3, IInvFacts, ZenonT(40) DEF OneQueue, Nexts, Answers
  <2> HIDE DEF S
  <2>2. StopKeeps'
    BY <1>1, <2>1, IInvFacts, StopTasksKeeps, ZenonT(40)
  <2> QED
    BY <1>1, <2>2, IInvFacts, StopKeepsIInv, ZenonT(40)
<1> QED
  BY <1>2, <1>3, ZenonT(40) DEF Remove

\* Engine::relocate() moves the files of a quiet task or stops a running one first.
LEMMA RelocateKeeps ==
  ASSUME Orderly, IInv, NEW g \in Gid, Relocate(g)
  PROVE  IInv'
<1> USE DEF flags, queues
<1>1. /\ moving[g] = "no" /\ Agrees(g)
      /\ UNCHANGED <<kind, astray, sharing, limit, disk, shuttingDown, forceShutdown>>
      /\ resume' = [resume EXCEPT ![g] = state[g] # "Paused"]
  BY IInvFacts, ZenonT(40) DEF Relocate
<1>2. resume' \in [Gid -> BOOLEAN]
  BY <1>1, IInvFacts, ZenonT(40)
<1>3. CASE /\ state[g] \in Queued
           /\ state' = [state EXCEPT ![g] = "Paused"]
           /\ moving' = [moving EXCEPT ![g] = "started"]
           /\ loop' = IF disk THEN loop ELSE "crashed"
           /\ UNCHANGED <<stopping, work, onStop, closing, tasks, queues,
                          scheduled, session, io>>
  <2>1. /\ state' \in [Gid -> States]
        /\ \A h \in Gid : state'[h] = state[h] \/ (state[h] \in Queued /\ state'[h] \in Queued)
        /\ state'[g] = "Paused"
    BY <1>3, IInvFacts, ZenonT(40) DEF States, Queued
  <2>2. /\ moving' \in [Gid -> {"no", "waits", "started", "posted"}]
        /\ \A h \in Gid : h # g => moving'[h] = moving[h] /\ state'[h] = state[h]
        /\ moving'[g] = "started"
    BY <1>3, IInvFacts
  <2>3. loop' \in {"running", "closing", "stopped", "crashed"}
    BY <1>3, IInvFacts, ZenonT(40)
  <2> QED
    BY <1>1, <1>2, <1>3, <2>1, <2>2, <2>3, IInvFacts, QueuedStep, ZenonT(40)
<1>4. ASSUME state[g] = "Active", Stoppable({g}), NEW Y \in Answers({g}),
             StopTasks({g}, Y, "Paused", state, [moving EXCEPT ![g] = "waits"], shuttingDown)
      PROVE  IInv'
  <2> DEFINE mv == [moving EXCEPT ![g] = "waits"]
             S == {g}
  <2>1. /\ S \in SUBSET Values(active) /\ "Paused" \in Nexts /\ "Paused" # "Removed"
        /\ Stoppable(S) /\ Y \in SUBSET S
    BY <1>4, IInvFacts, ZenonT(40) DEF OneQueue, Nexts, Answers
  <2>2. /\ mv \in [Gid -> {"no", "waits", "started", "posted"}]
        /\ \A h \in Gid : mv[h] = moving[h] \/ (h \in S /\ mv[h] = "waits")
    BY IInvFacts
  <2>3. StopTasks(S, Y, "Paused", state, mv, shuttingDown)
    BY <1>4
  <2> HIDE DEF mv, S
  <2>4. StopKeeps'
    BY <1>1, <2>1, <2>2, <2>3, IInvFacts, StopTasksKeeps, ZenonT(40)
  <2> QED
    BY <1>1, <1>2, <2>4, IInvFacts, StopKeepsIInv, ZenonT(40)
<1>5. CASE /\ state[g] = "Active" /\ stopping[g]
           /\ moving' = [moving EXCEPT ![g] = "waits"]
           /\ UNCHANGED <<state, stopping, work, onStop, closing, tasks, queues,
                          scheduled, loop, session, io>>
  <2>1. /\ moving' \in [Gid -> {"no", "waits", "started", "posted"}]
        /\ \A h \in Gid : h # g => moving'[h] = moving[h]
        /\ moving'[g] = "waits"
    BY <1>5, IInvFacts
  <2> QED
    BY <1>1, <1>2, <1>5, <2>1, IInvFacts, QueuedStep, ZenonT(40)
<1> QED
  BY <1>3, <1>4, <1>5, ZenonT(40) DEF Relocate

\* Engine::move() takes a task out of waiting_ and puts it back elsewhere.
LEMMA ChangePositionKeeps ==
  ASSUME IInv, NEW g \in Gid, NEW at \in 0..Len(waiting), ChangePosition(g, at)
  PROVE  IInv'
<1> USE DEF object, moves, flags
<1> DEFINE rest == Erase(waiting, g)
<1>1. rest \in Seq(Gid) /\ Values(rest) = Values(waiting) \ {g} /\ Distinct(rest)
  BY IInvFacts, EraseProperties, ZenonT(40) DEF OneQueue
<1>2. /\ waiting' = Insert(rest, at, g) /\ g \in Values(waiting) /\ at <= Len(rest)
      /\ UNCHANGED <<tasks, state, stopping, kind, work, onStop, closing, active, stopped,
                     moving, resume, astray, sharing, limit, disk, shuttingDown,
                     forceShutdown, scheduled, loop, session, io>>
  BY DEF ChangePosition
<1> HIDE DEF rest
<1>3. at \in 0..Len(rest)
  <2>1. Len(rest) \in Nat /\ Len(waiting) \in Nat
    BY <1>1, IInvFacts
  <2> QED
    BY <1>2, <2>1
<1>4. /\ waiting' \in Seq(Gid) /\ Values(waiting') = Values(rest) \cup {g}
      /\ Distinct(waiting')
  BY <1>1, <1>2, <1>3, InsertProperties, SMTT(40)
<1>5. Values(waiting') = Values(waiting)
  BY <1>1, <1>2, <1>4, ZenonT(40)
<1>6. TypeOK'
  BY <1>2, <1>4, IInvFacts, ZenonT(40) DEF TypeOK
<1>7. OneQueue'
  BY <1>2, <1>4, <1>5, IInvFacts, ZenonT(40) DEF OneQueue
<1>8. InFlightAgrees'
  BY <1>2, IInvFacts, ZenonT(40) DEF InFlightAgrees, Agrees, Pending
<1> QED
  BY <1>6, <1>7, <1>8, ZenonT(40) DEF IInv

\* A new max-concurrent-downloads schedules fill().
LEMMA ChangeLimitKeeps ==
  ASSUME IInv, NEW n \in Limits, ChangeLimit(n)
  PROVE  IInv'
<1> USE DEF object, queues, moves
<1>1. /\ io' \in Seq(Handlers) /\ Once(io') /\ scheduled' \in BOOLEAN
      /\ scheduled' <=> Has(io', NoGid, "fill")
      /\ \A h \in Gid : \A do : Has(io', h, do) <=> Has(io, h, do)
  BY ScheduledIoPlain DEF ChangeLimit
<1>2. /\ limit' = n
      /\ UNCHANGED <<tasks, state, stopping, kind, work, onStop, closing, active, waiting,
                     stopped, moving, resume, astray, sharing, disk, shuttingDown,
                     forceShutdown, loop, session>>
  BY ZenonT(40) DEF ChangeLimit
<1> QED
  BY <1>1, <1>2, IInvFacts, QueuedStep, ZenonT(40)

\* aria2.saveSession writes the session file and touches nothing else.
LEMMA SaveSessionKeeps ==
  ASSUME IInv, SaveSession
  PROVE  IInv'
<1> USE DEF object, queues, moves, flags
<1>1. session' \in Seq(Entries)
  <2>1. active \o waiting \o stopped \in Seq(Gid)
    BY IInvFacts
  <2> QED
    BY <2>1, SessionType, ZenonT(40) DEF SaveSession
<1>2. UNCHANGED <<tasks, state, stopping, kind, work, onStop, closing, active, waiting,
                  stopped, moving, resume, astray, sharing, limit, disk, shuttingDown,
                  forceShutdown, scheduled, loop, io>>
  BY DEF SaveSession
<1> QED
  BY <1>1, <1>2, IInvFacts, QueuedStep, ZenonT(40)

\* Engine::removeResult() forgets one stopped task.
LEMMA RemoveResultKeeps ==
  ASSUME IInv, NEW g \in Gid, RemoveResult(g)
  PROVE  IInv'
<1> USE DEF moves, flags
<1>1. /\ stopped' = Erase(stopped, g) /\ tasks' = tasks \ {g} /\ g \in Values(stopped)
      /\ UNCHANGED <<state, stopping, kind, work, onStop, closing, active, waiting,
                     moving, resume, astray, sharing, limit, disk, shuttingDown,
                     forceShutdown, scheduled, loop, session, io>>
  BY ZenonT(40) DEF RemoveResult
<1>2. /\ stopped' \in Seq(Gid) /\ Values(stopped') = Values(stopped) \ {g}
      /\ Distinct(stopped')
  BY <1>1, IInvFacts, EraseProperties, SMTT(40) DEF OneQueue
<1>3. TypeOK'
  BY <1>1, <1>2, IInvFacts, ZenonT(40) DEF TypeOK
<1>4. OneQueue'
  <2>1. g \notin Values(active) /\ g \notin Values(waiting)
    BY <1>1, IInvFacts, ZenonT(40) DEF OneQueue, Results, Queued
  <2> QED
    BY <1>1, <1>2, <2>1, IInvFacts, ZenonT(40) DEF OneQueue
<1>5. InFlightAgrees'
  BY <1>1, IInvFacts, ZenonT(40) DEF InFlightAgrees, Agrees, Pending
<1> QED
  BY <1>3, <1>4, <1>5, ZenonT(40) DEF IInv

\* Engine::purgeResults() forgets every stopped task.
LEMMA PurgeResultsKeeps ==
  ASSUME IInv, PurgeResults
  PROVE  IInv'
<1> USE DEF moves, flags
<1>1. /\ stopped' = <<>> /\ tasks' = tasks \ Values(stopped)
      /\ UNCHANGED <<state, stopping, kind, work, onStop, closing, active, waiting,
                     moving, resume, astray, sharing, limit, disk, shuttingDown,
                     forceShutdown, scheduled, loop, session, io>>
  BY ZenonT(40) DEF PurgeResults
<1>2. stopped' \in Seq(Gid) /\ Values(stopped') = {} /\ Distinct(stopped')
  <2>1. stopped' = <<>>
    BY <1>1, ZenonT(40)
  <2>2. <<>> \in Seq(Gid) /\ DOMAIN <<>> = {}
    OBVIOUS
  <2>3. Values(<<>>) = {} /\ Distinct(<<>>)
    BY <2>2, ZenonT(40) DEF Values, Distinct
  <2> QED
    BY <2>1, <2>2, <2>3, ZenonT(40)
<1>3. TypeOK'
  BY <1>1, <1>2, IInvFacts, SMTT(40) DEF TypeOK
<1>4. OneQueue'
  <2>1. /\ Values(stopped) \cap Values(active) = {}
        /\ Values(stopped) \cap Values(waiting) = {}
    BY IInvFacts, ZenonT(40) DEF OneQueue, Results, Queued
  <2> QED
    BY <1>1, <1>2, <2>1, IInvFacts, ZenonT(40) DEF OneQueue
<1>5. InFlightAgrees'
  BY <1>1, IInvFacts DEF InFlightAgrees, Agrees, Pending
<1> QED
  BY <1>3, <1>4, <1>5 DEF IInv

\* Engine::requeue() puts a failed media task back into waiting_.
LEMMA RequeueKeeps ==
  ASSUME IInv, NEW g \in Gid, Requeue(g)
  PROVE  IInv'
<1> USE DEF moves, flags
<1>1. /\ state[g] = "Error" /\ g \in Values(stopped) /\ Schedule(io)
      /\ stopped' = Erase(stopped, g) /\ waiting' = Append(waiting, g)
      /\ state' = [state EXCEPT ![g] = "Waiting"]
      /\ UNCHANGED <<tasks, stopping, kind, work, onStop, closing, active,
                     moving, resume, astray, sharing, limit, disk, shuttingDown,
                     forceShutdown, loop, session>>
  BY ZenonT(40) DEF Requeue
<1>2. /\ stopped' \in Seq(Gid) /\ Values(stopped') = Values(stopped) \ {g}
      /\ Distinct(stopped')
  BY <1>1, IInvFacts, EraseProperties, ZenonT(40) DEF OneQueue
<1>3. g \notin Values(active) /\ g \notin Values(waiting)
  BY <1>1, IInvFacts, ZenonT(40) DEF OneQueue, Queued
<1>4. /\ waiting' \in Seq(Gid) /\ Values(waiting') = Values(waiting) \cup {g}
      /\ Distinct(waiting')
  BY <1>1, <1>3, IInvFacts, AppendValues, SMTT(40) DEF OneQueue
<1>5. /\ io' \in Seq(Handlers) /\ Once(io') /\ scheduled' \in BOOLEAN
      /\ scheduled' <=> Has(io', NoGid, "fill")
      /\ \A h \in Gid : \A do : Has(io', h, do) <=> Has(io, h, do)
  BY <1>1, ScheduledIoPlain, ZenonT(40)
<1>6. /\ state' \in [Gid -> States] /\ state'[g] = "Waiting"
      /\ \A h \in Gid : h # g => state'[h] = state[h]
  BY <1>1, IInvFacts, ZenonT(40) DEF States, Queued
<1>7. TypeOK'
  BY <1>1, <1>2, <1>4, <1>5, <1>6, IInvFacts, ZenonT(40) DEF TypeOK
<1>8. OneQueue'
  <2>1. "Waiting" \in Queued /\ "Waiting" \notin Results /\ "Error" \notin Queued
    BY DEF Queued, Results
  <2>2. tasks \in SUBSET Gid
    BY IInvFacts
  <2> QED
    BY <1>1, <1>2, <1>3, <1>4, <1>6, <2>1, <2>2, IInvFacts, SMTT(40) DEF OneQueue
<1>9. ASSUME NEW h \in Gid PROVE Agrees(h)'
  <2>1. Agrees(h) /\ \A do : Has(io', h, do) <=> Has(io, h, do)
    BY <1>5, IInvFacts, SMTT(40)
  <2>2. CASE h # g
    BY <1>1, <1>6, <2>1, <2>2, AgreesFrame, ZenonT(40)
  <2>3. CASE h = g
    BY <1>1, <1>6, <2>1, <2>3, ZenonT(40) DEF Agrees, Pending
  <2> QED
    BY <2>2, <2>3, ZenonT(40)
<1> QED
  BY <1>5, <1>7, <1>8, <1>9, SMTT(40) DEF IInv, InFlightAgrees, Pending

\* Engine::shutdown() stops every active task, or posts finishShutdown().
LEMMA ShutdownKeeps ==
  ASSUME Orderly, IInv, NEW force \in BOOLEAN, Shutdown(force)
  PROVE  IInv'
<1> USE DEF object, queues
<1> DEFINE S == {g \in Values(active) : ~stopping[g] \/ force}
<1>1. /\ shuttingDown' = TRUE /\ forceShutdown' = (forceShutdown \/ force)
      /\ UNCHANGED <<resume, astray, sharing, limit, disk>>
  BY ZenonT(40) DEF Shutdown
<1>2. CASE /\ io' = Append(io, Finish)
           /\ UNCHANGED <<object, queues, moving, scheduled, loop, session>>
  <2>1. /\ io' \in Seq(Handlers)
        /\ \A g, do : Has(io', g, do) <=> Has(io, g, do) \/ (Finish.gid = g /\ Finish.do = do)
        /\ Once(io')
    BY <1>2, IInvFacts, HandlerMade, HandlerAppend, SMTT(40)
  <2>2. /\ \A g \in Gid : \A do : Has(io', g, do) <=> Has(io, g, do)
        /\ Has(io', NoGid, "fill") <=> Has(io, NoGid, "fill")
    BY <2>1, HandlerMade, ConstantsOK, SMTT(40)
  <2>3. forceShutdown' \in BOOLEAN
    BY <1>1, ZenonT(40)
  <2> QED
    BY <1>1, <1>2, <2>1, <2>2, <2>3, IInvFacts, QueuedStep, ZenonT(40)
<1>3. ASSUME Stoppable(S), NEW Y \in Answers(S),
             StopTasks(S, Y, "Waiting", state, moving, TRUE), UNCHANGED kind
      PROVE  IInv'
  <2>1. S \in SUBSET Values(active) /\ "Waiting" \in Nexts /\ "Waiting" # "Removed"
    BY DEF Nexts
  <2> HIDE DEF S
  <2>a. Y \in SUBSET S
    BY <1>3, SMTT(40) DEF Answers
  <2>2. StopKeeps'
    BY <1>1, <1>3, <2>1, <2>a, IInvFacts, StopTasksKeeps, ZenonT(40)
  <2>3. forceShutdown' \in BOOLEAN
    BY <1>1
  <2> QED
    BY <1>1, <1>3, <2>2, <2>3, IInvFacts, StopKeepsIInv, ZenonT(40)
<1> QED
  BY <1>2, <1>3, ZenonT(40) DEF Shutdown

-----------------------------------------------------------------------------
(* What a step may do to the slots.                                        *)

\* A download waits to be started.
SomeWaiting == \E g \in Gid : state[g] = "Waiting"

Ended == loop \in {"closing", "stopped"}

\* Once the end is decided, that is, the loop ends or finishShutdown() is
\* posted, nothing is active, and nothing will be, as fill() does nothing.
Exit == Ended \/ Has(io, NoGid, "finish") => shuttingDown /\ active = <<>>

\* What every step but fill() and Share() does: it starts nothing, and calls schedule() if
\* it frees a slot, raises the limit or lets a task wait.
Mild ==
  /\ Values(active') \subseteq Values(active)
  /\ shuttingDown => shuttingDown'
  /\ Ended' \/ Has(io', NoGid, "finish") =>
       \/ Ended \/ Has(io, NoGid, "finish")
       \/ shuttingDown' /\ active' = <<>>
  /\ sharing' = sharing
  /\ loop' = "running" => loop = "running"
  /\ scheduled => scheduled'
  /\ \/ scheduled' \/ shuttingDown'
     \/ limit' = limit /\ active' = active /\ (SomeWaiting' => SomeWaiting)

-----------------------------------------------------------------------------
(* Counting.                                                               *)

\* The positions of the lowest ranks: as many as asked for, or all there are.
LEMMA LowestRanks ==
  ASSUME NEW K \in SUBSET Nat, IsFiniteSet(K), NEW r \in Int
  PROVE  LET P == {k \in K : Rank(K, k) <= r}
         IN  /\ IsFiniteSet(P) /\ Cardinality(P) \in Nat
             /\ r <= 0 => P = {}
             /\ r >= 0 => Cardinality(P) <= r
             /\ P # K => Cardinality(P) >= r
<1> DEFINE P == {k \in K : Rank(K, k) <= r}
           c == Cardinality(K)
<1>1. c \in Nat /\ \A k \in K : Rank(K, k) \in 1..c
  BY FS_CardinalityType, RankRange
<1>2. IsFiniteSet(P) /\ Cardinality(P) \in Nat
  BY FS_Subset, FS_CardinalityType
<1>3. ASSUME r <= 0 PROVE P = {}
  <2>1. ASSUME NEW k \in K PROVE ~(Rank(K, k) <= r)
    BY <1>1, <1>3
  <2> QED
    BY <2>1
<1>4. ASSUME r >= 0 PROVE Cardinality(P) <= r
  <2> DEFINE rank == [k \in P |-> Rank(K, k)]
  <2>1. rank \in [P -> 1..r]
    <3>1. ASSUME NEW k \in P PROVE Rank(K, k) \in 1..r
      BY <1>1, <1>4
    <3> QED
      BY <3>1
  <2>2. \A a, b \in P : rank[a] = rank[b] => a = b
    BY NthOfRank
  <2>3. rank \in Injection(P, 1..r)
    BY <2>1, <2>2 DEF Injection, IsInjective
  <2>4. IsFiniteSet(1..r) /\ Cardinality(1..r) = r
    BY <1>4, FS_Interval
  <2> QED
    BY <2>3, <2>4, FS_Injection
<1>5. ASSUME P # K, r > 0 PROVE Cardinality(P) >= r
  <2>1. PICK x \in K : Rank(K, x) > r
    <3>1. PICK x \in K : ~(Rank(K, x) <= r)
      BY <1>5
    <3> QED
      BY <1>1, <3>1
  <2>2. r < c
    BY <1>1, <2>1
  <2> DEFINE nth == [n \in 1..r |-> Nth(K, n)]
  <2>3. \A n \in 1..r : Nth(K, n) \in P /\ Rank(K, Nth(K, n)) = n
    BY <1>1, <2>2, NthOfRank
  <2>4. nth \in Injection(1..r, P)
    BY <2>3 DEF Injection, IsInjective
  <2>5. Cardinality(1..r) <= Cardinality(P)
    BY <1>2, <2>4, FS_Injection
  <2>6. Cardinality(1..r) = r
    BY <1>5, FS_Interval
  <2> QED
    BY <2>5, <2>6
<1> QED
  BY <1>2, <1>3, <1>4, <1>5

\* An erasure adds nothing.
LEMMA WithoutLess ==
  ASSUME NEW S, NEW s \in Seq(S), NEW T
  PROVE  Values(Without(s, T)) \subseteq Values(s)
<1>1. Values(Without(s, T)) = Values(s) \ T
  BY WithoutProperties, ZenonT(40)
<1> QED
  BY <1>1, ZenonT(40)

\* An empty queue holds nothing.
LEMMA NoValues == Values(<<>>) = {}
  BY DEF Values

\* An erasure of nothing.
LEMMA WithoutNothing ==
  ASSUME NEW S, NEW s \in Seq(S)
  PROVE  Without(s, {}) = s
<1> DEFINE K == 1..Len(s)
<1>1. /\ K = DOMAIN s /\ Len(s) \in Nat /\ K \in SUBSET Nat
      /\ {i \in DOMAIN s : s[i] \notin {}} = K
  OBVIOUS
<1>2. IsFiniteSet(K) /\ Cardinality(K) = Len(s)
  <2>1. ASSUME NEW n \in Nat PROVE IsFiniteSet(1..n) /\ Cardinality(1..n) = n
    BY FS_Interval
  <2> QED
    BY <1>1, <2>1
<1>3. ASSUME NEW n \in K PROVE Nth(K, n) = n
  <2>1. {j \in K : j <= n} = 1..n /\ n \in Nat
    BY <1>1
  <2>2. Cardinality(1..n) = n
    BY <2>1, FS_Interval
  <2>3. Rank(K, n) = n
    BY <2>1, <2>2 DEF Rank
  <2> QED
    BY <1>1, <1>2, <2>3, NthOfRank
<1>4. Without(s, {}) = [n \in K |-> s[Nth(K, n)]]
  BY <1>1, <1>2 DEF Without, KeepAt
<1>5. [n \in K |-> s[Nth(K, n)]] = [n \in K |-> s[n]]
  BY <1>3
<1> QED
  BY <1>1, <1>4, <1>5

-----------------------------------------------------------------------------
(* Every step but fill() is mild.                                          *)

\* schedule() posts no finishShutdown().
LEMMA ScheduleFinish ==
  ASSUME NEW w \in BOOLEAN, NEW q \in Seq(Handlers), ScheduleIf(w, q)
  PROVE  /\ Has(io', NoGid, "finish") => Has(q, NoGid, "finish")
         /\ scheduled => scheduled'
         /\ w => scheduled'
<1>1. Has(Append(q, Fill), NoGid, "finish") => Has(q, NoGid, "finish")
  <2>1. Fill \in Handlers /\ Fill.do = "fill"
    BY HandlerMade, Zenon
  <2>2. Has(Append(q, Fill), NoGid, "finish")
        <=> Has(q, NoGid, "finish") \/ (Fill.gid = NoGid /\ Fill.do = "finish")
    BY <2>1, HandlerAppend, Zenon
  <2>3. Fill.do # "finish"
    BY <2>1
  <2> QED
    BY <2>2, <2>3, Zenon
<1> QED
  BY <1>1, ZenonT(40) DEF ScheduleIf, Schedule

\* Nor is one posted with a handler about a download, or by taking one off io.
LEMMA OtherFinish ==
  ASSUME NEW q \in Seq(Handlers)
  PROVE  /\ \A x \in Handlers : x.do # "finish" =>
              (Has(Append(q, x), NoGid, "finish") => Has(q, NoGid, "finish"))
         /\ q # <<>> => Tail(q) \in Seq(Handlers)
         /\ q # <<>> => (Has(Tail(q), NoGid, "finish") => Has(q, NoGid, "finish"))
<1>1. \A x \in Handlers : x.do # "finish" =>
        (Has(Append(q, x), NoGid, "finish") => Has(q, NoGid, "finish"))
  BY HandlerAppend, ZenonT(40)
<1>2. ASSUME q # <<>>, Has(Tail(q), NoGid, "finish") PROVE Has(q, NoGid, "finish")
  <2>1. PICK i \in DOMAIN Tail(q) : Tail(q)[i].gid = NoGid /\ Tail(q)[i].do = "finish"
    BY <1>2, ZenonT(40) DEF Has
  <2>2. i + 1 \in DOMAIN q /\ Tail(q)[i] = q[i + 1]
    BY <1>2, SMTT(40)
  <2> QED
    BY <2>1, <2>2, ZenonT(40) DEF Has
<1>3. q # <<>> => Tail(q) \in Seq(Handlers)
  BY SMTT(40)
<1> QED
  BY <1>1, <1>2, <1>3, ZenonT(40)

\* A step that leaves the slots alone.
LEMMA StillMild ==
  ASSUME UNCHANGED <<active, shuttingDown, loop, sharing, limit>>,
         Has(io', NoGid, "finish") => Has(io, NoGid, "finish"),
         scheduled => scheduled',
         scheduled' \/ \A g \in Gid : state'[g] = "Waiting" => state[g] = "Waiting"
  PROVE  Mild
  BY ZenonT(40) DEF Mild, Ended, SomeWaiting

\* A step that leaves the slots and the handlers alone.
LEMMA SilentMild ==
  ASSUME UNCHANGED <<active, shuttingDown, loop, sharing, limit, io, scheduled>>,
         \A g \in Gid : state'[g] = "Waiting" => state[g] = "Waiting"
  PROVE  Mild
  BY StillMild, ZenonT(40)

\* A step that calls schedule() and starts and ends nothing.
LEMMA SchedulingMild ==
  ASSUME UNCHANGED <<shuttingDown, loop, sharing>>,
         Values(active') \subseteq Values(active),
         NEW q \in Seq(Handlers), Schedule(q),
         Has(q, NoGid, "finish") => Has(io, NoGid, "finish")
  PROVE  Mild
<1>1. ScheduleIf(TRUE, q)
  BY ZenonT(40) DEF ScheduleIf
<1>2. Has(io', NoGid, "finish") => Has(q, NoGid, "finish")
  BY <1>1, ScheduleFinish, ZenonT(40)
<1>3. scheduled'
  BY ZenonT(40) DEF Schedule
<1> QED
  BY <1>2, <1>3, ZenonT(40) DEF Mild, Ended

\* The callback of stopTask() frees slots, schedules, and may end the loop.
LEMMA StopDoneMild ==
  ASSUME IInv, NEW ys \in Seq(Gid), NEW next \in Nexts, NEW st, NEW mv,
         NEW down \in BOOLEAN, NEW q \in Seq(Handlers),
         Has(q, NoGid, "finish") => Has(io, NoGid, "finish"),
         ys = <<>> => \A g \in Gid : st[g] = "Waiting" => state[g] = "Waiting",
         down => shuttingDown', shuttingDown => shuttingDown',
         UNCHANGED <<sharing, limit>>,
         StopDone(ys, next, st, mv, down, q)
  PROVE  Mild
<1>1. active \in Seq(Gid)
  BY IInvFacts DEF TypeOK
<1>2. Values(active') \subseteq Values(active)
  <2>1. \E T : active' = Without(active, T)
    BY ZenonT(40) DEF StopDone, RetireTask
  <2> QED
    BY <1>1, <2>1, WithoutLess, ZenonT(40)
<1>3. /\ Has(io', NoGid, "finish") => Has(io, NoGid, "finish")
      /\ scheduled => scheduled'
      /\ ys # <<>> => scheduled'
  <2>1. ScheduleIf(ys # <<>>, q)
    BY ZenonT(40) DEF StopDone
  <2> QED
    BY <2>1, ScheduleFinish, ZenonT(40)
<1>4. /\ Ended' => Ended \/ (shuttingDown' /\ active' = <<>>)
      /\ loop' = "running" => loop = "running"
  BY ZenonT(40) DEF StopDone, FinishShutdown, Ended
<1>5. ASSUME ys = <<>> PROVE active' = active /\ (SomeWaiting' => SomeWaiting)
  <2>1. Values(ys) = {}
    BY <1>5, NoValues, Zenon
  <2>2. /\ active' = Without(active, Values(ys))
        /\ state' = [g \in Gid |-> IF g \in Values(ys) THEN next ELSE st[g]]
    BY <1>5, ZenonT(40) DEF StopDone
  <2>3. active' = active
    BY <1>1, <2>1, <2>2, WithoutNothing, ZenonT(40)
  <2>4. \A g \in Gid : state'[g] = st[g]
    <3>1. state' = [g \in Gid |-> IF g \in {} THEN next ELSE st[g]]
      BY <2>1, <2>2, Zenon
    <3>2. TAKE g \in Gid
    <3>3. state'[g] = IF g \in {} THEN next ELSE st[g]
      BY <3>1, Zenon
    <3>4. g \notin {}
      OBVIOUS
    <3> QED
      BY <3>3, <3>4, Zenon
  <2> QED
    BY <1>5, <2>3, <2>4, ZenonT(40) DEF SomeWaiting
<1> QED
  BY <1>2, <1>3, <1>4, <1>5, ZenonT(40) DEF Mild

\* stopTask() of some active tasks.
LEMMA StopTasksMild ==
  ASSUME IInv, NEW S, NEW Y, NEW next \in Nexts, NEW st, NEW mv, NEW down \in BOOLEAN,
         \A g \in Gid : st[g] = "Waiting" => state[g] = "Waiting",
         down => shuttingDown', shuttingDown => shuttingDown',
         UNCHANGED <<sharing, limit>>,
         StopTasks(S, Y, next, st, mv, down)
  PROVE  Mild
<1> DEFINE ys == Only(active, Y)
<1>1. ys \in Seq(Gid)
  BY IInvFacts, OnlyProperties, ZenonT(40) DEF TypeOK
<1>2. StopDone(ys, next, st, mv, down, io)
  BY ZenonT(40) DEF StopTasks
<1>3. io \in Seq(Handlers)
  BY IInvFacts, ZenonT(40)
<1> HIDE DEF ys
<1> QED
  BY <1>1, <1>2, <1>3, StopDoneMild, ZenonT(40)

\* Engine::pause().
LEMMA PauseTaskMild ==
  ASSUME IInv, NEW g \in Gid, NEW Y, PauseTask(g, Y)
  PROVE  Mild
<1> USE DEF object, queues, flags
<1>1. UNCHANGED <<sharing, limit, shuttingDown>> /\ shuttingDown \in BOOLEAN
  BY IInvFacts, ZenonT(40) DEF PauseTask
<1>2. CASE /\ state' = [state EXCEPT ![g] = "Paused"]
           /\ UNCHANGED <<active, scheduled, loop, io>>
  <2>1. \A h \in Gid : state'[h] = "Waiting" => state[h] = "Waiting"
    BY <1>2, IInvFacts, SMTT(40)
  <2> QED
    BY <1>1, <1>2, <2>1, SilentMild, ZenonT(40)
<1>3. CASE StopTasks({g}, Y, "Paused", state, moving, shuttingDown)
  <2>1. "Paused" \in Nexts
    BY DEF Nexts
  <2> QED
    BY <1>1, <1>3, <2>1, StopTasksMild, ZenonT(40)
<1>4. CASE UNCHANGED <<state, active, scheduled, loop, io>>
  BY <1>1, <1>4, SilentMild, ZenonT(40)
<1> QED
  BY <1>2, <1>3, <1>4, ZenonT(40) DEF PauseTask

\* aria2.pause, unpause and remove.
LEMMA TaskCallMild ==
  ASSUME IInv, NEW g \in Gid,
         Pause(g) \/ Unpause(g) \/ \E force \in BOOLEAN : Remove(g, force)
  PROVE  Mild
<1> USE DEF queues, flags
<1>1. CASE Pause(g)
  BY <1>1, PauseTaskMild, ZenonT(40) DEF Pause
<1>2. CASE Unpause(g)
  <2>1. UNCHANGED <<active, shuttingDown, loop, sharing, limit>>
    BY <1>2, ZenonT(40) DEF Unpause
  <2>2. CASE UNCHANGED <<state, scheduled, io>>
    BY <2>1, <2>2, SilentMild, ZenonT(40)
  <2>3. CASE Schedule(io)
    BY <2>1, <2>3, SchedulingMild, IInvFacts, ZenonT(40)
  <2> QED
    BY <1>2, <2>2, <2>3, ZenonT(40) DEF Unpause
<1>3. CASE \E force \in BOOLEAN : Remove(g, force)
  <2>1. PICK force \in BOOLEAN : Remove(g, force)
    BY <1>3, ZenonT(40)
  <2>2. UNCHANGED <<shuttingDown, sharing, limit>> /\ shuttingDown \in BOOLEAN
    BY <2>1, IInvFacts, ZenonT(40) DEF Remove
  <2>3. CASE RetireTask(g, state') /\ Schedule(io) /\ UNCHANGED loop
    <3>1. active \in Seq(Gid) /\ active' = Without(active, {g})
      BY <2>3, IInvFacts, ZenonT(40) DEF RetireTask, TypeOK
    <3>2. Values(active') \subseteq Values(active)
      BY <3>1, WithoutLess, ZenonT(40)
    <3> QED
      BY <2>2, <2>3, <3>2, SchedulingMild, IInvFacts, ZenonT(40)
  <2>4. CASE \E Y \in Answers({g}) :
                StopTasks({g}, Y, "Removed", state, moving, shuttingDown)
    <3>1. "Removed" \in Nexts
      BY DEF Nexts
    <3> QED
      BY <2>2, <2>4, <3>1, StopTasksMild, ZenonT(40)
  <2> QED
    BY <2>1, <2>3, <2>4, ZenonT(40) DEF Remove
<1> QED
  BY <1>1, <1>2, <1>3, ZenonT(40)

\* The other client calls.
LEMMA OtherCallMild ==
  ASSUME IInv, OtherCall
  PROVE  Mild
<1> USE DEF object, queues, moves, flags
<1>1. ASSUME NEW g \in Gid, NEW paused, NEW at, Add(g, paused, at) PROVE Mild
  BY <1>1, SchedulingMild, IInvFacts, ZenonT(40) DEF Add
<1>2. ASSUME NEW g \in Gid, Relocate(g) PROVE Mild
  <2>1. UNCHANGED <<sharing, limit, disk, shuttingDown>> /\ shuttingDown \in BOOLEAN
    BY <1>2, IInvFacts, ZenonT(40) DEF Relocate
  <2>2. CASE /\ state' = [state EXCEPT ![g] = "Paused"]
             /\ loop' = IF disk THEN loop ELSE "crashed"
             /\ UNCHANGED <<active, scheduled, io>>
    <3>1. \A h \in Gid : state'[h] = "Waiting" => state[h] = "Waiting"
      BY <2>2, IInvFacts, SMTT(40)
    <3>2. CASE loop' = loop
      BY <2>1, <2>2, <3>1, <3>2, SilentMild, ZenonT(40)
    <3>3. CASE loop' = "crashed"
      BY <2>1, <2>2, <3>1, <3>3, ZenonT(40) DEF Mild, Ended, SomeWaiting
    <3> QED
      BY <2>2, <3>2, <3>3, ZenonT(40)
  <2>3. CASE \E Y \in Answers({g}) :
               StopTasks({g}, Y, "Paused", state, [moving EXCEPT ![g] = "waits"],
                         shuttingDown)
    <3>1. "Paused" \in Nexts
      BY DEF Nexts
    <3> QED
      BY <2>1, <2>3, <3>1, StopTasksMild, ZenonT(40)
  <2>4. CASE UNCHANGED <<state, active, scheduled, loop, io>>
    BY <2>1, <2>4, SilentMild, ZenonT(40)
  <2> QED
    BY <1>2, <2>2, <2>3, <2>4, ZenonT(40) DEF Relocate
<1>3. ASSUME NEW g \in Gid, NEW at, RemoveResult(g) \/ ChangePosition(g, at) PROVE Mild
  BY <1>3, SilentMild, ZenonT(40) DEF RemoveResult, ChangePosition
<1>9. ASSUME PurgeResults \/ SaveSession PROVE Mild
  BY <1>9, SilentMild, ZenonT(40) DEF PurgeResults, SaveSession
<1>4. ASSUME NEW g \in Gid, Requeue(g) PROVE Mild
  BY <1>4, SchedulingMild, IInvFacts, ZenonT(40) DEF Requeue
<1>5. ASSUME PauseAll PROVE Mild
  <2> DEFINE S == {g \in Values(active) : ~stopping[g]}
             st == [g \in Gid |-> IF g \in Values(waiting) /\ state[g] = "Waiting"
                                  THEN "Paused" ELSE state[g]]
  <2>1. PICK Y \in Answers(S) : StopTasks(S, Y, "Paused", st, moving, shuttingDown)
    BY <1>5, ZenonT(40) DEF PauseAll
  <2>2. UNCHANGED <<sharing, limit, shuttingDown>> /\ shuttingDown \in BOOLEAN
    BY <1>5, IInvFacts, ZenonT(40) DEF PauseAll
  <2>3. \A g \in Gid : st[g] = "Waiting" => state[g] = "Waiting"
    BY SMTT(40)
  <2>4. "Paused" \in Nexts
    BY DEF Nexts
  <2> HIDE DEF st, S
  <2> QED
    BY <2>1, <2>2, <2>3, <2>4, StopTasksMild, ZenonT(40)
<1>6. ASSUME UnpauseAll PROVE Mild
  BY <1>6, SchedulingMild, IInvFacts, ZenonT(40) DEF UnpauseAll
<1>7. ASSUME NEW n, ChangeLimit(n) PROVE Mild
  BY <1>7, SchedulingMild, IInvFacts, ZenonT(40) DEF ChangeLimit
<1>8. ASSUME NEW force, Shutdown(force) PROVE Mild
  <2> DEFINE S == {g \in Values(active) : ~stopping[g] \/ force}
  <2>1. shuttingDown' = TRUE /\ UNCHANGED <<sharing, limit>>
    BY <1>8, ZenonT(40) DEF Shutdown
  <2>2. CASE active = <<>> /\ UNCHANGED <<active, scheduled, loop>>
    BY <2>1, <2>2, ZenonT(40) DEF Mild, Ended
  <2>3. CASE \E Y \in Answers(S) : StopTasks(S, Y, "Waiting", state, moving, TRUE)
    <3>1. "Waiting" \in Nexts
      BY DEF Nexts
    <3> HIDE DEF S
    <3> QED
      BY <2>1, <2>3, <3>1, StopTasksMild, ZenonT(40)
  <2> QED
    BY <1>8, <2>2, <2>3, ZenonT(40) DEF Shutdown
<1> QED
  BY <1>1, <1>2, <1>3, <1>4, <1>5, <1>6, <1>7, <1>8, <1>9, ZenonT(40) DEF OtherCall
=============================================================================

----------------------------- MODULE Ed2kLemmas -----------------------------
(***************************************************************************)
(* Proofs about Ed2kTask, for every size of file, part and block, all      *)
(* sources and any sequence of deliveries, failures, stops, edits and      *)
(* crashes, as long as no wrong data arrives for a part that has all its   *)
(* data or is being hashed (LateWrong).                                    *)
(***************************************************************************)
EXTENDS Ed2kTask, QueueLemmas, WellFoundedInduction

-----------------------------------------------------------------------------
(* The inductive invariant.  It is stated of values: a task x, the file g  *)
(* it works on and the record r of its progress.                           *)

Phases == {"Idle", "Opening", "Checking", "Downloading", "Sharing", "Closing"}
JobKinds == {"open", "write", "hash", "sync", "close"}

Job ==
  [kind : {"open"}, truncate : BOOLEAN, check : BOOLEAN]
    \cup [kind : {"write"}, block : SUBSET Offsets, data : {"right", "wrong"}]
    \cup [kind : {"hash"}, part : PartIndexes]
    \cup [kind : {"sync", "close"}]
End == {e \in [kind : JobKinds, job : Job, ok : BOOLEAN, error : BOOLEAN] : e.job.kind = e.kind}
ClaimSet == [block : SUBSET Offsets, owner : Sources, old : BOOLEAN]
PartsSet == [received : SUBSET Offsets, verified : SUBSET PartIndexes, claims : SUBSET ClaimSet]
TaskSet ==
  [phase : Phases, over : BOOLEAN, stopping : BOOLEAN, outcome : {"Stop", "Fail", "Complete"},
   opened : BOOLEAN, path : Paths, p : PartsSet, waiting : SUBSET PartIndexes,
   unchecked : BOOLEAN, local : SUBSET PartIndexes, hashes : BOOLEAN,
   jobs : Seq(Job), ended : Seq(End)]
FileSet == [size : Sizes, data : [Offsets -> Data]]
RecordSet ==
  [path : Paths, parts : SUBSET PartIndexes, received : SUBSET Offsets, hashes : BOOLEAN,
   current : BOOLEAN]

\* The kinds of what is queued, or has ended.
AllOf(q, kinds) == \A j \in Values(q) : j.kind \in kinds

\* Part i is right in the file, and nothing queued will spoil it.
RightIn(g, i) == \A o \in Part(i) : g.data[o] = "right"
Wrong(j, i) == j.kind = "write" /\ j.data = "wrong" /\ j.block \cap Part(i) # {}
Clean(q, i) == \A j \in Values(q) : ~Wrong(j, i)
Safe(x, g, i) == RightIn(g, i) /\ Clean(x.jobs, i)

\* A part that is going to be hashed is not written to with wrong data afterwards.
Ordered(q) ==
  \A k, l \in DOMAIN q : k < l /\ q[k].kind = "hash" => ~Wrong(q[l], q[k].part)

\* What is in flight in each phase; an open and a close are alone.
Queue(x) ==
  /\ x.phase = "Idle" => x.jobs = <<>> /\ x.ended = <<>>
  /\ x.phase = "Opening" => AllOf(x.jobs, {"open"}) /\ AllOf(x.ended, {"open"})
  /\ x.phase = "Checking" => AllOf(x.jobs, {"hash"}) /\ AllOf(x.ended, {"hash"})
  /\ x.phase \in {"Downloading", "Sharing"} =>
       AllOf(x.jobs, {"write", "hash", "sync"}) /\ AllOf(x.ended, {"write", "hash", "sync"})
  /\ (\E j \in Values(x.jobs) : j.kind \in {"open", "close"})
       => Tail(x.jobs) = <<>> /\ x.ended = <<>>
  /\ (\E e \in Values(x.ended) : e.kind \in {"open", "close"})
       => Tail(x.ended) = <<>> /\ x.jobs = <<>>
  /\ Ordered(x.jobs)

\* What the task knows of its parts.
Progress(x) ==
  /\ x.phase # "Downloading" => x.p.claims = {}
  /\ \A c \in x.p.claims : c.block \subseteq Part(PartOf(Min(c.block)))
  /\ x.phase \in {"Opening", "Checking"} => ~x.unchecked
  /\ x.phase = "Checking" => x.waiting = {}
  /\ \A i \in x.p.verified : Filled(x.p, i)
  /\ x.phase = "Sharing" => Complete(x.p)
  /\ x.phase = "Closing" /\ x.outcome = "Complete" => Complete(x.p)
  /\ x.waiting # {} => NeedsHashSet(x) \/ x.phase \in {"Opening", "Closing", "Idle"}
  /\ \A j \in Values(x.jobs) : j.kind = "open" /\ j.check => x.waiting = {}
  /\ \A e \in Values(x.ended) : e.kind = "open" /\ e.job.check => x.waiting = {}
  /\ x.phase = "Downloading" /\ x.unchecked => NeedsHashSet(x)
  /\ x.phase = "Downloading" /\ NeedsHashSet(x) =>
       AllOf(x.jobs, {"write", "sync"}) /\ AllOf(x.ended, {"write", "sync"})

\* What is verified, hashed, or found by checkAll() is right.
Verified(x, g) ==
  /\ x.phase # "Idle" => \A i \in x.p.verified : Safe(x, g, i)
  /\ \A e \in Values(x.ended) : e.kind = "hash" =>
       Clean(x.jobs, e.job.part) /\ (e.ok => RightIn(g, e.job.part))
  /\ x.phase = "Checking" => \A i \in x.local : RightIn(g, i)
  /\ x.phase = "Downloading" /\ x.unchecked =>
       \A i \in x.local : Part(i) \cap x.p.received = {} => Safe(x, g, i)
  /\ x.over /\ x.outcome = "Complete" => \A i \in PartIndexes : RightIn(g, i)

\* The record, and the file it is about.
Recorded(x, g, r) ==
  /\ r # NoRecord => r.path = x.path /\ g.size = "whole"
  /\ r # NoRecord /\ r.current =>
       r.parts \subseteq x.p.verified /\ \A i \in r.parts : RightIn(g, i)
  /\ x.opened => g.size = "whole"
  /\ \A j \in Values(x.jobs) : j.kind = "open" =>
       /\ j.truncate => r = NoRecord /\ x.p.verified = {}
       /\ ~j.truncate => g.size # "long"
  /\ \A e \in Values(x.ended) : e.kind = "open" /\ ~e.error => g.size = "whole"

\* How a stop and an end are answered.
Answering(x) ==
  /\ x.over => x.phase = "Idle"
  /\ x.stopping => x.phase = "Closing"
  /\ x.phase = "Closing" /\ ~x.stopping => x.outcome # "Stop"

\* The file that was there.
Found(x, f, b) ==
  b.found # "absent" /\ b.option # "overwrite" =>
    /\ f["default"].data[0] # "hole" /\ f["default"].size # "absent"
    /\ \A j \in Values(x.jobs) : j.kind = "open" /\ j.truncate => x.path = "numbered"

Types ==
  /\ t \in TaskSet /\ files \in [Paths -> FileSet]
  /\ stored \in RecordSet \cup {NoRecord} /\ budget \in Scenario

Sound(x, g, r) ==
  Queue(x) /\ Progress(x) /\ Verified(x, g) /\ Recorded(x, g, r)

FileInv ==
  Types /\ Sound(t, files[t.path], stored) /\ Answering(t) /\ Found(t, files, budget)

-----------------------------------------------------------------------------
(* Sequences of jobs.                                                      *)

\* What is left of a queue, and what was taken from it.
LEMMA TakenValues ==
  ASSUME NEW S, NEW q \in Seq(S), q # <<>>
  PROVE  /\ Head(q) \in S /\ Tail(q) \in Seq(S)
         /\ Values(q) = {Head(q)} \cup Values(Tail(q))
<1>1. /\ Head(q) \in S /\ Tail(q) \in Seq(S)
      /\ Len(q) \in Nat \ {0} /\ DOMAIN q = 1..Len(q)
      /\ DOMAIN Tail(q) = 1..(Len(q) - 1)
      /\ \A k \in 1..(Len(q) - 1) : Tail(q)[k] = q[k + 1]
      /\ Head(q) = q[1]
  OBVIOUS
<1>2. ASSUME NEW v \in Values(q) PROVE v = Head(q) \/ v \in Values(Tail(q))
  <2>1. PICK k \in DOMAIN q : v = q[k]
    BY <1>2 DEF Values
  <2>2. CASE k = 1
    BY <1>1, <2>1, <2>2
  <2>3. CASE k # 1
    <3>1. k - 1 \in 1..(Len(q) - 1) /\ Tail(q)[k - 1] = q[k]
      BY <1>1, <2>1, <2>3
    <3> QED
      BY <1>1, <2>1, <3>1 DEF Values
  <2> QED
    BY <2>2, <2>3
<1>3. ASSUME NEW v \in Values(Tail(q)) PROVE v \in Values(q)
  <2>1. PICK k \in DOMAIN Tail(q) : v = Tail(q)[k]
    BY <1>3 DEF Values
  <2>2. k + 1 \in DOMAIN q /\ v = q[k + 1]
    BY <1>1, <2>1
  <2> QED
    BY <2>2 DEF Values
<1>4. Head(q) \in Values(q)
  <2>1. 1 \in DOMAIN q
    BY <1>1
  <2> QED
    BY <1>1, <2>1 DEF Values
<1> QED
  BY <1>1, <1>2, <1>3, <1>4

\* Nothing is in the empty queue, and one thing in a queue of one.
LEMMA FewValues ==
  /\ Values(<<>>) = {} /\ \A S : <<>> \in Seq(S)
  /\ \A S : \A v \in S : <<v>> \in Seq(S) /\ Values(<<v>>) = {v} /\ Tail(<<v>>) = <<>>
<1>1. Values(<<>>) = {} /\ \A S : <<>> \in Seq(S)
  BY SMTT(40) DEF Values
<1>2. ASSUME NEW S, NEW v \in S PROVE <<v>> \in Seq(S) /\ Values(<<v>>) = {v} /\ Tail(<<v>>) = <<>>
  <2>1. <<v>> \in Seq(S) /\ DOMAIN <<v>> = {1} /\ <<v>>[1] = v
    OBVIOUS
  <2>2. Values(<<v>>) = {v}
    BY <2>1 DEF Values
  <2>3. Tail(<<v>>) = <<>>
    OBVIOUS
  <2> QED
    BY <2>1, <2>2, <2>3
<1> QED
  BY <1>1, <1>2

\* Hashing may follow anything, a write only the hashing of other parts.
LEMMA OrderedAppend ==
  ASSUME NEW q \in Seq(Job), Ordered(q), NEW j \in Job,
         \A h \in Values(q) : h.kind = "hash" => ~Wrong(j, h.part)
  PROVE  Ordered(Append(q, j))
<1> DEFINE a == Append(q, j)
<1>1. /\ Len(q) \in Nat /\ DOMAIN q = 1..Len(q) /\ DOMAIN a = 1..(Len(q) + 1)
      /\ \A k \in 1..Len(q) : a[k] = q[k]
      /\ a[Len(q) + 1] = j
  OBVIOUS
<1> HIDE DEF a
<1>2. ASSUME NEW k \in DOMAIN a, NEW l \in DOMAIN a, k < l, a[k].kind = "hash"
      PROVE  ~Wrong(a[l], a[k].part)
  <2>1. k \in DOMAIN q /\ a[k] = q[k]
    BY <1>1, <1>2
  <2>2. CASE l \in DOMAIN q
    <3>1. a[l] = q[l]
      BY <1>1, <2>2
    <3> QED
      BY <1>2, <2>1, <2>2, <3>1 DEF Ordered
  <2>3. CASE l \notin DOMAIN q
    <3>1. a[l] = j
      BY <1>1, <2>3
    <3> QED
      BY <1>2, <2>1, <3>1 DEF Values
  <2> QED
    BY <2>2, <2>3
<1> QED
  BY <1>2 DEF Ordered, a

LEMMA OrderedConcat ==
  ASSUME NEW q \in Seq(Job), Ordered(q), NEW r \in Seq(Job),
         \A j \in Values(r) : j.kind # "write"
  PROVE  Ordered(q \o r)
<1> DEFINE a == q \o r
<1>1. /\ Len(q) \in Nat /\ DOMAIN q = 1..Len(q) /\ Len(r) \in Nat /\ DOMAIN r = 1..Len(r)
      /\ DOMAIN a = 1..(Len(q) + Len(r))
      /\ \A k \in 1..Len(q) : a[k] = q[k]
      /\ \A k \in 1..(Len(q) + Len(r)) : k > Len(q) => a[k] = r[k - Len(q)]
  OBVIOUS
<1> HIDE DEF a
<1>2. ASSUME NEW k \in DOMAIN a, NEW l \in DOMAIN a, k < l, a[k].kind = "hash"
      PROVE  ~Wrong(a[l], a[k].part)
  <2>2. CASE l \in DOMAIN q
    <3>1. k \in DOMAIN q /\ a[k] = q[k] /\ a[l] = q[l]
      BY <1>1, <1>2, <2>2
    <3> QED
      BY <1>2, <2>2, <3>1 DEF Ordered
  <2>3. CASE l \notin DOMAIN q
    <3>1. l - Len(q) \in DOMAIN r /\ a[l] = r[l - Len(q)]
      BY <1>1, <2>3
    <3>2. a[l].kind # "write"
      BY <3>1 DEF Values
    <3> QED
      BY <3>2 DEF Wrong
  <2> QED
    BY <2>2, <2>3
<1> QED
  BY <1>2 DEF Ordered, a

LEMMA OrderedTail ==
  ASSUME NEW q \in Seq(Job), Ordered(q), q # <<>>
  PROVE  /\ Ordered(Tail(q))
         /\ Head(q).kind = "hash" => Clean(Tail(q), Head(q).part)
<1>1. /\ Len(q) \in Nat \ {0} /\ DOMAIN q = 1..Len(q)
      /\ DOMAIN Tail(q) = 1..(Len(q) - 1)
      /\ \A k \in 1..(Len(q) - 1) : Tail(q)[k] = q[k + 1]
      /\ Head(q) = q[1]
  OBVIOUS
<1>2. ASSUME NEW k \in DOMAIN Tail(q), NEW l \in DOMAIN Tail(q), k < l, Tail(q)[k].kind = "hash"
      PROVE  ~Wrong(Tail(q)[l], Tail(q)[k].part)
  <2>1. /\ k + 1 \in DOMAIN q /\ l + 1 \in DOMAIN q /\ k + 1 < l + 1
        /\ Tail(q)[k] = q[k + 1] /\ Tail(q)[l] = q[l + 1]
    BY <1>1, <1>2
  <2> QED
    BY <1>2, <2>1 DEF Ordered
<1>3. ASSUME Head(q).kind = "hash", NEW j \in Values(Tail(q)) PROVE ~Wrong(j, Head(q).part)
  <2>1. PICK k \in DOMAIN Tail(q) : j = Tail(q)[k]
    BY <1>3 DEF Values
  <2>2. k + 1 \in DOMAIN q /\ 1 \in DOMAIN q /\ 1 < k + 1 /\ j = q[k + 1]
    BY <1>1, <2>1
  <2> QED
    BY <1>1, <1>3, <2>2 DEF Ordered
<1> QED
  BY <1>2, <1>3 DEF Ordered, Clean

\* What verifyFilled() queues.
LEMMA HashJobsFacts ==
  ASSUME FileConstants, NEW parts \in SUBSET PartIndexes
  PROVE  /\ HashJobs(parts) \in Seq(Job)
         /\ \A j \in Values(HashJobs(parts)) : j.kind = "hash" /\ j.part \in parts
<1> DEFINE all == [k \in 1 .. Count |-> HashJob(k - 1)]
           K == {k \in 1 .. Count : k - 1 \in parts}
<1>1. Count \in Int
  BY DEF FileConstants, Count
<1>2. all \in [1 .. Count -> Job]
  <2>1. ASSUME NEW k \in 1 .. Count PROVE HashJob(k - 1) \in Job
    <3>1. k - 1 \in PartIndexes
      BY <1>1 DEF PartIndexes
    <3> QED
      BY <3>1 DEF HashJob, Job
  <2> QED
    BY <2>1
<1>3. all \in Seq(Job) /\ DOMAIN all = 1 .. Count
  <2>1. CASE Count \in Nat
    BY <1>2, <2>1
  <2>2. CASE Count \notin Nat
    <3>1. 1 .. Count = {} /\ 1 .. 0 = {} /\ 0 \in Nat
      BY <1>1, <2>2
    <3>2. \A f \in [1 .. 0 -> Job] : f \in Seq(Job)
      BY <3>1
    <3>3. all \in Seq(Job)
      BY <1>2, <3>1, <3>2, Zenon
    <3> QED
      BY <3>3
  <2> QED
    BY <2>1, <2>2
<1>4. K \in SUBSET DOMAIN all /\ \A k \in K : all[k].kind = "hash" /\ all[k].part = k - 1
  BY <1>3 DEF HashJob
<1>5. HashJobs(parts) = KeepAt(all, K)
  BY DEF HashJobs
<1> HIDE DEF all
<1>6. KeepAt(all, K) \in Seq(Job) /\ Values(KeepAt(all, K)) = {all[k] : k \in K}
  BY <1>3, <1>4, KeepAtProperties, Zenon
<1>7. \A k \in K : k - 1 \in parts
  OBVIOUS
<1> HIDE DEF K
<1> QED
  BY <1>4, <1>5, <1>6, <1>7

-----------------------------------------------------------------------------
(* The functions of a task.                                                *)

\* Jobs that neither write nor open or close the file are added to a running task.
LEMMA QueueMore ==
  ASSUME FileConstants,
         NEW x \in TaskSet, NEW g \in FileSet, NEW r \in RecordSet \cup {NoRecord},
         Sound(x, g, r), NEW js \in Seq(Job), Ordered(js),
         NEW N, Values(js) = Values(x.jobs) \cup N,
         \A j \in N : j.kind \in {"hash", "sync"},
         x.phase \in {"Downloading", "Sharing"},
         x.phase = "Downloading" /\ NeedsHashSet(x) => \A j \in N : j.kind = "sync"
  PROVE  /\ [x EXCEPT !.jobs = js] \in TaskSet
         /\ Sound([x EXCEPT !.jobs = js], g, r)
<1> DEFINE y == [x EXCEPT !.jobs = js]
<1>1. /\ y \in TaskSet /\ y.jobs = js
      /\ y.phase = x.phase /\ y.over = x.over /\ y.stopping = x.stopping
      /\ y.outcome = x.outcome /\ y.opened = x.opened /\ y.path = x.path /\ y.p = x.p
      /\ y.waiting = x.waiting /\ y.unchecked = x.unchecked /\ y.local = x.local
      /\ y.hashes = x.hashes /\ y.ended = x.ended
  BY Zenon DEF TaskSet
<1> HIDE DEF y
<1>2. /\ \A j \in Values(x.jobs) : j \in Values(js)
      /\ \A j \in Values(js) : j \in Values(x.jobs) \/ j.kind \in {"hash", "sync"}
  OBVIOUS
<1>3. \A i : Clean(x.jobs, i) => Clean(js, i)
  BY <1>2 DEF Clean, Wrong
<1>4. AllOf(x.jobs, {"write", "hash", "sync"}) /\ AllOf(x.ended, {"write", "hash", "sync"})
  BY DEF Sound, Queue
<1>5. Queue(y)
  <2>1. AllOf(js, {"write", "hash", "sync"})
    BY <1>2, <1>4 DEF AllOf
  <2>2. \A j \in Values(js) : j.kind \notin {"open", "close"}
    BY <2>1 DEF AllOf
  <2>3. \A j \in Values(x.ended) : j.kind \notin {"open", "close"}
    BY <1>4 DEF AllOf
  <2> QED
    BY <1>1, <1>4, <2>1, <2>2, <2>3 DEF Queue
<1>6. NeedsHashSet(y) = NeedsHashSet(x)
  BY <1>1 DEF NeedsHashSet
<1>7. Progress(y)
  <2>1. x.phase = "Downloading" /\ NeedsHashSet(x) => AllOf(js, {"write", "sync"})
    <3>1. x.phase = "Downloading" /\ NeedsHashSet(x) => AllOf(x.jobs, {"write", "sync"})
      BY DEF Sound, Progress
    <3> QED
      BY <3>1 DEF AllOf
  <2> QED
    BY <1>1, <1>2, <1>6, <2>1 DEF Sound, Progress
<1>8. Verified(y, g)
  BY <1>1, <1>3 DEF Sound, Verified, Safe
<1>9. Recorded(y, g, r)
  BY <1>1, <1>2 DEF Sound, Recorded
<1> QED
  BY <1>1, <1>5, <1>7, <1>8, <1>9 DEF Sound, y

\* quiesce() asks for the close once nothing else is under way.
LEMMA CloseKeeps ==
  ASSUME FileConstants,
         NEW x \in TaskSet, NEW g \in FileSet, NEW r \in RecordSet \cup {NoRecord},
         Sound(x, g, r)
  PROVE  CloseFile(x) \in TaskSet /\ Sound(CloseFile(x), g, r)
<1>1. CASE x.phase # "Closing" \/ Pending(x)
  BY <1>1 DEF CloseFile
<1>2. CASE ~(x.phase # "Closing" \/ Pending(x))
  <2> DEFINE c == [kind |-> "close"]
             y == Enqueue(x, c)
  <2>1. c \in Job /\ c.kind = "close"
    BY DEF Job
  <2>2. x.jobs = <<>> /\ x.ended = <<>> /\ x.phase = "Closing"
    BY <1>2 DEF Pending
  <2>3. Append(<<>>, c) = <<c>>
    OBVIOUS
  <2>4. <<c>> \in Seq(Job) /\ Values(<<c>>) = {c} /\ Tail(<<c>>) = <<>>
    BY <2>1, FewValues
  <2>5. Ordered(<<c>>)
    <3>1. DOMAIN <<c>> = {1}
      OBVIOUS
    <3> QED
      BY <3>1 DEF Ordered
  <2> HIDE DEF c
  <2>6. /\ y \in TaskSet /\ y.jobs = <<c>> /\ y.ended = <<>>
        /\ y.phase = "Closing" /\ y.over = x.over /\ y.stopping = x.stopping
        /\ y.outcome = x.outcome /\ y.opened = x.opened /\ y.path = x.path /\ y.p = x.p
        /\ y.waiting = x.waiting /\ y.unchecked = x.unchecked /\ y.local = x.local
        /\ y.hashes = x.hashes
    BY <2>2, <2>3, <2>4, ZenonT(30) DEF TaskSet, Enqueue
  <2>7. CloseFile(x) = y
    BY <1>2 DEF CloseFile, c
  <2> HIDE DEF y
  <2>8. Values(<<>>) = {}
    BY FewValues
  <2>9. \A i : Clean(y.jobs, i)
    BY <2>1, <2>4, <2>6 DEF Clean, Wrong
  <2>10. Queue(y)
    BY <2>1, <2>4, <2>5, <2>6, <2>8 DEF Queue
  <2>11. Progress(y)
    BY <2>1, <2>2, <2>4, <2>6, <2>8 DEF Sound, Progress
  <2>12. Verified(y, g)
    BY <2>2, <2>6, <2>8, <2>9 DEF Sound, Verified, Safe
  <2>13. Recorded(y, g, r)
    BY <2>1, <2>2, <2>4, <2>6, <2>8 DEF Sound, Recorded
  <2> QED
    BY <2>6, <2>7, <2>10, <2>11, <2>12, <2>13 DEF Sound
<1> QED
  BY <1>1, <1>2

\* finish() of a task that runs.
LEMMA FinishKeeps ==
  ASSUME FileConstants,
         NEW x \in TaskSet, NEW g \in FileSet, NEW r \in RecordSet \cup {NoRecord},
         Sound(x, g, r), NEW outcome \in {"Stop", "Fail", "Complete"},
         x.phase # "Idle" => ~x.over,
         outcome = "Complete" => x.phase \in {"Closing", "Idle"} \/ Complete(x.p)
  PROVE  FinishFile(x, outcome) \in TaskSet /\ Sound(FinishFile(x, outcome), g, r)
<1>1. CASE x.phase \in {"Closing", "Idle"}
  BY <1>1 DEF FinishFile
<1>2. CASE x.phase \notin {"Closing", "Idle"}
  <2> DEFINE y == [x EXCEPT !.outcome = outcome, !.phase = "Closing", !.p.claims = {}]
  <2>1. /\ y \in TaskSet /\ y.jobs = x.jobs /\ y.ended = x.ended
        /\ y.phase = "Closing" /\ y.over = x.over /\ y.stopping = x.stopping
        /\ y.outcome = outcome /\ y.opened = x.opened /\ y.path = x.path
        /\ y.p.verified = x.p.verified /\ y.p.received = x.p.received /\ y.p.claims = {}
        /\ y.waiting = x.waiting /\ y.unchecked = x.unchecked /\ y.local = x.local
        /\ y.hashes = x.hashes
    BY Zenon DEF TaskSet, PartsSet, Phases
  <2>2. FinishFile(x, outcome) \in {y, CloseFile(y)}
    BY <1>2 DEF FinishFile
  <2> HIDE DEF y
  <2>3. Queue(y)
    BY <2>1 DEF Sound, Queue
  <2>4. Progress(y)
    BY <1>2, <2>1 DEF Sound, Progress, Complete, Filled
  <2>5. Verified(y, g)
    BY <1>2, <2>1 DEF Sound, Verified, Safe
  <2>6. Recorded(y, g, r)
    BY <2>1 DEF Sound, Recorded
  <2>7. Sound(y, g, r)
    BY <2>3, <2>4, <2>5, <2>6 DEF Sound
  <2> QED
    BY <2>1, <2>2, <2>7, CloseKeeps
<1> QED
  BY <1>1, <1>2

\* downloaded(): every part is verified, and the sync is queued.
LEMMA DownloadedKeeps ==
  ASSUME FileConstants,
         NEW x \in TaskSet, NEW g \in FileSet, NEW r \in RecordSet \cup {NoRecord},
         Queue(x), Verified(x, g), Recorded(x, g, r),
         \A i \in x.p.verified : Filled(x.p, i),
         Complete(x.p), x.phase # "Idle", ~x.over,
         AllOf(x.jobs, {"write", "hash", "sync"}), AllOf(x.ended, {"write", "hash", "sync"}),
         x.waiting # {} => NeedsHashSet(x)
  PROVE  Downloaded(x) \in TaskSet /\ Sound(Downloaded(x), g, r)
<1> DEFINE s == [kind |-> "sync"]
           y == [x EXCEPT !.phase = "Sharing", !.p.claims = {}]
<1>1. /\ y \in TaskSet /\ y.jobs = x.jobs /\ y.ended = x.ended
      /\ y.phase = "Sharing" /\ y.over = x.over /\ y.stopping = x.stopping
      /\ y.outcome = x.outcome /\ y.opened = x.opened /\ y.path = x.path
      /\ y.p.verified = x.p.verified /\ y.p.received = x.p.received /\ y.p.claims = {}
      /\ y.waiting = x.waiting /\ y.unchecked = x.unchecked /\ y.local = x.local
      /\ y.hashes = x.hashes
  BY Zenon DEF TaskSet, PartsSet, Phases
<1>2. Downloaded(x) = [y EXCEPT !.jobs = Append(y.jobs, s)]
  BY DEF Downloaded, Enqueue
<1> HIDE DEF y
<1>3. Queue(y)
  BY <1>1 DEF Queue, AllOf
<1>4. Progress(y)
  BY <1>1 DEF AllOf, Progress, Complete, Filled, NeedsHashSet
<1>5. Verified(y, g)
  BY <1>1 DEF Verified, Safe
<1>6. Recorded(y, g, r)
  BY <1>1 DEF Recorded
<1>7. Sound(y, g, r)
  BY <1>3, <1>4, <1>5, <1>6 DEF Sound
<1>8. s \in Job /\ s.kind = "sync"
  BY DEF Job
<1> HIDE DEF s
<1>9. y.jobs \in Seq(Job)
  BY <1>1 DEF TaskSet
<1>10. /\ Append(y.jobs, s) \in Seq(Job)
       /\ Values(Append(y.jobs, s)) = Values(y.jobs) \cup {s}
  BY <1>8, <1>9, AppendValues
<1>11. Ordered(Append(y.jobs, s))
  <2>1. Ordered(y.jobs)
    BY <1>3 DEF Queue
  <2> QED
    BY <1>8, <1>9, <2>1, OrderedAppend DEF Wrong
<1> DEFINE N == {s}
           js == Append(y.jobs, s)
<1>12. \A j \in N : j.kind \in {"hash", "sync"}
  BY <1>8
<1>13. y.phase \in {"Downloading", "Sharing"}
  BY <1>1
<1>14. y.phase = "Downloading" /\ NeedsHashSet(y) => \A j \in N : j.kind = "sync"
  BY <1>1
<1>15. js \in Seq(Job) /\ Ordered(js) /\ Values(js) = Values(y.jobs) \cup N
  BY <1>10, <1>11
<1>16. y \in TaskSet
  BY <1>1
<1>17. Downloaded(x) = [y EXCEPT !.jobs = js]
  BY <1>2
<1> HIDE DEF js, N
<1>18. [y EXCEPT !.jobs = js] \in TaskSet /\ Sound([y EXCEPT !.jobs = js], g, r)
  BY <1>7, <1>12, <1>13, <1>14, <1>15, <1>16, QueueMore, Zenon
<1> QED
  BY <1>17, <1>18

\* run(), once the file is open or checked.
LEMMA RunKeeps ==
  ASSUME FileConstants,
         NEW x \in TaskSet, NEW g \in FileSet, NEW r \in RecordSet \cup {NoRecord},
         Queue(x), Verified(x, g), Recorded(x, g, r),
         \A i \in x.p.verified : Filled(x.p, i),
         x.phase \in {"Opening", "Checking"}, ~x.over, x.p.claims = {},
         Values(x.jobs) = {}, Values(x.ended) = {},
         x.waiting # {} => NeedsHashSet(x),
         x.unchecked => NeedsHashSet(x) /\ \A i \in x.local : RightIn(g, i)
  PROVE  RunFile(x) \in TaskSet /\ Sound(RunFile(x), g, r)
<1>1. CASE Complete(x.p)
  <2>1. AllOf(x.jobs, {"write", "hash", "sync"}) /\ AllOf(x.ended, {"write", "hash", "sync"})
    BY DEF AllOf
  <2>2. RunFile(x) = Downloaded(x)
    BY <1>1 DEF RunFile
  <2> QED
    BY <1>1, <2>1, <2>2, DownloadedKeeps
<1>2. CASE ~Complete(x.p)
  <2> DEFINE y == [x EXCEPT !.phase = "Downloading"]
  <2>1. /\ y \in TaskSet /\ y.jobs = x.jobs /\ y.ended = x.ended
        /\ y.phase = "Downloading" /\ y.over = x.over /\ y.stopping = x.stopping
        /\ y.outcome = x.outcome /\ y.opened = x.opened /\ y.path = x.path
        /\ y.p = x.p
        /\ y.waiting = x.waiting /\ y.unchecked = x.unchecked /\ y.local = x.local
        /\ y.hashes = x.hashes
    BY DEF TaskSet, Phases
  <2>2. RunFile(x) = y
    BY <1>2 DEF RunFile
  <2> HIDE DEF y
  <2>3. NeedsHashSet(y) = NeedsHashSet(x)
    BY <2>1 DEF NeedsHashSet
  <2>4. Queue(y)
    BY <2>1 DEF Queue, AllOf
  <2>5. Progress(y)
    BY <2>1, <2>3 DEF Progress, AllOf
  <2>6. Verified(y, g)
    BY <2>1 DEF Verified, Safe, Clean
  <2>7. Recorded(y, g, r)
    BY <2>1 DEF Recorded
  <2> QED
    BY <2>1, <2>2, <2>4, <2>5, <2>6, <2>7 DEF Sound
<1> QED
  BY <1>1, <1>2

\* verifyFilled(): the parts wait for the hash set, or their hashing is queued.
LEMMA VerifyFilledKeeps ==
  ASSUME FileConstants,
         NEW x \in TaskSet, NEW g \in FileSet, NEW r \in RecordSet \cup {NoRecord},
         Sound(x, g, r), NEW parts \in SUBSET PartIndexes,
         x.phase \in {"Downloading", "Sharing"}
  PROVE  VerifyFilled(x, parts) \in TaskSet /\ Sound(VerifyFilled(x, parts), g, r)
<1>1. CASE NeedsHashSet(x)
  <2> DEFINE y == [x EXCEPT !.waiting = @ \cup parts]
  <2>1. /\ y \in TaskSet /\ y.jobs = x.jobs /\ y.ended = x.ended
        /\ y.phase = x.phase /\ y.over = x.over /\ y.stopping = x.stopping
        /\ y.outcome = x.outcome /\ y.opened = x.opened /\ y.path = x.path
        /\ y.p = x.p
        /\ y.unchecked = x.unchecked /\ y.local = x.local
        /\ y.hashes = x.hashes
    BY DEF TaskSet
  <2>2. VerifyFilled(x, parts) = y
    BY <1>1 DEF VerifyFilled
  <2> HIDE DEF y
  <2>3. NeedsHashSet(y)
    BY <1>1, <2>1 DEF NeedsHashSet
  <2>4. Queue(y)
    BY <2>1 DEF Queue, Sound
  <2>5. Progress(y)
    <3>1. AllOf(x.jobs, {"write", "hash", "sync"}) /\ AllOf(x.ended, {"write", "hash", "sync"})
      BY DEF Sound, Queue
    <3> QED
      BY <1>1, <2>1, <2>3, <3>1 DEF Progress, Sound, AllOf
  <2>6. Verified(y, g)
    BY <2>1 DEF Verified, Safe, Sound
  <2>7. Recorded(y, g, r)
    BY <2>1 DEF Recorded, Sound
  <2> QED
    BY <2>1, <2>2, <2>4, <2>5, <2>6, <2>7 DEF Sound
<1>2. CASE ~NeedsHashSet(x)
  <2>1. VerifyFilled(x, parts) = [x EXCEPT !.jobs = x.jobs \o HashJobs(parts)]
    BY <1>2 DEF VerifyFilled
  <2>2. /\ HashJobs(parts) \in Seq(Job)
        /\ \A j \in Values(HashJobs(parts)) : j.kind = "hash"
    BY HashJobsFacts
  <2>3. x.jobs \in Seq(Job) /\ Ordered(x.jobs)
    BY DEF TaskSet, Sound, Queue
  <2>4. /\ x.jobs \o HashJobs(parts) \in Seq(Job)
        /\ Values(x.jobs \o HashJobs(parts)) = Values(x.jobs) \cup Values(HashJobs(parts))
    BY <2>2, <2>3, ConcatValues
  <2>5. Ordered(x.jobs \o HashJobs(parts))
    BY <2>2, <2>3, OrderedConcat
  <2> DEFINE js == x.jobs \o HashJobs(parts)
             N == Values(HashJobs(parts))
  <2>6. js \in Seq(Job) /\ Ordered(js) /\ Values(js) = Values(x.jobs) \cup N
    BY <2>4, <2>5
  <2>7. \A j \in N : j.kind \in {"hash", "sync"}
    BY <2>2
  <2>8. x.phase = "Downloading" /\ NeedsHashSet(x) => \A j \in N : j.kind = "sync"
    BY <1>2
  <2>9. VerifyFilled(x, parts) = [x EXCEPT !.jobs = js]
    BY <2>1
  <2> HIDE DEF js, N
  <2>10. [x EXCEPT !.jobs = js] \in TaskSet /\ Sound([x EXCEPT !.jobs = js], g, r)
    BY <2>6, <2>7, <2>8, QueueMore, Zenon
  <2> QED
    BY <2>9, <2>10
<1> QED
  BY <1>1, <1>2

\* Parts do not overlap.
LEMMA PartsApart ==
  ASSUME NEW i, NEW k, i # k
  PROVE  Part(i) \cap Part(k) = {}
BY DEF Part

\* Parts whose data is right, and stays right, are verified.
LEMMA VerifyKeeps ==
  ASSUME FileConstants,
         NEW x \in TaskSet, NEW g \in FileSet, NEW r \in RecordSet \cup {NoRecord},
         Sound(x, g, r), NEW parts \in SUBSET PartIndexes,
         x.phase \in {"Checking", "Downloading"},
         \A i \in parts : Safe(x, g, i)
  PROVE  LET y == [x EXCEPT !.p = VerifyParts(@, parts)]
         IN  y \in TaskSet /\ Sound(y, g, r)
<1> DEFINE y == [x EXCEPT !.p = VerifyParts(@, parts)]
           more == UNION {Part(i) : i \in parts}
<1>1. more \subseteq Offsets
  BY DEF Part
<1>2. \A i \in parts : Part(i) \subseteq more
  OBVIOUS
<1>3. y.p = [x.p EXCEPT !.verified = @ \cup parts, !.received = @ \cup more]
  BY DEF TaskSet, VerifyParts
<1> HIDE DEF more
<1>4. /\ y.p \in PartsSet /\ y.p.claims = x.p.claims
      /\ y.p.verified = x.p.verified \cup parts /\ y.p.received = x.p.received \cup more
  BY <1>1, <1>3, ZenonT(30) DEF TaskSet, PartsSet
<1>5. /\ y \in TaskSet /\ y.jobs = x.jobs /\ y.ended = x.ended
      /\ y.phase = x.phase /\ y.over = x.over /\ y.stopping = x.stopping
      /\ y.outcome = x.outcome /\ y.opened = x.opened /\ y.path = x.path
      /\ y.waiting = x.waiting /\ y.unchecked = x.unchecked /\ y.local = x.local
      /\ y.hashes = x.hashes
  BY <1>4 DEF TaskSet
<1> HIDE DEF y
<1>6. Queue(y)
  BY <1>5 DEF Sound, Queue
<1>7. \A i \in y.p.verified : Filled(y.p, i)
  <2>1. \A i \in x.p.verified : Part(i) \subseteq x.p.received
    BY DEF Sound, Progress, Filled
  <2> QED
    BY <1>2, <1>4, <2>1 DEF Filled
<1>8. Complete(x.p) => Complete(y.p)
  BY <1>4 DEF Complete
<1>9. Progress(y)
  BY <1>4, <1>5, <1>7, <1>8 DEF Sound, Progress, NeedsHashSet
<1>10. Verified(y, g)
  <2>1. \A i \in y.p.verified : Safe(y, g, i)
    BY <1>4, <1>5 DEF Sound, Verified, Safe
  <2>2. \A i : Part(i) \cap y.p.received = {} => Part(i) \cap x.p.received = {}
    BY <1>4
  <2> QED
    BY <1>5, <2>1, <2>2 DEF Sound, Verified, Safe
<1>11. Recorded(y, g, r)
  <2>1. x.p.verified \subseteq y.p.verified
    BY <1>4
  <2>2. \A j \in Values(x.jobs) : j.kind # "open"
    BY DEF Sound, Queue, AllOf
  <2> QED
    BY <1>5, <2>1, <2>2 DEF Sound, Recorded
<1> QED
  BY <1>5, <1>6, <1>9, <1>10, <1>11 DEF Sound, y

\* downloaded() of a task in phase Downloading.
LEMMA DownloadedFrom ==
  ASSUME FileConstants,
         NEW x \in TaskSet, NEW g \in FileSet, NEW r \in RecordSet \cup {NoRecord},
         Sound(x, g, r), x.phase = "Downloading", Complete(x.p), ~x.over
  PROVE  Downloaded(x) \in TaskSet /\ Sound(Downloaded(x), g, r)
<1>1. AllOf(x.jobs, {"write", "hash", "sync"}) /\ AllOf(x.ended, {"write", "hash", "sync"})
  BY DEF Sound, Queue
<1>2. x.waiting # {} => NeedsHashSet(x)
  BY DEF Sound, Progress
<1>3. /\ Queue(x) /\ Verified(x, g) /\ Recorded(x, g, r)
      /\ \A i \in x.p.verified : Filled(x.p, i)
  BY DEF Sound, Progress
<1>4. x.phase # "Idle"
  OBVIOUS
<1> QED
  BY <1>1, <1>2, <1>3, <1>4, DownloadedKeeps

\* acceptHashSet().
LEMMA AcceptKeeps ==
  ASSUME FileConstants,
         NEW x \in TaskSet, NEW g \in FileSet, NEW r \in RecordSet \cup {NoRecord},
         Sound(x, g, r), x.phase = "Downloading", NeedsHashSet(x), ~x.over
  PROVE  AcceptHashSet(x) \in TaskSet /\ Sound(AcceptHashSet(x), g, r)
<1> DEFINE kept == {i \in x.local : Part(i) \cap x.p.received = {}}
           h == [x EXCEPT !.hashes = TRUE, !.waiting = {}]
           u == [h EXCEPT !.unchecked = FALSE, !.local = {}]
<1>1. x.waiting \in SUBSET PartIndexes /\ x.jobs \in Seq(Job)
  BY DEF TaskSet
<1>2. ASSUME NEW w, w \in {h, u}, w = u \/ ~x.unchecked
      PROVE  w \in TaskSet /\ Sound(w, g, r) /\ w.phase = "Downloading" /\ ~NeedsHashSet(w)
  <2>1. /\ w \in TaskSet /\ w.jobs = x.jobs /\ w.ended = x.ended
        /\ w.phase = x.phase /\ w.over = x.over /\ w.stopping = x.stopping
        /\ w.outcome = x.outcome /\ w.opened = x.opened /\ w.path = x.path /\ w.p = x.p
        /\ w.waiting = {} /\ ~w.unchecked /\ w.hashes
    BY <1>2, ZenonT(30) DEF TaskSet
  <2> HIDE DEF h, u
  <2>2. ~NeedsHashSet(w)
    BY <2>1 DEF NeedsHashSet
  <2>3. Queue(w)
    BY <2>1 DEF Sound, Queue
  <2>4. Progress(w)
    BY <2>1, <2>2, ZenonT(30) DEF Sound, Progress
  <2>5. Verified(w, g)
    BY <2>1 DEF Sound, Verified, Safe
  <2>6. Recorded(w, g, r)
    BY <2>1 DEF Sound, Recorded
  <2> QED
    BY <2>1, <2>2, <2>3, <2>4, <2>5, <2>6 DEF Sound
<1>3. CASE ~x.unchecked
  <2>1. AcceptHashSet(x) = VerifyFilled(h, x.waiting)
    BY <1>3 DEF AcceptHashSet
  <2>2. h \in TaskSet /\ Sound(h, g, r) /\ h.phase = "Downloading"
    BY <1>2, <1>3
  <2> HIDE DEF h
  <2> QED
    BY <1>1, <2>1, <2>2, VerifyFilledKeeps
<1>4. CASE x.unchecked
  <2> DEFINE v == [u EXCEPT !.p = VerifyParts(@, kept)]
             z == VerifyFilled(v, x.waiting)
  <2>1. u \in TaskSet /\ Sound(u, g, r) /\ u.phase = "Downloading" /\ ~NeedsHashSet(u)
    BY <1>2
  <2>2. u.jobs = x.jobs /\ u.over = x.over
    BY DEF TaskSet
  <2>3. kept \in SUBSET PartIndexes /\ \A i \in kept : Safe(x, g, i)
    BY <1>4 DEF TaskSet, Sound, Verified
  <2>4. \A i \in kept : Safe(u, g, i)
    BY <2>2, <2>3 DEF Safe
  <2>5. AcceptHashSet(x) = IF Complete(z.p) /\ z.phase = "Downloading" THEN Downloaded(z) ELSE z
    <3>1. ~NeedsHashSet(h) /\ ~NeedsHashSet(v) /\ h.jobs = x.jobs /\ v.jobs = x.jobs
      BY DEF TaskSet, NeedsHashSet, Multipart
    <3> DEFINE y == VerifyFilled(h, x.waiting)
               js == x.jobs \o HashJobs(x.waiting)
    <3>2. y = [h EXCEPT !.jobs = js] /\ z = [v EXCEPT !.jobs = js]
      BY <3>1 DEF VerifyFilled
    <3>3. z = [y EXCEPT !.unchecked = FALSE, !.local = {}, !.p = VerifyParts(@, kept)]
      BY <3>2, ZenonT(30) DEF TaskSet
    <3> QED
      BY <1>4, <3>3, Zenon DEF AcceptHashSet
  <2>6. v.over = x.over /\ v.phase = "Downloading" /\ ~NeedsHashSet(v)
    BY DEF TaskSet, NeedsHashSet, Multipart
  <2> HIDE DEF u, kept
  <2>7. v \in TaskSet /\ Sound(v, g, r)
    BY <2>1, <2>3, <2>4, VerifyKeeps
  <2> HIDE DEF v
  <2>8. z \in TaskSet /\ Sound(z, g, r)
    BY <1>1, <2>6, <2>7, VerifyFilledKeeps
  <2>9. z.phase = "Downloading" /\ z.over = x.over
    BY <2>6, <2>7 DEF VerifyFilled, TaskSet
  <2> HIDE DEF z
  <2>10. CASE Complete(z.p)
    <3>1. Downloaded(z) \in TaskSet /\ Sound(Downloaded(z), g, r)
      BY <2>8, <2>9, <2>10, DownloadedFrom
    <3> QED
      BY <2>5, <2>9, <2>10, <3>1
  <2>11. CASE ~Complete(z.p)
    BY <2>5, <2>8, <2>11
  <2> QED
    BY <2>10, <2>11
<1> QED
  BY <1>3, <1>4

\* What is known of a completion e once it is taken from the queue of x.
Taken(x, g, e) ==
  /\ e \in End /\ x.phase # "Idle"
  /\ x.phase = "Opening" => e.kind = "open"
  /\ x.phase = "Checking" => e.kind = "hash"
  /\ x.phase \in {"Downloading", "Sharing"} => e.kind \in {"write", "hash", "sync"}
  /\ e.kind \in {"open", "close"} => x.jobs = <<>> /\ x.ended = <<>>
  /\ e.kind = "open" /\ e.job.check => x.waiting = {}
  /\ e.kind = "open" /\ ~e.error => g.size = "whole"
  /\ e.kind = "hash" =>
       Clean(x.jobs, e.job.part) /\ (e.ok => RightIn(g, e.job.part))
  /\ x.phase = "Downloading" /\ NeedsHashSet(x) => e.kind # "hash"

LEMMA TakeKeeps ==
  ASSUME FileConstants,
         NEW x \in TaskSet, NEW g \in FileSet, NEW r \in RecordSet \cup {NoRecord},
         Sound(x, g, r), x.ended # <<>>
  PROVE  LET y == [x EXCEPT !.ended = Tail(@)]
         IN  y \in TaskSet /\ Sound(y, g, r) /\ Taken(y, g, Head(x.ended))
<1> DEFINE y == [x EXCEPT !.ended = Tail(@)]
           e == Head(x.ended)
<1>1. x.ended \in Seq(End)
  BY DEF TaskSet
<1>2. /\ e \in End /\ Tail(x.ended) \in Seq(End)
      /\ Values(x.ended) = {e} \cup Values(Tail(x.ended))
  BY <1>1, TakenValues
<1> HIDE DEF e
<1>3. /\ y \in TaskSet /\ y.jobs = x.jobs /\ y.ended = Tail(x.ended)
      /\ y.phase = x.phase /\ y.over = x.over /\ y.stopping = x.stopping
      /\ y.outcome = x.outcome /\ y.opened = x.opened /\ y.path = x.path /\ y.p = x.p
      /\ y.waiting = x.waiting /\ y.unchecked = x.unchecked /\ y.local = x.local
      /\ y.hashes = x.hashes
  BY <1>2 DEF TaskSet
<1> HIDE DEF y
<1>4. /\ e \in Values(x.ended) /\ \A d \in Values(y.ended) : d \in Values(x.ended)
      /\ x.phase # "Idle" /\ Values(<<>>) = {}
  BY <1>2, <1>3, FewValues DEF Sound, Queue
<1>5. NeedsHashSet(y) = NeedsHashSet(x)
  BY <1>3 DEF NeedsHashSet
<1>6. Queue(y)
  <2>1. (\E d \in Values(y.ended) : d.kind \in {"open", "close"}) => y.ended = <<>>
    BY <1>3, <1>4 DEF Sound, Queue
  <2>2. ~\E d \in Values(y.ended) : d.kind \in {"open", "close"}
    BY <1>4, <2>1
  <2>3. ~\E j \in Values(x.jobs) : j.kind \in {"open", "close"}
    BY DEF Sound, Queue
  <2> QED
    BY <1>3, <1>4, <2>2, <2>3 DEF Sound, Queue, AllOf
<1>7. Progress(y)
  BY <1>3, <1>4, <1>5, ZenonT(30) DEF Sound, Progress, AllOf
<1>8. Verified(y, g)
  BY <1>3, <1>4, ZenonT(30) DEF Sound, Verified, Safe
<1>9. Recorded(y, g, r)
  BY <1>3, <1>4, ZenonT(30) DEF Sound, Recorded
<1>10. Taken(y, g, e)
  <2>1. e.kind \in {"open", "close"} => y.jobs = <<>> /\ y.ended = <<>>
    BY <1>3, <1>4 DEF Sound, Queue
  <2>2. /\ y.phase = "Opening" => e.kind = "open"
        /\ y.phase = "Checking" => e.kind = "hash"
        /\ y.phase \in {"Downloading", "Sharing"} => e.kind \in {"write", "hash", "sync"}
    BY <1>3, <1>4 DEF Sound, Queue, AllOf
  <2>3. /\ e.kind = "open" /\ e.job.check => y.waiting = {}
        /\ y.phase = "Downloading" /\ NeedsHashSet(y) => e.kind # "hash"
    BY <1>3, <1>4, <1>5 DEF Sound, Progress, AllOf
  <2>4. e.kind = "open" /\ ~e.error => g.size = "whole"
    BY <1>4 DEF Sound, Recorded
  <2>5. e.kind = "hash" =>
         Clean(y.jobs, e.job.part) /\ (e.ok => RightIn(g, e.job.part))
    BY <1>3, <1>4 DEF Sound, Verified
  <2> QED
    BY <1>2, <1>3, <1>4, <2>1, <2>2, <2>3, <2>4, <2>5 DEF Taken
<1> QED
  BY <1>3, <1>6, <1>7, <1>8, <1>9, <1>10 DEF Sound, y, e

\* partVerified().
LEMMA PartVerifiedKeeps ==
  ASSUME FileConstants,
         NEW x \in TaskSet, NEW g \in FileSet, NEW r \in RecordSet \cup {NoRecord},
         Sound(x, g, r), NEW i \in PartIndexes, NEW ok \in BOOLEAN, ~x.over,
         Clean(x.jobs, i), ok => RightIn(g, i),
         x.phase = "Downloading" => ~NeedsHashSet(x)
  PROVE  PartVerified(x, i, ok) \in TaskSet /\ Sound(PartVerified(x, i, ok), g, r)
<1>1. CASE x.phase # "Downloading" \/ i \in x.p.verified
  BY <1>1 DEF PartVerified
<1>2. CASE x.phase = "Downloading" /\ i \notin x.p.verified /\ ~ok
  <2> DEFINE y == [x EXCEPT !.p = RejectPart(@, i)]
  <2>1. /\ y.p \in PartsSet /\ y.p.claims = x.p.claims
        /\ y.p.verified = x.p.verified \ {i} /\ y.p.received = x.p.received \ Part(i)
    BY Zenon DEF TaskSet, PartsSet, RejectPart
  <2>2. /\ y \in TaskSet /\ y.jobs = x.jobs /\ y.ended = x.ended
        /\ y.phase = x.phase /\ y.over = x.over /\ y.stopping = x.stopping
        /\ y.outcome = x.outcome /\ y.opened = x.opened /\ y.path = x.path
        /\ y.waiting = x.waiting /\ y.unchecked = x.unchecked /\ y.local = x.local
        /\ y.hashes = x.hashes
    BY <2>1, ZenonT(30) DEF TaskSet
  <2>3. PartVerified(x, i, ok) = y
    BY <1>2 DEF PartVerified
  <2> HIDE DEF y
  <2>4. NeedsHashSet(y) = NeedsHashSet(x) /\ y.p.verified = x.p.verified
    BY <1>2, <2>1, <2>2 DEF NeedsHashSet
  <2>5. ~x.unchecked
    BY <1>2, ZenonT(30) DEF Sound, Progress
  <2>6. \A k \in y.p.verified : Filled(y.p, k)
    <3>1. ASSUME NEW k \in y.p.verified PROVE Filled(y.p, k)
      <4>1. k # i /\ Part(k) \subseteq x.p.received
        BY <1>2, <2>4 DEF Sound, Progress, Filled
      <4>2. Part(k) \cap Part(i) = {}
        BY <4>1, PartsApart
      <4> QED
        BY <2>1, <4>1, <4>2 DEF Filled
    <3> QED
      BY <3>1
  <2>7. Queue(y)
    BY <2>2, ZenonT(30) DEF Sound, Queue
  <2>8. Progress(y)
    BY <1>2, <2>1, <2>2, <2>4, <2>5, <2>6, ZenonT(30) DEF Sound, Progress
  <2>9. Verified(y, g)
    BY <1>2, <2>2, <2>4, <2>5, ZenonT(30) DEF Sound, Verified, Safe
  <2>10. Recorded(y, g, r)
    BY <2>2, <2>4, Zenon DEF Sound, Recorded
  <2> QED
    BY <2>2, <2>3, <2>7, <2>8, <2>9, <2>10 DEF Sound
<1>3. CASE x.phase = "Downloading" /\ i \notin x.p.verified /\ ok
  <2> DEFINE y == [x EXCEPT !.p = VerifyParts(@, {i})]
  <2>1. {i} \in SUBSET PartIndexes /\ \A k \in {i} : Safe(x, g, k)
    BY <1>3 DEF Safe
  <2>2. x.phase \in {"Checking", "Downloading"}
    BY <1>3
  <2>3. y \in TaskSet /\ Sound(y, g, r)
    BY <2>1, <2>2, VerifyKeeps
  <2>4. y.phase = "Downloading" /\ ~y.over
    BY <1>3 DEF TaskSet
  <2>5. PartVerified(x, i, ok) = IF Complete(y.p) THEN Downloaded(y) ELSE y
    BY <1>3 DEF PartVerified
  <2> HIDE DEF y
  <2> QED
    BY <2>3, <2>4, <2>5, DownloadedFrom
<1> QED
  BY <1>1, <1>2, <1>3

\* A queue that holds only hashing, and none, is empty.
LEMMA NothingHashed ==
  ASSUME FileConstants, NEW x \in TaskSet, ~Hashing(x),
         AllOf(x.jobs, {"hash"}), AllOf(x.ended, {"hash"})
  PROVE  Values(x.jobs) = {} /\ Values(x.ended) = {}
BY DEF Hashing, AllOf, Values

\* The completions of checkAll().
LEMMA PartCheckedKeeps ==
  ASSUME FileConstants,
         NEW x \in TaskSet, NEW g \in FileSet, NEW r \in RecordSet \cup {NoRecord},
         Sound(x, g, r), NEW i \in PartIndexes, NEW ok \in BOOLEAN, ~x.over,
         x.phase = "Checking", ok => RightIn(g, i)
  PROVE  PartChecked(x, i, ok) \in TaskSet /\ Sound(PartChecked(x, i, ok), g, r)
<1> DEFINE l == IF ok THEN x.local \cup {i} ELSE x.local
           v == [x EXCEPT !.p = IF ok THEN VerifyParts(@, {i}) ELSE @]
           k == [x EXCEPT !.local = l]
<1>1. AllOf(x.jobs, {"hash"}) /\ AllOf(x.ended, {"hash"})
  BY DEF Sound, Queue
<1>2. /\ x.p.claims = {} /\ ~x.unchecked /\ \A n \in x.p.verified : Filled(x.p, n)
      /\ x.waiting = {}
  BY DEF Sound, Progress
<1>3. \A n : Clean(x.jobs, n)
  BY <1>1 DEF AllOf, Clean, Wrong
<1>4. v \in TaskSet /\ Sound(v, g, r)
  <2>1. CASE ok
    <3>1. {i} \in SUBSET PartIndexes /\ \A n \in {i} : Safe(x, g, n)
      BY <1>3, <2>1 DEF Safe
    <3>2. x.phase \in {"Checking", "Downloading"}
      OBVIOUS
    <3> DEFINE w == [x EXCEPT !.p = VerifyParts(@, {i})]
    <3>3. w \in TaskSet /\ Sound(w, g, r)
      BY <3>1, <3>2, VerifyKeeps
    <3>4. v = w
      BY <2>1
    <3> QED
      BY <3>3, <3>4
  <2>2. CASE ~ok
    <3>1. v = x
      BY <2>2 DEF TaskSet
    <3> QED
      BY <3>1
  <2> QED
    BY <2>1, <2>2
<1>5. l \in SUBSET PartIndexes /\ \A n \in l : RightIn(g, n)
  <2>1. x.local \in SUBSET PartIndexes /\ \A n \in x.local : RightIn(g, n)
    BY DEF TaskSet, Sound, Verified
  <2> QED
    BY <2>1
<1> HIDE DEF l
<1>6. /\ k \in TaskSet /\ k.jobs = x.jobs /\ k.ended = x.ended
      /\ k.phase = x.phase /\ k.over = x.over /\ k.stopping = x.stopping
      /\ k.outcome = x.outcome /\ k.opened = x.opened /\ k.path = x.path /\ k.p = x.p
      /\ k.waiting = x.waiting /\ k.unchecked = x.unchecked /\ k.local = l
      /\ k.hashes = x.hashes
  BY <1>5 DEF TaskSet
<1>7. CASE ~NeedsHashSet(x) /\ Hashing(x)
  BY <1>4, <1>7 DEF PartChecked
<1>8. CASE ~NeedsHashSet(x) /\ ~Hashing(x)
  <2>1. /\ v.jobs = x.jobs /\ v.ended = x.ended /\ v.phase = x.phase /\ v.over = x.over
        /\ v.unchecked = x.unchecked /\ v.waiting = x.waiting
    BY DEF TaskSet
  <2>2. PartChecked(x, i, ok) = RunFile(v)
    BY <1>8 DEF PartChecked
  <2> HIDE DEF v
  <2>3. Values(v.jobs) = {} /\ Values(v.ended) = {}
    BY <1>1, <1>8, <2>1, NothingHashed
  <2>4. /\ v.phase \in {"Opening", "Checking"} /\ ~v.over /\ v.waiting = {} /\ ~v.unchecked
    BY <1>2, <1>8, <2>1
  <2>5. v.p.claims = {} /\ \A n \in v.p.verified : Filled(v.p, n)
    BY <1>4, <2>1, Zenon DEF Sound, Progress
  <2>6. Queue(v) /\ Verified(v, g) /\ Recorded(v, g, r)
    BY <1>4 DEF Sound
  <2> QED
    BY <1>4, <2>2, <2>3, <2>4, <2>5, <2>6, RunKeeps, ZenonT(30)
<1>9. CASE NeedsHashSet(x) /\ Hashing(x)
  <2>1. PartChecked(x, i, ok) = k
    BY <1>9 DEF PartChecked, l
  <2> HIDE DEF k
  <2>2. Queue(k)
    BY <1>6 DEF Sound, Queue
  <2>3. Progress(k)
    BY <1>6, ZenonT(30) DEF Sound, Progress, NeedsHashSet
  <2>4. Verified(k, g)
    BY <1>5, <1>6, ZenonT(30) DEF Sound, Verified, Safe
  <2>5. Recorded(k, g, r)
    BY <1>6 DEF Sound, Recorded
  <2> QED
    BY <1>6, <2>1, <2>2, <2>3, <2>4, <2>5 DEF Sound
<1>10. CASE NeedsHashSet(x) /\ ~Hashing(x) /\ l = PartIndexes
  <2> DEFINE w == [k EXCEPT !.hashes = TRUE, !.local = {},
                            !.p = [@ EXCEPT !.verified = PartIndexes, !.received = Offsets]]
  <2>1. PartChecked(x, i, ok) = RunFile(w)
    BY <1>6, <1>10 DEF PartChecked, l
  <2>2. w.p.verified = PartIndexes /\ w.p.received = Offsets /\ w.p.claims = {} /\ w.p \in PartsSet
    BY <1>2, <1>6, Zenon DEF TaskSet, PartsSet
  <2>3. /\ w \in TaskSet /\ w.jobs = x.jobs /\ w.ended = x.ended
        /\ w.phase = x.phase /\ w.over = x.over /\ w.stopping = x.stopping
        /\ w.outcome = x.outcome /\ w.opened = x.opened /\ w.path = x.path
        /\ w.waiting = x.waiting /\ w.unchecked = x.unchecked /\ w.local = {}
    BY <1>6, <2>2, ZenonT(30) DEF TaskSet
  <2> HIDE DEF w, k
  <2>4. Values(w.jobs) = {} /\ Values(w.ended) = {}
    BY <1>1, <1>10, <2>3, NothingHashed
  <2>5. Queue(w)
    BY <2>3 DEF Sound, Queue
  <2>6. Verified(w, g)
    BY <1>3, <1>5, <1>10, <2>2, <2>3, <2>4, ZenonT(30) DEF Verified, Safe
  <2>7. Recorded(w, g, r)
    <3>1. x.p.verified \subseteq w.p.verified
      BY <2>2, ZenonT(30) DEF TaskSet, PartsSet
    <3> QED
      BY <2>3, <2>4, <3>1, ZenonT(30) DEF Sound, Recorded
  <2>8. \A n \in w.p.verified : Filled(w.p, n)
    BY <2>2 DEF Filled, Part
  <2>9. /\ w.phase \in {"Opening", "Checking"} /\ ~w.over /\ ~w.unchecked
    BY <1>2, <2>3
  <2>10. w.waiting = {}
    BY <1>2, <2>3
  <2>11. RunFile(w) \in TaskSet /\ Sound(RunFile(w), g, r)
    BY <2>2, <2>3, <2>4, <2>5, <2>6, <2>7, <2>8, <2>9, <2>10, RunKeeps, ZenonT(30)
  <2> QED
    BY <2>1, <2>11
<1>11. CASE NeedsHashSet(x) /\ ~Hashing(x) /\ l # PartIndexes
  <2> DEFINE w == [k EXCEPT !.unchecked = TRUE]
  <2>1. PartChecked(x, i, ok) = RunFile(w)
    BY <1>6, <1>11 DEF PartChecked, l
  <2>2. /\ w \in TaskSet /\ w.jobs = x.jobs /\ w.ended = x.ended
        /\ w.phase = x.phase /\ w.over = x.over /\ w.stopping = x.stopping
        /\ w.outcome = x.outcome /\ w.opened = x.opened /\ w.path = x.path /\ w.p = x.p
        /\ w.waiting = x.waiting /\ w.unchecked /\ w.local = l
        /\ w.hashes = x.hashes
    BY <1>6, ZenonT(30) DEF TaskSet
  <2> HIDE DEF w, k
  <2>3. Values(w.jobs) = {} /\ Values(w.ended) = {}
    BY <1>1, <1>11, <2>2, NothingHashed, Zenon
  <2>4. Queue(w)
    BY <2>2, ZenonT(30) DEF Sound, Queue
  <2>5. Verified(w, g)
    BY <1>5, <2>2, ZenonT(30) DEF Sound, Verified, Safe
  <2>6. Recorded(w, g, r)
    BY <2>2, ZenonT(30) DEF Sound, Recorded
  <2>7. NeedsHashSet(w)
    BY <1>11, <2>2 DEF NeedsHashSet
  <2>8. /\ w.phase \in {"Opening", "Checking"} /\ ~w.over /\ w.p.claims = {}
        /\ \A n \in w.p.verified : Filled(w.p, n)
        /\ \A n \in w.local : RightIn(g, n)
    BY <1>2, <1>5, <2>2, ZenonT(30)
  <2>9. RunFile(w) \in TaskSet /\ Sound(RunFile(w), g, r)
    BY <1>2, <2>2, <2>3, <2>4, <2>5, <2>6, <2>7, <2>8, RunKeeps, ZenonT(30)
  <2> QED
    BY <2>1, <2>9
<1> QED
  BY <1>7, <1>8, <1>9, <1>10, <1>11

\* opened(): the file is checked, or the download runs.
LEMMA OpenedKeeps ==
  ASSUME FileConstants,
         NEW x \in TaskSet, NEW g \in FileSet, NEW r \in RecordSet \cup {NoRecord},
         Sound(x, g, r), NEW e, Taken(x, g, e), e.kind = "open", ~x.over
  PROVE  Opened(x, e.job, e.error) \in TaskSet /\ Sound(Opened(x, e.job, e.error), g, r)
<1>1. x.jobs = <<>> /\ x.ended = <<>> /\ Values(<<>>) = {}
  BY FewValues DEF Taken
<1>2. CASE x.phase # "Opening"
  BY <1>2, CloseKeeps DEF Opened
<1>3. CASE x.phase = "Opening" /\ e.error
  <2>1. FinishFile(x, "Fail") \in TaskSet /\ Sound(FinishFile(x, "Fail"), g, r)
    BY FinishKeeps
  <2> QED
    BY <1>3, <2>1 DEF Opened
<1>4. CASE x.phase = "Opening" /\ ~e.error /\ e.job.check
  <2> DEFINE js == <<>> \o HashJobs(PartIndexes)
             y == CheckAll([x EXCEPT !.opened = TRUE])
  <2>1. /\ HashJobs(PartIndexes) \in Seq(Job)
        /\ \A j \in Values(HashJobs(PartIndexes)) : j.kind = "hash"
    BY HashJobsFacts
  <2>2. <<>> \in Seq(Job) /\ Ordered(<<>>)
    BY FewValues DEF Ordered
  <2>3. js \in Seq(Job) /\ \A j \in Values(js) : j.kind = "hash"
    <3>1. \A h \in Seq(Job) : <<>> \o h = h
      OBVIOUS
    <3>2. js = HashJobs(PartIndexes)
      BY <2>1, <3>1
    <3> HIDE DEF js
    <3> QED
      BY <2>1, <3>2
  <2>4. Ordered(js)
    BY <2>1, <2>2, OrderedConcat, Zenon
  <2>5. y = [x EXCEPT !.opened = TRUE, !.phase = "Checking", !.local = {}, !.jobs = js]
    BY <1>1, Zenon DEF CheckAll, TaskSet
  <2> HIDE DEF js
  <2>6. /\ y \in TaskSet /\ y.jobs = js /\ y.ended = <<>>
        /\ y.phase = "Checking" /\ y.over = x.over /\ y.stopping = x.stopping
        /\ y.outcome = x.outcome /\ y.opened /\ y.path = x.path /\ y.p = x.p
        /\ y.waiting = x.waiting /\ y.unchecked = x.unchecked /\ y.local = {}
        /\ y.hashes = x.hashes
    BY <1>1, <2>3, <2>5, ZenonT(30) DEF TaskSet, Phases
  <2>7. Opened(x, e.job, e.error) = y
    BY <1>4 DEF Opened
  <2> HIDE DEF y
  <2>8. x.waiting = {} /\ g.size = "whole"
    BY <1>4 DEF Taken
  <2>9. \A i : Clean(js, i)
    BY <2>3 DEF Clean, Wrong
  <2>10. Queue(y)
    BY <1>1, <2>3, <2>4, <2>6 DEF Queue, AllOf
  <2>11. Progress(y)
    BY <1>1, <1>4, <2>3, <2>6, <2>8, ZenonT(30) DEF Sound, Progress
  <2>12. Verified(y, g)
    BY <1>1, <1>4, <2>6, <2>9, ZenonT(30) DEF Sound, Verified, Safe
  <2>13. Recorded(y, g, r)
    BY <1>1, <2>3, <2>6, <2>8 DEF Sound, Recorded
  <2> QED
    BY <2>6, <2>7, <2>10, <2>11, <2>12, <2>13 DEF Sound
<1>5. CASE x.phase = "Opening" /\ ~e.error /\ ~e.job.check
  <2> DEFINE y == [x EXCEPT !.opened = TRUE, !.waiting = {}]
  <2>1. /\ y \in TaskSet /\ y.jobs = x.jobs /\ y.ended = x.ended
        /\ y.phase = x.phase /\ y.over = x.over /\ y.stopping = x.stopping
        /\ y.outcome = x.outcome /\ y.opened /\ y.path = x.path /\ y.p = x.p
        /\ y.waiting = {} /\ y.unchecked = x.unchecked /\ y.local = x.local
        /\ y.hashes = x.hashes
    BY ZenonT(30) DEF TaskSet
  <2>2. Opened(x, e.job, e.error) = VerifyFilled(RunFile(y), x.waiting)
    BY <1>5 DEF Opened
  <2> HIDE DEF y
  <2>3. g.size = "whole"
    BY <1>5 DEF Taken
  <2>4. Queue(y)
    BY <2>1, ZenonT(30) DEF Sound, Queue
  <2>5. Verified(y, g)
    BY <2>1, ZenonT(30) DEF Sound, Verified, Safe
  <2>6. Recorded(y, g, r)
    BY <2>1, <2>3, ZenonT(30) DEF Sound, Recorded
  <2>7. /\ \A i \in y.p.verified : Filled(y.p, i)
        /\ ~y.unchecked /\ y.p.claims = {}
    BY <1>5, <2>1, ZenonT(30) DEF Sound, Progress
  <2>8. /\ Values(y.jobs) = {} /\ Values(y.ended) = {} /\ ~y.over
        /\ y.phase \in {"Opening", "Checking"}
    BY <1>1, <1>5, <2>1
  <2>9. RunFile(y) \in TaskSet /\ Sound(RunFile(y), g, r)
    BY <2>1, <2>4, <2>5, <2>6, <2>7, <2>8, RunKeeps, ZenonT(30)
  <2>10. RunFile(y).phase \in {"Downloading", "Sharing"}
    BY <2>1 DEF RunFile, Downloaded, Enqueue, TaskSet
  <2>11. x.waiting \in SUBSET PartIndexes
    BY DEF TaskSet
  <2> QED
    BY <2>2, <2>9, <2>10, <2>11, VerifyFilledKeeps
<1> QED
  BY <1>2, <1>3, <1>4, <1>5

\* The end of quiesce().
LEMMA ClosedKeeps ==
  ASSUME FileConstants,
         NEW x \in TaskSet, NEW g \in FileSet, NEW r \in RecordSet \cup {NoRecord},
         Sound(x, g, r), NEW e, Taken(x, g, e), e.kind = "close"
  PROVE  /\ Closed(x) \in TaskSet /\ Sound(Closed(x), g, r)
         /\ \A i \in Closed(x).p.verified : RightIn(g, i)
<1> DEFINE y == Closed(x)
<1>1. x.jobs = <<>> /\ x.ended = <<>> /\ Values(<<>>) = {}
  BY FewValues, Zenon DEF Taken
<1>2. x.phase = "Closing"
  BY DEF Taken, TaskSet, Phases
<1>3. /\ y \in TaskSet /\ y.jobs = x.jobs /\ y.ended = x.ended
      /\ y.phase = "Idle" /\ y.over = (~x.stopping /\ x.outcome # "Stop")
      /\ y.outcome = x.outcome /\ y.opened = x.opened /\ y.path = x.path /\ y.p = x.p
      /\ y.waiting = x.waiting /\ y.unchecked = x.unchecked /\ y.local = x.local
      /\ y.hashes = x.hashes
  BY ZenonT(30) DEF Closed, TaskSet, Phases
<1> HIDE DEF y
<1>4. Queue(y)
  BY <1>1, <1>3, Zenon DEF Sound, Queue
<1>5. Progress(y)
  BY <1>1, <1>2, <1>3, ZenonT(30) DEF Sound, Progress
<1>6. \A i \in y.p.verified : RightIn(g, i)
  BY <1>2, <1>3, ZenonT(30) DEF Sound, Verified, Safe
<1>7. Verified(y, g)
  <2>1. y.over /\ y.outcome = "Complete" => y.p.verified = PartIndexes
    BY <1>2, <1>3, ZenonT(30) DEF Sound, Progress, Complete
  <2> QED
    BY <1>1, <1>3, <1>6, <2>1, ZenonT(30) DEF Verified
<1>8. Recorded(y, g, r)
  BY <1>3, ZenonT(30) DEF Sound, Recorded
<1> QED
  BY <1>3, <1>4, <1>5, <1>6, <1>7, <1>8 DEF Sound, y

\* checkpoint() of a task that is open.
LEMMA RecordKeeps ==
  ASSUME FileConstants,
         NEW x \in TaskSet, NEW g \in FileSet, NEW r \in RecordSet \cup {NoRecord},
         Sound(x, g, r), Saves(x), \A i \in x.p.verified : RightIn(g, i)
  PROVE  RecordOf(x) \in RecordSet /\ Sound(x, g, RecordOf(x))
<1> DEFINE s == RecordOf(x)
<1>1. s \in RecordSet /\ s.path = x.path /\ s.parts = x.p.verified
  BY DEF RecordOf, RecordSet, TaskSet, PartsSet
<1> HIDE DEF s
<1>2. x.opened /\ x.phase \in {"Downloading", "Sharing", "Idle"}
  BY DEF Saves
<1>3. \A j \in Values(x.jobs) : j.kind # "open"
  BY <1>2, FewValues, ZenonT(30) DEF Sound, Queue, AllOf
<1>4. Recorded(x, g, s)
  BY <1>1, <1>2, <1>3, ZenonT(30) DEF Sound, Recorded
<1> QED
  BY <1>1, <1>4 DEF Sound, s

\* Any completion.
LEMMA EndedKeeps ==
  ASSUME FileConstants,
         NEW x \in TaskSet, NEW g \in FileSet, NEW r \in RecordSet \cup {NoRecord},
         Sound(x, g, r), NEW e, Taken(x, g, e), ~x.over
  PROVE  Ended(x, e) \in TaskSet /\ Sound(Ended(x, e), g, r)
<1>1. e \in End /\ e.kind \in JobKinds /\ e.error \in BOOLEAN /\ e.ok \in BOOLEAN
  BY DEF Taken, End
<1>2. FinishFile(x, "Fail") \in TaskSet /\ Sound(FinishFile(x, "Fail"), g, r)
  BY FinishKeeps
<1>3. CloseFile(x) \in TaskSet /\ Sound(CloseFile(x), g, r)
  BY CloseKeeps
<1>4. CASE e.kind = "open"
  BY <1>4, OpenedKeeps DEF Ended
<1>5. CASE e.kind = "write"
  BY <1>2, <1>3, <1>5 DEF Ended
<1>6. CASE e.kind = "sync"
  BY <1>3, <1>6 DEF Ended
<1>7. CASE e.kind = "close"
  BY <1>7, ClosedKeeps DEF Ended
<1>8. CASE e.kind = "hash"
  <2>1. e.job.part \in PartIndexes
    BY <1>1, <1>8 DEF End, Job
  <2>2. /\ Clean(x.jobs, e.job.part) /\ (e.ok => RightIn(g, e.job.part))
        /\ x.phase = "Downloading" => ~NeedsHashSet(x)
    BY <1>8 DEF Taken
  <2>3. PartVerified(x, e.job.part, e.ok) \in TaskSet
        /\ Sound(PartVerified(x, e.job.part, e.ok), g, r)
    BY <1>1, <2>1, <2>2, PartVerifiedKeeps
  <2>4. x.phase = "Checking" =>
          /\ PartChecked(x, e.job.part, e.ok) \in TaskSet
          /\ Sound(PartChecked(x, e.job.part, e.ok), g, r)
    BY <1>1, <2>1, <2>2, PartCheckedKeeps
  <2> QED
    BY <1>2, <1>3, <1>8, <2>3, <2>4 DEF Ended
<1> QED
  BY <1>1, <1>4, <1>5, <1>6, <1>7, <1>8 DEF JobKinds

-----------------------------------------------------------------------------
(* Data arrives.                                                           *)

\* The least number of a set.
LEMMA LeastElement ==
  ASSUME NEW T \in SUBSET Nat, T # {}
  PROVE  Min(T) \in T /\ \A y \in T : Min(T) <= y
<1> DEFINE R == OpToRel(<, Nat)
<1>1. IsWellFoundedOn(R, Nat)
  BY NatLessThanWellFounded, Zenon
<1>2. R = {ss \in Nat \X Nat : ss[1] < ss[2]}
  BY DEF OpToRel
<1> HIDE DEF R
<1>3. PICK x \in T : \A y \in T : ~(<<y, x>> \in R)
  BY <1>1, WFMin, Zenon
<1>4. ASSUME NEW y \in T PROVE x <= y
  <2>1. ~(<<y, x>> \in R)
    BY <1>3
  <2>2. x \in Nat /\ y \in Nat
    OBVIOUS
  <2>3. ~(y < x)
    BY <2>1, <2>2, <1>2
  <2> QED
    BY <2>2, <2>3
<1>5. \E n \in T : \A y \in T : n <= y
  BY <1>4
<1> QED
  BY <1>5, Zenon DEF Min

\* add() reports a part of the file, or none.
LEMMA FilledByType ==
  ASSUME FileConstants, NEW p, NEW block
  PROVE  FilledBy(p, block) \in SUBSET PartIndexes
<1> DEFINE full == {i \in Touched(block) : i \notin p.verified /\ Filled(p, i)}
<1>1. full \in SUBSET PartIndexes
  BY DEF Touched
<1>2. PartIndexes \in SUBSET Nat
  BY DEF PartIndexes
<1>3. FilledBy(p, block) = IF full = {} THEN {} ELSE {Min(full)}
  BY DEF FilledBy
<1> HIDE DEF full
<1>4. full # {} => Min(full) \in full
  BY <1>1, <1>2, LeastElement
<1> QED
  BY <1>1, <1>3, <1>4

\* receive() of a block, unless it is wrong and comes too late.
LEMMA ReceiveKeeps ==
  ASSUME FileConstants,
         NEW x \in TaskSet, NEW g \in FileSet, NEW r \in RecordSet \cup {NoRecord},
         Sound(x, g, r), x.phase = "Downloading", NEW block \in SUBSET Offsets,
         NEW data \in {"right", "wrong"},
         data = "right" \/ \A i \in Touched(block) : ~Settling(x, i)
  PROVE  ReceiveBlock(x, block, data) \in TaskSet /\ Sound(ReceiveBlock(x, block, data), g, r)
<1> DEFINE w == [kind |-> "write", block |-> block, data |-> data]
           y == Enqueue([x EXCEPT !.p = Add(x.p, block)], w)
<1>1. w \in Job /\ w.kind = "write" /\ w.data = data /\ w.block = block
  BY DEF Job
<1>2. ReceiveBlock(x, block, data) = VerifyFilled(y, FilledBy(Add(x.p, block), block))
  BY DEF ReceiveBlock
<1>3. y = [x EXCEPT !.p = Add(x.p, block), !.jobs = Append(x.jobs, w)]
  BY DEF Enqueue, TaskSet
<1> HIDE DEF w
<1>4. x.jobs \in Seq(Job) /\ x.ended \in Seq(End) /\ x.p.verified \in SUBSET PartIndexes
  BY DEF TaskSet, PartsSet
<1>5. Append(x.jobs, w) \in Seq(Job) /\ Values(Append(x.jobs, w)) = Values(x.jobs) \cup {w}
  BY <1>1, <1>4, AppendValues
<1>6. /\ Add(x.p, block) \in PartsSet /\ Add(x.p, block).claims = x.p.claims
      /\ Add(x.p, block).verified = x.p.verified
      /\ Add(x.p, block).received = x.p.received \cup block
  BY DEF Add, TaskSet, PartsSet
<1>7. /\ y \in TaskSet /\ y.jobs = Append(x.jobs, w) /\ y.ended = x.ended
      /\ y.phase = "Downloading" /\ y.over = x.over /\ y.stopping = x.stopping
      /\ y.outcome = x.outcome /\ y.opened = x.opened /\ y.path = x.path
      /\ y.p = Add(x.p, block)
      /\ y.waiting = x.waiting /\ y.unchecked = x.unchecked /\ y.local = x.local
      /\ y.hashes = x.hashes
  BY <1>3, <1>5, <1>6, ZenonT(30) DEF TaskSet
<1> HIDE DEF y
<1>8. ASSUME NEW i \in PartIndexes, Wrong(w, i) PROVE ~Settling(x, i)
  <2>1. i \in Touched(block) /\ data = "wrong"
    BY <1>1, <1>8 DEF Wrong, Touched
  <2> QED
    BY <2>1
<1>9. \A i \in x.p.verified : ~Wrong(w, i)
  BY <1>4, <1>8 DEF Sound, Progress, Settling
<1>10. \A j \in Values(x.jobs) : j.kind = "hash" => ~Wrong(w, j.part)
  <2>1. ASSUME NEW j \in Values(x.jobs), j.kind = "hash" PROVE ~Wrong(w, j.part)
    <3>1. j \in Job
      BY <1>4 DEF Values
    <3>2. j = HashJob(j.part) /\ j.part \in PartIndexes
      BY <2>1, <3>1 DEF Job, HashJob
    <3>3. Settling(x, j.part)
      BY <3>2 DEF Values, Settling
    <3> QED
      BY <1>8, <3>2, <3>3
  <2> QED
    BY <2>1
<1>11. \A e \in Values(x.ended) : e.kind = "hash" => ~Wrong(w, e.job.part)
  <2>1. ASSUME NEW e \in Values(x.ended), e.kind = "hash" PROVE ~Wrong(w, e.job.part)
    <3>1. e \in End
      BY <1>4 DEF Values
    <3>2. e.job = HashJob(e.job.part) /\ e.job.part \in PartIndexes
      BY <2>1, <3>1 DEF End, Job, HashJob
    <3>3. Settling(x, e.job.part)
      BY <3>2 DEF Values, Settling
    <3> QED
      BY <1>8, <3>2, <3>3
  <2> QED
    BY <2>1
<1>12. \A i : Clean(x.jobs, i) /\ ~Wrong(w, i) => Clean(y.jobs, i)
  BY <1>5, <1>7 DEF Clean
<1>13. Queue(y)
  <2>1. Ordered(y.jobs)
    BY <1>1, <1>4, <1>7, <1>10, OrderedAppend DEF Sound, Queue
  <2>2. AllOf(y.jobs, {"write", "hash", "sync"}) /\ AllOf(y.ended, {"write", "hash", "sync"})
    BY <1>1, <1>5, <1>7 DEF Sound, Queue, AllOf
  <2> QED
    BY <1>7, <2>1, <2>2 DEF Queue, AllOf
<1>14. NeedsHashSet(y) = NeedsHashSet(x)
  BY <1>7 DEF NeedsHashSet
<1>15. Progress(y)
  <2>1. \A i \in y.p.verified : Filled(y.p, i)
    BY <1>6, <1>7 DEF Sound, Progress, Filled
  <2>2. NeedsHashSet(y) => AllOf(y.jobs, {"write", "sync"}) /\ AllOf(y.ended, {"write", "sync"})
    BY <1>1, <1>5, <1>7, <1>14 DEF Sound, Progress, AllOf
  <2>3. \A j \in Values(y.jobs) : j.kind = "open" => j \in Values(x.jobs)
    BY <1>1, <1>5, <1>7
  <2>4. y.p.claims = x.p.claims
    BY <1>6, <1>7
  <2> QED
    BY <1>7, <1>14, <2>1, <2>2, <2>3, <2>4 DEF Sound, Progress
<1>16. Verified(y, g)
  <2>1. \A i \in y.p.verified : Safe(y, g, i)
    BY <1>6, <1>7, <1>9, <1>12 DEF Sound, Verified, Safe
  <2>2. \A e \in Values(y.ended) : e.kind = "hash" =>
          Clean(y.jobs, e.job.part) /\ (e.ok => RightIn(g, e.job.part))
    BY <1>7, <1>11, <1>12 DEF Sound, Verified
  <2>3. ASSUME y.unchecked, NEW i \in y.local, Part(i) \cap y.p.received = {}
        PROVE  Safe(y, g, i)
    <3>1. Part(i) \cap x.p.received = {} /\ Part(i) \cap block = {}
      BY <1>6, <1>7, <2>3
    <3>2. ~Wrong(w, i)
      BY <1>1, <3>1 DEF Wrong
    <3> QED
      BY <1>7, <1>12, <2>3, <3>1, <3>2 DEF Sound, Verified, Safe
  <2> QED
    BY <1>7, <2>1, <2>2, <2>3 DEF Sound, Verified
<1>17. Recorded(y, g, r)
  <2>1. \A j \in Values(y.jobs) : j.kind = "open" => j \in Values(x.jobs)
    BY <1>1, <1>5, <1>7
  <2> QED
    BY <1>6, <1>7, <2>1 DEF Sound, Recorded
<1>18. Sound(y, g, r)
  BY <1>13, <1>15, <1>16, <1>17 DEF Sound
<1>19. FilledBy(Add(x.p, block), block) \in SUBSET PartIndexes
  BY FilledByType
<1> QED
  BY <1>2, <1>7, <1>18, <1>19, VerifyFilledKeeps

\* Claims may go, or come for blocks of one part, while the download runs.
LEMMA ClaimsKeep ==
  ASSUME FileConstants,
         NEW x \in TaskSet, NEW g \in FileSet, NEW r \in RecordSet \cup {NoRecord},
         Sound(x, g, r), NEW claims \in SUBSET ClaimSet,
         x.phase # "Downloading" => claims = {},
         \A c \in claims : c.block \subseteq Part(PartOf(Min(c.block)))
  PROVE  LET y == [x EXCEPT !.p = [@ EXCEPT !.claims = claims]]
         IN  y \in TaskSet /\ Sound(y, g, r)
<1> DEFINE y == [x EXCEPT !.p = [@ EXCEPT !.claims = claims]]
<1>1. /\ y \in TaskSet /\ y.jobs = x.jobs /\ y.ended = x.ended
      /\ y.phase = x.phase /\ y.over = x.over /\ y.stopping = x.stopping
      /\ y.outcome = x.outcome /\ y.opened = x.opened /\ y.path = x.path
      /\ y.p.verified = x.p.verified /\ y.p.received = x.p.received /\ y.p.claims = claims
      /\ y.waiting = x.waiting /\ y.unchecked = x.unchecked /\ y.local = x.local
      /\ y.hashes = x.hashes
  BY ZenonT(30) DEF TaskSet, PartsSet
<1> HIDE DEF y
<1>2. Queue(y)
  BY <1>1 DEF Sound, Queue
<1>3. Progress(y)
  BY <1>1 DEF Sound, Progress, Complete, Filled, NeedsHashSet
<1>4. Verified(y, g)
  BY <1>1 DEF Sound, Verified, Safe
<1>5. Recorded(y, g, r)
  BY <1>1 DEF Sound, Recorded
<1> QED
  BY <1>1, <1>2, <1>3, <1>4, <1>5 DEF Sound, y

=============================================================================

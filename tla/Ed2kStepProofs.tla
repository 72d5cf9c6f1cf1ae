--------------------------- MODULE Ed2kStepProofs ---------------------------
(***************************************************************************)
(* Proofs about Ed2kTask, continued: what a job of the strand and a round  *)
(* of claims do to the invariant of Ed2kLemmas, what the engine sees of a  *)
(* completion, and the first of the steps.                                 *)
(***************************************************************************)
EXTENDS Ed2kLemmas

-----------------------------------------------------------------------------
(* The strand executes a job.                                              *)

\* The completion of a job.
Done(job, g, error) ==
  [kind |-> job.kind, job |-> job,
   ok |-> \A o \in Part(IF job.kind = "hash" THEN job.part ELSE 0) : g.data[o] = "right",
   error |-> error]

Ran(x, g, error) ==
  [x EXCEPT !.jobs = Tail(@), !.ended = Append(@, Done(Head(x.jobs), g, error))]

\* How y follows from x when the job is executed with the completion e.
RanFacts(x, g, error, y, job, e) ==
  /\ y \in TaskSet /\ x.phase # "Idle" /\ job \in Job /\ e \in End
  /\ y.jobs = Tail(x.jobs) /\ Values(x.jobs) = {job} \cup Values(y.jobs)
  /\ Values(y.ended) = {e} \cup Values(x.ended)
  /\ e.kind = job.kind /\ e.job = job /\ e.error = error
  /\ job.kind = "hash" => (e.ok <=> RightIn(g, job.part))
  /\ y.phase = x.phase /\ y.over = x.over /\ y.stopping = x.stopping
  /\ y.outcome = x.outcome /\ y.opened = x.opened /\ y.path = x.path /\ y.p = x.p
  /\ y.waiting = x.waiting /\ y.unchecked = x.unchecked /\ y.local = x.local
  /\ Queue(y) /\ Progress(y)

\* The job moves from one queue to the other.
LEMMA RanQueues ==
  ASSUME FileConstants,
         NEW x \in TaskSet, NEW g \in FileSet, NEW r \in RecordSet \cup {NoRecord},
         Sound(x, g, r), x.jobs # <<>>, NEW error \in BOOLEAN
  PROVE  RanFacts(x, g, error, Ran(x, g, error), Head(x.jobs), Done(Head(x.jobs), g, error))
<1> DEFINE y == Ran(x, g, error)
           job == Head(x.jobs)
           e == Done(job, g, error)
<1>1. x.jobs \in Seq(Job) /\ x.ended \in Seq(End)
  BY DEF TaskSet
<1>2. /\ job \in Job /\ Tail(x.jobs) \in Seq(Job)
      /\ Values(x.jobs) = {job} \cup Values(Tail(x.jobs))
  BY <1>1, TakenValues
<1>3. /\ Ordered(Tail(x.jobs))
      /\ job.kind = "hash" => Clean(Tail(x.jobs), job.part)
  BY <1>1, OrderedTail DEF Sound, Queue
<1> HIDE DEF job
<1>4. e \in End /\ e.kind = job.kind /\ e.job = job /\ e.error = error
  <2>1. job.kind \in JobKinds
    BY <1>2 DEF Job, JobKinds
  <2>2. (\A o \in Part(IF job.kind = "hash" THEN job.part ELSE 0) : g.data[o] = "right") \in BOOLEAN
    OBVIOUS
  <2> QED
    BY <1>2, <2>1, <2>2 DEF Done, End
<1>5. job.kind = "hash" => (e.ok <=> RightIn(g, job.part))
  BY DEF Done, RightIn
<1>6. y = [x EXCEPT !.jobs = Tail(@), !.ended = Append(@, e)]
  BY DEF Ran, job
<1> HIDE DEF e
<1>7. Append(x.ended, e) \in Seq(End) /\ Values(Append(x.ended, e)) = Values(x.ended) \cup {e}
  BY <1>1, <1>4, AppendValues
<1>8. /\ y \in TaskSet /\ y.jobs = Tail(x.jobs) /\ y.ended = Append(x.ended, e)
      /\ y.phase = x.phase /\ y.over = x.over /\ y.stopping = x.stopping
      /\ y.outcome = x.outcome /\ y.opened = x.opened /\ y.path = x.path /\ y.p = x.p
      /\ y.waiting = x.waiting /\ y.unchecked = x.unchecked /\ y.local = x.local
      /\ y.hashes = x.hashes
  BY <1>2, <1>6, <1>7, ZenonT(30) DEF TaskSet
<1> HIDE DEF y
<1>9. x.phase # "Idle"
  BY DEF Sound, Queue
<1>10. /\ job \in Values(x.jobs) /\ \A j \in Values(y.jobs) : j \in Values(x.jobs)
       /\ \A d \in Values(y.ended) : d = e \/ d \in Values(x.ended)
       /\ Values(<<>>) = {}
  BY <1>2, <1>7, <1>8, FewValues
<1>11. Queue(y)
  <2>1. job.kind \in {"open", "close"} => y.jobs = <<>> /\ x.ended = <<>>
    BY <1>8, <1>10 DEF Sound, Queue
  <2>2. /\ y.phase = "Opening" => job.kind = "open"
        /\ y.phase = "Checking" => job.kind = "hash"
        /\ y.phase \in {"Downloading", "Sharing"} => job.kind \in {"write", "hash", "sync"}
    BY <1>8, <1>10 DEF Sound, Queue, AllOf
  <2>3. ~\E j \in Values(y.jobs) : j.kind \in {"open", "close"}
    <3>1. (\E j \in Values(y.jobs) : j.kind \in {"open", "close"}) => y.jobs = <<>>
      BY <1>8, <1>10 DEF Sound, Queue
    <3> QED
      BY <1>10, <3>1
  <2>4. ASSUME NEW d \in Values(y.ended), d.kind \in {"open", "close"}
        PROVE  Tail(y.ended) = <<>> /\ y.jobs = <<>>
    <3>1. d \notin Values(x.ended)
      BY <2>4, <1>10 DEF Sound, Queue
    <3>2. x.ended = <<>> /\ y.jobs = <<>>
      BY <1>4, <1>10, <2>1, <2>4, <3>1
    <3>3. Append(<<>>, e) = <<e>> /\ Tail(<<e>>) = <<>>
      BY <1>4, FewValues
    <3> QED
      BY <1>8, <3>2, <3>3, ZenonT(30)
  <2>5. /\ y.phase = "Opening" => AllOf(y.jobs, {"open"}) /\ AllOf(y.ended, {"open"})
        /\ y.phase = "Checking" => AllOf(y.jobs, {"hash"}) /\ AllOf(y.ended, {"hash"})
        /\ y.phase \in {"Downloading", "Sharing"} =>
             AllOf(y.jobs, {"write", "hash", "sync"}) /\ AllOf(y.ended, {"write", "hash", "sync"})
    BY <1>4, <1>8, <1>10, <2>2 DEF Sound, Queue, AllOf
  <2> QED
    BY <1>3, <1>8, <1>9, <2>3, <2>4, <2>5 DEF Queue
<1>12. Progress(y)
  <2>1. NeedsHashSet(y) = NeedsHashSet(x)
    BY <1>8 DEF NeedsHashSet
  <2>2. y.phase = "Downloading" /\ NeedsHashSet(y) =>
          AllOf(y.jobs, {"write", "sync"}) /\ AllOf(y.ended, {"write", "sync"})
    BY <1>4, <1>8, <1>10, <2>1 DEF Sound, Progress, AllOf
  <2>3. /\ \A j \in Values(y.jobs) : j.kind = "open" /\ j.check => y.waiting = {}
        /\ \A d \in Values(y.ended) : d.kind = "open" /\ d.job.check => y.waiting = {}
    BY <1>4, <1>8, <1>10 DEF Sound, Progress
  <2> QED
    BY <1>8, <2>1, <2>2, <2>3 DEF Sound, Progress
<1> QED
  BY <1>2, <1>4, <1>5, <1>7, <1>8, <1>9, <1>11, <1>12 DEF RanFacts, y, e, job

\* A job that fails, or does not write, leaves the file as it is.
LEMMA RanKeeps ==
  ASSUME FileConstants,
         NEW x \in TaskSet, NEW g \in FileSet, NEW r \in RecordSet \cup {NoRecord},
         Sound(x, g, r), x.jobs # <<>>, NEW error \in BOOLEAN,
         error = TRUE \/ Head(x.jobs).kind \notin {"open", "write"}
  PROVE  Sound(Ran(x, g, error), g, r)
<1> DEFINE y == Ran(x, g, error)
           job == Head(x.jobs)
           e == Done(job, g, error)
<1>0. RanFacts(x, g, error, y, job, e)
  <2>1. error \in BOOLEAN
    OBVIOUS
  <2> QED
    BY <2>1, RanQueues
<1>2. job.kind = "hash" => Clean(Tail(x.jobs), job.part)
  BY OrderedTail DEF Sound, Queue, TaskSet
<1> HIDE DEF y, e, job
<1>1. /\ y \in TaskSet /\ x.phase # "Idle" /\ job \in Job /\ e \in End
      /\ y.jobs = Tail(x.jobs) /\ Values(x.jobs) = {job} \cup Values(y.jobs)
      /\ Values(y.ended) = {e} \cup Values(x.ended)
      /\ e.kind = job.kind /\ e.job = job /\ e.error = error
      /\ job.kind = "hash" => (e.ok <=> RightIn(g, job.part))
      /\ y.phase = x.phase /\ y.over = x.over /\ y.stopping = x.stopping
      /\ y.outcome = x.outcome /\ y.opened = x.opened /\ y.path = x.path /\ y.p = x.p
      /\ y.waiting = x.waiting /\ y.unchecked = x.unchecked /\ y.local = x.local
      /\ Queue(y) /\ Progress(y)
  BY <1>0 DEF RanFacts
<1>3. \A i : Clean(x.jobs, i) => Clean(y.jobs, i)
  BY <1>1 DEF Clean
<1>4. Verified(y, g)
  <2>1. \A d \in Values(y.ended) : d.kind = "hash" =>
          Clean(y.jobs, d.job.part) /\ (d.ok => RightIn(g, d.job.part))
    BY <1>1, <1>2, <1>3 DEF Sound, Verified
  <2> QED
    BY <1>1, <1>3, <2>1 DEF Sound, Verified, Safe
<1>5. Recorded(y, g, r)
  <2>1. \A d \in Values(y.ended) : d.kind = "open" /\ ~d.error => g.size = "whole"
    BY <1>1 DEF Sound, Recorded, job
  <2>2. \A j \in Values(y.jobs) : j \in Values(x.jobs)
    BY <1>1
  <2> QED
    BY <1>1, <2>1, <2>2 DEF Sound, Recorded
<1> QED
  BY <1>1, <1>4, <1>5 DEF Sound, y

\* The time stamp after a write or an open is the one of the record, or it is not.
Touches(r, s) == s = r \/ (r # NoRecord /\ s = [r EXCEPT !.current = FALSE])

LEMMA TouchedRecord ==
  ASSUME NEW r \in RecordSet \cup {NoRecord}, NEW s, Touches(r, s)
  PROVE  /\ s \in RecordSet \cup {NoRecord} /\ (s = NoRecord <=> r = NoRecord)
         /\ s # NoRecord => s.path = r.path /\ s.parts = r.parts /\ (s.current => r.current)
<1>1. CASE s = r
  BY <1>1
<1>2. CASE r # NoRecord /\ s = [r EXCEPT !.current = FALSE]
  <2>1. s \in RecordSet /\ s.path = r.path /\ s.parts = r.parts /\ ~s.current
    BY <1>2, ZenonT(30) DEF RecordSet
  <2>2. s # NoRecord
    BY <2>1 DEF RecordSet, NoRecord, Paths
  <2> QED
    BY <1>2, <2>1, <2>2
<1> QED
  BY <1>1, <1>2 DEF Touches

\* A write keeps what is verified, recorded, hashed or found right: wrong data goes elsewhere.
LEMMA WriteKeeps ==
  ASSUME FileConstants,
         NEW x \in TaskSet, NEW g \in FileSet, NEW r \in RecordSet \cup {NoRecord},
         Sound(x, g, r), x.jobs # <<>>, Head(x.jobs).kind = "write", x.phase # "Idle" => ~x.over,
         NEW s, Touches(r, s)
  PROVE  LET f == Effect(Head(x.jobs), g)
         IN  f \in FileSet /\ f.size = g.size /\ Sound(Ran(x, g, FALSE), f, s)
<1> DEFINE y == Ran(x, g, FALSE)
           job == Head(x.jobs)
           e == Done(job, g, FALSE)
           f == Effect(job, g)
<1>0. RanFacts(x, g, FALSE, y, job, e)
  <2>1. FALSE \in BOOLEAN
    OBVIOUS
  <2> QED
    BY <2>1, RanQueues, ZenonT(30)
<1>2. job.kind = "write"
  OBVIOUS
<1> HIDE DEF y, e, job
<1>1. /\ y \in TaskSet /\ x.phase # "Idle" /\ job \in Job /\ e \in End
      /\ y.jobs = Tail(x.jobs) /\ Values(x.jobs) = {job} \cup Values(y.jobs)
      /\ Values(y.ended) = {e} \cup Values(x.ended)
      /\ e.kind = job.kind /\ e.job = job /\ e.error = FALSE
      /\ job.kind = "hash" => (e.ok <=> RightIn(g, job.part))
      /\ y.phase = x.phase /\ y.over = x.over /\ y.stopping = x.stopping
      /\ y.outcome = x.outcome /\ y.opened = x.opened /\ y.path = x.path /\ y.p = x.p
      /\ y.waiting = x.waiting /\ y.unchecked = x.unchecked /\ y.local = x.local
      /\ Queue(y) /\ Progress(y)
  BY <1>0 DEF RanFacts
<1>3. job.block \in SUBSET Offsets /\ job.data \in {"right", "wrong"}
  BY <1>1, <1>2 DEF Job
<1>4. f = [g EXCEPT !.data = [o \in Offsets |-> IF o \in job.block THEN job.data ELSE @[o]]]
  BY <1>2 DEF Effect
<1>5. /\ f \in FileSet /\ f.size = g.size
      /\ \A o \in Offsets : f.data[o] = IF o \in job.block THEN job.data ELSE g.data[o]
  BY <1>3, <1>4 DEF FileSet, Data
<1> HIDE DEF f
<1>6. \A i : Clean(x.jobs, i) => Clean(y.jobs, i) /\ ~Wrong(job, i)
  BY <1>1 DEF Clean
<1>7. ASSUME NEW i, Clean(x.jobs, i), RightIn(g, i) PROVE RightIn(f, i)
  <2>1. ASSUME NEW o \in Part(i) PROVE f.data[o] = "right"
    <3>1. o \in Offsets /\ g.data[o] = "right"
      BY <1>7 DEF Part, RightIn
    <3>2. o \in job.block => job.data = "right"
      BY <1>2, <1>3, <1>6, <1>7, <2>1 DEF Wrong
    <3> QED
      BY <1>5, <3>1, <3>2
  <2> QED
    BY <2>1 DEF RightIn
<1>8. \A i : Safe(x, g, i) => Safe(y, f, i)
  BY <1>6, <1>7 DEF Safe
<1>9. Verified(y, f)
  <2>1. x.phase # "Checking" /\ ~x.over
    BY <1>1, <1>2, ZenonT(30) DEF Sound, Queue, AllOf
  <2>2. \A i \in y.p.verified : Safe(y, f, i)
    BY <1>1, <1>8, ZenonT(30) DEF Sound, Verified
  <2>3. \A d \in Values(y.ended) : d.kind = "hash" =>
          Clean(y.jobs, d.job.part) /\ (d.ok => RightIn(f, d.job.part))
    BY <1>1, <1>2, <1>6, <1>7 DEF Sound, Verified
  <2>4. y.phase = "Downloading" /\ y.unchecked =>
          \A i \in y.local : Part(i) \cap y.p.received = {} => Safe(y, f, i)
    BY <1>1, <1>8 DEF Sound, Verified
  <2> QED
    BY <1>1, <2>1, <2>2, <2>3, <2>4 DEF Verified
<1>10. Recorded(y, f, s)
  <2>1. /\ (s = NoRecord <=> r = NoRecord)
        /\ s # NoRecord => s.path = r.path /\ s.parts = r.parts /\ (s.current => r.current)
    BY TouchedRecord
  <2>2. s # NoRecord /\ s.current => \A i \in s.parts : i \in x.p.verified /\ RightIn(f, i)
    BY <1>1, <1>8, <2>1, ZenonT(30) DEF Sound, Recorded, Verified, Safe
  <2>3. \A j \in Values(y.jobs) : j \in Values(x.jobs)
    BY <1>1
  <2>4. \A d \in Values(y.ended) : d.kind = "open" => d \in Values(x.ended)
    BY <1>1, <1>2
  <2>5. s # NoRecord => s.path = y.path /\ f.size = "whole"
    BY <1>1, <1>5, <2>1 DEF Sound, Recorded
  <2>6. s # NoRecord /\ s.current =>
          s.parts \subseteq y.p.verified /\ \A i \in s.parts : RightIn(f, i)
    BY <1>1, <2>2
  <2>7. y.opened => f.size = "whole"
    BY <1>1, <1>5 DEF Sound, Recorded
  <2>8. \A j \in Values(y.jobs) : j.kind = "open" =>
          /\ j.truncate => s = NoRecord /\ y.p.verified = {}
          /\ ~j.truncate => f.size # "long"
    BY <1>1, <1>5, <2>1, <2>3 DEF Sound, Recorded
  <2>9. \A d \in Values(y.ended) : d.kind = "open" /\ ~d.error => f.size = "whole"
    BY <1>5, <2>4, ZenonT(30) DEF Sound, Recorded
  <2> QED
    BY <2>5, <2>6, <2>7, <2>8, <2>9 DEF Recorded
<1> QED
  BY <1>1, <1>5, <1>9, <1>10, Zenon DEF Sound, y, f, job

\* An open makes the file whole; it truncates only a file that no record is about.
LEMMA OpenKeeps ==
  ASSUME FileConstants,
         NEW x \in TaskSet, NEW g \in FileSet, NEW r \in RecordSet \cup {NoRecord},
         Sound(x, g, r), x.jobs # <<>>, Head(x.jobs).kind = "open", x.phase # "Idle" => ~x.over,
         NEW s, Touches(r, s)
  PROVE  LET f == Effect(Head(x.jobs), g)
         IN  /\ f \in FileSet /\ f.size = "whole" /\ Sound(Ran(x, g, FALSE), f, s)
             /\ ~Head(x.jobs).truncate => f.data = g.data
<1> DEFINE y == Ran(x, g, FALSE)
           job == Head(x.jobs)
           e == Done(job, g, FALSE)
           f == Effect(job, g)
<1>0. RanFacts(x, g, FALSE, y, job, e)
  <2>1. FALSE \in BOOLEAN
    OBVIOUS
  <2> QED
    BY <2>1, RanQueues, Zenon
<1>2. job.kind = "open"
  OBVIOUS
<1> HIDE DEF y, e, job
<1>1. /\ y \in TaskSet /\ x.phase # "Idle" /\ job \in Job /\ e \in End
      /\ y.jobs = Tail(x.jobs) /\ Values(x.jobs) = {job} \cup Values(y.jobs)
      /\ Values(y.ended) = {e} \cup Values(x.ended)
      /\ e.kind = job.kind /\ e.job = job /\ e.error = FALSE
      /\ job.kind = "hash" => (e.ok <=> RightIn(g, job.part))
      /\ y.phase = x.phase /\ y.over = x.over /\ y.stopping = x.stopping
      /\ y.outcome = x.outcome /\ y.opened = x.opened /\ y.path = x.path /\ y.p = x.p
      /\ y.waiting = x.waiting /\ y.unchecked = x.unchecked /\ y.local = x.local
      /\ Queue(y) /\ Progress(y)
  BY <1>0 DEF RanFacts
<1>3. job.truncate \in BOOLEAN /\ job \in Values(x.jobs)
  BY <1>1, <1>2 DEF Job
<1>4. f = [size |-> IF g.size = "long" /\ ~job.truncate THEN "long" ELSE "whole",
           data |-> IF job.truncate THEN Blank ELSE g.data]
  BY <1>2 DEF Effect
<1>5. /\ job.truncate => r = NoRecord /\ x.p.verified = {}
      /\ ~job.truncate => g.size # "long"
  BY <1>2, <1>3 DEF Sound, Recorded
<1>6. f \in FileSet /\ f.size = "whole" /\ (~job.truncate => f.data = g.data)
  BY <1>3, <1>4, <1>5 DEF FileSet, Data, Blank, Sizes
<1> HIDE DEF f
<1>7. Values(y.jobs) = {} /\ Values(x.ended) = {}
  <2>1. Tail(x.jobs) = <<>> /\ x.ended = <<>>
    BY <1>2, <1>3 DEF Sound, Queue
  <2> QED
    BY <1>1, <2>1, FewValues, ZenonT(30)
<1>8. x.phase \in {"Opening", "Closing"} /\ ~x.over
  BY <1>1, <1>2, <1>3, ZenonT(30) DEF Sound, Queue, AllOf, TaskSet, Phases
<1>9. \A i \in x.p.verified : RightIn(f, i)
  BY <1>1, <1>5, <1>6 DEF Sound, Verified, Safe, RightIn
<1>10. Verified(y, f)
  BY <1>1, <1>2, <1>7, <1>8, <1>9 DEF Verified, Safe, Clean
<1>11. Recorded(y, f, s)
  <2>1. /\ (s = NoRecord <=> r = NoRecord)
        /\ s # NoRecord => s.path = r.path /\ s.parts = r.parts /\ (s.current => r.current)
    BY TouchedRecord
  <2>2. s # NoRecord /\ s.current =>
          s.parts \subseteq y.p.verified /\ \A i \in s.parts : RightIn(f, i)
    BY <1>1, <1>9, <2>1, ZenonT(30) DEF Sound, Recorded
  <2>3. s # NoRecord => s.path = y.path
    BY <1>1, <2>1 DEF Sound, Recorded
  <2> QED
    BY <1>6, <1>7, <2>2, <2>3, ZenonT(30) DEF Recorded
<1> QED
  BY <1>1, <1>6, <1>10, <1>11, ZenonT(30) DEF Sound, y, f, job

-----------------------------------------------------------------------------
(* What the engine sees of a task.                                         *)

\* A step that neither starts nor ends the task, nor stops it.
Runs(x, y) ==
  /\ y.path = x.path /\ y.over = x.over /\ y.stopping = x.stopping
  /\ y.phase # "Idle" /\ y.p.claims \subseteq x.p.claims
  /\ x.phase = "Closing" => y.phase = "Closing" /\ y.outcome = x.outcome
  /\ y.phase = "Closing" => x.phase = "Closing" \/ y.outcome # "Stop"
  /\ y.phase \in {"Opening", "Closing"} =>
       \A j \in Values(y.jobs) : j.kind = "open" => j \in Values(x.jobs)

LEMMA CloseRuns ==
  ASSUME NEW x \in TaskSet, x.phase # "Idle"
  PROVE  /\ Runs(x, CloseFile(x)) /\ CloseFile(x).phase = x.phase
         /\ CloseFile(x).outcome = x.outcome
         /\ \A j \in Values(CloseFile(x).jobs) : j.kind = "open" => j \in Values(x.jobs)
<1>1. CASE x.phase # "Closing" \/ Pending(x)
  BY <1>1 DEF CloseFile, Runs
<1>2. CASE ~(x.phase # "Closing" \/ Pending(x))
  <2> DEFINE c == [kind |-> "close"]
             y == Enqueue(x, c)
  <2>1. x.jobs \in Seq(Job) /\ c \in Job /\ c.kind = "close"
    BY DEF TaskSet, Job
  <2> HIDE DEF c
  <2>2. Append(x.jobs, c) \in Seq(Job) /\ Values(Append(x.jobs, c)) = Values(x.jobs) \cup {c}
    BY <2>1, AppendValues
  <2>3. /\ y.path = x.path /\ y.over = x.over /\ y.stopping = x.stopping /\ y.phase = x.phase
        /\ y.p = x.p /\ y.outcome = x.outcome /\ y.jobs = Append(x.jobs, c)
    BY DEF Enqueue, TaskSet
  <2>4. CloseFile(x) = y
    BY <1>2 DEF CloseFile, c
  <2> HIDE DEF y
  <2>5. \A j \in Values(y.jobs) : j.kind = "open" => j \in Values(x.jobs)
    BY <2>1, <2>2, <2>3
  <2> QED
    BY <1>2, <2>3, <2>4, <2>5, Zenon DEF Runs
<1> QED
  BY <1>1, <1>2

LEMMA FinishRuns ==
  ASSUME NEW x \in TaskSet, x.phase \notin {"Idle", "Closing"},
         NEW outcome \in {"Stop", "Fail", "Complete"}
  PROVE  LET y == FinishFile(x, outcome)
         IN  /\ y.path = x.path /\ y.over = x.over /\ y.stopping = x.stopping
             /\ y.phase = "Closing" /\ y.outcome = outcome /\ y.p.claims = {}
             /\ \A j \in Values(y.jobs) : j.kind = "open" => j \in Values(x.jobs)
<1> DEFINE z == [x EXCEPT !.outcome = outcome, !.phase = "Closing", !.p.claims = {}]
           y == FinishFile(x, outcome)
<1>1. /\ z \in TaskSet /\ z.path = x.path /\ z.over = x.over /\ z.stopping = x.stopping
      /\ z.phase = "Closing" /\ z.outcome = outcome /\ z.p.claims = {} /\ z.jobs = x.jobs
  BY ZenonT(30) DEF TaskSet, PartsSet, Phases
<1>2. y \in {z, CloseFile(z)}
  BY DEF FinishFile
<1> HIDE DEF y, z
<1>3. /\ CloseFile(z).path = z.path /\ CloseFile(z).over = z.over
      /\ CloseFile(z).stopping = z.stopping /\ CloseFile(z).phase = "Closing"
      /\ CloseFile(z).outcome = outcome /\ CloseFile(z).p.claims = {}
      /\ \A j \in Values(CloseFile(z).jobs) : j.kind = "open" => j \in Values(z.jobs)
  BY <1>1, CloseRuns DEF Runs
<1>4. /\ y.path = x.path /\ y.over = x.over /\ y.stopping = x.stopping
      /\ y.phase = "Closing" /\ y.outcome = outcome /\ y.p.claims = {}
      /\ \A j \in Values(y.jobs) : j.kind = "open" => j \in Values(x.jobs)
  BY <1>1, <1>2, <1>3
<1> QED
  BY <1>4 DEF y

\* What a step from a task that is not closing does when it does not close it.
Works(x, y) ==
  /\ y.path = x.path /\ y.over = x.over /\ y.stopping = x.stopping
  /\ y.p.claims \subseteq x.p.claims
  /\ y.phase \in {"Checking", "Downloading", "Sharing"}

LEMMA WorksRuns ==
  ASSUME NEW x, NEW y, Works(x, y), x.phase # "Closing"
  PROVE  Runs(x, y)
BY DEF Works, Runs

LEMMA DownloadedWorks ==
  ASSUME NEW x \in TaskSet
  PROVE  Works(x, Downloaded(x))
BY DEF Works, Downloaded, Enqueue, TaskSet, PartsSet

LEMMA RunWorks ==
  ASSUME NEW x \in TaskSet
  PROVE  Works(x, RunFile(x))
<1>1. CASE Complete(x.p)
  BY <1>1, DownloadedWorks DEF RunFile
<1>2. CASE ~Complete(x.p)
  BY <1>2 DEF RunFile, Works, TaskSet
<1> QED
  BY <1>1, <1>2

LEMMA VerifyFilledSame ==
  ASSUME NEW x \in TaskSet, NEW parts
  PROVE  LET y == VerifyFilled(x, parts)
         IN  /\ y.path = x.path /\ y.over = x.over /\ y.stopping = x.stopping
             /\ y.p = x.p /\ y.phase = x.phase
BY DEF VerifyFilled, TaskSet

LEMMA AcceptWorks ==
  ASSUME FileConstants, NEW x \in TaskSet, NeedsHashSet(x), x.phase = "Downloading"
  PROVE  Works(x, AcceptHashSet(x))
<1> DEFINE h == [x EXCEPT !.hashes = TRUE, !.waiting = {}]
           y == VerifyFilled(h, x.waiting)
           kept == {i \in x.local : Part(i) \cap x.p.received = {}}
           z == [y EXCEPT !.unchecked = FALSE, !.local = {}, !.p = VerifyParts(@, kept)]
           js == x.jobs \o HashJobs(x.waiting)
<1>1. /\ h \in TaskSet /\ h.path = x.path /\ h.over = x.over /\ h.stopping = x.stopping
      /\ h.p = x.p /\ h.phase = x.phase /\ ~NeedsHashSet(h) /\ h.jobs = x.jobs
  BY Zenon DEF TaskSet, NeedsHashSet, Multipart
<1>2. js \in Seq(Job)
  <2>1. x.waiting \in SUBSET PartIndexes /\ x.jobs \in Seq(Job)
    BY DEF TaskSet
  <2>2. HashJobs(x.waiting) \in Seq(Job)
    BY <2>1, HashJobsFacts
  <2> QED
    BY <2>1, <2>2, ConcatValues
<1>3. y = [h EXCEPT !.jobs = js]
  BY <1>1 DEF VerifyFilled
<1>4. AcceptHashSet(x) = IF ~x.unchecked THEN y
                         ELSE IF Complete(z.p) /\ z.phase = "Downloading" THEN Downloaded(z) ELSE z
  BY DEF AcceptHashSet
<1> HIDE DEF h, js
<1>5. /\ y \in TaskSet /\ y.path = x.path /\ y.over = x.over /\ y.stopping = x.stopping
      /\ y.p = x.p /\ y.phase = "Downloading"
  BY <1>1, <1>2, <1>3, ZenonT(30) DEF TaskSet
<1> HIDE DEF y
<1>6. kept \in SUBSET PartIndexes
  BY DEF TaskSet
<1> HIDE DEF kept
<1>7. VerifyParts(y.p, kept) \in PartsSet /\ VerifyParts(y.p, kept).claims = x.p.claims
  <2>1. UNION {Part(i) : i \in kept} \in SUBSET Offsets
    BY DEF Part
  <2> QED
    BY <1>5, <1>6, <2>1, Zenon DEF VerifyParts, TaskSet, PartsSet
<1>8. /\ z \in TaskSet /\ z.path = x.path /\ z.over = x.over /\ z.stopping = x.stopping
      /\ z.p.claims = x.p.claims /\ z.phase = "Downloading"
  BY <1>5, <1>7, ZenonT(30) DEF TaskSet
<1> HIDE DEF z
<1>9. Works(x, y) /\ Works(x, z)
  BY <1>5, <1>8 DEF Works
<1>10. Works(z, Downloaded(z))
  BY <1>8, DownloadedWorks
<1>11. Works(x, Downloaded(z))
  BY <1>8, <1>10 DEF Works
<1> QED
  BY <1>4, <1>9, <1>11

\* Another queue of jobs.
LEMMA WithJobs ==
  \A x \in TaskSet : \A js \in Seq(Job) : [x EXCEPT !.jobs = js] \in TaskSet
BY DEF TaskSet

\* Every completion but that of the close.
LEMMA EndedRuns ==
  ASSUME FileConstants, NEW x \in TaskSet, NEW g, NEW e, Taken(x, g, e), e.kind # "close"
  PROVE  Runs(x, Ended(x, e))
<1>1. e.kind \in {"open", "write", "hash", "sync"} /\ x.phase \in Phases /\ x.phase # "Idle"
  BY DEF Taken, End, JobKinds, TaskSet
<1>2. Runs(x, CloseFile(x))
  BY <1>1, CloseRuns
<1>3. x.phase # "Closing" => Runs(x, FinishFile(x, "Fail"))
  <2>1. ASSUME x.phase # "Closing" PROVE Runs(x, FinishFile(x, "Fail"))
    <3> DEFINE y == FinishFile(x, "Fail")
    <3>1. /\ y.path = x.path /\ y.over = x.over /\ y.stopping = x.stopping
          /\ y.phase = "Closing" /\ y.outcome = "Fail" /\ y.p.claims = {}
          /\ \A j \in Values(y.jobs) : j.kind = "open" => j \in Values(x.jobs)
      BY <1>1, <2>1, FinishRuns
    <3> HIDE DEF y
    <3>2. Runs(x, y)
      BY <2>1, <3>1 DEF Runs
    <3> QED
      BY <3>2 DEF y
  <2> QED
    BY <2>1
<1>4. CASE e.kind \in {"write", "sync"}
  BY <1>2, <1>3, <1>4 DEF Ended
<1>5. CASE e.kind = "open"
  <2>1. CASE x.phase # "Opening" \/ e.error
    BY <1>2, <1>3, <1>5, <2>1 DEF Ended, Opened
  <2>2. CASE x.phase = "Opening" /\ ~e.error /\ e.job.check
    <3> DEFINE y == CheckAll([x EXCEPT !.opened = TRUE])
    <3>1. Works(x, y)
      BY DEF CheckAll, Works, TaskSet
    <3>2. Ended(x, e) = y
      BY <1>5, <2>2 DEF Ended, Opened
    <3> HIDE DEF y
    <3> QED
      BY <2>2, <3>1, <3>2, WorksRuns
  <2>3. CASE x.phase = "Opening" /\ ~e.error /\ ~e.job.check
    <3> DEFINE y == [x EXCEPT !.opened = TRUE, !.waiting = {}]
               z == VerifyFilled(RunFile(y), x.waiting)
    <3>1. /\ y \in TaskSet /\ y.path = x.path /\ y.over = x.over /\ y.stopping = x.stopping
          /\ y.p = x.p
      BY Zenon DEF TaskSet
    <3>2. Ended(x, e) = z
      BY <1>5, <2>3 DEF Ended, Opened
    <3> HIDE DEF y
    <3>3. Works(y, RunFile(y))
      BY <3>1, RunWorks
    <3>4. RunFile(y) \in TaskSet
      <4>1. CASE Complete(y.p)
        <5>1. [kind |-> "sync"] \in Job /\ y.jobs \in Seq(Job)
          BY <3>1 DEF Job, TaskSet
        <5>2. Append(y.jobs, [kind |-> "sync"]) \in Seq(Job)
          BY <5>1
        <5> DEFINE c == [y EXCEPT !.phase = "Sharing", !.p.claims = {}]
        <5>3. c \in TaskSet /\ c.jobs = y.jobs
          BY <3>1, Zenon DEF TaskSet, PartsSet, Phases
        <5>4. RunFile(y) = [c EXCEPT !.jobs = Append(c.jobs, [kind |-> "sync"])]
          BY <4>1 DEF RunFile, Downloaded, Enqueue
        <5> HIDE DEF c
        <5> QED
          BY <5>2, <5>3, <5>4, WithJobs
      <4>2. CASE ~Complete(y.p)
        BY <3>1, <4>2, ZenonT(30) DEF RunFile, TaskSet, Phases
      <4> QED
        BY <4>1, <4>2
    <3>5. /\ z.path = RunFile(y).path /\ z.over = RunFile(y).over
          /\ z.stopping = RunFile(y).stopping /\ z.p = RunFile(y).p /\ z.phase = RunFile(y).phase
      BY <3>4, VerifyFilledSame
    <3> HIDE DEF z
    <3>6. Works(x, z)
      BY <3>1, <3>3, <3>5 DEF Works
    <3> QED
      BY <2>3, <3>2, <3>6, WorksRuns
  <2> QED
    BY <2>1, <2>2, <2>3
<1>6. CASE e.kind = "hash"
  <2>1. CASE x.phase = "Closing" \/ e.error
    BY <1>2, <1>3, <1>6, <2>1 DEF Ended
  <2> DEFINE i == e.job.part
             v == [x EXCEPT !.p = VerifyParts(@, {i})]
  <2>2. i \in PartIndexes
    BY <1>6 DEF Taken, End, Job
  <2> HIDE DEF i
  <2>3. VerifyParts(x.p, {i}) \in PartsSet /\ VerifyParts(x.p, {i}).claims = x.p.claims
    <3>1. UNION {Part(k) : k \in {i}} \in SUBSET Offsets
      BY DEF Part
    <3> QED
      BY <2>2, <3>1, Zenon DEF VerifyParts, TaskSet, PartsSet
  <2>4. /\ v \in TaskSet /\ v.path = x.path /\ v.over = x.over /\ v.stopping = x.stopping
        /\ v.p.claims = x.p.claims /\ v.phase = x.phase
    BY <2>3, Zenon DEF TaskSet
  <2>5. CASE x.phase = "Checking" /\ ~e.error
    <3> DEFINE k == [x EXCEPT !.local = IF e.ok THEN @ \cup {i} ELSE @]
               w == [k EXCEPT !.hashes = TRUE, !.local = {},
                              !.p = [@ EXCEPT !.verified = PartIndexes, !.received = Offsets]]
               u == [k EXCEPT !.unchecked = TRUE]
               n == [x EXCEPT !.p = IF e.ok THEN VerifyParts(@, {i}) ELSE @]
    <3>1. n = v \/ n = x
      BY DEF TaskSet
    <3>2. /\ k \in TaskSet /\ k.path = x.path /\ k.over = x.over /\ k.stopping = x.stopping
          /\ k.p = x.p /\ k.phase = x.phase
      BY <2>2 DEF TaskSet
    <3>3. /\ u \in TaskSet /\ u.path = x.path /\ u.over = x.over /\ u.stopping = x.stopping
          /\ u.p = x.p /\ u.phase = x.phase
      BY <3>2, ZenonT(30) DEF TaskSet
    <3>4. /\ w \in TaskSet /\ w.path = x.path /\ w.over = x.over /\ w.stopping = x.stopping
          /\ w.p.claims = x.p.claims /\ w.phase = x.phase
      BY <3>2, ZenonT(30) DEF TaskSet, PartsSet
    <3>5. Ended(x, e) \in {k, n, RunFile(n), RunFile(w), RunFile(u)}
      BY <1>6, <2>5 DEF Ended, PartChecked, i
    <3> HIDE DEF k, u, w, n, v
    <3>6. /\ n \in TaskSet /\ n.path = x.path /\ n.over = x.over /\ n.stopping = x.stopping
          /\ n.p.claims = x.p.claims /\ n.phase = x.phase
      BY <2>4, <3>1
    <3>7. Works(n, RunFile(n)) /\ Works(w, RunFile(w)) /\ Works(u, RunFile(u))
      BY <3>3, <3>4, <3>6, RunWorks
    <3>8. \A y \in {k, n, RunFile(n), RunFile(w), RunFile(u)} : Works(x, y)
      BY <2>5, <3>2, <3>3, <3>4, <3>6, <3>7 DEF Works
    <3> QED
      BY <2>5, <3>5, <3>8, WorksRuns
  <2>6. CASE x.phase \in {"Downloading", "Sharing"} /\ ~e.error
    <3> DEFINE j == [x EXCEPT !.p = RejectPart(@, i)]
    <3>1. Ended(x, e) \in {x, j, v, Downloaded(v)}
      BY <1>6, <2>6 DEF Ended, PartVerified, i
    <3>2. Works(x, j)
      BY <2>6, ZenonT(30) DEF Works, RejectPart, TaskSet, PartsSet
    <3>3. Works(v, Downloaded(v))
      BY <2>4, DownloadedWorks
    <3> HIDE DEF v, j
    <3>4. \A y \in {x, j, v, Downloaded(v)} : Works(x, y)
      BY <2>4, <2>6, <3>2, <3>3 DEF Works
    <3> QED
      BY <2>6, <3>1, <3>4, WorksRuns
  <2> QED
    BY <1>1, <1>6, <2>1, <2>5, <2>6 DEF Taken, Phases
<1> QED
  BY <1>1, <1>4, <1>5, <1>6

-----------------------------------------------------------------------------
(* What a source claims.                                                   *)

\* Induction, with the claim as a set of numbers.
LEMMA EveryNumber ==
  ASSUME NEW S, 0 \in S, \A n \in Nat : n \in S => n + 1 \in S
  PROVE  \A n \in Nat : n \in S
<1>1. SUFFICES ASSUME Nat \ S # {} PROVE FALSE
  OBVIOUS
<1> DEFINE n == Min(Nat \ S)
<1>2. n \in Nat \ S /\ \A m \in Nat \ S : n <= m
  BY <1>1, LeastElement
<1> HIDE DEF n
<1>3. n - 1 \in Nat
  BY <1>2
<1>4. n - 1 \in S
  BY <1>2, <1>3
<1> QED
  BY <1>2, <1>3, <1>4

\* The state after k blocks, of a round of count blocks.
After(f, p, owner, order, count, endgame) ==
  f = [k \in 0 .. count |->
         IF k = 0 THEN [p |-> p, out |-> <<>>] ELSE ClaimNext(f[k - 1], owner, order, endgame)]

\* The round is well defined.
LEMMA RoundExists ==
  ASSUME NEW p, NEW owner, NEW order, NEW endgame, NEW count \in Nat
  PROVE  \E f : After(f, p, owner, order, count, endgame)
<1> DEFINE S == {n \in Nat : \E f : After(f, p, owner, order, n, endgame)}
<1>1. 0 \in S
  <2> DEFINE f == [k \in 0 .. 0 |-> [p |-> p, out |-> <<>>]]
  <2>1. f = [k \in 0 .. 0 |-> IF k = 0 THEN [p |-> p, out |-> <<>>]
                               ELSE ClaimNext(f[k - 1], owner, order, endgame)]
    <3>1. \A k \in 0 .. 0 : k = 0
      OBVIOUS
    <3> QED
      BY <3>1
  <2>2. After(f, p, owner, order, 0, endgame)
    BY <2>1 DEF After
  <2> QED
    BY <2>2
<1>2. ASSUME NEW n \in Nat, n \in S PROVE n + 1 \in S
  <2>1. PICK f : After(f, p, owner, order, n, endgame)
    BY <1>2
  <2> DEFINE Next(h, k) == IF k = 0 THEN [p |-> p, out |-> <<>>]
                           ELSE ClaimNext(h[k - 1], owner, order, endgame)
             g == [k \in 0 .. n + 1 |-> Next(f, k)]
  <2>2. f = [k \in 0 .. n |-> Next(f, k)]
    BY <2>1 DEF After
  <2>3. ASSUME NEW k \in 0 .. n + 1 PROVE Next(g, k) = Next(f, k)
    <3>1. CASE k = 0
      BY <3>1
    <3>2. CASE k # 0
      <4>1. k - 1 \in 0 .. n /\ k - 1 \in 0 .. n + 1
        BY <3>2
      <4> HIDE DEF Next
      <4>2. g[k - 1] = Next(f, k - 1) /\ f[k - 1] = Next(f, k - 1)
        BY <2>2, <4>1
      <4> QED
        BY <3>2, <4>2 DEF Next
    <3> QED
      BY <3>1, <3>2
  <2> HIDE DEF Next
  <2>4. g = [k \in 0 .. n + 1 |-> Next(g, k)]
    BY <2>3
  <2> HIDE DEF g
  <2>5. After(g, p, owner, order, n + 1, endgame)
    BY <2>4 DEF After, Next
  <2> QED
    BY <2>5
<1> HIDE DEF S
<1>3. count \in S
  BY <1>1, <1>2, EveryNumber
<1> QED
  BY <1>3 DEF S

\* The object q that claiming leaves of p: each new claim is a block of free offsets of a part.
Claimed(p, q, owner, order, endgame) ==
  /\ q \in PartsSet /\ q = [p EXCEPT !.claims = q.claims] /\ p.claims \subseteq q.claims
  /\ \A c \in q.claims \ p.claims :
       /\ c.owner = owner /\ c.old = FALSE /\ c.block # {}
       /\ \E j \in DOMAIN order : c.block \subseteq Free(p, owner, order[j], endgame)

\* The block that is claimed next begins at the first free offset.
LEMMA NextBlockFree ==
  ASSUME FileConstants, NEW p, NEW owner, NEW i \in Nat, NEW endgame,
         Free(p, owner, i, endgame) # {}
  PROVE  /\ NextBlock(p, owner, i, endgame) # {}
         /\ NextBlock(p, owner, i, endgame) \subseteq Free(p, owner, i, endgame)
<1> DEFINE free == Free(p, owner, i, endgame)
           begin == Min(free)
           grid == begin - ((begin - i * PartLength) % BlockLength) + BlockLength
<1>1. free \in SUBSET Nat
  BY DEF FileConstants, Free, Part, Offsets
<1> HIDE DEF free
<1>2. begin \in free /\ begin \in Nat
  BY <1>1, LeastElement DEF free
<1> HIDE DEF begin
<1>3. begin < grid
  <2>1. i * PartLength \in Int /\ BlockLength \in Nat \ {0}
    BY DEF FileConstants
  <2> DEFINE d == begin - i * PartLength
  <2>2. d \in Int
    BY <1>2, <2>1
  <2> HIDE DEF d
  <2>3. d % BlockLength \in 0 .. BlockLength - 1
    BY <2>1, <2>2
  <2> QED
    BY <1>2, <2>1, <2>3 DEF d
<1> HIDE DEF grid
<1>4. begin .. begin = {begin}
  BY <1>2
<1>5. NextBlock(p, owner, i, endgame) = {o \in free : o < grid /\ begin .. o \subseteq free}
  BY DEF NextBlock, free, begin, grid
<1> QED
  BY <1>2, <1>3, <1>4, <1>5 DEF free

\* One block more.
LEMMA ClaimNextKeeps ==
  ASSUME FileConstants, NEW p \in PartsSet, NEW owner \in Sources, NEW endgame,
         NEW order, DOMAIN order \subseteq Nat, \A j \in DOMAIN order : order[j] \in PartIndexes,
         NEW st, Claimed(p, st.p, owner, order, endgame), st.out \in Seq(SUBSET Offsets)
  PROVE  LET next == ClaimNext(st, owner, order, endgame)
         IN  /\ Claimed(p, next.p, owner, order, endgame) /\ next.out \in Seq(SUBSET Offsets)
             /\ next.out = <<>> => next = st /\ \A j \in DOMAIN order :
                                                   Free(st.p, owner, order[j], endgame) = {}
<1> DEFINE open == {j \in DOMAIN order : Free(st.p, owner, order[j], endgame) # {}}
           j0 == Min(open)
           block == NextBlock(st.p, owner, order[j0], endgame)
           new == [block |-> block, owner |-> owner, old |-> FALSE]
           q == [st.p EXCEPT !.claims = @ \cup {new}]
           next == ClaimNext(st, owner, order, endgame)
<1>1. CASE open = {}
  <2>1. next = st
    BY <1>1 DEF ClaimNext
  <2> QED
    BY <1>1, <2>1, ZenonT(30)
<1>2. CASE open # {}
  <2>1. next = [p |-> q, out |-> Append(st.out, block)]
    BY <1>2, Zenon DEF ClaimNext
  <2>2. j0 \in open
    BY <1>2, LeastElement, Zenon
  <2>3. order[j0] \in Nat
    BY <2>2 DEF PartIndexes
  <2>4. block # {} /\ block \subseteq Free(st.p, owner, order[j0], endgame)
    BY <2>2, <2>3, NextBlockFree, Zenon
  <2>5. j0 \in DOMAIN order
    BY <2>2
  <2> HIDE DEF block, open, j0
  <2>6. Free(st.p, owner, order[j0], endgame) \subseteq Free(p, owner, order[j0], endgame)
    BY DEF Claimed, PartsSet, Free
  <2>7. block \in SUBSET Offsets
    BY <2>4 DEF Free, Part
  <2>8. new \in ClaimSet
    BY <2>7 DEF ClaimSet
  <2>9. /\ q \in PartsSet /\ q = [p EXCEPT !.claims = q.claims]
        /\ q.claims = st.p.claims \cup {new}
    BY <2>8, ZenonT(30) DEF Claimed, PartsSet
  <2>a. /\ new.owner = owner /\ new.old = FALSE /\ new.block # {}
        /\ new.block \subseteq Free(p, owner, order[j0], endgame)
    BY <2>4, <2>6
  <2> HIDE DEF q, new
  <2>10. Claimed(p, q, owner, order, endgame)
    BY <2>5, <2>9, <2>a DEF Claimed
  <2>11. Append(st.out, block) \in Seq(SUBSET Offsets) /\ Append(st.out, block) # <<>>
    BY <2>7
  <2> QED
    BY <2>1, <2>10, <2>11
<1> QED
  BY <1>1, <1>2, ZenonT(30)

\* A round claims blocks that are free, and none only when no candidate has a free offset.
LEMMA RoundKeeps ==
  ASSUME FileConstants, NEW p \in PartsSet, NEW owner \in Sources, NEW endgame,
         NEW order, DOMAIN order \subseteq Nat, \A j \in DOMAIN order : order[j] \in PartIndexes,
         NEW count \in Nat
  PROVE  LET st == ClaimRound(p, owner, order, count, endgame)
         IN  /\ Claimed(p, st.p, owner, order, endgame)
             /\ st.out = <<>> /\ count > 0 =>
                  \A j \in DOMAIN order : Free(p, owner, order[j], endgame) = {}
<1> DEFINE base == [p |-> p, out |-> <<>>]
           first[k \in 0 .. count] ==
             IF k = 0 THEN base ELSE ClaimNext(first[k - 1], owner, order, endgame)
           none == \A j \in DOMAIN order : Free(p, owner, order[j], endgame) = {}
           Good(st, k) == /\ Claimed(p, st.p, owner, order, endgame)
                          /\ st.out \in Seq(SUBSET Offsets)
                          /\ st.out = <<>> => st = base /\ (k > 0 => none)
<1>1. ClaimRound(p, owner, order, count, endgame) = first[count]
  BY DEF ClaimRound
<1>2. first = [k \in 0 .. count |->
                 IF k = 0 THEN base ELSE ClaimNext(first[k - 1], owner, order, endgame)]
  <2>1. \E f : f = [k \in 0 .. count |->
                      IF k = 0 THEN base ELSE ClaimNext(f[k - 1], owner, order, endgame)]
    <3>1. PICK f : After(f, p, owner, order, count, endgame)
      BY RoundExists
    <3> QED
      BY <3>1 DEF After
  <2> QED
    BY <2>1
<1> HIDE DEF first
<1>3. Good(base, 0)
  <2>1. base.p = p /\ base.out = <<>> /\ <<>> \in Seq(SUBSET Offsets)
    OBVIOUS
  <2>2. p = [p EXCEPT !.claims = p.claims]
    BY DEF PartsSet
  <2>3. Claimed(p, p, owner, order, endgame)
    BY <2>2 DEF Claimed
  <2> QED
    BY <2>1, <2>3
<1>4. ASSUME NEW st, NEW k \in Nat, Good(st, k)
      PROVE  Good(ClaimNext(st, owner, order, endgame), k + 1)
  <2> DEFINE next == ClaimNext(st, owner, order, endgame)
  <2>1. Claimed(p, st.p, owner, order, endgame) /\ st.out \in Seq(SUBSET Offsets)
    BY <1>4
  <2>2. /\ Claimed(p, next.p, owner, order, endgame) /\ next.out \in Seq(SUBSET Offsets)
        /\ next.out = <<>> => next = st /\ \A j \in DOMAIN order :
                                              Free(st.p, owner, order[j], endgame) = {}
    BY <2>1, ClaimNextKeeps, Zenon
  <2> HIDE DEF next
  <2>3. next.out = <<>> => next = base /\ none
    BY <1>4, <2>2
  <2>4. Good(next, k + 1)
    BY <2>2, <2>3
  <2> QED
    BY <2>4 DEF next
<1> HIDE DEF Good
<1> DEFINE S == {k \in Nat : k <= count => Good(first[k], k)}
<1>5. 0 \in S
  <2>1. first[0] = base
    BY <1>2
  <2> QED
    BY <1>3, <2>1
<1>6. ASSUME NEW n \in Nat, n \in S PROVE n + 1 \in S
  <2>1. SUFFICES ASSUME n + 1 <= count PROVE Good(first[n + 1], n + 1)
    OBVIOUS
  <2>2. n + 1 \in 0 .. count /\ n + 1 # 0 /\ (n + 1) - 1 = n
    BY <2>1
  <2>3. first[n + 1] = ClaimNext(first[n], owner, order, endgame)
    BY <1>2, <2>2
  <2>4. Good(first[n], n)
    BY <1>6, <2>1
  <2> QED
    BY <1>4, <2>3, <2>4
<1> HIDE DEF S
<1>7. count \in S
  BY <1>5, <1>6, EveryNumber
<1>8. Good(first[count], count)
  BY <1>7 DEF S
<1> QED
  BY <1>1, <1>8 DEF Good

\* Candidates in any order are all the candidates.
LEMMA OrderIsOnto ==
  ASSUME NEW W, IsFiniteSet(W), NEW s \in [1 .. Cardinality(W) -> W], Distinct(s)
  PROVE  \A w \in W : \E j \in DOMAIN s : s[j] = w
<1> DEFINE n == Cardinality(W)
<1>1. n \in Nat
  BY FS_CardinalityType
<1>2. IsFiniteSet(1 .. n) /\ Cardinality(1 .. n) = n
  BY <1>1, FS_Interval
<1>3. s \in Injection(1 .. n, W)
  BY DEF Injection, IsInjective, Distinct
<1>4. s \in Surjection(1 .. n, W)
  BY <1>2, <1>3, FS_Injection
<1> QED
  BY <1>4 DEF Surjection

\* There are finitely many claims.
LEMMA ClaimsFinite ==
  ASSUME FileConstants, NEW C \in SUBSET ClaimSet
  PROVE  IsFiniteSet(C) /\ Cardinality(C) \in Nat
<1> DEFINE P == (SUBSET Offsets) \X (Sources \X BOOLEAN)
           f == [c \in ClaimSet |-> <<c.block, <<c.owner, c.old>>>>]
<1>1. IsFiniteSet(Offsets)
  <2>1. 0 \in Int /\ Size - 1 \in Int
    BY DEF FileConstants
  <2> QED
    BY <2>1, FS_Interval DEF Offsets
<1>2. IsFiniteSet(BOOLEAN)
  <2>1. BOOLEAN = {TRUE} \cup {FALSE}
    BY Zenon
  <2>2. IsFiniteSet({TRUE})
    BY FS_Singleton, Zenon
  <2>3. IsFiniteSet({TRUE} \cup {FALSE})
    BY <2>2, FS_AddElement, Zenon
  <2> QED
    BY <2>1, <2>3, Zenon
<1>3. IsFiniteSet(P)
  <2>1. IsFiniteSet(SUBSET Offsets)
    BY <1>1, FS_SUBSET
  <2>2. IsFiniteSet(Sources \X BOOLEAN)
    BY <1>2, FS_Product DEF FileConstants
  <2> QED
    BY <2>1, <2>2, FS_Product
<1>4. f \in [ClaimSet -> P]
  BY DEF ClaimSet
<1>5. ASSUME NEW c \in ClaimSet, NEW d \in ClaimSet, f[c] = f[d] PROVE c = d
  <2>1. c.block = d.block /\ c.owner = d.owner /\ c.old = d.old
    BY <1>5
  <2> QED
    BY <2>1 DEF ClaimSet
<1> HIDE DEF f, P
<1>6. f \in Injection(ClaimSet, P)
  BY <1>4, <1>5 DEF Injection, IsInjective
<1>7. IsFiniteSet(ClaimSet)
  BY <1>3, <1>6, FS_Injection
<1>8. IsFiniteSet(C)
  BY <1>7, FS_Subset
<1> QED
  BY <1>8, FS_CardinalityType

\* claim(): the blocks are those of one round, and of the second only when the first found none.
LEMMA ClaimKeeps ==
  ASSUME FileConstants, NEW p \in PartsSet, NEW owner \in Sources,
         NEW available \in SUBSET PartIndexes, NEW count \in Nat \ {0}, NEW rarity, NEW preview,
         NEW st \in Claim(p, owner, available, count, rarity, preview)
  PROVE  \E order, endgame :
           /\ DOMAIN order \subseteq Nat /\ \A j \in DOMAIN order : order[j] \in PartIndexes
           /\ Claimed(p, st.p, owner, order, endgame)
           /\ \/ endgame = FALSE
              \/ \A i \in Wanted(p, available) : Free(p, owner, i, FALSE) = {}
<1> DEFINE wanted == Wanted(p, available)
           round(order, endgame) == ClaimRound(p, owner, order, count, endgame)
<1>1. PICK s \in [1 .. Cardinality(wanted) -> wanted] :
        /\ Distinct(s)
        /\ st = IF round(s, FALSE).out # <<>> THEN round(s, FALSE) ELSE round(s, TRUE)
  BY Zenon DEF Claim
<1>2. wanted \in SUBSET PartIndexes /\ IsFiniteSet(wanted)
  <2>1. Count \in Int
    BY DEF FileConstants, Count
  <2>2. IsFiniteSet(PartIndexes)
    BY <2>1, FS_Interval DEF PartIndexes
  <2>3. wanted \in SUBSET PartIndexes
    BY DEF Wanted
  <2> QED
    BY <2>2, <2>3, FS_Subset
<1> HIDE DEF wanted
<1>3. /\ DOMAIN s \subseteq Nat /\ \A j \in DOMAIN s : s[j] \in PartIndexes
      /\ \A i \in wanted : \E j \in DOMAIN s : s[j] = i
  <2>1. Cardinality(wanted) \in Nat
    BY <1>2, FS_CardinalityType
  <2>2. \A i \in wanted : \E j \in DOMAIN s : s[j] = i
    BY <1>1, <1>2, OrderIsOnto, Zenon
  <2> QED
    BY <1>2, <2>1, <2>2
<1>4. ASSUME NEW endgame
      PROVE  /\ Claimed(p, round(s, endgame).p, owner, s, endgame)
             /\ round(s, endgame).out = <<>> =>
                  \A j \in DOMAIN s : Free(p, owner, s[j], endgame) = {}
  <2>1. count \in Nat /\ count > 0
    OBVIOUS
  <2> QED
    BY <1>3, <2>1, RoundKeeps, Zenon
<1> HIDE DEF round
<1>5. CASE round(s, FALSE).out # <<>>
  <2>1. Claimed(p, st.p, owner, s, FALSE)
    BY <1>1, <1>4, <1>5, Zenon
  <2> QED
    BY <1>3, <2>1, Zenon
<1>6. CASE round(s, FALSE).out = <<>>
  <2>1. Claimed(p, st.p, owner, s, TRUE)
    BY <1>1, <1>4, <1>6, Zenon
  <2>2. \A i \in wanted : Free(p, owner, i, FALSE) = {}
    BY <1>3, <1>4, <1>6, Zenon
  <2> QED
    BY <1>3, <2>1, <2>2, ZenonT(30) DEF wanted
<1> QED
  BY <1>5, <1>6, ZenonT(30)

-----------------------------------------------------------------------------
(* Every step keeps the invariant: completions, hash sets, checkpoints and *)
(* stops.                                                                  *)

LEMMA InvFacts ==
  ASSUME FileInv
  PROVE  /\ t \in TaskSet /\ t.path \in Paths /\ files \in [Paths -> FileSet]
         /\ files[t.path] \in FileSet /\ stored \in RecordSet \cup {NoRecord}
         /\ budget \in Scenario /\ Sound(t, files[t.path], stored)
         /\ t.phase # "Idle" => ~t.over
         /\ t.phase = "Idle" => t.jobs = <<>> /\ t.ended = <<>> /\ t.p.claims = {}
<1>1. t \in TaskSet /\ files \in [Paths -> FileSet] /\ Sound(t, files[t.path], stored)
  BY DEF FileInv, Types
<1>2. t.path \in Paths
  BY <1>1 DEF TaskSet
<1>3. files[t.path] \in FileSet
  BY <1>1, <1>2
<1>4. t.phase = "Idle" => t.jobs = <<>> /\ t.ended = <<>> /\ t.p.claims = {}
  BY <1>1 DEF Sound, Queue, Progress
<1> QED
  BY <1>1, <1>2, <1>3, <1>4 DEF FileInv, Types, Answering

\* A step of a running task that leaves the files alone.
LEMMA RunsInv ==
  ASSUME FileConstants, FileInv, NEW y \in TaskSet, NEW r \in RecordSet \cup {NoRecord},
         t.phase # "Idle", Runs(t, y), Sound(y, files[t.path], r),
         t' = y, stored' = r, files' = files, budget' \in Scenario,
         budget'.found = budget.found, budget'.option = budget.option
  PROVE  FileInv'
<1>1. Types'
  BY DEF FileInv, Types
<1>2. t'.path = t.path
  BY DEF Runs
<1>3. Sound(t', files'[t'.path], stored')
  BY <1>2
<1>4. Answering(t')
  BY DEF FileInv, Answering, Runs
<1>5. Found(t', files', budget')
  <2>1. \A j \in Values(y.jobs) : j.kind = "open" => j \in Values(t.jobs)
    <3>1. CASE y.phase \in {"Opening", "Closing"}
      BY <3>1 DEF Runs
    <3>2. CASE y.phase \notin {"Opening", "Closing"}
      <4>1. y.phase \in {"Checking", "Downloading", "Sharing"}
        BY <3>2 DEF Runs, TaskSet, Phases
      <4> QED
        BY <4>1 DEF Sound, Queue, AllOf
    <3> QED
      BY <3>1, <3>2
  <2> QED
    BY <1>2, <2>1 DEF FileInv, Found
<1> QED
  BY <1>1, <1>3, <1>4, <1>5 DEF FileInv

\* One of the bounds is used up, or crashes are counted.
LEMMA BudgetSpent ==
  ASSUME budget \in Scenario,
         \/ budget' = budget
         \/ budget.corrupt > 0 /\ budget' = [budget EXCEPT !.corrupt = @ - 1]
         \/ budget.gone > 0 /\ budget' = [budget EXCEPT !.gone = @ - 1]
         \/ budget.errors > 0 /\ budget' = [budget EXCEPT !.errors = @ - 1]
         \/ budget.saves > 0 /\ budget' = [budget EXCEPT !.saves = @ - 1]
         \/ budget.stops > 0 /\ budget' = [budget EXCEPT !.stops = @ - 1]
         \/ budget.edits > 0 /\ budget' = [budget EXCEPT !.edits = @ - 1]
         \/ budget.again > 0 /\ budget' = [budget EXCEPT !.again = @ - 1]
         \/ budget.crashes > 0 /\ budget' = [budget EXCEPT !.crashes = @ - 1, !.died = @ + 1]
  PROVE  /\ budget' \in Scenario /\ budget'.found = budget.found
         /\ budget'.option = budget.option /\ budget'.hashes = budget.hashes
<1>1. CASE budget.corrupt > 0 /\ budget' = [budget EXCEPT !.corrupt = @ - 1]
  BY <1>1 DEF Scenario
<1>2. CASE budget.gone > 0 /\ budget' = [budget EXCEPT !.gone = @ - 1]
  BY <1>2 DEF Scenario
<1>3. CASE budget.errors > 0 /\ budget' = [budget EXCEPT !.errors = @ - 1]
  BY <1>3 DEF Scenario
<1>4. CASE budget.saves > 0 /\ budget' = [budget EXCEPT !.saves = @ - 1]
  BY <1>4 DEF Scenario
<1>5. CASE budget.stops > 0 /\ budget' = [budget EXCEPT !.stops = @ - 1]
  BY <1>5 DEF Scenario
<1>6. CASE budget.edits > 0 /\ budget' = [budget EXCEPT !.edits = @ - 1]
  BY <1>6 DEF Scenario
<1>7. CASE budget.again > 0 /\ budget' = [budget EXCEPT !.again = @ - 1]
  BY <1>7 DEF Scenario
<1>8. CASE budget.crashes > 0 /\ budget' = [budget EXCEPT !.crashes = @ - 1, !.died = @ + 1]
  <2> DEFINE n == budget.crashes - 1
             d == budget.died + 1
  <2>1. n \in Nat /\ d \in Nat
    BY <1>8 DEF Scenario
  <2>2. budget' = [budget EXCEPT !.crashes = n, !.died = d]
    BY <1>8
  <2> HIDE DEF n, d
  <2> QED
    BY <2>1, <2>2, Zenon DEF Scenario
<1>9. CASE budget' = budget
  BY <1>9
<1> QED
  BY <1>1, <1>2, <1>3, <1>4, <1>5, <1>6, <1>7, <1>8, <1>9

\* What ApplyFile saves is right.
LEMMA ApplyKeeps ==
  ASSUME FileConstants, FileInv, NEW y \in TaskSet, y.phase # "Idle",
         Sound(y, files[t.path], stored), ApplyFile(y)
  PROVE  /\ t' = y /\ stored' \in RecordSet \cup {NoRecord}
         /\ Sound(y, files[t.path], stored')
<1>1. files[t.path] \in FileSet /\ stored \in RecordSet \cup {NoRecord}
  BY InvFacts
<1>2. \A i \in y.p.verified : RightIn(files[t.path], i)
  BY DEF Sound, Verified, Safe
<1>3. Saves(y) => RecordOf(y) \in RecordSet /\ Sound(y, files[t.path], RecordOf(y))
  BY <1>1, <1>2, RecordKeeps
<1> QED
  BY <1>1, <1>3 DEF ApplyFile

LEMMA HashSetKeeps ==
  ASSUME FileConstants, FileInv, HashSetArrives
  PROVE  FileInv' /\ Runs(t, t') /\ t.phase # "Idle"
<1> DEFINE y == AcceptHashSet(t)
<1>1. t.phase = "Downloading" /\ NeedsHashSet(t) /\ ~t.over /\ files' = files /\ budget' = budget
  BY InvFacts DEF HashSetArrives
<1>2. y \in TaskSet /\ Sound(y, files[t.path], stored)
  BY <1>1, InvFacts, AcceptKeeps
<1>3. Works(t, y)
  BY <1>1, InvFacts, AcceptWorks
<1> HIDE DEF y
<1>4. Runs(t, y) /\ y.phase # "Idle"
  BY <1>1, <1>3, WorksRuns DEF Works
<1>5. ApplyFile(y)
  BY DEF HashSetArrives, y
<1>6. /\ t' = y /\ stored' \in RecordSet \cup {NoRecord}
      /\ Sound(y, files[t.path], stored')
  BY <1>2, <1>4, <1>5, ApplyKeeps
<1>7. budget' \in Scenario /\ budget'.found = budget.found /\ budget'.option = budget.option
  BY <1>1, InvFacts
<1>8. t.phase # "Idle"
  BY <1>1
<1> QED
  BY <1>1, <1>2, <1>4, <1>6, <1>7, <1>8, RunsInv

LEMMA SharedKeeps ==
  ASSUME FileConstants, FileInv, SharedEnough
  PROVE  FileInv' /\ Runs(t, t') /\ t.phase # "Idle"
<1> DEFINE y == FinishFile(t, "Complete")
<1>1. /\ t.phase = "Sharing" /\ t' = y /\ files' = files /\ budget' = budget /\ stored' = stored
      /\ t \in TaskSet /\ ~t.over /\ Complete(t.p)
  BY InvFacts DEF SharedEnough, Sound, Progress
<1>2. y \in TaskSet /\ Sound(y, files[t.path], stored)
  BY <1>1, InvFacts, FinishKeeps
<1>3. /\ y.path = t.path /\ y.over = t.over /\ y.stopping = t.stopping
      /\ y.phase = "Closing" /\ y.outcome = "Complete" /\ y.p.claims = {}
      /\ \A j \in Values(y.jobs) : j.kind = "open" => j \in Values(t.jobs)
  BY <1>1, FinishRuns
<1> HIDE DEF y
<1>4. Runs(t, y) /\ t.phase # "Idle"
  BY <1>1, <1>3 DEF Runs
<1>5. budget' \in Scenario /\ budget'.found = budget.found /\ budget'.option = budget.option
  BY <1>1, InvFacts
<1>6. stored \in RecordSet \cup {NoRecord}
  BY InvFacts
<1> QED
  BY <1>1, <1>2, <1>4, <1>5, <1>6, RunsInv

LEMMA CheckpointKeeps ==
  ASSUME FileConstants, FileInv, CheckpointFile
  PROVE  FileInv'
<1>1. /\ Saves(t) /\ t.phase # "Idle" /\ t' = t /\ files' = files /\ stored' = RecordOf(t)
      /\ budget.saves > 0 /\ budget' = [budget EXCEPT !.saves = @ - 1]
  BY DEF CheckpointFile
<1>2. budget' \in Scenario /\ budget'.found = budget.found /\ budget'.option = budget.option
  BY <1>1, InvFacts, BudgetSpent
<1>3. \A i \in t.p.verified : RightIn(files[t.path], i)
  BY <1>1, InvFacts DEF Sound, Verified, Safe
<1>4. RecordOf(t) \in RecordSet /\ Sound(t, files[t.path], RecordOf(t))
  BY <1>1, <1>3, InvFacts, RecordKeeps
<1>5. Runs(t, t)
  BY <1>1 DEF Runs
<1>6. t \in TaskSet
  BY InvFacts
<1> QED
  BY <1>1, <1>2, <1>4, <1>5, <1>6, RunsInv

LEMMA CompletionKeeps ==
  ASSUME FileConstants, FileInv, FileCompletion, Head(t.ended).kind # "close"
  PROVE  FileInv' /\ Runs(t, t') /\ t.phase # "Idle"
<1> DEFINE e == Head(t.ended)
           x == [t EXCEPT !.ended = Tail(@)]
           y == Ended(x, e)
<1>1. t.ended # <<>> /\ ApplyFile(y) /\ files' = files /\ budget' = budget
  BY DEF FileCompletion
<1>2. t \in TaskSet /\ t.phase # "Idle" /\ ~t.over
  BY <1>1, InvFacts
<1>3. x \in TaskSet /\ Sound(x, files[t.path], stored) /\ Taken(x, files[t.path], e)
  BY <1>1, <1>2, InvFacts, TakeKeeps, Zenon
<1>4. /\ x.path = t.path /\ x.over = t.over /\ x.stopping = t.stopping /\ x.phase = t.phase
      /\ x.p = t.p /\ x.outcome = t.outcome /\ x.jobs = t.jobs
  BY <1>2 DEF TaskSet
<1>5. e.kind # "close"
  OBVIOUS
<1> HIDE DEF x, e
<1>6. y \in TaskSet /\ Sound(y, files[t.path], stored)
  BY <1>2, <1>3, <1>4, InvFacts, EndedKeeps
<1>7. Runs(x, y)
  BY <1>3, <1>5, EndedRuns
<1> HIDE DEF y
<1>8. Runs(t, y) /\ y.phase # "Idle"
  BY <1>4, <1>7 DEF Runs
<1>9. /\ t' = y /\ stored' \in RecordSet \cup {NoRecord}
      /\ Sound(y, files[t.path], stored')
  BY <1>1, <1>6, <1>8, ApplyKeeps
<1>10. budget' \in Scenario /\ budget'.found = budget.found /\ budget'.option = budget.option
  BY <1>1, InvFacts
<1> QED
  BY <1>1, <1>2, <1>6, <1>8, <1>9, <1>10, RunsInv

LEMMA CloseEndKeeps ==
  ASSUME FileConstants, FileInv, FileCompletion, Head(t.ended).kind = "close"
  PROVE  /\ FileInv' /\ t.phase = "Closing" /\ t' = Closed([t EXCEPT !.ended = Tail(@)])
         /\ Tail(t.ended) = <<>> /\ t.jobs = <<>>
<1> DEFINE e == Head(t.ended)
           x == [t EXCEPT !.ended = Tail(@)]
           y == Closed(x)
<1>1. /\ t.ended # <<>> /\ files' = files /\ budget' = budget
      /\ t' = Ended(x, e)
      /\ stored' = IF Saves(Ended(x, e)) THEN RecordOf(Ended(x, e)) ELSE stored
  BY DEF FileCompletion
<1>2. Ended(x, e) = y
  BY DEF Ended
<1>3. t \in TaskSet /\ t.phase # "Idle" /\ ~t.over
  BY <1>1, InvFacts
<1>4. x \in TaskSet /\ Sound(x, files[t.path], stored) /\ Taken(x, files[t.path], e)
  BY <1>1, <1>3, InvFacts, TakeKeeps, Zenon
<1>5. /\ x.path = t.path /\ x.stopping = t.stopping /\ x.phase = t.phase
      /\ x.p = t.p /\ x.outcome = t.outcome /\ x.jobs = t.jobs /\ x.ended = Tail(t.ended)
  BY <1>3 DEF TaskSet
<1>6. e.kind = "close"
  OBVIOUS
<1> HIDE DEF x, e
<1>7. /\ y \in TaskSet /\ Sound(y, files[t.path], stored)
      /\ \A i \in y.p.verified : RightIn(files[t.path], i)
  BY <1>4, <1>6, InvFacts, ClosedKeeps
<1>8. /\ y.path = t.path /\ y.phase = "Idle" /\ y.stopping = FALSE /\ y.jobs = t.jobs
  BY <1>4, <1>5 DEF Closed, TaskSet
<1>9. t.phase = "Closing" /\ x.jobs = <<>> /\ x.ended = <<>>
  BY <1>4, <1>5, <1>6 DEF Taken, TaskSet, Phases
<1>10. Ended(x, e) = y
  BY <1>2
<1> HIDE DEF y
<1>11. t' = y /\ stored' = IF Saves(y) THEN RecordOf(y) ELSE stored
  BY <1>1, <1>10
<1>12. /\ stored' \in RecordSet \cup {NoRecord} /\ Sound(y, files[t.path], stored')
  <2>1. Saves(y) => RecordOf(y) \in RecordSet /\ Sound(y, files[t.path], RecordOf(y))
    BY <1>7, InvFacts, RecordKeeps
  <2> QED
    BY <1>7, <1>11, <2>1, InvFacts
<1>13. Types'
  BY <1>1, <1>7, <1>11, <1>12 DEF FileInv, Types
<1>14. Answering(t')
  BY <1>8, <1>11 DEF Answering
<1>15. Found(t', files', budget')
  <2>1. Values(y.jobs) = {}
    BY <1>5, <1>8, <1>9, FewValues
  <2> QED
    BY <1>1, <1>11, <2>1 DEF FileInv, Found
<1>16. FileInv'
  BY <1>1, <1>8, <1>11, <1>12, <1>13, <1>14, <1>15 DEF FileInv
<1> QED
  BY <1>5, <1>9, <1>11, <1>16 DEF x, y

LEMMA StopKeeps ==
  ASSUME FileConstants, FileInv, StopFile
  PROVE  FileInv' /\ t'.stopping /\ t'.over = t.over /\ t'.phase = "Closing"
<1> DEFINE x == FinishFile(t, "Stop")
           y == [x EXCEPT !.stopping = TRUE]
<1>1. /\ t.phase # "Idle" /\ ~t.stopping /\ budget.stops > 0 /\ files' = files
      /\ budget' = [budget EXCEPT !.stops = @ - 1] /\ ApplyFile(y)
  BY DEF StopFile
<1>2. budget' \in Scenario /\ budget'.found = budget.found /\ budget'.option = budget.option
  BY <1>1, InvFacts, BudgetSpent
<1>3. x \in TaskSet /\ Sound(x, files[t.path], stored)
  BY InvFacts, FinishKeeps
<1>4. /\ x.path = t.path /\ x.over = t.over /\ x.phase = "Closing"
      /\ \A j \in Values(x.jobs) : j.kind = "open" => j \in Values(t.jobs)
  <2>1. CASE t.phase = "Closing"
    BY <2>1 DEF FinishFile
  <2>2. CASE t.phase # "Closing"
    BY <1>1, <2>2, InvFacts, FinishRuns
  <2> QED
    BY <2>1, <2>2
<1> HIDE DEF x
<1>5. /\ y \in TaskSet /\ y.jobs = x.jobs /\ y.ended = x.ended
      /\ y.phase = x.phase /\ y.over = x.over /\ y.stopping
      /\ y.outcome = x.outcome /\ y.opened = x.opened /\ y.path = x.path /\ y.p = x.p
      /\ y.waiting = x.waiting /\ y.unchecked = x.unchecked /\ y.local = x.local
      /\ y.hashes = x.hashes
  BY <1>3, ZenonT(30) DEF TaskSet
<1> HIDE DEF y
<1>6. Sound(y, files[t.path], stored)
  <2>1. Queue(y)
    BY <1>3, <1>5 DEF Sound, Queue
  <2>2. Progress(y)
    BY <1>3, <1>5 DEF Sound, Progress, NeedsHashSet
  <2>3. Verified(y, files[t.path])
    BY <1>3, <1>5 DEF Sound, Verified, Safe
  <2>4. Recorded(y, files[t.path], stored)
    BY <1>3, <1>5 DEF Sound, Recorded
  <2> QED
    BY <2>1, <2>2, <2>3, <2>4 DEF Sound
<1>7. t' = y /\ stored' = stored
  BY <1>1, <1>4, <1>5 DEF ApplyFile, Saves
<1>8. Types'
  BY <1>1, <1>2, <1>5, <1>7 DEF FileInv, Types
<1>9. Answering(t')
  BY <1>1, <1>4, <1>5, <1>7, InvFacts DEF Answering
<1>10. Found(t', files', budget')
  BY <1>1, <1>2, <1>4, <1>5, <1>7 DEF FileInv, Found
<1> QED
  BY <1>1, <1>4, <1>5, <1>6, <1>7, <1>8, <1>9, <1>10 DEF FileInv

=============================================================================

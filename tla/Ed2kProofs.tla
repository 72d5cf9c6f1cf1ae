----------------------------- MODULE Ed2kProofs -----------------------------
(***************************************************************************)
(* The theorems about Ed2kTask: every step keeps the invariant FileInv of  *)
(* Ed2kLemmas, what follows from it, and that the download is a task as    *)
(* TaskContract describes it.                                              *)
(***************************************************************************)
EXTENDS Ed2kStepProofs

-----------------------------------------------------------------------------
(* Every step keeps the invariant, continued: sources, the strand, starts  *)
(* and crashes.                                                            *)

\* Claims change and nothing else of the task.
LEMMA ClaimsInv ==
  ASSUME FileConstants, FileInv, NEW claims \in SUBSET ClaimSet,
         t.phase # "Downloading" => claims = {},
         \A c \in claims : c.block \subseteq Part(PartOf(Min(c.block))),
         t' = [t EXCEPT !.p = [@ EXCEPT !.claims = claims]],
         stored' = stored, files' = files, budget' \in Scenario,
         budget'.found = budget.found, budget'.option = budget.option
  PROVE  FileInv'
<1>1. t' \in TaskSet /\ Sound(t', files[t.path], stored)
  BY InvFacts, ClaimsKeep, ZenonT(40)
<1>2. /\ t'.path = t.path /\ t'.over = t.over /\ t'.stopping = t.stopping
      /\ t'.phase = t.phase /\ t'.outcome = t.outcome /\ t'.jobs = t.jobs
  BY InvFacts DEF TaskSet
<1>3. Types'
  BY <1>1 DEF FileInv, Types
<1>4. Answering(t')
  BY <1>2 DEF FileInv, Answering
<1>5. Found(t', files', budget')
  BY <1>2 DEF FileInv, Found
<1> QED
  BY <1>1, <1>2, <1>3, <1>4, <1>5 DEF FileInv

LEMMA GoneKeeps ==
  ASSUME FileConstants, FileInv, NEW s \in Sources, SourceGone(s)
  PROVE  FileInv'
<1> DEFINE claims == {c \in t.p.claims : c.owner # s}
<1>1. /\ t' = [t EXCEPT !.p = [@ EXCEPT !.claims = claims]] /\ files' = files /\ stored' = stored
      /\ budget.gone > 0 /\ budget' = [budget EXCEPT !.gone = @ - 1]
  BY DEF SourceGone, ReleaseAll
<1>2. budget' \in Scenario /\ budget'.found = budget.found /\ budget'.option = budget.option
  BY <1>1, InvFacts, BudgetSpent
<1>3. /\ claims \in SUBSET ClaimSet /\ (t.phase # "Downloading" => claims = {})
      /\ \A c \in claims : c.block \subseteq Part(PartOf(Min(c.block)))
  BY InvFacts DEF Sound, Progress, TaskSet, PartsSet
<1> HIDE DEF claims
<1> QED
  BY <1>1, <1>2, <1>3, ClaimsInv

LEMMA AgeKeeps ==
  ASSUME FileConstants, FileInv, ClaimsAge
  PROVE  FileInv'
<1> DEFINE claims == {[c EXCEPT !.old = TRUE] : c \in t.p.claims}
<1>1. /\ t' = [t EXCEPT !.p = [@ EXCEPT !.claims = claims]] /\ files' = files /\ stored' = stored
      /\ budget' = budget
  BY DEF ClaimsAge, Aged
<1>2. budget' \in Scenario /\ budget'.found = budget.found /\ budget'.option = budget.option
  BY <1>1, InvFacts
<1>3. /\ t.p.claims \in SUBSET ClaimSet /\ (t.phase # "Downloading" => t.p.claims = {})
      /\ \A c \in t.p.claims : c.block \subseteq Part(PartOf(Min(c.block)))
  BY InvFacts DEF Sound, Progress, TaskSet, PartsSet
<1>4. /\ claims \in SUBSET ClaimSet /\ (t.phase # "Downloading" => claims = {})
      /\ \A d \in claims : \E c \in t.p.claims : d.block = c.block
  BY <1>3, Zenon DEF ClaimSet
<1>5. \A c \in claims : c.block \subseteq Part(PartOf(Min(c.block)))
  BY <1>3, <1>4
<1> HIDE DEF claims
<1> QED
  BY <1>1, <1>2, <1>4, <1>5, ClaimsInv

LEMMA DeliverKeeps ==
  ASSUME FileConstants, FileInv, NEW s \in Sources, DeliverRight(s) \/ DeliverWrong(s)
  PROVE  FileInv' /\ Runs(t, t') /\ t.phase # "Idle"
<1>1. budget' \in Scenario /\ budget'.found = budget.found /\ budget'.option = budget.option
  BY InvFacts, BudgetSpent DEF DeliverRight, DeliverWrong
<1>2. PICK data \in {"right", "wrong"} : Deliver(s, data)
  BY DEF DeliverRight, DeliverWrong
<1>3. PICK c \in t.p.claims :
        /\ t.phase = "Downloading"
        /\ data = "right" \/ LateWrong \/ \A i \in Touched(c.block) : ~Settling(t, i)
        /\ t' = [ReceiveBlock(t, c.block, data) EXCEPT !.p = Release(@, s, c.block)]
        /\ files' = files /\ stored' = stored
  BY <1>2, ZenonT(30) DEF Deliver
<1> DEFINE x == ReceiveBlock(t, c.block, data)
           claims == {d \in x.p.claims : ~(d.owner = s /\ Min(d.block) = Min(c.block))}
           y == [x EXCEPT !.p = [@ EXCEPT !.claims = claims]]
<1>4. c.block \in SUBSET Offsets
  BY InvFacts DEF TaskSet, PartsSet, ClaimSet
<1>5. ~LateWrong
  BY DEF FileConstants
<1>6. x \in TaskSet /\ Sound(x, files[t.path], stored)
  BY <1>3, <1>4, <1>5, InvFacts, ReceiveKeeps
<1>7. /\ x.path = t.path /\ x.over = t.over /\ x.stopping = t.stopping
      /\ x.phase = "Downloading" /\ x.p.claims = t.p.claims
  BY <1>3, InvFacts DEF ReceiveBlock, VerifyFilled, Enqueue, Add, TaskSet, PartsSet
<1>8. t' = y
  BY <1>3 DEF Release
<1> HIDE DEF x
<1>9. /\ claims \in SUBSET ClaimSet /\ claims \subseteq t.p.claims
      /\ \A d \in claims : d.block \subseteq Part(PartOf(Min(d.block)))
  BY <1>6, <1>7 DEF Sound, Progress, TaskSet, PartsSet
<1> HIDE DEF claims
<1>10. y \in TaskSet /\ Sound(y, files[t.path], stored)
  BY <1>6, <1>7, <1>9, InvFacts, ClaimsKeep, ZenonT(40)
<1>11. /\ y.path = t.path /\ y.over = t.over /\ y.stopping = t.stopping
       /\ y.phase = "Downloading" /\ y.p.claims \subseteq t.p.claims
  BY <1>6, <1>7, <1>9 DEF TaskSet, PartsSet
<1> HIDE DEF y
<1>12. Runs(t, y) /\ t.phase # "Idle"
  BY <1>3, <1>11 DEF Runs
<1>13. stored' \in RecordSet \cup {NoRecord} /\ Sound(y, files[t.path], stored')
  BY <1>3, <1>10, InvFacts
<1> QED
  BY <1>1, <1>3, <1>8, <1>10, <1>12, <1>13, RunsInv

\* y is the task x with the open j of this path queued.
Opens(x, path, y, j) ==
  /\ y \in TaskSet /\ y.jobs = <<j>> /\ y.ended = <<>> /\ Values(y.jobs) = {j}
  /\ y.phase = "Opening" /\ y.over = x.over /\ y.stopping = x.stopping
  /\ y.outcome = x.outcome /\ y.opened = x.opened /\ y.path = path /\ y.p = x.p
  /\ y.waiting = x.waiting /\ y.unchecked = x.unchecked /\ y.local = x.local
  /\ y.hashes = x.hashes /\ Queue(y) /\ \A i : Clean(y.jobs, i)
  /\ j.kind = "open"

\* A task whose only job is the open.
LEMMA OpenJobFacts ==
  ASSUME FileConstants, NEW x \in TaskSet, x.jobs = <<>>, x.ended = <<>>,
         NEW path \in Paths, NEW truncate \in BOOLEAN, NEW check \in BOOLEAN
  PROVE  Opens(x, path, OpenJob(x, path, truncate, check),
               [kind |-> "open", truncate |-> truncate, check |-> check])
<1> DEFINE y == OpenJob(x, path, truncate, check)
           j == [kind |-> "open", truncate |-> truncate, check |-> check]
<1>1. j \in Job /\ j.kind = "open" /\ j.truncate = truncate /\ j.check = check
  BY DEF Job
<1>2. y = [x EXCEPT !.phase = "Opening", !.path = path, !.jobs = Append(x.jobs, j)]
  BY Zenon DEF OpenJob, Enqueue, TaskSet
<1> HIDE DEF j, y
<1>3. Append(<<>>, j) = <<j>>
  OBVIOUS
<1>4. <<j>> \in Seq(Job) /\ Values(<<j>>) = {j} /\ Tail(<<j>>) = <<>> /\ Values(<<>>) = {}
  BY <1>1, FewValues
<1>5. /\ y \in TaskSet /\ y.jobs = <<j>> /\ y.ended = <<>>
      /\ y.phase = "Opening" /\ y.over = x.over /\ y.stopping = x.stopping
      /\ y.outcome = x.outcome /\ y.opened = x.opened /\ y.path = path /\ y.p = x.p
      /\ y.waiting = x.waiting /\ y.unchecked = x.unchecked /\ y.local = x.local
      /\ y.hashes = x.hashes
  BY <1>2, <1>3, <1>4, Zenon DEF TaskSet, Phases
<1>6. Ordered(<<j>>)
  <2>1. DOMAIN <<j>> = {1}
    OBVIOUS
  <2> QED
    BY <2>1 DEF Ordered
<1>7. Queue(y)
  BY <1>1, <1>4, <1>5, <1>6 DEF Queue, AllOf
<1>8. \A i : Clean(y.jobs, i)
  BY <1>1, <1>4, <1>5 DEF Clean, Wrong
<1> QED
  BY <1>1, <1>4, <1>5, <1>7, <1>8 DEF y, j, Opens

\* What open() may queue, of a file g with the record r.
LEMMA OpenJobSound ==
  ASSUME FileConstants, NEW x \in TaskSet, x.jobs = <<>>, x.ended = <<>>,
         ~x.over, ~x.opened, ~x.unchecked, x.p.claims = {},
         NEW path \in Paths, NEW truncate \in BOOLEAN, NEW check \in BOOLEAN,
         NEW g \in FileSet, NEW r \in RecordSet \cup {NoRecord},
         check = TRUE => x.waiting = {},
         \A i \in x.p.verified : Filled(x.p, i) /\ RightIn(g, i),
         truncate = TRUE => r = NoRecord /\ x.p.verified = {},
         truncate = FALSE => g.size # "long",
         r # NoRecord => r.path = path /\ g.size = "whole",
         r # NoRecord /\ r.current =>
           r.parts \subseteq x.p.verified /\ \A i \in r.parts : RightIn(g, i)
  PROVE  Sound(OpenJob(x, path, truncate, check), g, r)
<1> DEFINE y == OpenJob(x, path, truncate, check)
           j == [kind |-> "open", truncate |-> truncate, check |-> check]
<1>a. j.kind = "open" /\ j.truncate = truncate /\ j.check = check /\ Opens(x, path, y, j)
  BY OpenJobFacts
<1> HIDE DEF y, j
<1>1. /\ y \in TaskSet /\ y.jobs = <<j>> /\ y.ended = <<>> /\ Values(y.jobs) = {j}
      /\ y.phase = "Opening" /\ y.over = x.over /\ y.stopping = x.stopping
      /\ y.outcome = x.outcome /\ y.opened = x.opened /\ y.path = path /\ y.p = x.p
      /\ y.waiting = x.waiting /\ y.unchecked = x.unchecked /\ y.local = x.local
      /\ y.hashes = x.hashes /\ Queue(y) /\ \A i : Clean(y.jobs, i)
      /\ j.kind = "open" /\ j.truncate = truncate /\ j.check = check
  BY <1>a DEF Opens
<1>2. Values(<<>>) = {}
  BY FewValues
<1>3. Progress(y)
  BY <1>1, <1>2 DEF Progress
<1>4. Verified(y, g)
  BY <1>1, <1>2 DEF Verified, Safe
<1>5. Recorded(y, g, r)
  BY <1>1, <1>2 DEF Recorded
<1> QED
  BY <1>1, <1>3, <1>4, <1>5 DEF Sound, y

LEMMA StartKeeps ==
  ASSUME FileConstants, FileInv, StartFile
  PROVE  FileInv' /\ (t'.over \/ t'.phase = "Opening") /\ (t'.over => t'.jobs = <<>> /\ t'.ended = <<>>)
         /\ t'.stopping = FALSE /\ t'.p.claims = {}
<1> DEFINE fresh == [t EXCEPT !.opened = FALSE, !.p = NoParts, !.waiting = {},
                              !.unchecked = FALSE, !.outcome = "Stop"]
           path == IF stored = NoRecord THEN "default" ELSE stored.path
           size == files[path].size
           parts == Restored(stored)
           old == [fresh EXCEPT !.p = parts,
                     !.waiting = {i \in PartIndexes \ parts.verified : Filled(parts, i)},
                     !.hashes = @ \/ stored.hashes]
<1>1. /\ t.phase = "Idle" /\ ~t.over /\ t' = OpenFile(t)
      /\ files' = files /\ stored' = stored /\ budget' = budget
  BY DEF StartFile
<1>2. /\ t \in TaskSet /\ t.jobs = <<>> /\ t.ended = <<>> /\ t.stopping = FALSE
      /\ stored \in RecordSet \cup {NoRecord} /\ files \in [Paths -> FileSet]
      /\ Recorded(t, files[t.path], stored)
  <2>1. ~t.stopping /\ t.stopping \in BOOLEAN
    BY <1>1, InvFacts DEF FileInv, Answering, TaskSet
  <2> QED
    BY <1>1, <2>1, InvFacts DEF Sound
<1>3. /\ path \in Paths /\ files[path] \in FileSet /\ size \in Sizes
      /\ stored # NoRecord => path = t.path /\ stored.path = path /\ size = "whole"
  <2>1. path \in Paths /\ (stored # NoRecord => path = t.path /\ stored.path = path)
    BY <1>2 DEF Recorded, RecordSet, Paths
  <2>2. files[path] \in FileSet
    BY <1>2, <2>1
  <2>3. stored # NoRecord => size = "whole"
    BY <1>2, <2>1 DEF Recorded
  <2> QED
    BY <2>1, <2>2, <2>3 DEF FileSet
<1>4. /\ fresh \in TaskSet /\ fresh.jobs = <<>> /\ fresh.ended = <<>>
      /\ ~fresh.over /\ ~fresh.opened /\ ~fresh.unchecked /\ fresh.p = NoParts
      /\ fresh.waiting = {} /\ fresh.stopping = FALSE /\ fresh.outcome = "Stop"
      /\ fresh.hashes \in BOOLEAN
  BY <1>1, <1>2, ZenonT(30) DEF TaskSet, PartsSet, NoParts
<1>5. NoParts.claims = {} /\ NoParts.verified = {} /\ NoParts.received = {}
  BY DEF NoParts
<1>6. OpenFile(t) = IF stored # NoRecord /\ size = "whole" /\ stored.current
                    THEN OpenJob(old, path, FALSE, FALSE)
                    ELSE IF size = "absent" THEN OpenJob(fresh, path, TRUE, FALSE)
                    ELSE IF stored # NoRecord THEN OpenJob(fresh, path, FALSE, size = "whole")
                    ELSE Existing(fresh, path, size)
  BY DEF OpenFile
<1>7. stored # NoRecord =>
        /\ parts \in PartsSet /\ parts.claims = {} /\ parts.verified = stored.parts
        /\ \A i \in parts.verified : Filled(parts, i)
  <2>1. ASSUME stored # NoRecord
        PROVE  /\ parts \in PartsSet /\ parts.claims = {} /\ parts.verified = stored.parts
               /\ parts.received = stored.received \cup UNION {Part(i) : i \in stored.parts}
    <3>1. UNION {Part(i) : i \in stored.parts} \in SUBSET Offsets
      BY DEF Part
    <3>2. stored.parts \in SUBSET PartIndexes /\ stored.received \in SUBSET Offsets
      BY <1>2, <2>1 DEF RecordSet
    <3> QED
      BY <3>1, <3>2, ZenonT(30) DEF Restored, NoParts, PartsSet
  <2> QED
    BY <2>1 DEF Filled
<1> HIDE DEF fresh, path, size, parts
<1>8. stored # NoRecord =>
        /\ old \in TaskSet /\ old.jobs = <<>> /\ old.ended = <<>>
        /\ ~old.over /\ ~old.opened /\ ~old.unchecked /\ old.p = parts
        /\ old.stopping = FALSE /\ old.outcome = "Stop"
  <2>1. ASSUME stored # NoRecord PROVE stored.hashes \in BOOLEAN
    BY <1>2, <2>1 DEF RecordSet
  <2>2. {i \in PartIndexes \ parts.verified : Filled(parts, i)} \in SUBSET PartIndexes
    OBVIOUS
  <2> QED
    BY <1>4, <1>7, <2>1, <2>2, ZenonT(30) DEF TaskSet
<1> HIDE DEF old
<1>9. TRUE \in BOOLEAN /\ FALSE \in BOOLEAN /\ (size = "whole") \in BOOLEAN
  OBVIOUS
\* What follows once an open job is queued.
<1>10. ASSUME NEW x \in TaskSet, x.jobs = <<>>, x.ended = <<>>, ~x.over, x.stopping = FALSE,
              x.p.claims = {}, NEW to \in Paths, NEW truncate \in BOOLEAN, NEW check \in BOOLEAN,
              t' = OpenJob(x, to, truncate, check),
              Sound(OpenJob(x, to, truncate, check), files[to], stored),
              budget.found # "absent" /\ budget.option # "overwrite" /\ truncate = TRUE
                => to = "numbered"
       PROVE  FileInv' /\ t'.phase = "Opening" /\ t'.over = FALSE /\ t'.stopping = FALSE
              /\ t'.p.claims = {}
  <2> DEFINE y == OpenJob(x, to, truncate, check)
             j == [kind |-> "open", truncate |-> truncate, check |-> check]
  <2>a. x.jobs = <<>> /\ x.ended = <<>> /\ to \in Paths
    BY <1>10
  <2>b. Opens(x, to, y, j) /\ j.truncate = truncate
    BY <2>a, OpenJobFacts
  <2>2. t' = y /\ Sound(y, files[to], stored)
    BY <1>10
  <2> HIDE DEF y, j
  <2>1. /\ y \in TaskSet /\ Values(y.jobs) = {j} /\ y.phase = "Opening" /\ y.over = x.over
        /\ y.stopping = x.stopping /\ y.path = to /\ j.truncate = truncate /\ y.p = x.p
    BY <2>b DEF Opens
  <2>3. Types'
    BY <1>1, <2>1, <2>2 DEF FileInv, Types
  <2>4. Answering(t')
    BY <1>10, <2>1, <2>2 DEF Answering
  <2>5. Found(t', files', budget')
    BY <1>1, <1>10, <2>1, <2>2 DEF FileInv, Found
  <2>6. x.over = FALSE
    BY <1>10 DEF TaskSet
  <2> QED
    BY <1>1, <1>10, <2>1, <2>2, <2>3, <2>4, <2>5, <2>6 DEF FileInv
<1>11. CASE stored # NoRecord /\ stored.current
  <2>1. t' = OpenJob(old, path, FALSE, FALSE)
    BY <1>1, <1>3, <1>6, <1>11
  <2>2. /\ stored.parts \subseteq old.p.verified
        /\ \A i \in old.p.verified : Filled(old.p, i) /\ RightIn(files[path], i)
        /\ \A i \in stored.parts : RightIn(files[path], i)
    BY <1>2, <1>3, <1>7, <1>8, <1>11 DEF Recorded
  <2>3. files[path].size = "whole" /\ stored.path = path /\ old.p.claims = {}
    BY <1>3, <1>7, <1>8, <1>11 DEF size
  <2>4. Sound(OpenJob(old, path, FALSE, FALSE), files[path], stored)
    BY <1>2, <1>3, <1>8, <1>9, <1>11, <2>2, <2>3, OpenJobSound, ZenonT(30)
  <2> QED
    BY <1>3, <1>8, <1>9, <1>10, <1>11, <2>1, <2>3, <2>4, ZenonT(30)
<1>12. CASE ~(stored # NoRecord /\ stored.current) /\ size = "absent"
  <2>1. t' = OpenJob(fresh, path, TRUE, FALSE) /\ stored = NoRecord
    BY <1>1, <1>3, <1>6, <1>12
  <2>2. Sound(OpenJob(fresh, path, TRUE, FALSE), files[path], stored)
    BY <1>2, <1>3, <1>4, <1>5, <1>9, <2>1, OpenJobSound, Zenon
  <2>3. ~(budget.found # "absent" /\ budget.option # "overwrite")
    BY <1>12, <2>1 DEF FileInv, Found, size, path
  <2> QED
    BY <1>3, <1>4, <1>5, <1>9, <1>10, <2>1, <2>2, <2>3, ZenonT(30)
<1>13. CASE stored # NoRecord /\ ~stored.current
  <2>1. t' = OpenJob(fresh, path, FALSE, size = "whole") /\ size = "whole"
    BY <1>1, <1>3, <1>6, <1>13
  <2>2. files[path].size = "whole"
    BY <2>1 DEF size
  <2>3. Sound(OpenJob(fresh, path, FALSE, size = "whole"), files[path], stored)
    BY <1>2, <1>3, <1>4, <1>5, <1>9, <1>13, <2>2, OpenJobSound, ZenonT(30)
  <2> QED
    BY <1>3, <1>4, <1>5, <1>9, <1>10, <2>1, <2>3, ZenonT(30)
<1>14. CASE stored = NoRecord /\ size # "absent"
  <2>1. t' = Existing(fresh, path, size)
    BY <1>1, <1>6, <1>14
  <2>2. CASE t' = Failed(fresh)
    <3>1. /\ t' \in TaskSet /\ t'.jobs = <<>> /\ t'.ended = <<>> /\ t'.phase = "Idle" /\ t'.over
          /\ ~t'.opened /\ ~t'.unchecked /\ t'.p = NoParts /\ t'.waiting = {}
          /\ t'.stopping = FALSE /\ t'.outcome = "Stop"
      BY <1>4, <2>2, Zenon DEF Failed, TaskSet, Phases
    <3>2. Values(<<>>) = {} /\ Ordered(<<>>)
      BY FewValues DEF Ordered
    <3>3. Queue(t')
      BY <3>1, <3>2 DEF Queue, AllOf
    <3>4. Progress(t')
      BY <1>5, <3>1, <3>2 DEF Progress, AllOf
    <3>5. Verified(t', files[t'.path])
      BY <1>5, <3>1, <3>2 DEF Verified
    <3>6. Recorded(t', files[t'.path], stored)
      BY <1>14, <3>1, <3>2 DEF Recorded
    <3>7. Types'
      BY <1>1, <3>1 DEF FileInv, Types
    <3>8. Answering(t') /\ Found(t', files', budget')
      BY <1>1, <3>1, <3>2 DEF FileInv, Answering, Found
    <3> QED
      BY <1>1, <1>5, <3>1, <3>3, <3>4, <3>5, <3>6, <3>7, <3>8 DEF FileInv, Sound
  <2>3. CASE t' = OpenJob(fresh, path, FALSE, TRUE) /\ size # "long"
    <3>1. Sound(OpenJob(fresh, path, FALSE, TRUE), files[path], stored)
      BY <1>2, <1>3, <1>4, <1>5, <1>9, <1>14, <2>3, OpenJobSound, ZenonT(30) DEF size
    <3> QED
      BY <1>3, <1>4, <1>5, <1>9, <1>10, <2>3, <3>1, ZenonT(30)
  <2>4. ASSUME NEW to \in Paths, t' = OpenJob(fresh, to, TRUE, FALSE),
               budget.option = "overwrite" \/ to = "numbered"
        PROVE  FileInv' /\ t'.phase = "Opening" /\ t'.stopping = FALSE /\ t'.p.claims = {}
               /\ t'.over = FALSE
    <3>1. files[to] \in FileSet
      BY <1>2
    <3>2. Sound(OpenJob(fresh, to, TRUE, FALSE), files[to], stored)
      BY <1>2, <1>4, <1>5, <1>9, <1>14, <3>1, OpenJobSound, ZenonT(30)
    <3> QED
      BY <1>4, <1>5, <1>9, <1>10, <2>4, <3>2, ZenonT(30)
  <2>5. \/ t' = Failed(fresh)
        \/ t' = OpenJob(fresh, path, FALSE, TRUE) /\ size # "long"
        \/ t' = OpenJob(fresh, path, TRUE, FALSE) /\ budget.option = "overwrite"
        \/ t' = OpenJob(fresh, "numbered", TRUE, FALSE)
    BY <2>1, ZenonT(30) DEF Existing
  <2>6. "numbered" \in Paths
    BY DEF Paths
  <2> QED
    BY <1>3, <2>2, <2>3, <2>4, <2>5, <2>6, Zenon
<1> QED
  BY <1>11, <1>12, <1>13, <1>14, ZenonT(30)

LEMMA RequeueKeeps ==
  ASSUME FileConstants, FileInv, RequeueFile
  PROVE  FileInv'
<1>1. /\ t.over /\ t' = [t EXCEPT !.over = FALSE] /\ files' = files
      /\ stored' \in {stored, NoRecord}
      /\ budget.again > 0 /\ budget' = [budget EXCEPT !.again = @ - 1]
  BY DEF RequeueFile
<1>2. budget' \in Scenario /\ budget'.found = budget.found /\ budget'.option = budget.option
  BY <1>1, InvFacts, BudgetSpent
<1>3. /\ t \in TaskSet /\ t.phase = "Idle" /\ t.jobs = <<>> /\ t.ended = <<>>
      /\ Sound(t, files[t.path], stored)
  BY <1>1, InvFacts
<1>4. /\ t' \in TaskSet /\ t'.phase = "Idle" /\ t'.jobs = <<>> /\ t'.ended = <<>> /\ ~t'.over
      /\ t'.stopping = t.stopping /\ t'.outcome = t.outcome /\ t'.opened = t.opened
      /\ t'.path = t.path /\ t'.p = t.p /\ t'.waiting = t.waiting
      /\ t'.unchecked = t.unchecked /\ t'.local = t.local /\ t'.hashes = t.hashes
  BY <1>1, <1>3, ZenonT(30) DEF TaskSet
<1>5. Values(<<>>) = {}
  BY FewValues
<1>6. Queue(t')
  BY <1>3, <1>4 DEF Sound, Queue
<1>7. Progress(t')
  BY <1>3, <1>4, ZenonT(30) DEF Sound, Progress, NeedsHashSet
<1>8. Verified(t', files[t.path])
  BY <1>4, <1>5 DEF Verified
<1>9. Recorded(t', files[t.path], stored')
  BY <1>1, <1>3, <1>4, <1>5 DEF Sound, Recorded
<1>10. Types'
  BY <1>1, <1>2, <1>4 DEF FileInv, Types
<1>11. Answering(t') /\ Found(t', files', budget')
  BY <1>1, <1>2, <1>3, <1>4, <1>5 DEF FileInv, Answering, Found
<1> QED
  BY <1>1, <1>4, <1>6, <1>7, <1>8, <1>9, <1>10, <1>11 DEF FileInv, Sound

LEMMA EditKeeps ==
  ASSUME FileConstants, FileInv, UserEdits
  PROVE  FileInv'
<1>1. /\ t.phase = "Idle" /\ ~t.over /\ budget.edits > 0 /\ t' = t
      /\ budget' = [budget EXCEPT !.edits = @ - 1]
      /\ stored' = IF stored = NoRecord THEN stored ELSE [stored EXCEPT !.current = FALSE]
  BY DEF UserEdits
<1>2. budget' \in Scenario /\ budget'.found = budget.found /\ budget'.option = budget.option
  BY <1>1, InvFacts, BudgetSpent
<1>3. PICK i \in PartIndexes :
        files' = [files EXCEPT ![t.path].data =
                    [o \in Offsets |-> IF o \in Part(i) THEN "wrong" ELSE @[o]]]
  BY DEF UserEdits
<1> DEFINE d == [o \in Offsets |-> IF o \in Part(i) THEN "wrong" ELSE files[t.path].data[o]]
           g == [files[t.path] EXCEPT !.data = d]
<1>4. /\ t \in TaskSet /\ t.path \in Paths /\ files \in [Paths -> FileSet]
      /\ files[t.path] \in FileSet /\ t.jobs = <<>> /\ t.ended = <<>>
      /\ stored \in RecordSet \cup {NoRecord} /\ Sound(t, files[t.path], stored)
  BY <1>1, InvFacts
<1>5. files' = [files EXCEPT ![t.path] = g]
  BY <1>3, <1>4
<1>6. d \in [Offsets -> Data] /\ \A o \in Offsets : d[o] = "wrong" \/ d[o] = files[t.path].data[o]
  BY <1>4 DEF FileSet, Data
<1> HIDE DEF d
<1>7. g \in FileSet /\ g.size = files[t.path].size /\ g.data = d
  BY <1>4, <1>6 DEF FileSet
<1> HIDE DEF g
<1>8. files' \in [Paths -> FileSet] /\ files'[t.path] = g
  BY <1>4, <1>5, <1>7
<1>9. stored # NoRecord => stored \in RecordSet
  BY <1>4
<1>10. Touches(stored, stored') /\ (stored' # NoRecord => ~stored'.current)
  <2>1. stored # NoRecord => [stored EXCEPT !.current = FALSE].current = FALSE
    BY <1>9 DEF RecordSet
  <2> QED
    BY <1>1, <2>1 DEF Touches
<1>11. /\ stored' \in RecordSet \cup {NoRecord} /\ (stored' = NoRecord <=> stored = NoRecord)
       /\ stored' # NoRecord => stored'.path = stored.path
  BY <1>4, <1>10, TouchedRecord
<1>12. Values(<<>>) = {}
  BY FewValues
<1>13. Verified(t, g)
  BY <1>1, <1>4, <1>12 DEF Verified
<1>14. Recorded(t, g, stored')
  BY <1>4, <1>7, <1>10, <1>11, <1>12 DEF Sound, Recorded
<1>15. Found(t, files', budget')
  <2>1. 0 \in Offsets
    BY DEF FileConstants, Offsets
  <2>2. t.path # "default" => files'["default"] = files["default"]
    BY <1>4, <1>5 DEF Paths
  <2>3. t.path = "default" => files'["default"].data = d /\ files'["default"].size = files["default"].size
    BY <1>7, <1>8
  <2> QED
    BY <1>2, <1>4, <1>6, <1>12, <2>1, <2>2, <2>3 DEF FileInv, Found
<1>16. Types'
  BY <1>1, <1>2, <1>4, <1>8, <1>11 DEF Types
<1> QED
  BY <1>1, <1>4, <1>8, <1>13, <1>14, <1>15, <1>16 DEF FileInv, Sound

LEMMA CrashKeeps ==
  ASSUME FileConstants, FileInv, FileCrash
  PROVE  /\ FileInv' /\ t'.phase = "Idle" /\ t'.over = FALSE /\ t'.stopping = FALSE
         /\ t'.p.claims = {}
<1> DEFINE path == IF stored = NoRecord THEN "default" ELSE stored.path
           p == IF stored = NoRecord THEN NoParts ELSE Restored(stored)
<1>1. /\ t' = [NewFileTask(budget.hashes) EXCEPT !.path = path, !.p = p]
      /\ files' = files /\ stored' = stored /\ budget.crashes > 0
      /\ budget' = [budget EXCEPT !.crashes = @ - 1, !.died = @ + 1]
  BY DEF FileCrash
<1>2. budget' \in Scenario /\ budget'.found = budget.found /\ budget'.option = budget.option
  BY <1>1, InvFacts, BudgetSpent
<1>3. /\ stored \in RecordSet \cup {NoRecord} /\ budget.hashes \in BOOLEAN
      /\ Recorded(t, files[t.path], stored)
  BY InvFacts DEF Sound, Scenario
<1>4. path \in Paths /\ (stored # NoRecord => path = t.path)
  BY <1>3 DEF Recorded, RecordSet, Paths
<1>5. /\ p \in PartsSet /\ p.claims = {} /\ (stored # NoRecord => p.verified = stored.parts)
      /\ \A i \in p.verified : Filled(p, i)
  <2>1. CASE stored = NoRecord
    BY <2>1, ZenonT(30) DEF NoParts, PartsSet
  <2>2. CASE stored # NoRecord
    <3>1. UNION {Part(i) : i \in stored.parts} \in SUBSET Offsets
      BY DEF Part
    <3>2. stored.parts \in SUBSET PartIndexes /\ stored.received \in SUBSET Offsets
      BY <1>3, <2>2 DEF RecordSet
    <3>3. /\ p \in PartsSet /\ p.claims = {} /\ p.verified = stored.parts
          /\ p.received = stored.received \cup UNION {Part(i) : i \in stored.parts}
      BY <2>2, <3>1, <3>2, ZenonT(30) DEF Restored, NoParts, PartsSet
    <3> QED
      BY <3>3 DEF Filled
  <2> QED
    BY <2>1, <2>2
<1> HIDE DEF path, p
<1>6. /\ t' \in TaskSet /\ t'.phase = "Idle" /\ t'.over = FALSE /\ t'.stopping = FALSE
      /\ t'.outcome = "Stop" /\ t'.opened = FALSE /\ t'.path = path /\ t'.p = p
      /\ t'.waiting = {} /\ t'.unchecked = FALSE /\ t'.local = {}
      /\ t'.jobs = <<>> /\ t'.ended = <<>>
  <2>1. <<>> \in Seq(Job) /\ <<>> \in Seq(End)
    BY FewValues
  <2> QED
    BY <1>1, <1>3, <1>4, <1>5, <2>1, ZenonT(30) DEF NewFileTask, TaskSet, Phases
<1>7. Values(<<>>) = {} /\ Ordered(<<>>)
  BY FewValues DEF Ordered
<1>8. Queue(t')
  BY <1>6, <1>7 DEF Queue
<1>9. Progress(t')
  BY <1>5, <1>6, <1>7 DEF Progress
<1>10. Verified(t', files[path])
  BY <1>6, <1>7 DEF Verified
<1>11. Recorded(t', files[path], stored)
  BY <1>3, <1>4, <1>5, <1>6, <1>7 DEF Recorded
<1>12. Answering(t') /\ Found(t', files', budget')
  BY <1>1, <1>2, <1>6, <1>7 DEF FileInv, Answering, Found
<1>13. Types'
  BY <1>1, <1>2, <1>6 DEF FileInv, Types
<1>14. FileInv'
  BY <1>1, <1>6, <1>8, <1>9, <1>10, <1>11, <1>12, <1>13 DEF FileInv, Sound
<1> QED
  BY <1>5, <1>6, <1>14

\* The strand executes a job of a running task.
LEMMA StrandKeeps ==
  ASSUME FileConstants, FileInv, StrandSucceeds \/ StrandFails
  PROVE  /\ FileInv' /\ t.jobs # <<>> /\ t'.phase = t.phase /\ t'.over = t.over
         /\ t'.stopping = t.stopping /\ t'.p = t.p
<1> DEFINE g == files[t.path]
           job == Head(t.jobs)
<1>0. /\ t \in TaskSet /\ t.path \in Paths /\ files \in [Paths -> FileSet]
      /\ g \in FileSet /\ stored \in RecordSet \cup {NoRecord} /\ Sound(t, g, stored)
      /\ t.phase # "Idle" => ~t.over
  BY InvFacts
<1>1. PICK error \in BOOLEAN : StrandRuns(error)
  BY Zenon DEF StrandSucceeds, StrandFails
<1>2. budget' \in Scenario /\ budget'.found = budget.found /\ budget'.option = budget.option
  BY InvFacts, BudgetSpent, Zenon DEF StrandSucceeds, StrandFails
<1>3. t.jobs # <<>> /\ t' = Ran(t, g, error)
  BY <1>1 DEF StrandRuns, Ran, Done
<1>4. RanFacts(t, g, error, t', job, Done(job, g, error))
  BY <1>0, <1>3, RanQueues
<1>5. /\ t' \in TaskSet /\ Values(t.jobs) = {job} \cup Values(t'.jobs) /\ job \in Job
      /\ t'.phase = t.phase /\ t'.over = t.over /\ t'.stopping = t.stopping
      /\ t'.outcome = t.outcome /\ t'.path = t.path /\ t'.p = t.p
  BY <1>4 DEF RanFacts
<1>. SUFFICES FileInv'
  BY <1>3, <1>5
<1>6. Answering(t')
  BY <1>5 DEF FileInv, Answering
<1>7. ASSUME NEW f \in FileSet, files' = [files EXCEPT ![t.path] = f],
             stored' \in RecordSet \cup {NoRecord}, Sound(t', f, stored'),
             f.size \in {g.size, "whole"},
             f.data[0] \in {"right", "wrong", g.data[0]} \/ (job.kind = "open" /\ job.truncate)
      PROVE  FileInv'
  <2>1. files'[t'.path] = f /\ files' \in [Paths -> FileSet]
    BY <1>0, <1>5, <1>7
  <2>2. Types'
    BY <1>2, <1>5, <1>7, <2>1 DEF Types
  <2>3. Found(t', files', budget')
    <3>1. SUFFICES ASSUME budget.found # "absent" /\ budget.option # "overwrite"
                   PROVE  /\ files'["default"].data[0] # "hole" /\ files'["default"].size # "absent"
                          /\ \A j \in Values(t'.jobs) :
                               j.kind = "open" /\ j.truncate => t'.path = "numbered"
      BY <1>2 DEF Found
    <3>2. /\ files["default"].data[0] # "hole" /\ files["default"].size # "absent"
          /\ \A j \in Values(t.jobs) : j.kind = "open" /\ j.truncate => t.path = "numbered"
      BY <3>1 DEF FileInv, Found
    <3>3. CASE t.path = "default"
      BY <1>5, <1>7, <2>1, <3>2, <3>3
    <3>4. CASE t.path # "default"
      <4>1. files'["default"] = files["default"]
        BY <1>0, <1>7, <3>4 DEF Paths
      <4> QED
        BY <1>5, <3>2, <4>1
    <3> QED
      BY <3>3, <3>4
  <2> QED
    BY <1>6, <1>7, <2>1, <2>2, <2>3 DEF FileInv
<1>8. CASE error = TRUE \/ job.kind \notin {"open", "write"}
  <2>1. stored' = stored /\ files' = [files EXCEPT ![t.path] = g]
    <3>1. CASE error = TRUE
      BY <1>0, <1>1, <3>1 DEF StrandRuns
    <3>2. CASE error = FALSE /\ job.kind \notin {"open", "write"}
      BY <1>0, <1>1, <3>2 DEF StrandRuns, Effect
    <3> QED
      BY <1>1, <1>8, <3>1, <3>2, ZenonT(30)
  <2>2. Sound(t', g, stored')
    BY <1>0, <1>3, <1>8, <2>1, RanKeeps, ZenonT(30)
  <2> QED
    BY <1>0, <1>7, <2>1, <2>2
<1>9. CASE error = FALSE /\ job.kind \in {"open", "write"}
  <2>1. Touches(stored, stored') /\ files' = [files EXCEPT ![t.path] = Effect(job, g)]
    BY <1>1, <1>9 DEF StrandRuns, Touch, Touches
  <2>2. stored' \in RecordSet \cup {NoRecord}
    BY <1>0, <2>1, TouchedRecord
  <2> DEFINE f == Effect(job, g)
  <2>3. CASE job.kind = "open"
    <3>1. /\ f \in FileSet /\ f.size = "whole" /\ Sound(Ran(t, g, FALSE), f, stored')
          /\ ~job.truncate => f.data = g.data
      BY <1>0, <1>3, <2>1, <2>3, OpenKeeps, ZenonT(40)
    <3> HIDE DEF f
    <3> QED
      BY <1>3, <1>7, <1>9, <2>1, <2>2, <2>3, <3>1 DEF f
  <2>4. CASE job.kind = "write"
    <3>1. f \in FileSet /\ f.size = g.size /\ Sound(Ran(t, g, FALSE), f, stored')
      BY <1>0, <1>3, <2>1, <2>4, WriteKeeps, ZenonT(40)
    <3>2. f.data[0] \in {"right", "wrong", g.data[0]}
      <4>1. job.data \in {"right", "wrong"} /\ 0 \in Offsets
        BY <1>5, <2>4 DEF Job, FileConstants, Offsets
      <4>2. f.data = [o \in Offsets |-> IF o \in job.block THEN job.data ELSE g.data[o]]
        BY <1>0, <2>4, Zenon DEF Effect, FileSet
      <4> QED
        BY <4>1, <4>2
    <3> HIDE DEF f
    <3> QED
      BY <1>3, <1>7, <1>9, <2>1, <2>2, <3>1, <3>2 DEF f
  <2> QED
    BY <1>9, <2>3, <2>4
<1> QED
  BY <1>1, <1>8, <1>9, Zenon

\* What requestBlocks() claims.
LEMMA RequestFacts ==
  ASSUME FileConstants, FileInv, NEW s \in Sources, RequestBlocks(s)
  PROVE  \E q, order, endgame :
           /\ t' = [t EXCEPT !.p = q] /\ t.phase = "Downloading"
           /\ files' = files /\ stored' = stored /\ budget' = budget
           /\ DOMAIN order \subseteq Nat /\ \A j \in DOMAIN order : order[j] \in PartIndexes
           /\ Claimed(t.p, q, s, order, endgame)
           /\ \/ endgame = FALSE
              \/ \A i \in Wanted(t.p, Available[s]) : Free(t.p, s, i, FALSE) = {}
<1> DEFINE mine == {c \in t.p.claims : c.owner = s}
           count == BlocksAhead - Cardinality(mine)
<1>1. t \in TaskSet /\ t.p \in PartsSet
  BY InvFacts DEF TaskSet
<1>2. mine \in SUBSET ClaimSet
  BY <1>1 DEF PartsSet
<1>3. Cardinality(mine) \in Nat
  BY <1>2, ClaimsFinite
<1>4. /\ Cardinality(mine) < BlocksAhead /\ t.phase = "Downloading"
      /\ files' = files /\ stored' = stored /\ budget' = budget
  BY DEF RequestBlocks
<1>5. PICK r \in Claim(t.p, s, Available[s], count, Rarity(t), Preview) : t' = [t EXCEPT !.p = r.p]
  BY Zenon DEF RequestBlocks
<1> HIDE DEF mine
<1>6. count \in Nat \ {0} /\ Available[s] \in SUBSET PartIndexes
  BY <1>3, <1>4 DEF FileConstants
<1> HIDE DEF count
<1>7. PICK order, endgame :
        /\ DOMAIN order \subseteq Nat /\ \A j \in DOMAIN order : order[j] \in PartIndexes
        /\ Claimed(t.p, r.p, s, order, endgame)
        /\ \/ endgame = FALSE
           \/ \A i \in Wanted(t.p, Available[s]) : Free(t.p, s, i, FALSE) = {}
  BY <1>1, <1>5, <1>6, ClaimKeeps, ZenonT(30)
<1> QED
  BY <1>4, <1>5, <1>7, Zenon

LEMMA RequestKeeps ==
  ASSUME FileConstants, FileInv, NEW s \in Sources, RequestBlocks(s)
  PROVE  FileInv'
<1>1. PICK q, order, endgame :
        /\ t' = [t EXCEPT !.p = q] /\ t.phase = "Downloading"
        /\ files' = files /\ stored' = stored /\ budget' = budget
        /\ DOMAIN order \subseteq Nat /\ \A j \in DOMAIN order : order[j] \in PartIndexes
        /\ Claimed(t.p, q, s, order, endgame)
  BY RequestFacts, Zenon
<1>2. /\ q \in PartsSet /\ q = [t.p EXCEPT !.claims = q.claims] /\ q.claims \in SUBSET ClaimSet
  BY <1>1 DEF Claimed, PartsSet
<1>3. t' = [t EXCEPT !.p = [@ EXCEPT !.claims = q.claims]]
  BY <1>1, <1>2, InvFacts, ZenonT(30) DEF TaskSet
<1>4. ASSUME NEW c \in q.claims PROVE c.block \subseteq Part(PartOf(Min(c.block)))
  <2>1. CASE c \in t.p.claims
    BY <2>1, InvFacts DEF Sound, Progress
  <2>2. CASE c \notin t.p.claims
    <3>1. PICK j \in DOMAIN order : c.block # {} /\ c.block \subseteq Free(t.p, s, order[j], endgame)
      BY <1>1, <1>4, <2>2 DEF Claimed
    <3>2. c.block \subseteq Part(order[j])
      BY <3>1 DEF Free
    <3>3. c.block \in SUBSET Nat
      BY <3>2 DEF Part, Offsets, FileConstants
    <3>4. Min(c.block) \in c.block
      BY <3>1, <3>3, LeastElement
    <3>5. PartOf(Min(c.block)) = order[j]
      BY <3>2, <3>4 DEF Part
    <3> QED
      BY <3>2, <3>5
  <2> QED
    BY <2>1, <2>2
<1>5. budget' \in Scenario /\ budget'.found = budget.found /\ budget'.option = budget.option
  BY <1>1, InvFacts
<1> QED
  BY <1>1, <1>2, <1>3, <1>4, <1>5, ClaimsInv

\* The states a behaviour starts in.
LEMMA InitKeeps ==
  ASSUME FileConstants, FileInit
  PROVE  FileInv
<1>1. budget \in Scenario /\ (budget.found = "short" => Count > 1)
  BY DEF FileInit, FileConstants
<1>2. t = NewFileTask(budget.hashes) /\ stored = NoRecord
  BY DEF FileInit
<1>3. /\ t \in TaskSet /\ t.phase = "Idle" /\ t.over = FALSE /\ t.stopping = FALSE
      /\ t.opened = FALSE /\ t.path = "default" /\ t.p = NoParts /\ t.waiting = {}
      /\ t.unchecked = FALSE /\ t.local = {} /\ t.jobs = <<>> /\ t.ended = <<>>
  <2>1. budget.hashes \in BOOLEAN /\ NoParts \in PartsSet /\ <<>> \in Seq(Job) /\ <<>> \in Seq(End)
    <3>1. budget.hashes \in BOOLEAN
      BY <1>1 DEF Scenario
    <3>2. NoParts \in PartsSet
      BY DEF NoParts, PartsSet
    <3>3. <<>> \in Seq(Job) /\ <<>> \in Seq(End)
      OBVIOUS
    <3> QED
      BY <3>1, <3>2, <3>3
  <2> QED
    BY <1>2, <2>1, ZenonT(30) DEF NewFileTask, TaskSet, Phases, Paths
<1>4. Values(<<>>) = {} /\ NoParts.verified = {} /\ NoParts.claims = {}
  BY FewValues DEF NoParts
<1>5. files \in [Paths -> FileSet]
  BY DEF FileInit, FileSet, Sizes
<1>6. Types
  BY <1>1, <1>2, <1>3, <1>5 DEF Types
<1>7. Ordered(<<>>)
  BY DEF Ordered
<1>8. Queue(t)
  BY <1>3, <1>4, <1>7 DEF Queue, AllOf
<1>9. Progress(t)
  BY <1>3, <1>4 DEF Progress
<1>10. Verified(t, files[t.path])
  BY <1>3, <1>4 DEF Verified
<1>11. Recorded(t, files[t.path], stored)
  BY <1>2, <1>3, <1>4 DEF Recorded
<1>12. Answering(t)
  BY <1>3 DEF Answering
<1>13. Found(t, files, budget)
  <2>1. SUFFICES ASSUME budget.found # "absent"
                 PROVE  files["default"].data[0] # "hole" /\ files["default"].size # "absent"
    BY <1>3, <1>4 DEF Found
  <2>2. 0 \in Offsets /\ PartOf(0) = 0 /\ "default" \in Paths
    BY DEF FileConstants, Offsets, PartOf, Paths
  <2>3. /\ files["default"].size = budget.found
        /\ files["default"].data[0] = "hole" <=>
              \/ files["default"].size = "absent"
              \/ (files["default"].size = "short" /\ PartOf(0) = Count - 1)
    BY <2>2 DEF FileInit
  <2>4. Count \in Int
    BY DEF FileConstants, Count
  <2> QED
    BY <1>1, <2>1, <2>2, <2>3, <2>4
<1> QED
  BY <1>6, <1>8, <1>9, <1>10, <1>11, <1>12, <1>13 DEF FileInv, Sound

LEMMA NextKeeps ==
  ASSUME FileConstants, FileInv, [FileNext]_fileVars
  PROVE  FileInv'
<1>1. CASE UNCHANGED fileVars
  BY <1>1 DEF fileVars, FileInv, Types
<1>2. CASE FileCompletion
  BY <1>2, CompletionKeeps, CloseEndKeeps
<1>3. CASE \E s \in Sources : RequestBlocks(s) \/ DeliverRight(s) \/ DeliverWrong(s) \/ SourceGone(s)
  BY <1>3, RequestKeeps, DeliverKeeps, GoneKeeps
<1> QED
  BY <1>1, <1>2, <1>3, StartKeeps, StopKeeps, HashSetKeeps, SharedKeeps, CheckpointKeeps,
     AgeKeeps, StrandKeeps, EditKeeps, RequeueKeeps, CrashKeeps, ZenonT(30) DEF FileNext

-----------------------------------------------------------------------------
(* What follows.                                                           *)

\* The task, its file and its record agree in every reachable state: what is verified is right
\* on disk and no queued write will spoil it, what is recorded was verified (Ed2kTask.cc).
THEOREM FileInvariant ==
  ASSUME FileConstants
  PROVE  FileSpec => []FileInv
<1>1. FileInit => FileInv
  BY InitKeeps
<1>2. FileInv /\ [FileNext]_fileVars => FileInv'
  BY NextKeeps
<1> QED
  BY <1>1, <1>2, PTL DEF FileSpec

\* Every part that a running task counts as verified, and so shares with other clients, is right
\* on disk (partVerified, acceptHashSet, checkAll).
THEOREM SharedIsRight ==
  ASSUME FileConstants
  PROVE  FileSpec => []VerifiedIsRight
<1>1. FileInv => VerifiedIsRight
  <2> SUFFICES ASSUME FileInv, t.phase \in {"Downloading", "Sharing"},
                      NEW i \in t.p.verified
               PROVE  Right(t.path, i)
    BY DEF VerifiedIsRight
  <2>1. Safe(t, files[t.path], i)
    BY InvFacts, ZenonT(30) DEF Sound, Verified
  <2> QED
    BY <2>1 DEF Safe, RightIn, Right
<1> QED
  BY <1>1, FileInvariant, PTL

\* A download that ends complete left the whole right file, a current record claims only parts
\* that are right, a file that was found keeps its data, and a claim lies in one part (finish,
\* checkpoint, open, Parts::claim).
THEOREM FileKept ==
  ASSUME FileConstants
  PROVE  FileSpec => []FileSound
<1>1. FileInv => FileSound
  <2> SUFFICES ASSUME FileInv PROVE FileSound
    OBVIOUS
  <2>1. /\ t \in TaskSet /\ t.p \in PartsSet /\ stored \in RecordSet \cup {NoRecord}
        /\ Progress(t) /\ Verified(t, files[t.path]) /\ Recorded(t, files[t.path], stored)
    BY InvFacts DEF Sound, TaskSet
  <2>2. t.phase \in Phases /\ t.path \in Paths
    BY <2>1 DEF TaskSet
  <2>3. t.p.received \subseteq Offsets /\ t.p.verified \subseteq PartIndexes
    BY <2>1 DEF PartsSet
  <2>4. stored = NoRecord \/ stored.path \in Paths
    BY <2>1 DEF RecordSet
  <2>5. FileTypeOK
    BY <2>1, <2>2, <2>3, <2>4, ZenonT(30) DEF FileTypeOK, Phases, Progress
  <2>6. CompleteIsWhole
    BY <2>1 DEF CompleteIsWhole, Verified, RightIn, Right
  <2>7. RecordIsRight
    BY <2>1 DEF RecordIsRight, Recorded, RightIn, Right
  <2>8. FoundFileKept
    BY DEF FoundFileKept, FileInv, Found
  <2> QED
    BY <2>5, <2>6, <2>7, <2>8 DEF FileSound
<1> QED
  BY <1>1, FileInvariant, PTL

\* Claims come only from requestBlocks(); every other step drops claims, or ages them.
LEMMA ClaimsOnlyRequested ==
  ASSUME FileConstants, FileInv, [FileNext]_fileVars, \A s \in Sources : ~RequestBlocks(s)
  PROVE  \A c \in t'.p.claims \ t.p.claims : c.old
<1>1. t \in TaskSet /\ t.p \in PartsSet
  BY InvFacts DEF TaskSet
<1>2. CASE UNCHANGED fileVars \/ CheckpointFile \/ UserEdits
  BY <1>2 DEF fileVars, CheckpointFile, UserEdits
<1>3. CASE StartFile \/ FileCrash
  BY <1>3, StartKeeps, CrashKeeps, Zenon
<1>4. CASE StopFile
  <2>1. FileInv' /\ t'.phase = "Closing"
    BY <1>4, StopKeeps
  <2>2. t'.p.claims = {}
    BY <2>1, ZenonT(30) DEF FileInv, Sound, Progress
  <2> QED
    BY <2>2
<1>5. CASE RequeueFile
  <2>1. t'.p = t.p
    BY <1>1, <1>5 DEF RequeueFile, TaskSet
  <2> QED
    BY <2>1
<1>6. CASE HashSetArrives \/ SharedEnough \/ \E s \in Sources : DeliverRight(s) \/ DeliverWrong(s)
  <2>1. Runs(t, t')
    BY <1>6, HashSetKeeps, SharedKeeps, DeliverKeeps
  <2> QED
    BY <2>1 DEF Runs
<1>7. CASE FileCompletion
  <2>1. CASE Head(t.ended).kind # "close"
    <3>1. Runs(t, t')
      BY <1>7, <2>1, CompletionKeeps
    <3> QED
      BY <3>1 DEF Runs
  <2>2. CASE Head(t.ended).kind = "close"
    <3>1. t' = Closed([t EXCEPT !.ended = Tail(@)])
      BY <1>7, <2>2, CloseEndKeeps
    <3>2. t'.p = t.p
      BY <1>1, <3>1 DEF Closed, TaskSet
    <3> QED
      BY <3>2
  <2> QED
    BY <2>1, <2>2
<1>8. CASE \E s \in Sources : SourceGone(s)
  <2>1. PICK s \in Sources : t' = [t EXCEPT !.p = ReleaseAll(@, s)]
    BY <1>8 DEF SourceGone
  <2>2. t'.p.claims \subseteq t.p.claims
    BY <1>1, <2>1 DEF ReleaseAll, TaskSet, PartsSet
  <2> QED
    BY <2>2
<1>9. CASE ClaimsAge
  <2>1. t' = [t EXCEPT !.p = Aged(@)]
    BY <1>9 DEF ClaimsAge
  <2>2. t'.p.claims = {[c EXCEPT !.old = TRUE] : c \in t.p.claims}
    BY <1>1, <2>1 DEF Aged, TaskSet, PartsSet
  <2>3. \A c \in t.p.claims : [c EXCEPT !.old = TRUE].old
    BY <1>1 DEF PartsSet, ClaimSet
  <2> QED
    BY <2>2, <2>3, ZenonT(30)
<1>10. CASE StrandSucceeds \/ StrandFails
  BY <1>10, StrandKeeps
<1> QED
  BY <1>2, <1>3, <1>4, <1>5, <1>6, <1>7, <1>8, <1>9, <1>10 DEF FileNext

\* Two sources work on the same block only when the later one found nothing unclaimed that it
\* could be asked for (Parts.cc, claim and claimGaps).
THEOREM EndgameLast ==
  ASSUME FileConstants
  PROVE  FileSpec => EndgameOnly
<1> DEFINE Late == \A c \in t'.p.claims \ t.p.claims, d \in t.p.claims :
                     c.owner # d.owner /\ ~c.old /\ c.block \cap d.block # {} =>
                       \A i \in Wanted(t.p, Available[c.owner]) : Free(t.p, c.owner, i, FALSE) = {}
<1>1. FileInv /\ [FileNext]_fileVars => Late
  <2> SUFFICES ASSUME FileInv, [FileNext]_fileVars,
                      NEW c \in t'.p.claims \ t.p.claims, NEW d \in t.p.claims,
                      c.owner # d.owner, ~c.old, c.block \cap d.block # {}
               PROVE  \A i \in Wanted(t.p, Available[c.owner]) : Free(t.p, c.owner, i, FALSE) = {}
    BY Zenon
  <2>1. PICK s \in Sources : RequestBlocks(s)
    BY ClaimsOnlyRequested
  <2>2. PICK q, order, endgame :
          /\ t' = [t EXCEPT !.p = q] /\ Claimed(t.p, q, s, order, endgame)
          /\ \/ endgame = FALSE
             \/ \A i \in Wanted(t.p, Available[s]) : Free(t.p, s, i, FALSE) = {}
    BY <2>1, RequestFacts, Zenon
  <2>3. t'.p = q
    BY <2>2, InvFacts DEF TaskSet
  <2>4. c.owner = s /\ \E j \in DOMAIN order : c.block \subseteq Free(t.p, s, order[j], endgame)
    BY <2>2, <2>3 DEF Claimed
  <2>5. ~Blocks(d, s, endgame)
    BY <2>4 DEF Free
  <2>6. endgame # FALSE
    BY <2>5, Zenon DEF Blocks
  <2> QED
    BY <2>2, <2>4, <2>6, Zenon
<1>2. FileInv /\ [FileNext]_fileVars => [Late]_fileVars
  BY <1>1, ZenonT(30)
<1> HIDE DEF Late
<1>3. FileSpec => [][Late]_fileVars
  BY <1>2, FileInvariant, PTL DEF FileSpec
<1> QED
  BY <1>3 DEF EndgameOnly, Late

\* A step in which the task neither starts nor stops nor ends is work, or is not seen.
LEMMA QuietIsWork ==
  ASSUME FileInv, t'.over = t.over, t'.stopping = t.stopping,
         t'.phase = "Idle" <=> t.phase = "Idle", budget'.died = budget.died,
         \/ t'.jobs = t.jobs /\ t'.ended = t.ended
         \/ t.phase # "Idle" /\ (t.stopping => Pending(t))
  PROVE  [FileContract!Next]_(FileContract!vars)
<1>1. FileMode' = FileMode
  BY DEF FileMode
<1>2. Pending(t) \in BOOLEAN /\ Pending(t)' \in BOOLEAN
  BY DEF Pending
<1>3. CASE Pending(t)' = Pending(t)
  BY <1>1, <1>3 DEF FileContract!vars
<1>4. CASE Pending(t)' # Pending(t)
  <2>1. t.phase # "Idle" /\ (t.stopping => Pending(t))
    BY <1>4 DEF Pending
  <2>2. ~t.over
    BY <2>1, InvFacts
  <2>3. FileMode = "busy" \/ (FileMode = "stopping" /\ Pending(t))
    BY <2>1, <2>2 DEF FileMode
  <2>4. FileContract!Work
    BY <1>1, <1>2, <2>3 DEF FileContract!Work
  <2> QED
    BY <2>4 DEF FileContract!Next
<1> QED
  BY <1>3, <1>4

\* Every step of the download is one the engine knows.
LEMMA ContractSteps ==
  ASSUME FileConstants, FileInv, FileInv', [FileNext]_fileVars
  PROVE  [FileContract!Next]_(FileContract!vars)
<1>1. /\ t \in TaskSet /\ budget \in Scenario
      /\ t.phase # "Idle" => ~t.over
      /\ t.phase = "Idle" => t.jobs = <<>> /\ t.ended = <<>>
  BY InvFacts
<1>2. /\ t.stopping => t.phase = "Closing"
      /\ t.phase = "Closing" /\ ~t.stopping => t.outcome # "Stop"
      /\ t.over => t.phase = "Idle"
  BY DEF FileInv, Answering
<1>3. /\ t'.stopping => t'.phase = "Closing"
      /\ t'.over => t'.phase = "Idle"
      /\ t'.phase = "Idle" => t'.jobs = <<>> /\ t'.ended = <<>>
  BY Zenon DEF FileInv, Answering, Sound, Queue
<1>5. CASE UNCHANGED fileVars \/ CheckpointFile \/ UserEdits
  <2>1. t' = t /\ budget'.died = budget.died
    BY <1>1, <1>5 DEF fileVars, CheckpointFile, UserEdits, Scenario
  <2> QED
    BY <2>1, QuietIsWork
<1>6. CASE StartFile
  <2>1. /\ t.phase = "Idle" /\ ~t.over /\ budget' = budget
        /\ (t'.over \/ t'.phase = "Opening") /\ (t'.over => t'.jobs = <<>> /\ t'.ended = <<>>)
        /\ t'.stopping = FALSE
    BY <1>6, StartKeeps, ZenonT(30) DEF StartFile
  <2>2. FileMode = "idle" /\ ~Pending(t)
    BY <1>1, <1>2, <2>1 DEF FileMode, Pending
  <2>3. CASE t'.over
    <3>1. FileMode' = "over" /\ Pending(t)' = Pending(t)
      BY <2>1, <2>2, <2>3 DEF FileMode, Pending
    <3> QED
      BY <2>1, <2>2, <3>1 DEF FileContract!Next, FileContract!StartFails
  <2>4. CASE ~t'.over
    <3>1. FileMode' = "busy"
      BY <2>1, <2>4 DEF FileMode
    <3>2. Pending(t)' \in BOOLEAN
      BY DEF Pending
    <3> QED
      BY <2>1, <2>2, <3>1, <3>2 DEF FileContract!Next, FileContract!Start
  <2> QED
    BY <2>3, <2>4
<1>7. CASE StopFile
  <2>1. /\ t.phase # "Idle" /\ ~t.stopping /\ t'.stopping /\ t'.over = t.over
        /\ budget' = [budget EXCEPT !.stops = @ - 1]
    BY <1>7, StopKeeps DEF StopFile
  <2>2. FileMode = "busy" /\ FileMode' = "stopping" /\ Pending(t)' \in BOOLEAN
    BY <1>1, <2>1 DEF FileMode, Pending
  <2>3. budget'.died = budget.died
    BY <1>1, <2>1 DEF Scenario
  <2> QED
    BY <2>2, <2>3 DEF FileContract!Next, FileContract!Stop
<1>8. CASE HashSetArrives \/ SharedEnough \/ \E s \in Sources : DeliverRight(s) \/ DeliverWrong(s)
  <2>1. Runs(t, t') /\ t.phase # "Idle"
    BY <1>8, HashSetKeeps, SharedKeeps, DeliverKeeps
  <2>2. budget'.died = budget.died /\ t.phase # "Closing"
    BY <1>1, <1>8, ZenonT(30) DEF HashSetArrives, SharedEnough, DeliverRight, DeliverWrong, Deliver, Scenario
  <2> QED
    BY <1>2, <2>1, <2>2, QuietIsWork DEF Runs
<1>9. CASE FileCompletion /\ Head(t.ended).kind # "close"
  <2>1. Runs(t, t') /\ t.phase # "Idle"
    BY <1>9, CompletionKeeps
  <2>2. budget'.died = budget.died /\ Pending(t)
    BY <1>9 DEF FileCompletion, Pending
  <2> QED
    BY <2>1, <2>2, QuietIsWork DEF Runs
<1>10. CASE FileCompletion /\ Head(t.ended).kind = "close"
  <2>1. t.phase = "Closing" /\ t' = Closed([t EXCEPT !.ended = Tail(@)]) /\ budget' = budget
    BY <1>10, CloseEndKeeps DEF FileCompletion
  <2>2. /\ t'.phase = "Idle" /\ ~t'.stopping
        /\ t'.over <=> ~t.stopping /\ t.outcome # "Stop"
    BY <1>1, <2>1, Zenon DEF Closed, TaskSet
  <2>3. ~Pending(t)' /\ Pending(t)' \in BOOLEAN
    BY <1>3, <2>2 DEF Pending
  <2>4. CASE t.stopping
    <3>1. FileMode = "stopping" /\ FileMode' = "idle"
      BY <1>1, <2>1, <2>2, <2>4 DEF FileMode
    <3> QED
      BY <2>1, <2>3, <3>1 DEF FileContract!Next, FileContract!Answer
  <2>5. CASE ~t.stopping
    <3>1. FileMode = "busy" /\ FileMode' = "over"
      BY <1>1, <1>2, <2>1, <2>2, <2>5 DEF FileMode
    <3> QED
      BY <2>1, <2>3, <3>1 DEF FileContract!Next, FileContract!End
  <2> QED
    BY <2>4, <2>5
<1>11. CASE StrandSucceeds \/ StrandFails
  <2>1. /\ t.jobs # <<>> /\ t'.phase = t.phase /\ t'.over = t.over /\ t'.stopping = t.stopping
    BY <1>11, StrandKeeps
  <2>2. budget'.died = budget.died /\ Pending(t) /\ t.phase # "Idle"
    BY <1>1, <1>11, <2>1, ZenonT(30) DEF StrandSucceeds, StrandFails, Scenario, Pending
  <2> QED
    BY <2>1, <2>2, QuietIsWork
<1>12. CASE ClaimsAge \/ \E s \in Sources : SourceGone(s) \/ RequestBlocks(s)
  <2>1. \E q : t' = [t EXCEPT !.p = q]
    BY <1>12, Zenon DEF ClaimsAge, SourceGone, RequestBlocks
  <2>2. /\ t'.phase = t.phase /\ t'.over = t.over /\ t'.stopping = t.stopping
        /\ t'.jobs = t.jobs /\ t'.ended = t.ended
    BY <1>1, <2>1 DEF TaskSet
  <2>3. budget'.died = budget.died
    BY <1>1, <1>12, ZenonT(30) DEF ClaimsAge, SourceGone, RequestBlocks, Scenario
  <2> QED
    BY <2>2, <2>3, QuietIsWork
<1>13. CASE RequeueFile
  <2>1. t.over /\ t' = [t EXCEPT !.over = FALSE] /\ budget' = [budget EXCEPT !.again = @ - 1]
    BY <1>13 DEF RequeueFile
  <2>2. ~t'.over /\ t'.stopping = t.stopping /\ t'.phase = t.phase
    BY <1>1, <2>1 DEF TaskSet
  <2>3. budget'.died = budget.died
    BY <1>1, <2>1 DEF Scenario
  <2>4. FileMode = "over" /\ FileMode' = "idle" /\ ~Pending(t) /\ Pending(t)' = Pending(t)
    BY <1>1, <1>2, <1>3, <2>1, <2>2 DEF FileMode, Pending
  <2> QED
    BY <2>3, <2>4 DEF FileContract!Next, FileContract!Again
<1>14. CASE FileCrash
  <2>1. /\ t'.phase = "Idle" /\ t'.over = FALSE /\ t'.stopping = FALSE
        /\ budget' = [budget EXCEPT !.crashes = @ - 1, !.died = @ + 1]
    BY <1>14, CrashKeeps DEF FileCrash
  <2>2. budget'.died = budget.died + 1
    BY <1>1, <2>1 DEF Scenario
  <2>3. FileMode' = "idle" /\ Pending(t)' = FALSE
    BY <1>3, <2>1 DEF FileMode, Pending
  <2> QED
    BY <2>2, <2>3 DEF FileContract!Next, FileContract!Crash
<1> QED
  BY <1>5, <1>6, <1>7, <1>8, <1>9, <1>10, <1>11, <1>12, <1>13, <1>14 DEF FileNext

\* What Ed2kTask promises the engine (core/Task.h): start() is answered by one end, stop() by
\* one `done`, and no job of the strand is left whenever the task is idle.
THEOREM FileIsATask ==
  ASSUME FileConstants
  PROVE  FileSpec => FileKeepsContract
<1>1. FileInit => FileContract!Init
  <2> SUFFICES ASSUME FileInit PROVE FileContract!Init
    OBVIOUS
  <2>1. t = NewFileTask(budget.hashes) /\ budget.died = 0
    BY DEF FileInit, FileConstants
  <2>2. /\ t.phase = "Idle" /\ ~t.over /\ ~t.stopping /\ t.jobs = <<>> /\ t.ended = <<>>
    BY <2>1 DEF NewFileTask
  <2> QED
    BY <2>1, <2>2 DEF FileContract!Init, FileMode, Pending
<1>2. FileInv /\ FileInv' /\ [FileNext]_fileVars => [FileContract!Next]_(FileContract!vars)
  BY ContractSteps
<1> QED
  BY <1>1, <1>2, FileInvariant, PTL DEF FileSpec, FileKeepsContract, FileContract!Spec
=============================================================================

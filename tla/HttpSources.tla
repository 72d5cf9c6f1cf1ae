---------------------------- MODULE HttpSources ----------------------------
(***************************************************************************)
(* Where an HTTP download's connections go: the mirrors of http/HttpTask,  *)
(* their destinations and the two address families of a dual-stack host.   *)
(* The download runs with byte ranges (Phase::Running); what the bytes are *)
(* is the business of HttpTransfer and how they are split that of          *)
(* SegmentPlanner, so a range is here a part nobody has delivered yet.     *)
(* Every slot keeps its failures; a connection knows the source it was     *)
(* started for by its index in sources_, and the model also by its URI.    *)
(* A time point in the future is a flag, waiting, which the clock clears.  *)
(* The world of a scenario says which families reach a server, which of    *)
(* them are fast, what the server answers and whether it redirects to a    *)
(* destination that expires.                                               *)
(***************************************************************************)
EXTENDS Integers, Sequences, FiniteSets, SequencesExt, FiniteSetsExt

CONSTANTS Slots,            \* split
          PerHost,          \* max-connection-per-server
          Parts,            \* how many ranges the file has
          SourceScenarios   \* the URIs, the world, max-tries and the budgets

VARIABLES hs,               \* the task
          luck              \* the world, and what may still happen in it

sourceVars == <<hs, luck>>

Families == {4, 6}

Other(f) == 10 - f

NoConn == [at |-> 0, uri |-> "none", part |-> 0, family |-> 0, over |-> 0,
           redirect |-> 0, state |-> "none"]

NewSource(uri) ==
  [uri |-> uri, redirect |-> 0, refreshing |-> FALSE, active |-> 0,
   failures |-> 0, waiting |-> FALSE, dead |-> FALSE, moved |-> FALSE,
   families |-> [f \in Families |->
     [worked |-> FALSE, failed |-> FALSE, forced |-> FALSE, speed |-> 0]]]

NewSlot == [conn |-> NoConn, failures |-> 0, waiting |-> FALSE]

Conn(h, k) == h.slots[k].conn

Running(h) == {k \in 1..Slots : Conn(h, k).state # "none"}

Receiving(h) == {k \in Running(h) : Conn(h, k).state = "receiving"}

Mirrors(h) == Len(h.sources) > 1

AllDead(h) == \A i \in 1..Len(h.sources) : h.sources[i].dead

Tries == luck.tries

Freed(slots) == FoldLeft(LAMBDA all, s : Append(all, [s EXCEPT !.conn = NoConn]), <<>>, slots)

Fail(h) == [h EXCEPT !.phase = "failed",
                     !.slots = Freed(@)]

-----------------------------------------------------------------------------
(* Choosing a source, a family and a range.                                *)

\* Entry points that expired are asked by one request at a time.
BeingAsked(h, i) ==
  \E k \in Running(h) : /\ Conn(h, k).at = i
                        /\ Conn(h, k).redirect = 0
                        /\ Conn(h, k).state # "receiving"

Usable(h, i) ==
  LET s == h.sources[i]
  IN /\ ~s.dead
     /\ s.active < PerHost
     /\ ~s.waiting
     /\ ~(s.refreshing /\ BeingAsked(h, i))

Before(s, t) == \/ s.failures < t.failures
                \/ s.failures = t.failures /\ s.active < t.active

\* The first of the best, or 0.
PickSource(h) ==
  LET usable == {i \in 1..Len(h.sources) : Usable(h, i)}
      best == {i \in usable : \A j \in usable : ~Before(h.sources[j], h.sources[i])}
  IN IF best = {} THEN 0 ELSE Min(best)

\* The family several times faster per connection, or 0.
FasterFamily(s) ==
  LET fam == s.families
      fast == {f \in Families : /\ \A g \in Families : fam[g].worked /\ fam[g].speed > 0
                                /\ fam[f].speed > fam[Other(f)].speed}
  IN IF fast = {} THEN 0 ELSE CHOOSE f \in fast : TRUE

FamilyFor(s, avoid) ==
  LET fam == s.families
      failed == {f \in Families : fam[f].failed}
      worked == {f \in Families : fam[f].worked}
      one(set) == CHOOSE f \in set : TRUE
  IN CASE Cardinality(failed) = 1 -> Other(one(failed))
       [] Cardinality(failed) = 2 -> 0
       [] failed = {} /\ avoid # 0 -> IF Other(avoid) \in worked THEN Other(avoid) ELSE 0
       [] failed = {} /\ avoid = 0 /\ Cardinality(worked) = 1 ->
            IF fam[Other(one(worked))].forced THEN one(worked) ELSE Other(one(worked))
       [] OTHER -> FasterFamily(s)

\* A range nobody fetches; at the end a second copy of one somebody does.
Assign(h) ==
  LET copies(p) == Cardinality({k \in Running(h) : Conn(h, k).part = p})
      free == {p \in h.parts : copies(p) = 0}
      raced == {p \in h.parts : copies(p) = 1}
  IN IF free # {} THEN Min(free) ELSE IF raced # {} THEN Min(raced) ELSE 0

ConnectionTarget(h) ==
  LET live == Cardinality({i \in 1..Len(h.sources) : ~h.sources[i].dead})
      target == Min({Slots, PerHost, live * PerHost})
  IN IF target < 1 THEN 1 ELSE target

StartWorker(h, k, i, part) ==
  LET s == h.sources[i]
      copies == {j \in Running(h) : Conn(h, j).part = part /\ Conn(h, j).at = i}
      avoid == IF copies = {} THEN 0 ELSE Conn(h, CHOOSE j \in copies : TRUE).over
      family == FamilyFor(s, avoid)
      marked == [f \in Families |->
        [s.families[f] EXCEPT !.forced = @ \/ f = family]]
  IN [h EXCEPT !.slots[k].conn = [at |-> i, uri |-> s.uri, part |-> part,
                                  family |-> family, over |-> 0,
                                  redirect |-> s.redirect, state |-> "dialing"],
               !.sources[i] = [s EXCEPT !.active = @ + 1, !.families = marked]]

LaunchSlot(h, k) ==
  LET i == PickSource(h)
      part == Assign(h)
  IN IF \/ k > ConnectionTarget(h)
        \/ k \in Running(h)
        \/ h.slots[k].waiting
        \/ Tries > 0 /\ h.slots[k].failures >= Tries /\ ~Mirrors(h)
        \/ i = 0
        \/ part = 0
     THEN h ELSE StartWorker(h, k, i, part)

Launch(h) ==
  IF h.phase # "running" THEN h
  ELSE FoldLeft(LAMBDA x, k : LaunchSlot(x, k), h, [k \in 1..Slots |-> k])

-----------------------------------------------------------------------------
(* A connection ends.                                                      *)

Retire(h, k) ==
  LET i == Conn(h, k).at
  IN [h EXCEPT !.sources[i].active = IF @ > 0 THEN @ - 1 ELSE 0,
               !.slots[k].conn = NoConn]

Exhausted(h) == \A k \in 1..Slots : h.slots[k].failures >= Tries

\* A bug: the task fails with the slot that spent its tries.
SlotFailedAlone(h, k) ==
  LET noted == [h EXCEPT !.slots[k].failures = Min({@ + 1, luck.cap}),
                         !.slots[k].waiting = ~Mirrors(h)]
  IN IF Tries > 0 /\ noted.slots[k].failures >= Tries THEN Fail(noted) ELSE noted

SlotFailed(h, k) ==
  LET noted == [h EXCEPT !.slots[k].failures = Min({@ + 1, luck.cap}),
                         !.slots[k].waiting = ~Mirrors(h)]
  IN IF /\ Tries > 0
        /\ Running(noted) = {}
        /\ IF Mirrors(h) THEN AllDead(h) ELSE Exhausted(noted)
     THEN Fail(noted) ELSE noted

\* A failure on one family is the route's fault while the other family is
\* untried or works: Blames says whether the request is repeated at once.
BlamedFamily(h, k) ==
  IF Conn(h, k).over # 0 THEN Conn(h, k).over ELSE Conn(h, k).family

Blames(h, k, kind) ==
  LET f == BlamedFamily(h, k)
      fam == h.sources[Conn(h, k).at].families
  IN /\ kind \in {"path", "missing", "expired"}
     /\ f # 0
     /\ ~fam[Other(f)].failed
     /\ ~fam[f].worked
     /\ kind = "path" \/ fam[Other(f)].worked

\* The source after blameFamily: effective is the destination the request
\* had reached.
\* A bug: the blamed family is not remembered.
BlameForgets(h, k, kind, effective) == h

BlameFamily(h, k, kind, effective) ==
  LET f == BlamedFamily(h, k)
      i == Conn(h, k).at
      fam == h.sources[i].families
  IN IF kind \notin {"path", "missing", "expired"} \/ f = 0 THEN h
     ELSE IF fam[Other(f)].failed
     THEN [h EXCEPT !.sources[i].families[f].failed = TRUE]
     ELSE IF ~Blames(h, k, kind) \/ fam[f].failed THEN h
     ELSE [h EXCEPT !.sources[i].families[f].failed = TRUE,
                    !.sources[i].redirect = IF effective # 0 THEN effective ELSE @]

\* Counts the failure against the source; a mirror backs off alone and is
\* given up after max-tries.
Counted(h, i) ==
  [h EXCEPT !.sources[i].failures = Min({@ + 1, luck.cap}),
            !.sources[i].waiting = @ \/ Mirrors(h),
            !.sources[i].dead = @ \/ (/\ Mirrors(h)
                                      /\ Tries > 0
                                      /\ h.sources[i].failures + 1 >= Tries)]

Dead(h, i) == [h EXCEPT !.sources[i].dead = TRUE]

\* 429 and 503: the source waits; nothing else getting through makes it a
\* failed attempt of the slot.
Overloaded(h, k, i) ==
  LET paused == [h EXCEPT !.sources[i].waiting = TRUE]
  IN IF AllDead(h) THEN Fail(h)
     ELSE IF Receiving(h) = {} THEN SlotFailed(paused, k)
     ELSE [paused EXCEPT !.slots[k].waiting = @ \/ ~Mirrors(h)]

FailedResponse(h, k, kind, effective) ==
  LET i == Conn(h, k).at
      blamed == Blames(h, k, kind)
      retired == Retire(BlameFamily(h, k, kind, effective), k)
      counted == Counted(retired, i)
  IN CASE blamed -> Launch([retired EXCEPT !.slots[k].waiting = FALSE])
       [] ~blamed /\ kind = "expired" ->
            Launch(IF retired.sources[i].redirect = 0 THEN retired
                   ELSE [retired EXCEPT !.sources[i].redirect = 0,
                                        !.sources[i].refreshing = TRUE])
       [] ~blamed /\ kind = "busy" -> Overloaded(counted, k, i)
       [] ~blamed /\ kind \in {"missing", "permanent"} ->
            IF AllDead(Dead(counted, i)) THEN Fail(Dead(counted, i))
            ELSE SlotFailed(Dead(counted, i), k)
       [] OTHER -> SlotFailed(counted, k)

\* A mirror that disagrees with the download is dropped while others remain;
\* otherwise the file changed and the transfer restarts (HttpTransfer).
DropMirror(h, k) ==
  LET i == Conn(h, k).at
  IN IF \E j \in 1..Len(h.sources) : j # i /\ ~h.sources[j].dead
     THEN SlotFailed(Retire(Dead(h, i), k), k)
     ELSE [h EXCEPT !.phase = "changed"]

Accept(h, k, effective) ==
  LET c == Conn(h, k)
  IN [h EXCEPT !.slots[k].conn.state = "receiving",
               !.sources[c.at].failures = 0,
               !.sources[c.at].families[c.over].worked = TRUE,
               !.sources[c.at].refreshing = @ /\ c.redirect # 0,
               !.sources[c.at].redirect =
                 IF c.redirect = 0 /\ effective # 0 THEN effective ELSE @]

Finished(h, k) ==
  LET rest == [Retire(h, k) EXCEPT !.parts = @ \ {Conn(h, k).part}]
  IN IF rest.parts = {}
     THEN [rest EXCEPT !.phase = "done",
                       !.slots = Freed(@)]
     ELSE Launch(rest)

-----------------------------------------------------------------------------
(* The tick: measuring, leaving a slow family, replacing a slow connection.*)

Speed(uri, f) == IF f \in luck.world[uri].fast THEN 2 ELSE 1

MeasureFamilies(h) ==
  LET carried(i) == {Conn(h, k).over : k \in {j \in Receiving(h) : Conn(h, j).at = i}}
      measured(s, i) == [s EXCEPT !.families = [f \in Families |->
        IF f \in carried(i) THEN [@[f] EXCEPT !.speed = Speed(s.uri, f)] ELSE @[f]]]
  IN [h EXCEPT !.sources = FoldLeft(LAMBDA all, s : Append(all, measured(s, Len(all) + 1)), <<>>, @)]

\* Once per source, the connections of the slow family are moved over.
LeaveSlowFamily(h) ==
  LET slowOf(i) == IF FasterFamily(h.sources[i]) = 0 THEN 0
                   ELSE Other(FasterFamily(h.sources[i]))
      moves(i) == /\ slowOf(i) # 0
                  /\ ~h.sources[i].moved
                  /\ \A f \in Families : ~h.sources[i].families[f].failed
      moving(i) == {k \in Running(h) : /\ Conn(h, k).at = i
                                       /\ Conn(h, k).over = slowOf(i)}
      cancelled(x, k) == [Retire(x, k) EXCEPT !.slots[k].waiting = FALSE]
      leave(x, i) == IF ~moves(i) \/ moving(i) = {} THEN x
                     ELSE [FoldSet(LAMBDA k, y : cancelled(y, k), x, moving(i))
                           EXCEPT !.sources[i].moved = TRUE]
  IN FoldLeft(leave, h, [i \in 1..Len(h.sources) |-> i])

\* A connection that delivers nothing for a while is cancelled.
Stalls(h, k) == SlotFailed(Retire(h, k), k)

Slow(h, k) ==
  /\ k \in Receiving(h)
  /\ Speed(Conn(h, k).uri, Conn(h, k).over) = 1
  /\ \E j \in Receiving(h) : Speed(Conn(h, j).uri, Conn(h, j).over) = 2

\* The last replacement is judged before the next one is made.
RecycleSlow(h, k) ==
  IF h.recycled # 0
  THEN IF \/ h.recycled \in Receiving(h)
          \/ h.recycled \notin Running(h)
       THEN [h EXCEPT !.recycled = 0] ELSE h
  ELSE IF k = 0 THEN h
  ELSE [Retire(h, k) EXCEPT !.slots[k].waiting = FALSE, !.recycled = k]

\* stalled and slow are the connections that stalled or stayed slow, or 0.
Ticked(h, stalled, slow) ==
  LET moved == LeaveSlowFamily(MeasureFamilies(h))
      cut == IF stalled \in Running(moved) THEN Stalls(moved, stalled) ELSE moved
      cleared == RecycleSlow(cut, IF slow \in Running(cut) THEN slow ELSE 0)
  IN IF cut.phase = "running" THEN Launch(cleared) ELSE cut

-----------------------------------------------------------------------------
(* aria2.changeUri removes sources without connections and inserts new     *)
(* ones; the connections keep their indices.                               *)

Edited(h, removed, added, position) ==
  LET found == {i \in 1..Len(h.sources) : h.sources[i].uri = removed}
      gone == IF found # {} /\ h.sources[Min(found)].active = 0
              THEN RemoveAt(h.sources, Min(found)) ELSE h.sources
      at == IF position < 0 \/ position > Len(gone) THEN Len(gone) ELSE position
  IN IF added = "none" THEN gone ELSE InsertAt(gone, at + 1, NewSource(added))

ChangeUris(h, removed, added, position) ==
  Launch([h EXCEPT !.sources = Edited(h, removed, added, position)])

\* The edit moves a source that has connections to another index.
Shifts(h, removed, added, position) ==
  LET after == Edited(h, removed, added, position)
  IN \E k \in Running(h) : LET c == Conn(h, k)
                           IN c.at > Len(after) \/ after[c.at].uri # c.uri

-----------------------------------------------------------------------------
(* The steps. The world decides where a connection leads and what is       *)
(* answered there; luck bounds what goes wrong.                            *)

Effective(c) == IF c.redirect # 0 THEN c.redirect ELSE luck.gen[c.uri]

Active == hs.phase = "running"

Spent(field) == [luck EXCEPT ![field] = @ - 1]

\* Detours are the repetitions that spend no try, counted for each URI.
Failing(k, kind, rest) ==
  LET c == Conn(hs, k)
  IN /\ hs' = FailedResponse(hs, k, kind, Effective(c))
     /\ luck' = IF Blames(hs, k, kind)
                THEN [rest EXCEPT !.detours[c.uri] = Min({@ + 1, Slots + 1})]
                ELSE rest

Reachable(c) ==
  LET up == luck.world[c.uri].up
  IN IF c.family = 0 THEN up ELSE up \cap {c.family}

Connect(k) ==
  /\ Active /\ Conn(hs, k).state = "dialing"
  /\ \E f \in Reachable(Conn(hs, k)) :
       hs' = [hs EXCEPT !.slots[k].conn.state = "connected",
                        !.slots[k].conn.over = f]
  /\ UNCHANGED luck

ConnectFails(k) ==
  /\ Active /\ Conn(hs, k).state = "dialing"
  /\ Reachable(Conn(hs, k)) = {}
  /\ Failing(k, "path", luck)

Expired(c) == c.redirect # 0 /\ c.redirect # luck.gen[c.uri]

Respond(k) ==
  LET c == Conn(hs, k)
      answer == luck.world[c.uri].answer
  IN /\ Active /\ c.state = "connected"
     /\ \/ Expired(c) /\ Failing(k, "expired", luck)
        \/ /\ ~Expired(c) /\ answer = "ok"
           /\ hs' = Accept(hs, k, Effective(c)) /\ UNCHANGED luck
        \/ /\ ~Expired(c) /\ answer = "other"
           /\ hs' = DropMirror(hs, k) /\ UNCHANGED luck
        \/ /\ ~Expired(c) /\ answer \in {"missing", "permanent"}
           /\ Failing(k, answer, luck)

Busy(k) ==
  /\ Active /\ Conn(hs, k).state = "connected"
  /\ luck.busies > 0
  /\ Failing(k, "busy", Spent("busies"))

Break(k) ==
  /\ Active /\ Conn(hs, k).state \in {"connected", "receiving"}
  /\ luck.breaks > 0
  /\ Failing(k, "path", Spent("breaks"))

Finish(k) ==
  /\ Active /\ k \in Receiving(hs)
  /\ hs' = Finished(hs, k)
  /\ UNCHANGED luck

Tick ==
  /\ Active
  /\ \E stalled \in {0} \cup {k \in Running(hs) : Conn(hs, k).over # 0},
        slow \in {0} \cup {k \in Running(hs) : Slow(hs, k)} :
       /\ stalled # 0 => luck.stalls > 0
       /\ slow # 0 => luck.recycles > 0
       /\ hs' = Ticked(hs, stalled, slow)
       /\ luck' = [luck EXCEPT !.stalls = IF stalled # 0 THEN @ - 1 ELSE @,
                               !.recycles = IF slow # 0 THEN @ - 1 ELSE @]

\* A back-off is over.
WaitOver ==
  /\ Active
  /\ \/ \E i \in 1..Len(hs.sources) :
          /\ hs.sources[i].waiting
          /\ hs' = [hs EXCEPT !.sources[i].waiting = FALSE]
     \/ \E k \in 1..Slots :
          /\ hs.slots[k].waiting
          /\ hs' = [hs EXCEPT !.slots[k].waiting = FALSE]
  /\ UNCHANGED luck

\* A signed destination expires; the URI hands out a new one.
Expire ==
  /\ Active /\ luck.expiries > 0
  /\ \E uri \in DOMAIN luck.gen :
       /\ luck.gen[uri] > 0
       /\ luck' = [luck EXCEPT !.gen[uri] = @ + 1, !.expiries = @ - 1]
  /\ UNCHANGED hs

Change ==
  /\ Active /\ luck.changes # {}
  /\ \E c \in luck.changes :
       /\ luck.shifts \/ ~Shifts(hs, c.removed, c.added, c.position)
       /\ hs' = ChangeUris(hs, c.removed, c.added, c.position)
       /\ luck' = [luck EXCEPT !.changes = @ \ {c}]

-----------------------------------------------------------------------------
SourceInit ==
  \E sc \in SourceScenarios :
    /\ luck = sc
    /\ hs = [sources |-> FoldLeft(LAMBDA all, uri : Append(all, NewSource(uri)), <<>>, sc.uris),
             slots |-> [k \in 1..Slots |-> NewSlot],
             parts |-> 1..Parts, recycled |-> 0, phase |-> "running"]

Step(k) == Connect(k) \/ ConnectFails(k) \/ Respond(k) \/ Finish(k)

SourceNext ==
  \/ \E k \in 1..Slots : Step(k) \/ Busy(k) \/ Break(k)
  \/ Tick \/ WaitOver \/ Expire \/ Change

SourceSpec == SourceInit /\ [][SourceNext]_sourceVars

-----------------------------------------------------------------------------
SourceTypeOK ==
  /\ hs.phase \in {"running", "failed", "changed", "done"}
  /\ hs.parts \subseteq 1..Parts
  /\ hs.recycled \in 0..Slots
  /\ \A i \in 1..Len(hs.sources) :
       /\ hs.sources[i].active \in 0..PerHost
       /\ hs.sources[i].failures \in 0..luck.cap
  /\ \A k \in 1..Slots :
       /\ hs.slots[k].failures \in 0..luck.cap
       /\ Conn(hs, k).at \in 0..Len(hs.sources)
       /\ Conn(hs, k).state \in {"none", "dialing", "connected", "receiving"}

\* A connection's index names the source it was started for, and a source's
\* count of connections is exact: a failure, a family and a validator are
\* noted at the mirror that gave them (sources_[worker.source]).
OwnSource ==
  Active =>
    /\ \A k \in Running(hs) : hs.sources[Conn(hs, k).at].uri = Conn(hs, k).uri
    /\ \A i \in 1..Len(hs.sources) :
         hs.sources[i].active = Cardinality({k \in Running(hs) : Conn(hs, k).at = i})

\* At most one request at a time asks an entry point whose destination
\* expired for a new one (Source::refreshing).
OneRefresh ==
  \A i \in 1..Len(hs.sources) :
    hs.sources[i].refreshing =>
      Cardinality({k \in Running(hs) : /\ Conn(hs, k).at = i
                                       /\ Conn(hs, k).redirect = 0
                                       /\ Conn(hs, k).state # "receiving"}) <= 1

\* blameFamily repeats a request without spending a try only for the
\* connections that were under way when the family was blamed: no detour is
\* endless.
DetoursBounded == \A uri \in DOMAIN luck.detours : luck.detours[uri] <= Slots

Healthy(uri) == luck.world[uri].up # {} /\ luck.world[uri].answer = "ok"

\* A download one of whose sources answers over some family does not fail
\* because the other family leads nowhere, a mirror is broken or a
\* destination expires: with tries to spend only real failures spend them,
\* and a failure counts against the mirror that had it (failedResponse(),
\* changeUris()).
HealthySuffices ==
  hs.phase = "failed" =>
    \/ ~luck.calm
    \/ \A i \in 1..Len(hs.sources) : ~Healthy(hs.sources[i].uri)

\* The task fails with the last of its mirrors (slotFailed) and is not left
\* running otherwise: while it runs there is a connection, a back-off whose
\* end allows one, or a source the next tick opens one to.
NeverStuck ==
  Active =>
    \/ Running(hs) # {}
    \/ \E i \in 1..Len(hs.sources) : hs.sources[i].waiting /\ ~hs.sources[i].dead
    \/ \E k \in 1..Slots : hs.slots[k].waiting
    \/ Running(Launch(hs)) # {}

=============================================================================

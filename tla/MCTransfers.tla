---------------------------- MODULE MCTransfers ----------------------------
(***************************************************************************)
(* How a file is fetched over HTTP: small instances of SegmentPlanner,     *)
(* RangeSet, HttpSources and HostPool.  They share no state, so one run    *)
(* checks them side by side: scene says which of them a behaviour is       *)
(* about; the others stay as they are initially.                           *)
(***************************************************************************)
EXTENDS SegmentPlanner

CONSTANTS
  Scenes,            \* the instances that are checked
  SourceScenarios    \* of HttpSources

VARIABLES
  scene,
  ranges, bytes,                                         \* RangeSet
  hs, luck,                                              \* HttpSources
  joined, demand, hosts, allowances, stale, overloads    \* HostPool

-----------------------------------------------------------------------------
(* SegmentPlanner: the instance of the configuration.  RangeSet: 8 bytes.  *)
Set == INSTANCE RangeSet WITH Limit <- 8

-----------------------------------------------------------------------------
(* HttpSources: what each URI's server can be reached over, how fast, and  *)
(* what it answers.                                                        *)
W(up, fast, answer) == [up |-> up, fast |-> fast, answer |-> answer]
S(uris, world, moved) ==
  [uris |-> uris, world |-> world, tries |-> 0, cap |-> 2, calm |-> TRUE,
   gen |-> [u \in DOMAIN world |-> IF u \in moved THEN 1 ELSE 0],
   detours |-> [u \in DOMAIN world |-> 0], changes |-> {}, shifts |-> FALSE,
   busies |-> 0, breaks |-> 0, stalls |-> 0, expiries |-> 0, recycles |-> 0]
One(w) == [a |-> w]
Two(v, w) == [a |-> v, b |-> w]
Change(removed, added, at) == {[removed |-> removed, added |-> added, position |-> at]}

\* One server whose families differ in reach and speed, that redirects, whose
\* redirect expires, that is unreachable or serves another file; two mirrors of
\* which one is missing, wrong or removed, in front of the other or behind it; a
\* mirror that is added, at either end.
MCSources ==
  {[S(<<"a">>, One(W({6}, {6}, "ok")), {}) EXCEPT !.tries = 1],
   [S(<<"a">>, One(W({4, 6}, {6}, "ok")), {}) EXCEPT !.recycles = 1, !.stalls = 1],
   [S(<<"a">>, One(W({4, 6}, {6}, "ok")), {"a"}) EXCEPT !.expiries = 1, !.tries = 1],
   [S(<<"a">>, One(W({4}, {6}, "ok")), {"a"}) EXCEPT !.expiries = 1, !.tries = 1],
   [S(<<"a">>, One(W({4, 6}, {4, 6}, "ok")), {}) EXCEPT !.breaks = 1, !.calm = FALSE, !.tries = 1],
   [S(<<"a">>, One(W({}, {}, "ok")), {}) EXCEPT !.tries = 2],
   S(<<"a">>, One(W({4}, {4}, "other")), {}),
   [S(<<"a", "b">>, Two(W({4}, {4}, "missing"), W({6}, {6}, "ok")), {}) EXCEPT !.tries = 1],
   [S(<<"a", "b">>, Two(W({6}, {6}, "other"), W({4}, {4}, "ok")), {}) EXCEPT !.busies = 1],
   [S(<<"a", "b">>, Two(W({4}, {6}, "ok"), W({}, {6}, "permanent")), {})
     EXCEPT !.changes = Change("b", "none", -1)],
   [S(<<"a">>, Two(W({4}, {4}, "ok"), W({6}, {6}, "ok")), {})
     EXCEPT !.changes = Change("none", "b", 1)],
   [S(<<"a">>, Two(W({4}, {4}, "ok"), W({6}, {6}, "ok")), {})
     EXCEPT !.changes = Change("none", "b", 0), !.breaks = 1],
   [S(<<"a", "b">>, Two(W({4}, {4}, "missing"), W({6}, {6}, "ok")), {})
     EXCEPT !.changes = Change("a", "none", -1), !.breaks = 1]}

\* A mirror is inserted in front of one that is being asked and does not have the
\* file.
MirrorInserted ==
  {[S(<<"a">>, Two(W({4}, {4}, "missing"), W({6}, {6}, "ok")), {})
     EXCEPT !.changes = Change("none", "b", 0), !.shifts = TRUE]}

\* The last connection ends while the other mirror is already given up.
MirrorGivenUp ==
  {[S(<<"a", "b">>, Two(W({4}, {6}, "ok"), W({4}, {6}, "missing")), {})
     EXCEPT !.tries = 1, !.breaks = 1]}

Sources == INSTANCE HttpSources WITH Slots <- 2, PerHost <- 2, Parts <- 2

-----------------------------------------------------------------------------
(* HostPool: two downloads, two servers.                                   *)
Wants(wanted, remaining, transferring) ==
  [wanted |-> wanted, remaining |-> remaining, transferring |-> transferring]

Pool == INSTANCE HostPool WITH
  Members <- {1, 2}, Hosts <- {"a", "b"},
  Demands <- {Wants(1, -1, 0), Wants(3, 4, 1), Wants(3, 1, 2)},
  Calm <- 2, MaxPause <- 2, Waits <- {2}, MaxAge <- 1, MaxOverloads <- 2

-----------------------------------------------------------------------------
setVars == <<ranges, bytes>>
sourceVars == <<hs, luck>>
poolVars == <<joined, demand, hosts, allowances, stale, overloads>>
allVars == <<scene, vars, setVars, sourceVars, poolVars>>

MCInit ==
  /\ scene \in Scenes
  /\ Init
  /\ scene = "planner" \/ phase = "Probing"
  /\ Set!Init
  /\ Sources!SourceInit
  /\ scene = "sources" \/ luck = CHOOSE s \in SourceScenarios : TRUE
  /\ Pool!Init

\* Only a plan must never come to a halt: it has Terminated.
Stop == scene # "planner" /\ UNCHANGED allVars

MCNext ==
  \/ scene = "planner" /\ Next /\ UNCHANGED <<scene, setVars, sourceVars, poolVars>>
  \/ scene = "set" /\ Set!Next /\ UNCHANGED <<scene, vars, sourceVars, poolVars>>
  \/ scene = "sources" /\ Sources!SourceNext /\ UNCHANGED <<scene, vars, setVars, poolVars>>
  \/ scene = "pool" /\ Pool!Next /\ UNCHANGED <<scene, vars, setVars, sourceVars>>
  \/ Stop

MCSpec == MCInit /\ [][MCNext]_allVars

-----------------------------------------------------------------------------

\* RangeSet: the ranges stand for exactly the offsets that were added and
\* not erased, in their canonical form, after any sequence of calls
\* (Ranges.cc).
SetExact == scene = "set" => Set!Exact

\* RangeSet: what contains(), covered(), firstGap() and total() return is
\* what the set of offsets says (Ranges.cc).
SetQueriesExact == scene = "set" => Set!QueriesExact

\* HttpTask's sources: a connection's index names the source it was started
\* for, and a source's count of connections is exact, so a failure is noted
\* at the mirror that caused it (startWorker, retireWorker, slotFailed).
OwnSource == scene = "sources" => Sources!OwnSource

\* At most one request at a time asks an entry point whose redirect expired
\* for a new destination (HttpTask, Source::refreshing).
OneRefresh == scene = "sources" => Sources!OneRefresh

\* blameFamily repeats a request without spending a try only for the
\* connections that were under way when the address family was blamed: no
\* detour is endless.
DetoursBounded == scene = "sources" => Sources!DetoursBounded

\* A download with one source that answers over one address family does not
\* fail because of the others (HttpTask, slotFailed, blameFamily).
HealthySuffices == scene = "sources" => Sources!HealthySuffices

\* A running download has a connection, a back-off that ends, or a source
\* the next tick connects to: it fails with the last of its mirrors and
\* never idles (HttpTask, slotFailed, launch).
NeverStuck == scene = "sources" => Sources!NeverStuck

\* HostPool: the cached allowances are those allocate() would give now,
\* whenever stale_ is clear.
CacheFresh == scene = "pool" => Pool!CacheFresh

\* HostPool: the seats of a limited host are dealt out by D'Hondt's method,
\* none beyond the limit, none kept back, the first ones in joining order
\* (allocate).
FairSeats == scene = "pool" => Pool!FairSeats

\* HostPool: a learnt limit is never below the connections the server is
\* serving (update).
LimitCoversTransfers == scene = "pool" => Pool!LimitCoversTransfers

\* HostPool: the wait a server asked for is shortened by time alone; no
\* answer, update or recovery brings the next request forward (overloaded,
\* update).
PausesKept == Pool!PausesKept

\* SegmentPlanner: the bytes counted as received are those handed to the file, and
\* a download is done only with all of them (receive, forget, complete).
FileExact == TypeOK /\ ReceivedIsDelivered /\ DoneIsWhole

\* SegmentPlanner: no connection is asked for bytes outside its request, and none
\* for bytes of another but in a race (assign, split, race, setLength).
WorkExact == InsideRequest /\ NoDoubleWork

\* RangeSet is the set of bytes it stands for, in canonical form, and so are its
\* answers, after any sequence of add() and remove() (Ranges.cc).
RangesExact == SetExact /\ SetQueriesExact

\* HttpTask's account of its sources is exact: connections, refreshes of an expired
\* redirect, and detours that spend no try (startWorker, blameFamily).
SourcesExact ==
  /\ scene = "sources" => Sources!SourceTypeOK
  /\ OwnSource
  /\ OneRefresh
  /\ DetoursBounded

\* One source that answers is enough, and without one the task ends: it never
\* idles (HttpTask, slotFailed, launch).
SourcesSuffice == HealthySuffices /\ NeverStuck

\* HostPool's allowances are current, fair and never below what the server is
\* serving (allocate, update).
SeatsExact == CacheFresh /\ FairSeats /\ LimitCoversTransfers
=============================================================================

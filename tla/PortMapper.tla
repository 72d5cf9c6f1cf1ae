----------------------------- MODULE PortMapper -----------------------------
(***************************************************************************)
(* net/PortMapper.cc and Network::updatePortMapping() (ed2k/Network.cc):   *)
(* the ports of the ED2K network are forwarded on a UPnP gateway, renewed  *)
(* before their lease ends, and removed when the network closes or the     *)
(* option is turned off.                                                   *)
(*                                                                         *)
(* A mapper has two coroutines, run() and the one close() starts.  Each    *)
(* sends SOAP requests; the gateway executes a request some time after it  *)
(* was sent, and the answer may be lost.  XML, URLs and addresses are left *)
(* out: a request is an operation on a port, an answer its outcome.        *)
(***************************************************************************)
EXTENDS Integers, Sequences

CONSTANTS
  PortList,          \* the mappings, in the order of add()
  Mappers,           \* 1..n: mappers made one after the other
  Renew, Lease,      \* renewInterval and leaseSeconds, in ticks
  Rediscover, Retry, \* rediscoverInterval and the wait for a lost gateway
  Forever,           \* stands for a lease without expiry
  MapperScenarios    \* the gateway and the bounds of one behaviour

VARIABLES
  pm,      \* the mappers
  gw,      \* the gateway
  chance   \* what may still happen

mapperVars == <<pm, gw, chance>>

Ports == {PortList[i] : i \in 1..Len(PortList)}

NewMapper ==
  [made |-> FALSE, crossed |-> FALSE, closed |-> FALSE, done |-> FALSE, state |-> "discovering",
   gateway |-> FALSE, permanent |-> FALSE, private |-> FALSE, mapped |-> [p \in Ports |-> FALSE],
   pc |-> "none", at |-> 1, all |-> TRUE, ask |-> "none", wait |-> 0,
   closer |-> "none", from |-> 1, delete |-> "none"]

MapperInit ==
  /\ chance \in MapperScenarios
  /\ pm = [m \in Mappers |-> NewMapper]
  /\ gw = [up |-> TRUE, forwarded |-> [p \in Ports |-> 0]]

Take(bound) == chance[bound] > 0 /\ chance' = [chance EXCEPT ![bound] = @ - 1, !.faulty = TRUE]
Becomes(m, x) == pm' = [pm EXCEPT ![m] = x]
Quiet == UNCHANGED <<gw, chance>>

-----------------------------------------------------------------------------
(***************************************************************************)
(* run().                                                                  *)
(***************************************************************************)
\* updatePortMapping() with the option on: a mapper with every port added.  It
\* does not wait for an earlier one that is still removing its mappings; such a
\* mapper is marked as crossed.
Make(m) ==
  /\ ~pm[m].made /\ \A k \in Mappers : k < m => pm[k].closed /\ (pm[k].done \/ chance.overlap)
  /\ Becomes(m, [NewMapper EXCEPT !.made = TRUE, !.pc = "discover",
                                  !.crossed = \E k \in Mappers : k < m /\ ~pm[k].done])
  /\ Quiet

\* discover(): hears the gateway or, when it is away, nothing.
Discover(m) ==
  /\ pm[m].pc = "discover"
  /\ Becomes(m, [pm[m] EXCEPT !.state = "discovering",
                              !.pc = IF pm[m].closed THEN "over"
                                     ELSE IF gw.up THEN "describe" ELSE "search"])
  /\ Quiet

\* describe(), for the location that was heard.
Describe(m) ==
  /\ pm[m].pc = "describe"
  /\ Becomes(m, [pm[m] EXCEPT !.gateway = gw.up,
                              !.pc = IF pm[m].closed THEN "over"
                                     ELSE IF gw.up THEN "map" ELSE "search",
                              !.at = 1, !.all = TRUE])
  /\ Quiet

\* A variant of NoGateway, used to test the properties.
NoGatewayGivesUp(m) ==
  /\ pm[m].pc = "search"
  /\ Becomes(m, [pm[m] EXCEPT !.state = "no-gateway", !.pc = "over"])
  /\ Quiet

\* No gateway: run() waits and searches again.
NoGateway(m) ==
  /\ pm[m].pc = "search"
  /\ Becomes(m, [pm[m] EXCEPT !.state = IF pm[m].closed THEN @ ELSE "no-gateway",
                              !.wait = Rediscover,
                              !.pc = IF pm[m].closed THEN "over" ELSE "wait"])
  /\ Quiet

\* map(): AddPortMapping for the next mapping, then GetExternalIPAddress.
Ask(m) ==
  /\ pm[m].pc = "map" /\ pm[m].ask = "none"
  /\ Becomes(m, [pm[m] EXCEPT !.ask = "sent"])
  /\ Quiet

\* The gateway answers an AddPortMapping.
Added(x, g) ==
  CASE ~g.up -> "lost"
    [] g.up /\ chance.permanent /\ ~x.permanent -> "725"
    [] g.up /\ PortList[x.at] \in chance.taken /\ (x.permanent \/ ~chance.permanent) -> "718"
    [] OTHER -> "ok"

Executes(m) ==
  /\ pm[m].ask = "sent"
  /\ IF pm[m].at > Len(PortList)
     THEN Becomes(m, [pm[m] EXCEPT !.ask = IF gw.up THEN "ok" ELSE "lost"]) /\ UNCHANGED <<gw, chance>>
     ELSE LET answer == Added(pm[m], gw)
          IN /\ gw' = IF answer = "ok"
                      THEN [gw EXCEPT !.forwarded[PortList[pm[m].at]] =
                              IF pm[m].permanent THEN Forever ELSE Lease]
                      ELSE gw
             /\ \/ Becomes(m, [pm[m] EXCEPT !.ask = answer]) /\ UNCHANGED chance
                \/ Becomes(m, [pm[m] EXCEPT !.ask = "lost"]) /\ Take("losses")

\* map() and the loop body of run() once the answer is there.
Mapped(x) ==
  IF x.ask = "725" /\ ~x.permanent
  THEN [x EXCEPT !.ask = "none", !.permanent = TRUE]
  ELSE [x EXCEPT !.ask = "none", !.at = @ + 1,
                 !.mapped[PortList[x.at]] = x.ask = "ok",
                 !.all = @ /\ x.ask = "ok",
                 !.pc = IF x.closed THEN "over" ELSE "map"]

\* The rest of run()'s loop: the state, and how long to wait.
Settled(x) ==
  LET private == x.private \/ (x.ask = "ok" /\ chance.private)
  IN [x EXCEPT !.ask = "none", !.pc = "wait", !.private = private,
               !.state = IF ~x.all THEN "failed"
                         ELSE IF private THEN "double-nat" ELSE "mapped",
               !.gateway = x.ask # "lost",
               !.wait = IF x.ask = "lost" THEN Retry ELSE Renew]

Answered(m) ==
  /\ pm[m].ask \notin {"none", "sent"}
  /\ Becomes(m, IF pm[m].at > Len(PortList) THEN Settled(pm[m]) ELSE Mapped(pm[m]))
  /\ Quiet

\* The timer ends, or close() cancelled it.
Wake(m) ==
  /\ pm[m].pc = "wait" /\ (pm[m].wait = 0 \/ pm[m].closed)
  /\ Becomes(m, [pm[m] EXCEPT !.at = 1, !.all = TRUE,
                              !.pc = IF pm[m].closed THEN "over"
                                     ELSE IF pm[m].gateway THEN "map" ELSE "discover"])
  /\ Quiet

-----------------------------------------------------------------------------
(***************************************************************************)
(* close() and unmapAll().                                                 *)
(***************************************************************************)
\* A variant of Closed, used to test the properties.
ClosedUnmapped(x) == [x EXCEPT !.closed = TRUE, !.done = TRUE]

Closed(x) ==
  IF ~x.gateway \/ \A p \in Ports : ~x.mapped[p]
  THEN [x EXCEPT !.closed = TRUE, !.done = TRUE]
  ELSE [x EXCEPT !.closed = TRUE, !.closer = "unmap"]

\* Network::close(), or updatePortMapping() with the option off.
Close(m) ==
  /\ pm[m].made /\ ~pm[m].closed
  /\ chance.busy \/ pm[m].pc = "wait"
  /\ chance.closes > 0 /\ chance' = [chance EXCEPT !.closes = @ - 1]
  /\ Becomes(m, Closed(pm[m]))
  /\ UNCHANGED gw

Unmapped(x) ==
  [x EXCEPT !.delete = "none", !.from = @ + 1, !.mapped[PortList[x.from]] = FALSE]

\* unmapAll(): skips what is not mapped; without a gateway soap() sends
\* nothing; at the end close() calls `done`.
Unmap(m) ==
  /\ pm[m].closer = "unmap" /\ pm[m].delete # "sent"
  /\ LET x == pm[m]
     IN Becomes(m,
          IF x.from > Len(PortList) THEN [x EXCEPT !.closer = "over", !.done = TRUE]
          ELSE IF x.delete # "none" THEN Unmapped(x)
          ELSE IF ~x.mapped[PortList[x.from]] THEN [x EXCEPT !.from = @ + 1]
          ELSE [x EXCEPT !.delete = IF x.gateway THEN "sent" ELSE "lost"])
  /\ Quiet

ExecutesDelete(m) ==
  /\ pm[m].delete = "sent"
  /\ gw' = IF gw.up THEN [gw EXCEPT !.forwarded[PortList[pm[m].from]] = 0] ELSE gw
  /\ \/ Becomes(m, [pm[m] EXCEPT !.delete = IF gw.up THEN "ok" ELSE "lost"]) /\ UNCHANGED chance
     \/ Becomes(m, [pm[m] EXCEPT !.delete = "lost"]) /\ Take("losses")

-----------------------------------------------------------------------------
(***************************************************************************)
(* Time and the gateway.                                                   *)
(***************************************************************************)
\* Requests take moments, waits take minutes: time passes while every mapper
\* waits or is gone.
Tick ==
  /\ \A m \in Mappers : /\ pm[m].pc \in {"none", "over"} \/ (pm[m].pc = "wait" /\ pm[m].wait > 0)
                        /\ pm[m].closer # "unmap"
                        /\ pm[m].ask # "sent"
  /\ pm' = [m \in Mappers |->
              [pm[m] EXCEPT !.wait = IF pm[m].pc = "wait" /\ @ > 0 THEN @ - 1 ELSE @]]
  /\ gw' = [gw EXCEPT !.forwarded =
              [p \in Ports |-> IF gw.forwarded[p] \in {0, Forever} THEN gw.forwarded[p]
                               ELSE gw.forwarded[p] - 1]]
  /\ UNCHANGED chance

GatewayLeaves == gw.up /\ gw' = [gw EXCEPT !.up = FALSE] /\ Take("outages") /\ UNCHANGED pm
GatewayReturns == ~gw.up /\ gw' = [gw EXCEPT !.up = TRUE] /\ UNCHANGED <<pm, chance>>
GatewayRestarts ==
  /\ Take("restarts")
  /\ gw' = [gw EXCEPT !.forwarded = [p \in Ports |-> 0]]
  /\ UNCHANGED pm

MapperStep(m) ==
  \/ Discover(m) \/ Describe(m) \/ NoGateway(m) \/ Ask(m) \/ Executes(m) \/ Answered(m)
  \/ Wake(m) \/ Unmap(m) \/ ExecutesDelete(m)

MapperNext ==
  \/ \E m \in Mappers : Make(m) \/ Close(m) \/ MapperStep(m)
  \/ Tick \/ GatewayLeaves \/ GatewayReturns \/ GatewayRestarts

MapperSpec == MapperInit /\ [][MapperNext]_mapperVars

\* The loop runs its coroutines, requests end within their time limit and the
\* clock moves.  The gateway need not return.
MapperFairSpec ==
  MapperSpec /\ WF_mapperVars(Tick) /\ \A m \in Mappers : WF_mapperVars(MapperStep(m))

-----------------------------------------------------------------------------
(***************************************************************************)
(* Properties.                                                             *)
(***************************************************************************)
MapperTypeOK ==
  /\ \A m \in Mappers :
       /\ pm[m].pc \in {"none", "discover", "describe", "search", "map", "wait", "over"}
       /\ pm[m].at \in 1..(Len(PortList) + 1) /\ pm[m].from \in 1..(Len(PortList) + 1)
       /\ pm[m].ask # "none" => pm[m].pc = "map" /\ pm[m].gateway
       /\ pm[m].done => pm[m].closed /\ pm[m].closer # "unmap"
  /\ gw.forwarded \in [Ports -> 0..Lease \cup {Forever}]

\* Mapped ports are forwarded: while run() waits and says "mapped", every port
\* is forwarded, and stays so until the renewal, as long as the gateway loses
\* nothing (renewInterval against leaseSeconds, permanent leases included).
Forwards(m) ==
  pm[m].state = "mapped" /\ pm[m].pc = "wait" /\ ~pm[m].closed /\ ~chance.faulty
    => \A p \in Ports : gw.forwarded[p] > 0

MappedIsForwarded == \A m \in Mappers : Forwards(m)

\* The same of a mapper that was not made while an earlier one was still
\* removing its mappings.
ApartIsForwarded == \A m \in Mappers : ~pm[m].crossed => Forwards(m)

\* Once the mappers are closed and nothing is under way, no port of ours is
\* forwarded any more, as long as the gateway was there to be told.
MappingsRemoved ==
  (\E m \in Mappers : pm[m].made)
    /\ (\A m \in Mappers : pm[m].made => pm[m].done /\ pm[m].ask = "none")
    /\ ~chance.faulty
    => \A p \in Ports : gw.forwarded[p] = 0

\* The ports come back: whatever the gateway lost while it was away or when it
\* restarted, a mapper that stays open forwards every port again, unless the
\* gateway refuses one.
PortsReturn ==
  \A m \in Mappers :
    []<>(pm[m].made =>
           \/ pm[m].closed \/ ~gw.up \/ chance.taken # {}
           \/ \A p \in Ports : gw.forwarded[p] > 0 /\ pm[m].mapped[p])

\* close() calls `done`, with or without a gateway: the engine's loop stops
\* only then (Engine::finishShutdown()).
CloseAnswered == \A m \in Mappers : []<>(pm[m].closed => pm[m].done)
=============================================================================

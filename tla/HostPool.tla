------------------------------ MODULE HostPool ------------------------------
(***************************************************************************)
(* http/HostPool: connections to one server, shared by the downloads from  *)
(* it.  Each download (a member) says what it wants; a server that answers *)
(* 429 or 503 gets a limit, which is divided among its members and grows   *)
(* again in calm periods.                                                  *)
(*                                                                         *)
(* Time is kept as ages and remaining waits, counted in calls of tick().   *)
(* An age stops at its cap, where nothing compares it any more.            *)
(***************************************************************************)
EXTENDS Integers, Sequences, SequencesExt, FiniteSetsExt

CONSTANTS
  Members,       \* the downloads
  Hosts,         \* the servers
  Demands,       \* what a download may say: connections wanted, bytes remaining
                 \* (-1 when unknown) and connections transferring
  Calm,          \* calmPeriod
  MaxPause,      \* maxPause
  Waits,         \* the waits answers ask for
  MaxAge,        \* the oldest request that is still answered
  MaxOverloads   \* overload answers, in all

VARIABLES
  joined,        \* the keys of members_, in joining order (Demand::order)
  demand,        \* members_: host, wanted, remaining and transferring
  hosts,         \* hosts_
  allowances,    \* allowances_, a cache; empty here while stale, when it is not read
  stale,         \* stale_
  overloads      \* how many overload answers came

vars == <<joined, demand, hosts, allowances, stale, overloads>>

Joined == Range(joined)
Of(h) == {m \in Joined : demand[m].host = h}
Unlimited(hs, h) == h \notin DOMAIN hs \/ hs[h].limit = 0
Transferring(d, h, S) == MapThenSumSet(LAMBDA m : IF d[m].host = h THEN d[m].transferring ELSE 0, S)

NewHost == [limit |-> 0, strikes |-> 0, calm |-> Calm, dropped |-> MaxAge, pause |-> 0]

\* The demands, hosts and cached allowances have the types of the fields of HostPool.
TypeOK ==
  /\ Joined \subseteq Members /\ Cardinality(Joined) = Len(joined)
  /\ DOMAIN demand = Joined
  /\ \A m \in Joined : demand[m] \in [host : Hosts, wanted : Nat \ {0},
                                      remaining : Int, transferring : Nat]
  /\ DOMAIN hosts \subseteq Hosts
  /\ \A h \in DOMAIN hosts :
       hosts[h] \in [limit : Nat, strikes : Nat, calm : 0..Calm,
                     dropped : 0..MaxAge, pause : 0..Max(Waits \cup {MaxPause})]
  /\ DOMAIN allowances \subseteq Members
  /\ stale \in BOOLEAN /\ overloads \in 0..MaxOverloads

-----------------------------------------------------------------------------
(* The division of a host's seats.                                         *)

\* membersOf(): in joining order.
MembersOf(h) == SelectSeq(joined, LAMBDA m : demand[m].host = h)

Weight(m) == Max({1, demand[m].remaining})

\* The next of the list to get a seat beyond its first: the largest remaining
\* work per connection, the earlier one of equals; the set is empty when all
\* have what they want.
NextSeat(list, given) ==
  LET open == {i \in DOMAIN list : given[i] > 0 /\ given[i] < demand[list[i]].wanted}
      beats(i, j) ==
        LET a == Weight(list[i]) * (given[j] + 1)
            b == Weight(list[j]) * (given[i] + 1)
        IN  a > b \/ (a = b /\ i <= j)
  IN  {i \in open : \A j \in open : beats(i, j)}

\* allocate() with a limit: first one seat each, then one at a time.
Seats(list, limit) ==
  LET first == [i \in DOMAIN list |-> IF i <= limit THEN 1 ELSE 0]
      rest == Max({0, limit - Len(list)})
      given[n \in 0..rest] ==
        IF n = 0 THEN first
        ELSE LET best == NextSeat(list, given[n - 1])
             IN  [i \in DOMAIN list |-> given[n - 1][i] + (IF i \in best THEN 1 ELSE 0)]
  IN  given[rest]

\* allocate(): what the members of h get.
Allocate(h) ==
  LET list == MembersOf(h)
  IN  IF Unlimited(hosts, h)
      THEN [m \in Of(h) |-> demand[m].wanted]
      ELSE [m \in Of(h) |-> Seats(list, hosts[h].limit)[CHOOSE i \in DOMAIN list : list[i] = m]]

Allocation == [m \in Joined |-> Allocate(demand[m].host)[m]]

-----------------------------------------------------------------------------
(* Calls of HttpTask.                                                      *)

\* The limit of a host rises to what is being transferred from it.
Proven(hs, d, h, S) ==
  IF Unlimited(hs, h) THEN hs
  ELSE [hs EXCEPT ![h].limit = Max({@, Transferring(d, h, S)})]

Outdate == allowances' = IF stale' THEN <<>> ELSE allowances

\* members_ after update().
Updated(m, h, d) ==
  [n \in Joined \cup {m} |->
     IF n = m THEN [host |-> h, wanted |-> Max({1, d.wanted}), remaining |-> d.remaining,
                    transferring |-> d.transferring]
     ELSE demand[n]]

\* Whether update() changes what allocate() looks at; the mutant forgets the host.
NewsSameHost(m, h, d) ==
  \/ m \notin Joined
  \/ demand[m].wanted # d.wanted \/ demand[m].remaining # d.remaining
News(m, h, d) ==
  \/ m \notin Joined
  \/ demand[m].host # h \/ demand[m].wanted # d.wanted \/ demand[m].remaining # d.remaining

\* update(): syncHost() of a download that is fetching.
Update(m, h, d) ==
  /\ demand' = Updated(m, h, d)
  /\ joined' = IF m \in Joined THEN joined ELSE Append(joined, m)
  /\ hosts' = Proven(hosts, demand', h, Joined')
  /\ stale' = (stale \/ News(m, h, d) \/ hosts' # hosts)
  /\ UNCHANGED overloads /\ Outdate

\* leave(): a host without members is forgotten.
Leave(m) ==
  /\ m \in Joined
  /\ joined' = SelectSeq(joined, LAMBDA n : n # m)
  /\ demand' = Restrict(demand, Joined \ {m})
  /\ hosts' = Restrict(hosts, {h \in DOMAIN hosts :
                                 h = demand[m].host => Of(h) # {m}})
  /\ stale' = TRUE
  /\ UNCHANGED overloads /\ Outdate

\* allowance(): fills the cache when it is stale.
Allowance(m) ==
  /\ m \in Joined /\ stale
  /\ allowances' = Allocation
  /\ stale' = FALSE
  /\ UNCHANGED <<joined, demand, hosts, overloads>>

\* Mutant: the last drop decides the pause alone.
DroppedPause(s, transferring) ==
  LET strikes == IF s.calm < Calm THEN s.strikes + 1 ELSE 1
  IN  [limit |-> Max({1, transferring}), strikes |-> strikes, calm |-> 0,
       dropped |-> 0, pause |-> Min({MaxPause, 2 ^ Min({strikes - 1, 5})})]

\* What overloaded() makes of a host state s when the limit drops.
Dropped(s, transferring) ==
  LET strikes == IF s.calm < Calm THEN s.strikes + 1 ELSE 1
      pause == Min({MaxPause, 2 ^ Min({strikes - 1, 5})})
  IN  [limit |-> Max({1, transferring}), strikes |-> strikes, calm |-> 0,
       dropped |-> 0, pause |-> Max({s.pause, pause})]

\* overloaded(): the answer to a request sent `age` ago; ones sent before the
\* last drop only raise the wait.
Overloaded(m, age, wait) ==
  /\ m \in Joined /\ overloads < MaxOverloads
  /\ overloads' = overloads + 1
  /\ LET h == demand[m].host
         old == IF h \in DOMAIN hosts THEN hosts[h] ELSE NewHost
         state == [old EXCEPT !.pause = Max({@, wait})]
         with(s) == [x \in DOMAIN hosts \cup {h} |-> IF x = h THEN s ELSE hosts[x]]
     IN  IF old.limit > 0 /\ age > old.dropped
         THEN hosts' = with(state) /\ UNCHANGED stale
         ELSE /\ hosts' = with(Dropped(state, Transferring(demand, h, Joined)))
              /\ stale' = TRUE
  /\ UNCHANGED <<joined, demand>> /\ Outdate

\* A calm host of which `wanted` connections are asked for.
Recovered(s, wanted) ==
  IF s.limit > 0 /\ s.calm >= Calm
  THEN [s EXCEPT !.limit = IF s.limit + 1 >= wanted THEN 0 ELSE s.limit + 1,
                 !.strikes = 0, !.calm = 0]
  ELSE s

\* tick(), after time went on: unused hosts are forgotten, calm ones recover.
Tick ==
  LET later(s) == [s EXCEPT !.calm = Min({@ + 1, Calm}),
                            !.dropped = Min({@ + 1, MaxAge}),
                            !.pause = Max({@ - 1, 0})]
      wanted(h) == MapThenSumSet(LAMBDA m : demand[m].wanted, Of(h))
      kept == {h \in DOMAIN hosts : Of(h) # {}}
  IN  /\ hosts' = [h \in kept |-> Recovered(later(hosts[h]), wanted(h))]
      /\ stale' = (stale \/ \E h \in kept : hosts'[h].limit # hosts[h].limit)
      /\ UNCHANGED <<joined, demand, overloads>> /\ Outdate

Init ==
  /\ joined = <<>> /\ demand = <<>> /\ hosts = <<>> /\ allowances = <<>>
  /\ stale = TRUE /\ overloads = 0

Next ==
  \/ \E m \in Members, h \in Hosts, d \in Demands : Update(m, h, d)
  \/ \E m \in Members : Leave(m) \/ Allowance(m)
  \/ \E m \in Members, age \in 0..MaxAge, wait \in Waits : Overloaded(m, age, wait)
  \/ Tick

Spec == Init /\ [][Next]_vars

\* HttpTask::tick() of any download calls tick() twice a second.
FairSpec == Spec /\ WF_vars(Tick)

-----------------------------------------------------------------------------
(* Properties.                                                             *)

\* The cache of allowance() is what allocate() gives now whenever stale_ is clear:
\* no path that changes a demand, a limit or a membership forgets stale_.
CacheFresh == ~stale => allowances = Allocation

\* The seats of a limited host are dealt out as by D'Hondt's method: never more
\* than the limit, none kept back while somebody wants it, first seats in joining
\* order, and no transfer of a seat would be fairer by remaining work.
FairSeats ==
  \A h \in DOMAIN hosts : hosts[h].limit > 0 =>
    LET given == Allocate(h)
        list == MembersOf(h)
        sum == MapThenSumSet(LAMBDA m : given[m], Of(h))
    IN  /\ sum <= hosts[h].limit
        /\ sum < hosts[h].limit => \A m \in Of(h) : given[m] = demand[m].wanted
        /\ \A i, j \in DOMAIN list : i < j /\ given[list[j]] > 0 => given[list[i]] > 0
        /\ \A m, n \in Of(h) :
             (given[m] \in 1..(demand[m].wanted - 1) /\ given[n] > 1)
               => Weight(m) * given[n] <= Weight(n) * (given[m] + 1)

\* A limit is never below the connections the server is serving: update() takes
\* them as proof that it accepts so many.
LimitCoversTransfers ==
  \A h \in DOMAIN hosts :
    hosts[h].limit > 0 => hosts[h].limit >= Transferring(demand, h, Joined)

\* No request reaches a host before the wait its answer asked for, and as long as
\* the host is known that pause is shortened by time alone: no later answer, update
\* or recovery brings the next request forward.
PausesKept ==
  [][/\ \A h \in DOMAIN hosts \cap DOMAIN hosts' :
          /\ hosts'[h].pause >= hosts[h].pause - 1
          /\ hosts'[h].pause < hosts[h].pause => Tick
     /\ \A m \in Members, age \in 0..MaxAge, wait \in Waits :
          Overloaded(m, age, wait) => hosts'[demand[m].host].pause >= wait]_vars

\* Once the overload answers stop, every limit is lifted for good, whatever the
\* downloads do meanwhile.
LimitsLifted == <>[](\A h \in DOMAIN hosts : hosts[h].limit = 0)
=============================================================================

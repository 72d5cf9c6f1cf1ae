----------------------------- MODULE Ed2kServer -----------------------------
(***************************************************************************)
(* The ED2K server connection (ed2k/ServerSession.cc) and the searches it  *)
(* carries (ed2k/Searches.cc).                                             *)
(*                                                                         *)
(* Each dial is a coroutine, run(), with a number.  It may be past the     *)
(* socket that dials_ holds: while a name is resolved, and once the socket *)
(* has moved into the connection for the obfuscation handshake.  Closing   *)
(* the socket does not end it then.  Packets other than those that change  *)
(* the session, and what a result says, are left out.                      *)
(***************************************************************************)
EXTENDS Integers, Sequences, SequencesExt, FiniteSets

CONSTANTS
  Configured,     \* the server list: a sequence of server keys
  Learned,        \* servers another server may name
  Named,          \* servers with a host name to resolve
  Obfuscated,     \* servers with an obfuscation port
  MaxRuns,        \* bound on dials that have not ended
  MaxFailures,    \* bound on the failure counters
  Downloads, Budget,
  Queries,        \* search ids
  ServerScenarios \* what may happen: records of these fields
                  \*   dials  maxDials
                  \*   reach  the servers that accept when dialled
                  \*   ids    the searches that are started
                  \*   lost   connections that end by themselves
                  \*   stop   stop() calls
                  \*   late   1 if a dial may be past its socket then
                  \*   quiet  1 if the server is not asked before it answered
                  \*   more   more() calls

VARIABLES
  v,         \* the ServerSession
  q,         \* the searches by id, and serverSearch_
  replies,   \* searches the server has been asked and not yet answered
  grant      \* what the bounds still admit

serverVars == <<v, q, replies, grant>>

NoRun == [key |-> "", phase |-> "ended", closed |-> FALSE]
Server(key, configured) ==
  [key |-> key, configured |-> configured, failures |-> 0, waits |-> FALSE, plain |-> FALSE]
NoSearch == [state |-> "unused", server |-> FALSE, kad |-> FALSE, more |-> FALSE,
             results |-> {}]

\* addServers(): configured servers go before the learned ones.
AddServer(servers, key, configured) ==
  LET known == SelectInSeq(servers, LAMBDA s : s.key = key)
      learned == SelectInSeq(servers, LAMBDA s : ~s.configured)
  IN IF known # 0 THEN [servers EXCEPT ![known].configured = @ \/ configured]
     ELSE IF configured /\ learned # 0
     THEN InsertAt(servers, learned, Server(key, configured))
     ELSE Append(servers, Server(key, configured))

Find(servers, key) == SelectInSeq(servers, LAMBDA s : s.key = key)

Failed(x, key) ==
  [x EXCEPT !.servers[Find(x.servers, key)] =
     [@ EXCEPT !.failures = IF @ < MaxFailures THEN @ + 1 ELSE @, !.waits = TRUE]]

\* The keys of dials_, each with the coroutine whose socket it holds.
Dialled(x) == {x.runs[i].key : i \in x.dials}
EraseDial(x, key) == [x EXCEPT !.dials = {i \in @ : x.runs[i].key # key}]

CloseDials(x) ==
  [x EXCEPT !.dials = {},
            !.runs = [i \in 1 .. MaxRuns |-> [x.runs[i] EXCEPT !.closed = @ \/ i \in x.dials]]]

EndRun(x, i) == [x EXCEPT !.runs[i] = NoRun]

\* run() leaves without having won.
GivesUp(x, i) ==
  LET key == x.runs[i].key
      y == EndRun(EraseDial(x, key), i)
  IN IF key \in Dialled(x) /\ ~x.stopped THEN Failed(y, key) ELSE y

\* The connection stands: the first one wins and closes the other dials.
Established(x, i) ==
  LET y == EraseDial(x, x.runs[i].key)
  IN IF y.connection # 0 THEN EndRun(y, i)
     ELSE CloseDials([y EXCEPT !.connection = i, !.runs[i].phase = "reading",
                               !.runs[i].closed = FALSE])

\* The winner's connection ended.
ConnectionEnds(x, i) ==
  LET key == x.runs[i].key
      y == EndRun([x EXCEPT !.connection = 0, !.loggedIn = FALSE], i)
  IN IF x.stopped THEN y
     ELSE IF x.loggedIn THEN [y EXCEPT !.servers[Find(y.servers, key)].waits = TRUE]
     ELSE Failed(y, key)

\* next_ moves past the server that is dialled.
NextServer(x, index) == index + 1

LoggedIn(x) ==
  LET key == x.runs[x.connection].key IN
  [x EXCEPT !.loggedIn = TRUE, !.servers[Find(x.servers, key)].failures = 0,
            !.asked = IF x.loggedIn THEN @ ELSE {}]

-----------------------------------------------------------------------------
(***************************************************************************)
(* Searches.                                                               *)
(***************************************************************************)
Searching == \E id \in Queries : q.of[id].state = "active"

\* send(): on the server when logged in, in Kad when it has contacts.
SendSearch(p, id, kadReady) ==
  LET asks == ~p.of[id].server /\ v.loggedIn
  IN [p EXCEPT !.of[id].server = @ \/ asks,
               !.of[id].kad = @ \/ kadReady,
               !.current = IF asks THEN id ELSE @,
               !.kad = IF kadReady /\ ~p.of[id].kad THEN @ \cup {id} ELSE @]

EndSearch(p, id) ==
  [p EXCEPT !.of[id].state = "complete", !.kad = @ \ {id}]

ForgetSearch(p, id) ==
  [p EXCEPT !.of[id] = [NoSearch EXCEPT !.state = "removed"], !.kad = @ \ {id},
            !.current = IF @ = id THEN "" ELSE @]

Asked(p, id) == IF ~q.of[id].server /\ p.of[id].server THEN Append(replies, id) ELSE replies

-----------------------------------------------------------------------------
Spend(bound) == grant[bound] > 0 /\ grant' = [grant EXCEPT ![bound] = @ - 1]

ServerInit ==
  /\ grant \in ServerScenarios
  /\ v = [servers |-> FoldLeft(LAMBDA l, k : AddServer(l, k, TRUE), <<>>, Configured),
          dials |-> {}, runs |-> [i \in 1 .. MaxRuns |-> NoRun], connection |-> 0,
          loggedIn |-> FALSE, stopped |-> FALSE, next |-> 0, asked |-> {}]
  /\ q = [of |-> [id \in Queries |-> NoSearch], current |-> "", kad |-> {}]
  /\ replies = <<>>

Session(x) == v' = x /\ UNCHANGED <<q, replies, grant>>

\* requestSources(): a few files a tick, each once per interval.
RequestSources ==
  LET rest == Downloads \ v.asked IN
  /\ v.loggedIn
  /\ \E files \in SUBSET rest :
       /\ Cardinality(files) = IF Cardinality(rest) < Budget THEN Cardinality(rest) ELSE Budget
       /\ Session([v EXCEPT !.asked = @ \cup files])

AskAgain == \E f \in v.asked : Session([v EXCEPT !.asked = @ \ {f}])

\* tick(): dial the next server whose time has come.
TickDial ==
  LET count == Len(v.servers)
      at(n) == (v.next + n) % count
      ready(n) == LET s == v.servers[at(n) + 1] IN ~s.waits /\ s.key \notin Dialled(v)
      free == {i \in 1 .. MaxRuns : v.runs[i].phase = "ended"}
  IN /\ ~v.loggedIn /\ ~v.stopped /\ v.connection = 0 /\ Cardinality(v.dials) < grant.dials
     /\ count > 0 /\ (Downloads # {} \/ Searching)
     /\ \E n \in 0 .. count - 1 :
          /\ ready(n) /\ \A m \in 0 .. n - 1 : ~ready(m)
          /\ \E i \in free :
               /\ \A j \in free : i <= j
               /\ LET key == v.servers[at(n) + 1].key IN
                  Session([v EXCEPT !.next = NextServer(v, at(n)), !.dials = @ \cup {i},
                             !.runs[i] = [key |-> key, closed |-> FALSE,
                                phase |-> IF key \in Named THEN "resolving" ELSE "connecting"]])

\* Resolved: async_connect() opens the socket again if it was closed.
Resolved(i) ==
  /\ v.runs[i].phase = "resolving"
  /\ Session([v EXCEPT !.runs[i].phase = "connecting", !.runs[i].closed = FALSE])

Connects(i) ==
  LET key == v.runs[i].key
      plain == key \notin Obfuscated \/ v.servers[Find(v.servers, key)].plain
  IN /\ v.runs[i].phase = "connecting" /\ ~v.runs[i].closed /\ key \in grant.reach
     /\ Session(IF plain THEN Established(v, i) ELSE [v EXCEPT !.runs[i].phase = "obfuscating"])

ObfuscationDone(i) ==
  /\ v.runs[i].phase = "obfuscating"
  /\ Session(Established(v, i))

\* The dial is refused, times out or was closed; the handshake fails.
DialEnds(i) ==
  LET key == v.runs[i].key
      fell == v.runs[i].phase = "obfuscating"
      x == IF fell THEN [v EXCEPT !.servers[Find(v.servers, key)].plain = TRUE] ELSE v
  IN /\ v.runs[i].phase \in {"resolving", "connecting", "obfuscating"}
     /\ fell \/ v.runs[i].closed \/ key \notin grant.reach
     /\ Session(GivesUp(x, i))

\* OP_IDCHANGE, and OP_SERVERLIST.
IdChange(i) ==
  /\ v.runs[i].phase = "reading" /\ ~v.runs[i].closed
  /\ Session(LoggedIn(v))

ServerList(i) ==
  /\ v.runs[i].phase = "reading" /\ ~v.runs[i].closed
  /\ \E key \in Learned :
       /\ Find(v.servers, key) = 0
       /\ Session([v EXCEPT !.servers = AddServer(@, key, FALSE)])

\* The connection ends: closed by stop(), or by the server; its answers go.
ReadEnds(i) ==
  /\ v.runs[i].phase = "reading"
  /\ IF v.runs[i].closed THEN UNCHANGED grant ELSE Spend("lost")
  /\ v' = ConnectionEnds(v, i)
  /\ replies' = <<>> /\ UNCHANGED q

\* retryAt is reached.
RetryDue(n) ==
  /\ n \in 1 .. Len(v.servers) /\ v.servers[n].waits
  /\ Session([v EXCEPT !.servers[n].waits = FALSE])

\* stop().  With grant.late, a dial may be past its socket.
Past(i) ==
  \/ v.runs[i].phase \in {"resolving", "obfuscating"}
  \/ v.runs[i].phase = "connecting" /\ i \notin v.dials

\* A variant of Stopped, used to test the properties.
StoppedKeepsDials(x) ==
  [x EXCEPT !.stopped = TRUE,
            !.runs = [i \in 1 .. MaxRuns |-> [x.runs[i] EXCEPT !.closed = @ \/ i = x.connection]]]

Stopped(x) ==
  [x EXCEPT !.stopped = TRUE, !.dials = {},
            !.runs = [i \in 1 .. MaxRuns |->
                        [x.runs[i] EXCEPT !.closed = @ \/ i \in x.dials \cup {x.connection}]]]

StopServer ==
  /\ ~v.stopped
  /\ grant.late = 1 \/ \A i \in 1 .. MaxRuns : ~Past(i)
  /\ Spend("stop")
  /\ v' = Stopped(v)
  /\ UNCHANGED <<q, replies>>

-----------------------------------------------------------------------------
StartSearch(id) ==
  /\ id \in grant.ids /\ q.of[id].state = "unused" /\ ~v.stopped
  /\ \E kadReady \in BOOLEAN :
       LET p == SendSearch([q EXCEPT !.of[id].state = "active"], id, kadReady) IN
       /\ (grant.quiet = 1 /\ p.of[id].server) => replies = <<>>
       /\ q' = p
       /\ replies' = Asked(p, id)
  /\ UNCHANGED <<v, grant>>

More(id) ==
  /\ q.of[id].state \in {"active", "complete"} /\ q.current = id /\ q.of[id].more
  /\ Spend("more")
  /\ q' = [q EXCEPT !.of[id] = [@ EXCEPT !.more = FALSE, !.state = "active"]]
  /\ replies' = IF v.loggedIn THEN Append(replies, id) ELSE replies
  /\ UNCHANGED v

RemoveSearch(id) ==
  /\ q.of[id].state \in {"active", "complete"}
  /\ q' = ForgetSearch(q, id)
  /\ UNCHANGED <<v, replies, grant>>

\* The server answers the oldest request; serverResults() takes the results
\* for those of the last search that was sent.
ServerResults ==
  /\ replies # <<>>
  /\ replies' = Tail(replies)
  /\ \E more \in BOOLEAN :
       q' = IF q.current = "" THEN q
            ELSE [q EXCEPT !.of[q.current].results = @ \cup {Head(replies)},
                           !.of[q.current].more = more]
  /\ UNCHANGED <<v, grant>>

KadResults(id) ==
  /\ id \in q.kad /\ id \notin q.of[id].results
  /\ q' = [q EXCEPT !.of[id].results = @ \cup {id}]
  /\ UNCHANGED <<v, replies, grant>>

\* tick(): the deadline passes, or what could not be sent is sent now.
Deadline(id) ==
  /\ q.of[id].state = "active"
  /\ q' = EndSearch(q, id)
  /\ UNCHANGED <<v, replies, grant>>

SendPending(id) ==
  /\ q.of[id].state = "active"
  /\ \E kadReady \in BOOLEAN :
       LET p == SendSearch(q, id, kadReady) IN
       /\ p # q
       /\ (grant.quiet = 1 /\ Asked(p, id) # replies) => replies = <<>>
       /\ q' = p /\ replies' = Asked(p, id)
  /\ UNCHANGED <<v, grant>>

ForgetEnded(id) ==
  /\ q.of[id].state = "complete"
  /\ q' = ForgetSearch(q, id)
  /\ UNCHANGED <<v, replies, grant>>

ServerNext ==
  \/ RequestSources \/ AskAgain \/ TickDial \/ StopServer \/ ServerResults
  \/ \E i \in 1 .. MaxRuns :
       \/ Resolved(i) \/ Connects(i) \/ ObfuscationDone(i) \/ DialEnds(i)
       \/ IdChange(i) \/ ServerList(i) \/ ReadEnds(i)
  \/ \E n \in 1 .. Len(v.servers) : RetryDue(n)
  \/ \E id \in Queries :
       \/ StartSearch(id) \/ More(id) \/ RemoveSearch(id) \/ KadResults(id)
       \/ Deadline(id) \/ SendPending(id) \/ ForgetEnded(id)

(***************************************************************************)
(* The tick runs every second; a dial ends within its timeout; a server    *)
(* answers a login; waits pass.                                            *)
(***************************************************************************)
ServerFairness ==
  /\ WF_serverVars(TickDial)
  /\ \A i \in 1 .. MaxRuns :
       /\ WF_serverVars(Resolved(i) \/ Connects(i) \/ ObfuscationDone(i) \/ DialEnds(i))
       /\ WF_serverVars(IdChange(i)) /\ WF_serverVars(v.runs[i].closed /\ ReadEnds(i))
  /\ \A n \in 1 .. Len(Configured) + Cardinality(Learned) : WF_serverVars(RetryDue(n))

ServerSpec == ServerInit /\ [][ServerNext]_serverVars /\ ServerFairness

-----------------------------------------------------------------------------
\* The session and the searches are well formed.
ServerTypeOK ==
  /\ v.dials \subseteq {i \in 1 .. MaxRuns : v.runs[i].phase # "ended"}
  /\ \A i, j \in v.dials : i # j => v.runs[i].key # v.runs[j].key
  /\ v.connection \in 0 .. MaxRuns /\ v.next \in 0 .. Len(v.servers)
  /\ \A m, n \in 1 .. Len(v.servers) : m # n => v.servers[m].key # v.servers[n].key
  /\ \A m, n \in 1 .. Len(v.servers) : v.servers[n].configured /\ m < n => v.servers[m].configured
  /\ q.current \in Queries \cup {""}

(***************************************************************************)
(* There is one server at a time: only the coroutine that won reads, and   *)
(* the session is logged in only while it does.  Dials that answer late,   *)
(* cancelled ones included, give up without touching the session.          *)
(***************************************************************************)
OneServer ==
  /\ \A i \in 1 .. MaxRuns : v.runs[i].phase = "reading" <=> v.connection = i
  /\ v.loggedIn => v.connection # 0

(***************************************************************************)
(* stop() ends the session for good: no dial that was under way connects   *)
(* and logs in afterwards.                                                 *)
(***************************************************************************)
NoLoginAfterStop ==
  [][v.stopped => v'.connection \in {0, v.connection} /\ (v'.loggedIn => v.loggedIn)]_serverVars

(***************************************************************************)
(* tick() finds the server that can be reached among those that cannot:    *)
(* while there is work the session gets logged in.                         *)
(***************************************************************************)
Found == v.loggedIn \/ v.stopped
ServerFound == []<>Found

(***************************************************************************)
(* Kad works for a search only while it is active: a search that ended or  *)
(* was removed leaves nothing running.                                     *)
(***************************************************************************)
KadSearchesActive == \A id \in q.kad : q.of[id].state = "active"

(***************************************************************************)
(* A search gets the results of its own query only: the server's answers   *)
(* name no search and are taken for the last one sent.                     *)
(***************************************************************************)
OwnResults == \A id \in Queries : q.of[id].results \subseteq {id}
=============================================================================

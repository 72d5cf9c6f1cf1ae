-------------------------------- MODULE Kad ---------------------------------
(***************************************************************************)
(* The Kad node (ed2k/Kad.cc) with its routing table (KadTable), its       *)
(* lookups (KadTraversal) and its outstanding requests                     *)
(* (KadTransactionTable, both in ed2k/KadRouting.cc).                      *)
(*                                                                         *)
(* Every request goes to a network that may answer it in any order, more   *)
(* than once or never.  An answer names the contacts its sender knows.  Handlers and *)
(* ticks run one after the other on the network thread.                    *)
(***************************************************************************)
EXTENDS KadTable

CONSTANTS
  Contacts,         \* the other nodes, by ID
  Knows,            \* the contacts each of them answers with
  Routers,          \* the sequence of contacts of nodes.dat
  FileId,           \* the ID of a file that is downloaded and shared
  WordId,           \* the ID of a keyword
  Tolerance,        \* searchTolerance, 2^24
  Branch,           \* branchFactor, 3
  TargetNodes,      \* targetNodes, 8
  MaxSearches,      \* maxSearchNodes, maxPublishNodes
  MaxObservers,     \* 128
  EnoughContacts,   \* 10
  Burst,            \* requests a bootstrap sends of each kind, 3
  MaxLookups,       \* 5
  RandomBits,       \* the random bits a refresh may draw
  MaxTransactions,  \* bound of the model on the outstanding requests
  Overlapping,      \* a lookup may start while requests of an earlier one
                    \* on the same target are outstanding
  KadScenarios      \* what else may happen; see KadInit

VARIABLES n, spare
kadVars == <<n, spare>>

-----------------------------------------------------------------------------
(***************************************************************************)
(* KadTraversal.                                                           *)
(***************************************************************************)
Observer(c) == [c |-> c, queried |-> FALSE, alive |-> FALSE, failed |-> FALSE, searched |-> FALSE]

NewWalk(kind, target, aim) ==
  [kind |-> kind, target |-> target, aim |-> aim, seen |-> <<>>, inFlight |-> 0, extra |-> 0,
   searches |-> 0, searching |-> 0, converged |-> FALSE, done |-> FALSE, out |-> <<>>]

ObserverOf(w, c) ==
  LET at == {i \in DOMAIN w.seen : w.seen[i].c = c} IN IF at = {} THEN 0 ELSE CHOOSE i \in at : TRUE
Searchable(w, c) == w.kind # "refresh" /\ c ^^ w.target <= Tolerance

\* addContact()
AddContact(w, c) ==
  LET i == Cardinality({j \in DOMAIN w.seen : w.seen[j].c ^^ w.target < c ^^ w.target}) + 1
      more == InsertAt(w.seen, i, Observer(c))
  IN IF ObserverOf(w, c) # 0 THEN w
     ELSE [w EXCEPT !.seen = IF Len(more) > MaxObservers /\ ~Last(more).queried
                             THEN Front(more) ELSE more]

\* search()
SearchAt(w, i, anyAnswered) ==
  IF \/ w.seen[i].searched \/ w.searches >= MaxSearches \/ w.kind = "refresh"
     \/ ~anyAnswered /\ ~Searchable(w, w.seen[i].c)
  THEN w
  ELSE [w EXCEPT !.seen[i].searched = TRUE, !.searches = @ + 1, !.searching = @ + 1,
                 !.out = Append(@, [search |-> TRUE, to |-> w.seen[i].c])]

\* The first `TargetNodes` of the indexes.
Nearest(indexes) ==
  {i \in indexes : Cardinality({j \in indexes : j <= i}) <= TargetNodes}

\* Ask the contacts at the indexes.
AskAll(w, fresh) ==
  [w EXCEPT !.seen = FoldSet(LAMBDA i, seen : [seen EXCEPT ![i].queried = TRUE], @, fresh),
            !.inFlight = @ + Cardinality(fresh),
            !.out = @ \o [k \in 1 .. Cardinality(fresh) |->
                            [search |-> FALSE, to |-> w.seen[SetToSortSeq(fresh, <)[k]].c]]]

\* The walk converged: the nearest that answered are searched.
Converge(w) ==
  LET answered == Nearest({i \in DOMAIN w.seen : w.seen[i].alive})
      w1 == FoldLeft(LAMBDA x, i : SearchAt(x, i, TRUE), [w EXCEPT !.converged = TRUE],
                     SetToSortSeq(answered, <))
  IN [w1 EXCEPT !.done = (w1.searching = 0)]

\* nextActions(): ask the nearest contacts that have not been asked, as far as
\* the requests in flight allow; when all of the nearest answered, search them.
NextActions(w) ==
  LET waiting == {i \in Nearest({j \in DOMAIN w.seen : ~w.seen[j].failed}) : ~w.seen[i].alive}
      fresh == {i \in waiting : ~w.seen[i].queried}
      room == Branch + w.extra - w.inFlight
  IN IF w.done \/ w.converged THEN w
     ELSE IF waiting = {} THEN Converge(w)
     ELSE AskAll(w, {i \in fresh : Cardinality({j \in fresh : j <= i}) <= room})

WalkStart(w, seeds) == NextActions(FoldLeft(AddContact, w, seeds))

\* onResponse()
OnResponse(w, c, closer) ==
  LET i == ObserverOf(w, c)
      w1 == IF i # 0 /\ w.seen[i].queried /\ ~w.seen[i].alive
            THEN SearchAt([w EXCEPT !.seen[i].alive = TRUE, !.seen[i].failed = FALSE,
                                    !.inFlight = IF @ > 0 THEN @ - 1 ELSE 0], i, FALSE)
            ELSE w
  IN IF w.done THEN w ELSE NextActions(FoldLeft(AddContact, w1, closer))

\* A variant of OnFailure, used to test the properties.
OnFailureSilent(w, c) ==
  LET i == ObserverOf(w, c)
  IN IF i # 0 /\ ~w.seen[i].failed /\ ~w.seen[i].alive
     THEN [w EXCEPT !.seen[i].failed = TRUE, !.inFlight = IF @ > 0 THEN @ - 1 ELSE 0]
     ELSE w

\* onFailure()
OnFailure(w, c) ==
  LET i == ObserverOf(w, c)
  IN NextActions(IF i # 0 /\ ~w.seen[i].failed /\ ~w.seen[i].alive
                 THEN [w EXCEPT !.seen[i].failed = TRUE,
                                !.inFlight = IF @ > 0 THEN @ - 1 ELSE 0]
                 ELSE w)

\* stalled()
Stalled(w) == NextActions(IF w.extra < 2 * Branch THEN [w EXCEPT !.extra = @ + 1] ELSE w)

\* finishSearch()
FinishSearch(w, c, failed) ==
  LET i == ObserverOf(w, c)
      w1 == [w EXCEPT !.seen = IF i # 0 /\ failed THEN [@ EXCEPT ![i].failed = TRUE] ELSE @,
                      !.searching = IF @ > 0 THEN @ - 1 ELSE 0]
  IN [w1 EXCEPT !.done = @ \/ (w1.converged /\ w1.searching = 0)]

-----------------------------------------------------------------------------
(***************************************************************************)
(* The node: its table, its lookups by target, its outstanding requests,   *)
(* the next router to ask.  A request is [to, op, target]; op is the       *)
(* expected answer and target is -1 when it belongs to no lookup.          *)
(***************************************************************************)
NewNode(table) == [table |-> table, look |-> <<>>, trans |-> <<>>, router |-> 0]

Req(c, op, target) == [to |-> c, op |-> op, target |-> target]

\* request()
Request(node, req) == [node EXCEPT !.trans = Append(@, req)]

\* perform(): the actions of the lookup on the target become requests.
Perform(node, target) ==
  LET w == node.look[target]
      answer == IF w.kind = "publish" THEN "published" ELSE "found"
      ask(m, a) == Request(m, Req(a.to, IF a.search THEN answer ELSE "res", target))
  IN FoldLeft(ask, [node EXCEPT !.look[target].out = <<>>], w.out)

WithLook(look, target, w) == [t \in DOMAIN look \cup {target} |-> IF t = target THEN w ELSE look[t]]
Without(look, targets) == [t \in DOMAIN look \ targets |-> look[t]]

\* startLookup()
StartLookup(node, kind, target, aim) ==
  LET near == Closest(node.table, target, Cardinality(Contacts), TRUE, 0)
      seeds == IF near = <<>> THEN Routers ELSE near
  IN IF target \in DOMAIN node.look \/ seeds = <<>> THEN node
     ELSE Perform([node EXCEPT !.look =
                     WithLook(@, target, WalkStart(NewWalk(kind, target, aim), seeds))], target)

\* One expired request.
Expired(node, req) ==
  LET m == IF req.op \in {"res", "hello", "boot"}
           THEN [node EXCEPT !.table = NodeFailed(@, req.to)] ELSE node
  IN IF req.target \notin DOMAIN m.look THEN m
     ELSE IF req.op = "res"
     THEN Perform([m EXCEPT !.look[req.target] = OnFailure(@, req.to)], req.target)
     ELSE [m EXCEPT !.look[req.target] = FinishSearch(@, req.to, TRUE)]

\* expire(): the oldest requests time out, lookups that are finished or have had
\* their lifetime (aged) are dropped and the quiet ones ask one more contact.
Unfinished(node, aged) ==
  [node EXCEPT !.look = Without(@, {t \in DOMAIN @ : @[t].done \/ t \in aged})]

AskMore(node, quiet) ==
  FoldLeft(LAMBDA m, t : Perform([m EXCEPT !.look[t] = Stalled(@)], t), node,
           SetToSortSeq(quiet \cap DOMAIN node.look, <))

Expire(node, count, aged, quiet) ==
  AskMore(Unfinished(FoldLeft(Expired, [node EXCEPT !.trans = SubSeq(@, count + 1, Len(@))],
                              SubSeq(node.trans, 1, count)), aged), quiet)

\* bootstrap()
Bootstrap(node) ==
  LET asked == [i \in 1 .. Burst |->
                  Req(Routers[((node.router + i - 1) % Len(Routers)) + 1], "boot", -1)]
      greeted == LET near == Closest(node.table, 0, Burst, TRUE, 0)
                 IN [i \in DOMAIN near |-> Req(near[i], "hello", -1)]
  IN IF Cardinality(Live(node.table)) >= EnoughContacts \/ Routers = <<>> THEN node
     ELSE [FoldLeft(Request, node, asked \o greeted)
             EXCEPT !.router = (node.router + Burst) % Len(Routers)]

\* No request of an earlier lookup on the target is outstanding.
Fresh(node, target) ==
  Overlapping \/ \A i \in DOMAIN node.trans : node.trans[i].target # target

\* startLookups(): the lookups that are due, at most MaxLookups at a time.
StartLookups(node, due, r) ==
  LET refresh == CASE "self" \in due -> <<[kind |-> "refresh", target |-> 0, aim |-> -1]>>
                   [] "self" \notin due /\ "bucket" \in due /\ node.table.stale > 0 ->
                        LET oldest == node.table.used[1]
                        IN <<[kind |-> "refresh", target |-> RandomIdIn(oldest, r), aim |-> oldest]>>
                   [] OTHER -> <<>>
      files == SelectSeq(<<"sources", "publish">>, LAMBDA k : k \in due)
      begin(m, l) == IF Cardinality(DOMAIN m.look) < MaxLookups
                     THEN StartLookup(m, l.kind, l.target, l.aim) ELSE m
  IN FoldLeft(begin, node, refresh \o
       [k \in DOMAIN files |-> [kind |-> files[k], target |-> FileId, aim |-> -1]])

\* complete(): the oldest request that expects the answer.
Waiting(node, c, op, target) ==
  LET at == {i \in DOMAIN node.trans : node.trans[i] = Req(c, op, target)}
  IN IF at = {} THEN 0 ELSE CHOOSE i \in at : \A j \in at : i <= j
Completed(node, i) == [node EXCEPT !.trans = RemoveAt(@, i)]

Hear(table, cs) == FoldLeft(HeardAbout, table, SetToSortSeq(cs, <))

-----------------------------------------------------------------------------
(***************************************************************************)
(* Steps.  Any outstanding request may be answered; an answer that no      *)
(* request waits for is dropped.  `spare` counts the answers, greetings,   *)
(* searches, quiet and aged lookups and restarts left and the lookups that *)
(* are yet to come due; `saved` lists the contacts of the table of the     *)
(* last run.                                                               *)
(***************************************************************************)
KadInit ==
  /\ spare \in KadScenarios
  /\ n = NewNode(FoldLeft(NodeSeen, EmptyTable, spare.saved))

Commit(node) == Len(node.trans) <= MaxTransactions /\ n' = node

\* tick(): nothing is looked up before the first contact.
DueLookups(node, due, r) ==
  /\ due \cap {"sources", "publish"} # {} =>
       Fresh(node, FileId) /\ FileId \notin DOMAIN node.look /\ ~({"sources", "publish"} \subseteq due)
  /\ "self" \in due => Fresh(node, 0)
  /\ due # {} => Live(node.table) # {}
  /\ Commit(IF Live(node.table) = {} THEN node ELSE StartLookups(node, due, r))

KadTick(count, aged, quiet, due, r) ==
  /\ count \in 0 .. Len(n.trans)
  /\ aged \subseteq DOMAIN n.look /\ Cardinality(aged) <= spare.aged
  /\ quiet \subseteq DOMAIN n.look \ aged /\ Cardinality(quiet) <= spare.quiet
  /\ due \subseteq spare.due
  /\ DueLookups(Bootstrap(Expire(n, count, aged, quiet)), due, r)
  /\ spare' = [spare EXCEPT !.due = @ \ due, !.aged = @ - Cardinality(aged),
                            !.quiet = @ - Cardinality(quiet)]

\* A bucket has been quiet for 15 minutes.
BucketStales ==
  /\ "bucket" \in spare.due
  /\ n.table.stale < Len(n.table.used)
  /\ n' = [n EXCEPT !.table.stale = @ + 1]
  /\ UNCHANGED spare

Arrives == spare.answers > 0 /\ spare' = [spare EXCEPT !.answers = @ - 1]

\* KAD_RES
WalkAnswered(node, c, closer, target) ==
  IF target \notin DOMAIN node.look THEN node
  ELSE Perform([node EXCEPT !.look[target] = OnResponse(@, c, SetToSortSeq(closer, <))], target)

NodesFound(c, target) ==
  LET i == Waiting(n, c, "res", target)
      closer == Knows[c] \ {0}
  IN /\ Arrives
     /\ i # 0
     /\ Commit(WalkAnswered([Completed(n, i) EXCEPT !.table = Hear(NodeSeen(@, c), closer)],
                            c, closer, target))

\* KAD_SEARCH_RES and KAD_PUBLISH_RES
ResultsFound(c, op, target) ==
  LET i == Waiting(n, c, op, target)
      m == Completed(n, i)
  IN /\ Arrives
     /\ i # 0
     /\ Commit(IF target \notin DOMAIN m.look THEN m
               ELSE [m EXCEPT !.look[target] = FinishSearch(@, c, FALSE)])

\* KAD_BOOTSTRAP_RES
BootstrapAnswered(c) ==
  LET i == Waiting(n, c, "boot", -1) IN
  /\ Arrives
  /\ i # 0
  /\ Commit([Completed(n, i) EXCEPT !.table = Hear(NodeSeen(@, c), Knows[c])])

\* KAD_HELLO_RES
Greeted(c) ==
  LET i == Waiting(n, c, "hello", -1) IN
  /\ Arrives
  /\ i # 0
  /\ Commit([Completed(n, i) EXCEPT !.table = NodeSeen(@, c)])

\* KAD_HELLO_REQ
Hello(c) ==
  /\ spare.hellos > 0
  /\ spare' = [spare EXCEPT !.hellos = @ - 1]
  /\ Commit([n EXCEPT !.table = NodeSeen(@, c)])

\* search(): a newer search for the same keyword takes over.
Search ==
  /\ spare.searches > 0
  /\ Live(n.table) # {}
  /\ Fresh(n, WordId)
  /\ spare' = [spare EXCEPT !.searches = @ - 1]
  /\ Commit(StartLookup([n EXCEPT !.look = Without(@, {WordId})], "keyword", WordId, -1))

\* stopSearch()
StopSearch ==
  /\ WordId \in DOMAIN n.look
  /\ n' = [n EXCEPT !.look = Without(@, {WordId})]
  /\ UNCHANGED spare

\* save() and the constructor of the next run.
KadRestart ==
  /\ spare.restarts > 0
  /\ spare' = [spare EXCEPT !.restarts = @ - 1]
  /\ n' = NewNode(Restored(n.table))

KadNext ==
  \/ \E count \in 0 .. Len(n.trans), aged, quiet \in SUBSET DOMAIN n.look,
        due \in SUBSET spare.due, r \in IF "bucket" \in spare.due THEN RandomBits ELSE {0} :
       KadTick(count, aged, quiet, due, r)
  \/ BucketStales
  \/ \E c \in Contacts : \/ \E target \in Ids : NodesFound(c, target)
                         \/ \E op \in {"found", "published"}, target \in {FileId, WordId} :
                              ResultsFound(c, op, target)
                         \/ BootstrapAnswered(c) \/ Greeted(c) \/ Hello(c)
  \/ Search
  \/ StopSearch
  \/ KadRestart

KadSpec == KadInit /\ [][KadNext]_kadVars

-----------------------------------------------------------------------------
(***************************************************************************)
(* Properties.                                                             *)
(***************************************************************************)
Outstanding(target, ops) ==
  Cardinality({i \in DOMAIN n.trans : n.trans[i].target = target /\ n.trans[i].op \in ops})

\* The lookups, the requests and the counters stay within the limits of Kad.cc
\* and KadRouting.cc: at most MaxLookups and a keyword search, Branch requests
\* and the extra ones in flight, MaxSearches searches.
KadTypeOK ==
  /\ n.table.used \in Seq(Buckets) /\ n.table.stale \in 0 .. Len(n.table.used)
  /\ n.router \in 0 .. Len(Routers)
  /\ \A i \in DOMAIN n.trans : n.trans[i].to \in Contacts
  /\ Cardinality(DOMAIN n.look \ {WordId}) <= MaxLookups
  /\ \A t \in DOMAIN n.look : LET w == n.look[t] IN
       /\ w.target = t /\ w.out = <<>>
       /\ w.extra \in 0 .. 2 * Branch
       /\ w.inFlight \in 0 .. Branch + w.extra
       /\ w.searches \in 0 .. MaxSearches /\ w.searching \in 0 .. w.searches

\* Every contact sits once, in the bucket of its distance, and no bucket is over
\* its size, whatever the order of greetings, answers, timeouts and restarts
\* (addNode(), nodeFailed(), restore()).
TableSound == \A b \in Buckets : PlacedIn(n.table, b) /\ Once(n.table, b)

\* A live contact gives way only when a request to it went unanswered: neither
\* new contacts nor a restart displace it (addNode(), nodeFailed(), restore()).
LiveKept ==
  [][\A c \in Live(n.table) : c \in Live(n'.table) \/ \E i \in DOMAIN n.trans : n.trans[i].to = c]_kadVars

\* A refresh looks up an ID of the bucket that was quiet the longest
\* (needRefresh(), randomIdIn()).
RefreshAims ==
  \A t \in DOMAIN n.look :
    n.look[t].kind = "refresh" => IF n.look[t].aim = -1 THEN t = 0
                                  ELSE BucketIndex(t) = n.look[t].aim

\* The counters of a lookup match the requests that are really outstanding, so
\* neither a lost nor a repeated answer makes it wait for nothing or run over
\* its limit (onResponse(), onFailure(), finishSearch(), expire()).
CountersExact ==
  \A t \in DOMAIN n.look : LET w == n.look[t] IN
    /\ w.inFlight = Outstanding(t, {"res"})
    /\ w.inFlight = Cardinality({i \in DOMAIN w.seen :
                                   w.seen[i].queried /\ ~w.seen[i].alive /\ ~w.seen[i].failed})
    /\ w.searching = Outstanding(t, {"found", "published"})

\* A finished lookup has no search outstanding, and every contact it searched
\* had answered its walk (search(), finishSearch()).
DoneIsQuiet ==
  \A t \in DOMAIN n.look : LET w == n.look[t] IN
    /\ w.done => w.converged /\ Outstanding(t, {"found", "published"}) = 0
    /\ \A i \in DOMAIN w.seen : w.seen[i].searched => w.seen[i].alive

\* A lookup that is not finished has a request outstanding, so an answer or a
\* timeout moves it on: it never depends on the lifetime after which expire()
\* drops it (nextActions(), onFailure(), finishSearch()).
NeverIdle ==
  \A t \in DOMAIN n.look :
    ~n.look[t].done => Outstanding(t, {"res", "found", "published"}) > 0
=============================================================================

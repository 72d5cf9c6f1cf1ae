# TLA+ specifications of aria2-next

These modules specify the parts of aria2-next in which the order of events
matters: the engine and its queue, the tasks of each protocol, the ED2K network,
the RPC server and the port mapper. TLC checks them on small instances; TLAPS
proves the main properties of the engine for any number of downloads, those of
media downloads for any presentation and those of ED2K downloads for any file, both
for any sequence of failures.
`PROJECT.json` lists every run, the mutants that show each property can fail, the
source lines behind every definition, the hazards and the findings.

## The system

aria2-next is a download engine with one *control thread* (a Boost.Asio
`io_context`). Everything the engine knows is changed only by handlers on that
thread. Around it work

- the threads of the **disk pool** (`disk/DiskPool.h`), whose completions are
  posted to the control thread;
- the threads of **libtorrent** (`bt/Session.cc`), whose alerts are posted;
- a **worker thread per media download** (`media/MediaTask.cc`), polled;
- **libcurl** sockets (`http/Client.cc`), the sockets of the ED2K network and of
  the RPC server, which are handlers and coroutines of the same loop.

| Part | Source | Modules |
| --- | --- | --- |
| Engine, session file | `core/Engine`, `core/Task`, `state/Session` | `Queues`, `Engine`, `EngineRequests` |
| What the engine expects of a task | `core/Task.h` | `TaskContract` |
| Byte ranges, segment planner | `http/Ranges`, `http/SegmentPlanner` | `Ranges`, `RangeSet`, `SegmentPlanner` |
| HTTP transfer with its record | `http/HttpTask`, `state/StateStore`, `disk/Output` | `HttpTransfer` |
| HTTP sources | `http/HttpTask` | `HttpSources` |
| Host pool | `http/HostPool` | `HostPool` |
| BitTorrent | `bt/BtTask`, `bt/Session` | `BtTask` |
| Media | `media/MediaTask`, `MediaJob`, `MediaSession`, `MediaStore`, `MediaPublication`, ... | `Media` |
| ED2K download | `ed2k/Ed2kTask`, `ed2k/Parts` | `Ed2kParts`, `Ed2kTask` |
| ED2K clients and uploads | `ed2k/Client`, `ed2k/UploadQueue`, `ed2k/Network` | `Ed2kClient` |
| ED2K server session, searches | `ed2k/ServerSession`, `ed2k/Searches` | `Ed2kServer` |
| ED2K connections | `ed2k/Connection`, `ed2k/Cipher` | `Ed2kConnection` |
| Kademlia | `ed2k/Kad`, `ed2k/KadRouting` | `KadTable`, `Kad` |
| ED2K message formats | `ed2k/Packet`, `PeerProtocol`, `ServerProtocol`, `KadProtocol`, `KadSearch`, `Search` | `Ed2kWire`, `PeerMessages`, `ServerMessages`, `KadMessages`, `Ed2kCodec`, `CodecSamples` |
| Port mapper | `net/PortMapper` | `PortMapper` |
| RPC server and dispatcher | `rpc/Server`, `rpc/Dispatcher` | `RpcDocuments`, `RpcServer` |

## How the modules are built

Most modules keep a component in one record, named by a short letter, with a
field for each member of the C++ class that decides something. A method is an
operator from such a record to the next one, so that a method that calls another
is a composition of operators, and an action is a handler with all the methods it
calls. Callbacks, completions and posted handlers wait in sequences that are part
of the state; another event may come between any two of them.

What the world may do (errors, lost messages, stops, deaths of the process) is
bounded by a *scenario*: a record of how often each may still happen, chosen in
`Init` from a constant set and counted down. A set of scenarios covers each fault
and the pairs that interact, without multiplying all of them.

The components share no state apart from what they call, so one run checks several
of them side by side: in `MCEngineScenes`, `MCTransfers`, `MCTasks` and `MCEd2k` a
variable `scene` says which component a behaviour is about, and the others keep one
initial state. A property of such a module joins properties of its components, each
for its scene. The components with theorems are extended, not instantiated (`Engine`
by the engine's MC modules, `Media` by `MCTasks`, `Ed2kTask` by `MCEd2k`): what a run
checks of them is the very definition that is proved.

A few constants exclude an overlap for which a property of the code is not true
(`Situations` of `Engine`, `LateWrong` and `OpenErrors` of `Ed2kTask`, `Admitted` of
`MCEd2k`, and bounds in scenarios). They are all listed under Findings. With none of
these overlaps admitted every property of the passing runs holds.

## Modules

### `Queues`, `Engine`, `EngineRequests`

`Engine` has a variable for each field of `Engine` and `Task` that decides
something: `tasks_`, `active_`, `waiting_`, `stopped_`, `state_`, `stopping_`,
`moving_`, `scheduled_`, `shuttingDown_`, and so on. Three things around these
fields are state as well:

- `io`, the queue of handlers posted to the control thread. They run in the order
  in which they were posted. A client call may come between any two of them,
  since the socket event behind it may have been queued earlier.
- `onStop` and `closing`: where the callback of a stop waits. A task holds it
  (`stopped_`) until it is quiet; an HTTP task then sends it along with the close
  of its output file, and the disk pool posts it.
- `work`, the protocol side of a task: idle, running, about to be handed over, or
  over with its `retire()` still queued.

Each client call and each handler is one action, with all it does in one step:
`fill()` starts every task it has room for, `retire()` also trims the results.
Protocol tasks appear by their contract in three kinds, which differ in when
`stop()` answers: `http` (at once, or after the pending writes and the close), `bt`
(BitTorrent and ED2K: once the session let go of the download) and `media` (when
the worker thread notices).

The constant `Situations` names the overlaps of a request with work in flight for
which the engine does something other than for the same requests made one after
the other: a stop between `complete()` and the deferred `retire()` (`ending`), a
second, forced stop (`restop`), a move during shutdown (`moving`), a move before
the disk pool exists (`nodisk`), a task that starts to seed (`sharing`), a stop
between a posted `handOver()` and its run (`handing`). The constant `Calls` names
the calls clients make.

`Queues` holds the edits of the deques. `EngineRequests` adds a variable that
records the removals clients were told are done; it never restricts a step.

### `TaskContract`

What the engine relies on: a task starts only when it is idle, ends by itself at
most once and only while it runs, answers a stop once, and after the answer nothing
of it is under way. `HttpTransfer`, `BtTask`, `Media` and `Ed2kTask` are each shown
to implement it by a refinement mapping (`...KeepsContract`). `Engine` relies on no
more than this.

### `Ranges`, `RangeSet`, `SegmentPlanner`

`Ranges` writes the operations of `RangeSet` as operators on sets of pairs
`<<begin, end>>`. The loop of `add()` that swallows ranges becomes the least end
that no later range touches. `RangeSet` applies any sequence of `add()` and
`remove()` and compares every query with the set of bytes it stands for.

`SegmentPlanner` is the planner with the part of `HttpTask` that drives it: which
phase may launch a connection, how the first answer sets the length and clamps the
probes, how a chunk is consumed across the end of a range (`Turn` is one turn of
the loop in `HttpTask::receive()`), what ends a connection, restarts and repairs.
Speeds, ages and start-up times only select among the ranges that may be cut or
copied, and where a cut falls; the model allows each outcome the code's bounds
permit. Left out: the ways a task ends before it is complete, and ranged answers
without `Content-Length`, for whose end `tryFinish()` waits.

### `HttpTransfer`

One HTTP task from `start()` to its end: what it finds on the disk (nothing, a
record, a foreign file), the probe and the decision on a path, opening and
allocating, connections that answer, deliver, overrun and fail, buffered and
pending writes, a server whose file changes, the restart that waits for quiet,
piece checks and repairs, checkpoints, stop and the close of the file. The strand
of the disk pool runs its jobs in order and posts the completions. The process may
die between any two steps; the record and the file stay.

The data of a unit of the file is the version of the server's file it came from,
so that a file mixed from two versions is visible. A damaged unit is one that the
piece check finds.

### `HttpSources`

Sources (mirrors), connection slots and address families: which source a slot gets,
redirects that expire and are refreshed by one connection, families that are blamed
or left when slow, tries per slot and per source, overload answers, mirrors dropped
for serving another file, and `aria2.changeUri` in between. A range is one part;
speeds are slow or fast; moving a connection to the faster family is always worth
it; a refusal that lowers the connections is the same as a busy server; one 404 ends
a source; back-off delays are flags that time clears. When the first source is
dropped and none is left the phase becomes `changed`, where `HttpTransfer` goes on.

### `HostPool`

`Allocate()` hands the seats of a server to its members one at a time; the result is
cached until something changes. The module has every operation of the class, servers
reached under several names included; time is a small counter.

### `BtTask`

Two tasks and the libtorrent session they share. The session thread executes calls
and queues alerts; the first of them posts a drain to the control thread, which pops
and dispatches them. Resume data is written by the pool. libtorrent itself is
external: it answers what it is asked, adds a torrent once per info hash, and may
report errors. A save that libtorrent fails and a resume write that the disk fails
are warned of and otherwise counted like the others: the torrent leaves all the same.

### `Media`

A task, its worker thread and what survives a death: the database rows, the cache
of segments, the staging file and the output. The control thread only polls the
worker and sets the flags of `Control`. Publication is a sequence of steps (stage,
prepare, link, unlink, complete) with a death possible after each; a recovery
continues from what is found. The segments named by one version of a manifest do
not change.

### `Ed2kParts`, `Ed2kTask`

`Ed2kParts` is `Parts`: parts and blocks, claims with their age, the ranking of
candidates, the endgame. `Ed2kTask` is the download: opening under each option,
checking an existing file, blocks right and wrong, hash sets that come late, hashing
behind the writes on the same strand, sharing, records, stop and requeue. Sources
are the environment.

### `Ed2kClient`

Clients with their one connection (dialled, accepted or called back through a
server), the file that is asked for, the slot that is granted or waited for, and the
queue of the `UploadQueue`. A caller is known by its hello only; until then it is
nobody.

### `Ed2kServer`

The server session as a coroutine with one or two dials, resolver and handshake
included, and the searches that use it and Kad.

### `Ed2kConnection`

Two ends and the bytes between them: obfuscation handshake of clients and servers,
packets, the bounded write queue and the wait in `drain()`. A key stream is named by
its key and its position, so that a byte decrypted at the wrong place is garbage.

### `KadTable`, `Kad`

`KadTable` is the routing tree on identifiers of three bits: insertion, splitting,
replacement, failures, refreshes. `Kad` runs lookups over it, with requests that are
answered, lost or answered late; a lookup ends, is stopped or outlives its lifetime.

### `Ed2kWire`, `PeerMessages`, `ServerMessages`, `KadMessages`, `Ed2kCodec`, `CodecSamples`

Messages as sequences of bytes, with widths and byte order as in the code, and
hashes of a few bytes. `Ed2kCodec` sends each sample message whole, cut at every
place and padded; it also publishes a source and finds it again, from entry to tags
to result. `CodecSamples` lists the messages.

### `PortMapper`

Mappers as the coroutine of `PortMapper.cc`, one made after the other was closed, and
possibly before its mappings are removed, and a gateway that answers, refuses, loses answers, leaves, returns or restarts.

### `RpcDocuments`, `RpcServer`

HTTP sessions and WebSocket sockets of two clients, each with a script of requests:
single calls, batches, multicalls, wrong tokens, garbage, large answers. Methods
answer at once or later; notifications are queued in between; a client or a signal
asks for the shutdown. The engine behind it is reduced to whether it is stopping.
`RpcDocuments` has the shapes of calls, requests and scripts.

## What the runs check

Related properties of a component are checked together, as one conjunction with a
name of its own; the MC module defines it from the properties of the components,
each of which says what it means where it is stated.

`queue`: the engine as a daemon under every client call about the queue, as a
command line that ends by itself, and the RPC server.

| Property | Shows |
| --- | --- |
| `TypeOK`, `OneQueue` | each task is in the one queue its state says |
| `InFlightAgrees` | flags, callbacks, file closes and posted handlers agree |
| `MovesOnlyQuiet` | files move only while nothing can touch them |
| `NoTaskCutOff` | the loop ends only when no task is active |
| `SessionExact` | the saved session is what is left to download |
| `LimitKept` | no start exceeds the limit of concurrent downloads |
| `EngineProgress` | stops and moves are answered, shutdowns end, a free slot goes to a waiting download, requests are answered |
| `ExitExact` | the command line's process ends, and only when nothing is left to run, followers included |
| `AnsweredExactly` | one answer per request, in turn, also at an exit; each notification once; one writer per socket |
| `PerformedProperly` | calls are performed only with the token, and batches and multicalls as documented |

`media`: an HTTP download that a hand-over turns into a media one, and a torrent that
may seed, with every client call, retries, no room for results and an ED2K network
that closes late, with moves during a shutdown and before the disk pool exists.
`QueueSound` joins `TypeOK`, `OneQueue`, `InFlightAgrees` and `NoTaskCutOff` with
`NoLostWakeup`: a waiting task and a slot that no active task holds come with a queued
`fill()`. Slots are counted by `active_` here and not, as `fill()` counts them, without
the torrents that only seed: such a torrent gives its slot up without a call of
`schedule()`, and a download may wait for the next event although `fill()` would start
it. The run
has a `VIEW` that leaves out `session`, which steps only write: no property of this run
is about it.

`transfers`: how a file is fetched over HTTP.

| Property | Shows |
| --- | --- |
| `FileExact` | what was received is what was handed to the file, and a finished file is whole |
| `WorkExact` | nothing outside a request, and nothing twice without a race |
| `RangesExact` | `RangeSet` and its queries are exact after any sequence of edits |
| `SourcesExact` | a connection is counted for the source it uses, one refresh at a time, detours end; edits of the sources that move one with connections to another index are excluded (see Findings) |
| `SourcesSuffice` | one healthy source is enough; a task is never stuck |
| `SeatsExact` | the cached allocation is fresh, seats are shared fairly, a limit covers what runs |
| `PausesKept` | the wait a server asked for is shortened by time alone (when the pool lets the next request go; requests themselves are not in the model) |

`tasks`: HTTP, BitTorrent and media tasks through stops, restarts, errors and deaths
of the process.

| Property | Shows |
| --- | --- |
| `RecordTruthful` | a record never claims what the file does not hold |
| `CompleteIsRight` | a complete file is of one version and passed its check |
| `FilesKept` | one output at a time, pending writes counted, an adopted file kept |
| `TorrentKept` | a torrent leaves with its newest resume data saved, unless that save or that write failed; a discarded record stays discarded, nothing runs before its selection, metainfo is kept |
| `MediaSound` | a completed output is whole, rows have their segments, a removed task leaves nothing |
| `PublicationSafe` | a publication resumes after a death and never replaces the user's files |
| `TasksStop`, `TasksEnd` | stops are answered; tasks end, the planner completes, lowered limits are lifted |
| `TasksKeepContract` | each task implements `TaskContract` |

`ed2k`: the ED2K network and the port mapper.

| Property | Shows |
| --- | --- |
| `VerifiedIsRight`, `FileSound` | a part marked verified holds the right bytes; what is complete or recorded is right; a file found at the path is kept |
| `EndgameOnly` | two sources share a block in the endgame only |
| `FileEnds`, `FileKeepsContract` | the download ends and closes its file; it implements `TaskContract` |
| `PeersSound` | uploads hold slots, one connection per client, a detached file is not served, claimed blocks can arrive |
| `SessionSound` | one server, no log-in after a stop, results go to their search |
| `KadSound` | the table is sound and counted, refreshes reach their bucket, a lookup is never idle and quiet when done |
| `StreamSound` | order kept, nothing garbled, a wrong hash rejected, a waiting sender woken |
| `CodecSound` | what is written is read back, cut or padded messages are refused, what is published is found |
| `PortsSound` | what is reported mapped is forwarded, unless the mapper was made while an earlier one was removing its mappings (see Findings); mappings are removed |
| `NetworkProgress` | dials and handshakes end, a server is found, ports return, close is answered |

Each property has a mutant: a definition changed as a plausible bug would change
the code, under which the property fails. They are next to the definitions and
named in `PROJECT.json`.

## Findings

Seven runs are expected to end in a violation. Each states what the documentation
or a comment promises and shows a behaviour of the code that breaks it.

| Run | Behaviour |
| --- | --- |
| `pause_before_retire` | a pause between `complete()` or `failed()` and the deferred `retire()` leaves the task in `waiting_` and in `stopped_` |
| `remove_while_pausing` | `aria2.remove` of a task that is still pausing is answered and does nothing |
| `shutdown_during_move` | a shutdown saves the old directory of a download whose files are being moved |
| `move_without_pool` | `aria2.moveDownload` before any transfer ran uses the disk pool that does not exist yet |
| `hidden_size` | a server that serves ranges but hides the length: an existing file is adopted as a prefix, the first connection is dropped so that requests for the rest follow, and none is ever made; the task neither completes nor fails |
| `adopted_file` | a file of the user that was adopted gets a record like any other; after a pause and an unpause the task takes it for its own and truncates it when the server's file has changed |
| `endgame_overwrite` | the second copy of an endgame block is written even if its part is being hashed or is verified; wrong data then sits in a verified part |

The models reach other behaviours that break a property. The instances of the
passing runs exclude each of them as the last column says; admitting it there makes
TLC show the behaviour.

| Behaviour | Component's property | Where excluded |
| --- | --- | --- |
| a write error while an HTTP task is stopping: the stop is not answered | `StopAnswered` | `MCTasks`: no scenario has `errors` and `stops` |
| the process dies between allocating a file and its first record: the next start adopts the holes | `RecordTruthful` | `CrashUnrecorded` of `HttpTransfer` |
| the last connection ends while the other mirror is already given up: the task neither fails nor goes on | `NeverStuck` | `MCTransfers`: `MirrorGivenUp` |
| `aria2.changeUri` inserts a mirror in front of one with connections, or removes one there: a connection knows its source by its index, so the failures of one mirror count against another, the count of connections is wrong, and the download may idle with a healthy mirror | `OwnSource`, `NeverStuck` | `MCTransfers`: `shifts = FALSE`; `MirrorInserted` admits it |
| two downloads of one torrent: discarding one removes the metainfo of the other | `MetainfoKept` | `MCTasks`: no scenario with two additions has `errors` and `again` |
| an error of opening an ED2K file: the task does not end | `FileCloses` | `OpenErrors` |
| a slot granted to a client that must be dialled, and lost meanwhile, is still announced | `UploadsHoldSlots` | `Admitted`: `"pending"` |
| a client calls while it is dialled: two connections | `OneConnection` | `Admitted`: `"cross"` |
| a name resolved after the ED2K network stopped: the session logs in | `NoLoginAfterStop` | `MCEd2k`: `late = 0` |
| a late answer to the last search counts for the next one | `OwnResults` | `MCEd2k`: `quiet = 1` |
| overlapping lookups of Kad: a finished one is asked again | `DoneIsQuiet` | `Admitted`: `"overlap"` |
| the port mapper is closed while a request is under way: the mapping stays | `MappingsRemoved` | `MCEd2k`: `busy = FALSE` |
| `ed2k-port-mapping` is turned off and on again at once: the requests of the old mapper to remove the ports are executed after the new one added them, which reports "mapped" until the renewal | `MappedIsForwarded` | the behaviours are in the run; `PortsSound` has the weaker `ApartIsForwarded` |

Seen while modelling, and left out of the models or stated as hazards: a shutdown
between `complete()` and `retire()` saves a finished download; a forced shutdown
replaces the callback of a removal in progress; a pause asked for while files move
is refused; the loop may end before `aria2.shutdown` itself is answered over HTTP,
when nothing has to be stopped; `complete()` writes a record back that `succeed()`
removed; a magnet link that pauses after its metadata and is resumed without a
selection stays as it is; alerts that libtorrent drops leave `pendingSaves_` above
zero; an answer to AddPortMapping that is lost leaves a mapping nobody removes; the
link of a Kad search result has the bytes of each word of the hash swapped.

## Bounds

- *Engine*: two downloads, limits 1 and 2, zero or one kept result. The interactions
  are between one task and the queue or between two tasks that compete for a slot or
  a place among the results; the theorems below remove the bound for the main
  properties. The handler queue needs no bound: at most one handler per download and
  one `fill()` are queued at a time, which `InFlightAgrees` states.
- *RPC*: two clients with scripts of up to six requests, one or two notifications,
  one shutdown.
- *RangeSet*: eight bytes, all 256 sets: up to four separate ranges, so that one
  `add()` can swallow several with others on both sides.
- *Planner*: three connections on five units, minimum 2, floor 1, alignment 2, two
  copies, chunks up to 2, pieces of 3 (the last one short), one fault. That gives
  cuts that are and are not aligned, a range cut twice, a chunk that crosses the
  end of a range into an idle one, two racing copies, and a repair. Liveness uses
  fewer.
- *Sources*: two slots, two mirrors, two families. *Host pool*: two downloads on two
  servers, two refusals.
- *HTTP task*: two connections, two units, three versions of the file, two restarts,
  one repair. A mixture of versions needs two units and two versions.
- *BitTorrent*: two tasks of one torrent, one piece. *Media*: two segments, a live
  window of two, three names; the theorems below remove these bounds.
- *ED2K*: two parts of two blocks and of one, two sources (the theorems below remove
  these bounds); two clients, one slot, one
  place to wait; two servers and one that is learned, two searches; five nodes on
  identifiers of three bits, so that buckets split and fill; two ends with packets
  of a few bytes and a write queue of two; two mappers on two ports.

The bounds on faults are in the scenarios of the MC modules.

## Fairness

- The control loop serves its queue and the pool its jobs: both are FIFO and never
  block on a client.
- A task that was told to stop becomes quiet (`Quiesce`, `Detached` of `Engine`).
  For each kind of task this is no longer assumed but shown (`StopAnswered`,
  `StopsAnswered`, `MediaEnds`, `FileCloses`) from weaker assumptions: libtorrent
  executes calls and posts alerts, the media worker leaves its loop when cancelled,
  the strand runs its jobs.
- Client calls, faults and deaths are never fair.
- Only the command line of `MCEngineScenes` assumes that transfers end.
- Planner: `tick()` calls `launch()` every second, a connection answers, delivers or
  is broken off by the stall timer. Splits, races and faults are not fair.
- ED2K: the tick runs every second, a dial ends within its timeout, a source delivers
  what it was asked for or is dropped by the transfer timeout, waits pass.
- RPC: writes end (or the connection is dropped), asynchronous methods answer.

## Proofs

### The engine

`QueueLemmas` states what the edits of the deques do to their sets of values and
to the absence of duplicates. `EngineLemmas` has the inductive invariant, the
handler queue, the stop of a task and one lemma per client call; `EngineStepProofs`
has one per step of a task or the pool and per posted handler, and `EngineProofs`
what each of them does to the slots, and the theorems.

| Theorem | Statement | Also assumes |
| --- | --- | --- |
| `TypeCorrect` | `Spec => []TypeOK` | |
| `QueuesPartition` | `Spec => []OneQueue` | |
| `FlightAgreement` | `Spec => []InFlightAgrees` | |
| `QuietMoves` | `Spec => []MovesOnlyQuiet` | |
| `NothingCutOff` | `Spec => []NoTaskCutOff` | |
| `LimitRespected` | `Spec => LimitKept` | |
| `WakeupsKept` | `Spec => []NoLostWakeup` | |
| `QueueKept` | `Spec => []QueueSound` | |
| `SessionSaved` | `Spec => []SessionExact` | no `"moving"`, no ED2K network, moves only over RPC |

They hold for every set of downloads, kinds, input list, limits and calls that
satisfies `ConstantsOK`, and assume `Orderly`: of the overlaps in `Situations`, at
most `moving`, `nodisk` and `sharing` occur. The others let a stop reach a download
that ended, hands over or stops already, which breaks `OneQueue`
(`pause_before_retire`).

The inductive invariant is

    IInv == TypeOK /\ OneQueue /\ InFlightAgrees

`OneQueue` is not inductive alone: that `retire()` finds its task in `active_`
depends on the task still being active when the deferred handler runs, which is
what `InFlightAgrees` says of every queued handler. `InFlightAgrees` in turn needs
`OneQueue` to know which state the task has. `MovesOnlyQuiet` follows from the
three.

The slots need two facts more. `Exit`: once `finishShutdown()` is posted or the loop
ends, nothing is active and nothing will be, as `fill()` returns early. `Mild`: every
step but `fill()` starts nothing, and calls `schedule()` if it frees a slot, raises
the limit or lets a task wait. `fill()` itself takes as many waiting tasks as there
is room for or all there are (`FillUsesRoom`, by counting), which gives both
`LimitKept` and that nothing is left to wake. A torrent that begins to seed frees
its slot without `schedule()`, so no `fill()` comes for it. `NoLostWakeup` therefore
asks for a slot that no active task holds, seeding or not; it says the same in every
state, before, while and after a torrent seeds.

`SessionExact` rests on `Settled`: the file on disk is the queue as it is once the
loop stopped, and no move is in progress from `shutdown()` on. With moves the
statement is false (`shutdown_during_move`); with an ED2K network the loop goes on
after the save, which is left to TLC.

### Media downloads

`MediaProofs` proves `Media` for every length of a presentation, live window, number
of names and of versions, and every scenario: `Sizes` only says that these constants
are numbers and that a scenario begins with nothing having died, been taken away or
left behind. `MCTasks` assumes it of its instance, so TLC evaluates it.

| Theorem | Statement |
| --- | --- |
| `MediaInvariant` | `MediaSpec => []MediaInv` |
| `PublishedWhole` | `MediaSpec => []CompleteIsWhole` |
| `SegmentsStored` | `MediaSpec => []RecordedIsStored` |
| `RemovalClean` | `MediaSpec => []RemovedLeavesNothing` |
| `FilesUntouched` | `MediaSpec => UserFilesKept` |
| `PublicationKept` | `MediaSpec => PublicationResumes` |
| `ContractKept` | `MediaSpec => MediaKeepsContract` |
| `MediaKept` | `MediaSpec => []MediaSound` |
| `PublicationSound` | `MediaSpec => PublicationSafe` |

`MediaSound` and `PublicationSafe` join the others; `ContractKept` is the part of
`TasksKeepContract` that is about media. None of them is inductive. `MediaInv` adds to the types

- `Attached`: a worker exists exactly while the task is active, and a stop that is
  owed has reached it;
- `Published`: while a publication is recorded, the staged file or the output is the
  one it names, and the worker's place says which;
- `Owned`: every staging file is the recorded publication's or the worker's;
- `Cached`: what is committed is in the cache until the output is in place;
- `Consumed`: what is committed is one stretch of one version, ending right before
  the segment the worker is at;
- `Finished`: what is staged, recorded and published is whole.

`CompleteIsWhole` is the end of the chain: `Consumed` makes the segments whole when the
loop ends, `Finished` carries them through the staged file, `Published` through any
death to the output. There is one lemma per action, which shows every conjunct. For
`ContractKept`, `SeenSteps` sorts the steps by what the engine sees of them (the
task's place, an owed stop, a death); by `Attached` the worker runs exactly while the
task is active, and each class is then a step of `TaskContract` or none.

### ED2K downloads

`Ed2kLemmas`, `Ed2kStepProofs` and `Ed2kProofs` prove `Ed2kTask` with `Ed2kParts` for
every size of the file, a part and a block, any finite set of sources with any parts,
any number of blocks asked for ahead, and every scenario of blocks, lost sources, disk
errors, saves, stops, edits and deaths.

| Theorem | Statement |
| --- | --- |
| `FileInvariant` | `FileSpec => []FileInv` |
| `SharedIsRight` | `FileSpec => []VerifiedIsRight` |
| `FileKept` | `FileSpec => []FileSound` |
| `EndgameLast` | `FileSpec => EndgameOnly` |
| `FileIsATask` | `FileSpec => FileKeepsContract` |

They assume `FileConstants`: the sizes are positive numbers, the sources hold parts of
the file, a scenario begins with nothing having died, a file found short has more than
one part, and `LateWrong` is false. The last one is needed: wrong data for a part that
has all its data, or is being hashed, is what `endgame_overwrite` shows to break
`VerifiedIsRight`. `MCEd2k` assumes `FileConstants` of its instance whenever it does not
admit that case, so TLC evaluates it.

`VerifiedIsRight` is about the file, and the file is written by jobs that were queued
before a part was hashed and by others that come after. `FileInv` adds to the types

- `Queue`: which jobs can be under way in each phase, that an open and a close are
  alone, and that no wrong data is queued behind the hash of its part;
- `Progress`: verified parts are received, claims exist only while downloading and stay
  within a part, parts wait for the hash set only while there is none, nothing is
  hashed before;
- `Verified`: a verified part is right and nothing queued will spoil it; a hash that
  ended well was of right data and no wrong write has followed; the parts that
  `checkAll()` found right are right until data arrives for them;
- `Recorded`: a record that is still current names verified parts that are right, in
  the file the task has;
- `Answering` and `Found`: how a stop is owed, and that the file that was there is
  opened without truncating.

The first four are stated of values (a task, a file, a record), as the operators of
the model are. `Ed2kLemmas` shows for each method that it keeps them, `Ed2kStepProofs`
for a round of claims, a block and a job of the strand; `Ed2kProofs` has one lemma per
action and the theorems. A round of claims is a recursive function over the number of
blocks; that it exists and keeps the invariant is shown by induction with the claim
written as a set of numbers (`EveryNumber`, from the well-foundedness of `<`). For
`FileIsATask`, `QuietIsWork` says that a step of the task is seen by the engine only as
work, or as the start, the end or the answer to a stop.

### Only model-checked

- Liveness under fairness, which is out of the reach of the prover: `EngineProgress`,
  `ExitExact`, `TasksStop`, `TasksEnd`, `FileEnds` and `NetworkProgress`.
- The other modules: `HttpTransfer`, `HttpSources`, `SegmentPlanner`, `RangeSet`,
  `HostPool`, `BtTask`, `Ed2kServer`, `Ed2kConnection`, `Kad`, `KadTable`, `PortMapper`
  and `RpcServer`, and with them the refinement of `TaskContract` by HTTP and
  BitTorrent tasks. Where they fold over sets, a proof would first need the value of
  the fold in closed form, as `HashJobs` and `VerifyParts` give it for `Ed2kTask`.
- `Ed2kClient` and the message formats: they are built on recursive operators, under
  which the prover loses its arithmetic.
- Of `Engine`, `SessionExact` with an ED2K network; of `EngineRequests` everything.
- Of `Ed2kTask`, what happens when wrong data comes late.

## Not modelled

- *Parsers and texts*: Metalink, metainfo, block lists, links, XML-RPC, the session
  file's format, the option catalogue, paths, names and headers. They are functions
  of their input, without state or order of events.
- *Digests, ciphers and compression*: their results are abstract (equal or not).
- *libcurl, libtorrent, GPAC, miniupnpc, SQLite*: external, modelled by how the code
  uses them. Cookies, proxies and TLS are settings passed to libcurl.
- *Media tracks*: choosing and muxing tracks and the timeline of packets are
  computations of the worker thread on data the models do not have; whether they
  succeed is an input of `Media`.
- *Kademlia*: the firewall check, buddies and the change of the own address need
  timers of hours and three roles at once, and share no state with lookups. UDP
  obfuscation is a message format, with its keys abstract.
- *ED2K*: secure identification, source exchange, browsing and comments (stateless
  answers); AICH recovery is not used by the program.
- *RPC*: listening, certificates, CORS; queries, which read state only.
- *Console, hooks, logging*: observers.

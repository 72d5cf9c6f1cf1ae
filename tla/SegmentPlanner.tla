--------------------------- MODULE SegmentPlanner ---------------------------
(***************************************************************************)
(* http/SegmentPlanner: which bytes each connection of a download asks     *)
(* for, as http/HttpTask drives it.  A worker stands for a connection with *)
(* its entry in workers_; bytes are numbered in units of the model.        *)
(*                                                                         *)
(* Speeds, ages and start-up times only decide which range is split and    *)
(* where, and which one is raced; here any choice they can lead to is      *)
(* possible.  The server sends what was asked for, in order, and may break *)
(* a connection off at any time; it states the length of a ranged answer   *)
(* (tryFinish() waits for the end of one without Content-Length).  What    *)
(* ends the task before it is complete (abort(), stop()) ends the model.   *)
(***************************************************************************)
EXTENDS Ranges

CONSTANTS
  Ids,        \* connections that may exist at a time
  Size,       \* the length of the file
  MinSplit,   \* min-split-size
  Floor,      \* minSplitFloor
  Alignment,  \* alignment
  MaxCopies,  \* maxCopies
  MaxChunk,   \* the bytes one callback of the connection brings, at most
  Piece,      \* the length of a piece with a hash of its own
  HiddenSize, \* whether a server that serves ranges may not tell the length
  MaxFaults   \* connections that break, restarts and repairs, in all

ASSUME PlannerOK ==
  /\ Size \in Nat \ {0} /\ MinSplit \in Nat \ {0} /\ Alignment \in Nat \ {0}
  /\ Piece \in Nat \ {0}
  /\ Floor \in 1..MinSplit
  /\ MaxCopies \in Nat /\ MaxChunk \in Nat /\ MaxFaults \in Nat
  /\ HiddenSize \in BOOLEAN

VARIABLES
  phase,      \* HttpTask's phase_
  ranged,     \* HttpTask's ranged_: the server serves ranges
  length,     \* length_, -1 while unknown
  received,   \* received_
  workers,    \* workers_
  done,       \* workers whose connection is being ended (Worker::done)
  delivered,  \* the bytes handed to the output file
  raced,      \* race() has started a copy
  named,      \* path_ is chosen
  faults      \* how much went wrong so far

vars == <<phase, ranged, length, received, workers, done, delivered, raced,
          named, faults>>

Unbounded == Size + 1   \* larger than any length

Worker(b, e, requested) ==
  [position |-> b, end |-> e, requestEnd |-> requested, receiving |-> FALSE]

Running == DOMAIN workers
Remaining(w) == w.end - w.position

\* workers_[id] = w, and workers_.erase() of every id in S.
With(ws, id, w) == [i \in DOMAIN ws \cup {id} |-> IF i = id THEN w ELSE ws[i]]
Drop(ws, S) == [i \in DOMAIN ws \ S |-> ws[i]]

\* complete().
IsComplete(len, R) == len >= 0 /\ Contains(R, 0, len)

\* The planner's and the task's fields keep their types; a connection that is being
\* ended still has its entry in workers_.
TypeOK ==
  /\ phase \in {"Probing", "Opening", "Running", "Finishing", "Done"}
  /\ ranged \in BOOLEAN
  /\ length \in {-1, Size}
  /\ received \subseteq (0..Size) \X (0..Size)
  /\ Running \subseteq Ids /\ done \subseteq Running
  /\ \A i \in Running :
       workers[i] \in [position : 0..Size, end : 0..Unbounded,
                       requestEnd : 0..Unbounded, receiving : BOOLEAN]
  /\ delivered \subseteq 0..(Size - 1)
  /\ raced \in BOOLEAN /\ named \in BOOLEAN
  /\ faults \in 0..MaxFaults

-----------------------------------------------------------------------------
(* New connections.                                                        *)

\* received_ with the ranges of the workers in S added; limit cuts them off.
Owned(ws, S, R, limit) ==
  FoldSet(LAMBDA i, O : Add(O, ws[i].position, Least(ws[i].end, limit)), R, S)

\* The gaps that firstGap() finds one after the other.
Gaps(R) == UNION {FirstGap(R, from, length) : from \in {0} \cup {r[2] : r \in R}}

\* largestGap(), as a set: the first of the longest gaps.
LargestGap ==
  LET gaps == Gaps(Owned(workers, Running, received, length))
      longest == {g \in gaps : \A o \in gaps : o[2] - o[1] <= g[2] - g[1]}
  IN  {g \in longest : \A o \in longest : g[1] <= o[1]}

\* Where split() may cut a worker's range, least being minSplitFor() of its speed.
Cuts(w) ==
  UNION {LET first == w.position + least
             last == w.end - least
             aligned(x) == x - (x % Alignment)
         IN  {IF aligned(x) > first THEN aligned(x) ELSE x : x \in first..last}
         : least \in {n \in Floor..MinSplit : Remaining(w) >= 2 * n}}

\* The workers that race() groups with i: they have the same end.
Group(i) == {j \in Running : workers[j].end = workers[i].end /\ Remaining(workers[j]) > 0}

\* Whether race() may copy the range of i: some of its silent copies are not
\* counted, and at most 2 * MaxCopies silent ones are tried.
MayRace(i) ==
  /\ Remaining(workers[i]) > 0 /\ workers[i].end # Unbounded
  /\ \E silent \in SUBSET {j \in Group(i) : ~workers[j].receiving} :
       /\ Cardinality(Group(i) \ silent) < MaxCopies
       /\ Cardinality(silent) < 2 * MaxCopies

\* launch() while probing: one request for all of the file, and a second one when
\* the first is slow to answer.
Probe(id) ==
  /\ phase = "Probing" /\ id \notin Running /\ Cardinality(Running) < 2
  /\ workers' = With(workers, id, Worker(0, Unbounded, Unbounded))
  /\ UNCHANGED <<phase, ranged, length, received, done, delivered, raced, named, faults>>

\* launch() without ranges: the whole file, by one connection.
Whole(id) ==
  /\ phase = "Running" /\ ~IsComplete(length, received) /\ ~ranged /\ Running = {}
  /\ LET end == IF length >= 0 THEN length ELSE Unbounded
     IN  workers' = With(workers, id, Worker(0, end, end))
  /\ UNCHANGED <<phase, ranged, length, received, done, delivered, raced, named, faults>>

\* launch() of one more connection, for which assign() finds work.
MayAssign(id) ==
  /\ phase = "Running" /\ ~IsComplete(length, received) /\ ranged /\ length >= 0
  /\ id \in Ids \ Running

\* assign(): the largest gap,
Assign(id) ==
  /\ MayAssign(id)
  /\ \E g \in LargestGap : workers' = With(workers, id, Worker(g[1], g[2], g[2]))
  /\ UNCHANGED <<phase, ranged, length, received, done, delivered, raced, named, faults>>

\* Mutant: the worker that is cut keeps its end.
SplitKeeps(id) ==
  /\ MayAssign(id) /\ LargestGap = {}
  /\ \E victim \in Running, end \in 0..Size :
       /\ end = workers[victim].end
       /\ \E cut \in Cuts(workers[victim]) :
            workers' = With(workers, id, Worker(cut, end, end))
  /\ UNCHANGED <<phase, ranged, length, received, done, delivered, raced, named, faults>>

\* or, when there is none, the tail of a range that split() cuts,
Split(id) ==
  /\ MayAssign(id) /\ LargestGap = {}
  /\ \E victim \in Running, end \in 0..Size :
       /\ end = workers[victim].end
       /\ \E cut \in Cuts(workers[victim]) :
            workers' = With([workers EXCEPT ![victim].end = cut], id, Worker(cut, end, end))
  /\ UNCHANGED <<phase, ranged, length, received, done, delivered, raced, named, faults>>

\* or, when no range is worth a cut, a copy of a slow one: race().
Race(id) ==
  /\ MayAssign(id) /\ LargestGap = {}
  /\ \A i \in Running : Remaining(workers[i]) < 2 * MinSplit
  /\ \E i \in Running :
       /\ MayRace(i)
       /\ workers' = With(workers, id,
                          Worker(workers[i].position, workers[i].end, workers[i].end))
  /\ raced' = TRUE
  /\ UNCHANGED <<phase, ranged, length, received, done, delivered, named, faults>>

-----------------------------------------------------------------------------
(* Answers of the server.                                                  *)

\* setLength(): also clamps the workers placed before the length was known.
Clamped(ws) ==
  [i \in DOMAIN ws |-> [ws[i] EXCEPT !.end = Least(@, Size), !.requestEnd = Least(@, Size)]]

\* What an existing file may hold, and a record of an earlier run.
Prefixes == {{<<0, size>>} : size \in 1..Size}
Records ==
  {Add({<<a[1], a[2]>>}, b[1], b[2]) :
     a \in {r \in (0..Size) \X (0..Size) : r[1] < r[2]}, b \in (0..Size) \X (0..Size)}

\* accept() of the first response and decidePath(): the other probe is cancelled;
\* when the path is chosen, a record whose length agrees or an existing file is
\* restored and the missing ranges follow.
Accept(id, known, ranges) ==
  /\ phase = "Probing" /\ id \in Running /\ (ranges /\ ~known => HiddenSize)
  /\ phase' = "Opening"
  /\ ranged' = (ranged /\ ranges)
  /\ length' = IF known THEN Size ELSE -1
  /\ LET kept == Drop(workers, Running \ {id})
     IN  \/ /\ workers' = IF known THEN Clamped(kept) ELSE kept
           /\ UNCHANGED <<received, delivered>>
        \/ /\ ~named /\ workers' = Drop(workers, Running)
           /\ received' \in IF known THEN Records
                            ELSE {R \in Prefixes : ranged'}
           /\ delivered' = Bytes(received')
  /\ named' = TRUE
  /\ UNCHANGED <<done, raced, faults>>

\* The planner, the output and the verdict on connection id during receive().
Plan == [received |-> received, workers |-> workers, delivered |-> delivered, done |-> FALSE]

\* Mutant: the position moves before the byte is recorded.
TakeAhead(p, id) ==
  LET at == p.workers[id].position
  IN  [p EXCEPT !.received = Add(@, at + 1, at + 2),
                !.workers[id].position = at + 1,
                !.workers[id].receiving = TRUE,
                !.delivered = @ \cup {at}]

\* SegmentPlanner::receive() of one byte.
Take(p, id) ==
  LET at == p.workers[id].position
  IN  [p EXCEPT !.received = Add(@, at, at + 1),
                !.workers[id].position = at + 1,
                !.workers[id].receiving = TRUE,
                !.delivered = @ \cup {at}]

\* extend(): the plans in which connection id goes on behind its end; none when it
\* is finished.
Extensions(p, id) ==
  LET ws == p.workers
      w == ws[id]
      others == DOMAIN ws \ {id}
      idle == {j \in others : ws[j].position = w.end /\ ~ws[j].receiving}
      limit == IF length >= 0 THEN Least(w.requestEnd, length) ELSE w.requestEnd
      gap == {g \in FirstGap(Owned(ws, others, p.received, Unbounded), w.end, limit) :
                g[1] = w.end}
  IN  IF w.requestEnd <= w.end \/ (length >= 0 /\ w.end >= length) THEN {}
      ELSE IF idle # {}
      THEN {[p EXCEPT !.workers = Drop([ws EXCEPT ![id].end = Least(w.requestEnd, ws[j].end)],
                                       {j})] : j \in idle}
      ELSE {[p EXCEPT !.workers[id].end = g[2]] : g \in gap}

\* One turn of the loop in HttpTask::receive() for one byte.
Turn(p, id) ==
  IF p.done THEN {p}
  ELSE IF Remaining(p.workers[id]) > 0 THEN {Take(p, id)}
  ELSE LET more == Extensions([p EXCEPT !.workers[id].receiving = TRUE], id)
       IN  IF more = {} THEN {[p EXCEPT !.done = TRUE]} ELSE {Take(q, id) : q \in more}

\* The loop for a chunk of n bytes.
Chunk(id, n) ==
  LET plans[k \in 0..n] ==
        IF k = 0 THEN {Plan} ELSE UNION {Turn(p, id) : p \in plans[k - 1]}
  IN  plans[n]

\* redundant(): the workers whose range others have received.
Redundant(p) ==
  {i \in DOMAIN p.workers :
     /\ Remaining(p.workers[i]) > 0
     /\ Contains(p.received, p.workers[i].position, p.workers[i].end)}

\* HttpTask::receive(): the losers of a race give way, and a connection that is
\* done looks whether the download is complete (tryFinish() cancels the others).
Receive(id, n) ==
  /\ phase \in {"Opening", "Running"} /\ id \in Running \ done
  /\ n \in 1..(Least(workers[id].requestEnd, Size) - workers[id].position)
  /\ \E p \in Chunk(id, n) :
       LET lost == Redundant(p)
           ended == p.done \/ id \in lost
           over == ended /\ phase = "Running" /\ IsComplete(length, p.received)
           gone == IF over THEN DOMAIN p.workers ELSE lost \ {id}
       IN  /\ received' = p.received /\ delivered' = p.delivered
           /\ workers' = Drop(p.workers, gone)
           /\ done' = ((IF ended THEN done \cup {id} ELSE done) \ gone)
                       \cap DOMAIN p.workers
  /\ UNCHANGED <<phase, ranged, length, raced, named, faults>>

\* finished() of a response that ended as it should: a stream without a length
\* ends where the server stops.
Finished(id) ==
  /\ phase \in {"Opening", "Running"} /\ id \in Running
  /\ id \in done \/ workers[id].position = Least(workers[id].requestEnd, Size)
  /\ length' = IF length < 0 THEN workers[id].position ELSE length
  /\ LET over == phase = "Running" /\ IsComplete(length', received)
     IN  /\ workers' = Drop(workers, IF over THEN Running ELSE {id})
         /\ done' = IF over THEN {} ELSE done \ {id}
  /\ UNCHANGED <<phase, ranged, received, delivered, raced, named, faults>>

Fault == faults < MaxFaults /\ faults' = faults + 1

\* A connection fails, stalls, ends early or is given up as slow.
Break(id) ==
  /\ Fault /\ id \in Running
  /\ workers' = Drop(workers, {id}) /\ done' = done \ {id}
  /\ UNCHANGED <<phase, ranged, length, received, delivered, raced, named>>

\* rangesIgnored(): the answer cannot be placed; one connection carries on from 0.
RangesIgnored(id) ==
  /\ Fault /\ id \in Running /\ ~workers[id].receiving
  /\ ranged' = FALSE
  /\ workers' = Drop(workers, {id}) /\ done' = done \ {id}
  /\ UNCHANGED <<phase, length, received, delivered, raced, named>>

\* changed() and restartWhenQuiet(): the file is another one; reset().
Restart ==
  /\ Fault /\ phase \in {"Opening", "Running"}
  /\ phase' = "Probing" /\ ranged' \in BOOLEAN /\ length' = -1
  /\ received' = {} /\ delivered' = {} /\ done' = {}
  /\ workers' = Drop(workers, Running)
  /\ UNCHANGED <<raced, named>>

-----------------------------------------------------------------------------
(* The output file.                                                        *)

\* outputReady(): the file is open; what was held is written and tryFinish() runs.
OutputReady ==
  /\ phase = "Opening" /\ phase' = "Running"
  /\ LET over == IsComplete(length, received)
     IN  /\ workers' = IF over THEN Drop(workers, Running) ELSE workers
         /\ done' = IF over THEN {} ELSE done
  /\ UNCHANGED <<ranged, length, received, delivered, raced, named, faults>>

\* written() of the last write, and tryFinish().
LastWritten ==
  /\ phase = "Running" /\ IsComplete(length, received)
  /\ phase' = "Finishing"
  /\ workers' = Drop(workers, Running) /\ done' = {}
  /\ UNCHANGED <<ranged, length, received, delivered, raced, named, faults>>

\* verifyAndComplete() finds nothing wrong.
Succeed ==
  /\ phase = "Finishing" /\ phase' = "Done"
  /\ UNCHANGED <<ranged, length, received, workers, done, delivered, raced, named, faults>>

\* repair(): the bytes of bad pieces are forgotten and downloaded again.
Repair(bad) ==
  /\ Fault /\ phase = "Finishing" /\ phase' = "Opening"
  /\ received' = FoldSet(LAMBDA k, R : Remove(R, k * Piece, Least((k + 1) * Piece, length)),
                         received, bad)
  /\ delivered' = {x \in delivered : x \div Piece \notin bad}
  /\ UNCHANGED <<ranged, length, workers, done, raced, named>>

Terminated == phase = "Done" /\ UNCHANGED vars

-----------------------------------------------------------------------------
\* start(): with or without a record of an earlier run.
Init ==
  /\ \/ /\ phase = "Probing" /\ length = -1 /\ received = {}
     \/ /\ phase = "Opening" /\ length = Size /\ received \in Records
  /\ delivered = Bytes(received) /\ named = (phase = "Opening")
  /\ ranged = TRUE /\ workers = <<>> /\ done = {} /\ raced = FALSE /\ faults = 0

Launch(id) == Probe(id) \/ Whole(id) \/ Assign(id) \/ Split(id) \/ Race(id)
Answer(id) == \E known, ranges \in BOOLEAN : Accept(id, known, ranges)
Deliver(id) == \E n \in 1..MaxChunk : Receive(id, n)
Output == OutputReady \/ LastWritten \/ Succeed

Next ==
  \/ \E id \in Ids :
       \/ Launch(id) \/ Answer(id) \/ Deliver(id) \/ Finished(id)
       \/ Break(id) \/ RangesIgnored(id)
  \/ Restart \/ Output \/ Terminated
  \/ \E bad \in SUBSET (0..((Size - 1) \div Piece)) \ {{}} : Repair(bad)

Spec == Init /\ [][Next]_vars

\* tick() launches again and again; a connection answers, delivers or is broken off
\* (a stall is noticed by tick()); the disk pool serves its jobs.
Fairness ==
  /\ WF_vars(Output)
  /\ WF_vars(\E id \in Ids : Probe(id) \/ Whole(id) \/ Assign(id))
  /\ \A id \in Ids : WF_vars(Answer(id) \/ Deliver(id)) /\ WF_vars(Finished(id))

FairSpec == Spec /\ Fairness

-----------------------------------------------------------------------------
(* Properties.                                                             *)

\* received_ is what was handed to the output file, as disjoint, coalesced ranges:
\* extended, taken over, raced and repaired ranges included.
ReceivedIsDelivered == Coalesced(received) /\ Bytes(received) = delivered

\* No worker is told to take bytes its request does not bring: position, end and
\* requestEnd stay in order while ranges are cut, extended and taken over.
InsideRequest ==
  \A i \in Running : /\ workers[i].position <= workers[i].end
                     /\ workers[i].end <= workers[i].requestEnd
                     /\ length >= 0 => workers[i].requestEnd <= length

\* Until a slow range is copied on purpose, no byte is asked for twice: the ranges
\* of the workers share no byte and none that is received already.
NoDoubleWork ==
  ranged /\ ~raced /\ phase # "Probing" =>
    \A i \in Running :
      LET mine == Span(workers[i].position, workers[i].end)
      IN  /\ mine \cap Bytes(received) = {}
          /\ \A j \in Running \ {i} :
               mine \cap Span(workers[j].position, workers[j].end) = {}

\* The file is declared complete only with every byte in it.
DoneIsWhole == phase \in {"Finishing", "Done"} => delivered = 0..(Size - 1)

\* A download whose connections fail finitely often ends, and with it the search
\* for gaps, cuts and copies.
Completes == []<>(phase = "Done")
=============================================================================

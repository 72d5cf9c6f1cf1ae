---------------------------- MODULE TaskContract ----------------------------
(***************************************************************************)
(* What the engine relies on of every download task (core/Task.h:68-78):   *)
(* start() begins transfers, stop() releases them and calls `done` once,   *)
(* and complete() or failed() end the task at most once and never while a  *)
(* stop is owed.  Between `done` and the next start nothing of the task is *)
(* in flight: the engine moves or deletes its files there.                 *)
(***************************************************************************)

EXTENDS Naturals

VARIABLES
  mode,      \* "idle", "busy", "stopping" (a `done` is owed) or "over"
  inflight,  \* TRUE: connections or disk writes of the task are pending
  crashes    \* how often the process died

vars == <<mode, inflight, crashes>>

Init ==
  /\ mode = "idle"
  /\ inflight = FALSE
  /\ crashes = 0

Start ==
  /\ mode = "idle"
  /\ mode' = "busy"
  /\ inflight' \in BOOLEAN

\* start() fails before it returns.
StartFails ==
  /\ mode = "idle" /\ ~inflight
  /\ mode' = "over"
  /\ UNCHANGED inflight

\* Transfers begin and end while the task runs, and drain once it does not.
Work ==
  /\ \/ mode = "busy"
     \/ mode \in {"stopping", "over"} /\ (inflight' => inflight)
  /\ inflight' \in BOOLEAN
  /\ UNCHANGED mode

\* complete() or failed().
End ==
  /\ mode = "busy"
  /\ mode' = "over"
  /\ inflight' \in BOOLEAN

Stop ==
  /\ mode = "busy"
  /\ mode' = "stopping"
  /\ inflight' \in BOOLEAN

\* stop() with nothing left to wait for answers before it returns.
StopAtOnce ==
  /\ mode = "busy"
  /\ mode' = "idle"
  /\ inflight' = FALSE

\* `done` is called.
Answer ==
  /\ mode = "stopping"
  /\ mode' = "idle"
  /\ inflight' = FALSE

\* A task that ended is given another attempt, or is forgotten.
Again ==
  /\ mode = "over" /\ ~inflight
  /\ mode' = "idle"
  /\ UNCHANGED inflight

\* The process dies, whatever the task was doing.
Crash ==
  /\ crashes' = crashes + 1
  /\ mode' = "idle"
  /\ inflight' = FALSE

Next ==
  \/ /\ Start \/ StartFails \/ Work \/ End \/ Stop \/ StopAtOnce \/ Answer \/ Again
     /\ UNCHANGED crashes
  \/ Crash

Spec == Init /\ [][Next]_vars
=============================================================================

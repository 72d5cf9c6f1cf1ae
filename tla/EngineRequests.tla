--------------------------- MODULE EngineRequests ---------------------------
(***************************************************************************)
(* What becomes of the removals clients ask for: Engine with a variable    *)
(* that only records the calls of rpc/Methods that were answered OK,       *)
(* whether the engine acted on them or had nothing to do.                  *)
(***************************************************************************)
EXTENDS Engine

VARIABLE
  removals    \* downloads aria2.remove or forceRemove was answered OK for

\* aria2.remove and forceRemove.  A task that is stopping already is left alone
\* unless the removal is forced; the answer is the same.
AskRemove(g, force) ==
  /\ removals' = removals \cup {g}
  /\ \/ Remove(g, force)
     \/ /\ Call("remove") /\ ~force /\ g \in tasks /\ moving[g] = "no"
        /\ state[g] = "Active" /\ stopping[g]
        /\ UNCHANGED vars

OtherStep ==
  /\ OtherCall \/ EngineStep \/ \E g \in Gid : Pause(g) \/ Unpause(g)
  /\ UNCHANGED removals

RequestsInit == Init /\ removals = {}

RequestsNext ==
  \/ \E g \in Gid, force \in BOOLEAN : AskRemove(g, force)
  \/ OtherStep

RequestsSpec == RequestsInit /\ [][RequestsNext]_<<vars, removals>> /\ Fairness

-----------------------------------------------------------------------------
\* A removed download leaves the queue: "Pause retains the task; remove cancels
\* it and discards its recovery state" (docs/media-downloads.md).
RemovalHappens ==
  \A g \in Gid : g \in removals ~> (state[g] = "Removed" \/ shuttingDown)
=============================================================================

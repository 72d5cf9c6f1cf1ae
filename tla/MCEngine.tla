------------------------------ MODULE MCEngine ------------------------------
(* Instances of Engine for TLC: an HTTP, a BitTorrent and a media download. *)
EXTENDS Engine, TLC

CONSTANTS h, b, m

MCKind == [g \in Gid |-> CASE g = h -> "http" [] g = b -> "bt" [] g = m -> "media"]
MCInput == <<h>>

\* The session file is written and never read: where no property is about it,
\* states that differ in it alone are one.
ButSession == <<object, queues, moves, flags, scheduled, loop, io>>
=============================================================================

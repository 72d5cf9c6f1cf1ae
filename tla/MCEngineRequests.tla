-------------------------- MODULE MCEngineRequests --------------------------
(* An instance of EngineRequests for TLC: one media download.              *)
EXTENDS EngineRequests

CONSTANT m

MCKind == [g \in Gid |-> "media"]
MCInput == <<m>>
=============================================================================

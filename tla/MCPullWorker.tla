----------------------------- MODULE MCPullWorker -----------------------------
(* Instances of PullWorker for TLC. *)
EXTENDS PullWorker

WholePhase == [j \in Jobs |-> "whole"]
=============================================================================

---------------------------- MODULE MCWorkerLease ----------------------------
(* Instances of WorkerLease for TLC. *)
EXTENDS WorkerLease

CONSTANTS j1, j2

TrainPhase == [j \in Jobs |-> "train"]
MixedPhase == [j \in Jobs |-> IF j = j1 THEN "whole" ELSE "finalize"]
=============================================================================

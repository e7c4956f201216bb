------------------------- MODULE MCWorkerDeployment -------------------------
(* Instances of WorkerDeployment for TLC. *)
EXTENDS WorkerDeployment
=============================================================================

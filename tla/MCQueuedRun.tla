---------------------------- MODULE MCQueuedRun ----------------------------
(* Instances of QueuedRun for TLC. *)
EXTENDS QueuedRun
=============================================================================

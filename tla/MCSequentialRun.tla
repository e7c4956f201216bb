-------------------------- MODULE MCSequentialRun --------------------------
(* Instances of SequentialRun for TLC.  A row is named for the unit it may  *)
(* become: t a checkpointing unit, f a finalizer, p one inserted paused.    *)
EXTENDS SequentialRun, TLC

CONSTANTS t1, t2, tp, fq, fp

RowPhase == [j \in Jobs |-> IF j \in {fq, fp} THEN "finalize" ELSE "train"]
RowStatus == [j \in Jobs |-> IF j \in {tp, fp} THEN "paused" ELSE "queued"]
Rows == Permutations({t1, t2} \cap Jobs)
=============================================================================

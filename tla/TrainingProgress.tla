-------------------------- MODULE TrainingProgress --------------------------
(***************************************************************************)
(* What a training run promises its owner: committed checkpoints take it   *)
(* forward through its epochs, it is finalized after the last of them or   *)
(* when training stopped early, and it has one final output.               *)
(***************************************************************************)
EXTENDS Integers

CONSTANTS FirstPhase, TotalEpochs

VARIABLE progress

Init == progress = [phase |-> FirstPhase, epoch |-> 0, finished |-> FALSE]

(* Self-supervised initialization hands over to training at epoch 0.       *)
Initialized ==
  /\ progress.phase = "initialize"
  /\ progress' = [phase |-> "train", epoch |-> progress.epoch, finished |-> FALSE]

Checkpoint(epoch) ==
  /\ progress.phase = "train"
  /\ epoch > progress.epoch
  /\ \E phase \in {"train", "finalize"} :
       /\ epoch = TotalEpochs => phase = "finalize"
       /\ progress' = [phase |-> phase, epoch |-> epoch, finished |-> FALSE]

Finished ==
  /\ progress.phase = "finalize" /\ ~progress.finished
  /\ progress' = [phase |-> "finalize", epoch |-> progress.epoch, finished |-> TRUE]

Next == Initialized \/ (\E epoch \in 1 .. TotalEpochs : Checkpoint(epoch)) \/ Finished

Spec == Init /\ [][Next]_progress
=============================================================================

------------------------- MODULE PredictionProgress -------------------------
(***************************************************************************)
(* What an inference run promises its owner: its items are predicted in    *)
(* blocks, none of them twice, and one result is reported, of all of them. *)
(***************************************************************************)
CONSTANT Items

VARIABLE progress

Init == progress = [blocks |-> {}, finished |-> FALSE]

Predict(block) ==
  /\ ~progress.finished
  /\ block # {} /\ block \cap UNION progress.blocks = {}
  /\ progress' = [blocks |-> progress.blocks \cup {block}, finished |-> FALSE]

(* A run that is not divided is predicted and reported at once.            *)
FinishWhole ==
  /\ progress.blocks = {} /\ ~progress.finished
  /\ progress' = [blocks |-> {Items}, finished |-> TRUE]

Finish ==
  /\ UNION progress.blocks = Items /\ ~progress.finished
  /\ progress' = [blocks |-> progress.blocks, finished |-> TRUE]

Next == (\E block \in SUBSET Items : Predict(block)) \/ FinishWhole \/ Finish

Spec == Init /\ [][Next]_progress
=============================================================================

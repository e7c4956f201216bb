--------------------------- MODULE MCInferenceRun ---------------------------
(* Instances of InferenceRun for TLC.                                      *)
EXTENDS InferenceRun, TLC

AllWhole == [j \in Jobs |-> "whole"]

Rows == Permutations(Jobs)
=============================================================================

--------------------------- MODULE MCResidentRuntime ---------------------------
(* Instances of ResidentRuntime for TLC. *)
EXTENDS ResidentRuntime, TLC

CONSTANTS c1, c2, c3

(* One request fills a batch of two alone, two fit together.               *)
Sizes == c1 :> 1 @@ c2 :> 1 @@ c3 :> 2
=============================================================================

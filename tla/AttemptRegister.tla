-------------------------- MODULE AttemptRegister --------------------------
(***************************************************************************)
(* What the control plane promises about the attempts of a job, without    *)
(* saying how: attempts are numbered and issued one after another, issuing *)
(* one fences the one before, only the attempt issued last can commit      *)
(* output, and output is committed once and ends the job's attempts.       *)
(* Every job moves on its own, and several may move in one step.           *)
(***************************************************************************)
EXTENDS Integers

CONSTANT Jobs

VARIABLE register   \* register[j]: attempts issued, who holds j, who committed

Entry == [issued : Nat, holders : SUBSET Nat, outputs : SUBSET Nat]

Init == register \in [Jobs -> {[issued |-> 0, holders |-> {}, outputs |-> {}]}]

(* A new attempt fences whoever held the job.                              *)
Issue(r, s) ==
  /\ r.outputs = {}
  /\ s = [issued |-> r.issued + 1, holders |-> {r.issued + 1}, outputs |-> {}]

(* The holder is lost, stopped or fails.                                   *)
Drop(r, s) ==
  s = [issued |-> r.issued, holders |-> {}, outputs |-> r.outputs]

(* The latest attempt commits, holding the job or not.                     *)
Commit(r, s) ==
  /\ r.outputs = {} /\ r.issued # 0
  /\ s = [issued |-> r.issued, holders |-> {}, outputs |-> {r.issued}]

Stay(r, s) == s = r

Next ==
  /\ DOMAIN register' = Jobs
  /\ \A j \in Jobs :
       LET r == register[j]
           s == register'[j]
       IN Issue(r, s) \/ Drop(r, s) \/ Commit(r, s) \/ Stay(r, s)

Spec == Init /\ [][Next]_register
=============================================================================

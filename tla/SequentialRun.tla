--------------------------- MODULE SequentialRun ---------------------------
(***************************************************************************)
(* One training run as an ordered chain of immutable work units.  Each     *)
(* unit is a job of the worker-lease protocol; the commit of a             *)
(* checkpointing unit inserts its successor and moves the run's head, in   *)
(* the transaction that completes the unit.  So a step of the run is a     *)
(* step of WorkerLease on one of its units, and what that step does to     *)
(* execution_runs.                                                         *)
(*                                                                         *)
(* Jobs is the set of rows the run may ever insert: the code draws a fresh *)
(* uuid4, here an unused member whose Phase and Born are what the row is   *)
(* inserted with.  The chain is bounded by their number.                   *)
(*                                                                         *)
(* Units sealed with a step budget (max_steps) are left out: a cursor is a *)
(* number of completed epochs.  execution_runs.status repeats the status   *)
(* of the head and is left out too.                                        *)
(***************************************************************************)
EXTENDS WorkerLease, Sequences

CONSTANTS
  FirstPhase,    \* "initialize" for a whole-phase self-supervised start
  TotalEpochs,   \* execution_runs.total_epochs
  UnitEpochs,    \* execution_runs.unit_epochs
  Born           \* Born[j]: the status row j is inserted with

UnitPhases == {"initialize", "train", "finalize"}
Epochs == 0 .. TotalEpochs

ASSUME FirstPhaseAssumption == FirstPhase \in {"initialize", "train"}
ASSUME EpochsAssumption == TotalEpochs \in Nat \ {0} /\ UnitEpochs \in Nat \ {0}
ASSUME BornAssumption == Born \in [Jobs -> {"queued", "paused"}]
ASSUME UnitsAssumption == \A j \in Jobs : Phase[j] # "whole"

VARIABLE run     \* the execution_runs row, and the sealed units of its jobs

runVars == <<job, server, run>>

(* A checkpoint is the output of one attempt of one unit; a reference to   *)
(* one is a set with at most that member.                                  *)
CheckpointRefs == SUBSET (Jobs \X Attempts)

UnitRecord ==
  [ job   : Jobs,
    phase : UnitPhases,
    start : Epochs,              \* start_cursor.completed_epoch
    stop  : Epochs,              \* stop_boundary.completed_epoch
    input : CheckpointRefs ]     \* inputs.checkpoint

RunRecord ==
  [ units      : Seq(UnitRecord),    \* in order of work-unit sequence
    epoch      : Epochs,             \* completed_epoch
    checkpoint : CheckpointRefs ]    \* checkpoint_ref_json

Units == {run.units[i].job : i \in 1 .. Len(run.units)}
CurrentUnit == run.units[Len(run.units)]
HeadJob == CurrentUnit.job                 \* current_job_id

----------------------------------------------------------------------------
Earliest(a, b) == IF a <= b THEN a ELSE b

FirstUnit(j) ==
  [ job |-> j, phase |-> FirstPhase, start |-> 0, input |-> {},
    stop |-> IF FirstPhase = "initialize" THEN 0 ELSE Earliest(UnitEpochs, TotalEpochs) ]

RunInit ==
  /\ job = [j \in Jobs |-> NewJob(Born[j])]
  /\ server = "up"
  /\ \E j \in Jobs :
       /\ Phase[j] = "train" /\ Born[j] = "queued"
       /\ run = [units |-> <<FirstUnit(j)>>, epoch |-> 0, checkpoint |-> {}]

(* The results _read_segment_result accepts.  Interruption, by a directive *)
(* or by the worker itself, may end a segment at any epoch; the worker's   *)
(* early-stopping callback may fire at any epoch.                          *)
Results(u) ==
  [ cursor : IF u.phase = "initialize" THEN {0} ELSE u.start + 1 .. u.stop,
    early  : BOOLEAN ]

(* Mutant of NextPhase: the last epoch is taken for one of many.           *)
NextPhaseBeyond(u, result) ==
  IF u.phase # "initialize" /\ (result.cursor > TotalEpochs \/ result.early)
  THEN "finalize" ELSE "train"

NextPhase(u, result) ==
  IF u.phase # "initialize" /\ (result.cursor >= TotalEpochs \/ result.early)
  THEN "finalize" ELSE "train"

(* Mutants of Successor: it starts where its predecessor was to stop; its  *)
(* last segment is not cut short.                                          *)
SuccessorOfPlan(u, j, n, k, result) ==
  [ job |-> k, phase |-> NextPhase(u, result), start |-> u.stop,
    stop |-> Earliest(u.stop + UnitEpochs, TotalEpochs), input |-> {<<j, n>>} ]

SuccessorUncut(u, j, n, k, result) ==
  [ job |-> k, phase |-> NextPhase(u, result), start |-> result.cursor,
    stop |-> result.cursor + UnitEpochs, input |-> {<<j, n>>} ]

(* The unit that continues u from the checkpoint of attempt n of job j.    *)
Successor(u, j, n, k, result) ==
  [ job |-> k, phase |-> NextPhase(u, result), start |-> result.cursor,
    stop |-> Earliest(result.cursor + UnitEpochs, TotalEpochs), input |-> {<<j, n>>} ]

(* Mutant of Continue: the continuation is left to a later transaction.    *)
ContinueLater(j, n) ==
  \E result \in Results(CurrentUnit) :
    run' = [run EXCEPT !.epoch = result.cursor, !.checkpoint = {<<j, n>>}]

(* _commit_segment_in_connection: the successor is inserted, paused if a   *)
(* pause of this lease was open, and becomes the head.                     *)
Continue(j, n) ==
  \E k \in Jobs \ Units, result \in Results(CurrentUnit) :
    LET u == Successor(CurrentUnit, j, n, k, result)
    IN /\ Phase[k] = IF u.phase = "finalize" THEN "finalize" ELSE "train"
       /\ Born[k] = IF job[j].open = [action |-> "pause", lease |-> n] THEN "paused" ELSE "queued"
       /\ run' = [units |-> Append(run.units, u), epoch |-> result.cursor,
                  checkpoint |-> {<<j, n>>}]

----------------------------------------------------------------------------
(* The step records the output of a checkpointing unit.                    *)
RecordsOutput(j) == Phase[j] = "train" /\ job'[j].output # job[j].output

(* A worker's completion, or reconciliation, commits the head.             *)
CommitSegment(j, n) ==
  /\ j = HeadJob
  /\ CommitCompletion(j, n) \/ Reconcile(j, n)
  /\ RecordsOutput(j)
  /\ Continue(j, n)

(* Any other step of an attempt.  A unit that is not the head cannot       *)
(* commit by completion, and is reconciled without advancing the run.      *)
RunAttempt(j, n) ==
  /\ AttemptStep(j, n)
  /\ RecordsOutput(j) => j # HeadJob /\ Reconcile(j, n)
  /\ UNCHANGED run

(* restart_failed_training_unit: only the head, and only while it starts   *)
(* from the run's checkpoint.                                              *)
Restartable(j) ==
  /\ j = HeadJob
  /\ CurrentUnit.start = run.epoch
  /\ CurrentUnit.input = run.checkpoint

RunOperator(j) ==
  /\ OperatorStep(j)
  /\ RestartFailedUnit(j) => Restartable(j)
  /\ UNCHANGED run

RunAcquire(w, j) == Acquire(w, j) /\ UNCHANGED run
RunIndex(j) == Index(j) /\ UNCHANGED run
RunServer == (Expire \/ ServerStep) /\ UNCHANGED run

RunNext ==
  \/ \E w \in Workers, j \in Units : RunAcquire(w, j)
  \/ \E j \in Units, n \in Attempts : RunAttempt(j, n) \/ CommitSegment(j, n)
  \/ \E j \in Units : RunOperator(j) \/ RunIndex(j)
  \/ RunServer

RunSpec == RunInit /\ [][RunNext]_runVars

----------------------------------------------------------------------------
RunTypeOK ==
  /\ TypeOK
  /\ run \in RunRecord
  /\ run.units # <<>>

(* One attempt of job j committed its output.                              *)
HasOutput(j) == \E n \in Attempts : job[j].output[n]

(* The chain does not fork and no unit runs beside another: behind the     *)
(* head every unit is over and committed, by whichever transaction, so     *)
(* that no lease of it can be issued, revived or restarted again.          *)
OnlyHeadRuns ==
  \A i \in 1 .. Len(run.units) - 1 :
    LET j == run.units[i].job IN
    /\ job[j].status \in TerminalStatuses
    /\ HasOutput(j)
    /\ \A n \in Attempts : ~Live(job[j], n)

(* A committed checkpoint and its continuation are one transaction: no     *)
(* crash or race leaves a committed training unit at the head of its run,  *)
(* where nothing would continue it.                                        *)
CommittedUnitAdvanced ==
  CurrentUnit.phase # "finalize" => ~HasOutput(HeadJob)

(* Every unit starts at the epoch and from the committed output of the     *)
(* unit before it, whichever attempt produced it, and trains at least one  *)
(* epoch of those that remain.  The run's row agrees with its head, which  *)
(* is what a manual restart relies on.                                     *)
ChainIsContiguous ==
  /\ \A i \in 1 .. Len(run.units) - 1 :
       LET u == run.units[i]
           v == run.units[i + 1]
       IN /\ u.phase = "train" => u.start < v.start
          /\ v.start <= u.stop
          /\ \E n \in Attempts : v.input = {<<u.job, n>>} /\ job[u.job].output[n]
  /\ CurrentUnit.phase = "train" => CurrentUnit.start < CurrentUnit.stop
  /\ Restartable(HeadJob)

(* What the owner of the run sees of it.                                   *)
Progress ==
  [ phase    |-> CurrentUnit.phase,
    epoch    |-> run.epoch,
    finished |-> CurrentUnit.phase = "finalize" /\ HasOutput(HeadJob) ]

Abstraction == INSTANCE TrainingProgress WITH progress <- Progress

(* Whatever is lost, repeated, cancelled or reconciled on the way, the run *)
(* goes through its epochs once, in order, and is finalized once.          *)
ImplementsProgress == Abstraction!Spec

(* "Stop now / cancel ... Cancel continuation"                             *)
(* (docs/execution-contract-and-split-plan.md): a cancelled unit has no    *)
(* successor.                                                              *)
StopCancelsContinuation ==
  [][job[HeadJob].status = "cancelled" => run'.units = run.units]_runVars
=============================================================================

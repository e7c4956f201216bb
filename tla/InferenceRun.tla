---------------------------- MODULE InferenceRun ----------------------------
(***************************************************************************)
(* One inference run, or one post-hoc fit: a sealed request that becomes   *)
(* jobs of the worker-lease protocol when it is started.  A large          *)
(* population is divided into shards; the commit of a shard's job queues   *)
(* the job of the next one, and after the last a job that merges their     *)
(* outputs, in the transaction that completes it.  A post-hoc fit is one   *)
(* job.  A step of the run is a step of WorkerLease on one of its jobs,    *)
(* and what that step does to inference_runs (or posthoc_runs) and to      *)
(* inference_shards.                                                       *)
(*                                                                         *)
(* Jobs is the set of rows the run may ever insert: the code draws a fresh *)
(* uuid4, here an unused member.  The items are numbered in their order.   *)
(***************************************************************************)
EXTENDS WorkerLease, Sequences

CONSTANTS
  Population,    \* how many items the split of the dataset has
  ShardSize,     \* parameters.shard_size; 0 when there is none
  JobsApi,       \* operators also cancel and direct the jobs themselves
  MaxCalls       \* bound: calls that cancel the run

ASSUME PopulationAssumption == Population \in Nat \ {0}
ASSUME ShardSizeAssumption == ShardSize \in Nat
ASSUME MaxCallsAssumption == MaxCalls \in Nat
ASSUME WholeAssumption == \A j \in Jobs : Phase[j] = "whole"

VARIABLES
  request,       \* the row, its shards, and the sealed units of its jobs
  asked,         \* jobs whose cancellation a cancel call is asking for
  withdraw,      \* a cancel call is about to write its verdict to the row
  calls          \* cancel calls so far

inferVars == <<job, server, request, asked, withdraw, calls>>

callVars == <<asked, withdraw, calls>>

----------------------------------------------------------------------------
(* The plan of the shards *)

Items == 1 .. Population

Sharded == ShardSize # 0 /\ Population > ShardSize

(* Mutant of Block: the bounds of a slice are both included.               *)
BlockWithBoth(k) == {i \in Items : i >= (k - 1) * ShardSize /\ i <= k * ShardSize}

Block(k) == {i \in Items : i > (k - 1) * ShardSize /\ i <= k * ShardSize}

ShardCount == (Population + ShardSize - 1) \div ShardSize

Shards == IF Sharded THEN 1 .. ShardCount ELSE {}

----------------------------------------------------------------------------
Outputs == SUBSET (Jobs \X Attempts)

(* shard is 0 in the unit of a whole run and in the one that merges.       *)
UnitRecord == [job : Jobs, shard : Shards \cup {0}, inputs : Outputs]

RequestRecord ==
  [ kind   : {"infer", "posthoc"},
    status : {"ready", "queued", "completed", "failed", "cancelled", "indexed"},
    units  : Seq(UnitRecord),
    output : [Shards -> Outputs] ]      \* inference_shards.output_ref_json

Started == request.units # <<>>

Units == {request.units[i].job : i \in 1 .. Len(request.units)}

CurrentUnit == request.units[Len(request.units)]

HeadJob == CurrentUnit.job              \* job_id

IsHead(j) == Started /\ j = HeadJob

InferInit ==
  /\ job = [j \in Jobs |-> NewJob("queued")]
  /\ server = "up"
  /\ \E kind \in {"infer", "posthoc"} :
       request = [kind |-> kind, status |-> "ready", units |-> <<>>,
                  output |-> [k \in Shards |-> {}]]
  /\ asked = {} /\ withdraw = FALSE /\ calls = 0

----------------------------------------------------------------------------
(* Requests of operators *)

Divided == request.kind = "infer" /\ Sharded

FirstUnit(j) == [job |-> j, shard |-> IF Divided THEN 1 ELSE 0, inputs |-> {}]

(* start_inference_run, start_posthoc_run.                                 *)
Start(j) ==
  /\ Serving
  /\ request.status = "ready"
  /\ request' = [request EXCEPT !.status = "queued", !.units = <<FirstUnit(j)>>]
  /\ UNCHANGED <<job, server, callVars>>

(* cancel_inference_run, cancel_posthoc_run: a call reads the row, asks    *)
(* for the cancellation of the job it read (steps of WorkerLease), looks   *)
(* at the job, and writes the row.                                         *)
CancelReads ==
  /\ Serving
  /\ calls < MaxCalls /\ calls' = calls + 1
  /\ \/ /\ request.status = "ready"
        /\ withdraw' = TRUE /\ UNCHANGED asked
     \/ /\ request.status # "ready" /\ Started
        /\ asked' = asked \cup {HeadJob} /\ UNCHANGED withdraw
  /\ UNCHANGED <<job, server, request>>

CancelObserves(j) ==
  /\ Serving
  /\ j \in asked
  /\ asked' = asked \ {j}
  /\ withdraw' = (withdraw \/ job[j].status = "cancelled")
  /\ UNCHANGED <<job, server, request, calls>>

CancelWrites ==
  /\ Serving
  /\ withdraw
  /\ withdraw' = FALSE
  /\ request' = [request EXCEPT !.status = "cancelled"]
  /\ UNCHANGED <<job, server, asked, calls>>

----------------------------------------------------------------------------
(* Steps of the jobs *)

Pending(output) == {i \in Shards : output[i] = {}}

(* The next shard without output; when all have one, their merge.          *)
Successor(j, output) ==
  LET pending == Pending(output)
  IN IF pending = {}
     THEN [job |-> j, shard |-> 0, inputs |-> UNION {output[k] : k \in Shards}]
     ELSE [job |-> j, shard |-> CHOOSE k \in pending : \A i \in pending : k <= i,
           inputs |-> {}]

(* _commit_inference_shard, in the transaction that completes the job.     *)
CommitShard(j, n) ==
  LET output == [request.output EXCEPT ![CurrentUnit.shard] = {<<j, n>>}]
  IN \E k \in Jobs \ Units :
       request' = [request EXCEPT !.status = "queued", !.output = output,
         !.units = Append(@, Successor(k, output))]

(* Mutant of Report: reconciliation leaves the row to the completion.      *)
ReportByCompletion(j, n) ==
  \/ CommitCompletion(j, n) /\ request' = [request EXCEPT !.status = "completed"]
  \/ Reconcile(j, n) /\ UNCHANGED request

(* The merged result, or that of a run that is not divided, is reported.   *)
(* Reconciliation does not write the row of a post-hoc fit.                *)
Report(j, n) ==
  \/ /\ request.kind = "infer" \/ CommitCompletion(j, n)
     /\ request' = [request EXCEPT !.status = "completed"]
  \/ /\ request.kind = "posthoc" /\ Reconcile(j, n)
     /\ UNCHANGED request

RecordsOutput(j) == job'[j].output # job[j].output

CommitUnit(j, n) ==
  /\ CommitCompletion(j, n) \/ Reconcile(j, n)
  /\ RecordsOutput(j)
  /\ \/ IsHead(j) /\ CurrentUnit.shard # 0 /\ CommitShard(j, n)
     \/ IsHead(j) /\ CurrentUnit.shard = 0 /\ Report(j, n)
     \/ ~IsHead(j) /\ UNCHANGED request
  /\ UNCHANGED callVars

(* complete_worker_lease(success=False).                                   *)
FailUnit(j, n) ==
  /\ CompleteFailure(j, n)
  /\ request' = IF IsHead(j) THEN [request EXCEPT !.status = "failed"] ELSE request
  /\ UNCHANGED callVars

(* Every other step of an attempt leaves the row alone, a cancellation the *)
(* worker acknowledges and an exhausted retry budget among them.           *)
RunAttempt(j, n) ==
  /\ AttemptStep(j, n)
  /\ ~RecordsOutput(j) /\ ~CompleteFailure(j, n)
  /\ UNCHANGED <<request, callVars>>

(* A fitted model is indexed by the completion that reported it, so its    *)
(* row does not read queued, or by a reconciliation, which does not write  *)
(* the row.                                                                *)
IndexFit(j) ==
  /\ request.kind = "posthoc"
  /\ Index(j)
  /\ \/ /\ request.status # "queued"
        /\ request' = [request EXCEPT !.status = "indexed"]
     \/ UNCHANGED request
  /\ UNCHANGED callVars

RunAcquire(w, j) == Acquire(w, j) /\ UNCHANGED <<request, callVars>>

(* A cancel call asks, or the API of jobs does.                            *)
RunOperator(j) ==
  /\ OperatorStep(j)
  /\ LookUp(j) \/ CancelLook(j) => JobsApi \/ j \in asked
  /\ UNCHANGED <<request, callVars>>

RunServer ==
  /\ UNCHANGED request
  /\ \/ (Expire \/ Boot \/ StartupExpire \/ Serve) /\ UNCHANGED callVars
     \/ Crash /\ asked' = {} /\ withdraw' = FALSE /\ UNCHANGED calls

InferNext ==
  \/ \E j \in Jobs : Start(j)
  \/ CancelReads \/ CancelWrites
  \/ \E j \in Units : CancelObserves(j) \/ RunOperator(j) \/ IndexFit(j)
  \/ \E w \in Workers, j \in Units : RunAcquire(w, j)
  \/ \E j \in Units, n \in Attempts : RunAttempt(j, n) \/ FailUnit(j, n) \/ CommitUnit(j, n)
  \/ RunServer

InferSpec == InferInit /\ [][InferNext]_inferVars

----------------------------------------------------------------------------
InferTypeOK ==
  /\ TypeOK
  /\ request \in RequestRecord
  /\ asked \subseteq Units
  /\ withdraw \in BOOLEAN
  /\ calls \in 0 .. MaxCalls

(* One attempt of job j committed its output.                              *)
HasOutput(j) == \E n \in Attempts : job[j].output[n]

(* "Persist one shard output and enqueue exactly one successor atomically" *)
(* (inference_sharding.py:153): behind the head every job is committed and *)
(* over, so no two shards run at once and no shard runs again, whatever is *)
(* lost, reconciled, cancelled or directed.                                *)
OneUnitAtATime ==
  \A i \in 1 .. Len(request.units) - 1 :
    LET j == request.units[i].job IN
    /\ job[j].status \in TerminalStatuses
    /\ HasOutput(j)
    /\ \A n \in Attempts : ~Live(job[j], n)

HasResult == Started /\ CurrentUnit.shard = 0 /\ HasOutput(HeadJob)

(* A run reads completed only with its result, and an inference run with a *)
(* result reads completed, whichever transaction committed it; only a      *)
(* cancel call that read the row earlier may write over that.              *)
StatusMatchesResult ==
  /\ request.status \in {"completed", "indexed"} => HasResult
  /\ request.kind = "infer" /\ HasResult => request.status \in {"completed", "cancelled"}

(* "cancels queued/running work" (docs/inference-api.md:116): once a job   *)
(* of the run has been cancelled by a request, no reconciliation or late   *)
(* completion of it commits a shard and goes on with the next one.         *)
CancelledUnitEndsRun ==
  [][Started /\ job[HeadJob].status = "cancelled" /\ job[HeadJob].cancel
       => request'.units = request.units]_inferVars

Predicted == {k \in Shards : request.output[k] # {}}

(* The blocks of the result: its job predicted all items at once, or       *)
(* merged the outputs it was given.                                        *)
ResultBlocks ==
  IF CurrentUnit.inputs = {} THEN {Items}
  ELSE {Block(k) : k \in {i \in Predicted : request.output[i] \subseteq CurrentUnit.inputs}}

(* What the owner of the run sees of it.                                   *)
Progress ==
  [ blocks   |-> IF HasResult THEN ResultBlocks ELSE {Block(k) : k \in Predicted},
    finished |-> HasResult ]

Abstraction == INSTANCE PredictionProgress WITH progress <- Progress

(* However its jobs are lost, repeated, cancelled or reconciled, every     *)
(* item is predicted in one shard, and the result is reported once and of  *)
(* all of them.                                                            *)
ImplementsPrediction == Abstraction!Spec
=============================================================================

# Oracle Builder: verification project

TLA+ specifications of the protocols in Oracle Builder's control plane, worker
and inference service, the TLC runs that check them on small instances, and
TLAPS proofs of the properties that matter most. Paths below are relative to
`src/oracle_builder/` unless they start with `docs/` or `deploy/`; `service.py`,
`worker_control.py`, `sequential.py`, `inference_sharding.py`, `lifecycle.py` and
`storage.py` are in its `orchestration/`.

## 1. The system

Oracle Builder trains, evaluates and serves image models. Operators talk to an
**orchestrator** (`orchestration/`, one process, SQLite and a file tree);
**pull workers** (`worker/`) ask it for work, run training, inference or
packaging, and hand their output back for publication. The orchestrator starts
and stops managed workers through a **provider** (Docker, or local processes).
An **inference service** (`inference/`) keeps models in memory for direct
requests. The numerical code (`training/`, `models/`, `evaluation/`,
`clustering/`, `masking/`, ...) runs inside one worker and has no protocol of its
own, with the exceptions listed.

| Component | Code | State it keeps | Operations | Hard behaviour | What makes it correct | Module |
|---|---|---|---|---|---|---|
| Worker lease protocol | `service.py` 2272-3955, `worker_control.py` | `jobs`, `worker_leases`, `execution_attempts`, `worker_commands` | acquire, acknowledge, heartbeat, renew, upload, complete, release, cancel, defer, resume, expire, pause / yield / stop / restart / resume, acknowledge directive | late calls of a fenced worker, directives racing publication, crashes between publish and commit | one live attempt, the latest; one committed output; nothing stopped is committed; every job ends | `WorkerLease` |
| Worker runtime | `worker/pull.py`, `worker/control.py` | scratch, retained output, control thread | poll, run lease, keep alive, publish, recover retained output | worker death at each step, lost answers, refused completion | retained output is never lost nor published twice; what the worker takes for the end is the end | `PullWorker` |
| Output upload sessions | `service.py` 3206-3382 | `worker_output_uploads`, parts, spool files | create, put part, finalize, clean up | finalize interrupted, repeated, or racing abandonment | finalized iff the staged archive has the declared digest; parts immutable | `OutputUpload` |
| Sequential training | `sequential.py` | `execution_runs`, unit chain | begin, commit segment, restart failed unit | late commit of an old unit; restart against a publication not yet reconciled | the committed head advances by one unit at a time, no fork | `SequentialRun` |
| Queue and verification | `service.py` 1012-2005, 2414-2472, 3460-3533 | `queued_runs`, `run_specifications` | queue, verify, authorize, invalidate, cancel, clear, archive | consent given for an environment that changed; reads and writes of a clear apart | only what was verified runs, and what is not divided into portable units runs where it was verified; no duplicate work; every run comes to rest | `QueuedRun` |
| Inference runs and shards | `service.py` 2541-2646, `inference_sharding.py` | `inference_runs`, `inference_shards` | create, start, cancel, commit shard, merge | cancel racing start, reconciliation of a lost shard | every item in one shard, one result of all of them | `InferenceRun` |
| Post-hoc runs | `service.py` 2647-2747 | `posthoc_runs` | create, start, cancel | cancel racing start | request row agrees with its job | `InferenceRun` |
| Deployments, managed workers | `service.py` 4001-4191, `lifecycle.py` | desired and observed state, restart budget | create, start, stop, reconcile | every call reads, acts and writes apart; crash between | bounded automatic restarts; recovers or reports | `WorkerDeployment` |
| Inference runtime | `inference/resident.py` | model cache, lanes, futures | predict, warm, register, close | eviction, load failure, queue limits, shutdown with requests waiting | every call returns, with its own answer, in order | `ResidentRuntime` |
| Artifact store | `storage.py` | staging ledger, registry, grants (JSON files), artifact tree | stage, validate, seal, publish, resolve, grant, stream, replicate, restore | crash between rename and ledger write; claimed grants | published content is immutable and addressed by its digest; a grant delivers once | staging and publication in `WorkerLease` |
| Operation runner | `service.py` 368-540 | `operations`, event ledger, one thread | create, run next, periodic reconciliation | process death while running | every queued operation runs once; reconciliation goes on | |
| Supervisor and cache | `worker/supervisor.py`, `worker/cache.py` | child process, cached inputs | start, stop, evict | eviction of what is in use | | |
| Dataset uploads, definitions | `service.py` 854-1000, 4432-4570 | upload sessions, definition revisions | create, part, complete; create, update, duplicate | optimistic revisions, cancelled uploads | no lost update | |
| Training recovery | `training/recovery.py`, `control.py` | checkpoint bundles on disk | save, rotate, load, pause | interruption during a save | a complete bundle is always loadable | |
| Data contracts, splits | `oracle_data_contracts/`, `data/splits.py` | none | pure functions | boundary cases | partitions are disjoint, complete, deterministic | |

Components interact through the database and through calls: workers call the
lease protocol over HTTP; completion calls the store between two database
transactions and advances runs, shards and queue rows in the last one; the
operation runner calls expiry and reconciliation of leases and of deployments;
the API's lifespan runs `reconcile_startup` before it serves. `PROJECT.json`
lists every component with its status, and under `hazards` what is hard to test,
line by line.

## 2. Modules

`WorkerLease` is at the centre. `SequentialRun`, `InferenceRun` and `PullWorker`
extend it: each step of theirs on a job is one of its steps, joined with what the
same transaction, or the same worker, does besides. `QueuedRun` and `OutputUpload`
reduce the lease to what their component can tell apart, because their own
interleavings are the subject. `WorkerDeployment` and `ResidentRuntime` share no
state with it.

| Module | What it is |
|---|---|
| `WorkerLease` | the lease protocol: state, one action per transaction, properties, mutants |
| `AttemptRegister` | abstract: what the protocol promises about attempts |
| `SequentialRun` | a training run as a chain of units, each a job of `WorkerLease` |
| `TrainingProgress` | abstract: what a training run promises its owner |
| `InferenceRun` | an inference run divided into shards, or a post-hoc fit; its jobs are jobs of `WorkerLease` |
| `PredictionProgress` | abstract: what an inference run promises its owner |
| `PullWorker` | one worker process: its loop, control thread and retained output, over `WorkerLease` |
| `OutputUpload` | the resumable transfer of one lease's output archive |
| `QueuedRun` | one queued run, its verification and training jobs, and the operators and workers around it |
| `WorkerDeployment` | one managed worker: its row, its provider, the reconciliation pass and the operators |
| `ResidentRuntime` | the model cache and the prediction lanes of the inference service |
| `MC...` | the instance of each that TLC checks |
| `WorkerLease_proofs`, `SequentialRun_proofs`, `InferenceRun_proofs`, `PullWorker_proofs`, `OutputUpload_proofs`, `QueuedRun_proofs`, `WorkerDeployment_proofs`, `ResidentRuntime_proofs` | theorems and proofs |

Every property is stated in a comment at its definition; a definition named
"Mutant of X" is a bug that the check puts in place of X to see that a property
notices it.

### WorkerLease

*State.* `job[j]` is one record for the rows about job j: its status, retry
counter and cancellation flag (`jobs`), and per attempt n the lease, its
worker, the attempt row, the staging ledger, and what the completion call in
flight is doing. Attempt n of j *is* the lease row whose
`execution_attempts.ordinal` is n. `lease[n]` folds `status` and `outcome` of
`worker_leases` and the relation of `expires_at` to the clock: `active` and
`lapsed` are both rows with status 'active'. `open` is the directive that is
pending, received or accepted; `barred` the leases with a closed stop or restart
command that was not superseded, which is all that reconciliation asks of the
closed ones. `server` is the control-plane process.

*Steps.* Each action is one SQLite transaction (`BEGIN IMMEDIATE` serialises
them) or one store step outside any transaction. What the code does in several
transactions is several actions, so that everything else may run in between:

| Code | Actions |
|---|---|
| `complete_worker_lease(success=True)` | `BeginCompletion` (checks, then validation), `Decide` (the commit decision), `Seal`, `Move`, `RecordPublished` (the store), `CommitCompletion`; `AbortCompletion` wherever it raises |
| `complete_worker_lease(success=False)` | `CompleteFailure` |
| `request_job_command` | `LookUp` (chooses the file lock), then one of `Reject`, `HoldPublication`, `FencePublication`, `ResumePaused`, `DirectWaiting`, `DirectLeased` |
| `request_pull_job_cancellation` | `CancelLook`, `Cancel` |
| `acknowledge_worker_command` | `AckApplied`, `AckFailed` (the other acknowledgements change nothing that a guard reads) |
| `reconcile_worker_publications` | `Reconcile`, one row at a time |
| `reconcile_startup`, lifespan | `Crash`, `Boot`, `StartupExpire`, `Reconcile`, `Serve` |
| all others | the action of the same name |

The file lock of a lease is not a variable: `completing[n] # "idle"` says that a
completion holds it, and every call that takes it has `Unlocked` as a guard. A
crash releases it, as the operating system does.

*What is abstracted.* Capability matching, authorisation of the start and the
order of the queue: any queued job may be offered to any worker. Lease secrets: a
stale secret only makes a call fail. The rows that the same transactions update
elsewhere are in the modules named for them: `execution_runs` in
`SequentialRun`, `inference_runs` and `posthoc_runs` in `InferenceRun`,
`queued_runs` in `QueuedRun`. `registered_workers.state` is read by no guard.
The upload is one step; its sessions are the module `OutputUpload`. A job of a
phase other than those of `Phases` behaves as "whole" here.

*Properties.* `FencedLease`, `HeldJobHasOwner`, `OneOutput`,
`AttemptOpenIffLive`, `OneLeasePerWorker` are invariants; `StoppedNeverCommits`
says what no step may do; `ImplementsRegister` is the refinement.
`OutputIsFinal`, which the refinement implies, is proved and not run.

### AttemptRegister

Per job: how many attempts were issued, which hold the job, which committed.
Issuing fences the holder and is impossible after a commit; only the latest
attempt commits, once. `WorkerLease` implements it under the mapping `Register`
(holders are the attempts with a live lease, outputs those with
`output_ref_json`). Several jobs may move in one step because one expiry
transaction handles every lapsed lease.

### SequentialRun

*State.* `run` is the `execution_runs` row (`epoch` is `completed_epoch`,
`checkpoint` is `checkpoint_ref_json`) with the sealed units of its jobs in order;
the last one is `current_job_id`. A checkpoint is named by the job and attempt
whose output it is. The code draws a new job id for every unit; the model takes an
unused member of `Jobs`, whose constants `Phase` and `Born` say what kind of row it
is inserted as.

| Code | Actions |
|---|---|
| `_begin_sequential_in_connection` | `RunInit` |
| `_read_segment_result` | `Results`: what a worker may report |
| `_commit_segment_in_connection` | `Continue`, with `NextPhase` and `Successor` |
| completion or reconciliation that commits a checkpointing head | `CommitSegment` |
| `restart_failed_training_unit` | `Reconcile`, then `RestartFailedUnit` in `RunOperator`, under `Restartable` |
| every other step on a unit | `RunAcquire`, `RunAttempt`, `RunOperator`, `RunIndex`, `RunServer` |

*What is abstracted.* The cursor is a number of completed epochs: units sealed with a
step budget (`max_steps`) are left out. The reported epoch and early stop are any
that validation accepts; digests and provenance checks either pass or are an
`AbortCompletion` of the lease. `execution_runs.status` repeats the status of the
head and is left out, as is the table of selectable initialization checkpoints.

A manual restart reconciles, reads, and requeues in three transactions. The last one
checks again what the second read, so it alone is an action; the first skips an output it
cannot read at that moment (`service.py` 4930), so that an output may still be reconciled
after the unit was queued again.

*Properties.* `OnlyHeadRuns`, `CommittedUnitAdvanced` and `ChainIsContiguous` are
invariants of the chain; `ImplementsProgress` is the refinement of
`TrainingProgress`: whatever is lost, repeated or reconciled, the epoch only grows,
the finalizer comes after the last epoch or an early stop, and finishes once.

### InferenceRun

*State.* `request` is the `inference_runs` or `posthoc_runs` row with the output of
each shard (`inference_shards.output_ref_json`) and the sealed units of its jobs,
the last of which is `job_id`. `asked` are the cancel calls between the read of
the row and the look at the job, `withdraw` a cancel call about to write the row.
The items are numbered, and `Block(k)` is the slice of shard k.

| Code | Actions |
|---|---|
| `create_inference_run`, `create_posthoc_run` | `InferInit` |
| `start_inference_run` with `_prepare_inference_shards`, `start_posthoc_run` | `Start` |
| `cancel_inference_run`, `cancel_posthoc_run` | `CancelReads`; the cancellation of the job is `CancelLook` and `Cancel` of `WorkerLease`; then `CancelObserves`, `CancelWrites` |
| a completion or reconciliation that records an output | `CommitUnit`: `CommitShard` (`_commit_inference_shard`) for a shard, `Report` otherwise |
| `complete_worker_lease(success=False)` | `FailUnit` |
| indexing of a fitted model, by the completion or by a reconciliation | `IndexFit` |
| every other step on a unit | `RunAcquire`, `RunAttempt`, `RunOperator`, `RunServer` |

*What is abstracted.* What creation checks of model, dataset and pool. The checks
of an output against its sealed population pass, or are an `AbortCompletion` of
the lease. With `JobsApi` FALSE the jobs are cancelled and directed through the
run only.

*Properties.* `OneUnitAtATime`, `StatusMatchesResult`, `CancelledUnitEndsRun`, and
`ImplementsPrediction`, the refinement of `PredictionProgress`: items are predicted
in disjoint blocks, and one result is reported, of all of them.

### PullWorker

*State.* `worker` says where the process is (`at`), for which attempt, whether it
works on retained output, and what its control thread told it (`halt`);
`retained` are the archives under `scratch_root/recovery`, which survive its
death. The control plane is `WorkerLease`, whose calls this worker makes in the
order of its loop instead of in any order.

*Steps.* `Recover` and `Poll` are the head of `PullWorkerLoop.run`;
`AcknowledgeLease`, `Execute`, `Report`, `UploadArchive`, `Complete`,
`AwaitReceipt`, `Settle` one lease; `DeferPublication`, `ReportFailure`,
`ReportCancelled`, `ReportInterrupted` its other ends; `SeeCommand`, `SeeCancel`,
`LoseLease`, `Heartbeat` the control thread (`WorkerControl`); `WorkerDies` a
crash, after which only `retained` is left. Each call is answered, or refused, or
fails: with its effect on the server (the answer is lost) or without.

*What is abstracted.* Materialization and execution are one phase; executors, the
layout of the archive, credentials, the unsupervised keep-alive of old workers and
the `--recover-output` command are left out.

*Properties.* `PullTypeOK`, with the rule that at most one archive is retained and
none while the worker executes; `SettledIsFinal`, `NothingDropped`; `RetainedSettles`
and `WorkerSettlesJobs` are liveness, the latter with the calls the worker really
makes in place of an assumption about them. `FinishedWorkIsKept` is a finding.

### OutputUpload

*State.* `session` is the `worker_output_uploads` row with its parts; `lease` the
columns of `worker_leases` the transfer reads: whether the lease is active, which
of its rotating tokens is current, and `output_archive_sha256` (a set of at most
one digest). `spool` is the session's directory and what its two names
(`output.assembling`, `output.archive`) refer to; `content[f]` is a file,
because a request that opened a file keeps writing to it after another renamed
it. `candidate` is what the lease's staging area holds, each part with the request that
extracted it and that request's token; the last two are a history that no guard reads
and no column keeps. `calls[c]` is a finalize request under way: where it is, the token it came with, the file it has open,
what it has written, the digest it read.

A part is its position, the content of a file the set of parts in place, and the
digest of a content that content. Parts are immutable and verified when they
arrive, so nothing else distinguishes two contents.

| Code | Actions |
|---|---|
| `create_worker_output_upload`, `upload_worker_output_part` | `Create`, `PutPart` |
| `finalize_worker_output_upload`, first transaction | `Begin` |
| ... the copy of the parts, digest check, rename | `Open`, `Write`, `Replace` |
| `upload_worker_lease_output_archive` | `Digest`, `Lock`, `Extract`, `Record` |
| ... last transaction, clean-up | `Finish`, `RemoveSpool` |
| ... any exception, and its handler | `Fail`, `GiveUp` |
| `expire_worker_leases`, clean-up thread | `Expire`, `Sweep` |
| `defer_` and `resume_worker_output_publication` | `Defer`, `Resume` |
| stop and restart of a publication; every other end of the lease | `Fence`, `Close` |
| death of the process | `Crash` |

The file lock is not a variable: a request at "locked" or "extracted" holds it,
and whoever takes it has `Unlocked` as a guard. The lease steps are those of
`WorkerLease`, reduced to what the transfer can tell apart (a paused publication
counts as deferred, release, failure, cancellation and completion as `Close`).

*What is abstracted.* Sizes, limits and metadata checks of sessions and parts.
Extraction reads the archive at one instant; a tar file that ends early extracts in
part. The upload of a whole archive in one request, which old workers use, has
no session and is left out; it takes the same lock and makes the same record.

*Properties.* `OpenSessionHasSpool` (the worker skips the parts a session lists,
so they must be there), `StagedOutputIsFinal`, `RecordedIsOwnExtraction` (what a request
that is late, failed or died has extracted is never what gets recorded),
`FinalizedIsDeclared`, and `UploadFinishes`. `FinalizedIsStaged` is proved and not
run.

### QueuedRun

*State.* `row` is the `queued_runs` row (status, `start_authorized`, whether
`preflight_status` is valid), `spec` its `run_specifications` row (planned or not,
and the worker and environment that verified it), `jobs` the jobs made of it in
order, `env` what each worker last advertised. Of a lease this module keeps
whether it is active, pending publication, or over. `clearing` is a
`clear_queued_runs` between its read and its write.

| Code | Actions |
|---|---|
| `verify`, `start`, `cancel`, `archive` of a queued run | `Verify`, `Start`, `CancelRow`, `Archive` |
| `clear_queued_runs` | `ClearReads`, `ClearWrites` |
| cancellation of, and directives to, one of its jobs | `CancelJob`, `RestartJob`, `PausePublication`, `ResumePublication`, `StopQueued` |
| `acquire_next_worker_lease`, with `_invalidate_changed_verifications_in_connection` | `Poll` |
| ends of a lease | `LeaseLost`, `Fails`, `Acknowledges`, `Defer`, `ComesBack` |
| a successful completion; `_record_verification_in_connection` | `Decide`, `Publish`, `Commit` or `CallDies`; `RecordVerification` |
| `reconcile_worker_publications`, indexing | `Reconcile`, `Index` |

*What is abstracted.* A sequential training is one job (its units are in
`SequentialRun`); directives are given to training jobs only (section 4 says what
they do to a verification). Replacement of a row by an edited one, the change of
its batch size and the retired push lane are left out.

*Properties.* `OneLiveJob` ("repeated requests cannot duplicate work"),
`RunningAsVerified` (of trainings that are not divided into portable units: those trained
as a whole, and contract version 1), and `QueueSettles`, which is liveness.

### WorkerDeployment

*State.* `row` is the `worker_deployments` row; `unit` what the provider knows of
the worker; `call[t]` the call of thread t under way, with the row it read and the
provider's last answer. `automatic` counts the restarts nobody asked for since the
count was last cleared; it is in no column, and no guard reads it.

| Code | Actions |
|---|---|
| `start_worker_deployment` | `Request`, `Inspect`, `Launch`, then `RecordStarted` or `RecordRefused` |
| `stop_worker_deployment` | `Request`, `Halt`, `RecordStopped` |
| `reconcile_worker_deployments`, by the runner every 30 s | `Pass`, `Status` or `StatusFails`, then `ReconcileRunning`, `ReconcileDown`, or `Restart` and the steps of a start |
| the world | `WorkerExits`, `ContainerRemoved`, `Crash` |

*What is abstracted.* Time: a scheduled retry may be due at any later pass, and a
started worker may have been up for five minutes. Profiles and command lines; the
pool is enabled. The runner's loop has no handler of its own and is assumed not to
die of an exception. A reconciliation an operator asks for is in the module but
not in the run nor in the theorems (section 4).

*Properties.* `TypeOK`; `RestartsBounded`: restarts exceed the limit by at most one
per death of the control plane; `RecoversOrReports`, which is liveness.

### ResidentRuntime

*State.* `entry[m]` is the cache entry of a model (state, whether bundle and lane
are set, `in_flight`), `lane[m]` its queue, carry, batch and thread, `call[c]` a
predict or warm call on its own thread, `runtime` whether the runtime is closed.

| Code | Actions |
|---|---|
| `_acquire` under the lock | `Acquire`: `WaitForLoad`, `UseLoaded`, `StartLoad` (with eviction), `NoSlot`; reached by `Call`, and after a wait by `Wake` |
| the load outside the lock | `LoadFails`, `LoadCompletes` |
| `submit` | `CheckOpen`, `Enqueue` |
| the thread of a lane | `TakeFirst`, `PollEmpty`, `AfterPoll`, `Collect`, `StopCollecting`, `Execute`, `AfterExecute` |
| the end of `predict` and `warm` | `Release` |
| `register`, `close` | `Register`; `Close`, `CloseLane` |

*What is abstracted.* The prediction of an item is the item; which idle model is
least recently used is left open; a model has one name. Request validation
(`server_v2.py`) and the choice of the batch size after memory errors
(`batching.py`) are left out. `MicroBatchExecutor` of the HTTP API differs from a
lane in putting back a request that does not fit: that is the mutant
`CollectPutsBack`, and section 4 has what follows.

*Properties.* `CacheTypeOK`, with the bounds of queue and slots;
`EvictionSparesWork`: no model is unloaded under a caller, and no request a lane has
accepted is dropped when the lane is closed or replaced; `AnswersMatch`,
`ServedInOrder`; `CallsReturn` and `BusyLaneDrains` are liveness. `WaitersWatched`
is proved and not run.

## 3. Runs

| Run | Instance | Shows |
|---|---|---|
| `lease_safety` | 1 training unit, 1 worker, 2 attempts, 1 retry, every directive and cancellation | types, four invariants, an action property and the refinement; 0.90 million states |
| `lease_workers` | 2 jobs (whole, finalize), 1 worker, 1 attempt each | `OneLeasePerWorker`, with acquisition, resume, expiry and late heartbeats contending |
| `seq_chain` | 5 rows (2 training, 1 born paused, 2 finalizers), 2 epochs in segments of 2, 1 attempt each, no automatic retry, pause, stop and manual restart | types, three invariants of the chain and the refinement; 0.17 million states |
| `seq_stop` | 2 units, 1 epoch, 1 attempt | violates `StopCancelsContinuation` |
| `infer` | 3 items in shards of 2 and their merge, or one post-hoc fit; 3 jobs, 1 worker, 1 attempt each, stop, cancel, 1 call that cancels the run | two invariants, an action property and the refinement; 0.21 million states |
| `pull_recovery` | 1 job, 1 worker, 2 attempts, 1 retry, stop and cancel, 2 faults | types, an invariant, an action property, two liveness properties; 0.14 million states |
| `pull_kept` | 1 job, 1 worker, no requests, 1 fault | violates `FinishedWorkIsKept` |
| `upload_overlap` | 2 parts, 2 requests, 2 tokens, 3 files | an invariant and two action properties of the transfer; 1.25 million states |
| `upload_serial` | 2 parts, 1 request at a time, 2 tokens | `FinalizedIsDeclared`, and `UploadFinishes` under `FairSpec` |
| `queue` | 2 workers, 2 environments, 4 jobs, 3 requests of any kind, 2 faults, 1 retry | three invariants and `QueueSettles`; 0.49 million states |
| `deploy` | both providers, limit 2, 1 API thread, start and stop, 3 requests, 1 crash | types, the restart budget, and `RecoversOrReports`; 50 thousand states |
| `resident` | 3 calls (two of one item, one of two), 2 models (one batches), 1 slot, batches of 2, queues of 2 | three invariants, an action property and two liveness properties; 0.14 million states |

*Bounds of `WorkerLease`.* `MaxAttempts = 2` with `MaxRetries = 1` lets a job be issued, lost,
retried and lost again, so an old attempt meets a newer one and the budget is
exhausted; nothing in the code distinguishes the third attempt from the second.
`MaxLooks = 1` allows one directive request between its two transactions; a
second one would be ordered by the write lock anyway. One worker suffices in `lease_safety`: a
late call is identified by its attempt, not by its worker, and two workers are
interchangeable in every guard but the unique index, which `lease_workers`
exercises. Jobs share nothing but workers and the expiry transaction.

*Bounds of `SequentialRun`.* Two epochs in one segment of two are enough for each way
a segment may end: cut short by an interruption (a training successor), at its
boundary or by early stopping (a finalizer), so a chain has up to three units, and a
unit has a predecessor and a successor. One attempt each, and no automatic retry: a unit
whose attempt is lost fails, an operator restarts it by hand, and its publication may be
reconciled before or after that, which is the case that matters to the chain. An
automatic retry leaves the same queued unit, with the same lost attempt to reconcile; it,
and a second attempt, are left to the theorems, which hold for any number of both. Two of the rows are interchangeable and the run checks
safety only, so symmetry is sound.

*Bounds of `InferenceRun`.* Three items in slices of two give a full slice, a
shorter last one, and a merge, so a unit has a predecessor and a successor. One
attempt each, with a retry budget of one: a lost attempt is queued again and may then be
reconciled; a shard is never restarted by hand. The theorems hold for any population, slice and number of attempts. The jobs are
interchangeable and the run checks safety only, so symmetry is sound.

*Bounds of `PullWorker`.* Two faults (lost messages, deaths of the worker, crashes
of the control plane) let one hit the recovery from the other; two attempts let a
worker come back with the output of an attempt that was lost.

*Bounds of `OutputUpload`.* Two parts make a half-written archive; two requests
overlap in every way the lock and the shared names allow, and a third would
repeat the role of one of them. Three files are one per name and one a request
still has open under no name. `MaxTokens = 2` lets a request made before a
deferral meet one made after it; the bound is a guard of `Defer` and `Resume`
together, so that no deferred lease is stranded by it. Requests and files are
interchangeable and the run checks safety only, so symmetry is sound; it is not used
in `upload_serial`.

*Bounds of `QueuedRun`.* Four jobs are a verification, its training, and both again;
three requests suffice for verify, start and whatever races them. Two workers let
a run be bound to one and offered to the other, two environments let the one it is
bound to change. `CommitMayFail` is FALSE: the transaction after a publish does not
fail while the control plane lives: its database is not locked for too long, and
`_record_verification_in_connection` does not refuse a report that the checks before
the publish have let through (section 4 says what happens if it does; a
death after the publish is a commit, because startup reconciles before it serves).

*Bounds of `WorkerDeployment`.* A limit of 2 in place of 8 has a first, a last and a
refused restart. One API thread beside the runner gives every race of two calls;
the theorems hold for any number.

*Bounds of `ResidentRuntime`.* One slot and two models force eviction; two small
requests share a batch and the larger one does not fit beside either, so it
becomes the carry; a queue of two is full when one more waits.

*Deadlock* is checked in the runs of `WorkerLease`, `OutputUpload` and `deploy`,
where the system can always crash or act. It is off where it may rightly stop: every
request made and answered (`resident`), every job ended and the bounded requests and
faults spent (`pull_recovery`, `queue`), the rows the run may insert used up or the
run over (`seq_chain`, `infer`).

*Fairness of `PullWorker`.* The worker makes its next step while it can, and its
executor ends; it is started again when it dies. The control plane runs its expiry
every 15 s (`start_operation_runner`), comes back after a crash, reconciles at
startup, and a completion call returns. A lease that the control thread does not
renew lapses. Strong fairness where a crash may interrupt the step in between
(crashes are bounded by `MaxFaults`), weak otherwise. Nothing is assumed of
operators.

*Fairness of `OutputUpload`.* The worker retries a finalize request until it is
answered, and comes back for a lease it handed back (`PullWorkerLoop`, retained
output): strong fairness on `Begin` and `Resume`. A request is repeated, so an I/O error or
a crash that hits one repetition does not hit the same step of every one: strong
fairness on each step. Weak fairness on `RemoveSpool`, `GiveUp` and on the
failure of a request whose lease or token is gone: its next look at the lease
raises. Nothing is assumed of expiry, fencing or crashes.

*Fairness of `QueuedRun`.* Workers poll with what they last advertised and come
back for deferred output; a call under way goes on; the control plane reconciles
and indexes; a clear that read writes; a worker whose job is cancelled says so.
All weak. Nothing is assumed of operators.

*Fairness of `WorkerDeployment`.* The runner passes every 30 s and each of its
steps returns (weak). A provider answers some of its status queries, and a retry
falls due although a pass may come too early (strong).

*Fairness of `ResidentRuntime`.* Every thread runs and a load ends one way or the
other (weak). Nobody has to call, register or close.

## 4. Where the code and its documentation differ

Two differences are runs that end in a violation:

1. `StopCancelsContinuation` (`seq_stop`). `docs/execution-contract-and-split-plan.md`
   (106) says that a stop cancels the continuation. A stop of a unit that waits for its
   retry is recorded without a lease; if its last attempt had published before it was
   lost, reconciliation does not see the stop, commits the checkpoint and queues
   the successor, and leaves the stopped unit cancelled. That this is the only way is
   proved: a cancelled unit whose latest attempt was stopped, or which has a
   cancellation on record, never gets a successor (`LeasedStopsHold`).
2. `FinishedWorkIsKept` (`pull_kept`). `docs/oracle-worker.md` (79-82) says that
   finished output whose publication cannot complete is retained and not rerun. Only
   an `OutputPublicationError` is treated so: an event around the upload that cannot
   be delivered takes the generic handler (`worker/pull.py` 1450), which reports a
   failure and removes the output.

Others were met while modelling. They are not runs; each is described by the code
that causes it.

*Contradicting a document or a comment.*

- A comment in `worker_control.py` (42-44) says a stop or restart must not race a
  publish. The look-up that decides which lock to take is a transaction of its own,
  so a request that starts while the job is running takes no lock and may fence the
  lease after the commit decision. The output is not committed afterwards
  (`StoppedNeverCommits`), but the store has an artifact nobody refers to.
- The docstring of `request_pull_job_cancellation` promises a durable request; a pause
  or resume of the publication deferred meanwhile clears it (`worker_control.py` 102).
- `docs/execution-contract-and-split-plan.md` (104) says that a pause keeps the run
  paused until it is resumed. The pause is bound to one lease; when that lease ends
  without honouring it, the next attempt does not look at it and its commit queues
  the continuation (`worker_control.py` 137, `sequential.py` 441).
- A comment in `finalize_worker_output_upload` (`service.py` 3335-3336) says that a
  session found assembling without a receipt is an interrupted assembly. It may be an
  assembly under way: the repeated request empties the file the first is about to
  rename, the first records the digest of that file, and the session reads finalized
  for an archive nobody declared. `FinalizedIsDeclared` therefore holds only as long as
  no two requests copy parts at the same time; that nothing else has to be
  excluded is proved (`DeclaredUnlessOverlap`). The worker notices, because it compares the receipt
  with its own digest; the lease's output can then not be replaced.
- `docs/orchestrator-api.md` (68, 205-206) says that training uses the worker instance that
  verified it, and that changing the worker invalidates verified work that has not
  started. A run that was started in portable units is exempt from both: its units are
  offered to any capable worker (`service.py` 2249-2253), and a restarted worker does not
  invalidate it although none of its units was ever leased (2423-2426;
  `tests/test_pull_queue.py` 461-474 has the changed worker lease it). Each unit verifies
  its batch where it runs. `RunningAsVerified` is therefore about runs that are not
  divided into portable units.
- The docstring of `verify_queued_runs_for_pool` (`service.py` 1563-1564) says that
  repeated requests cannot duplicate work. If the transaction after the publish of a
  verification fails while the control plane lives and its job then ends as failed, an
  operator may verify again, and the first verification may be reconciled after that and
  start a training beside the second one: two live jobs of one run. `OneLiveJob` is
  therefore checked and proved only for `~CommitMayFail`.
- `docs/orchestrator-api.md` (65-69) says that a successful verification makes a run
  ready, or starts it. A pause or resume of the publication of a verification writes
  its status to the queue row (`worker_control.py` 115, 167-170); the completion that
  follows finds the row not verifying and returns (`service.py` 3463-3464).
- `deploy/docker/README.md` (122-126) and a comment in `orchestration/api.py` (428-430)
  say that deployments whose desired state is running are restarted. A stop that
  completes within a reconciliation pass is undone by the restart of that pass, which
  goes by the row it read and writes `desired_state='running'`.
- `docs/inference-api.md` (116) says that a cancellation cancels queued and running
  work. A cancellation of shard k whose completion commits meanwhile is without effect,
  and the chain goes on. A cancellation of a *ready* run reads the row and writes it
  later without a condition (`service.py` 2633-2639): a start in between leaves a
  cancelled row whose job runs, and the next shard commit writes queued again.
- `docs/execution-contract-and-split-plan.md` (107) says that a restart starts a new
  attempt. A completion refused because a restart is pending is reported as a failed
  execution, which ends the job.

*Not contradicted by a document.*

- Leases: a lease released with the label "completed" is answered later with a
  completion receipt although it has no output; a cancelled *paused* job stays in
  `cancel_requested` with no worker to observe it; a cancellation that races a
  deferral leaves `cancel_requested` on the job while its lease awaits publication; a
  crash between `os.replace` and the ledger write leaves an attempt that can never be
  published; a worker that dies while its completion is under way, when the publication
  then aborts, leaves a lease publication_pending that nobody moves on
  (`service.py` 3694; `Stranded` in `PullWorker`).
- Uploads: a session whose lease was fenced during the extraction may still be marked
  finalized (3377), which nothing reads; the spool of a session whose lease was released
  or failed is never removed, since expiry abandons the sessions of expired leases only.
- Queue: a row cleared while it was started reads cancelled while its job runs.
- Inference: a cancellation a worker acknowledges, a directive, or an exhausted retry
  budget ends the job and never writes the `inference_runs` or `posthoc_runs` row, which
  stays queued; a stop of a waiting shard is overtaken by reconciliation as in 1; a
  post-hoc fit committed by reconciliation never updates `posthoc_runs`
  (`service.py` 4985-5035).
- Deployments: the write of a reconciliation that saw the worker running may put back
  the attempts an explicit start had cleared; a stop racing a recovery may leave a
  container running with desired state stopped; two passes at once count two restarts as
  one; a death between launch and write hides one restart (the `crashes` of
  `RestartsBounded`); `docker stop` of a missing container raises and leaves the desired
  state running; concurrent starts of the local provider spawn two processes, and its
  processes survive a crash of the control plane unmanaged.
- Inference runtime: a caller past the closed check of `submit` may enqueue behind the
  stop marker and wait for ever; after `close` a woken caller loads again and leaves the
  entry loading without a notify. In `api/microbatch.py` (90-93) a request put back loses
  its place, and the put blocks the only consumer when the queue is full.
- Operation runner: a `worker_reconciliation` operation left running by a crash
  suppresses later ones (`service.py` 512).

## 5. Proofs

The theorems hold for every value of the constants, from the assumptions named in the
modules, and each is stated of the specification whose runs check the same property.

*WorkerLease.* `FencedLease` and `OneOutput` are not inductive: an old attempt
must be known to have no live lease, no output and no open directive, and a
published ledger entry of a fenced attempt must be known to be barred.
`JobInv(r)` collects what holds of one job record (attempts not yet issued are
blank; a live lease is the latest; attempt row open iff live; a held job has its
lease; output is of the latest attempt, from a published ledger, and ends the
attempts; a completed job has output; an open directive names a lease; a fenced
attempt without output is barred), and `IInv` is `TypeOK` with `JobInv` of every
job. Every action changes a job in one of a few shapes: it keeps the
leases, ends one, commits one, or issues one (`Same`, `Kept`, `Ended`,
`Committing`, `Issuing`). One lemma per shape shows that it preserves
`JobInv`; one lemma per action shows that the action has its shape, and
`NextSteps` puts them together. The same decomposition yields the abstract step
(`JobStep`: drop, commit, issue or stay), so the refinement, and the two action
properties, follow from the same case analysis. Each temporal theorem combines
the initial and the step case by PTL. The lemmas about who writes an output
(`AttemptStepIsLocal`, `CommitRecords`, `OutputStaysOrIsFirst`, `OutputKept`, ...)
are there for the modules that extend this one.

| Theorem | States |
|---|---|
| `Inductive` | `Spec => []IInv` |
| `TypeCorrect`, `Fencing`, `Ownership`, `SingleOutput`, `AttemptRows` | the invariants of `lease_safety` |
| `StoppedStaysStopped`, `OutputStays` | `StoppedNeverCommits`, `OutputIsFinal` |
| `Implementation` | `Spec => ImplementsRegister` |
| `WorkerExclusion` | `OneLeasePerWorker` |

*SequentialRun.* A step of a run is a step of the lease
protocol (`RunUsesLeases`), so `IInv` holds and is not proved again. Contiguity
and the absence of forks are not inductive: it must be known that rows not yet
inserted have no output, that every unit behind the head has one, that a
checkpointing head has none, and that no job is two units (`RunInv`). Every step
either records no output of a checkpointing unit and leaves the run alone (`Holds`),
or is the one commit (`Advances`); the two lemmas `HoldsKeepsInv` and
`AdvancesKeepsInv` are the induction step, and the same two cases map to a stutter or
`Finished`, and to `Initialized` or `Checkpoint`, of `TrainingProgress`.

| Theorem | States |
|---|---|
| `RunInductive`, `RunUsesLeases` | `RunSpec => [](IInv /\ RunInv)`, `RunSpec => Spec` |
| `RunTypeCorrect`, `NoFork`, `Continued`, `Contiguous` | the invariants of `seq_chain` |
| `LeasedStopsHold` | a cancelled unit stopped through its lease, or with a cancellation on record, has no successor |
| `RunImplementation` | `RunSpec => ImplementsProgress` |

*InferenceRun.* Again a step is a step of the lease protocol (`InferUsesLeases`).
`InferInv` has four parts: `PlanInv` (the units predict the shards in order, then merge;
a shard has an output exactly when its unit is behind the head; the merge is given all
of them), `OutputsInv` (every unit behind the head has committed, a shard at the head and
rows not yet inserted have not), `StatusInv` (row and result agree, a ready run has no
job) and `CallsInv` (types of the cancel calls). A step leaves the run alone (`Rests`), starts it (`Starts`), commits a shard (`Advances`) or
records the result (`Reports`): these are the cases of the induction, of the action
property, and of the refinement, where `Advances` maps to `Predict` and `Reports` to
`Finish` or `FinishWhole`. That needs arithmetic about the slices, stated as lemmas: no
slice is empty, two do not meet, and together they are all items, for every
population and shard size.

| Theorem | States |
|---|---|
| `InferInductive`, `InferUsesLeases` | `InferSpec => [](IInv /\ InferInv)`, `InferSpec => Spec` |
| `InferTypeCorrect` | `InferTypeOK`, which no run checks separately |
| `OneUnit`, `StatusAgrees`, `CancelledEnds` | the properties of `infer` |
| `InferImplementation` | `InferSpec => ImplementsPrediction` |

*PullWorker.* A step of the worker, or of the control plane beside it, is a step of the
lease protocol (`PullUsesLeases`): the theorems of `WorkerLease` hold of the worker as
it is, with its retries, lost answers and recoveries. On the lease side a step moves a lease
that is live, issues one, or commits output (`LeasesMove`), so an ended lease stays as it
ended, and a completed one has output (`ReceiptHasOutput`; this needs that the worker never
releases a lease under the label "completed", section 4). On the worker side
`WorkerMove` names the nine changes a step may make of the worker and its disk.
`SettledIsFinal` is then inductive together with `RetainedIsOwn`: what is retained
waits for the loop, or belongs to the lease at work. An instance has a job and an attempt
(`WorkAssumption`).

| Theorem | States |
|---|---|
| `PullInductive`, `PullUsesLeases` | `PullSpec => []PullIInv`, `PullSpec => Spec` |
| `PullTypeCorrect`, `SettledEnds` | `PullTypeOK`, `SettledIsFinal` |
| `ArchivesKept` | `NothingDropped` |

*QueuedRun.* `NoDuplicate` assumes `~CommitMayFail`, as the run does, and is false
without it (section 4); the other theorems need no such assumption. Neither property is
inductive. `OneLiveJob` needs to know that a run with a live job is in no status that
lets a request make another (`LiveIsUnderWay`), and that a publication which is not
committed has its call under way, with its job alive (`JobInv`): that is why
a reconciliation cannot record a stale verification and start a second training.
`RunningAsVerified` speaks of trainings that are not divided into portable units. It needs
to know that what may be started has a worker (`ValidHasWorker`), and so has every
training job; that a worker which holds a lease states no other capabilities; and a stale verification may be
recorded when the transaction after a publish fails, so that every publication, whatever
became of its job, must have a known worker too (`PinnedInv`). A step changes one job, or
none, makes one, or cancels those that wait: one lemma for each (`OneJobChanges`,
`NoJobChanges`, `Enqueued`, `InvalidatesInv`) and one per action.

| Theorem | States |
|---|---|
| `QueueInductive`, `NoDuplicate` | the invariant and `OneLiveJob`, while that transaction does not fail |
| `PinnedInductive` | `Spec => []PinnedInv` |
| `QueueTypeCorrect`, `RunsAsVerified` | `QueueTypeOK`, `RunningAsVerified` |

*OutputUpload.* Requests and files may be any sets. `StagedOutputIsFinal` needs to
know that a request inside the lock saw no recorded digest and that none was
recorded since (`LockedUnrecorded`), which needs the lock (`Exclusive`);
`OpenSessionHasSpool` needs to know that whoever is about to remove the spool has
closed the session (`ReceiptClosed`) and that a closed session stays closed:
neither a part nor a request tests for "abandoned", only the lease stands in
their way (`AbandonedEnded`). `RecordedIsOwnExtraction` needs to know that whoever is
inside the lock has the lease's current token, which changes only under the same lock, and
that the staging area is empty until it holds that request's extraction and nothing else
(`OwnArea`).
`IInv` is these with `TypeOK`; it is preserved by one case per action of a request
(`CallKeepsInv`), by the steps outside requests (`OutsideKeepsInv`) and by a crash.
`FinalizedIsDeclared` is false when requests overlap (section 4). The theorem keeps
any number of requests and excludes only that two of them copy parts into the archive at
the same time (`OneWriter`). Then whoever assembles owns the
file it writes (`WriterOwnsFile`), the renamed archive is whole (`ArchiveWhole`), and
the digests read from it and recorded are the declared ones (`WholeInv`). That
requests which follow one another satisfy the condition is the corollary
`FinalizedDeclared`, which is what `upload_serial` checks.

| Theorem | States |
|---|---|
| `TypeCorrect` | `TypeOK`, which no run checks separately |
| `SpoolKept`, `FinalizedStaged` | `OpenSessionHasSpool`, `FinalizedIsStaged` |
| `StagedStays`, `OwnExtraction` | `StagedOutputIsFinal`, `RecordedIsOwnExtraction` |
| `DeclaredUnlessOverlap` | `Spec /\ []OneWriter => []FinalizedIsDeclared` |
| `FinalizedDeclared` | `FinalizedIsDeclared`, of one request at a time |

*WorkerDeployment.* The theorems assume that operators start and stop
(`OperatorsStartAndStop`; two reconciliations at once break the budget, section 4).
The budget is not inductive: the row counts a restart after it was made, a pass works
with a row it read earlier, and a start or a stop may clear the count meanwhile. The
invariant says that the row's count, and that of the row a pass has read or reads
again, bound the restarts except one per crash (`RowCounts`, `SeenCounts`,
`ReadAgain`), that a pass about to launch still has room (`Room`), and which
thread may be where (`Roles`).

| Theorem | States |
|---|---|
| `Inductive` | the invariant |
| `TypeCorrect`, `RestartBudget` | `TypeOK`, `RestartsBounded` |

*ResidentRuntime.* The theorems hold for any finite sets of callers and models, any
sizes, limits and capacities. None of the properties is inductive. `IInv` has two
parts. `CallInv` is about the entries: `in_flight` is the number of callers between
`_acquire` and the end of their call (`CountsHeld`), so what eviction may take is
nobody's; who loads a model is marked in its entry, and nobody else loads it
(`LoadsMarked`, `LoadsFresh`), so that slots are counted before the load and not after
it (`SlotsBounded`); a held model is loaded (`HeldIsLoaded`). `LaneInv` is about the
lanes: every request in the queue, the carry or the batch of a lane waits there, for
that model, and is there once (`Orderly`); a loaded entry has a lane that takes requests (`LoadedServes`);
whoever waits in a lane is in it (`QueuedWaits`). The steps of a lane change its
backlog in one of a few ways (it keeps it, moves a prefix into the batch, answers the batch,
or is given one more request), and each way has a lemma that says it keeps the order
and drops nobody.

`AnswersMatch` also needs that the slices `_execute` cuts fall where they should. That is
`SliceIsOwn`, about a joined sequence of any length. The library's induction theorems
cannot be used here (they take an operator as a parameter); the proof takes the
*least* length at which the statement fails (`LeastNumber`, from the
well-foundedness of < on the numbers) and refutes it. `WaitersWatched` says that while
the runtime is open a caller waits only for a load that some thread is doing. It and the
second half of `EvictionSparesWork` are the safety part of `CallsReturn`; what is left
of it is fairness.

| Theorem | States |
|---|---|
| `ResidentInductive` | `Spec => []IInv` |
| `ResidentTypeCorrect`, `WorkSpared`, `AnswersAreOwn`, `OrderIsKept` | `CacheTypeOK`, `EvictionSparesWork`, `AnswersMatch`, `ServedInOrder` |
| `NoLostWakeup` | `Spec => []WaitersWatched` |
| `SliceIsOwn` | the slice of every request of a batch is that of its own items |

*Only model-checked:* `UploadFinishes`, `RecoversOrReports`, `QueueSettles`,
`RetainedSettles`, `WorkerSettlesJobs`, `CallsReturn`, `BusyLaneDrains`, because
liveness under fairness needs `ENABLED`, which the proof system does not handle. Every
other property of a passing run is a theorem.

## 6. Plan

| # | Module | Models | Abstract specification | Run | To prove |
|---|---|---|---|---|---|
| 1 | `ArtifactStore` | staging ledger, registry, grants, replication and restore | write-once content store, one-shot grants | 2 artifacts, 2 readers | grant delivered at most once |
| 2 | `OperationRunner` | operations, runner thread, reconciliation scheduling, crash | a queue served once | 3 operations | |
| 3 | `TrainingRecovery` | rotation of checkpoint bundles, interrupted saves | a complete bundle is always loadable | 2 bundles | |
| 4 | `SplitPolicy`, dataset uploads | pure partition algorithms; upload sessions, optimistic revisions | | small instances | partition lemmas |

Not modelled and not planned: numerical code, model architectures, evaluation, HTTP
parsing and authorisation, rendering, dataset decoding, graphical tools, the
web interface. They hold no protocol state, or their correctness is not a matter of
order and failure; they are also most of the repository's lines.

----------------------------- MODULE QueuedRun -----------------------------
(***************************************************************************)
(* One queued training run: its row, the specification it is pinned to,    *)
(* the verification and training jobs made of it, and the requests of      *)
(* operators that verify, start, cancel, clear and archive it while the    *)
(* workers that poll may restart with other capabilities.                  *)
(*                                                                         *)
(* The lease protocol is the one of WorkerLease; of a lease this module    *)
(* keeps whether it is active, or pending publication, or over.  A         *)
(* sequential training is one job here; SequentialRun has its units.       *)
(* "leased" stands for the job status running too.                         *)
(***************************************************************************)
EXTENDS Naturals, FiniteSets

CONSTANTS
  Workers,         \* the registered workers of the pool
  NoWorker,        \* none of them
  Starts,          \* what a worker may advertise, one value per start: 1, 2 ..
  Asked,           \* the requests operators make
  CommitMayFail,   \* the transaction after a publish may fail
  MaxRetries,      \* automatic retries of a lost lease: 1
  MaxJobs,         \* bound: jobs of the run
  MaxRequests,     \* bound: requests of operators
  MaxFaults        \* bound: lost leases, dead completions, worker restarts

ASSUME CommitMayFail \in BOOLEAN
ASSUME QueueBounds == NoWorker \notin Workers /\ {Starts, MaxRetries, MaxJobs, MaxRequests, MaxFaults} \subseteq Nat

VARIABLES
  row,             \* the row of queued_runs
  spec,            \* its row of run_specifications
  sequential,      \* its training runs in portable units: contract version 2, not as a whole
  jobs,            \* its jobs, in the order they were made
  env,             \* what each worker last advertised
  clearing,        \* a clear has read the row, and will cancel it
  requests,        \* requests so far
  faults           \* faults so far

vars == <<row, spec, sequential, jobs, env, clearing, requests, faults>>

Jobs == 1 .. MaxJobs

Envs == 1 .. Starts

Terminal == {"completed", "indexed", "failed", "cancelled"}

Publishing == {"publishing", "publication_pending", "publication_paused"}

JobStatuses ==
  Terminal \cup Publishing \cup {"none", "queued", "leased", "cancel_requested"}

RowStatuses ==
  JobStatuses \cup {"pending_verification", "verifying", "ready", "needs_attention", "archived"}

Binding == [worker : Workers \cup {NoWorker}, env : Envs \cup {0}]

Unbound == [worker |-> NoWorker, env |-> 0]

JobRecord ==
  [ kind : {"none", "verify", "train"},
    status : JobStatuses,
    lease : {"none", "active", "pending"},
    held : Binding,            \* the worker of the latest lease, as it was then
    bound : Binding,           \* verified_worker_id, verified_environment_sha256
    retries : 0 .. MaxRetries,
    cancel : BOOLEAN,          \* cancel_requested_at is set
    call : BOOLEAN,            \* a completion has decided and is under way
    published : BOOLEAN ]      \* the store has the output of the latest lease

NoJob ==
  [ kind |-> "none", status |-> "none", lease |-> "none", held |-> Unbound,
    bound |-> Unbound, retries |-> 0, cancel |-> FALSE, call |-> FALSE,
    published |-> FALSE ]

Made == {j \in Jobs : jobs[j].kind # "none"}

Live(j) == j \in Made /\ jobs[j].status \notin Terminal

(* queue_model_definition_for_pool has run, and workers have registered.   *)
Init ==
  /\ row = [status |-> "pending_verification", authorized |-> FALSE, valid |-> FALSE]
  /\ spec = [planned |-> TRUE, verified |-> Unbound]
  /\ sequential \in BOOLEAN
  /\ jobs = [j \in Jobs |-> NoJob]
  /\ env \in [Workers -> Envs]
  /\ clearing = FALSE
  /\ requests = 0 /\ faults = 0

-----------------------------------------------------------------------------
(* The row's status follows the job of a sequential training: an event of  *)
(* the current unit writes it.                                             *)
Followed(j) == sequential /\ jobs[j].kind = "train"

Mirrored(r, j, status) == IF Followed(j) THEN [r EXCEPT !.status = status] ELSE r

Withdrawn(r) == [r EXCEPT !.status = "cancelled", !.authorized = FALSE]

NextJob == Cardinality(Made) + 1

HasExecutionRun == sequential /\ \E j \in Made : jobs[j].kind = "train"

(* A planned specification becomes a job; its row waits for it.  A second  *)
(* sequential training of one specification breaks a key.                  *)
Enqueues(kind, r, s, js) ==
  /\ s.planned /\ NextJob \in Jobs
  /\ kind = "train" => ~HasExecutionRun
  /\ jobs' = [js EXCEPT ![NextJob] =
       [NoJob EXCEPT !.kind = kind, !.status = "queued", !.bound = s.verified]]
  /\ spec' = [s EXCEPT !.planned = FALSE]
  /\ row' = [r EXCEPT !.status = IF kind = "verify" THEN "verifying" ELSE "queued"]

Request(kind) ==
  /\ kind \in Asked /\ requests < MaxRequests
  /\ requests' = requests + 1
  /\ UNCHANGED <<sequential, env, faults>>

(* Mutant of Verifiable: a run that is being verified may be verified.     *)
VerifiableAgain ==
  row.status \in {"pending_verification", "needs_attention", "ready", "verifying"}
  /\ ~row.authorized

Verifiable ==
  row.status \in {"pending_verification", "needs_attention", "ready"} /\ ~row.authorized

Verify ==
  /\ Request("verify") /\ Verifiable
  /\ \E start \in BOOLEAN :
       Enqueues("verify", [row EXCEPT !.valid = FALSE, !.authorized = start],
                [planned |-> TRUE, verified |-> Unbound], jobs)
  /\ UNCHANGED clearing

Start ==
  /\ Request("start")
  /\ row.status = "ready" /\ row.valid
  /\ Enqueues("train", [row EXCEPT !.authorized = TRUE], spec, jobs)
  /\ UNCHANGED clearing

CancelRow ==
  /\ Request("cancel")
  /\ row.status \in {"pending_verification", "ready", "needs_attention", "cancelled"}
  /\ row' = Withdrawn(row)
  /\ UNCHANGED <<spec, jobs, clearing>>

(* clear_queued_runs reads, and writes in a transaction of its own.        *)
ClearReads ==
  /\ Request("clear")
  /\ ~clearing /\ row.status \in {"ready", "needs_attention"}
  /\ clearing' = TRUE
  /\ UNCHANGED <<row, spec, jobs>>

ClearWrites ==
  /\ clearing /\ clearing' = FALSE
  /\ row' = Withdrawn(row)
  /\ UNCHANGED <<spec, sequential, jobs, env, requests, faults>>

Archive ==
  /\ Request("archive")
  /\ row.status # "archived" /\ \A j \in Made : ~Live(j)
  /\ Made = {} => row.status \in {"failed", "cancelled", "needs_attention"}
  /\ \A j \in Made : Followed(j) => jobs[j].status \in {"failed", "cancelled", "indexed"}
  /\ row' = [row EXCEPT !.status = "archived", !.authorized = FALSE]
  /\ UNCHANGED <<spec, jobs, clearing>>

-----------------------------------------------------------------------------
(* request_pull_job_cancellation, and the directives of an operator that a *)
(* job of this run accepts; one about a publication waits for the call     *)
(* that makes it.                                                          *)
Stopped(j) ==
  jobs' = [jobs EXCEPT ![j].status = "cancelled", ![j].lease = "none", ![j].cancel = TRUE]

CancelJob(j) ==
  /\ Request("cancel_job") /\ Live(j)
  /\ \/ /\ jobs[j].status = "queued"
        /\ Stopped(j) /\ row' = Withdrawn(row)
     \/ /\ jobs[j].status \in {"leased", "cancel_requested"}
        /\ jobs' = [jobs EXCEPT ![j].status = "cancel_requested", ![j].cancel = TRUE]
        /\ row' = Mirrored(row, j, "cancel_requested")
     \/ /\ jobs[j].status \in Publishing /\ ~jobs[j].call
        /\ Stopped(j) /\ row' = Withdrawn(row)
  /\ UNCHANGED <<spec, clearing>>

(* A directive writes the status it gives the job to the row as well.      *)
Directs(j, status) == row' = [row EXCEPT !.status = status]

RestartJob(j) ==
  /\ Request("restart") /\ Live(j)
  /\ \/ jobs[j].status = "queued" /\ UNCHANGED jobs
     \/ /\ jobs[j].status \in Publishing /\ ~jobs[j].call
        /\ jobs' = [jobs EXCEPT ![j].status = "queued", ![j].lease = "none",
                                ![j].cancel = FALSE, ![j].published = FALSE]
  /\ Directs(j, "queued")
  /\ UNCHANGED <<spec, clearing>>

PausePublication(j) ==
  /\ Request("pause") /\ Live(j)
  /\ jobs[j].status \in Publishing \ {"publication_paused"} /\ ~jobs[j].call
  /\ jobs' = [jobs EXCEPT ![j].status = "publication_paused", ![j].lease = "pending",
                          ![j].cancel = FALSE]
  /\ Directs(j, "publication_paused")
  /\ UNCHANGED <<spec, clearing>>

ResumePublication(j) ==
  /\ Request("resume") /\ Live(j)
  /\ jobs[j].status \in {"publication_paused", "publication_pending"} /\ ~jobs[j].call
  /\ jobs' = [jobs EXCEPT ![j].status = "publication_pending", ![j].lease = "pending",
                          ![j].cancel = FALSE]
  /\ Directs(j, "publication_pending")
  /\ UNCHANGED <<spec, clearing>>

(* A stop of a job that waits writes the row's status and not its consent. *)
StopQueued(j) ==
  /\ Request("stop") /\ Live(j) /\ jobs[j].status = "queued"
  /\ jobs' = [jobs EXCEPT ![j].status = "cancelled"]
  /\ Directs(j, "cancelled")
  /\ UNCHANGED <<spec, clearing>>

-----------------------------------------------------------------------------
(* Workers.                                                                *)

Fault ==
  /\ faults < MaxFaults /\ faults' = faults + 1
  /\ UNCHANGED <<sequential, env, clearing, requests>>

Works == UNCHANGED <<sequential, env, clearing, requests, faults>>

(* Mutant of Leased: a worker that holds a job that awaits its output may  *)
(* restate its capabilities.                                               *)
LeasedForVerification(w) ==
  \E j \in Made :
    jobs[j].kind = "verify" /\ jobs[j].lease = "active" /\ jobs[j].held.worker = w

Leased(w) == \E j \in Made : jobs[j].lease = "active" /\ jobs[j].held.worker = w

(* Mutant of Outdated: only what has not been started is invalidated.      *)
OutdatedWhenReady(w, e) ==
  row.status = "ready" /\ ~HasExecutionRun /\ spec.verified.worker = w /\ spec.verified.env # e

(* _invalidate_changed_verifications_in_connection.                        *)
Outdated(w, e) ==
  /\ row.status \in {"ready", "queued"}
  /\ \A j \in Made : jobs[j].status \in Terminal \cup {"queued"}
  /\ ~HasExecutionRun
  /\ spec.verified.worker = w /\ spec.verified.env # e

Invalidates ==
  /\ jobs' = [j \in Jobs |->
       IF jobs[j].status = "queued" THEN [jobs[j] EXCEPT !.status = "cancelled"]
       ELSE jobs[j]]
  /\ row' = [status |-> "needs_attention", authorized |-> FALSE, valid |-> FALSE]
  /\ spec' = [spec EXCEPT !.planned = TRUE]

CanExecute(w, e, j) ==
  /\ jobs[j].status = "queued"
  /\ ~Followed(j) /\ jobs[j].bound # Unbound => jobs[j].bound = [worker |-> w, env |-> e]

Leases(w, e, j) ==
  /\ CanExecute(w, e, j) /\ \A k \in Made : CanExecute(w, e, k) => j <= k
  /\ jobs' = [jobs EXCEPT ![j].status = "leased", ![j].lease = "active",
       ![j].held = [worker |-> w, env |-> e], ![j].published = FALSE]
  /\ row' = Mirrored(row, j, "leased")
  /\ UNCHANGED spec

(* acquire_next_worker_lease: a poll states the capabilities of its worker *)
(* anew.  Others than before, of a worker that was started again, are      *)
(* refused while a lease of it is active.  What they put out of date is    *)
(* invalidated; otherwise the first job it can execute is leased.          *)
Poll(w, e) ==
  /\ ~Leased(w)
  /\ env' = [env EXCEPT ![w] = e]
  /\ faults' = IF e = env[w] THEN faults ELSE faults + 1
  /\ faults' <= MaxFaults
  /\ \/ Outdated(w, e) /\ Invalidates
     \/ ~Outdated(w, e) /\ \E j \in Made : Leases(w, e, j)
     \/ /\ ~Outdated(w, e) /\ ~\E j \in Made : CanExecute(w, e, j)
        /\ UNCHANGED <<row, spec, jobs>>
  /\ UNCHANGED <<sequential, clearing, requests>>

(* Mutant of Retries: the budget is read one too late.                     *)
RetriesOnceMore(j) == jobs[j].retries <= MaxRetries

(* A lease expires or is handed back: one retry, but for a cancellation.   *)
Retries(j) == jobs[j].retries < MaxRetries

LeaseLost(j) ==
  /\ jobs[j].lease = "active" /\ Fault
  /\ \/ /\ jobs[j].cancel
        /\ Stopped(j) /\ row' = Withdrawn(row)
     \/ /\ ~jobs[j].cancel /\ Retries(j)
        /\ jobs' = [jobs EXCEPT ![j].status = "queued", ![j].lease = "none",
                                ![j].retries = @ + 1]
        /\ row' = Mirrored(row, j, "queued")
     \/ /\ ~jobs[j].cancel /\ ~Retries(j)
        /\ jobs' = [jobs EXCEPT ![j].status = "failed", ![j].lease = "none"]
        /\ row' = [row EXCEPT !.authorized = FALSE,
             !.status = IF jobs[j].kind = "verify" THEN "needs_attention" ELSE "failed"]
  /\ UNCHANGED spec

(* complete_worker_lease(success=False).                                   *)
Fails(j) ==
  /\ jobs[j].lease = "active" /\ Works
  /\ jobs' = [jobs EXCEPT ![j].status = "failed", ![j].lease = "none"]
  /\ row' = IF jobs[j].kind = "verify"
            THEN [status |-> "needs_attention", authorized |-> FALSE, valid |-> FALSE]
            ELSE [row EXCEPT !.status = "failed", !.authorized = FALSE]
  /\ UNCHANGED spec

(* cancel_worker_lease.                                                    *)
Acknowledges(j) ==
  /\ jobs[j].lease = "active" /\ jobs[j].cancel /\ Works
  /\ Stopped(j) /\ row' = Withdrawn(row)
  /\ UNCHANGED spec

(* A publication that cannot be made is left for its worker to come back.  *)
Defer(j) ==
  /\ jobs[j].lease = "active" /\ Fault
  /\ jobs' = [jobs EXCEPT ![j].status = "publication_pending", ![j].lease = "pending"]
  /\ row' = Mirrored(row, j, "publication_pending")
  /\ UNCHANGED spec

ComesBack(j) ==
  /\ jobs[j].lease = "pending" /\ jobs[j].status # "publication_paused" /\ ~jobs[j].call
  /\ ~Leased(jobs[j].held.worker)
  /\ jobs' = [jobs EXCEPT ![j].status = "publishing", ![j].lease = "active"]
  /\ row' = Mirrored(row, j, "publishing")
  /\ Works /\ UNCHANGED spec

-----------------------------------------------------------------------------
(* complete_worker_lease(success=True), in three steps.                    *)

Decide(j) ==
  /\ jobs[j].lease = "active" /\ ~jobs[j].cancel /\ ~jobs[j].published
  /\ jobs' = [jobs EXCEPT ![j].status = "publication_pending", ![j].lease = "pending",
                          ![j].call = TRUE]
  /\ Works /\ UNCHANGED <<row, spec>>

Publish(j) ==
  /\ jobs[j].call /\ ~jobs[j].published
  /\ jobs' = [jobs EXCEPT ![j].published = TRUE]
  /\ Works /\ UNCHANGED <<row, spec>>

(* The call fails in the store, or the control plane dies.  A death after  *)
(* the publish is a commit: the startup reconciles before it serves.  What *)
(* is left is a transaction that fails: its database is locked for too     *)
(* long, or _record_verification_in_connection refuses the report.         *)
CallDies(j) ==
  /\ jobs[j].call /\ Fault
  /\ jobs[j].published => CommitMayFail
  /\ jobs' = [jobs EXCEPT ![j].call = FALSE]
  /\ UNCHANGED <<row, spec>>

Awaited(j) == row.status = "verifying" /\ ~jobs[j].cancel

Completed(j) ==
  [jobs EXCEPT ![j].lease = "none", ![j].call = FALSE,
     ![j].status = IF @ \in {"indexed", "cancelled"} THEN @ ELSE "completed"]

(* _record_verification_in_connection.  With consent the training follows  *)
(* at once, unless the pool no longer allows it.                           *)
RecordVerification(j) ==
  LET verified == [planned |-> TRUE, verified |-> jobs[j].held]
      ready == [row EXCEPT !.status = "ready", !.valid = TRUE]
  IN
  \/ /\ ~Awaited(j)
     /\ jobs' = Completed(j) /\ UNCHANGED <<row, spec>>
  \/ /\ Awaited(j) /\ row.authorized
     /\ Enqueues("train", ready, verified, Completed(j))
  \/ /\ Awaited(j)
     /\ jobs' = Completed(j) /\ spec' = verified
     /\ row' = [ready EXCEPT !.authorized = FALSE]

Records(j, status) ==
  \/ jobs[j].kind = "verify" /\ RecordVerification(j)
  \/ /\ jobs[j].kind = "train"
     /\ jobs' = Completed(j) /\ row' = [row EXCEPT !.status = status]
     /\ UNCHANGED spec

Commit(j) ==
  /\ jobs[j].call /\ jobs[j].published
  /\ \/ jobs[j].lease = "pending" /\ Records(j, "completed")
     \/ /\ jobs[j].lease # "pending"
        /\ jobs' = [jobs EXCEPT ![j].call = FALSE] /\ UNCHANGED <<row, spec>>
  /\ Works

Reconcilable(j) ==
  /\ jobs[j].published /\ jobs[j].status \notin {"completed", "indexed"}
  /\ ~jobs[j].cancel

(* reconcile_worker_publications looks at no status; a training's row only *)
(* follows when the training is sequential.                                *)
Reconcile(j) ==
  /\ Reconcilable(j)
  /\ Records(j, IF Followed(j) THEN "completed" ELSE row.status)
  /\ Works

(* The model is indexed after the commit, or by the next reconciliation.   *)
Index(j) ==
  /\ jobs[j].kind = "train" /\ jobs[j].status = "completed"
  /\ jobs' = [jobs EXCEPT ![j].status = "indexed"]
  /\ row' = [row EXCEPT !.status = "indexed"]
  /\ spec' = [spec EXCEPT !.planned = FALSE]
  /\ Works

-----------------------------------------------------------------------------
Directive(j) == RestartJob(j) \/ PausePublication(j) \/ ResumePublication(j)

Operator ==
  \/ Verify \/ Start \/ CancelRow \/ ClearReads \/ Archive
  \/ \E j \in Made : \/ CancelJob(j) \/ StopQueued(j)
                     \/ jobs[j].kind = "train" /\ Directive(j)

Completes(j) == Decide(j) \/ Publish(j) \/ Commit(j)

Next ==
  \/ Operator
  \/ ClearWrites
  \/ \E w \in Workers, e \in Envs : Poll(w, e)
  \/ \E j \in Made :
       \/ LeaseLost(j) \/ Fails(j) \/ Acknowledges(j) \/ Defer(j) \/ ComesBack(j)
       \/ Decide(j) \/ Publish(j) \/ CallDies(j) \/ Commit(j)
       \/ Reconcile(j) \/ Index(j)

Spec == Init /\ [][Next]_vars

(* Workers poll and come back, what they execute ends, and a call that is  *)
(* under way goes on; no operator has to do anything.                      *)
Fairness ==
  /\ \A w \in Workers : WF_vars(Poll(w, env[w]))
  /\ \A j \in Jobs :
       /\ WF_vars(ComesBack(j)) /\ WF_vars(Completes(j))
       /\ WF_vars(Acknowledges(j)) /\ WF_vars(Reconcile(j)) /\ WF_vars(Index(j))
  /\ WF_vars(ClearWrites)

FairSpec == Spec /\ Fairness

-----------------------------------------------------------------------------
QueueTypeOK ==
  /\ row \in [status : RowStatuses, authorized : BOOLEAN, valid : BOOLEAN]
  /\ spec \in [planned : BOOLEAN, verified : Binding]
  /\ sequential \in BOOLEAN
  /\ jobs \in [Jobs -> JobRecord]
  /\ env \in [Workers -> Envs]
  /\ clearing \in BOOLEAN
  /\ requests \in 0 .. MaxRequests
  /\ faults \in 0 .. MaxFaults

(* "Repeated requests cannot duplicate work" (service.py:1564).            *)
OneLiveJob == \A j, k \in Made : Live(j) /\ Live(k) => j = k

(* A training that is not divided into portable units (a run trained as a  *)
(* whole, or contract version 1) runs on the worker that verified it, with *)
(* the capabilities that worker had then, however workers restart, runs    *)
(* are verified anew and stale verifications are reconciled.  Portable     *)
(* units are exempt: they verify their batch where they run                *)
(* (_worker_can_execute_unit).                                             *)
RunningAsVerified ==
  \A j \in Made :
    jobs[j].kind = "train" /\ ~sequential /\ jobs[j].status = "leased"
      => jobs[j].bound = [worker |-> jobs[j].held.worker, env |-> env[jobs[j].held.worker]]

Unsettled == {"verifying", "queued", "leased", "cancel_requested", "publishing",
              "publication_pending"}

(* A run that is being verified, or was started, comes to a rest without   *)
(* an operator: it ends, or is handed back to them as ready or as needing  *)
(* attention, however its workers restart meanwhile.                       *)
QueueSettles == row.status \in Unsettled ~> row.status \notin Unsettled
=============================================================================

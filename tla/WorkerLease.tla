---------------------------- MODULE WorkerLease ----------------------------
(***************************************************************************)
(* The worker-lease protocol of the Oracle Builder control plane: how one  *)
(* queued job is handed to pull workers as a sequence of numbered          *)
(* attempts, how an attempt ends (completion, failure, release, expiry,    *)
(* cancellation, directive), and how its output is published once.         *)
(*                                                                         *)
(* One record per job stands for the rows the code keeps in SQLite (jobs,  *)
(* worker_leases, execution_attempts, worker_commands) and for the staging *)
(* ledger of the local artifact store.  Attempt n of job j IS the lease    *)
(* row with execution_attempts.ordinal = n.  An action is one SQLite       *)
(* transaction, or one step of the artifact store between transactions;    *)
(* a call the code rejects rolls back and is not a step.                   *)
(*                                                                         *)
(* Lease secrets are left out: a call with a stale secret is rejected      *)
(* without effect, and a secret changes only in Resume, which holds the    *)
(* lease's file lock, so no call that is under way can see it change.      *)
(* registered_workers.state is shown to operators and read by no guard.    *)
(***************************************************************************)
EXTENDS Integers, FiniteSets

CONSTANTS
  Jobs,          \* pull-worker jobs, each a sealed work unit
  Workers,       \* registered worker identities
  NoWorker,      \* the worker of an attempt that was not issued
  Phase,         \* Phase[j]: "whole" (V1 unit), "train" or "finalize" (V2)
  Requests,      \* what operators ask for in this instance
  MaxRetries,    \* jobs.max_retries: automatic infrastructure retries
  MaxAttempts,   \* bound: attempts issued per job
  MaxLooks       \* bound: directive requests of a job under way at once

Attempts == 1 .. MaxAttempts
Phases == {"whole", "train", "finalize"}
DirectiveActions == {"pause", "yield", "stop_now", "restart", "resume"}

ASSUME PhaseAssumption == Phase \in [Jobs -> Phases]
ASSUME RequestsAssumption == Requests \subseteq DirectiveActions \cup {"cancel"}
ASSUME MaxRetriesAssumption == MaxRetries \in Nat
ASSUME MaxAttemptsAssumption == MaxAttempts \in Nat
ASSUME MaxLooksAssumption == MaxLooks \in Nat
ASSUME NoWorkerAssumption == NoWorker \notin Workers

VARIABLES
  job,           \* job[j]: everything stored, or in flight, about job j
  server         \* the control-plane process

vars == <<job, server>>

----------------------------------------------------------------------------
(* Values *)

(* Statuses in which a live lease, or an operator's cancellation, owns the *)
(* job; in the others no worker may hold it.                               *)
PublicationStatuses == {"publishing", "publication_pending", "publication_paused"}
HeldStatuses == {"leased", "running", "cancel_requested"} \cup PublicationStatuses
TerminalStatuses == {"completed", "indexed", "failed", "cancelled"}
JobStatuses == {"queued", "paused"} \cup HeldStatuses \cup TerminalStatuses

(* "active" and "lapsed" are both worker_leases.status = 'active'; the     *)
(* lease is lapsed once expires_at is in the past.  The values after       *)
(* "publication_paused" are status 'released' with that outcome, and       *)
(* status 'expired'.  A release may also carry the label "failed": nothing *)
(* tells it from the label "released", which stands for both.              *)
ActiveStates == {"active", "lapsed"}
LiveStates == ActiveStates \cup {"publication_pending", "publication_paused"}
ReleaseLabels == {"released", "completed"}
FencedStates == {"cancelled", "stop_now", "restart"}
LeaseStates == {"none", "expired", "failed"} \cup LiveStates \cup ReleaseLabels \cup FencedStates

(* execution_attempts.status; "lost" is the 'infrastructure' classification *)
(* (expired or released), "failed" the 'scientific' one.                   *)
OpenAttempts == {"leased", "running"}
AttemptStates == {"none", "completed", "failed", "lost", "cancelled"} \cup OpenAttempts

(* The staging ledger.  "none" until the lease is acknowledged; "moved"    *)
(* between os.replace and the write of the ledger.                         *)
StoreStates == {"none", "staging", "sealed", "moved", "published"}

Stops == {"stop_now", "restart"}
NoDirective == [action |-> "none", lease |-> 0]

JobRecord ==
  [ status     : JobStatuses,
    retries    : 0 .. MaxRetries,           \* retry_count
    cancel     : BOOLEAN,                   \* cancel_requested_at is set
    issued     : 0 .. MaxAttempts,          \* MAX(execution_attempts.ordinal)
    lease      : [Attempts -> LeaseStates],
    worker     : [Attempts -> Workers \cup {NoWorker}],
    attempt    : [Attempts -> AttemptStates],
    store      : [Attempts -> StoreStates],
    archive    : [Attempts -> BOOLEAN],     \* output_archive_sha256 is set
    output     : [Attempts -> BOOLEAN],     \* output_ref_json is set
    completing : [Attempts -> {"idle", "validating", "decided"}],
                                            \* a complete call holds the lease's lock
    open       : [action : DirectiveActions \cup {"none"}, lease : 0 .. MaxAttempts],
                                            \* the pending, received or accepted command
    barred     : SUBSET Attempts,           \* leases with a closed stop or restart
                                            \* command that was not superseded
    looked     : SUBSET (0 .. MaxAttempts), \* directive requests between the look-up
                                            \* and the lock: the lease each will lock
    cancelSeen : BOOLEAN ]                  \* a cancellation between its two reads

NewJob(status) ==
  [ status |-> status, retries |-> 0, cancel |-> FALSE, issued |-> 0,
    lease      |-> [n \in Attempts |-> "none"],
    worker     |-> [n \in Attempts |-> NoWorker],
    attempt    |-> [n \in Attempts |-> "none"],
    store      |-> [n \in Attempts |-> "none"],
    archive    |-> [n \in Attempts |-> FALSE],
    output     |-> [n \in Attempts |-> FALSE],
    completing |-> [n \in Attempts |-> "idle"],
    open |-> NoDirective, barred |-> {}, looked |-> {}, cancelSeen |-> FALSE ]

(* A pull job is created queued; the successor of a paused training unit   *)
(* is created paused.                                                      *)
Init ==
  /\ job \in [Jobs -> {NewJob("queued"), NewJob("paused")}]
  /\ \A j \in Jobs : job[j].status = "paused" => Phase[j] # "whole"
  /\ server = "up"

Serving == server = "up"

(* One transaction on one job.                                             *)
Update(j, r) ==
  /\ job' = [job EXCEPT ![j] = r]
  /\ UNCHANGED server

----------------------------------------------------------------------------
(* What the transactions share *)

Live(r, n) == r.lease[n] \in LiveStates

(* An attempt row is closed once; later outcomes leave it alone.           *)
Finished(r, n, end) == IF r.attempt[n] \in OpenAttempts THEN end ELSE r.attempt[n]

OpenStop(r, n) == r.open.action \in Stops /\ r.open.lease = n

(* Closing the open directive by any status but 'superseded' leaves a      *)
(* stop or restart on record against its lease.                            *)
BarredByClosing(r) ==
  r.barred \cup (IF r.open.action \in Stops THEN {r.open.lease} ELSE {})

(* Mutants of RetryOrFail: without the limit; leaving a cancelled job to   *)
(* the worker that was lost.                                               *)
RetryAlways(r) ==
  IF r.cancel THEN [r EXCEPT !.status = "cancelled"]
  ELSE [r EXCEPT !.status = "queued", !.retries = @ + 1]

(* The sole automatic retry policy, applied after the loss of a worker.    *)
RetryOrFail(r) ==
  IF r.cancel THEN [r EXCEPT !.status = "cancelled"]
  ELSE IF r.retries < MaxRetries
       THEN [r EXCEPT !.status = "queued", !.retries = @ + 1]
       ELSE [r EXCEPT !.status = "failed"]

(* Every lapsed lease expires, its directive with it, and the job is       *)
(* retried or failed, in one transaction.                                  *)
Expired(r) ==
  IF \A n \in Attempts : r.lease[n] # "lapsed" THEN r
  ELSE LET lapsed(n)  == r.lease[n] = "lapsed"
           directed == r.open.action # "none" /\ lapsed(r.open.lease)
       IN [RetryOrFail(r) EXCEPT
             !.lease   = [n \in Attempts |-> IF lapsed(n) THEN "expired" ELSE r.lease[n]],
             !.attempt = [n \in Attempts |-> IF lapsed(n) THEN Finished(r, n, "lost")
                                                          ELSE r.attempt[n]],
             !.barred  = IF directed THEN BarredByClosing(r) ELSE @,
             !.open    = IF directed THEN NoDirective ELSE @]

AllExpired == [j \in Jobs |-> Expired(job[j])]

(* Mutant of NoOtherActive: the index per work unit alone.                 *)
NoOtherActiveOfJob(all, w, j, n) ==
  \A m \in Attempts : m # n => all[j].lease[m] \notin ActiveStates

(* The partial unique indexes on worker_leases: one 'active' row per       *)
(* worker and one per work unit.                                           *)
NoOtherActive(all, w, j, n) ==
  \A i \in Jobs, m \in Attempts :
    <<i, m>> # <<j, n>> /\ (i = j \/ all[i].worker[m] = w)
      => all[i].lease[m] \notin ActiveStates

----------------------------------------------------------------------------
(* Acquisition and liveness *)

(* A worker claims a queued job: expire what lapsed, insert the lease and  *)
(* its attempt.  Which of the queued jobs is offered first is left open.   *)
Acquire(w, j) ==
  LET r == AllExpired[j]
      n == r.issued + 1
  IN /\ Serving
     /\ r.status = "queued"
     /\ r.issued < MaxAttempts
     /\ NoOtherActive(AllExpired, w, j, n)
     /\ job' = [AllExpired EXCEPT
                  ![j] = [r EXCEPT !.status = "leased", !.issued = n,
                                   !.lease[n] = "active", !.worker[n] = w,
                                   !.attempt[n] = "leased"]]
     /\ UNCHANGED server

(* expires_at passes without a renewal, or the worker was silent and       *)
(* reconcile_worker_liveness set expires_at to now.                        *)
Lapse(j, n) ==
  /\ job[j].lease[n] = "active"
  /\ Update(j, [job[j] EXCEPT !.lease[n] = "lapsed"])

(* A heartbeat or renewal is judged by the time it was received: one that  *)
(* waited for the database revives a lease that lapsed meanwhile.          *)
KeepAlive(j, n) ==
  /\ Serving
  /\ job[j].lease[n] = "lapsed"
  /\ Update(j, [job[j] EXCEPT !.lease[n] = "active"])

Expire ==
  /\ Serving
  /\ \E j \in Jobs, n \in Attempts : job[j].lease[n] = "lapsed"
  /\ job' = AllExpired
  /\ UNCHANGED server

(* A call authenticated as the worker of an unexpired lease.               *)
Authenticated(j, n) == Serving /\ job[j].lease[n] = "active"

(* No complete or upload call holds the lease's file lock.                 *)
Unlocked(j, n) == job[j].completing[n] = "idle"

Acknowledge(j, n) ==
  /\ Authenticated(j, n)
  /\ job[j].store[n] = "none"
  /\ Update(j, [job[j] EXCEPT !.store[n] = "staging", !.status = "running",
                              !.attempt[n] = IF @ = "leased" THEN "running" ELSE @])

(* The archive is extracted into staging and recorded.                     *)
Upload(j, n) ==
  /\ Authenticated(j, n) /\ Unlocked(j, n)
  /\ job[j].store[n] = "staging"
  /\ ~job[j].archive[n]
  /\ Update(j, [job[j] EXCEPT !.archive[n] = TRUE])

----------------------------------------------------------------------------
(* Completion.  complete_worker_lease(success = TRUE) holds the lease's    *)
(* file lock throughout, but runs validation and publication outside any   *)
(* transaction.                                                            *)

(* First transaction: the checks, then validation without the database.    *)
(* When the ledger already says published the call reconciles instead      *)
(* (Reconcile); when staging was moved away it fails.                      *)
BeginCompletion(j, n) ==
  /\ Authenticated(j, n) /\ Unlocked(j, n)
  /\ job[j].store[n] \in {"staging", "sealed"}
  /\ job[j].archive[n]
  /\ ~job[j].cancel /\ ~OpenStop(job[j], n)
  /\ Update(j, [job[j] EXCEPT !.completing[n] = "validating"])

(* Second transaction, the commit decision.                                *)
Decide(j, n) ==
  /\ job[j].completing[n] = "validating"
  /\ Authenticated(j, n)
  /\ ~job[j].cancel /\ ~OpenStop(job[j], n)
  /\ Update(j, [job[j] EXCEPT !.completing[n] = "decided",
                              !.lease[n] = "publication_pending",
                              !.status = "publication_pending"])

StoreStep(j, n, from, to) ==
  /\ job[j].completing[n] = "decided"
  /\ job[j].store[n] = from
  /\ Update(j, [job[j] EXCEPT !.store[n] = to])

Seal(j, n) == StoreStep(j, n, "staging", "sealed")
Move(j, n) == StoreStep(j, n, "sealed", "moved")
RecordPublished(j, n) == StoreStep(j, n, "moved", "published")

(* What a completion commits, whichever transaction does it.  A training   *)
(* segment's commit also applies the pause or yield that was open.         *)
Committed(r, n, phase) ==
  [r EXCEPT !.lease[n] = "completed", !.output[n] = TRUE,
            !.attempt[n] = Finished(r, n, "completed"),
            !.open = IF phase = "train" /\ @.lease = n THEN NoDirective ELSE @]

(* Mutant of CommitCompletion: it trusts the decision, not the ledger.     *)
CommitDecided(j, n) ==
  /\ job[j].completing[n] = "decided"
  /\ job[j].lease[n] = "publication_pending"
  /\ Update(j, [Committed(job[j], n, Phase[j]) EXCEPT
                  !.status = "completed", !.completing[n] = "idle"])

(* Last transaction.                                                       *)
CommitCompletion(j, n) ==
  /\ job[j].completing[n] = "decided"
  /\ job[j].store[n] = "published"
  /\ \/ /\ job[j].lease[n] = "completed"         \* reconciled meanwhile: a receipt
        /\ Update(j, [job[j] EXCEPT !.completing[n] = "idle"])
     \/ /\ job[j].lease[n] = "publication_pending"
        /\ ~(Phase[j] = "train" /\ OpenStop(job[j], n))
        /\ Update(j, [Committed(job[j], n, Phase[j]) EXCEPT
                        !.status = "completed", !.completing[n] = "idle"])

(* Invalid output, an I/O error, or a lease that is no longer the one that *)
(* was decided: the call raises and drops the lock.                        *)
AbortCompletion(j, n) ==
  /\ job[j].completing[n] # "idle"
  /\ Update(j, [job[j] EXCEPT !.completing[n] = "idle"])

(* complete_worker_lease(success = FALSE): an action failure is terminal.  *)
CompleteFailure(j, n) ==
  /\ Authenticated(j, n) /\ Unlocked(j, n)
  /\ job[j].store[n] # "none"
  /\ Update(j, [job[j] EXCEPT !.lease[n] = "failed", !.status = "failed",
                              !.attempt[n] = Finished(job[j], n, "failed")])

(* A catalog scan promotes a published model run.                          *)
Index(j) ==
  /\ server \in {"up", "reconciling"}
  /\ Phase[j] # "train"
  /\ job[j].status = "completed"
  /\ \E n \in Attempts : job[j].output[n]
  /\ Update(j, [job[j] EXCEPT !.status = "indexed"])

----------------------------------------------------------------------------
(* Other ends of a lease *)

(* Mutant of Release: the job is left to whoever looks at it next.         *)
ReleaseLeaseOnly(j, n, label) ==
  /\ Serving
  /\ job[j].lease[n] \in ActiveStates
  /\ Update(j, [job[j] EXCEPT !.lease[n] = label,
                              !.attempt[n] = Finished(job[j], n, "lost")])

(* release_worker_lease asks for the lease secret only: it also ends a     *)
(* lease that lapsed, and takes the label from the caller.                 *)
Release(j, n, label) ==
  /\ Serving
  /\ job[j].lease[n] \in ActiveStates
  /\ Update(j, [RetryOrFail(job[j]) EXCEPT !.lease[n] = label,
                                           !.attempt[n] = Finished(job[j], n, "lost")])

(* The worker reports that it observed a cancellation.                     *)
CancelLease(j, n) ==
  /\ Authenticated(j, n)
  /\ job[j].cancel
  /\ LET applied == job[j].open = [action |-> "stop_now", lease |-> n]
     IN Update(j, [job[j] EXCEPT !.lease[n] = "cancelled", !.status = "cancelled",
                                 !.attempt[n] = Finished(job[j], n, "cancelled"),
                                 !.barred = IF applied THEN @ \cup {n} ELSE @,
                                 !.open = IF applied THEN NoDirective ELSE @])

(* The worker keeps finished output and hands the lease back unexpired.    *)
Defer(j, n) ==
  /\ Authenticated(j, n)
  /\ Update(j, [job[j] EXCEPT !.lease[n] = "publication_pending",
                              !.status = "publication_pending"])

(* Its worker comes back for a lease that awaits publication.              *)
Resume(j, n) ==
  /\ Serving /\ Unlocked(j, n)
  /\ job[j].lease[n] \in {"publication_pending", "active"}
  /\ NoOtherActive(job, job[j].worker[n], j, n)
  /\ Update(j, [job[j] EXCEPT !.lease[n] = "active", !.status = "publishing"])

----------------------------------------------------------------------------
(* Operator requests *)

(* The lease the publication branch works on, 0 when there is none.        *)
PublicationLease(r) ==
  IF r.status \in PublicationStatuses /\ \E n \in Attempts : Live(r, n)
  THEN CHOOSE n \in Attempts : Live(r, n) /\ \A m \in Attempts : Live(r, m) => m <= n
  ELSE 0

(* request_job_command first reads, in a transaction of its own, which     *)
(* lease's file lock it has to take; with none it takes no lock.           *)
LookUp(j) ==
  /\ Serving
  /\ job[j].status \notin TerminalStatuses
  /\ Requests \cap DirectiveActions # {}
  /\ Cardinality(job[j].looked) < MaxLooks
  /\ Update(j, [job[j] EXCEPT !.looked = @ \cup {PublicationLease(job[j])}])

(* The second transaction finds nothing it may do and raises.              *)
Reject(j, look) ==
  /\ Serving
  /\ look \in job[j].looked
  /\ Update(j, [job[j] EXCEPT !.looked = @ \ {look}])

Ready(j, look, action) ==
  /\ Serving
  /\ look \in job[j].looked
  /\ look # 0 => Unlocked(j, look)
  /\ job[j].status \notin TerminalStatuses
  /\ action \in Requests

(* A publication is held back, or let go again.                            *)
HoldPublication(j, look, action) ==
  LET r == job[j]
      n == PublicationLease(r)
      held == IF action = "pause" THEN "publication_paused" ELSE "publication_pending"
  IN /\ Ready(j, look, action) /\ n # 0
     /\ \/ action = "pause" /\ r.status # "publication_paused"
        \/ action = "resume" /\ r.status # "publishing"
     /\ Update(j, [r EXCEPT !.lease[n] = held, !.status = held, !.cancel = FALSE,
                            !.looked = @ \ {look}])

(* Mutant of FencePublication: the attempt row is forgotten.               *)
FenceLeaseOnly(j, look, action) ==
  LET r == job[j]
      n == PublicationLease(r)
      again == action = "restart"
  IN /\ Ready(j, look, action) /\ n # 0
     /\ action \in Stops
     /\ Update(j, [r EXCEPT !.lease[n] = IF again THEN "restart" ELSE "cancelled",
                            !.status = IF again THEN "queued" ELSE "cancelled",
                            !.cancel = ~again,
                            !.open = NoDirective,
                            !.barred = @ \cup {n},
                            !.looked = @ \ {look}])

(* A publication is stopped or restarted: the lease is fenced at once, and *)
(* the directive that was open is superseded.                              *)
FencePublication(j, look, action) ==
  LET r == job[j]
      n == PublicationLease(r)
      again == action = "restart"
  IN /\ Ready(j, look, action) /\ n # 0
     /\ action \in Stops
     /\ Update(j, [r EXCEPT !.lease[n] = IF again THEN "restart" ELSE "cancelled",
                            !.status = IF again THEN "queued" ELSE "cancelled",
                            !.cancel = ~again,
                            !.attempt[n] = Finished(r, n, "cancelled"),
                            !.open = NoDirective,
                            !.barred = @ \cup {n},
                            !.looked = @ \ {look}])

(* Outside publication.  Only a stop may follow a directive that is open.  *)
Directable(j, look, action) ==
  /\ Ready(j, look, action)
  /\ PublicationLease(job[j]) = 0
  /\ action \in {"pause", "yield"} => Phase[j] = "train"
  /\ job[j].open.action # "none" => action = "stop_now"

Unleased(j) == \A n \in Attempts : job[j].lease[n] # "active"

ResumePaused(j, look) ==
  /\ Directable(j, look, "resume")
  /\ job[j].status = "paused" /\ Unleased(j)
  /\ Update(j, [job[j] EXCEPT !.status = "queued", !.looked = @ \ {look}])

(* A waiting job: the directive applies at once, against no lease.         *)
DirectWaiting(j, look, action) ==
  /\ Directable(j, look, action) /\ action # "resume"
  /\ job[j].status \in {"queued", "paused"} /\ Unleased(j)
  /\ Update(j, [job[j] EXCEPT !.status = CASE action = "pause" -> "paused"
                                           [] action = "stop_now" -> "cancelled"
                                           [] OTHER -> "queued",
                              !.open = IF action = "stop_now" THEN NoDirective ELSE @,
                              !.looked = @ \ {look}])

(* A leased job: the directive is left for the worker; a stop supersedes   *)
(* the one that was open.                                                  *)
DirectLeased(j, n, look, action) ==
  LET stop == action = "stop_now" IN
  /\ Directable(j, look, action) /\ action # "resume"
  /\ job[j].lease[n] = "active"
  /\ Update(j, [job[j] EXCEPT !.status = IF stop THEN "cancel_requested" ELSE @,
                              !.cancel = @ \/ stop,
                              !.open = [action |-> action, lease |-> n],
                              !.looked = @ \ {look}])

(* request_pull_job_cancellation reads the status in one transaction; a    *)
(* publication goes the directive's way (LookUp with stop_now) ...         *)
CancelLook(j) ==
  /\ Serving
  /\ "cancel" \in Requests
  /\ job[j].status \notin TerminalStatuses \cup PublicationStatuses
  /\ Update(j, [job[j] EXCEPT !.cancelSeen = TRUE])

(* Mutant of Cancel: a job with a worker is cancelled at once.             *)
CancelAtOnce(j) ==
  /\ Serving
  /\ job[j].cancelSeen
  /\ job[j].status \notin TerminalStatuses
  /\ Update(j, [job[j] EXCEPT !.status = "cancelled", !.cancel = TRUE,
                              !.cancelSeen = FALSE])

(* ... and anything else is cancelled in the next one, whatever the status *)
(* has become by then.                                                     *)
Cancel(j) ==
  /\ Serving
  /\ job[j].cancelSeen
  /\ \/ /\ job[j].status \in TerminalStatuses
        /\ Update(j, [job[j] EXCEPT !.cancelSeen = FALSE])
     \/ /\ job[j].status \notin TerminalStatuses
        /\ Update(j, [job[j] EXCEPT !.status = IF @ = "queued" THEN "cancelled"
                                                ELSE "cancel_requested",
                                    !.cancel = TRUE, !.cancelSeen = FALSE])

(* The worker reports that it stopped for the directive.                   *)
AckApplied(j, n) ==
  /\ Authenticated(j, n)
  /\ OpenStop(job[j], n)
  /\ LET action == job[j].open.action
     IN Update(j, [job[j] EXCEPT !.lease[n] = action,
                                 !.status = IF action = "restart" THEN "queued" ELSE "cancelled",
                                 !.attempt[n] = Finished(job[j], n, "cancelled"),
                                 !.barred = @ \cup {n},
                                 !.open = NoDirective])

(* The protocol lets a worker refuse a directive.                          *)
AckFailed(j, n) ==
  /\ Authenticated(j, n)
  /\ job[j].open.action # "none" /\ job[j].open.lease = n
  /\ Update(j, [job[j] EXCEPT !.barred = BarredByClosing(job[j]), !.open = NoDirective])

----------------------------------------------------------------------------
(* Recovery *)

(* Mutants of Reconcilable: any attempt may be finished; a stop or restart *)
(* on record is ignored; a cancellation is.                                *)
ReconcilableAnyAttempt(r, n) ==
  /\ r.store[n] = "published" /\ ~r.output[n]
  /\ ~r.cancel
  /\ n \notin BarredByClosing(r)

ReconcilableStopped(r, n) ==
  /\ r.store[n] = "published" /\ ~r.output[n]
  /\ n = r.issued
  /\ ~r.cancel

ReconcilableCancelled(r, n) ==
  /\ r.store[n] = "published" /\ ~r.output[n]
  /\ n = r.issued
  /\ n \notin BarredByClosing(r)

(* The scan of reconcile_worker_publications finds the ledger says         *)
(* published while the lease has no output, and nothing forbids to finish. *)
Reconcilable(r, n) ==
  /\ r.store[n] = "published" /\ ~r.output[n]
  /\ n = r.issued
  /\ ~r.cancel
  /\ n \notin BarredByClosing(r)

(* Mutant of Reconcile: a job that was requeued meanwhile stays queued.    *)
ReconcileLeaseOnly(j, n) ==
  /\ server \in {"up", "reconciling"}
  /\ Reconcilable(job[j], n)
  /\ Update(j, Committed(job[j], n, Phase[j]))

Reconcile(j, n) ==
  /\ server \in {"up", "reconciling"}
  /\ Reconcilable(job[j], n)
  /\ Update(j, [Committed(job[j], n, Phase[j]) EXCEPT
                  !.status = IF @ \in {"indexed", "cancelled"} THEN @ ELSE "completed"])

(* An operator requeues a failed sequential unit.  The reconciliation that *)
(* comes first is Reconcile; an output it cannot read just then is skipped *)
(* and may be reconciled after this.                                       *)
RestartFailedUnit(j) ==
  LET r == job[j] IN
  /\ Serving
  /\ Phase[j] # "whole"
  /\ r.status = "failed"
  /\ r.issued # 0
  /\ \/ r.attempt[r.issued] = "lost"
     \/ Phase[j] = "finalize" /\ r.attempt[r.issued] = "failed"
  /\ \A n \in Attempts : r.lease[n] \notin ActiveStates \cup {"publication_pending"}
  /\ Update(j, [job[j] EXCEPT !.status = "queued", !.retries = 0, !.cancel = FALSE])

(* The control plane dies: what was in memory, and every file lock, goes.  *)
Crash ==
  /\ server # "down"
  /\ server' = "down"
  /\ job' = [j \in Jobs |-> [job[j] EXCEPT !.completing = [n \in Attempts |-> "idle"],
                                           !.looked = {}, !.cancelSeen = FALSE]]

Boot ==
  /\ server = "down"
  /\ server' = "expiring"
  /\ UNCHANGED job

(* reconcile_startup runs before the API serves: first every lapsed lease  *)
(* expires, then publications are reconciled one by one (Reconcile).       *)
StartupExpire ==
  /\ server = "expiring"
  /\ server' = "reconciling"
  /\ job' = AllExpired

Serve ==
  /\ server = "reconciling"
  /\ \A j \in Jobs, n \in Attempts : ~Reconcilable(job[j], n)
  /\ server' = "up"
  /\ UNCHANGED job

----------------------------------------------------------------------------
AttemptStep(j, n) ==
  \/ Lapse(j, n) \/ KeepAlive(j, n) \/ Acknowledge(j, n) \/ Upload(j, n)
  \/ BeginCompletion(j, n) \/ Decide(j, n) \/ Seal(j, n) \/ Move(j, n)
  \/ RecordPublished(j, n) \/ CommitCompletion(j, n) \/ AbortCompletion(j, n)
  \/ CompleteFailure(j, n)
  \/ \E label \in ReleaseLabels : Release(j, n, label)
  \/ CancelLease(j, n) \/ Defer(j, n) \/ Resume(j, n)
  \/ AckApplied(j, n) \/ AckFailed(j, n) \/ Reconcile(j, n)

OperatorStep(j) ==
  \/ LookUp(j)
  \/ \E look \in 0 .. MaxAttempts : Reject(j, look)
  \/ \E look \in 0 .. MaxAttempts, action \in Requests \cap DirectiveActions :
       \/ HoldPublication(j, look, action) \/ FencePublication(j, look, action)
       \/ ResumePaused(j, look) \/ DirectWaiting(j, look, action)
       \/ \E n \in Attempts : DirectLeased(j, n, look, action)
  \/ CancelLook(j) \/ Cancel(j) \/ RestartFailedUnit(j)

ServerStep == Crash \/ Boot \/ StartupExpire \/ Serve

Next ==
  \/ \E w \in Workers, j \in Jobs : Acquire(w, j)
  \/ \E j \in Jobs, n \in Attempts : AttemptStep(j, n)
  \/ \E j \in Jobs : OperatorStep(j) \/ Index(j)
  \/ Expire
  \/ ServerStep

Spec == Init /\ [][Next]_vars

----------------------------------------------------------------------------
TypeOK ==
  /\ job \in [Jobs -> JobRecord]
  /\ server \in {"up", "down", "expiring", "reconciling"}

(* Fencing: only the latest attempt of a job can be live, and while it is, *)
(* the job is held, so it can be neither offered to another worker nor     *)
(* resumed, restarted or reported as ended.  (Only 'active' rows are kept  *)
(* apart by an index; a deferred or paused publication is not.)            *)
FencedLease ==
  \A j \in Jobs, n \in Attempts :
    Live(job[j], n) => n = job[j].issued /\ job[j].status \in HeldStatuses

(* A held job other than one under cancellation has an owner: no end of a  *)
(* lease forgets its job.                                                  *)
HeldJobHasOwner ==
  \A j \in Jobs :
    job[j].status \in HeldStatuses \ {"cancel_requested"}
      => job[j].issued # 0 /\ Live(job[j], job[j].issued)

(* Output is committed by one attempt only, from a recorded publication,   *)
(* and a job is completed only with it.                                    *)
OneOutput ==
  \A j \in Jobs :
    /\ \A m, n \in Attempts : job[j].output[m] /\ job[j].output[n] => m = n
    /\ \A n \in Attempts : job[j].output[n] => job[j].store[n] = "published"
    /\ job[j].status \in {"completed", "indexed"} => \E n \in Attempts : job[j].output[n]

(* An attempt row is open exactly while its lease is live: every way a     *)
(* lease can end also closes the execution attempt, and nothing closes it  *)
(* earlier.                                                                *)
AttemptOpenIffLive ==
  \A j \in Jobs, n \in Attempts :
    job[j].attempt[n] \in OpenAttempts <=> Live(job[j], n)

(* A worker never owns two unexpired leases, whichever way it got them.    *)
OneLeasePerWorker ==
  \A i, j \in Jobs, m, n \in Attempts :
    /\ job[i].lease[m] \in ActiveStates /\ job[j].lease[n] \in ActiveStates
    /\ job[i].worker[m] = job[j].worker[n]
    => i = j /\ m = n

(* An attempt an operator stopped or restarted never commits output later, *)
(* neither from a completion that was under way nor from reconciliation.   *)
StoppedNeverCommits ==
  [][\A j \in Jobs, n \in Attempts :
       job[j].lease[n] \in FencedStates /\ ~job[j].output[n] => ~job'[j].output[n]]_vars

(* Committed output is permanent, and its job never runs again.            *)
OutputIsFinal ==
  [][\A j \in Jobs, n \in Attempts :
       job[j].output[n] => job'[j].output[n] /\ job'[j].issued = job[j].issued]_vars

(* The register of attempts the lease protocol implements.                 *)
Register ==
  [j \in Jobs |->
     [ issued  |-> job[j].issued,
       holders |-> {n \in Attempts : Live(job[j], n)},
       outputs |-> {n \in Attempts : job[j].output[n]} ]]

Abstract == INSTANCE AttemptRegister WITH register <- Register

(* Every history of leases is a history of that register: one holder at a  *)
(* time, the latest, and one commit, by the latest.                        *)
ImplementsRegister == Abstract!Spec
=============================================================================

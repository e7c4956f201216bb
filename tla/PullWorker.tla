----------------------------- MODULE PullWorker -----------------------------
(***************************************************************************)
(* The worker process, composed with the lease protocol it calls.  The     *)
(* loop first publishes any retained output, then polls; a lease is        *)
(* acknowledged, executed under a control thread, archived, uploaded and   *)
(* completed.  Output whose publication is not confirmed is kept on the    *)
(* worker's disk and taken up again with a fresh token.                    *)
(*                                                                         *)
(* WorkerLease leaves open which calls a worker makes; here one worker     *)
(* makes them, in its own order, and sees each fail in three ways: refused *)
(* by the control plane, unreachable while it is down, or lost, with or    *)
(* without its effect.  Materialization and execution are one phase, and   *)
(* telemetry is a call like any other: an event that cannot be delivered   *)
(* raises.  A dead worker process is started again by its deployment.      *)
(***************************************************************************)
EXTENDS WorkerLease

CONSTANTS
  Me,            \* the worker
  MaxFaults      \* bound: lost messages and crashes, of the worker or the server

ASSUME MeAssumption == Workers = {Me}
ASSUME WorkAssumption == Jobs # {} /\ MaxAttempts # 0
ASSUME MaxFaultsAssumption == MaxFaults \in Nat

VARIABLES
  worker,        \* the worker process: where it is, for which lease
  retained,      \* archives under scratch_root/recovery, by lease
  faults         \* faults so far

pullVars == <<job, server, worker, retained, faults>>

Places == { "polling", "leased", "executing", "executed", "uploading", "uploaded",
           "completing", "awaiting", "settled", "deferring", "failing",
           "cancelling", "interrupted" }
Halts == {"none", "cancel", "lost"} \cup Stops

WorkerRecord ==
  [ at : Places, job : Jobs, n : Attempts,
    recovering : BOOLEAN,        \* from retained output, without a control thread
    halt : Halts ]               \* WorkerControl.action once halt is set

(* Between leases; the last three fields say nothing then.                 *)
Idle ==
  [ at |-> "polling", job |-> CHOOSE j \in Jobs : TRUE, n |-> 1,
    recovering |-> FALSE, halt |-> "none" ]

PullInit ==
  /\ Init
  /\ worker = Idle
  /\ retained = {}
  /\ faults = 0

-----------------------------------------------------------------------------
(* A call to the control plane.                                            *)

To(step) == [worker EXCEPT !.at = step]

Lost == faults < MaxFaults /\ faults' = faults + 1

(* No answer, or an error: act is what the server does with the request,   *)
(* accepted whether it would.                                              *)
Fails(act, accepted) ==
  \/ act /\ Lost
  \/ UNCHANGED <<job, server>> /\ Lost
  \/ UNCHANGED <<job, server, faults>> /\ (~Serving \/ ~accepted)

Answered(act) == act /\ UNCHANGED faults

(* The lease the worker works on.                                          *)
J == worker.job
N == worker.n
Own == <<J, N>>

At(step) == worker.at = step
Halted == worker.halt # "none"

-----------------------------------------------------------------------------
(* The loop.                                                               *)

(* Mutant of Poll: retained output does not keep the worker from polling.  *)
PollPastRetained(j) ==
  /\ At("polling") /\ Acquire(Me, j)
  /\ worker' = [Idle EXCEPT !.at = "leased", !.job = j, !.n = job[j].issued + 1]
  /\ UNCHANGED <<retained, faults>>

Poll(j) ==
  LET n == job[j].issued + 1 IN
  /\ At("polling") /\ retained = {}
  /\ Acquire(Me, j)
  /\ \/ UNCHANGED faults
        /\ worker' = [at |-> "leased", job |-> j, n |-> n, recovering |-> FALSE,
                      halt |-> "none"]
     \/ Lost /\ UNCHANGED worker
  /\ UNCHANGED retained

(* Mutant of Recover: only the receipt of a finished output ends it.       *)
RecoverUntilReceipt ==
  \E own \in retained :
    LET at(step) == [Idle EXCEPT !.at = step, !.job = own[1], !.n = own[2],
                                 !.recovering = TRUE] IN
    /\ At("polling")
    /\ \/ Answered(Resume(own[1], own[2])) /\ worker' = at("uploading")
       \/ /\ Serving /\ Unlocked(own[1], own[2])
          /\ job[own[1]].lease[own[2]] = "completed"
          /\ UNCHANGED <<job, server, faults>> /\ worker' = at("settled")
    /\ UNCHANGED retained

(* Mutant of Recover: no fresh token is asked for.                         *)
RecoverWithoutToken ==
  /\ At("polling")
  /\ \E own \in retained :
       /\ job[own[1]].lease[own[2]] \in {"completed", "cancelled", "restart", "expired"}
       /\ worker' = [Idle EXCEPT !.at = "settled", !.job = own[1], !.n = own[2],
                                 !.recovering = TRUE]
  /\ Serving /\ UNCHANGED <<job, server, retained, faults>>

(* recover_retained_output: a fresh token, or the end of the lease.        *)
Recover ==
  \E own \in retained :
    LET j == own[1]
        n == own[2]
        at(step) == [at |-> step, job |-> j, n |-> n, recovering |-> TRUE,
                     halt |-> "none"] IN
    /\ At("polling")
    /\ \/ Answered(Resume(j, n)) /\ worker' = at("uploading")
       \/ Resume(j, n) /\ Lost /\ UNCHANGED worker
       \/ /\ Serving /\ Unlocked(j, n)
          /\ job[j].lease[n] \in {"completed", "cancelled", "restart", "expired"}
          /\ UNCHANGED <<job, server, faults>>
          /\ worker' = at("settled")
    /\ UNCHANGED retained

AcknowledgeLease ==
  /\ At("leased")
  /\ \/ Answered(Acknowledge(J, N)) /\ worker' = To("executing")
     \/ Fails(Acknowledge(J, N), Authenticated(J, N)) /\ worker' = To("failing")
  /\ UNCHANGED retained

-----------------------------------------------------------------------------
(* Execution and its control thread.                                       *)

(* The executor returns, raises, or is stopped by the control thread; an   *)
(* event around it is not delivered; a cancellation is seen between inputs.*)
Execute ==
  /\ At("executing")
  /\ \/ /\ UNCHANGED faults
        /\ \/ ~Halted /\ worker' = To("executed")
           \/ Authenticated(J, N) /\ job[J].cancel /\ worker' = To("cancelling")
           \/ Halted /\ worker' = To("interrupted")
           \/ worker' = To("failing")
     \/ Lost /\ worker' = To("failing")
  /\ UNCHANGED <<job, server, retained>>

(* Timing events, the cancellation check and control.check, before the     *)
(* archive is written and after it is uploaded.                            *)
Report(step, next) ==
  /\ At(step) /\ ~worker.recovering
  /\ \/ /\ UNCHANGED faults
        /\ \/ Authenticated(J, N) /\ job[J].cancel /\ step = "executed"
                /\ worker' = To("cancelling")
           \/ Halted /\ worker' = To("interrupted")
           \/ Authenticated(J, N) /\ ~Halted /\ worker' = To(next)
           \/ ~Authenticated(J, N) /\ worker' = To("failing")
     \/ Lost /\ worker' = To("failing")
  /\ UNCHANGED <<job, server, retained>>

Supervised ==
  ~worker.recovering /\ worker.at \in {"executing", "executed", "uploading", "uploaded"}

Interrupt(halt) ==
  /\ Supervised /\ worker.halt \notin {"stop_now", "cancel", "lost"}
  /\ worker' = [worker EXCEPT !.halt = halt]
  /\ UNCHANGED <<job, server, retained, faults>>

SeeCommand ==
  /\ Supervised /\ ~Halted /\ Authenticated(J, N) /\ OpenStop(job[J], N)
  /\ Interrupt(job[J].open.action)

SeeCancel == Supervised /\ Authenticated(J, N) /\ job[J].cancel /\ Interrupt("cancel")

LoseLease ==
  Supervised /\ job[J].lease[N] \notin {"active", "publication_pending"} /\ Interrupt("lost")

Heartbeat ==
  /\ Supervised /\ worker.halt # "lost"
  /\ KeepAlive(J, N)
  /\ UNCHANGED <<worker, retained, faults>>

(* The executor has stopped: its directive is applied, its cancellation    *)
(* acknowledged, and a lost lease has nothing to report to.                *)
ReportInterrupted ==
  LET act == IF worker.halt \in Stops THEN AckApplied(J, N) ELSE CancelLease(J, N)
      accepted == IF worker.halt \in Stops
                  THEN Authenticated(J, N) /\ job[J].open = [action |-> worker.halt, lease |-> N]
                  ELSE Authenticated(J, N) /\ job[J].cancel IN
  /\ At("interrupted")
  /\ \/ worker.halt # "lost" /\ accepted /\ Answered(act)
     \/ worker.halt # "lost" /\ Fails(accepted /\ act, accepted)
     \/ worker.halt = "lost" /\ UNCHANGED <<job, server, faults>>
  /\ worker' = Idle
  /\ UNCHANGED retained

ReportCancelled ==
  LET accepted == Authenticated(J, N) /\ job[J].cancel IN
  /\ At("cancelling")
  /\ \/ Answered(CancelLease(J, N)) /\ worker' = Idle
     \/ Fails(CancelLease(J, N), accepted) /\ worker' = To("failing")
  /\ UNCHANGED retained

(* complete(failed), best effort; scratch is removed either way.           *)
ReportFailure ==
  /\ At("failing")
  /\ \/ Answered(CompleteFailure(J, N))
     \/ Fails(CompleteFailure(J, N), Authenticated(J, N) /\ job[J].store[N] # "none")
  /\ worker' = Idle
  /\ UNCHANGED retained

-----------------------------------------------------------------------------
(* Publication.                                                            *)

(* The archive stays: moved below recovery/, or not removed from there.    *)
Retain ==
  /\ retained' = retained \cup {Own}
  /\ worker' = IF worker.recovering THEN Idle ELSE To("deferring")

UploadOnce(j, n) ==
  \/ Upload(j, n)
  \/ Authenticated(j, n) /\ job[j].archive[n] /\ UNCHANGED <<job, server>>

(* Mutant of UploadArchive: remove_on_success is left at its default.      *)
UploadThenRemove ==
  /\ At("uploading")
  /\ Answered(UploadOnce(J, N))
  /\ worker' = To(IF worker.recovering THEN "completing" ELSE "uploaded")
  /\ retained' = retained \ {Own}

UploadArchive ==
  /\ At("uploading")
  /\ \/ /\ ~Halted /\ Answered(UploadOnce(J, N))
        /\ worker' = To(IF worker.recovering THEN "completing" ELSE "uploaded")
        /\ UNCHANGED retained
     \/ ~Halted /\ Fails(UploadOnce(J, N), Authenticated(J, N)) /\ Retain
     \/ Halted /\ worker' = To("interrupted") /\ UNCHANGED <<job, server, retained, faults>>

(* An answer 400, 401, 403, 404, 409 or 422.                               *)
Refused ==
  /\ worker' = IF worker.recovering THEN Idle ELSE To("failing")
  /\ UNCHANGED <<job, server, retained, faults>>

Completed == job[J].lease[N] = "completed"
Completable ==
  /\ Authenticated(J, N) /\ ~job[J].cancel /\ ~OpenStop(job[J], N)

Complete ==
  /\ At("completing")
  /\ \/ BeginCompletion(J, N) /\ worker' = To("awaiting") /\ UNCHANGED <<retained, faults>>
     \/ /\ Serving /\ Completed
        /\ worker' = To("settled") /\ UNCHANGED <<job, server, retained, faults>>
     \/ Serving /\ Unlocked(J, N) /\ ~Completed /\ ~Completable /\ Refused
     \/ /\ Lost \/ (~Serving /\ UNCHANGED faults)
        /\ Retain /\ UNCHANGED <<job, server>>

(* Mutant of AwaitReceipt: any answer is taken for the receipt.            *)
TrustAnswer ==
  /\ At("awaiting") /\ Serving /\ Unlocked(J, N)
  /\ worker' = To("settled")
  /\ UNCHANGED <<job, server, retained, faults>>

(* The request has left the completion section, answered or not.           *)
AwaitReceipt ==
  /\ At("awaiting")
  /\ \/ /\ Serving /\ Unlocked(J, N) /\ Completed
        /\ worker' = To("settled") /\ UNCHANGED <<job, server, retained, faults>>
     \/ Serving /\ Unlocked(J, N) /\ ~Completed /\ Refused
     \/ /\ Unlocked(J, N) /\ ~(Serving /\ Completed)
        /\ Retain /\ UNCHANGED <<job, server, faults>>
     \/ Retain /\ UNCHANGED <<job, server>> /\ Lost

(* Scratch or the retained directory is removed.                           *)
Settle ==
  /\ At("settled")
  /\ retained' = retained \ {Own}
  /\ worker' = Idle
  /\ UNCHANGED <<job, server, faults>>

DeferPublication ==
  /\ At("deferring")
  /\ Answered(Defer(J, N)) \/ Fails(Defer(J, N), Authenticated(J, N))
  /\ worker' = Idle
  /\ UNCHANGED retained

(* The process dies: what it knew is gone, scratch is not looked at again, *)
(* and recovery/ is.                                                       *)
WorkerDies ==
  /\ ~At("polling") /\ Lost
  /\ worker' = Idle
  /\ UNCHANGED <<job, server, retained>>

-----------------------------------------------------------------------------
WorkerStep ==
  \/ \E j \in Jobs : Poll(j)
  \/ Recover \/ AcknowledgeLease \/ Execute
  \/ Report("executed", "uploading") \/ Report("uploaded", "completing")
  \/ ReportInterrupted \/ ReportCancelled \/ ReportFailure
  \/ UploadArchive \/ Complete \/ AwaitReceipt \/ Settle \/ DeferPublication

ControlStep == SeeCommand \/ SeeCancel \/ LoseLease \/ Heartbeat

Reclaim == Expire \/ \E j \in Jobs, n \in Attempts : Reconcile(j, n)

CompletionReturns(j, n) ==
  \/ Decide(j, n) \/ Seal(j, n) \/ Move(j, n) \/ RecordPublished(j, n)
  \/ CommitCompletion(j, n) \/ AbortCompletion(j, n)

StartupReconcile ==
  server = "reconciling" /\ \E j \in Jobs, n \in Attempts : Reconcile(j, n)

ServerSide ==
  \/ \E j \in Jobs, n \in Attempts : Lapse(j, n) \/ CompletionReturns(j, n)
  \/ \E j \in Jobs : OperatorStep(j) \/ Index(j)
  \/ Reclaim
  \/ Boot \/ StartupExpire \/ Serve

PullNext ==
  \/ WorkerStep \/ ControlStep \/ WorkerDies
  \/ ServerSide /\ UNCHANGED <<worker, retained, faults>>
  \/ Crash /\ Lost /\ UNCHANGED <<worker, retained>>

PullSpec == PullInit /\ [][PullNext]_pullVars

(* The worker makes its next step while it can, its executor ends, and a   *)
(* lease that nobody renews lapses; the control plane runs its periodic    *)
(* passes and comes back after a crash.  Nobody has to ask for anything.   *)
LapseUnattended ==
  \E j \in Jobs, n \in Attempts :
    ~(Supervised /\ Own = <<j, n>>) /\ Lapse(j, n) /\ UNCHANGED <<worker, retained, faults>>

PullFairness ==
  /\ SF_pullVars(WorkerStep)
  /\ SF_pullVars(LapseUnattended)
  /\ SF_pullVars(Expire /\ UNCHANGED <<worker, retained, faults>>)
  /\ WF_pullVars((Boot \/ StartupExpire \/ Serve) /\ UNCHANGED <<worker, retained, faults>>)
  /\ SF_pullVars(StartupReconcile /\ UNCHANGED <<worker, retained, faults>>)
  /\ \A j \in Jobs, n \in Attempts :
       WF_pullVars(CompletionReturns(j, n) /\ UNCHANGED <<worker, retained, faults>>)

PullFairSpec == PullSpec /\ PullFairness

-----------------------------------------------------------------------------
(* Types, and "never accept another lease while prior output awaits        *)
(* publication" (run): across crashes, lost answers and recoveries at most *)
(* one archive is retained, and a worker that executes has none.           *)
PullTypeOK ==
  /\ worker \in WorkerRecord
  /\ retained \subseteq Jobs \X Attempts
  /\ faults \in 0 .. MaxFaults
  /\ Cardinality(retained) <= 1
  /\ Supervised => retained = {}

(* What the worker takes for the end of an attempt is its end on the       *)
(* control plane: it removes a finished output only if that output is      *)
(* recorded, or its lease is fenced for good.                              *)
SettledIsFinal ==
  At("settled") =>
    \/ job[J].output[N]
    \/ worker.recovering /\ job[J].lease[N] \in {"cancelled", "restart", "expired"}

(* Retained output leaves the worker only when it is published or its      *)
(* lease can no longer publish it, whenever worker or server die.          *)
NothingDropped ==
  [][\A own \in retained \ retained' :
       LET r == job[own[1]] IN
       r.output[own[2]] \/ ~Live(r, own[2])]_pullVars

(* A worker is not blocked by retained output for ever: every archive is   *)
(* published or given up, after which it polls again.                      *)
RetainedSettles ==
  \A j \in Jobs, n \in Attempts : <<j, n>> \in retained ~> <<j, n>> \notin retained

(* A decided publication that failed, whose archive died with its worker.  *)
Stranded(j) ==
  \E n \in Attempts :
    /\ job[j].lease[n] = "publication_pending"
    /\ Unlocked(j, n) /\ <<j, n>> \notin retained

(* Every job offered to the pool ends, with the calls this worker really   *)
(* makes in place of the fairness WorkerLease assumes of them, unless its  *)
(* publication is stranded.                                                *)
WorkerSettlesJobs ==
  \A j \in Jobs :
    (job[j].status = "queued") ~> (job[j].status \in TerminalStatuses \/ Stranded(j))

(* "If execution succeeds but publication cannot complete, the worker      *)
(* retains a private recovery directory [...]  The job must not be rerun   *)
(* solely for this condition" (docs/oracle-worker.md): without any request *)
(* of an operator, and while its lease lives, finished work is not given   *)
(* up as a failed execution.                                               *)
FinishedWorkIsKept ==
  [][worker.at \in {"executed", "uploading", "uploaded"} /\ Live(job[J], N)
       => worker'.at # "failing"]_pullVars
=============================================================================

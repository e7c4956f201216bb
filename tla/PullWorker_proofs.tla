-------------------------- MODULE PullWorker_proofs --------------------------
(***************************************************************************)
(* The worker process over the lease protocol, for any number of jobs,     *)
(* attempts, retries and faults: its calls are steps of WorkerLease, and   *)
(* what it keeps on its disk leaves only when it is published or fenced.   *)
(*                                                                         *)
(* The lease side: a step moves a lease that is live, or issues one, or    *)
(* commits output (LeasesMove); so an ended lease stays as it ended.  The  *)
(* worker side: one lemma says which of a few changes of the worker and    *)
(* its disk a step makes (WorkerMove), and the invariant is proved of each.*)
(***************************************************************************)
EXTENDS PullWorker, WorkerLease_proofs, FiniteSetTheorems

(* What the worker reads as a receipt stands for output: it never releases *)
(* a lease under the label "completed".                                    *)
ReceiptHasOutput ==
  \A j \in Jobs, n \in Attempts : job[j].lease[n] = "completed" => job[j].output[n]

(* The one retained archive waits, or is that of the lease at work.        *)
RetainedIsOwn ==
  \/ retained = {}
  \/ \E own \in Jobs \X Attempts :
       /\ retained = {own}
       /\ At("polling") \/ (own = Own /\ (worker.recovering \/ At("deferring")))

WorkerTypes ==
  worker \in WorkerRecord /\ retained \subseteq Jobs \X Attempts /\ faults \in 0 .. MaxFaults

PullIInv ==
  IInv /\ WorkerTypes /\ ReceiptHasOutput /\ RetainedIsOwn /\ SettledIsFinal

----------------------------------------------------------------------------
(* The lease side *)

(* A lease stays as it is, moves while it is live or not issued, or        *)
(* commits.                                                                *)
Moves(r, s) ==
  \A n \in Attempts :
    \/ s.lease[n] = r.lease[n]
    \/ r.lease[n] \in LiveStates \cup {"none"} /\ s.lease[n] # "completed"
    \/ s.output[n]

LeasesMove == \A i \in Jobs : Moves(job[i], job'[i])

LEMMA MovesOne ==
  ASSUME IInv, NEW j \in Jobs, NEW s, Update(j, s), Moves(job[j], s)
  PROVE  LeasesMove
BY DEF IInv, TypeOK, Update, Moves, LeasesMove

LEMMA SameLease ==
  ASSUME IInv, NEW j \in Jobs, NEW s, Update(j, s), s.lease = job[j].lease
  PROVE  LeasesMove
BY MovesOne DEF Moves

LEMMA OneLease ==
  ASSUME IInv, NEW j \in Jobs, NEW s, Update(j, s), NEW n \in Attempts, Live(job[j], n),
         s.lease[n] # "completed",
         \A m \in Attempts : m # n => s.lease[m] = job[j].lease[m]
  PROVE  LeasesMove
<1>1. Moves(job[j], s)
  BY DEF Moves, Live
<1> QED
  BY <1>1, MovesOne

(* The calls the worker and the control plane make on an attempt: all of   *)
(* WorkerLease except the release.                                         *)
Called(j, n) ==
  \/ Lapse(j, n) \/ KeepAlive(j, n) \/ Acknowledge(j, n) \/ Upload(j, n)
  \/ BeginCompletion(j, n) \/ CompletionReturns(j, n) \/ CompleteFailure(j, n)
  \/ CancelLease(j, n) \/ Defer(j, n) \/ Resume(j, n) \/ AckApplied(j, n)
  \/ Reconcile(j, n)

LeaseSide ==
  \/ \E j \in Jobs : Acquire(Me, j)
  \/ \E j \in Jobs, n \in Attempts : Called(j, n)
  \/ \E j \in Jobs : OperatorStep(j) \/ Index(j)
  \/ Expire \/ ServerStep

LEMMA LeaseSideIsStep ==
  ASSUME LeaseSide
  PROVE  Next
<1>1. Me \in Workers
  BY MeAssumption
<1>2. ASSUME NEW j \in Jobs, NEW n \in Attempts, Called(j, n)
      PROVE  AttemptStep(j, n)
  BY <1>2 DEF Called, CompletionReturns, AttemptStep
<1> QED
  BY <1>1, <1>2 DEF LeaseSide, Next

LEMMA CalledMoves ==
  ASSUME IInv, NEW j \in Jobs, NEW n \in Attempts, Called(j, n)
  PROVE  LeasesMove
<1> DEFINE r == job[j]
<1>0. r \in JobRecord /\ job \in [Jobs -> JobRecord]
  BY DEF IInv, TypeOK
<1>1. CASE Lapse(j, n)
  BY <1>0, <1>1, OneLease DEF Lapse, JobRecord, Live, LiveStates, ActiveStates
<1>2. CASE KeepAlive(j, n)
  BY <1>0, <1>2, OneLease DEF KeepAlive, JobRecord, Live, LiveStates, ActiveStates
<1>3. CASE Acknowledge(j, n)
  BY <1>0, <1>3, SameLease DEF Acknowledge, JobRecord
<1>4. CASE Upload(j, n)
  BY <1>0, <1>4, SameLease DEF Upload, JobRecord
<1>5. CASE BeginCompletion(j, n)
  BY <1>0, <1>5, SameLease DEF BeginCompletion, JobRecord
<1>6. CASE Decide(j, n)
  <2> DEFINE s == [r EXCEPT !.completing[n] = "decided",
                            !.lease[n] = "publication_pending",
                            !.status = "publication_pending"]
  <2>1. Update(j, s) /\ Live(r, n)
    BY <1>6 DEF Decide, Live, LiveStates, ActiveStates, Authenticated
  <2>2. s.lease[n] # "completed" /\ \A m \in Attempts : m # n => s.lease[m] = r.lease[m]
    BY <1>0 DEF JobRecord
  <2> HIDE DEF s
  <2> QED
    BY <2>1, <2>2, OneLease
<1>7. CASE Seal(j, n) \/ Move(j, n) \/ RecordPublished(j, n)
  BY <1>0, <1>7, SameLease DEF Seal, Move, RecordPublished, StoreStep, JobRecord
<1>8. CASE AbortCompletion(j, n)
  BY <1>0, <1>8, SameLease DEF AbortCompletion, JobRecord
<1>9. CASE CompleteFailure(j, n)
  <2> DEFINE s == [r EXCEPT !.lease[n] = "failed", !.status = "failed",
                            !.attempt[n] = Finished(r, n, "failed")]
  <2>1. Update(j, s) /\ Live(r, n)
    BY <1>9 DEF CompleteFailure, Live, LiveStates, ActiveStates, Authenticated
  <2>2. s.lease[n] # "completed" /\ \A m \in Attempts : m # n => s.lease[m] = r.lease[m]
    BY <1>0 DEF JobRecord
  <2> HIDE DEF s
  <2> QED
    BY <2>1, <2>2, OneLease
<1>10. CASE CancelLease(j, n)
  <2> DEFINE applied == r.open = [action |-> "stop_now", lease |-> n]
             s == [r EXCEPT !.lease[n] = "cancelled", !.status = "cancelled",
                            !.attempt[n] = Finished(r, n, "cancelled"),
                            !.barred = IF applied THEN @ \cup {n} ELSE @,
                            !.open = IF applied THEN NoDirective ELSE @]
  <2>1. Update(j, s) /\ Live(r, n)
    BY <1>10 DEF CancelLease, Live, LiveStates, ActiveStates, Authenticated
  <2>2. s.lease[n] # "completed" /\ \A m \in Attempts : m # n => s.lease[m] = r.lease[m]
    BY <1>0 DEF JobRecord
  <2> HIDE DEF s
  <2> QED
    BY <2>1, <2>2, OneLease
<1>11. CASE Defer(j, n)
  <2> DEFINE s == [r EXCEPT !.lease[n] = "publication_pending",
                            !.status = "publication_pending"]
  <2>1. Update(j, s) /\ Live(r, n)
    BY <1>11 DEF Defer, Live, LiveStates, ActiveStates, Authenticated
  <2>2. s.lease[n] # "completed" /\ \A m \in Attempts : m # n => s.lease[m] = r.lease[m]
    BY <1>0 DEF JobRecord
  <2> HIDE DEF s
  <2> QED
    BY <2>1, <2>2, OneLease
<1>12. CASE Resume(j, n)
  <2> DEFINE s == [r EXCEPT !.lease[n] = "active", !.status = "publishing"]
  <2>1. Update(j, s) /\ Live(r, n)
    BY <1>12 DEF Resume, Live, LiveStates, ActiveStates, Authenticated
  <2>2. s.lease[n] # "completed" /\ \A m \in Attempts : m # n => s.lease[m] = r.lease[m]
    BY <1>0 DEF JobRecord
  <2> HIDE DEF s
  <2> QED
    BY <2>1, <2>2, OneLease
<1>13. CASE AckApplied(j, n)
  <2> DEFINE action == r.open.action
             s == [r EXCEPT !.lease[n] = action,
                            !.status = IF action = "restart" THEN "queued" ELSE "cancelled",
                            !.attempt[n] = Finished(r, n, "cancelled"),
                            !.barred = @ \cup {n},
                            !.open = NoDirective]
  <2>1. Update(j, s) /\ Live(r, n)
    BY <1>13 DEF AckApplied, Live, LiveStates, ActiveStates, Authenticated
  <2>2. s.lease[n] # "completed" /\ \A m \in Attempts : m # n => s.lease[m] = r.lease[m]
    BY <1>0, <1>13 DEF AckApplied, OpenStop, Stops, JobRecord
  <2> HIDE DEF s
  <2> QED
    BY <2>1, <2>2, OneLease
<1>14. CASE CommitCompletion(j, n) \/ Reconcile(j, n)
  <2>1. ASSUME NEW s, Update(j, s), s.output[n],
               s.lease = [r.lease EXCEPT ![n] = "completed"]
        PROVE  LeasesMove
    <3>1. Moves(r, s)
      BY <1>0, <2>1 DEF Moves, JobRecord
    <3> QED
      BY <2>1, <3>1, MovesOne
  <2>2. CASE Update(j, [r EXCEPT !.completing[n] = "idle"])
    BY <1>0, <2>2, SameLease DEF JobRecord
  <2>3. CASE Update(j, [Committed(r, n, Phase[j]) EXCEPT
                          !.status = "completed", !.completing[n] = "idle"])
    BY <1>0, <2>1, <2>3 DEF Committed, JobRecord
  <2>4. CASE Reconcile(j, n)
    BY <1>0, <2>1, <2>4 DEF Reconcile, Committed, JobRecord
  <2> QED
    BY <1>14, <2>2, <2>3, <2>4 DEF CommitCompletion
<1> QED
  BY <1>1, <1>2, <1>3, <1>4, <1>5, <1>6, <1>7, <1>8, <1>9, <1>10, <1>11, <1>12, <1>13, <1>14
     DEF Called, CompletionReturns

LEMMA OperatorMoves ==
  ASSUME IInv, NEW j \in Jobs, OperatorStep(j)
  PROVE  LeasesMove
<1>0. job[j] \in JobRecord
  BY DEF IInv, TypeOK
<1>1. CASE LookUp(j)
  BY <1>0, <1>1, SameLease DEF LookUp, JobRecord
<1>2. CASE \E look \in 0 .. MaxAttempts : Reject(j, look)
  BY <1>0, <1>2, SameLease DEF Reject, JobRecord
<1>3. ASSUME NEW look, NEW action, HoldPublication(j, look, action)
      PROVE  LeasesMove
  <2> DEFINE n == PublicationLease(job[j])
             held == IF action = "pause" THEN "publication_paused" ELSE "publication_pending"
  <2>1. n \in Attempts /\ Live(job[j], n)
    BY <1>3, PublicationLeaseIsLive DEF HoldPublication, IInv
  <2>2. held # "completed"
    OBVIOUS
  <2> DEFINE s == [job[j] EXCEPT !.lease[n] = held, !.status = held, !.cancel = FALSE,
                                 !.looked = @ \ {look}]
  <2>3. Update(j, s)
    BY <1>3 DEF HoldPublication
  <2> HIDE DEF n, held
  <2>4. s.lease[n] # "completed" /\ \A m \in Attempts : m # n => s.lease[m] = job[j].lease[m]
    BY <1>0, <2>1, <2>2 DEF JobRecord
  <2> HIDE DEF s
  <2> QED
    BY <2>1, <2>3, <2>4, OneLease
<1>4. ASSUME NEW look, NEW action, FencePublication(j, look, action)
      PROVE  LeasesMove
  <2> DEFINE n == PublicationLease(job[j])
             again == action = "restart"
             state == IF again THEN "restart" ELSE "cancelled"
             status == IF again THEN "queued" ELSE "cancelled"
  <2>1. n \in Attempts /\ Live(job[j], n)
    BY <1>4, PublicationLeaseIsLive DEF FencePublication, IInv
  <2>2. state # "completed"
    OBVIOUS
  <2> DEFINE s == [job[j] EXCEPT !.lease[n] = state, !.status = status, !.cancel = ~again,
                                 !.attempt[n] = Finished(job[j], n, "cancelled"),
                                 !.open = NoDirective, !.barred = @ \cup {n},
                                 !.looked = @ \ {look}]
  <2>3. Update(j, s)
    BY <1>4 DEF FencePublication
  <2> HIDE DEF n, state, status
  <2>4. s.lease[n] # "completed" /\ \A m \in Attempts : m # n => s.lease[m] = job[j].lease[m]
    BY <1>0, <2>1, <2>2 DEF JobRecord
  <2> HIDE DEF s
  <2> QED
    BY <2>1, <2>3, <2>4, OneLease
<1>5. ASSUME NEW look, ResumePaused(j, look)
      PROVE  LeasesMove
  BY <1>0, <1>5, SameLease DEF ResumePaused, JobRecord
<1>6. ASSUME NEW look, NEW action, DirectWaiting(j, look, action)
      PROVE  LeasesMove
  BY <1>0, <1>6, SameLease DEF DirectWaiting, JobRecord
<1>7. ASSUME NEW look, NEW action, NEW n \in Attempts, DirectLeased(j, n, look, action)
      PROVE  LeasesMove
  BY <1>0, <1>7, SameLease DEF DirectLeased, JobRecord
<1>8. CASE CancelLook(j)
  BY <1>0, <1>8, SameLease DEF CancelLook, JobRecord
<1>9. CASE Cancel(j)
  <2>1. CASE Update(j, [job[j] EXCEPT !.cancelSeen = FALSE])
    BY <1>0, <2>1, SameLease DEF JobRecord
  <2>2. CASE Update(j, [job[j] EXCEPT !.status = IF @ = "queued" THEN "cancelled"
                                                  ELSE "cancel_requested",
                                      !.cancel = TRUE, !.cancelSeen = FALSE])
    BY <1>0, <2>2, SameLease DEF JobRecord
  <2> QED
    BY <1>9, <2>1, <2>2 DEF Cancel
<1>10. CASE RestartFailedUnit(j)
  BY <1>0, <1>10, SameLease DEF RestartFailedUnit, JobRecord
<1> QED
  BY <1>1, <1>2, <1>3, <1>4, <1>5, <1>6, <1>7, <1>8, <1>9, <1>10 DEF OperatorStep

LEMMA ExpiryMoves ==
  ASSUME IInv, NEW i \in Jobs
  PROVE  /\ Moves(job[i], AllExpired[i])
         /\ AllExpired[i].issued = job[i].issued
<1>1. job[i] \in JobRecord
  BY DEF IInv, TypeOK
<1>0. /\ DOMAIN RetryOrFail(job[i]) = DOMAIN job[i]
      /\ RetryOrFail(job[i]).issued = job[i].issued
  BY <1>1 DEF RetryOrFail, JobRecord
<1>2. Moves(job[i], Expired(job[i]))
  <2>1. CASE Expired(job[i]) = job[i]
    BY <2>1 DEF Moves
  <2>2. CASE Expired(job[i]) # job[i]
    <3> DEFINE lapsed(n) == job[i].lease[n] = "lapsed"
    <3>1. Expired(job[i]).lease = [n \in Attempts |-> IF lapsed(n) THEN "expired" ELSE job[i].lease[n]]
      BY <1>0, <1>1, <2>2 DEF Expired, JobRecord
    <3> QED
      BY <3>1 DEF Moves, LiveStates, ActiveStates
  <2> QED
    BY <2>1, <2>2
<1>3. Expired(job[i]).issued = job[i].issued
  BY <1>0, <1>1 DEF Expired, JobRecord
<1> QED
  BY <1>2, <1>3 DEF AllExpired

LEMMA AcquireMoves ==
  ASSUME IInv, NEW j \in Jobs, Acquire(Me, j)
  PROVE  LeasesMove
<1>1. AllExpired \in [Jobs -> JobRecord]
  BY AllExpiredSteps
<1> DEFINE r == AllExpired[j]
           n == r.issued + 1
           s == [r EXCEPT !.status = "leased", !.issued = n, !.lease[n] = "active",
                          !.worker[n] = Me, !.attempt[n] = "leased"]
<1>2. job' = [AllExpired EXCEPT ![j] = s] /\ r.issued < MaxAttempts
  BY DEF Acquire
<1>3. n \in Attempts /\ n > job[j].issued
  BY <1>1, <1>2, ExpiryMoves, MaxAttemptsAssumption DEF JobRecord, Attempts
<1>4. job[j].lease[n] = "none"
  BY <1>3 DEF IInv, JobInv, Unissued
<1>5. s.lease = [r.lease EXCEPT ![n] = "active"] /\ s.output = r.output
  BY <1>1 DEF JobRecord
<1> HIDE DEF n, s
<1>6. Moves(job[j], s)
  BY <1>1, <1>3, <1>4, <1>5, ExpiryMoves DEF Moves, JobRecord
<1> QED
  BY <1>1, <1>2, <1>6, ExpiryMoves DEF LeasesMove

LEMMA ServerMoves ==
  ASSUME IInv, Expire \/ ServerStep
  PROVE  LeasesMove
<1>1. CASE Expire \/ StartupExpire
  BY <1>1, ExpiryMoves DEF Expire, StartupExpire, LeasesMove
<1>2. CASE Crash
  <2>1. \A j \in Jobs : job[j] \in JobRecord
    BY DEF IInv, TypeOK
  <2> QED
    BY <1>2, <2>1 DEF Crash, LeasesMove, Moves, JobRecord
<1>3. CASE Boot \/ Serve
  BY <1>3 DEF Boot, Serve, LeasesMove, Moves
<1> QED
  BY <1>1, <1>2, <1>3 DEF ServerStep

LEMMA LeaseSideMoves ==
  ASSUME IInv, LeaseSide \/ UNCHANGED vars
  PROVE  Steps /\ LeasesMove
<1>1. Steps
  BY LeaseSideIsStep, NextSteps
<1>2. CASE UNCHANGED vars
  <2>1. job' = job
    BY <1>2 DEF vars
  <2> QED
    BY <1>1, <2>1 DEF LeasesMove, Moves
<1>3. CASE LeaseSide
  <2>1. ASSUME NEW j \in Jobs, Index(j)
        PROVE  LeasesMove
    BY <2>1, SameLease DEF Index, IInv, TypeOK, JobRecord
  <2>2. CASE \E j \in Jobs, n \in Attempts : Called(j, n)
    BY <1>1, <2>2, CalledMoves
  <2>3. CASE \E j \in Jobs : OperatorStep(j) \/ Index(j)
    BY <1>1, <2>1, <2>3, OperatorMoves
  <2>4. CASE (\E j \in Jobs : Acquire(Me, j)) \/ Expire \/ ServerStep
    BY <1>1, <2>4, AcquireMoves, ServerMoves
  <2> QED
    BY <1>3, <2>2, <2>3, <2>4 DEF LeaseSide
<1> QED
  BY <1>1, <1>2, <1>3

(* An ended lease stays as it ended, unless its output is committed.       *)
LEMMA EndedStays ==
  ASSUME Steps, LeasesMove, NEW j \in Jobs, NEW n \in Attempts
  PROVE  /\ job[j].output[n] => job'[j].output[n]
         /\ job[j].lease[n] \in {"cancelled", "restart", "expired"} =>
              job'[j].lease[n] = job[j].lease[n] \/ job'[j].output[n]
BY OutputKept DEF LeasesMove, Moves, LiveStates, ActiveStates

LEMMA ReceiptsKept ==
  ASSUME Steps, LeasesMove, ReceiptHasOutput
  PROVE  ReceiptHasOutput'
BY OutputKept DEF LeasesMove, Moves, ReceiptHasOutput

----------------------------------------------------------------------------
(* The worker side: what a step does to the worker and its disk.           *)

Stays == UNCHANGED <<worker, retained>>

GoesIdle == worker' = Idle /\ UNCHANGED retained

Takes ==
  /\ At("polling") /\ retained = {}
  /\ \E j \in Jobs, n \in Attempts :
       worker' = [at |-> "leased", job |-> j, n |-> n, recovering |-> FALSE, halt |-> "none"]
  /\ UNCHANGED retained

Recovers ==
  /\ At("polling")
  /\ \E own \in retained, step \in {"uploading", "settled"} :
       /\ worker' = [at |-> step, job |-> own[1], n |-> own[2], recovering |-> TRUE,
                     halt |-> "none"]
       /\ step = "settled" =>
            /\ UNCHANGED job
            /\ job[own[1]].lease[own[2]] \in {"completed", "cancelled", "restart", "expired"}
  /\ UNCHANGED retained

MovesOn ==
  /\ worker.at \notin {"polling", "deferring"}
  /\ \E step \in Places \ {"polling", "deferring", "settled"} : worker' = To(step)
  /\ UNCHANGED retained

Settles ==
  /\ worker.at \notin {"polling", "deferring"}
  /\ Completed /\ worker' = To("settled") /\ UNCHANGED <<job, retained>>

Halting ==
  /\ Supervised
  /\ \E halt \in Halts : worker' = [worker EXCEPT !.halt = halt]
  /\ UNCHANGED retained

Retaining == worker.at \notin {"polling", "deferring"} /\ Retain

Removes == At("settled") /\ worker' = Idle /\ retained' = retained \ {Own}

WorkerMove ==
  \/ Stays \/ GoesIdle \/ Takes \/ Recovers \/ MovesOn \/ Settles \/ Halting
  \/ Retaining \/ Removes

LEMMA OwnType ==
  ASSUME WorkerTypes
  PROVE  J \in Jobs /\ N \in Attempts /\ Own \in Jobs \X Attempts
BY DEF WorkerTypes, WorkerRecord, J, N, Own

LEMMA IdleType == Idle \in WorkerRecord /\ Idle.at = "polling"
<1>1. (CHOOSE j \in Jobs : TRUE) \in Jobs
  BY WorkAssumption
<1>2. 1 \in Attempts
  BY WorkAssumption, MaxAttemptsAssumption DEF Attempts
<1> QED
  BY <1>1, <1>2 DEF Idle, WorkerRecord, Places, Halts

(* What a step of the composed system is on either side.                   *)
Splits ==
  /\ LeaseSide \/ UNCHANGED vars
  /\ WorkerMove
  /\ Lost \/ UNCHANGED faults

LEMMA PollSplits ==
  ASSUME IInv, WorkerTypes, NEW j \in Jobs, Poll(j)
  PROVE  Splits
<1>1. AllExpired[j].issued = job[j].issued
  BY ExpiryMoves
<1>2. job[j].issued + 1 \in Attempts
  BY <1>1, MaxAttemptsAssumption DEF Poll, Acquire, IInv, TypeOK, JobRecord, Attempts
<1>3. WorkerMove
  BY <1>2 DEF Poll, WorkerMove, Stays, Takes
<1>4. LeaseSide /\ (Lost \/ UNCHANGED faults)
  BY DEF Poll, LeaseSide
<1> QED
  BY <1>3, <1>4 DEF Splits

LEMMA RecoverSplits ==
  ASSUME WorkerTypes, Recover
  PROVE  Splits
<1>1. PICK own \in retained :
        /\ At("polling")
        /\ \/ /\ Resume(own[1], own[2]) /\ UNCHANGED faults
              /\ worker' = [at |-> "uploading", job |-> own[1], n |-> own[2],
                            recovering |-> TRUE, halt |-> "none"]
           \/ Resume(own[1], own[2]) /\ Lost /\ UNCHANGED worker
           \/ /\ job[own[1]].lease[own[2]] \in {"completed", "cancelled", "restart", "expired"}
              /\ UNCHANGED <<job, server, faults>>
              /\ worker' = [at |-> "settled", job |-> own[1], n |-> own[2],
                            recovering |-> TRUE, halt |-> "none"]
        /\ UNCHANGED retained
  BY DEF Recover, Answered
<1>2. own[1] \in Jobs /\ own[2] \in Attempts
  BY DEF WorkerTypes
<1>3. Resume(own[1], own[2]) => LeaseSide
  BY <1>2 DEF LeaseSide, Called
<1>4. LeaseSide \/ UNCHANGED vars
  BY <1>1, <1>3 DEF vars
<1>5. Stays \/ Recovers
  BY <1>1 DEF Stays, Recovers
<1> QED
  BY <1>1, <1>4, <1>5 DEF Splits, WorkerMove

LEMMA OwnCall ==
  ASSUME WorkerTypes, Called(J, N)
  PROVE  LeaseSide
BY OwnType DEF LeaseSide

LEMMA CallSplits ==
  ASSUME WorkerTypes,
         \/ AcknowledgeLease \/ ReportInterrupted \/ ReportCancelled \/ ReportFailure
         \/ DeferPublication
  PROVE  Splits
<1> USE DEF Fails, Answered, vars
<1>1. CASE AcknowledgeLease
  <2>1. Acknowledge(J, N) \/ UNCHANGED vars
    BY <1>1 DEF AcknowledgeLease
  <2>2. MovesOn /\ (Lost \/ UNCHANGED faults)
    BY <1>1 DEF AcknowledgeLease, MovesOn, At, Places
  <2> QED
    BY <2>1, <2>2, OwnCall DEF Splits, WorkerMove, Called
<1>2. CASE ReportInterrupted
  <2>1. AckApplied(J, N) \/ CancelLease(J, N) \/ UNCHANGED vars
    BY <1>2 DEF ReportInterrupted
  <2>2. GoesIdle /\ (Lost \/ UNCHANGED faults)
    BY <1>2 DEF ReportInterrupted, GoesIdle
  <2> QED
    BY <2>1, <2>2, OwnCall DEF Splits, WorkerMove, Called
<1>3. CASE ReportCancelled
  <2>1. CancelLease(J, N) \/ UNCHANGED vars
    BY <1>3 DEF ReportCancelled
  <2>2. (GoesIdle \/ MovesOn) /\ (Lost \/ UNCHANGED faults)
    BY <1>3 DEF ReportCancelled, GoesIdle, MovesOn, At, Places
  <2> QED
    BY <2>1, <2>2, OwnCall DEF Splits, WorkerMove, Called
<1>4. CASE ReportFailure
  <2>1. CompleteFailure(J, N) \/ UNCHANGED vars
    BY <1>4 DEF ReportFailure
  <2>2. GoesIdle /\ (Lost \/ UNCHANGED faults)
    BY <1>4 DEF ReportFailure, GoesIdle
  <2> QED
    BY <2>1, <2>2, OwnCall DEF Splits, WorkerMove, Called
<1>5. CASE DeferPublication
  <2>1. Defer(J, N) \/ UNCHANGED vars
    BY <1>5 DEF DeferPublication
  <2>2. GoesIdle /\ (Lost \/ UNCHANGED faults)
    BY <1>5 DEF DeferPublication, GoesIdle
  <2> QED
    BY <2>1, <2>2, OwnCall DEF Splits, WorkerMove, Called
<1> QED
  BY <1>1, <1>2, <1>3, <1>4, <1>5

LEMMA LocalSplits ==
  ASSUME \/ Execute \/ Report("executed", "uploading") \/ Report("uploaded", "completing")
         \/ Settle \/ WorkerDies
  PROVE  Splits
<1>1. UNCHANGED vars
  BY DEF Execute, Report, Settle, WorkerDies, vars
<1>2. Lost \/ UNCHANGED faults
  BY DEF Execute, Report, Settle, WorkerDies
<1>3. CASE Execute
  BY <1>1, <1>2, <1>3 DEF Splits, WorkerMove, Execute, MovesOn, At, Places
<1>4. CASE Report("executed", "uploading") \/ Report("uploaded", "completing")
  BY <1>1, <1>2, <1>4 DEF Splits, WorkerMove, Report, MovesOn, At, Places
<1>5. CASE Settle \/ WorkerDies
  BY <1>1, <1>2, <1>5 DEF Splits, WorkerMove, Settle, WorkerDies, Removes, GoesIdle
<1> QED
  BY <1>3, <1>4, <1>5

LEMMA UploadSplits ==
  ASSUME WorkerTypes, UploadArchive
  PROVE  Splits
<1>1. Upload(J, N) \/ UNCHANGED vars
  BY DEF UploadArchive, UploadOnce, Answered, Fails, vars
<1>2. Lost \/ UNCHANGED faults
  BY DEF UploadArchive, Answered, Fails
<1>3. MovesOn \/ Retaining
  BY DEF UploadArchive, MovesOn, Retaining, At, Places
<1> QED
  BY <1>1, <1>2, <1>3, OwnCall DEF Splits, WorkerMove, Called

LEMMA CompleteSplits ==
  ASSUME WorkerTypes, Complete \/ AwaitReceipt
  PROVE  Splits
<1>1. BeginCompletion(J, N) \/ UNCHANGED vars
  BY DEF Complete, AwaitReceipt, Refused, vars
<1>2. Lost \/ UNCHANGED faults
  BY DEF Complete, AwaitReceipt, Refused
<1>3. CASE Refused /\ worker.at \in {"completing", "awaiting"}
  BY <1>1, <1>2, <1>3, OwnCall DEF Refused, Splits, WorkerMove, Called, GoesIdle, MovesOn, Places
<1>4. MovesOn \/ Retaining \/ Settles \/ (Refused /\ worker.at \in {"completing", "awaiting"})
  BY DEF Complete, AwaitReceipt, MovesOn, Settles, Retaining, At, Places
<1> QED
  BY <1>1, <1>2, <1>3, <1>4, OwnCall DEF Splits, WorkerMove, Called

LEMMA ControlSplits ==
  ASSUME WorkerTypes, ControlStep
  PROVE  Splits
<1>1. CASE Heartbeat
  BY <1>1, OwnCall DEF Heartbeat, Called, Splits, WorkerMove, Stays
<1>2. ASSUME NEW halt \in Halts, Supervised, Interrupt(halt)
      PROVE  Splits
  BY <1>2 DEF Interrupt, Halting, Splits, WorkerMove, vars
<1>3. CASE SeeCommand
  BY <1>2, <1>3 DEF SeeCommand, OpenStop, Halts
<1>4. CASE SeeCancel \/ LoseLease
  BY <1>2, <1>4 DEF SeeCancel, LoseLease, Halts
<1> QED
  BY <1>1, <1>3, <1>4 DEF ControlStep

LEMMA ServerSplits ==
  ASSUME \/ ServerSide /\ UNCHANGED <<worker, retained, faults>>
         \/ Crash /\ Lost /\ UNCHANGED <<worker, retained>>
  PROVE  Splits
<1>1. Stays /\ (Lost \/ UNCHANGED faults)
  BY DEF Stays
<1>2. ServerSide \/ Crash
  OBVIOUS
<1>3. LeaseSide
  BY <1>2 DEF ServerSide, Reclaim, LeaseSide, Called, ServerStep
<1> QED
  BY <1>1, <1>3 DEF Splits, WorkerMove

LEMMA NextSplits ==
  ASSUME IInv, WorkerTypes, [PullNext]_pullVars
  PROVE  Splits
<1>1. CASE WorkerStep
  BY <1>1, PollSplits, RecoverSplits, CallSplits, LocalSplits, UploadSplits, CompleteSplits
     DEF WorkerStep
<1>2. CASE UNCHANGED pullVars
  BY <1>2 DEF pullVars, vars, Splits, WorkerMove, Stays
<1> QED
  BY <1>1, <1>2, ControlSplits, LocalSplits, ServerSplits DEF PullNext

----------------------------------------------------------------------------
(* The invariant, of each change of the worker.                            *)

LEMMA TypesKept ==
  ASSUME WorkerTypes, Splits
  PROVE  WorkerTypes'
<1>1. faults' \in 0 .. MaxFaults
  BY MaxFaultsAssumption DEF Splits, Lost, WorkerTypes
<1>2. ASSUME NEW step \in Places, worker' = To(step)
      PROVE  worker' \in WorkerRecord
  BY <1>2 DEF To, WorkerTypes, WorkerRecord
<1>3. CASE Stays \/ GoesIdle
  BY <1>1, <1>3, IdleType DEF Stays, GoesIdle, WorkerTypes
<1>4. CASE Takes
  BY <1>1, <1>4 DEF Takes, WorkerTypes, WorkerRecord, Places, Halts
<1>5. CASE Recovers
  BY <1>1, <1>5 DEF Recovers, WorkerTypes, WorkerRecord, Places, Halts
<1>6. CASE MovesOn \/ Settles
  BY <1>1, <1>2, <1>6 DEF MovesOn, Settles, WorkerTypes, Places
<1>7. CASE Halting
  BY <1>1, <1>7 DEF Halting, WorkerTypes, WorkerRecord
<1>8. CASE Retaining
  BY <1>1, <1>2, <1>8, IdleType, OwnType DEF Retaining, Retain, WorkerTypes, Places
<1>9. CASE Removes
  BY <1>1, <1>9, IdleType DEF Removes, WorkerTypes
<1> QED
  BY <1>3, <1>4, <1>5, <1>6, <1>7, <1>8, <1>9 DEF Splits, WorkerMove

(* Before its lease is retained, an executing worker has an empty disk.    *)
LEMMA NothingElseRetained ==
  ASSUME RetainedIsOwn, ~At("polling")
  PROVE  /\ retained \subseteq {Own}
         /\ ~worker.recovering /\ ~At("deferring") => retained = {}
BY DEF RetainedIsOwn

LEMMA RetainedKept ==
  ASSUME WorkerTypes, RetainedIsOwn, Splits
  PROVE  RetainedIsOwn'
<1> USE DEF At, Own, J, N
<1>1. \/ retained = {}
      \/ \E own \in Jobs \X Attempts : retained = {own}
  BY DEF RetainedIsOwn
<1>2. ASSUME worker' = Idle, retained' \subseteq retained
      PROVE  RetainedIsOwn'
  <2>1. worker'.at = "polling"
    BY <1>2, IdleType
  <2>2. retained' = {} \/ \E own \in Jobs \X Attempts : retained' = {own}
    BY <1>1, <1>2
  <2> QED
    BY <2>1, <2>2 DEF RetainedIsOwn
<1>3. CASE Stays
  BY <1>3 DEF Stays, RetainedIsOwn
<1>4. CASE GoesIdle \/ Removes
  BY <1>2, <1>4 DEF GoesIdle, Removes
<1>5. CASE Takes
  BY <1>5 DEF Takes, RetainedIsOwn
<1>6. CASE Recovers
  <2>1. PICK own \in retained :
          worker'.job = own[1] /\ worker'.n = own[2] /\ worker'.recovering
    BY <1>6 DEF Recovers
  <2>2. own \in Jobs \X Attempts /\ own = <<own[1], own[2]>> /\ retained' = {own}
    BY <1>1, <1>6, <2>1 DEF Recovers, WorkerTypes
  <2> QED
    BY <2>1, <2>2 DEF RetainedIsOwn
<1>7. CASE MovesOn \/ Settles
  <2>1. /\ worker'.job = worker.job /\ worker'.n = worker.n
        /\ worker'.recovering = worker.recovering
        /\ retained' = retained /\ worker.at \notin {"polling", "deferring"}
    BY <1>7 DEF MovesOn, Settles, To, WorkerTypes, WorkerRecord
  <2> QED
    BY <2>1 DEF RetainedIsOwn
<1>8. CASE Halting
  <2>1. worker.at \notin {"polling", "deferring"} /\ ~worker.recovering
    BY <1>8 DEF Halting, Supervised
  <2>2. retained' = {}
    BY <1>8, <2>1 DEF Halting, RetainedIsOwn
  <2> QED
    BY <2>2 DEF RetainedIsOwn
<1>9. CASE Retaining
  <2>1. retained \subseteq {Own} /\ Own \in Jobs \X Attempts
    BY <1>9, NothingElseRetained, OwnType DEF Retaining
  <2>2. retained' = {Own}
    BY <1>9, <2>1 DEF Retaining, Retain
  <2>3. CASE worker.recovering
    <3>1. worker'.at = "polling"
      BY <1>9, <2>3, IdleType DEF Retaining, Retain
    <3> QED
      BY <2>1, <2>2, <3>1 DEF RetainedIsOwn
  <2>4. CASE ~worker.recovering
    <3>1. worker'.at = "deferring" /\ worker'.job = worker.job /\ worker'.n = worker.n
      BY <1>9, <2>4 DEF Retaining, Retain, To, WorkerTypes, WorkerRecord
    <3> QED
      BY <2>1, <2>2, <3>1 DEF RetainedIsOwn
  <2> QED
    BY <2>3, <2>4
<1> QED
  BY <1>3, <1>4, <1>5, <1>6, <1>7, <1>8, <1>9 DEF Splits, WorkerMove

LEMMA SettledKept ==
  ASSUME Steps, LeasesMove, WorkerTypes, ReceiptHasOutput, SettledIsFinal, Splits
  PROVE  SettledIsFinal'
<1> USE DEF At, J, N
<1> SUFFICES ASSUME worker'.at = "settled"
             PROVE  SettledIsFinal'
  BY DEF SettledIsFinal
<1>1. CASE Stays
  <2>1. worker' = worker /\ At("settled") /\ J \in Jobs /\ N \in Attempts
    BY <1>1, OwnType DEF Stays
  <2>2. /\ job[J].output[N] => job'[J].output[N]
        /\ job[J].lease[N] \in {"cancelled", "restart", "expired"} =>
             job'[J].lease[N] = job[J].lease[N] \/ job'[J].output[N]
    BY <2>1, EndedStays
  <2> QED
    BY <2>1, <2>2 DEF SettledIsFinal
<1>2. CASE GoesIdle \/ Removes
  BY <1>2, IdleType DEF GoesIdle, Removes
<1>3. CASE Takes
  BY <1>3 DEF Takes
<1>4. CASE Recovers
  <2>1. PICK own \in retained :
          /\ worker'.job = own[1] /\ worker'.n = own[2] /\ worker'.recovering
          /\ UNCHANGED job
          /\ job[own[1]].lease[own[2]] \in {"completed", "cancelled", "restart", "expired"}
    BY <1>4 DEF Recovers
  <2>2. own[1] \in Jobs /\ own[2] \in Attempts
    BY DEF WorkerTypes
  <2> QED
    BY <2>1, <2>2 DEF SettledIsFinal, ReceiptHasOutput
<1>5. CASE MovesOn
  BY <1>5 DEF MovesOn, To, WorkerTypes, WorkerRecord
<1>6. CASE Settles
  <2>1. worker'.job = J /\ worker'.n = N /\ job' = job /\ job[J].lease[N] = "completed"
    BY <1>6 DEF Settles, Completed, To, WorkerTypes, WorkerRecord
  <2>2. job[J].output[N]
    BY <2>1, OwnType DEF ReceiptHasOutput
  <2> QED
    BY <2>1, <2>2 DEF SettledIsFinal
<1>7. CASE Halting
  BY <1>7 DEF Halting, Supervised, WorkerTypes, WorkerRecord
<1>8. CASE Retaining
  BY <1>8, IdleType DEF Retaining, Retain, To, WorkerTypes, WorkerRecord
<1> QED
  BY <1>1, <1>2, <1>3, <1>4, <1>5, <1>6, <1>7, <1>8 DEF Splits, WorkerMove

----------------------------------------------------------------------------
LEMMA PullInitInv == PullInit => PullIInv
<1> SUFFICES ASSUME PullInit
             PROVE  PullIInv
  OBVIOUS
<1>1. IInv /\ worker = Idle /\ retained = {} /\ faults = 0
  BY InitInv DEF PullInit
<1>2. WorkerTypes
  BY <1>1, IdleType, MaxFaultsAssumption DEF WorkerTypes
<1>3. ReceiptHasOutput
  <2>1. \A j \in Jobs : job[j] \in {NewJob("queued"), NewJob("paused")}
    BY DEF PullInit, Init
  <2> QED
    BY <2>1 DEF NewJob, ReceiptHasOutput
<1>4. RetainedIsOwn /\ SettledIsFinal
  BY <1>1, IdleType DEF RetainedIsOwn, SettledIsFinal, At
<1> QED
  BY <1>1, <1>2, <1>3, <1>4 DEF PullIInv

LEMMA PullStep ==
  ASSUME PullIInv, [PullNext]_pullVars
  PROVE  PullIInv' /\ [Next]_vars /\ Splits
<1>1. Splits
  BY NextSplits DEF PullIInv
<1>2. Steps /\ LeasesMove
  BY <1>1, LeaseSideMoves DEF PullIInv, Splits
<1>3. IInv'
  BY <1>2 DEF Steps
<1>4. [Next]_vars
  BY <1>1, LeaseSideIsStep DEF Splits
<1>5. WorkerTypes'
  BY <1>1, TypesKept DEF PullIInv
<1>6. ReceiptHasOutput'
  BY <1>2, ReceiptsKept DEF PullIInv
<1>7. RetainedIsOwn'
  BY <1>1, RetainedKept DEF PullIInv
<1>8. SettledIsFinal'
  BY <1>1, <1>2, SettledKept DEF PullIInv
<1> QED
  BY <1>1, <1>3, <1>4, <1>5, <1>6, <1>7, <1>8 DEF PullIInv

(* The worker and its disk agree with the leases, across every fault.      *)
THEOREM PullInductive == PullSpec => []PullIInv
<1>1. PullIInv /\ [PullNext]_pullVars => PullIInv'
  BY PullStep
<1> QED
  BY <1>1, PullInitInv, PTL DEF PullSpec

(* Whatever the worker does, retries, recovers or loses, its calls are     *)
(* steps of the lease protocol, so that its theorems are true of them.     *)
THEOREM PullUsesLeases == PullSpec => Spec
<1>1. PullInit => Init
  BY DEF PullInit
<1>2. PullIInv /\ [PullNext]_pullVars => [Next]_vars
  BY PullStep
<1> QED
  BY <1>1, <1>2, PullInductive, PTL DEF PullSpec, Spec

(* At most one archive is retained, and a worker that executes has none.   *)
THEOREM PullTypeCorrect == PullSpec => []PullTypeOK
<1>1. PullIInv => PullTypeOK
  <2> SUFFICES ASSUME PullIInv
               PROVE  PullTypeOK
    OBVIOUS
  <2>1. WorkerTypes /\ RetainedIsOwn
    BY DEF PullIInv
  <2>2. Cardinality(retained) <= 1
    <3>1. CASE retained = {}
      BY <3>1, FS_EmptySet
    <3>2. ASSUME NEW own, retained = {own}
          PROVE  Cardinality(retained) <= 1
      <4>1. Cardinality({own}) = 1
        BY FS_Singleton
      <4> QED
        BY <3>2, <4>1
    <3> QED
      BY <2>1, <3>1, <3>2 DEF RetainedIsOwn
  <2>3. Supervised => retained = {}
    BY <2>1 DEF Supervised, RetainedIsOwn, At
  <2> QED
    BY <2>1, <2>2, <2>3 DEF PullTypeOK, WorkerTypes
<1> QED
  BY <1>1, PullInductive, PTL

(* What the worker takes for the end of an attempt is its end: output is   *)
(* recorded, or the lease of retained output is fenced.                    *)
THEOREM SettledEnds == PullSpec => []SettledIsFinal
BY PullInductive, PTL DEF PullIInv

(* An archive leaves the disk only when its output is recorded or its      *)
(* lease can no longer publish it.                                         *)
THEOREM ArchivesKept == PullSpec => NothingDropped
<1> DEFINE A == \A own \in retained \ retained' :
                  job[own[1]].output[own[2]] \/ ~Live(job[own[1]], own[2])
<1>1. PullIInv /\ [PullNext]_pullVars => [A]_pullVars
  <2> SUFFICES ASSUME PullIInv, [PullNext]_pullVars, NEW own \in retained \ retained'
               PROVE  job[own[1]].output[own[2]] \/ ~Live(job[own[1]], own[2])
    OBVIOUS
  <2>1. WorkerMove
    BY PullStep DEF Splits
  <2>2. Removes
    BY <2>1 DEF WorkerMove, Stays, GoesIdle, Takes, Recovers, MovesOn, Settles, Halting,
                Retaining, Retain, Removes
  <2>3. retained \subseteq {Own} /\ SettledIsFinal
    BY <2>2, NothingElseRetained DEF PullIInv, Removes, At
  <2>4. own[1] = J /\ own[2] = N
    BY <2>3 DEF Own
  <2> QED
    BY <2>2, <2>3, <2>4 DEF Removes, SettledIsFinal, Live, LiveStates, ActiveStates
<1> QED
  BY <1>1, PullInductive, PTL DEF PullSpec, NothingDropped
=============================================================================

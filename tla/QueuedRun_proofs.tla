-------------------------- MODULE QueuedRun_proofs --------------------------
(***************************************************************************)
(* Safety of a queued run for any number of workers, jobs, requests and    *)
(* faults.                                                                 *)
(*                                                                         *)
(* A step changes one job, or no job, or makes a new one, or cancels all   *)
(* that wait.  There is one lemma per kind of change, and one per action   *)
(* that names its kind.  That no two jobs live is shown first, as long as  *)
(* the transaction after a publish does not fail; that a training runs as  *)
(* it was verified needs less of a job, and holds if it fails, too.        *)
(***************************************************************************)
EXTENDS QueuedRun, FiniteSetTheorems, TLAPS

(* The statuses in which a row waits for an operator to make a job.        *)
Handed == {"pending_verification", "ready", "needs_attention"}

(* A lease has a worker and its job is in no other's hands; a call is      *)
(* about a pending publication, and what is published is being committed.  *)
JobInv(r) ==
  /\ r \in JobRecord
  /\ r.lease # "none" =>
       r.held.worker \in Workers /\ r.status \notin Terminal \cup {"none", "queued"}
  /\ r.status = "leased" => r.lease = "active"
  /\ r.status \in Publishing => r.lease # "none"
  /\ r.call => r.lease = "pending" /\ r.status = "publication_pending" /\ ~r.cancel
  /\ r.published => r.call \/ r.status \in {"completed", "indexed"}
  /\ r.kind = "train" => r.bound.worker \in Workers

(* Jobs are made in order.                                                 *)
MadeInOrder == \E k \in 0 .. MaxJobs : Made = 1 .. k

(* A run whose job lives is in no status that lets a request make another. *)
LiveIsUnderWay == \A j \in Jobs : Live(j) => row.status \notin Handed

(* What may be started was verified by some worker.                        *)
ValidHasWorker == row.valid => spec.verified.worker \in Workers

RunTypes ==
  /\ row \in [status : RowStatuses, authorized : BOOLEAN, valid : BOOLEAN]
  /\ spec \in [planned : BOOLEAN, verified : Binding]
  /\ sequential \in BOOLEAN
  /\ jobs \in [Jobs -> JobRecord]
  /\ env \in [Workers -> Envs]

CountTypes == clearing \in BOOLEAN /\ requests \in 0 .. MaxRequests /\ faults \in 0 .. MaxFaults

JobsInv ==
  /\ RunTypes
  /\ \A j \in Jobs : JobInv(jobs[j])
  /\ MadeInOrder /\ OneLiveJob /\ LiveIsUnderWay /\ ValidHasWorker /\ RunningAsVerified

QueueInv == JobsInv /\ CountTypes

----------------------------------------------------------------------------
(* The kinds of change                                                     *)

(* A row as it may be after a change that makes nothing live.              *)
RowFollows ==
  /\ row' \in [status : RowStatuses, authorized : BOOLEAN, valid : BOOLEAN]
  /\ spec' \in [planned : BOOLEAN, verified : Binding]
  /\ ValidHasWorker'
  /\ sequential' = sequential

(* The rows that go with a change of one job.                              *)
LEMMA RowWritten ==
  ASSUME RunTypes, ValidHasWorker, UNCHANGED <<spec, sequential>>, NEW status \in RowStatuses,
         row' \in {row, [row EXCEPT !.status = status], Withdrawn(row),
                  [row EXCEPT !.authorized = FALSE, !.status = status],
                  [status |-> status, authorized |-> FALSE, valid |-> FALSE]}
  PROVE  RowFollows /\ row'.status \in {row.status, status, "cancelled"}
<1>1. row \in [status : RowStatuses, authorized : BOOLEAN, valid : BOOLEAN]
  BY DEF RunTypes
<1>2. "cancelled" \in RowStatuses
  BY DEF RowStatuses, JobStatuses, Terminal
<1>3. /\ row' \in [status : RowStatuses, authorized : BOOLEAN, valid : BOOLEAN]
      /\ row'.status \in {row.status, status, "cancelled"}
      /\ row'.valid => row.valid
  <2>1. CASE row' = row \/ row' = Withdrawn(row)
    BY <1>1, <1>2, <2>1 DEF Withdrawn
  <2>2. CASE row' = [row EXCEPT !.status = status]
    BY <1>1, <2>2
  <2>3. CASE row' = [row EXCEPT !.authorized = FALSE, !.status = status]
    BY <1>1, <2>3
  <2>4. CASE row' = [status |-> status, authorized |-> FALSE, valid |-> FALSE]
    BY <2>4
  <2> QED
    BY <2>1, <2>2, <2>3, <2>4
<1> QED
  BY <1>3 DEF RowFollows, RunTypes, ValidHasWorker

LEMMA NoJobChanges ==
  ASSUME JobsInv, RowFollows, UNCHANGED <<jobs, env>>,
         row'.status \notin Handed \/ row'.status = row.status
  PROVE  JobsInv'
<1>1. Made' = Made /\ \A j : Live(j)' <=> Live(j)
  BY DEF Made, Live
<1>2. MadeInOrder' /\ OneLiveJob' /\ LiveIsUnderWay'
  BY <1>1 DEF JobsInv, MadeInOrder, OneLiveJob, LiveIsUnderWay
<1>3. RunningAsVerified'
  BY <1>1 DEF JobsInv, RowFollows, RunningAsVerified
<1> QED
  BY <1>2, <1>3 DEF JobsInv, RowFollows, RunTypes

(* One job changes, and does not come to life.                             *)
Changes(j) ==
  /\ jobs' \in [Jobs -> JobRecord]
  /\ \A k \in Jobs : k # j => jobs'[k] = jobs[k]
  /\ JobInv(jobs'[j])
  /\ jobs'[j].kind = jobs[j].kind /\ jobs'[j].bound = jobs[j].bound
  /\ jobs[j].status \in Terminal => jobs'[j].status \in Terminal

LEMMA SameMade ==
  ASSUME JobsInv, NEW j \in Made, Changes(j)
  PROVE  Made' = Made /\ \A k \in Jobs : Live(k)' => Live(k)
<1>1. Made' = Made
  BY DEF Made, Changes
<1> QED
  BY <1>1 DEF Live, Changes, Made

LEMMA OneJobChanges ==
  ASSUME JobsInv, NEW j \in Made, Changes(j), RowFollows, env' = env,
         jobs'[j].status = "leased" => jobs[j].status = "leased" /\ jobs'[j].held = jobs[j].held,
         \/ row'.status \notin Handed \/ row'.status = row.status
         \/ jobs[j].status \notin Terminal /\ jobs'[j].status \in Terminal
  PROVE  JobsInv'
<1>1. Made' = Made /\ \A k \in Jobs : Live(k)' => Live(k)
  BY SameMade
<1>2. MadeInOrder'
  BY <1>1 DEF JobsInv, MadeInOrder
<1>3. OneLiveJob'
  BY <1>1 DEF JobsInv, OneLiveJob, Made
<1>4. LiveIsUnderWay'
  <2> SUFFICES ASSUME NEW k \in Jobs, Live(k)'
               PROVE  row'.status \notin Handed
    BY DEF LiveIsUnderWay
  <2>1. Live(k) /\ k \in Made /\ row.status \notin Handed
    BY <1>1 DEF JobsInv, LiveIsUnderWay, Live
  <2>2. CASE jobs[j].status \notin Terminal /\ jobs'[j].status \in Terminal
    <3>1. Live(j) /\ ~Live(j)'
      BY <2>2 DEF Live
    <3>2. k = j
      BY <2>1, <3>1 DEF JobsInv, OneLiveJob
    <3> QED
      BY <3>1, <3>2
  <2> QED
    BY <2>1, <2>2
<1>5. RunningAsVerified'
  BY <1>1 DEF JobsInv, RunningAsVerified, RowFollows, Changes, Made
<1>6. RunTypes' /\ \A k \in Jobs : JobInv(jobs'[k])
  BY DEF JobsInv, RunTypes, RowFollows, Changes
<1> QED
  BY <1>2, <1>3, <1>4, <1>5, <1>6 DEF JobsInv, RowFollows

(* The next job is one that was not made yet, and the jobs stay in order.  *)
LEMMA NextIsUnmade ==
  ASSUME MadeInOrder, NextJob \in Jobs
  PROVE  NextJob \notin Made /\ \E k \in 0 .. MaxJobs : Made \cup {NextJob} = 1 .. k
<1>1. PICK k \in 0 .. MaxJobs : Made = 1 .. k
  BY DEF MadeInOrder
<1>2. Cardinality(Made) = k
  BY <1>1, FS_Interval
<1>3. NextJob = k + 1 /\ k + 1 \in 0 .. MaxJobs
  BY <1>2, QueueBounds DEF NextJob, Jobs
<1>4. Made \cup {NextJob} = 1 .. (k + 1)
  BY <1>1, <1>3
<1> QED
  BY <1>1, <1>3, <1>4

LEMMA NoJobType == NoJob \in JobRecord /\ Unbound \in Binding
BY QueueBounds DEF NoJob, JobRecord, JobStatuses, Terminal, Publishing, Unbound, Binding

(* A new job is made of jobs js of which none lives.                       *)
LEMMA Enqueued ==
  ASSUME JobsInv, NEW kind \in {"verify", "train"}, NEW r, NEW s, NEW js,
         Enqueues(kind, r, s, js), UNCHANGED <<env, sequential>>,
         r \in [status : RowStatuses, authorized : BOOLEAN, valid : BOOLEAN],
         s \in [planned : BOOLEAN, verified : Binding],
         kind = "train" \/ r.valid => s.verified.worker \in Workers,
         js \in [Jobs -> JobRecord],
         \A k \in Jobs : JobInv(js[k]) /\ js[k].kind = jobs[k].kind,
         \A k \in Made : js[k].status \in Terminal
  PROVE  JobsInv'
<1> DEFINE n == NextJob
           new == [NoJob EXCEPT !.kind = kind, !.status = "queued", !.bound = s.verified]
<1>1. /\ n \in Jobs /\ n \notin Made
      /\ \E k \in 0 .. MaxJobs : Made \cup {n} = 1 .. k
  BY NextIsUnmade DEF Enqueues, JobsInv
<1>2. new \in JobRecord /\ JobInv(new) /\ new.kind = kind /\ new.status = "queued"
  BY NoJobType DEF NoJob, JobInv, JobRecord, JobStatuses, Terminal, Publishing
<1>3. jobs' = [js EXCEPT ![n] = new]
  BY DEF Enqueues
<1> HIDE DEF n, new
<1>4. \A k \in Jobs : jobs'[k] = IF k = n THEN new ELSE js[k]
  BY <1>3
<1>5. Made' = Made \cup {n}
  BY <1>1, <1>2, <1>4 DEF Made
<1>6. \A k \in Jobs : Live(k)' => k = n
  BY <1>4, <1>5 DEF Live
<1>7. RunTypes' /\ ValidHasWorker'
  <2>1. jobs' \in [Jobs -> JobRecord]
    BY <1>2, <1>3
  <2>2. /\ row' \in [status : RowStatuses, authorized : BOOLEAN, valid : BOOLEAN]
        /\ row'.valid = r.valid
    BY DEF Enqueues, RowStatuses, JobStatuses
  <2>3. spec' \in [planned : BOOLEAN, verified : Binding] /\ spec'.verified = s.verified
    BY DEF Enqueues
  <2> QED
    BY <2>1, <2>2, <2>3 DEF JobsInv, RunTypes, ValidHasWorker
<1>8. \A k \in Jobs : JobInv(jobs'[k])
  BY <1>2, <1>4
<1>9. MadeInOrder' /\ OneLiveJob'
  BY <1>1, <1>5, <1>6 DEF MadeInOrder, OneLiveJob, Made
<1>10. LiveIsUnderWay'
  BY DEF Enqueues, LiveIsUnderWay, Handed, JobsInv, RunTypes
<1>11. RunningAsVerified'
  BY <1>2, <1>4, <1>5 DEF RunningAsVerified, Made, Terminal
<1> QED
  BY <1>7, <1>8, <1>9, <1>10, <1>11 DEF JobsInv

(* Nothing lives where an operator may ask for a job.                      *)
LEMMA NothingLives ==
  ASSUME JobsInv, row.status \in Handed
  PROVE  \A k \in Made : jobs[k].status \in Terminal
BY DEF JobsInv, LiveIsUnderWay, Live, Made

LEMMA VerifyInv ==
  ASSUME JobsInv, Verify
  PROVE  JobsInv'
<1>1. row.status \in Handed
  BY DEF Verify, Verifiable, Handed
<1>2. PICK start \in BOOLEAN :
        Enqueues("verify", [row EXCEPT !.valid = FALSE, !.authorized = start],
                 [planned |-> TRUE, verified |-> Unbound], jobs)
  BY DEF Verify
<1> DEFINE r == [row EXCEPT !.valid = FALSE, !.authorized = start]
           s == [planned |-> TRUE, verified |-> Unbound]
<1>3. /\ r \in [status : RowStatuses, authorized : BOOLEAN, valid : BOOLEAN] /\ ~r.valid
      /\ s \in [planned : BOOLEAN, verified : Binding]
  BY NoJobType DEF JobsInv, RunTypes
<1>4. UNCHANGED <<env, sequential>>
  BY DEF Verify, Request
<1>5. jobs \in [Jobs -> JobRecord] /\ \A k \in Jobs : JobInv(jobs[k])
  BY DEF JobsInv, RunTypes
<1> HIDE DEF r, s
<1> QED
  BY <1>1, <1>2, <1>3, <1>4, <1>5, NothingLives, Enqueued DEF r, s

LEMMA StartInv ==
  ASSUME JobsInv, Start
  PROVE  JobsInv'
<1>1. row.status \in Handed /\ spec.verified.worker \in Workers
  BY DEF Start, Handed, JobsInv, ValidHasWorker
<1> DEFINE r == [row EXCEPT !.authorized = TRUE]
<1>2. Enqueues("train", r, spec, jobs)
  BY DEF Start
<1>3. /\ r \in [status : RowStatuses, authorized : BOOLEAN, valid : BOOLEAN]
      /\ spec \in [planned : BOOLEAN, verified : Binding]
  BY DEF JobsInv, RunTypes
<1>4. UNCHANGED <<env, sequential>>
  BY DEF Start, Request
<1>5. jobs \in [Jobs -> JobRecord] /\ \A k \in Jobs : JobInv(jobs[k])
  BY DEF JobsInv, RunTypes
<1> HIDE DEF r
<1> QED
  BY <1>1, <1>2, <1>3, <1>4, <1>5, NothingLives, Enqueued

----------------------------------------------------------------------------
(* Polls                                                                   *)

LEMMA InvalidatesInv ==
  ASSUME JobsInv, NEW w \in Workers, NEW e \in Envs, Outdated(w, e), Invalidates,
         env' = [env EXCEPT ![w] = e], sequential' = sequential
  PROVE  JobsInv'
<1> DEFINE over(r) == IF r.status = "queued" THEN [r EXCEPT !.status = "cancelled"] ELSE r
<1>1. \A j \in Jobs : jobs'[j] = over(jobs[j])
  BY DEF Invalidates
<1>2. \A r \in JobRecord : JobInv(r) =>
        over(r) \in JobRecord /\ JobInv(over(r)) /\ over(r).kind = r.kind
  BY DEF JobInv, JobRecord, JobStatuses, Terminal, Publishing
<1>3. jobs \in [Jobs -> JobRecord] /\ \A j \in Jobs : JobInv(jobs[j])
  BY DEF JobsInv, RunTypes
<1>4. jobs' \in [Jobs -> JobRecord] /\ Made' = Made
  BY <1>1, <1>2, <1>3 DEF Invalidates, Made
<1>5. \A j \in Made : jobs'[j].status \in Terminal
  <2> SUFFICES ASSUME NEW j \in Made
               PROVE  jobs'[j].status \in Terminal
    OBVIOUS
  <2>1. j \in Jobs /\ jobs[j] \in JobRecord /\ jobs[j].status \in Terminal \cup {"queued"}
    BY <1>3 DEF Outdated, Made
  <2>2. CASE jobs[j].status = "queued"
    <3>1. jobs'[j] = [jobs[j] EXCEPT !.status = "cancelled"]
      BY <1>1, <2>1, <2>2
    <3> QED
      BY <2>1, <3>1 DEF Terminal, JobRecord
  <2>3. CASE jobs[j].status # "queued"
    <3>1. jobs'[j] = jobs[j]
      BY <1>1, <2>1, <2>3
    <3> QED
      BY <2>1, <2>3, <3>1
  <2> QED
    BY <2>2, <2>3
<1>6. RunTypes' /\ ValidHasWorker'
  BY <1>4 DEF Invalidates, JobsInv, RunTypes, ValidHasWorker, RowStatuses
<1>7. MadeInOrder' /\ OneLiveJob' /\ LiveIsUnderWay'
  BY <1>4, <1>5 DEF JobsInv, MadeInOrder, OneLiveJob, LiveIsUnderWay, Live
<1>8. RunningAsVerified'
  BY <1>4, <1>5 DEF RunningAsVerified, Terminal
<1> QED
  BY <1>1, <1>2, <1>3, <1>6, <1>7, <1>8 DEF JobsInv

LEMMA LeasesInv ==
  ASSUME JobsInv, NEW w \in Workers, NEW e \in Envs, NEW j \in Made, Leases(w, e, j),
         ~Leased(w), env' = [env EXCEPT ![w] = e], sequential' = sequential
  PROVE  JobsInv'
<1> DEFINE held == [worker |-> w, env |-> e]
           s == [jobs[j] EXCEPT !.status = "leased", !.lease = "active", !.held = held,
                                !.published = FALSE]
<1>1. j \in Jobs /\ jobs[j].status = "queued" /\ JobInv(jobs[j]) /\ jobs[j] \in JobRecord
  BY DEF Leases, CanExecute, JobsInv, RunTypes, Made
<1>2. jobs' = [jobs EXCEPT ![j] = s] /\ spec' = spec /\ row' = Mirrored(row, j, "leased")
  BY <1>1 DEF Leases, JobsInv, RunTypes, JobRecord
<1>3. held \in Binding
  BY DEF Binding
<1>4. s \in JobRecord /\ JobInv(s) /\ s.kind = jobs[j].kind /\ s.bound = jobs[j].bound
  BY <1>1, <1>3 DEF JobInv, JobRecord, JobStatuses, Terminal, Publishing
<1>5. s.status = "leased" /\ s.held = held
  BY <1>1 DEF JobRecord
<1> HIDE DEF s, held
<1>6. Changes(j)
  BY <1>1, <1>2, <1>4 DEF Changes, JobsInv, RunTypes, Terminal
<1>7. Made' = Made /\ \A k \in Jobs : Live(k)' => Live(k)
  BY <1>6, SameMade
<1>8. row' = row \/ row' = [row EXCEPT !.status = "leased"]
  BY <1>2 DEF Mirrored
<1>9. RunTypes' /\ ValidHasWorker'
  BY <1>2, <1>6, <1>8 DEF JobsInv, RunTypes, ValidHasWorker, Changes, RowStatuses, JobStatuses
<1>10. MadeInOrder' /\ OneLiveJob' /\ LiveIsUnderWay'
  BY <1>7, <1>8 DEF JobsInv, RunTypes, MadeInOrder, OneLiveJob, LiveIsUnderWay, Made, Handed
<1>11. RunningAsVerified'
  <2> SUFFICES ASSUME NEW k \in Made, jobs'[k].kind = "train", ~sequential,
                      jobs'[k].status = "leased"
               PROVE  jobs'[k].bound = [worker |-> jobs'[k].held.worker,
                                        env |-> env'[jobs'[k].held.worker]]
    BY <1>7 DEF RunningAsVerified
  <2>1. CASE k = j
    <3>1. jobs'[k] = s /\ held.worker = w /\ held.env = e /\ env'[w] = e
      BY <1>1, <1>2, <2>1 DEF JobsInv, RunTypes, held
    <3>2. jobs[j].bound = held
      <4>1. jobs[j].bound # Unbound
        BY <1>1, <1>4, <2>1, <3>1, QueueBounds DEF JobInv, Unbound
      <4> QED
        BY <4>1 DEF Leases, CanExecute, Followed, held
    <3> QED
      BY <1>4, <1>5, <3>1, <3>2 DEF held
  <2>2. CASE k # j
    <3>1. jobs'[k] = jobs[k] /\ k \in Jobs /\ JobInv(jobs[k])
      BY <1>2, <2>2 DEF Made, JobsInv
    <3>2. jobs[k].held.worker # w
      BY <3>1 DEF JobInv, Leased
    <3>3. env'[jobs[k].held.worker] = env[jobs[k].held.worker]
      BY <3>1, <3>2 DEF JobsInv, RunTypes, JobInv
    <3> QED
      BY <3>1, <3>3 DEF JobsInv, RunningAsVerified
  <2> QED
    BY <2>1, <2>2
<1>12. \A k \in Jobs : JobInv(jobs'[k])
  BY <1>6 DEF JobsInv, Changes
<1> QED
  BY <1>9, <1>10, <1>11, <1>12 DEF JobsInv

LEMMA PollInv ==
  ASSUME JobsInv, NEW w \in Workers, NEW e \in Envs, Poll(w, e)
  PROVE  JobsInv'
<1>1. /\ ~Leased(w) /\ env' = [env EXCEPT ![w] = e] /\ sequential' = sequential
  BY DEF Poll
<1>2. CASE Outdated(w, e) /\ Invalidates
  BY <1>1, <1>2, InvalidatesInv
<1>3. CASE \E j \in Made : Leases(w, e, j)
  BY <1>1, <1>3, LeasesInv
<1>4. CASE UNCHANGED <<row, spec, jobs>>
  <2>1. Made' = Made /\ \A j : Live(j)' <=> Live(j)
    BY <1>4 DEF Made, Live
  <2>2. RunningAsVerified'
    <3> SUFFICES ASSUME NEW k \in Made, jobs[k].kind = "train", ~sequential,
                        jobs[k].status = "leased"
                 PROVE  jobs[k].bound = [worker |-> jobs[k].held.worker,
                                         env |-> env'[jobs[k].held.worker]]
      BY <1>1, <1>4, <2>1 DEF RunningAsVerified
    <3>1. jobs[k].held.worker \in Workers \ {w}
      BY <1>1 DEF JobsInv, JobInv, Leased, Made
    <3>2. env'[jobs[k].held.worker] = env[jobs[k].held.worker]
      BY <1>1, <3>1 DEF JobsInv, RunTypes
    <3> QED
      BY <3>2 DEF JobsInv, RunningAsVerified
  <2> QED
    BY <1>1, <1>4, <2>1, <2>2
       DEF JobsInv, RunTypes, MadeInOrder, OneLiveJob, LiveIsUnderWay, ValidHasWorker
<1> QED
  BY <1>2, <1>3, <1>4 DEF Poll

----------------------------------------------------------------------------
(* Requests that make no job                                               *)

LEMMA RowRequestInv ==
  ASSUME JobsInv, CancelRow \/ ClearReads \/ ClearWrites \/ Archive
  PROVE  JobsInv'
<1>1. UNCHANGED <<jobs, env, sequential, spec>>
  BY DEF CancelRow, ClearReads, ClearWrites, Archive, Request
<1>2. \/ row' = row \/ row' = Withdrawn(row)
      \/ row' = [row EXCEPT !.status = "archived", !.authorized = FALSE]
  BY DEF CancelRow, ClearReads, ClearWrites, Archive
<1>3. RowFollows /\ (row'.status \notin Handed \/ row'.status = row.status)
  BY <1>1, <1>2
     DEF RowFollows, Withdrawn, Handed, RowStatuses, JobStatuses, Terminal, JobsInv, RunTypes,
         ValidHasWorker
<1> QED
  BY <1>1, <1>3, NoJobChanges

LEMMA JobRequestInv ==
  ASSUME JobsInv, NEW j \in Made, CancelJob(j) \/ StopQueued(j) \/ Directive(j)
  PROVE  JobsInv'
<1> USE DEF Terminal, Publishing
<1>0. /\ jobs \in [Jobs -> JobRecord] /\ j \in Jobs /\ JobInv(jobs[j]) /\ jobs[j] \in JobRecord
      /\ jobs[j].status \notin Terminal
  BY DEF JobsInv, RunTypes, Made, CancelJob, StopQueued, Directive, RestartJob, PausePublication,
         ResumePublication, Live
<1>1. UNCHANGED <<env, sequential, spec>>
  BY DEF CancelJob, StopQueued, Directive, RestartJob, PausePublication, ResumePublication, Request
<1>2. /\ Changes(j)
      /\ jobs'[j].status = "leased" => UNCHANGED jobs
  <2>1. CASE Stopped(j) /\ ~jobs[j].call
    BY <1>0, <2>1 DEF Stopped, Changes, JobInv, JobRecord, JobStatuses
  <2>2. CASE CancelJob(j)
    <3>1. CASE /\ jobs[j].status \in {"leased", "cancel_requested"}
               /\ jobs' = [jobs EXCEPT ![j].status = "cancel_requested", ![j].cancel = TRUE]
      BY <1>0, <3>1 DEF Changes, JobInv, JobRecord, JobStatuses
    <3> QED
      BY <1>0, <2>1, <2>2, <3>1 DEF CancelJob, JobInv
  <2>3. CASE StopQueued(j)
    BY <1>0, <2>3 DEF StopQueued, Changes, JobInv, JobRecord, JobStatuses
  <2>4. CASE RestartJob(j)
    BY <1>0, <2>4 DEF RestartJob, Changes, JobInv, JobRecord, JobStatuses
  <2>5. CASE PausePublication(j)
    BY <1>0, <2>5 DEF PausePublication, Changes, JobInv, JobRecord, JobStatuses
  <2>6. CASE ResumePublication(j)
    BY <1>0, <2>6 DEF ResumePublication, Changes, JobInv, JobRecord, JobStatuses
  <2> QED
    BY <2>2, <2>3, <2>4, <2>5, <2>6 DEF Directive
<1>3. \E status \in RowStatuses \ Handed :
        row' \in {row, [row EXCEPT !.status = status], Withdrawn(row)}
  BY DEF CancelJob, StopQueued, Directive, RestartJob, PausePublication, ResumePublication,
         Directs, Mirrored, RowStatuses, JobStatuses, Handed
<1>4. RowFollows /\ (row'.status \notin Handed \/ row'.status = row.status)
  BY <1>1, <1>3, RowWritten DEF Handed, JobsInv
<1> QED
  BY <1>0, <1>1, <1>2, <1>4, OneJobChanges

----------------------------------------------------------------------------
(* Workers                                                                 *)

LEMMA LeaseEndInv ==
  ASSUME JobsInv, NEW j \in Made, LeaseLost(j) \/ Fails(j) \/ Acknowledges(j)
  PROVE  JobsInv'
<1> USE DEF Terminal, Publishing
<1>0. /\ jobs \in [Jobs -> JobRecord] /\ j \in Jobs /\ JobInv(jobs[j]) /\ jobs[j] \in JobRecord
      /\ jobs[j].lease = "active" /\ jobs[j].status \notin Terminal /\ ~jobs[j].call
      /\ ~jobs[j].published
  BY DEF JobsInv, RunTypes, Made, LeaseLost, Fails, Acknowledges, JobInv
<1>1. UNCHANGED <<env, sequential, spec>>
  BY DEF LeaseLost, Fails, Acknowledges, Fault, Works
<1>2. CASE jobs' = [jobs EXCEPT ![j].status = "queued", ![j].lease = "none",
                                ![j].retries = @ + 1]
           /\ Retries(j) /\ row' = Mirrored(row, j, "queued")
  <2>1. MaxRetries \in Nat
    BY QueueBounds
  <2>2. Changes(j) /\ jobs'[j].status = "queued"
    BY <1>0, <1>2, <2>1 DEF Retries, Changes, JobInv, JobRecord, JobStatuses
  <2>3. "queued" \in RowStatuses /\ row' \in {row, [row EXCEPT !.status = "queued"]}
    BY <1>2 DEF Mirrored, RowStatuses, JobStatuses
  <2>4. RowFollows /\ (row'.status \notin Handed \/ row'.status = row.status)
    BY <1>1, <2>3, RowWritten DEF Handed, JobsInv
  <2> QED
    BY <1>1, <2>2, <2>4, OneJobChanges
<1>3. CASE /\ Stopped(j) \/ jobs' = [jobs EXCEPT ![j].status = "failed", ![j].lease = "none"]
           /\ \E status \in {"needs_attention", "failed"} :
                row' \in {Withdrawn(row), [row EXCEPT !.authorized = FALSE, !.status = status],
                         [status |-> status, authorized |-> FALSE, valid |-> FALSE]}
  <2>1. Changes(j) /\ jobs'[j].status \in Terminal
    BY <1>0, <1>3 DEF Stopped, Changes, JobInv, JobRecord, JobStatuses
  <2>2. {"needs_attention", "failed"} \subseteq RowStatuses
    BY DEF RowStatuses, JobStatuses
  <2>3. RowFollows
    BY <1>1, <1>3, <2>2, RowWritten DEF JobsInv
  <2> QED
    BY <1>0, <1>1, <2>1, <2>3, OneJobChanges
<1>4. CASE LeaseLost(j)
  BY <1>2, <1>3, <1>4 DEF LeaseLost
<1>5. CASE Fails(j)
  BY <1>3, <1>5 DEF Fails
<1>6. CASE Acknowledges(j)
  BY <1>3, <1>6 DEF Acknowledges
<1> QED
  BY <1>4, <1>5, <1>6

LEMMA PublicationInv ==
  ASSUME JobsInv, ~CommitMayFail, NEW j \in Made,
         Defer(j) \/ ComesBack(j) \/ Decide(j) \/ Publish(j) \/ CallDies(j)
  PROVE  JobsInv'
<1> USE DEF Terminal, Publishing
<1>0. /\ jobs \in [Jobs -> JobRecord] /\ j \in Jobs /\ JobInv(jobs[j]) /\ jobs[j] \in JobRecord
  BY DEF JobsInv, RunTypes, Made
<1>1. UNCHANGED <<env, sequential, spec>>
  BY DEF Defer, ComesBack, Decide, Publish, CallDies, Fault, Works
<1>2. Changes(j) /\ jobs'[j].status # "leased"
  <2>1. CASE Defer(j)
    BY <1>0, <2>1 DEF Defer, Changes, JobInv, JobRecord, JobStatuses
  <2>2. CASE ComesBack(j)
    BY <1>0, <2>2 DEF ComesBack, Changes, JobInv, JobRecord, JobStatuses
  <2>3. CASE Decide(j)
    BY <1>0, <2>3 DEF Decide, Changes, JobInv, JobRecord, JobStatuses
  <2>4. CASE Publish(j)
    BY <1>0, <2>4 DEF Publish, Changes, JobInv, JobRecord, JobStatuses
  <2>5. CASE CallDies(j)
    BY <1>0, <2>5 DEF CallDies, Changes, JobInv, JobRecord, JobStatuses
  <2> QED
    BY <2>1, <2>2, <2>3, <2>4, <2>5
<1>3. \E status \in {"publishing", "publication_pending"} :
        row' \in {row, [row EXCEPT !.status = status]}
  BY DEF Defer, ComesBack, Decide, Publish, CallDies, Mirrored
<1>4. {"publishing", "publication_pending"} \subseteq RowStatuses
  BY DEF RowStatuses, JobStatuses
<1>5. RowFollows /\ (row'.status \notin Handed \/ row'.status = row.status)
  BY <1>1, <1>3, <1>4, RowWritten DEF Handed, JobsInv
<1> QED
  BY <1>0, <1>1, <1>2, <1>5, OneJobChanges

(* A job that records its output is alive: its call is under way.          *)
LEMMA RecordsInv ==
  ASSUME JobsInv, NEW j \in Made, NEW status \in {row.status, "completed"},
         jobs[j].call, Records(j, status), UNCHANGED <<env, sequential>>
  PROVE  JobsInv'
<1> USE DEF Terminal, Publishing
<1>0. /\ jobs \in [Jobs -> JobRecord] /\ j \in Jobs /\ JobInv(jobs[j]) /\ jobs[j] \in JobRecord
      /\ jobs[j].status = "publication_pending" /\ jobs[j].held.worker \in Workers
  BY DEF JobsInv, RunTypes, Made, JobInv
<1> DEFINE js == Completed(j)
<1>1. /\ js \in [Jobs -> JobRecord] /\ JobInv(js[j]) /\ js[j].status = "completed"
      /\ js[j].kind = jobs[j].kind /\ js[j].bound = jobs[j].bound
      /\ \A k \in Jobs : k # j => js[k] = jobs[k]
  BY <1>0 DEF Completed, JobInv, JobRecord, JobStatuses
<1>2. \A k \in Made : js[k].status \in Terminal
  BY <1>0, <1>1 DEF JobsInv, OneLiveJob, Live, Made
<1> HIDE DEF js
<1>3. CASE jobs' = js /\ RowFollows
  BY <1>0, <1>1, <1>3, OneJobChanges DEF Changes
<1>4. CASE jobs[j].kind = "verify" /\ RecordVerification(j)
  <2> DEFINE verified == [planned |-> TRUE, verified |-> jobs[j].held]
             ready == [row EXCEPT !.status = "ready", !.valid = TRUE]
  <2>1. /\ verified \in [planned : BOOLEAN, verified : Binding]
        /\ verified.verified.worker \in Workers
    BY <1>0 DEF JobRecord
  <2>2. /\ ready \in [status : RowStatuses, authorized : BOOLEAN, valid : BOOLEAN]
        /\ [ready EXCEPT !.authorized = FALSE]
             \in [status : RowStatuses, authorized : BOOLEAN, valid : BOOLEAN]
    BY DEF JobsInv, RunTypes, RowStatuses
  <2>3. CASE jobs' = js /\ UNCHANGED <<row, spec>>
    BY <1>3, <2>3 DEF RowFollows, JobsInv, RunTypes, ValidHasWorker
  <2>4. CASE Enqueues("train", ready, verified, js)
    <3> HIDE DEF ready, verified
    <3>1. \A k \in Jobs : JobInv(js[k]) /\ js[k].kind = jobs[k].kind
      BY <1>1 DEF JobsInv
    <3> QED
      BY <1>1, <1>2, <2>1, <2>2, <2>4, <3>1, Enqueued
  <2>5. CASE jobs' = js /\ spec' = verified /\ row' = [ready EXCEPT !.authorized = FALSE]
    BY <1>3, <2>1, <2>2, <2>5 DEF RowFollows, ValidHasWorker
  <2> QED
    BY <1>4, <2>3, <2>4, <2>5 DEF RecordVerification, js
<1>5. CASE jobs' = js /\ row' = [row EXCEPT !.status = status] /\ UNCHANGED spec
  <2>1. status \in RowStatuses
    BY DEF JobsInv, RunTypes, RowStatuses, JobStatuses
  <2> QED
    BY <1>3, <1>5, <2>1, RowWritten DEF JobsInv
<1> QED
  BY <1>4, <1>5 DEF Records, js

LEMMA CommitInv ==
  ASSUME JobsInv, NEW j \in Made, Commit(j) \/ Reconcile(j)
  PROVE  JobsInv'
<1>1. JobInv(jobs[j]) /\ UNCHANGED <<env, sequential>>
  BY DEF JobsInv, Made, Commit, Reconcile, Works
<1>2. jobs[j].call /\ jobs[j].lease = "pending"
  BY <1>1 DEF Commit, Reconcile, Reconcilable, JobInv
<1>3. \E status \in {row.status, "completed"} : Records(j, status)
  BY <1>2 DEF Commit, Reconcile
<1> QED
  BY <1>1, <1>2, <1>3, RecordsInv

LEMMA IndexInv ==
  ASSUME JobsInv, NEW j \in Made, Index(j)
  PROVE  JobsInv'
<1>0. /\ jobs \in [Jobs -> JobRecord] /\ j \in Jobs /\ JobInv(jobs[j]) /\ jobs[j] \in JobRecord
  BY DEF JobsInv, RunTypes, Made
<1>1. Changes(j) /\ jobs'[j].status = "indexed"
  BY <1>0 DEF Index, Changes, JobInv, JobRecord, JobStatuses, Terminal, Publishing
<1>2. UNCHANGED <<env, sequential>>
  BY DEF Index, Works
<1>3. /\ row' \in [status : RowStatuses, authorized : BOOLEAN, valid : BOOLEAN]
      /\ row'.status = "indexed" /\ row'.valid = row.valid
  BY DEF Index, JobsInv, RunTypes, RowStatuses, JobStatuses, Terminal
<1>4. /\ spec' \in [planned : BOOLEAN, verified : Binding]
      /\ spec'.verified = spec.verified
  BY DEF Index, JobsInv, RunTypes
<1>5. RowFollows
  BY <1>2, <1>3, <1>4 DEF RowFollows, JobsInv, ValidHasWorker
<1> QED
  BY <1>1, <1>2, <1>3, <1>5, OneJobChanges DEF Handed

----------------------------------------------------------------------------
LEMMA CountsKept ==
  ASSUME CountTypes, Next
  PROVE  CountTypes'
<1>0. MaxRequests \in Nat /\ MaxFaults \in Nat
  BY QueueBounds
<1>1. ASSUME NEW kind, Request(kind), clearing' \in BOOLEAN
      PROVE  CountTypes'
  BY <1>0, <1>1 DEF Request, CountTypes
<1>2. CASE Fault \/ Works
  BY <1>0, <1>2 DEF Fault, Works, CountTypes
<1>3. CASE Operator
  <2>1. (\E kind : Request(kind)) /\ clearing' \in BOOLEAN
    BY <1>3 DEF Operator, Verify, Start, CancelRow, ClearReads, Archive, CancelJob, StopQueued,
                Directive, RestartJob, PausePublication, ResumePublication, CountTypes
  <2> QED
    BY <1>1, <2>1
<1>4. CASE ClearWrites
  BY <1>4 DEF ClearWrites, CountTypes
<1>5. CASE \E w \in Workers, e \in Envs : Poll(w, e)
  BY <1>0, <1>5 DEF Poll, CountTypes
<1>6. CASE \E j \in Made :
             \/ LeaseLost(j) \/ Fails(j) \/ Acknowledges(j) \/ Defer(j) \/ ComesBack(j)
             \/ Decide(j) \/ Publish(j) \/ CallDies(j) \/ Commit(j)
             \/ Reconcile(j) \/ Index(j)
  BY <1>2, <1>6 DEF LeaseLost, Fails, Acknowledges, Defer, ComesBack, Decide, Publish, CallDies,
                    Commit, Reconcile, Index
<1> QED
  BY <1>3, <1>4, <1>5, <1>6 DEF Next

LEMMA QueueInitInv == Init => QueueInv
<1> SUFFICES ASSUME Init
             PROVE  QueueInv
  OBVIOUS
<1>1. MaxRequests \in Nat /\ MaxFaults \in Nat /\ MaxJobs \in Nat
  BY QueueBounds
<1>2. Made = {} /\ \A j : ~Live(j)
  BY DEF Init, Made, NoJob, Live
<1>3. RunTypes
  BY NoJobType DEF Init, RunTypes, RowStatuses
<1>4. MadeInOrder
  BY <1>1, <1>2 DEF MadeInOrder
<1>5. \A j \in Jobs : JobInv(jobs[j])
  BY NoJobType DEF Init, NoJob, JobInv, Publishing
<1>6. OneLiveJob /\ LiveIsUnderWay /\ ValidHasWorker /\ RunningAsVerified
  BY <1>2 DEF Init, OneLiveJob, LiveIsUnderWay, ValidHasWorker, RunningAsVerified
<1>7. CountTypes
  <2>1. requests \in 0 .. MaxRequests /\ faults \in 0 .. MaxFaults
    BY <1>1 DEF Init
  <2>2. clearing \in BOOLEAN
    BY DEF Init
  <2> QED
    BY <2>1, <2>2 DEF CountTypes
<1> QED
  BY <1>3, <1>4, <1>5, <1>6, <1>7 DEF QueueInv, JobsInv

LEMMA NextKeepsJobs ==
  ASSUME ~CommitMayFail, JobsInv, Next
  PROVE  JobsInv'
<1>1. CASE Operator
  BY <1>1, VerifyInv, StartInv, RowRequestInv, JobRequestInv DEF Operator
<1>2. CASE ClearWrites
  BY <1>2, RowRequestInv
<1>3. CASE \E w \in Workers, e \in Envs : Poll(w, e)
  BY <1>3, PollInv
<1>4. CASE \E j \in Made :
             \/ LeaseLost(j) \/ Fails(j) \/ Acknowledges(j) \/ Defer(j) \/ ComesBack(j)
             \/ Decide(j) \/ Publish(j) \/ CallDies(j) \/ Commit(j)
             \/ Reconcile(j) \/ Index(j)
  BY <1>4, LeaseEndInv, PublicationInv, CommitInv, IndexInv
<1> QED
  BY <1>1, <1>2, <1>3, <1>4 DEF Next

LEMMA QueueStep ==
  ASSUME ~CommitMayFail, QueueInv, [Next]_vars
  PROVE  QueueInv'
<1>1. CASE Next
  BY <1>1, NextKeepsJobs, CountsKept DEF QueueInv
<1>2. CASE UNCHANGED vars
  BY <1>2 DEF vars, QueueInv, JobsInv, RunTypes, MadeInOrder, Made, OneLiveJob, Live,
              LiveIsUnderWay, ValidHasWorker, RunningAsVerified, CountTypes
<1> QED
  BY <1>1, <1>2

----------------------------------------------------------------------------
(* What needs no assumption about the transaction after a publish: types,  *)
(* that every training is bound to a known worker, and that one which is   *)
(* not divided into portable units runs there, as verified.                *)

(* Whoever publishes, or has published, is known.                          *)
PinnedJob(r) ==
  /\ r \in JobRecord
  /\ r.lease # "none" \/ r.call \/ r.published \/ r.status \in Publishing =>
       r.held.worker \in Workers
  /\ r.status = "leased" => r.lease = "active"
  /\ r.kind = "train" => r.bound.worker \in Workers

PinnedInv ==
  /\ RunTypes /\ ValidHasWorker /\ RunningAsVerified
  /\ \A j \in Jobs : PinnedJob(jobs[j])

(* A job changes and is not leased by the change.                          *)
Tame(r, q) ==
  /\ PinnedJob(q)
  /\ q.status = "leased" =>
       r.status = "leased" /\ q.held = r.held /\ q.kind = r.kind /\ q.bound = r.bound

LEMMA NoJobLeased ==
  ASSUME PinnedInv, RowFollows, env' = env, jobs' \in [Jobs -> JobRecord],
         \A k \in Jobs : Tame(jobs[k], jobs'[k])
  PROVE  PinnedInv'
<1>1. RunTypes' /\ ValidHasWorker' /\ \A k \in Jobs : PinnedJob(jobs'[k])
  BY DEF PinnedInv, RowFollows, RunTypes, Tame
<1>2. RunningAsVerified'
  <2> SUFFICES ASSUME NEW k \in Made', jobs'[k].kind = "train", ~sequential',
                      jobs'[k].status = "leased"
               PROVE  jobs'[k].bound = [worker |-> jobs'[k].held.worker,
                                        env |-> env'[jobs'[k].held.worker]]
    BY DEF RunningAsVerified
  <2>1. k \in Jobs
    BY DEF Made
  <2>2. /\ jobs[k].kind = "train" /\ jobs[k].status = "leased"
        /\ jobs'[k].held = jobs[k].held /\ jobs'[k].bound = jobs[k].bound
    BY <2>1 DEF Tame
  <2>3. k \in Made /\ ~sequential
    BY <2>1, <2>2 DEF Made, RowFollows
  <2> QED
    BY <2>2, <2>3 DEF PinnedInv, RunningAsVerified
<1> QED
  BY <1>1, <1>2 DEF PinnedInv

LEMMA OneJobTame ==
  ASSUME PinnedInv, NEW j \in Jobs, NEW q, jobs' = [jobs EXCEPT ![j] = q], Tame(jobs[j], q),
         RowFollows, env' = env
  PROVE  PinnedInv'
<1>1. jobs \in [Jobs -> JobRecord] /\ \A k \in Jobs : PinnedJob(jobs[k])
  BY DEF PinnedInv, RunTypes
<1>2. jobs' \in [Jobs -> JobRecord]
  BY <1>1 DEF Tame, PinnedJob
<1>3. \A k \in Jobs : Tame(jobs[k], jobs'[k])
  <2> TAKE k \in Jobs
  <2>1. CASE k = j
    BY <1>1, <2>1
  <2>2. CASE k # j
    <3>1. jobs'[k] = jobs[k] /\ PinnedJob(jobs[k])
      BY <1>1, <2>2
    <3> QED
      BY <3>1 DEF Tame
  <2> QED
    BY <2>1, <2>2
<1> QED
  BY <1>2, <1>3, NoJobLeased

(* The worker of a verified specification becomes that of the training.    *)
LEMMA PinnedEnqueued ==
  ASSUME PinnedInv, NEW kind \in {"verify", "train"}, NEW r, NEW s, NEW js,
         Enqueues(kind, r, s, js), UNCHANGED <<env, sequential>>,
         r \in [status : RowStatuses, authorized : BOOLEAN, valid : BOOLEAN],
         s \in [planned : BOOLEAN, verified : Binding],
         kind = "train" \/ r.valid => s.verified.worker \in Workers,
         js \in [Jobs -> JobRecord],
         \A k \in Jobs : Tame(jobs[k], js[k])
  PROVE  PinnedInv'
<1> DEFINE n == NextJob
           new == [NoJob EXCEPT !.kind = kind, !.status = "queued", !.bound = s.verified]
<1>1. n \in Jobs /\ jobs' = [js EXCEPT ![n] = new]
  BY DEF Enqueues
<1>2. new \in JobRecord /\ PinnedJob(new) /\ new.status = "queued"
  BY NoJobType DEF NoJob, PinnedJob, JobRecord, JobStatuses, Terminal, Publishing
<1> HIDE DEF n, new
<1>3. jobs' \in [Jobs -> JobRecord]
  BY <1>1, <1>2
<1>4. \A k \in Jobs : jobs'[k] = IF k = n THEN new ELSE js[k]
  BY <1>1
<1>5. \A k \in Jobs : Tame(jobs[k], new)
  BY <1>2 DEF Tame
<1>6. \A k \in Jobs : Tame(jobs[k], jobs'[k])
  BY <1>4, <1>5
<1>7. RowFollows
  <2>1. /\ row' \in [status : RowStatuses, authorized : BOOLEAN, valid : BOOLEAN]
        /\ row'.valid = r.valid
    BY DEF Enqueues, RowStatuses, JobStatuses
  <2>2. spec' \in [planned : BOOLEAN, verified : Binding] /\ spec'.verified = s.verified
    BY DEF Enqueues
  <2> QED
    BY <2>1, <2>2 DEF RowFollows, ValidHasWorker
<1> QED
  BY <1>3, <1>6, <1>7, NoJobLeased

LEMMA PinnedStays ==
  ASSUME PinnedInv
  PROVE  \A k \in Jobs : Tame(jobs[k], jobs[k])
BY DEF PinnedInv, Tame

(* Requests.                                                               *)
LEMMA PinnedRequests ==
  ASSUME PinnedInv, Verify \/ Start \/ CancelRow \/ ClearReads \/ ClearWrites \/ Archive
  PROVE  PinnedInv'
<1>0. /\ row \in [status : RowStatuses, authorized : BOOLEAN, valid : BOOLEAN]
      /\ spec \in [planned : BOOLEAN, verified : Binding]
      /\ jobs \in [Jobs -> JobRecord] /\ ValidHasWorker
  BY DEF PinnedInv, RunTypes
<1>1. UNCHANGED <<env, sequential>>
  BY DEF Verify, Start, CancelRow, ClearReads, ClearWrites, Archive, Request
<1>2. CASE Verify
  <2>1. PICK start \in BOOLEAN :
          Enqueues("verify", [row EXCEPT !.valid = FALSE, !.authorized = start],
                   [planned |-> TRUE, verified |-> Unbound], jobs)
    BY <1>2 DEF Verify
  <2> DEFINE r == [row EXCEPT !.valid = FALSE, !.authorized = start]
             s == [planned |-> TRUE, verified |-> Unbound]
  <2>2. /\ r \in [status : RowStatuses, authorized : BOOLEAN, valid : BOOLEAN] /\ ~r.valid
        /\ s \in [planned : BOOLEAN, verified : Binding]
    BY <1>0, NoJobType
  <2>3. Enqueues("verify", r, s, jobs)
    BY <2>1
  <2> HIDE DEF r, s
  <2> QED
    BY <1>0, <1>1, <2>2, <2>3, PinnedStays, PinnedEnqueued
<1>3. CASE Start
  <2> DEFINE r == [row EXCEPT !.authorized = TRUE]
  <2>1. Enqueues("train", r, spec, jobs) /\ spec.verified.worker \in Workers
    BY <1>0, <1>3 DEF Start, ValidHasWorker
  <2>2. r \in [status : RowStatuses, authorized : BOOLEAN, valid : BOOLEAN]
    BY <1>0
  <2> HIDE DEF r
  <2> QED
    BY <1>0, <1>1, <2>1, <2>2, PinnedStays, PinnedEnqueued
<1>4. CASE CancelRow \/ ClearReads \/ ClearWrites \/ Archive
  <2>1. UNCHANGED <<jobs, spec>>
    BY <1>4 DEF CancelRow, ClearReads, ClearWrites, Archive, Request
  <2>2. \/ row' = row \/ row' = Withdrawn(row)
        \/ row' = [row EXCEPT !.authorized = FALSE, !.status = "archived"]
    BY <1>4 DEF CancelRow, ClearReads, ClearWrites, Archive
  <2>3. "archived" \in RowStatuses
    BY DEF RowStatuses
  <2>4. RowFollows
    BY <1>0, <1>1, <2>1, <2>2, <2>3, RowWritten DEF PinnedInv
  <2> QED
    BY <1>0, <1>1, <2>1, <2>4, PinnedStays, NoJobLeased
<1> QED
  BY <1>2, <1>3, <1>4

LEMMA PinnedJobRequest ==
  ASSUME PinnedInv, NEW j \in Made, CancelJob(j) \/ StopQueued(j) \/ Directive(j)
  PROVE  PinnedInv'
<1> USE DEF Terminal, Publishing
<1>0. /\ jobs \in [Jobs -> JobRecord] /\ j \in Jobs /\ PinnedJob(jobs[j])
      /\ jobs[j] \in JobRecord
  BY DEF PinnedInv, RunTypes, Made
<1>1. UNCHANGED <<env, sequential, spec>>
  BY DEF CancelJob, StopQueued, Directive, RestartJob, PausePublication, ResumePublication, Request
<1>2. \E q : jobs' = [jobs EXCEPT ![j] = q] /\ Tame(jobs[j], q)
  <2>1. CASE CancelJob(j)
    <3>1. CASE Stopped(j)
      <4> DEFINE q == [jobs[j] EXCEPT !.status = "cancelled", !.lease = "none", !.cancel = TRUE]
      <4>1. jobs' = [jobs EXCEPT ![j] = q] /\ Tame(jobs[j], q)
        BY <1>0, <3>1 DEF Stopped, Tame, PinnedJob, JobRecord, JobStatuses
      <4> QED
        BY <4>1
    <3>2. CASE jobs' = [jobs EXCEPT ![j].status = "cancel_requested", ![j].cancel = TRUE]
      <4> DEFINE q == [jobs[j] EXCEPT !.status = "cancel_requested", !.cancel = TRUE]
      <4>1. jobs' = [jobs EXCEPT ![j] = q] /\ Tame(jobs[j], q)
        BY <1>0, <3>2 DEF Tame, PinnedJob, JobRecord, JobStatuses
      <4> QED
        BY <4>1
    <3> QED
      BY <2>1, <3>1, <3>2 DEF CancelJob
  <2>2. CASE StopQueued(j)
    <3> DEFINE q == [jobs[j] EXCEPT !.status = "cancelled"]
    <3>1. jobs' = [jobs EXCEPT ![j] = q] /\ Tame(jobs[j], q)
      BY <1>0, <2>2 DEF StopQueued, Tame, PinnedJob, JobRecord, JobStatuses
    <3> QED
      BY <3>1
  <2>3. CASE RestartJob(j)
    <3>1. CASE UNCHANGED jobs
      <4>1. jobs' = [jobs EXCEPT ![j] = jobs[j]] /\ Tame(jobs[j], jobs[j])
        BY <1>0, <3>1 DEF Tame
      <4> QED
        BY <4>1
    <3>2. CASE jobs' = [jobs EXCEPT ![j].status = "queued", ![j].lease = "none",
                                    ![j].cancel = FALSE, ![j].published = FALSE]
      <4> DEFINE q == [jobs[j] EXCEPT !.status = "queued", !.lease = "none", !.cancel = FALSE,
                                      !.published = FALSE]
      <4>1. jobs' = [jobs EXCEPT ![j] = q] /\ Tame(jobs[j], q)
        BY <1>0, <3>2 DEF Tame, PinnedJob, JobRecord, JobStatuses
      <4> QED
        BY <4>1
    <3> QED
      BY <2>3, <3>1, <3>2 DEF RestartJob
  <2>4. CASE PausePublication(j)
    <3> DEFINE q == [jobs[j] EXCEPT !.status = "publication_paused", !.lease = "pending",
                                    !.cancel = FALSE]
    <3>1. jobs' = [jobs EXCEPT ![j] = q] /\ Tame(jobs[j], q)
      BY <1>0, <2>4 DEF PausePublication, Tame, PinnedJob, JobRecord, JobStatuses
    <3> QED
      BY <3>1
  <2>5. CASE ResumePublication(j)
    <3> DEFINE q == [jobs[j] EXCEPT !.status = "publication_pending", !.lease = "pending",
                                    !.cancel = FALSE]
    <3>1. jobs' = [jobs EXCEPT ![j] = q] /\ Tame(jobs[j], q)
      BY <1>0, <2>5 DEF ResumePublication, Tame, PinnedJob, JobRecord, JobStatuses
    <3> QED
      BY <3>1
  <2> QED
    BY <2>1, <2>2, <2>3, <2>4, <2>5 DEF Directive
<1>3. \E status \in RowStatuses :
        row' \in {row, [row EXCEPT !.status = status], Withdrawn(row)}
  BY DEF CancelJob, StopQueued, Directive, RestartJob, PausePublication, ResumePublication,
         Directs, Mirrored, RowStatuses, JobStatuses
<1>4. RowFollows
  BY <1>1, <1>3, RowWritten DEF PinnedInv
<1> QED
  BY <1>0, <1>1, <1>2, <1>4, OneJobTame

(* Workers.                                                                *)
LEMMA PinnedLeaseStep ==
  ASSUME PinnedInv, NEW j \in Made,
         \/ LeaseLost(j) \/ Fails(j) \/ Acknowledges(j) \/ Defer(j) \/ ComesBack(j)
         \/ Decide(j) \/ Publish(j) \/ CallDies(j)
  PROVE  PinnedInv'
<1> USE DEF Terminal, Publishing
<1>0. /\ jobs \in [Jobs -> JobRecord] /\ j \in Jobs /\ PinnedJob(jobs[j])
      /\ jobs[j] \in JobRecord
  BY DEF PinnedInv, RunTypes, Made
<1>1. UNCHANGED <<env, sequential, spec>>
  BY DEF LeaseLost, Fails, Acknowledges, Defer, ComesBack, Decide, Publish, CallDies, Fault, Works
<1>2. \E q : jobs' = [jobs EXCEPT ![j] = q] /\ Tame(jobs[j], q)
  <2>1. CASE Stopped(j)
    <3> DEFINE q == [jobs[j] EXCEPT !.status = "cancelled", !.lease = "none", !.cancel = TRUE]
    <3>1. jobs' = [jobs EXCEPT ![j] = q] /\ Tame(jobs[j], q)
      BY <1>0, <2>1 DEF Stopped, Tame, PinnedJob, JobRecord, JobStatuses
    <3> QED
      BY <3>1
  <2>2. CASE jobs' = [jobs EXCEPT ![j].status = "failed", ![j].lease = "none"]
    <3> DEFINE q == [jobs[j] EXCEPT !.status = "failed", !.lease = "none"]
    <3>1. jobs' = [jobs EXCEPT ![j] = q] /\ Tame(jobs[j], q)
      BY <1>0, <2>2 DEF Tame, PinnedJob, JobRecord, JobStatuses
    <3> QED
      BY <3>1
  <2>3. CASE /\ jobs' = [jobs EXCEPT ![j].status = "queued", ![j].lease = "none",
                                     ![j].retries = @ + 1]
             /\ Retries(j)
    <3> DEFINE q == [jobs[j] EXCEPT !.status = "queued", !.lease = "none", !.retries = @ + 1]
    <3>1. jobs' = [jobs EXCEPT ![j] = q]
      BY <1>0, <2>3
    <3>2. jobs[j].retries + 1 \in 0 .. MaxRetries
      BY <1>0, <2>3, QueueBounds DEF Retries, JobRecord
    <3>3. Tame(jobs[j], q)
      BY <1>0, <3>2 DEF Tame, PinnedJob, JobRecord, JobStatuses
    <3> QED
      BY <3>1, <3>3
  <2>4. CASE Defer(j)
    <3> DEFINE q == [jobs[j] EXCEPT !.status = "publication_pending", !.lease = "pending"]
    <3>1. jobs' = [jobs EXCEPT ![j] = q] /\ Tame(jobs[j], q)
      BY <1>0, <2>4 DEF Defer, Tame, PinnedJob, JobRecord, JobStatuses
    <3> QED
      BY <3>1
  <2>5. CASE ComesBack(j)
    <3> DEFINE q == [jobs[j] EXCEPT !.status = "publishing", !.lease = "active"]
    <3>1. jobs' = [jobs EXCEPT ![j] = q] /\ Tame(jobs[j], q)
      BY <1>0, <2>5 DEF ComesBack, Tame, PinnedJob, JobRecord, JobStatuses
    <3> QED
      BY <3>1
  <2>6. CASE Decide(j)
    <3> DEFINE q == [jobs[j] EXCEPT !.status = "publication_pending", !.lease = "pending",
                                    !.call = TRUE]
    <3>1. jobs' = [jobs EXCEPT ![j] = q] /\ Tame(jobs[j], q)
      BY <1>0, <2>6 DEF Decide, Tame, PinnedJob, JobRecord, JobStatuses
    <3> QED
      BY <3>1
  <2>7. CASE Publish(j)
    <3> DEFINE q == [jobs[j] EXCEPT !.published = TRUE]
    <3>1. jobs' = [jobs EXCEPT ![j] = q] /\ Tame(jobs[j], q)
      BY <1>0, <2>7 DEF Publish, Tame, PinnedJob, JobRecord, JobStatuses
    <3> QED
      BY <3>1
  <2>8. CASE CallDies(j)
    <3> DEFINE q == [jobs[j] EXCEPT !.call = FALSE]
    <3>1. jobs' = [jobs EXCEPT ![j] = q] /\ Tame(jobs[j], q)
      BY <1>0, <2>8 DEF CallDies, Tame, PinnedJob, JobRecord, JobStatuses
    <3> QED
      BY <3>1
  <2> QED
    BY <2>1, <2>2, <2>3, <2>4, <2>5, <2>6, <2>7, <2>8 DEF LeaseLost, Fails, Acknowledges
<1>3. \E status \in RowStatuses :
        row' \in {row, [row EXCEPT !.status = status], Withdrawn(row),
                  [row EXCEPT !.authorized = FALSE, !.status = status],
                  [status |-> status, authorized |-> FALSE, valid |-> FALSE]}
  <2>1. {"queued", "failed", "needs_attention", "publishing", "publication_pending"}
          \subseteq RowStatuses
    BY DEF RowStatuses, JobStatuses
  <2> QED
    BY <2>1 DEF LeaseLost, Fails, Acknowledges, Defer, ComesBack, Decide, Publish, CallDies,
                Mirrored
<1>4. RowFollows
  BY <1>1, <1>3, RowWritten DEF PinnedInv
<1> QED
  BY <1>0, <1>1, <1>2, <1>4, OneJobTame

(* Output is recorded of a known worker, whatever became of its job.       *)
LEMMA PinnedRecords ==
  ASSUME PinnedInv, NEW j \in Made, jobs[j].published,
         NEW status \in {row.status, "completed"}, Records(j, status),
         UNCHANGED <<env, sequential>>
  PROVE  PinnedInv'
<1> USE DEF Terminal, Publishing
<1>0. /\ jobs \in [Jobs -> JobRecord] /\ j \in Jobs /\ PinnedJob(jobs[j])
      /\ jobs[j] \in JobRecord /\ jobs[j].held \in Binding
      /\ row \in [status : RowStatuses, authorized : BOOLEAN, valid : BOOLEAN]
      /\ spec \in [planned : BOOLEAN, verified : Binding]
      /\ RunTypes /\ ValidHasWorker
  BY DEF PinnedInv, RunTypes, Made, JobRecord
<1> DEFINE q == [jobs[j] EXCEPT !.lease = "none", !.call = FALSE,
                   !.status = IF @ \in {"indexed", "cancelled"} THEN @ ELSE "completed"]
           js == [jobs EXCEPT ![j] = q]
<1>1. Completed(j) = js
  BY <1>0 DEF Completed
<1>2. Tame(jobs[j], q)
  BY <1>0 DEF Tame, PinnedJob, JobRecord, JobStatuses
<1> HIDE DEF q
<1>3. js \in [Jobs -> JobRecord] /\ \A k \in Jobs : Tame(jobs[k], js[k])
  <2>1. q \in JobRecord
    BY <1>2 DEF Tame, PinnedJob
  <2>2. \A k \in Jobs : js[k] = IF k = j THEN q ELSE jobs[k]
    BY <1>0
  <2> QED
    BY <1>0, <1>2, <2>1, <2>2, PinnedStays
<1>4. CASE jobs' = js /\ RowFollows
  BY <1>0, <1>2, <1>4, OneJobTame
<1>5. CASE jobs[j].kind = "verify" /\ RecordVerification(j)
  <2> DEFINE verified == [planned |-> TRUE, verified |-> jobs[j].held]
             ready == [row EXCEPT !.status = "ready", !.valid = TRUE]
  <2>1. /\ verified \in [planned : BOOLEAN, verified : Binding]
        /\ verified.verified.worker \in Workers
    BY <1>0 DEF PinnedJob
  <2>2. /\ ready \in [status : RowStatuses, authorized : BOOLEAN, valid : BOOLEAN]
        /\ [ready EXCEPT !.authorized = FALSE]
             \in [status : RowStatuses, authorized : BOOLEAN, valid : BOOLEAN]
    BY <1>0 DEF RowStatuses
  <2>3. CASE jobs' = js /\ UNCHANGED <<row, spec>>
    <3>1. row' \in {row} /\ row.status \in RowStatuses
      BY <1>0, <2>3
    <3>2. RowFollows
      BY <1>0, <2>3, <3>1, RowWritten
    <3> QED
      BY <1>4, <2>3, <3>2
  <2>4. CASE Enqueues("train", ready, verified, js)
    <3> HIDE DEF ready, verified, js
    <3> QED
      BY <1>3, <2>1, <2>2, <2>4, PinnedEnqueued
  <2>5. CASE jobs' = js /\ spec' = verified /\ row' = [ready EXCEPT !.authorized = FALSE]
    <3>1. RowFollows
      BY <2>1, <2>2, <2>5 DEF RowFollows, ValidHasWorker
    <3> QED
      BY <1>4, <2>5, <3>1
  <2> QED
    BY <1>1, <1>5, <2>3, <2>4, <2>5 DEF RecordVerification
<1>6. CASE jobs' = js /\ row' = [row EXCEPT !.status = status] /\ UNCHANGED spec
  <2>1. status \in RowStatuses
    BY <1>0 DEF RowStatuses, JobStatuses
  <2>2. RowFollows
    BY <1>0, <1>6, <2>1, RowWritten
  <2> QED
    BY <1>4, <1>6, <2>2
<1> QED
  BY <1>1, <1>5, <1>6 DEF Records

LEMMA PinnedCompletes ==
  ASSUME PinnedInv, NEW j \in Made, Commit(j) \/ Reconcile(j) \/ Index(j)
  PROVE  PinnedInv'
<1>0. /\ jobs \in [Jobs -> JobRecord] /\ j \in Jobs /\ PinnedJob(jobs[j])
      /\ jobs[j] \in JobRecord /\ UNCHANGED <<env, sequential>>
  BY DEF PinnedInv, RunTypes, Made, Commit, Reconcile, Index, Works
<1>1. CASE jobs[j].published /\ \E status \in {row.status, "completed"} : Records(j, status)
  BY <1>0, <1>1, PinnedRecords
<1>2. CASE jobs' = [jobs EXCEPT ![j].call = FALSE] /\ UNCHANGED <<row, spec>>
  <2> DEFINE q == [jobs[j] EXCEPT !.call = FALSE]
  <2>1. jobs' = [jobs EXCEPT ![j] = q] /\ Tame(jobs[j], q)
    BY <1>0, <1>2 DEF Tame, PinnedJob, JobRecord
  <2>2. RowFollows
    BY <1>0, <1>2 DEF PinnedInv, RunTypes, RowFollows, ValidHasWorker
  <2> QED
    BY <1>0, <2>1, <2>2, OneJobTame
<1>3. CASE Index(j)
  <2> DEFINE q == [jobs[j] EXCEPT !.status = "indexed"]
  <2>1. jobs' = [jobs EXCEPT ![j] = q] /\ Tame(jobs[j], q)
    BY <1>0, <1>3 DEF Index, Tame, PinnedJob, JobRecord, JobStatuses, Terminal, Publishing
  <2>2. /\ row' \in [status : RowStatuses, authorized : BOOLEAN, valid : BOOLEAN]
        /\ row'.valid = row.valid
    BY <1>3 DEF Index, PinnedInv, RunTypes, RowStatuses, JobStatuses, Terminal
  <2>3. /\ spec' \in [planned : BOOLEAN, verified : Binding]
        /\ spec'.verified = spec.verified
    BY <1>3 DEF Index, PinnedInv, RunTypes
  <2>4. RowFollows
    BY <1>0, <2>2, <2>3 DEF PinnedInv, RowFollows, ValidHasWorker
  <2> QED
    BY <1>0, <2>1, <2>4, OneJobTame
<1>4. CASE Commit(j)
  BY <1>1, <1>2, <1>4 DEF Commit
<1>5. CASE Reconcile(j)
  BY <1>1, <1>5 DEF Reconcile, Reconcilable
<1> QED
  BY <1>3, <1>4, <1>5

(* A poll that leases a training is made with what verified it; one that   *)
(* states other capabilities is of a worker that holds no lease.           *)
LEMMA PinnedPoll ==
  ASSUME PinnedInv, NEW w \in Workers, NEW e \in Envs, Poll(w, e)
  PROVE  PinnedInv'
<1>0. /\ jobs \in [Jobs -> JobRecord] /\ env \in [Workers -> Envs]
      /\ \A k \in Jobs : PinnedJob(jobs[k])
      /\ row \in [status : RowStatuses, authorized : BOOLEAN, valid : BOOLEAN]
      /\ spec \in [planned : BOOLEAN, verified : Binding]
      /\ ~Leased(w) /\ env' = [env EXCEPT ![w] = e] /\ sequential' = sequential
      /\ ValidHasWorker
  BY DEF Poll, PinnedInv, RunTypes
<1>1. ASSUME NEW k \in Made, jobs[k].status = "leased"
      PROVE  env'[jobs[k].held.worker] = env[jobs[k].held.worker]
  <2>1. PinnedJob(jobs[k]) /\ jobs[k] \in JobRecord
    BY <1>0 DEF Made
  <2>2. jobs[k].held.worker \in Workers /\ jobs[k].held.worker # w
    BY <1>0, <1>1, <2>1 DEF PinnedJob, Leased
  <2> QED
    BY <1>0, <2>2
<1>2. ASSUME jobs' \in [Jobs -> JobRecord], RowFollows,
             \A k \in Jobs : PinnedJob(jobs'[k]),
             \A k \in Jobs : jobs'[k].status = "leased" /\ ~sequential
                               /\ jobs'[k].kind = "train" =>
               \/ jobs'[k] = jobs[k]
               \/ jobs'[k].bound = [worker |-> w, env |-> e] /\ jobs'[k].held.worker = w
      PROVE  PinnedInv'
  <2>1. RunTypes'
    BY <1>0, <1>2 DEF PinnedInv, RunTypes, RowFollows
  <2>2. RunningAsVerified'
    <3> SUFFICES ASSUME NEW k \in Made', jobs'[k].kind = "train", ~sequential',
                        jobs'[k].status = "leased"
                 PROVE  jobs'[k].bound = [worker |-> jobs'[k].held.worker,
                                          env |-> env'[jobs'[k].held.worker]]
      BY DEF RunningAsVerified
    <3>1. k \in Jobs /\ ~sequential
      BY <1>0 DEF Made
    <3>2. CASE jobs'[k] = jobs[k]
      <4>1. k \in Made
        BY <3>1, <3>2 DEF Made
      <4> QED
        BY <1>1, <3>1, <3>2, <4>1 DEF PinnedInv, RunningAsVerified
    <3>3. CASE jobs'[k].bound = [worker |-> w, env |-> e] /\ jobs'[k].held.worker = w
      BY <1>0, <3>3
    <3> QED
      BY <1>2, <3>1, <3>2, <3>3
  <2> QED
    BY <1>2, <2>1, <2>2 DEF PinnedInv, RowFollows
<1>3. CASE Outdated(w, e) /\ Invalidates
  <2> DEFINE over(r) == IF r.status = "queued" THEN [r EXCEPT !.status = "cancelled"] ELSE r
  <2>1. jobs' = [k \in Jobs |-> over(jobs[k])]
    BY <1>3 DEF Invalidates
  <2>2. \A r \in JobRecord : PinnedJob(r) =>
          /\ over(r) \in JobRecord /\ PinnedJob(over(r))
          /\ over(r).status = "leased" => over(r) = r
    BY DEF PinnedJob, JobRecord, JobStatuses, Terminal, Publishing
  <2> HIDE DEF over
  <2>3. \A k \in Jobs : jobs[k] \in JobRecord /\ jobs'[k] = over(jobs[k])
    BY <1>0, <2>1
  <2>4. jobs' \in [Jobs -> JobRecord]
    BY <1>0, <2>1, <2>2
  <2>5. RowFollows
    BY <1>0, <1>3 DEF Invalidates, RowFollows, ValidHasWorker, RowStatuses
  <2> QED
    BY <1>0, <1>2, <2>2, <2>3, <2>4, <2>5
<1>4. ASSUME NEW j \in Made, Leases(w, e, j)
      PROVE  PinnedInv'
  <2> DEFINE held == [worker |-> w, env |-> e]
             q == [jobs[j] EXCEPT !.status = "leased", !.lease = "active", !.held = held,
                                  !.published = FALSE]
  <2>1. j \in Jobs /\ PinnedJob(jobs[j]) /\ jobs[j] \in JobRecord
    BY <1>0 DEF Made
  <2>2. jobs' = [jobs EXCEPT ![j] = q] /\ spec' = spec /\ row' = Mirrored(row, j, "leased")
    BY <1>0, <1>4, <2>1 DEF Leases
  <2>3. held \in Binding /\ held.worker = w
    BY DEF Binding
  <2>4. /\ q \in JobRecord /\ PinnedJob(q) /\ q.held = held
        /\ q.kind = jobs[j].kind /\ q.bound = jobs[j].bound
    BY <2>1, <2>3 DEF PinnedJob, JobRecord, JobStatuses, Terminal, Publishing
  <2>5. q.kind = "train" /\ ~sequential => q.bound = held
    <3> SUFFICES ASSUME q.kind = "train", ~sequential
                 PROVE  q.bound = held
      OBVIOUS
    <3>1. jobs[j].bound # Unbound
      BY <2>4, <2>1, QueueBounds DEF PinnedJob, Unbound
    <3> QED
      BY <1>4, <2>4, <3>1 DEF Leases, CanExecute, Followed
  <2> HIDE DEF q
  <2>6. jobs' \in [Jobs -> JobRecord] /\ \A k \in Jobs : jobs'[k] = IF k = j THEN q ELSE jobs[k]
    BY <1>0, <2>2, <2>4
  <2>7. RowFollows
    <3>1. "leased" \in RowStatuses /\ row' \in {row, [row EXCEPT !.status = "leased"]}
      BY <2>2 DEF Mirrored, RowStatuses, JobStatuses
    <3> QED
      BY <1>0, <2>2, <3>1, RowWritten DEF PinnedInv
  <2>8. \A k \in Jobs : PinnedJob(jobs'[k])
    BY <1>0, <2>4, <2>6
  <2>9. \A k \in Jobs : jobs'[k].status = "leased" /\ ~sequential
                          /\ jobs'[k].kind = "train" =>
          \/ jobs'[k] = jobs[k]
          \/ jobs'[k].bound = [worker |-> w, env |-> e] /\ jobs'[k].held.worker = w
    BY <2>3, <2>4, <2>5, <2>6
  <2> QED
    BY <1>2, <2>6, <2>7, <2>8, <2>9
<1>5. CASE UNCHANGED <<row, spec, jobs>>
  <2>1. RowFollows
    BY <1>0, <1>5 DEF RowFollows, ValidHasWorker
  <2> QED
    BY <1>0, <1>2, <1>5, <2>1
<1> QED
  BY <1>3, <1>4, <1>5 DEF Poll

LEMMA PinnedStep ==
  ASSUME PinnedInv, [Next]_vars
  PROVE  PinnedInv'
<1>1. CASE Operator
  BY <1>1, PinnedRequests, PinnedJobRequest DEF Operator
<1>2. CASE ClearWrites
  BY <1>2, PinnedRequests
<1>3. CASE \E w \in Workers, e \in Envs : Poll(w, e)
  BY <1>3, PinnedPoll
<1>4. CASE \E j \in Made :
             \/ LeaseLost(j) \/ Fails(j) \/ Acknowledges(j) \/ Defer(j) \/ ComesBack(j)
             \/ Decide(j) \/ Publish(j) \/ CallDies(j) \/ Commit(j)
             \/ Reconcile(j) \/ Index(j)
  BY <1>4, PinnedLeaseStep, PinnedCompletes
<1>5. CASE UNCHANGED vars
  BY <1>5 DEF vars, PinnedInv, RunTypes, Made, ValidHasWorker, RunningAsVerified
<1> QED
  BY <1>1, <1>2, <1>3, <1>4, <1>5 DEF Next

LEMMA PinnedInit == Init => PinnedInv
<1> SUFFICES ASSUME Init
             PROVE  PinnedInv
  OBVIOUS
<1>1. RunTypes /\ ValidHasWorker /\ RunningAsVerified
  BY QueueInitInv DEF QueueInv, JobsInv
<1>2. \A j \in Jobs : PinnedJob(jobs[j])
  BY NoJobType DEF Init, NoJob, PinnedJob, Publishing
<1> QED
  BY <1>1, <1>2 DEF PinnedInv

----------------------------------------------------------------------------
(* The row, its specification and its jobs agree, as long as the           *)
(* transaction after a publish does not fail.                              *)
THEOREM QueueInductive == ~CommitMayFail /\ Spec => []QueueInv
<1> SUFFICES ASSUME ~CommitMayFail
             PROVE  Spec => []QueueInv
  OBVIOUS
<1>1. QueueInv /\ [Next]_vars => QueueInv'
  BY QueueStep
<1> QED
  BY <1>1, QueueInitInv, PTL DEF Spec

(* However requests, lost leases, restarted workers and reconciliations    *)
(* meet, no two jobs of a queued run are alive.                            *)
THEOREM NoDuplicate == ~CommitMayFail /\ Spec => []OneLiveJob
<1>1. QueueInv => OneLiveJob
  BY DEF QueueInv, JobsInv
<1> QED
  BY <1>1, QueueInductive, PTL

(* A training is bound to a known worker, and so is every publication,     *)
(* whether or not that transaction may fail.                               *)
THEOREM PinnedInductive == Spec => [](PinnedInv /\ CountTypes)
<1>1. Init => PinnedInv /\ CountTypes
  BY PinnedInit, QueueInitInv DEF QueueInv
<1>2. PinnedInv /\ CountTypes /\ [Next]_vars => (PinnedInv /\ CountTypes)'
  <2>1. CountTypes /\ UNCHANGED vars => CountTypes'
    BY DEF vars, CountTypes
  <2> QED
    BY <2>1, PinnedStep, CountsKept
<1> QED
  BY <1>1, <1>2, PTL DEF Spec

(* Types, for any number of workers, jobs, requests and faults.            *)
THEOREM QueueTypeCorrect == Spec => []QueueTypeOK
<1>1. PinnedInv /\ CountTypes => QueueTypeOK
  BY DEF PinnedInv, RunTypes, CountTypes, QueueTypeOK
<1> QED
  BY <1>1, PinnedInductive, PTL

(* A training that is not divided into portable units runs on the worker   *)
(* that verified it with the capabilities it had then, even where a stale  *)
(* verification makes two trainings of one run.                            *)
THEOREM RunsAsVerified == Spec => []RunningAsVerified
<1>1. PinnedInv /\ CountTypes => RunningAsVerified
  BY DEF PinnedInv
<1> QED
  BY <1>1, PinnedInductive, PTL
=============================================================================

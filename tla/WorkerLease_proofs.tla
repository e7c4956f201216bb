------------------------- MODULE WorkerLease_proofs -------------------------
(***************************************************************************)
(* Safety of the worker-lease protocol for any number of jobs, workers,    *)
(* attempts and retries.                                                   *)
(*                                                                         *)
(* Almost every action rewrites the record of one job, so the inductive    *)
(* invariant IInv is a property JobInv of each record, and the proof has   *)
(* one lemma per action: the record it writes satisfies JobInv if the one  *)
(* it read did.                                                            *)
(***************************************************************************)
EXTENDS WorkerLease, TLAPS

(* Nothing is known of an attempt that was not issued yet.                 *)
Unissued(r) ==
  \A n \in Attempts : n > r.issued =>
    /\ r.lease[n] = "none" /\ r.attempt[n] = "none" /\ r.store[n] = "none"
    /\ ~r.output[n] /\ r.completing[n] = "idle"

LiveIsLatest(r) ==
  \A n \in Attempts : Live(r, n) => n = r.issued /\ r.status \in HeldStatuses

OpenIffLive(r) ==
  \A n \in Attempts : r.attempt[n] \in OpenAttempts <=> Live(r, n)

(* A held job that is not being cancelled has a live lease.                *)
OwnedStatuses == HeldStatuses \ {"cancel_requested"}
OwnedHasLease(r) ==
  r.status \in OwnedStatuses => r.issued \in Attempts /\ Live(r, r.issued)

(* Output belongs to the latest attempt, and its job is over.              *)
OutputIsLatest(r) ==
  \A n \in Attempts : r.output[n] =>
    /\ n = r.issued
    /\ r.lease[n] = "completed"
    /\ r.store[n] = "published"
    /\ r.status \in {"completed", "indexed", "cancelled"}

CompletedHasOutput(r) ==
  r.status \in {"completed", "indexed"} => r.issued # 0 /\ r.output[r.issued]

DirectiveHasLease(r) == r.open.action # "none" => r.open.lease \in Attempts

(* Why reconciliation cannot finish what an operator fenced.               *)
FencedIsBarred(r) ==
  \A n \in Attempts : r.lease[n] \in FencedStates /\ ~r.output[n] =>
    n \in r.barred \/ (r.cancel /\ r.status = "cancelled")

JobInv(r) ==
  /\ r \in JobRecord
  /\ Unissued(r) /\ LiveIsLatest(r) /\ OpenIffLive(r) /\ OwnedHasLease(r)
  /\ OutputIsLatest(r) /\ CompletedHasOutput(r)
  /\ DirectiveHasLease(r) /\ FencedIsBarred(r)

IInv == TypeOK /\ \A j \in Jobs : JobInv(job[j])

(* What a step may do to the attempts of a job: the steps of the register, *)
(* and who may commit.                                                     *)
Keeps(r, s) ==
  /\ s.issued = r.issued /\ s.output = r.output
  /\ \A n \in Attempts : Live(s, n) <=> Live(r, n)

Drops(r, s) ==
  /\ s.issued = r.issued /\ s.output = r.output
  /\ \A n \in Attempts : ~Live(s, n)

Issues(r, s) ==
  /\ s.issued = r.issued + 1
  /\ \A n \in Attempts : ~r.output[n] /\ ~s.output[n]
  /\ \A n \in Attempts : Live(s, n) <=> n = s.issued

Commits(r, s) ==
  /\ s.issued = r.issued /\ r.issued \in Attempts
  /\ r.lease[r.issued] \notin FencedStates
  /\ \A n \in Attempts : ~r.output[n] /\ (s.output[n] <=> n = r.issued)
  /\ \A n \in Attempts : ~Live(s, n)

JobStep(r, s) == Keeps(r, s) \/ Drops(r, s) \/ Issues(r, s) \/ Commits(r, s)

----------------------------------------------------------------------------
(* The ways an action can treat the attempts of its job.                   *)

(* Every lease and attempt row is left alone; the status may follow.       *)
Same(r, s) ==
  /\ s.issued = r.issued /\ s.lease = r.lease /\ s.output = r.output
  /\ s.attempt = r.attempt
  /\ \A m \in Attempts : m > r.issued => s.store[m] = "none" /\ s.completing[m] = "idle"
  /\ \A m \in Attempts : r.store[m] = "published" => s.store[m] = "published"
  /\ r.barred \subseteq s.barred
  /\ DirectiveHasLease(s)
  /\ (\E m \in Attempts : Live(r, m)) => s.status \in HeldStatuses
  /\ s.status \in OwnedStatuses => s.status = r.status
  /\ (\E m \in Attempts : r.output[m]) => s.status \in {"completed", "indexed", "cancelled"}
  /\ CompletedHasOutput(s)
  /\ r.cancel /\ r.status = "cancelled" => s.cancel /\ s.status = "cancelled"

(* Attempts other than n are left alone.                                   *)
OthersSame(r, s, n) ==
  \A m \in Attempts : m # n =>
    /\ s.lease[m] = r.lease[m] /\ s.attempt[m] = r.attempt[m]
    /\ s.output[m] = r.output[m] /\ s.store[m] = r.store[m]
    /\ s.completing[m] = r.completing[m]

(* A live lease n stays live, under whatever status it now has.            *)
Kept(r, s, n) ==
  /\ Live(r, n) /\ Live(s, n)
  /\ s.attempt[n] \in OpenAttempts
  /\ OthersSame(r, s, n)
  /\ s.issued = r.issued /\ s.output = r.output
  /\ s.status \in HeldStatuses
  /\ r.barred \subseteq s.barred
  /\ DirectiveHasLease(s)

(* A live lease n ends without output.                                     *)
Ended(r, s, n) ==
  /\ Live(r, n) /\ ~Live(s, n)
  /\ s.attempt[n] \notin OpenAttempts
  /\ OthersSame(r, s, n)
  /\ s.issued = r.issued /\ s.output = r.output
  /\ s.status \notin {"completed", "indexed"} \cup HeldStatuses
  /\ r.barred \subseteq s.barred
  /\ DirectiveHasLease(s)
  /\ s.lease[n] \in FencedStates => n \in s.barred \/ (s.cancel /\ s.status = "cancelled")

(* The latest attempt n, not fenced, commits its output.                   *)
Committing(r, s, n) ==
  /\ n = r.issued /\ ~r.output[n]
  /\ r.lease[n] \notin FencedStates
  /\ ~(r.cancel /\ r.status = "cancelled")
  /\ s.lease[n] = "completed" /\ s.output[n] /\ s.store[n] = "published"
  /\ s.attempt[n] \notin OpenAttempts
  /\ OthersSame(r, s, n)
  /\ s.issued = r.issued
  /\ s.status \in {"completed", "indexed", "cancelled"}
  /\ r.barred \subseteq s.barred
  /\ DirectiveHasLease(s)

(* The next attempt n is issued for a job nobody holds.                    *)
Issuing(r, s, n) ==
  /\ r.status = "queued"
  /\ n = r.issued + 1 /\ s.issued = n
  /\ Live(s, n) /\ s.attempt[n] \in OpenAttempts
  /\ OthersSame(r, s, n)
  /\ s.output = r.output
  /\ s.status \in HeldStatuses
  /\ r.barred \subseteq s.barred
  /\ DirectiveHasLease(s)

LEMMA SameLeases ==
  ASSUME NEW r, NEW s, JobInv(r), s \in JobRecord, Same(r, s)
  PROVE  JobInv(s) /\ JobStep(r, s)
<1>1. Unissued(s)
  BY DEF JobInv, Unissued, Same
<1>2. LiveIsLatest(s)
  BY DEF JobInv, LiveIsLatest, Live, Same
<1>3. OpenIffLive(s)
  BY DEF JobInv, OpenIffLive, Live, Same
<1>4. OutputIsLatest(s)
  BY DEF JobInv, OutputIsLatest, Same
<1>5. FencedIsBarred(s)
  BY DEF JobInv, FencedIsBarred, Same
<1>6. Keeps(r, s)
  BY DEF Keeps, Live, Same
<1>7. OwnedHasLease(s)
  BY DEF JobInv, OwnedHasLease, Live, Same
<1> QED
  BY <1>1, <1>2, <1>3, <1>4, <1>5, <1>6, <1>7 DEF JobInv, JobStep, Same

LEMMA LeaseKept ==
  ASSUME NEW r, NEW s, JobInv(r), s \in JobRecord, NEW n \in Attempts, Kept(r, s, n)
  PROVE  JobInv(s) /\ JobStep(r, s)
<1>1. n = r.issued /\ r.status \in HeldStatuses /\ \A m \in Attempts : Live(r, m) <=> m = n
  BY DEF JobInv, LiveIsLatest, Kept
<1>2. \A m \in Attempts : ~r.output[m]
  BY <1>1 DEF JobInv, OutputIsLatest, Live, LiveStates, ActiveStates
<1>3. \A m \in Attempts : Live(s, m) <=> m = n
  BY <1>1 DEF Live, Kept, OthersSame
<1>4. Unissued(s)
  BY <1>1, <1>2 DEF JobInv, Unissued, JobRecord, Kept, OthersSame
<1>5. LiveIsLatest(s)
  BY <1>1, <1>3 DEF LiveIsLatest, Kept
<1>6. OpenIffLive(s)
  BY <1>1, <1>3 DEF JobInv, OpenIffLive, Kept, OthersSame
<1>7. OutputIsLatest(s)
  BY <1>2 DEF OutputIsLatest, Kept
<1>8. CompletedHasOutput(s)
  BY DEF CompletedHasOutput, HeldStatuses, PublicationStatuses, Kept
<1>9. FencedIsBarred(s)
  <2> SUFFICES ASSUME NEW m \in Attempts, s.lease[m] \in FencedStates
               PROVE  m \in s.barred
    BY DEF FencedIsBarred
  <2>1. m # n
    BY DEF Live, LiveStates, ActiveStates, FencedStates, Kept
  <2>2. m \in r.barred
    BY <1>1, <1>2, <2>1
       DEF JobInv, FencedIsBarred, HeldStatuses, PublicationStatuses, Kept, OthersSame
  <2> QED
    BY <2>2 DEF Kept
<1>10. Keeps(r, s)
  BY <1>1, <1>3 DEF Keeps, Kept
<1>11. OwnedHasLease(s)
  BY <1>1, <1>3 DEF OwnedHasLease, Kept
<1> QED
  BY <1>4, <1>5, <1>6, <1>7, <1>8, <1>9, <1>10, <1>11
     DEF JobInv, JobStep, Kept

LEMMA LeaseEnded ==
  ASSUME NEW r, NEW s, JobInv(r), s \in JobRecord, NEW n \in Attempts, Ended(r, s, n)
  PROVE  JobInv(s) /\ JobStep(r, s)
<1>1. n = r.issued /\ r.status \in HeldStatuses /\ \A m \in Attempts : Live(r, m) <=> m = n
  BY DEF JobInv, LiveIsLatest, Ended
<1>2. \A m \in Attempts : ~r.output[m]
  BY <1>1 DEF JobInv, OutputIsLatest, Live, LiveStates, ActiveStates
<1>3. \A m \in Attempts : ~Live(s, m)
  BY <1>1 DEF Live, Ended, OthersSame
<1>4. Unissued(s)
  BY <1>1, <1>2 DEF JobInv, Unissued, JobRecord, Ended, OthersSame
<1>5. LiveIsLatest(s)
  BY <1>3 DEF LiveIsLatest
<1>6. OpenIffLive(s)
  BY <1>1, <1>3 DEF JobInv, OpenIffLive, Ended, OthersSame
<1>7. OutputIsLatest(s)
  BY <1>2 DEF OutputIsLatest, Ended
<1>8. CompletedHasOutput(s)
  BY DEF CompletedHasOutput, Ended
<1>9. FencedIsBarred(s)
  <2> SUFFICES ASSUME NEW m \in Attempts, m # n, s.lease[m] \in FencedStates
               PROVE  m \in s.barred
    BY DEF FencedIsBarred, Ended
  <2> QED
    BY <1>1, <1>2
       DEF JobInv, FencedIsBarred, HeldStatuses, PublicationStatuses, Ended, OthersSame
<1>10. Drops(r, s)
  BY <1>3 DEF Drops, Ended
<1>11. OwnedHasLease(s)
  BY DEF OwnedHasLease, OwnedStatuses, Ended
<1> QED
  BY <1>4, <1>5, <1>6, <1>7, <1>8, <1>9, <1>10, <1>11
     DEF JobInv, JobStep, Ended

LEMMA LeaseCommitted ==
  ASSUME NEW r, NEW s, JobInv(r), s \in JobRecord, NEW n \in Attempts, Committing(r, s, n)
  PROVE  JobInv(s) /\ JobStep(r, s)
<1>1. \A m \in Attempts : m # n => ~r.output[m] /\ ~Live(r, m)
  BY DEF JobInv, OutputIsLatest, LiveIsLatest, Committing
<1>2. \A m \in Attempts : ~Live(s, m)
  BY <1>1 DEF Live, LiveStates, ActiveStates, Committing, OthersSame
<1>3. \A m \in Attempts : s.output[m] <=> m = n
  BY <1>1 DEF Committing, OthersSame
<1>4. Unissued(s)
  BY DEF JobInv, Unissued, JobRecord, Committing, OthersSame
<1>5. LiveIsLatest(s)
  BY <1>2 DEF LiveIsLatest
<1>6. OpenIffLive(s)
  BY <1>1, <1>2 DEF JobInv, OpenIffLive, Committing, OthersSame
<1>7. OutputIsLatest(s)
  BY <1>3 DEF OutputIsLatest, Committing
<1>8. CompletedHasOutput(s)
  BY DEF CompletedHasOutput, JobRecord, Attempts, Committing
<1>9. FencedIsBarred(s)
  <2> SUFFICES ASSUME NEW m \in Attempts, m # n, s.lease[m] \in FencedStates
               PROVE  m \in s.barred
    BY DEF FencedIsBarred, Committing
  <2> QED
    BY <1>1 DEF JobInv, FencedIsBarred, Committing, OthersSame
<1>10. Commits(r, s)
  BY <1>1, <1>2, <1>3 DEF Commits, Committing
<1>11. OwnedHasLease(s)
  BY DEF OwnedHasLease, OwnedStatuses, HeldStatuses, PublicationStatuses, Committing
<1> QED
  BY <1>4, <1>5, <1>6, <1>7, <1>8, <1>9, <1>10, <1>11
     DEF JobInv, JobStep, Committing

LEMMA LeaseIssued ==
  ASSUME NEW r, NEW s, JobInv(r), s \in JobRecord, NEW n \in Attempts, Issuing(r, s, n)
  PROVE  JobInv(s) /\ Issues(r, s)
<1>1. \A m \in Attempts : ~Live(r, m) /\ ~r.output[m]
  BY DEF JobInv, LiveIsLatest, OutputIsLatest, HeldStatuses, PublicationStatuses, Issuing
<1>2. r.issued \in Nat /\ s.issued \in Nat /\ s.issued > r.issued
  BY DEF JobInv, JobRecord, Attempts, Issuing
<1>3. \A m \in Attempts : Live(s, m) <=> m = n
  BY <1>1 DEF Live, Issuing, OthersSame
<1>4. Unissued(s)
  BY <1>2 DEF JobInv, Unissued, Attempts, Issuing, OthersSame
<1>5. LiveIsLatest(s)
  BY <1>3 DEF LiveIsLatest, Issuing
<1>6. OpenIffLive(s)
  BY <1>1, <1>3 DEF JobInv, OpenIffLive, Issuing, OthersSame
<1>7. OutputIsLatest(s)
  BY <1>1 DEF OutputIsLatest, Issuing
<1>8. CompletedHasOutput(s)
  BY DEF CompletedHasOutput, HeldStatuses, PublicationStatuses, Issuing
<1>9. FencedIsBarred(s)
  <2> SUFFICES ASSUME NEW m \in Attempts, s.lease[m] \in FencedStates
               PROVE  m \in s.barred
    BY DEF FencedIsBarred
  <2>1. m # n
    BY DEF Live, LiveStates, ActiveStates, FencedStates, Issuing
  <2> QED
    BY <1>1, <2>1 DEF JobInv, FencedIsBarred, Issuing, OthersSame
<1>10. Issues(r, s)
  BY <1>1, <1>3 DEF Issues, Issuing
<1>11. OwnedHasLease(s)
  BY DEF OwnedHasLease, Issuing
<1> QED
  BY <1>4, <1>5, <1>6, <1>7, <1>8, <1>9, <1>10, <1>11 DEF JobInv, Issuing

(* A step that rewrites one record.                                        *)
Steps == IInv' /\ \A j \in Jobs : JobStep(job[j], job'[j])

LEMMA OneJobSteps ==
  ASSUME IInv, NEW j \in Jobs, NEW s, JobInv(s), JobStep(job[j], s), Update(j, s)
  PROVE  Steps
<1>1. s \in JobRecord
  BY DEF JobInv
<1>2. job' = [job EXCEPT ![j] = s] /\ server' = server
  BY DEF Update
<1>3. TypeOK'
  BY <1>1, <1>2 DEF IInv, TypeOK
<1>4. \A i \in Jobs : job'[i] = IF i = j THEN s ELSE job[i]
  BY <1>2 DEF IInv, TypeOK
<1>5. \A i \in Jobs : JobInv(job'[i])
  BY <1>4 DEF IInv
<1>6. \A i \in Jobs : i # j => Keeps(job[i], job'[i])
  BY <1>4 DEF Keeps
<1> QED
  BY <1>3, <1>4, <1>5, <1>6 DEF Steps, IInv, JobStep

----------------------------------------------------------------------------
(* One lemma per action *)

LEMMA NoDirectiveType ==
  NoDirective \in [action : DirectiveActions \cup {"none"}, lease : 0 .. MaxAttempts]
BY MaxAttemptsAssumption DEF NoDirective

LEMMA LapseStep ==
  ASSUME IInv, NEW j \in Jobs, NEW n \in Attempts, Lapse(j, n)
  PROVE  Steps
<1> DEFINE r == job[j]
           s == [r EXCEPT !.lease[n] = "lapsed"]
<1>1. JobInv(r) /\ Update(j, s) /\ r.lease[n] = "active"
  BY DEF IInv, Lapse
<1>2. s \in JobRecord
  BY <1>1 DEF JobInv, JobRecord, LeaseStates, LiveStates, ActiveStates
<1>3. Kept(r, s, n)
  BY <1>1 DEF Kept, OthersSame, JobInv, JobRecord, Live, LiveStates, ActiveStates,
              OpenIffLive, LiveIsLatest, DirectiveHasLease
<1> QED
  BY <1>1, <1>2, <1>3, LeaseKept, OneJobSteps

LEMMA KeepAliveStep ==
  ASSUME IInv, NEW j \in Jobs, NEW n \in Attempts, KeepAlive(j, n)
  PROVE  Steps
<1> DEFINE r == job[j]
           s == [r EXCEPT !.lease[n] = "active"]
<1>1. JobInv(r) /\ Update(j, s) /\ r.lease[n] = "lapsed"
  BY DEF IInv, KeepAlive
<1>2. s \in JobRecord
  BY <1>1 DEF JobInv, JobRecord, LeaseStates, LiveStates, ActiveStates
<1>3. Kept(r, s, n)
  BY <1>1
     DEF Kept, OthersSame, JobInv, JobRecord, Live, LiveStates, ActiveStates, OpenIffLive, LiveIsLatest, DirectiveHasLease
<1> QED
  BY <1>1, <1>2, <1>3, LeaseKept, OneJobSteps

LEMMA AcknowledgeStep ==
  ASSUME IInv, NEW j \in Jobs, NEW n \in Attempts, Acknowledge(j, n)
  PROVE  Steps
<1> DEFINE r == job[j]
           s == [r EXCEPT !.store[n] = "staging", !.status = "running",
                        !.attempt[n] = IF @ = "leased" THEN "running" ELSE @]
<1>1. JobInv(r) /\ Update(j, s) /\ r.lease[n] = "active"
  BY DEF IInv, Acknowledge, Authenticated
<1>2. s \in JobRecord
  BY <1>1 DEF JobInv, JobRecord, JobStatuses, HeldStatuses, PublicationStatuses, TerminalStatuses, AttemptStates, OpenAttempts, StoreStates
<1>3. Kept(r, s, n)
  BY <1>1
     DEF Kept, OthersSame, JobInv, JobRecord, Live, LiveStates, ActiveStates, OpenIffLive, LiveIsLatest, DirectiveHasLease, HeldStatuses, OpenAttempts
<1> QED
  BY <1>1, <1>2, <1>3, LeaseKept, OneJobSteps

LEMMA UploadStep ==
  ASSUME IInv, NEW j \in Jobs, NEW n \in Attempts, Upload(j, n)
  PROVE  Steps
<1> DEFINE r == job[j]
           s == [r EXCEPT !.archive[n] = TRUE]
<1>1. JobInv(r) /\ Update(j, s)
  BY DEF IInv, Upload
<1>2. s \in JobRecord
  BY <1>1 DEF JobInv, JobRecord
<1>3. Same(r, s)
  BY <1>1
     DEF Same, JobInv, JobRecord, Unissued, OutputIsLatest, CompletedHasOutput, DirectiveHasLease, LiveIsLatest
<1> QED
  BY <1>1, <1>2, <1>3, SameLeases, OneJobSteps

LEMMA BeginCompletionStep ==
  ASSUME IInv, NEW j \in Jobs, NEW n \in Attempts, BeginCompletion(j, n)
  PROVE  Steps
<1> DEFINE r == job[j]
           s == [r EXCEPT !.completing[n] = "validating"]
<1>1. JobInv(r) /\ Update(j, s) /\ r.lease[n] = "active"
  BY DEF IInv, BeginCompletion, Authenticated
<1>2. s \in JobRecord
  BY <1>1 DEF JobInv, JobRecord
<1>3. Same(r, s)
  BY <1>1
     DEF Same, JobInv, JobRecord, Unissued, OutputIsLatest, CompletedHasOutput, DirectiveHasLease, LiveIsLatest
<1> QED
  BY <1>1, <1>2, <1>3, SameLeases, OneJobSteps

LEMMA DecideStep ==
  ASSUME IInv, NEW j \in Jobs, NEW n \in Attempts, Decide(j, n)
  PROVE  Steps
<1> DEFINE r == job[j]
           s == [r EXCEPT !.completing[n] = "decided",
                        !.lease[n] = "publication_pending",
                        !.status = "publication_pending"]
<1>1. JobInv(r) /\ Update(j, s) /\ r.lease[n] = "active"
  BY DEF IInv, Decide, Authenticated
<1>2. s \in JobRecord
  BY <1>1 DEF JobInv, JobRecord, LeaseStates, LiveStates, ActiveStates, JobStatuses, HeldStatuses, PublicationStatuses, TerminalStatuses
<1>3. Kept(r, s, n)
  BY <1>1
     DEF Kept, OthersSame, JobInv, JobRecord, Live, LiveStates, ActiveStates, OpenIffLive, LiveIsLatest, DirectiveHasLease, HeldStatuses, PublicationStatuses
<1> QED
  BY <1>1, <1>2, <1>3, LeaseKept, OneJobSteps

LEMMA StoreStepStep ==
  ASSUME IInv, NEW j \in Jobs, NEW n \in Attempts, NEW from, NEW to \in StoreStates,
         from # "published", StoreStep(j, n, from, to)
  PROVE  Steps
<1> DEFINE r == job[j]
           s == [r EXCEPT !.store[n] = to]
<1>1. JobInv(r) /\ Update(j, s) /\ r.completing[n] = "decided" /\ r.store[n] = from
  BY DEF IInv, StoreStep
<1>2. s \in JobRecord
  BY <1>1 DEF JobInv, JobRecord
<1>3. Same(r, s)
  BY <1>1
     DEF Same, JobInv, JobRecord, Unissued, OutputIsLatest, CompletedHasOutput, DirectiveHasLease, LiveIsLatest
<1> QED
  BY <1>1, <1>2, <1>3, SameLeases, OneJobSteps

LEMMA AbortCompletionStep ==
  ASSUME IInv, NEW j \in Jobs, NEW n \in Attempts, AbortCompletion(j, n)
  PROVE  Steps
<1> DEFINE r == job[j]
           s == [r EXCEPT !.completing[n] = "idle"]
<1>1. JobInv(r) /\ Update(j, s)
  BY DEF IInv, AbortCompletion
<1>2. s \in JobRecord
  BY <1>1 DEF JobInv, JobRecord
<1>3. Same(r, s)
  BY <1>1
     DEF Same, JobInv, JobRecord, Unissued, OutputIsLatest, CompletedHasOutput, DirectiveHasLease, LiveIsLatest
<1> QED
  BY <1>1, <1>2, <1>3, SameLeases, OneJobSteps

LEMMA CompleteFailureStep ==
  ASSUME IInv, NEW j \in Jobs, NEW n \in Attempts, CompleteFailure(j, n)
  PROVE  Steps
<1> DEFINE r == job[j]
           s == [r EXCEPT !.lease[n] = "failed", !.status = "failed",
                        !.attempt[n] = Finished(r, n, "failed")]
<1>1. JobInv(r) /\ Update(j, s) /\ r.lease[n] = "active"
  BY DEF IInv, CompleteFailure, Authenticated
<1>2. s \in JobRecord
  BY <1>1 DEF JobInv, JobRecord, LeaseStates, LiveStates, ActiveStates, ReleaseLabels, JobStatuses, HeldStatuses, PublicationStatuses, TerminalStatuses, AttemptStates, OpenAttempts, Finished
<1>3. Ended(r, s, n)
  BY <1>1
     DEF OwnedStatuses, HeldStatuses, PublicationStatuses, Ended, OthersSame, JobInv, JobRecord, Live, LiveStates, ActiveStates, DirectiveHasLease, FencedStates, Finished, OpenAttempts
<1> QED
  BY <1>1, <1>2, <1>3, LeaseEnded, OneJobSteps

LEMMA IndexStep ==
  ASSUME IInv, NEW j \in Jobs, Index(j)
  PROVE  Steps
<1> DEFINE r == job[j]
           s == [r EXCEPT !.status = "indexed"]
<1>1. JobInv(r) /\ Update(j, s) /\ r.status = "completed"
  BY DEF IInv, Index
<1>2. s \in JobRecord
  BY <1>1 DEF JobInv, JobRecord, JobStatuses, HeldStatuses, PublicationStatuses, TerminalStatuses
<1>3. Same(r, s)
  BY <1>1
     DEF OwnedStatuses, Same, JobInv, JobRecord, Unissued, OutputIsLatest, CompletedHasOutput, DirectiveHasLease, LiveIsLatest, HeldStatuses, PublicationStatuses
<1> QED
  BY <1>1, <1>2, <1>3, SameLeases, OneJobSteps

LEMMA CancelLeaseStep ==
  ASSUME IInv, NEW j \in Jobs, NEW n \in Attempts, CancelLease(j, n)
  PROVE  Steps
<1> DEFINE r == job[j]
           s == LET applied == r.open = [action |-> "stop_now", lease |-> n]
                IN [r EXCEPT !.lease[n] = "cancelled", !.status = "cancelled",
                             !.attempt[n] = Finished(r, n, "cancelled"),
                             !.barred = IF applied THEN @ \cup {n} ELSE @,
                             !.open = IF applied THEN NoDirective ELSE @]
<1>1. JobInv(r) /\ Update(j, s) /\ r.lease[n] = "active" /\ r.cancel
  BY DEF IInv, CancelLease, Authenticated
<1>2. s \in JobRecord
  <2> DEFINE barred == IF r.open = [action |-> "stop_now", lease |-> n]
                       THEN r.barred \cup {n} ELSE r.barred
             open == IF r.open = [action |-> "stop_now", lease |-> n]
                     THEN NoDirective ELSE r.open
  <2>1. Finished(r, n, "cancelled") \in AttemptStates
    BY <1>1 DEF JobInv, JobRecord, Finished, AttemptStates
  <2>2. barred \in SUBSET Attempts
    BY <1>1 DEF JobInv, JobRecord
  <2>3. open \in [action : DirectiveActions \cup {"none"}, lease : 0 .. MaxAttempts]
    BY <1>1, NoDirectiveType DEF JobInv, JobRecord
  <2>4. s = [r EXCEPT !.lease[n] = "cancelled", !.status = "cancelled",
                      !.attempt[n] = Finished(r, n, "cancelled"),
                      !.barred = barred, !.open = open]
    BY <1>1 DEF JobInv, JobRecord
  <2> HIDE DEF s, barred, open
  <2> QED
    BY <1>1, <2>1, <2>2, <2>3, <2>4
       DEF JobInv, JobRecord, LeaseStates, FencedStates, JobStatuses, TerminalStatuses
<1>3. Ended(r, s, n)
  BY <1>1
     DEF OwnedStatuses, HeldStatuses, PublicationStatuses, Ended, OthersSame, JobInv, JobRecord, Live, LiveStates, ActiveStates, DirectiveHasLease, FencedStates, Finished, OpenAttempts, NoDirective
<1> QED
  BY <1>1, <1>2, <1>3, LeaseEnded, OneJobSteps

LEMMA DeferStep ==
  ASSUME IInv, NEW j \in Jobs, NEW n \in Attempts, Defer(j, n)
  PROVE  Steps
<1> DEFINE r == job[j]
           s == [r EXCEPT !.lease[n] = "publication_pending",
                        !.status = "publication_pending"]
<1>1. JobInv(r) /\ Update(j, s) /\ r.lease[n] = "active"
  BY DEF IInv, Defer, Authenticated
<1>2. s \in JobRecord
  BY <1>1 DEF JobInv, JobRecord, LeaseStates, LiveStates, ActiveStates, JobStatuses, HeldStatuses, PublicationStatuses, TerminalStatuses
<1>3. Kept(r, s, n)
  BY <1>1
     DEF Kept, OthersSame, JobInv, JobRecord, Live, LiveStates, ActiveStates, OpenIffLive, LiveIsLatest, DirectiveHasLease, HeldStatuses, PublicationStatuses
<1> QED
  BY <1>1, <1>2, <1>3, LeaseKept, OneJobSteps

LEMMA ResumeStep ==
  ASSUME IInv, NEW j \in Jobs, NEW n \in Attempts, Resume(j, n)
  PROVE  Steps
<1> DEFINE r == job[j]
           s == [r EXCEPT !.lease[n] = "active", !.status = "publishing"]
<1>1. JobInv(r) /\ Update(j, s) /\ Live(r, n)
  BY DEF IInv, Resume, Live, LiveStates, ActiveStates
<1>2. s \in JobRecord
  BY <1>1 DEF JobInv, JobRecord, LeaseStates, LiveStates, ActiveStates, JobStatuses, HeldStatuses, PublicationStatuses, TerminalStatuses
<1>3. Kept(r, s, n)
  BY <1>1
     DEF Kept, OthersSame, JobInv, JobRecord, Live, LiveStates, ActiveStates, OpenIffLive, LiveIsLatest, DirectiveHasLease, HeldStatuses, PublicationStatuses
<1> QED
  BY <1>1, <1>2, <1>3, LeaseKept, OneJobSteps

LEMMA AckAppliedStep ==
  ASSUME IInv, NEW j \in Jobs, NEW n \in Attempts, AckApplied(j, n)
  PROVE  Steps
<1> DEFINE r == job[j]
           s == LET action == r.open.action
                IN [r EXCEPT !.lease[n] = action,
                             !.status = IF action = "restart" THEN "queued" ELSE "cancelled",
                             !.attempt[n] = Finished(r, n, "cancelled"),
                             !.barred = @ \cup {n},
                             !.open = NoDirective]
<1>1. JobInv(r) /\ Update(j, s) /\ r.lease[n] = "active" /\ r.open.action \in Stops
  BY DEF IInv, AckApplied, Authenticated, OpenStop
<1>2. s \in JobRecord
  <2>1. Finished(r, n, "cancelled") \in AttemptStates
    BY <1>1 DEF JobInv, JobRecord, Finished, AttemptStates
  <2>2. r.open.action \in LeaseStates
    BY <1>1 DEF Stops, LeaseStates, FencedStates
  <2>3. (IF r.open.action = "restart" THEN "queued" ELSE "cancelled") \in JobStatuses
    BY DEF JobStatuses, TerminalStatuses
  <2> QED
    BY <1>1, <2>1, <2>2, <2>3, NoDirectiveType DEF JobInv, JobRecord
<1>3. Ended(r, s, n)
  BY <1>1
     DEF OwnedStatuses, HeldStatuses, PublicationStatuses, Ended, OthersSame, JobInv, JobRecord, Live, LiveStates, ActiveStates, DirectiveHasLease, Stops, Finished, OpenAttempts, NoDirective
<1> QED
  BY <1>1, <1>2, <1>3, LeaseEnded, OneJobSteps

LEMMA AckFailedStep ==
  ASSUME IInv, NEW j \in Jobs, NEW n \in Attempts, AckFailed(j, n)
  PROVE  Steps
<1> DEFINE r == job[j]
           s == [r EXCEPT !.barred = BarredByClosing(r), !.open = NoDirective]
<1>1. JobInv(r) /\ Update(j, s)
  BY DEF IInv, AckFailed
<1>2. s \in JobRecord
  BY <1>1, NoDirectiveType DEF JobInv, JobRecord, BarredByClosing, DirectiveHasLease, Stops
<1>3. Same(r, s)
  BY <1>1
     DEF Same, JobInv, JobRecord, Unissued, OutputIsLatest, CompletedHasOutput, DirectiveHasLease, LiveIsLatest, BarredByClosing, NoDirective
<1> QED
  BY <1>1, <1>2, <1>3, SameLeases, OneJobSteps

LEMMA RejectStep ==
  ASSUME IInv, NEW j \in Jobs, NEW look, Reject(j, look)
  PROVE  Steps
<1> DEFINE r == job[j]
           s == [r EXCEPT !.looked = @ \ {look}]
<1>1. JobInv(r) /\ Update(j, s)
  BY DEF IInv, Reject
<1>2. s \in JobRecord
  BY <1>1 DEF JobInv, JobRecord
<1>3. Same(r, s)
  BY <1>1
     DEF Same, JobInv, JobRecord, Unissued, OutputIsLatest, CompletedHasOutput, DirectiveHasLease, LiveIsLatest
<1> QED
  BY <1>1, <1>2, <1>3, SameLeases, OneJobSteps

LEMMA ResumePausedStep ==
  ASSUME IInv, NEW j \in Jobs, NEW look, ResumePaused(j, look)
  PROVE  Steps
<1> DEFINE r == job[j]
           s == [r EXCEPT !.status = "queued", !.looked = @ \ {look}]
<1>1. JobInv(r) /\ Update(j, s) /\ r.status = "paused"
  BY DEF IInv, ResumePaused
<1>2. s \in JobRecord
  BY <1>1 DEF JobInv, JobRecord, JobStatuses, HeldStatuses, PublicationStatuses, TerminalStatuses
<1>3. Same(r, s)
  BY <1>1
     DEF OwnedStatuses, Same, JobInv, JobRecord, Unissued, OutputIsLatest, CompletedHasOutput, DirectiveHasLease, LiveIsLatest, HeldStatuses, PublicationStatuses
<1> QED
  BY <1>1, <1>2, <1>3, SameLeases, OneJobSteps

LEMMA DirectWaitingStep ==
  ASSUME IInv, NEW j \in Jobs, NEW look, NEW action, DirectWaiting(j, look, action)
  PROVE  Steps
<1> DEFINE r == job[j]
           s == [r EXCEPT !.status = CASE action = "pause" -> "paused"
                                    [] action = "stop_now" -> "cancelled"
                                    [] OTHER -> "queued",
                        !.open = IF action = "stop_now" THEN NoDirective ELSE @,
                        !.looked = @ \ {look}]
<1>1. JobInv(r) /\ Update(j, s) /\ r.status \in {"queued", "paused"}
  BY DEF IInv, DirectWaiting
<1>2. s \in JobRecord
  BY <1>1, NoDirectiveType DEF JobInv, JobRecord, JobStatuses, HeldStatuses, PublicationStatuses, TerminalStatuses
<1>3. Same(r, s)
  BY <1>1
     DEF OwnedStatuses, Same, JobInv, JobRecord, Unissued, OutputIsLatest, CompletedHasOutput, DirectiveHasLease, LiveIsLatest, HeldStatuses, PublicationStatuses, NoDirective
<1> QED
  BY <1>1, <1>2, <1>3, SameLeases, OneJobSteps

LEMMA DirectLeasedStep ==
  ASSUME IInv, NEW j \in Jobs, NEW n \in Attempts, NEW look, NEW action \in DirectiveActions,
         DirectLeased(j, n, look, action)
  PROVE  Steps
<1> DEFINE r == job[j]
           s == LET stop == action = "stop_now"
                IN [r EXCEPT !.status = IF stop THEN "cancel_requested" ELSE @,
                             !.cancel = @ \/ stop,
                             !.open = [action |-> action, lease |-> n],
                             !.looked = @ \ {look}]
<1>1. JobInv(r) /\ Update(j, s) /\ r.lease[n] = "active"
  BY DEF IInv, DirectLeased
<1>2. s \in JobRecord
  <2>1. (IF action = "stop_now" THEN "cancel_requested" ELSE r.status) \in JobStatuses
    BY <1>1 DEF JobInv, JobRecord, JobStatuses, HeldStatuses
  <2>2. (r.cancel \/ action = "stop_now") \in BOOLEAN
    OBVIOUS
  <2>3. [action |-> action, lease |-> n]
          \in [action : DirectiveActions \cup {"none"}, lease : 0 .. MaxAttempts]
    BY MaxAttemptsAssumption DEF Attempts
  <2> QED
    BY <1>1, <2>1, <2>2, <2>3 DEF JobInv, JobRecord
<1>3. Same(r, s)
  <2>1. Live(r, n)
    BY <1>1 DEF Live, LiveStates, ActiveStates
  <2>2. r.status \in HeldStatuses /\ \A m \in Attempts : ~r.output[m]
    BY <1>1, <2>1 DEF JobInv, LiveIsLatest, OutputIsLatest
  <2>3. s.status \in HeldStatuses /\ (s.status = r.status \/ s.status = "cancel_requested")
    BY <1>1, <2>2 DEF JobInv, JobRecord, HeldStatuses
  <2>4. s.status \notin {"completed", "indexed"} /\ r.status # "cancelled"
    BY <2>2, <2>3 DEF HeldStatuses, PublicationStatuses
  <2>5. CompletedHasOutput(s) /\ DirectiveHasLease(s)
    BY <1>1, <2>4 DEF CompletedHasOutput, DirectiveHasLease, JobInv, JobRecord
  <2>6. /\ s.issued = r.issued /\ s.lease = r.lease /\ s.output = r.output
        /\ s.attempt = r.attempt /\ s.store = r.store /\ s.completing = r.completing
        /\ s.barred = r.barred
    BY <1>1 DEF JobInv, JobRecord
  <2> HIDE DEF s
  <2> QED
    BY <1>1, <2>2, <2>3, <2>4, <2>5, <2>6 DEF OwnedStatuses, Same, JobInv, Unissued
<1> QED
  BY <1>1, <1>2, <1>3, SameLeases, OneJobSteps

LEMMA CancelLookStep ==
  ASSUME IInv, NEW j \in Jobs, CancelLook(j)
  PROVE  Steps
<1> DEFINE r == job[j]
           s == [r EXCEPT !.cancelSeen = TRUE]
<1>1. JobInv(r) /\ Update(j, s)
  BY DEF IInv, CancelLook
<1>2. s \in JobRecord
  BY <1>1 DEF JobInv, JobRecord
<1>3. Same(r, s)
  BY <1>1
     DEF Same, JobInv, JobRecord, Unissued, OutputIsLatest, CompletedHasOutput, DirectiveHasLease, LiveIsLatest
<1> QED
  BY <1>1, <1>2, <1>3, SameLeases, OneJobSteps

LEMMA RestartFailedUnitStep ==
  ASSUME IInv, NEW j \in Jobs, RestartFailedUnit(j)
  PROVE  Steps
<1> DEFINE r == job[j]
           s == [r EXCEPT !.status = "queued", !.retries = 0, !.cancel = FALSE]
<1>1. JobInv(r) /\ Update(j, s) /\ r.status = "failed"
  BY DEF IInv, RestartFailedUnit
<1>2. s \in JobRecord
  <2>1. 0 \in 0 .. MaxRetries
    BY MaxRetriesAssumption
  <2> QED
    BY <1>1, <2>1 DEF JobInv, JobRecord, JobStatuses
<1>3. Same(r, s)
  BY <1>1
     DEF OwnedStatuses, Same, JobInv, JobRecord, Unissued, OutputIsLatest, CompletedHasOutput, DirectiveHasLease, LiveIsLatest, HeldStatuses, PublicationStatuses
<1> QED
  BY <1>1, <1>2, <1>3, SameLeases, OneJobSteps

(* The publication branch works on the latest attempt.                     *)
LEMMA PublicationLeaseIsLive ==
  ASSUME NEW r, JobInv(r)
  PROVE  /\ PublicationLease(r) \in 0 .. MaxAttempts
         /\ PublicationLease(r) # 0 => PublicationLease(r) \in Attempts /\ Live(r, PublicationLease(r))
<1>1. CASE r.status \in PublicationStatuses /\ \E n \in Attempts : Live(r, n)
  <2>1. PICK n \in Attempts : Live(r, n)
    BY <1>1
  <2>2. \A m \in Attempts : Live(r, m) => m <= n
    BY <2>1 DEF JobInv, LiveIsLatest, Attempts
  <2>3. \E k \in Attempts : Live(r, k) /\ \A m \in Attempts : Live(r, m) => m <= k
    BY <2>1, <2>2
  <2>4. PublicationLease(r) \in Attempts /\ Live(r, PublicationLease(r))
    BY <1>1, <2>3 DEF PublicationLease
  <2> QED
    BY <2>4, MaxAttemptsAssumption DEF Attempts
<1>2. CASE ~(r.status \in PublicationStatuses /\ \E n \in Attempts : Live(r, n))
  BY <1>2, MaxAttemptsAssumption DEF PublicationLease
<1> QED
  BY <1>1, <1>2

LEMMA LookUpStep ==
  ASSUME IInv, NEW j \in Jobs, LookUp(j)
  PROVE  Steps
<1> DEFINE r == job[j]
           s == [r EXCEPT !.looked = @ \cup {PublicationLease(r)}]
<1>1. JobInv(r) /\ Update(j, s)
  BY DEF IInv, LookUp
<1>2. s \in JobRecord
  BY <1>1, PublicationLeaseIsLive DEF JobInv, JobRecord
<1>3. Same(r, s)
  BY <1>1
     DEF Same, JobInv, JobRecord, Unissued, OutputIsLatest, CompletedHasOutput,
         DirectiveHasLease, LiveIsLatest
<1> QED
  BY <1>1, <1>2, <1>3, SameLeases, OneJobSteps

LEMMA HoldPublicationStep ==
  ASSUME IInv, NEW j \in Jobs, NEW look, NEW action, HoldPublication(j, look, action)
  PROVE  Steps
<1> DEFINE r == job[j]
           n == PublicationLease(r)
           held == IF action = "pause" THEN "publication_paused" ELSE "publication_pending"
           s == [r EXCEPT !.lease[n] = held, !.status = held, !.cancel = FALSE,
                          !.looked = @ \ {look}]
<1>1. JobInv(r) /\ Update(j, s) /\ n # 0
  BY DEF IInv, HoldPublication
<1>2. n \in Attempts /\ Live(r, n)
  BY <1>1, PublicationLeaseIsLive
<1>3. held \in LiveStates /\ held \in LeaseStates /\ held \in HeldStatuses /\ held \in JobStatuses
  BY DEF LiveStates, LeaseStates, HeldStatuses, PublicationStatuses, JobStatuses
<1> HIDE DEF n, held
<1>4. s \in JobRecord
  BY <1>1, <1>2, <1>3 DEF JobInv, JobRecord
<1>5. Kept(r, s, n)
  BY <1>1, <1>2, <1>3
     DEF Kept, OthersSame, JobInv, JobRecord, Live, OpenIffLive, DirectiveHasLease
<1> QED
  BY <1>1, <1>2, <1>4, <1>5, LeaseKept, OneJobSteps

LEMMA FencePublicationStep ==
  ASSUME IInv, NEW j \in Jobs, NEW look, NEW action, FencePublication(j, look, action)
  PROVE  Steps
<1> DEFINE r == job[j]
           n == PublicationLease(r)
           again == action = "restart"
           lease == IF again THEN "restart" ELSE "cancelled"
           status == IF again THEN "queued" ELSE "cancelled"
           attempt == Finished(r, n, "cancelled")
           s == [r EXCEPT !.lease[n] = lease, !.status = status, !.cancel = ~again,
                          !.attempt[n] = attempt, !.open = NoDirective,
                          !.barred = @ \cup {n}, !.looked = @ \ {look}]
<1>1. JobInv(r) /\ Update(j, s) /\ n # 0
  BY DEF IInv, FencePublication
<1>2. n \in Attempts /\ Live(r, n)
  BY <1>1, PublicationLeaseIsLive
<1>3. lease \in FencedStates /\ lease \in LeaseStates /\ lease \notin LiveStates
  BY DEF FencedStates, LeaseStates, LiveStates, ActiveStates
<1>4. status \in JobStatuses /\ status \notin {"completed", "indexed"} \cup HeldStatuses
  BY DEF JobStatuses, TerminalStatuses, HeldStatuses, PublicationStatuses
<1>5. attempt \in AttemptStates /\ attempt \notin OpenAttempts
  BY <1>1, <1>2 DEF JobInv, JobRecord, Finished, AttemptStates, OpenAttempts
<1>6. (~again) \in BOOLEAN
  OBVIOUS
<1> HIDE DEF n, again, lease, status, attempt
<1>7. s \in JobRecord
  BY <1>1, <1>2, <1>3, <1>4, <1>5, <1>6, NoDirectiveType DEF JobInv, JobRecord
<1>8. Ended(r, s, n)
  BY <1>1, <1>2, <1>3, <1>4, <1>5
     DEF Ended, OthersSame, JobInv, JobRecord, Live, DirectiveHasLease, NoDirective
<1> QED
  BY <1>1, <1>2, <1>7, <1>8, LeaseEnded, OneJobSteps

(* The retry policy moves the status and the count, within its limit.      *)
LEMMA RetryOrFailMoves ==
  ASSUME NEW r, r \in JobRecord
  PROVE  \E status \in {"cancelled", "queued", "failed"}, k \in 0 .. MaxRetries :
           RetryOrFail(r) = [r EXCEPT !.status = status, !.retries = k]
<1>1. r.retries \in 0 .. MaxRetries /\ r = [r EXCEPT !.retries = r.retries]
  BY DEF JobRecord
<1>2. CASE r.cancel
  <2>1. RetryOrFail(r) = [r EXCEPT !.status = "cancelled"]
    BY <1>2 DEF RetryOrFail
  <2>2. [r EXCEPT !.status = "cancelled"] = [r EXCEPT !.status = "cancelled", !.retries = r.retries]
    BY DEF JobRecord
  <2> QED
    BY <1>1, <2>1, <2>2
<1>3. CASE ~r.cancel /\ r.retries < MaxRetries
  <2>1. r.retries + 1 \in 0 .. MaxRetries
    BY <1>1, <1>3, MaxRetriesAssumption
  <2>2. RetryOrFail(r) = [r EXCEPT !.status = "queued", !.retries = r.retries + 1]
    BY <1>3 DEF RetryOrFail
  <2> QED
    BY <2>1, <2>2
<1>4. CASE ~r.cancel /\ ~(r.retries < MaxRetries)
  <2>1. RetryOrFail(r) = [r EXCEPT !.status = "failed"]
    BY <1>4 DEF RetryOrFail
  <2>2. [r EXCEPT !.status = "failed"] = [r EXCEPT !.status = "failed", !.retries = r.retries]
    BY DEF JobRecord
  <2> QED
    BY <1>1, <2>1, <2>2
<1> QED
  BY <1>2, <1>3, <1>4

LEMMA ReleaseStep ==
  ASSUME IInv, NEW j \in Jobs, NEW n \in Attempts, NEW label \in ReleaseLabels,
         Release(j, n, label)
  PROVE  Steps
<1> DEFINE r == job[j]
<1>1. JobInv(r) /\ r.lease[n] \in ActiveStates /\ r \in JobRecord
  BY DEF IInv, Release, JobInv
<1>2. PICK status \in {"cancelled", "queued", "failed"}, k \in 0 .. MaxRetries :
        RetryOrFail(r) = [r EXCEPT !.status = status, !.retries = k]
  BY <1>1, RetryOrFailMoves
<1> DEFINE attempt == Finished(r, n, "lost")
           s == [r EXCEPT !.status = status, !.retries = k,
                          !.lease[n] = label, !.attempt[n] = attempt]
<1>3. Update(j, s)
  BY <1>1, <1>2 DEF Release, JobRecord
<1>4. attempt \in AttemptStates /\ attempt \notin OpenAttempts
  BY <1>1 DEF JobRecord, Finished, AttemptStates, OpenAttempts
<1>5. label \in LeaseStates /\ label \notin LiveStates /\ label \notin FencedStates
  BY DEF ReleaseLabels, LeaseStates, LiveStates, ActiveStates, FencedStates
<1> HIDE DEF attempt
<1>6. s \in JobRecord
  BY <1>1, <1>4, <1>5 DEF JobRecord, JobStatuses, TerminalStatuses
<1>7. Ended(r, s, n)
  BY <1>1, <1>4, <1>5
     DEF OwnedStatuses, HeldStatuses, PublicationStatuses, Ended, OthersSame, JobInv, JobRecord, Live, LiveStates, DirectiveHasLease
<1> QED
  BY <1>1, <1>3, <1>6, <1>7, LeaseEnded, OneJobSteps

(* Expiry ends the lapsed lease of a job, if it has one.                   *)
LEMMA ExpiredSteps ==
  ASSUME NEW r, JobInv(r)
  PROVE  /\ JobInv(Expired(r))
         /\ Expired(r) = r \/ Drops(r, Expired(r))
<1>1. CASE \A n \in Attempts : r.lease[n] # "lapsed"
  BY <1>1 DEF Expired
<1>2. CASE \E n \in Attempts : r.lease[n] = "lapsed"
  <2>1. PICK n \in Attempts : r.lease[n] = "lapsed"
    BY <1>2
  <2>2. Live(r, n) /\ \A m \in Attempts : r.lease[m] = "lapsed" <=> m = n
    BY <2>1 DEF JobInv, LiveIsLatest, Live, LiveStates, ActiveStates
  <2>3. r \in JobRecord
    BY DEF JobInv
  <2>4. PICK status \in {"cancelled", "queued", "failed"}, k \in 0 .. MaxRetries :
          RetryOrFail(r) = [r EXCEPT !.status = status, !.retries = k]
    BY <2>3, RetryOrFailMoves
  <2> DEFINE directed == r.open.action # "none" /\ r.lease[r.open.lease] = "lapsed"
             lease == [m \in Attempts |-> IF r.lease[m] = "lapsed" THEN "expired" ELSE r.lease[m]]
             attempt == [m \in Attempts |-> IF r.lease[m] = "lapsed" THEN Finished(r, m, "lost")
                                                                     ELSE r.attempt[m]]
             barred == IF directed THEN BarredByClosing(r) ELSE r.barred
             open == IF directed THEN NoDirective ELSE r.open
             s == [r EXCEPT !.status = status, !.retries = k, !.lease = lease,
                            !.attempt = attempt, !.barred = barred, !.open = open]
  <2>5. Expired(r) = s
    BY <1>2, <2>3, <2>4 DEF Expired, JobRecord
  <2>6. lease \in [Attempts -> LeaseStates]
    BY <2>3 DEF JobRecord, LeaseStates
  <2>7. attempt \in [Attempts -> AttemptStates]
    BY <2>3 DEF JobRecord, AttemptStates, Finished
  <2>8. /\ barred \in SUBSET Attempts
        /\ r.barred \subseteq barred
    BY <2>3 DEF JobRecord, BarredByClosing, JobInv, DirectiveHasLease, Stops
  <2>9. /\ open \in [action : DirectiveActions \cup {"none"}, lease : 0 .. MaxAttempts]
        /\ open.action # "none" => open.lease \in Attempts
    BY <2>3, NoDirectiveType DEF JobRecord, JobInv, DirectiveHasLease, NoDirective
  <2>10. /\ lease[n] = "expired" /\ attempt[n] \notin OpenAttempts
         /\ \A m \in Attempts : m # n => lease[m] = r.lease[m] /\ attempt[m] = r.attempt[m]
    BY <2>1, <2>2 DEF Finished, OpenAttempts
  <2> HIDE DEF lease, attempt, barred, open
  <2>11. s \in JobRecord
    BY <2>3, <2>6, <2>7, <2>8, <2>9 DEF JobRecord, JobStatuses, TerminalStatuses
  <2>12. /\ s.lease = lease /\ s.attempt = attempt /\ s.barred = barred /\ s.open = open
         /\ s.status = status /\ s.issued = r.issued /\ s.output = r.output
         /\ s.store = r.store /\ s.completing = r.completing
    BY <2>3 DEF JobRecord
  <2> HIDE DEF s
  <2>13. Ended(r, s, n)
    BY <2>2, <2>8, <2>9, <2>10, <2>12
       DEF OwnedStatuses, HeldStatuses, PublicationStatuses, Ended, OthersSame, Live, LiveStates, ActiveStates, FencedStates, DirectiveHasLease
  <2>14. JobInv(s) /\ \A m \in Attempts : ~Live(s, m)
    <3>1. JobInv(s)
      BY <2>11, <2>13, LeaseEnded
    <3>2. \A m \in Attempts : m # n => ~Live(r, m)
      BY <2>2 DEF JobInv, LiveIsLatest
    <3> QED
      BY <3>1, <3>2, <2>13 DEF Ended, OthersSame, Live
  <2>15. Drops(r, s)
    BY <2>12, <2>14 DEF Drops
  <2> QED
    BY <2>5, <2>14, <2>15
<1> QED
  BY <1>1, <1>2

LEMMA AllExpiredSteps ==
  ASSUME IInv
  PROVE  /\ AllExpired \in [Jobs -> JobRecord]
         /\ \A j \in Jobs : /\ AllExpired[j] = Expired(job[j])
                            /\ JobInv(AllExpired[j])
                            /\ JobStep(job[j], AllExpired[j])
<1>1. \A j \in Jobs : JobInv(job[j])
  BY DEF IInv
<1>2. \A j \in Jobs : JobInv(AllExpired[j]) /\ AllExpired[j] = Expired(job[j])
  BY <1>1, ExpiredSteps DEF AllExpired
<1>3. \A j \in Jobs : JobStep(job[j], AllExpired[j])
  BY <1>1, <1>2, ExpiredSteps DEF JobStep, Keeps
<1>4. \A j \in Jobs : AllExpired[j] \in JobRecord
  BY <1>2 DEF JobInv
<1> QED
  BY <1>2, <1>3, <1>4 DEF AllExpired

LEMMA ExpireStep ==
  ASSUME IInv, Expire
  PROVE  Steps
BY AllExpiredSteps DEF Expire, Steps, IInv, TypeOK

LEMMA StartupExpireStep ==
  ASSUME IInv, StartupExpire
  PROVE  Steps
BY AllExpiredSteps DEF StartupExpire, Steps, IInv, TypeOK

LEMMA AcquireStep ==
  ASSUME IInv, NEW w \in Workers, NEW j \in Jobs, Acquire(w, j)
  PROVE  Steps
<1> DEFINE e == AllExpired
           r == e[j]
           n == r.issued + 1
           s == [r EXCEPT !.status = "leased", !.issued = n, !.lease[n] = "active",
                          !.worker[n] = w, !.attempt[n] = "leased"]
<1>1. /\ e \in [Jobs -> JobRecord]
      /\ \A i \in Jobs : JobInv(e[i]) /\ JobStep(job[i], e[i])
      /\ JobInv(r) /\ r = Expired(job[j])
  BY AllExpiredSteps
<1>2. /\ r.status = "queued" /\ r.issued < MaxAttempts
      /\ job' = [e EXCEPT ![j] = s] /\ server' = server
  BY DEF Acquire
<1>3. n \in Attempts /\ r \in JobRecord /\ n \in 0 .. MaxAttempts
  BY <1>1, <1>2, MaxAttemptsAssumption DEF JobInv, JobRecord, Attempts
<1> HIDE DEF e, r, n
<1>4. s \in JobRecord
  BY <1>3 DEF JobRecord, JobStatuses, HeldStatuses, LeaseStates, LiveStates, ActiveStates,
              AttemptStates, OpenAttempts
<1>5. Issuing(r, s, n)
  BY <1>1, <1>2, <1>3
     DEF Issuing, OthersSame, JobInv, JobRecord, Live, LiveStates, ActiveStates,
         OpenAttempts, HeldStatuses, DirectiveHasLease, n
<1>6. JobInv(s) /\ Issues(r, s)
  BY <1>1, <1>3, <1>4, <1>5, LeaseIssued
<1>7. r.issued = job[j].issued /\ r.output = job[j].output
  BY <1>1, ExpiredSteps DEF IInv, Drops
<1>8. JobStep(job[j], s)
  BY <1>6, <1>7 DEF Issues, JobStep
<1> HIDE DEF s
<1>9. \A i \in Jobs : job'[i] = IF i = j THEN s ELSE e[i]
  BY <1>1, <1>2
<1>10. job' \in [Jobs -> JobRecord]
  BY <1>1, <1>2, <1>4
<1>11. \A i \in Jobs : JobInv(job'[i]) /\ JobStep(job[i], job'[i])
  BY <1>1, <1>6, <1>8, <1>9
<1> QED
  BY <1>2, <1>10, <1>11 DEF Steps, IInv, TypeOK

LEMMA CancelStep ==
  ASSUME IInv, NEW j \in Jobs, Cancel(j)
  PROVE  Steps
<1> DEFINE r == job[j]
           s1 == [r EXCEPT !.cancelSeen = FALSE]
           s2 == [r EXCEPT !.status = IF @ = "queued" THEN "cancelled" ELSE "cancel_requested",
                           !.cancel = TRUE, !.cancelSeen = FALSE]
<1>1. JobInv(r) /\ r \in JobRecord
  BY DEF IInv, JobInv
<1>2. CASE Update(j, s1)
  <2>1. s1 \in JobRecord
    BY <1>1 DEF JobRecord
  <2>2. Same(r, s1)
    BY <1>1 DEF Same, JobInv, JobRecord, Unissued, OutputIsLatest, CompletedHasOutput,
                DirectiveHasLease, LiveIsLatest
  <2> QED
    BY <1>1, <1>2, <2>1, <2>2, SameLeases, OneJobSteps
<1>3. CASE r.status \notin TerminalStatuses /\ Update(j, s2)
  <2>1. s2 \in JobRecord
    BY <1>1 DEF JobRecord, JobStatuses, HeldStatuses, TerminalStatuses
  <2>2. Same(r, s2)
    BY <1>1, <1>3
       DEF OwnedStatuses, Same, JobInv, JobRecord, Unissued, OutputIsLatest, CompletedHasOutput,
           DirectiveHasLease, LiveIsLatest, TerminalStatuses, HeldStatuses, PublicationStatuses
  <2> QED
    BY <1>1, <1>3, <2>1, <2>2, SameLeases, OneJobSteps
<1> QED
  BY <1>2, <1>3 DEF Cancel

LEMMA CommittedType ==
  ASSUME NEW r, r \in JobRecord,
         NEW lease, lease \in [Attempts -> LeaseStates],
         NEW output, output \in [Attempts -> BOOLEAN],
         NEW attempt, attempt \in [Attempts -> AttemptStates],
         NEW open, open \in [action : DirectiveActions \cup {"none"}, lease : 0 .. MaxAttempts],
         NEW status, status \in JobStatuses,
         NEW completing, completing \in [Attempts -> {"idle", "validating", "decided"}]
  PROVE  [r EXCEPT !.lease = lease, !.output = output, !.attempt = attempt,
                   !.open = open, !.status = status, !.completing = completing] \in JobRecord
BY DEF JobRecord

(* What both ways to commit write.                                         *)
LEMMA CommittedCommits ==
  ASSUME NEW r, JobInv(r), NEW n \in Attempts, NEW phase,
         n = r.issued, ~r.output[n], r.lease[n] \notin FencedStates,
         ~(r.cancel /\ r.status = "cancelled"), r.store[n] = "published",
         NEW status \in {"completed", "indexed", "cancelled"},
         NEW completing, completing \in [Attempts -> {"idle", "validating", "decided"}],
         \A m \in Attempts : m # n => completing[m] = r.completing[m],
         NEW s, s = [Committed(r, n, phase) EXCEPT !.status = status, !.completing = completing]
  PROVE  JobInv(s) /\ JobStep(r, s)
<1> DEFINE attempt == Finished(r, n, "completed")
           open == IF phase = "train" /\ r.open.lease = n THEN NoDirective ELSE r.open
<1>1. r \in JobRecord
  BY DEF JobInv
<1>2. s = [r EXCEPT !.lease[n] = "completed", !.output[n] = TRUE, !.attempt[n] = attempt,
                    !.open = open, !.status = status, !.completing = completing]
  BY <1>1 DEF Committed, JobRecord
<1>3. attempt \in AttemptStates /\ attempt \notin OpenAttempts
  BY <1>1 DEF JobRecord, Finished, AttemptStates, OpenAttempts
<1>4. /\ open \in [action : DirectiveActions \cup {"none"}, lease : 0 .. MaxAttempts]
      /\ open.action # "none" => open.lease \in Attempts
  BY <1>1, NoDirectiveType DEF JobRecord, JobInv, DirectiveHasLease, NoDirective
<1> HIDE DEF attempt, open
<1>5. status \in JobStatuses /\ "completed" \in LeaseStates
  BY DEF JobStatuses, TerminalStatuses, LeaseStates, ReleaseLabels
<1>6. s \in JobRecord
  <2> DEFINE lease == [r.lease EXCEPT ![n] = "completed"]
             output == [r.output EXCEPT ![n] = TRUE]
             attempts == [r.attempt EXCEPT ![n] = attempt]
  <2>1. /\ lease \in [Attempts -> LeaseStates] /\ output \in [Attempts -> BOOLEAN]
        /\ attempts \in [Attempts -> AttemptStates]
    BY <1>1, <1>3, <1>5 DEF JobRecord
  <2>2. s = [r EXCEPT !.lease = lease, !.output = output, !.attempt = attempts,
                      !.open = open, !.status = status, !.completing = completing]
    BY <1>1, <1>2 DEF JobRecord
  <2> HIDE DEF lease, output, attempts
  <2>3. [r EXCEPT !.lease = lease, !.output = output, !.attempt = attempts,
                  !.open = open, !.status = status, !.completing = completing] \in JobRecord
    BY <1>1, <1>4, <1>5, <2>1, CommittedType
  <2> QED
    BY <2>2, <2>3
<1>7. /\ s.lease = [r.lease EXCEPT ![n] = "completed"]
      /\ s.output = [r.output EXCEPT ![n] = TRUE]
      /\ s.attempt = [r.attempt EXCEPT ![n] = attempt]
      /\ s.open = open /\ s.status = status /\ s.completing = completing
      /\ s.issued = r.issued /\ s.store = r.store /\ s.barred = r.barred
  BY <1>1, <1>2 DEF JobRecord
<1>8. /\ r.lease \in [Attempts -> LeaseStates] /\ r.output \in [Attempts -> BOOLEAN]
      /\ r.attempt \in [Attempts -> AttemptStates]
  BY <1>1 DEF JobRecord
<1>9. OthersSame(r, s, n)
  BY <1>7, <1>8 DEF OthersSame
<1>10. Committing(r, s, n)
  BY <1>3, <1>4, <1>7, <1>8, <1>9 DEF Committing, DirectiveHasLease
<1> QED
  BY <1>6, <1>10, LeaseCommitted

LEMMA CommitCompletionStep ==
  ASSUME IInv, NEW j \in Jobs, NEW n \in Attempts, CommitCompletion(j, n)
  PROVE  Steps
<1> DEFINE r == job[j]
           s1 == [r EXCEPT !.completing[n] = "idle"]
           s2 == [Committed(r, n, Phase[j]) EXCEPT !.status = "completed", !.completing[n] = "idle"]
<1>1. JobInv(r) /\ r \in JobRecord
  BY DEF IInv, JobInv
<1>2. CASE Update(j, s1)
  <2>1. s1 \in JobRecord
    BY <1>1 DEF JobRecord
  <2>2. Same(r, s1)
    BY <1>1 DEF Same, JobInv, JobRecord, Unissued, OutputIsLatest, CompletedHasOutput,
                DirectiveHasLease, LiveIsLatest
  <2> QED
    BY <1>1, <1>2, <2>1, <2>2, SameLeases, OneJobSteps
<1>3. CASE r.lease[n] = "publication_pending" /\ r.store[n] = "published" /\ Update(j, s2)
  <2>1. Live(r, n)
    BY <1>3 DEF Live, LiveStates
  <2>2. n = r.issued /\ ~r.output[n] /\ r.status # "cancelled"
    BY <1>1, <1>3, <2>1
       DEF JobInv, LiveIsLatest, OutputIsLatest, HeldStatuses, PublicationStatuses
  <2>3. r.lease[n] \notin FencedStates
    BY <1>3 DEF FencedStates
  <2> DEFINE completing == [r.completing EXCEPT ![n] = "idle"]
  <2>4. /\ completing \in [Attempts -> {"idle", "validating", "decided"}]
        /\ \A m \in Attempts : m # n => completing[m] = r.completing[m]
    BY <1>1 DEF JobRecord
  <2>5. s2 = [Committed(r, n, Phase[j]) EXCEPT !.status = "completed", !.completing = completing]
    BY <1>1 DEF Committed, JobRecord
  <2> HIDE DEF completing, s2
  <2>6. JobInv(s2) /\ JobStep(r, s2)
    BY <1>1, <1>3, <2>2, <2>3, <2>4, <2>5, CommittedCommits
  <2> QED
    BY <1>3, <2>6, OneJobSteps
<1> QED
  BY <1>2, <1>3 DEF CommitCompletion

LEMMA ReconcileStep ==
  ASSUME IInv, NEW j \in Jobs, NEW n \in Attempts, Reconcile(j, n)
  PROVE  Steps
<1> DEFINE r == job[j]
           status == IF r.status \in {"indexed", "cancelled"} THEN r.status ELSE "completed"
           s == [Committed(r, n, Phase[j]) EXCEPT
                   !.status = IF @ \in {"indexed", "cancelled"} THEN @ ELSE "completed"]
<1>1. JobInv(r) /\ r \in JobRecord
  BY DEF IInv, JobInv
<1>2. /\ r.store[n] = "published" /\ ~r.output[n] /\ n = r.issued /\ ~r.cancel
      /\ n \notin BarredByClosing(r) /\ Update(j, s)
  BY DEF Reconcile, Reconcilable
<1>3. r.lease[n] \notin FencedStates
  BY <1>1, <1>2 DEF JobInv, FencedIsBarred, BarredByClosing
<1>4. /\ r.completing \in [Attempts -> {"idle", "validating", "decided"}]
      /\ status \in {"completed", "indexed", "cancelled"}
  BY <1>1 DEF JobRecord
<1>5. s = [Committed(r, n, Phase[j]) EXCEPT !.status = status, !.completing = r.completing]
  BY <1>1 DEF Committed, JobRecord
<1> HIDE DEF status, s
<1>6. JobInv(s) /\ JobStep(r, s)
  BY <1>1, <1>2, <1>3, <1>4, <1>5, CommittedCommits
<1> QED
  BY <1>2, <1>6, OneJobSteps

LEMMA CrashStep ==
  ASSUME IInv, Crash
  PROVE  Steps
<1> DEFINE s(j) == [job[j] EXCEPT !.completing = [n \in Attempts |-> "idle"],
                                  !.looked = {}, !.cancelSeen = FALSE]
<1>1. SUFFICES ASSUME NEW j \in Jobs
               PROVE  s(j) \in JobRecord /\ JobInv(s(j)) /\ JobStep(job[j], s(j))
  BY <1>1 DEF Crash, Steps, IInv, TypeOK
<1>2. JobInv(job[j]) /\ job[j] \in JobRecord
  BY DEF IInv, JobInv
<1>3. s(j) \in JobRecord
  BY <1>2 DEF JobRecord
<1>4. Same(job[j], s(j))
  BY <1>2 DEF Same, JobInv, JobRecord, Unissued, OutputIsLatest, CompletedHasOutput,
              DirectiveHasLease, LiveIsLatest
<1> QED
  BY <1>2, <1>3, <1>4, SameLeases

(* The job rows are left alone.                                            *)
LEMMA NoJobSteps ==
  ASSUME IInv, UNCHANGED job, server' \in {"up", "down", "expiring", "reconciling"}
  PROVE  Steps
<1>1. IInv'
  BY DEF IInv, TypeOK
<1>2. \A j \in Jobs : Keeps(job[j], job'[j])
  BY DEF Keeps
<1> QED
  BY <1>1, <1>2 DEF Steps, JobStep

----------------------------------------------------------------------------
LEMMA AttemptStepSteps ==
  ASSUME IInv, NEW j \in Jobs, NEW n \in Attempts, AttemptStep(j, n)
  PROVE  Steps
<1>1. CASE Seal(j, n) \/ Move(j, n) \/ RecordPublished(j, n)
  BY <1>1, StoreStepStep DEF Seal, Move, RecordPublished, StoreStates
<1>2. CASE \E label \in ReleaseLabels : Release(j, n, label)
  BY <1>2, ReleaseStep
<1> QED
  BY <1>1, <1>2, LapseStep, KeepAliveStep, AcknowledgeStep, UploadStep, BeginCompletionStep,
     DecideStep, CommitCompletionStep, AbortCompletionStep, CompleteFailureStep,
     CancelLeaseStep, DeferStep, ResumeStep, AckAppliedStep, AckFailedStep, ReconcileStep
     DEF AttemptStep

LEMMA OperatorStepSteps ==
  ASSUME IInv, NEW j \in Jobs, OperatorStep(j)
  PROVE  Steps
<1>1. CASE \E look \in 0 .. MaxAttempts : Reject(j, look)
  BY <1>1, RejectStep
<1>2. CASE \E look \in 0 .. MaxAttempts, action \in Requests \cap DirectiveActions :
             \/ HoldPublication(j, look, action) \/ FencePublication(j, look, action)
             \/ ResumePaused(j, look) \/ DirectWaiting(j, look, action)
             \/ \E n \in Attempts : DirectLeased(j, n, look, action)
  <2>1. PICK look \in 0 .. MaxAttempts, action \in DirectiveActions :
             \/ HoldPublication(j, look, action) \/ FencePublication(j, look, action)
             \/ ResumePaused(j, look) \/ DirectWaiting(j, look, action)
             \/ \E n \in Attempts : DirectLeased(j, n, look, action)
    BY <1>2
  <2> QED
    BY <2>1, HoldPublicationStep, FencePublicationStep, ResumePausedStep, DirectWaitingStep,
       DirectLeasedStep
<1> QED
  BY <1>1, <1>2, LookUpStep, CancelLookStep, CancelStep, RestartFailedUnitStep
     DEF OperatorStep

LEMMA NextSteps ==
  ASSUME IInv, [Next]_vars
  PROVE  Steps
<1>1. CASE \E w \in Workers, j \in Jobs : Acquire(w, j)
  BY <1>1, AcquireStep
<1>2. CASE \E j \in Jobs, n \in Attempts : AttemptStep(j, n)
  BY <1>2, AttemptStepSteps
<1>3. CASE \E j \in Jobs : OperatorStep(j) \/ Index(j)
  BY <1>3, OperatorStepSteps, IndexStep
<1>4. CASE Expire
  BY <1>4, ExpireStep
<1>5. CASE ServerStep
  <2>1. CASE Crash
    BY <2>1, CrashStep
  <2>2. CASE StartupExpire
    BY <2>2, StartupExpireStep
  <2>3. CASE Boot \/ Serve
    BY <2>3, NoJobSteps DEF Boot, Serve
  <2> QED
    BY <1>5, <2>1, <2>2, <2>3 DEF ServerStep
<1>6. CASE UNCHANGED vars
  <2>1. server' \in {"up", "down", "expiring", "reconciling"}
    BY <1>6 DEF vars, IInv, TypeOK
  <2> QED
    BY <1>6, <2>1, NoJobSteps DEF vars
<1> QED
  BY <1>1, <1>2, <1>3, <1>4, <1>5, <1>6 DEF Next

----------------------------------------------------------------------------
(* Who writes outputs.                                                     *)

Silent == \A i \in Jobs : job'[i].output = job[i].output

LEMMA SilentUpdate ==
  ASSUME TypeOK, NEW j \in Jobs, NEW s, Update(j, s), s.output = job[j].output
  PROVE  Silent
BY DEF TypeOK, Update, Silent

LEMMA SilentOperatorStep ==
  ASSUME IInv, NEW j \in Jobs, OperatorStep(j)
  PROVE  Silent
<1> USE DEF Update, TypeOK, Silent
<1>0. job[j] \in JobRecord /\ TypeOK
  BY DEF IInv, TypeOK
<1>1. CASE LookUp(j)
  BY <1>0, <1>1 DEF LookUp, JobRecord
<1>2. CASE \E look \in 0 .. MaxAttempts : Reject(j, look)
  BY <1>0, <1>2 DEF Reject, JobRecord
<1>3. ASSUME NEW look, NEW action, HoldPublication(j, look, action)
      PROVE  Silent
  BY <1>0, <1>3 DEF HoldPublication, JobRecord
<1>4. ASSUME NEW look, NEW action, FencePublication(j, look, action)
      PROVE  Silent
  BY <1>0, <1>4 DEF FencePublication, JobRecord
<1>5. ASSUME NEW look, ResumePaused(j, look)
      PROVE  Silent
  BY <1>0, <1>5 DEF ResumePaused, JobRecord
<1>6. ASSUME NEW look, NEW action, DirectWaiting(j, look, action)
      PROVE  Silent
  BY <1>0, <1>6 DEF DirectWaiting, JobRecord
<1>7. ASSUME NEW look, NEW action, NEW n \in Attempts, DirectLeased(j, n, look, action)
      PROVE  Silent
  BY <1>0, <1>7 DEF DirectLeased, JobRecord
<1>8. CASE CancelLook(j)
  BY <1>0, <1>8 DEF CancelLook, JobRecord
<1>9. CASE Cancel(j)
  <2>1. CASE Update(j, [job[j] EXCEPT !.cancelSeen = FALSE])
    BY <1>0, <2>1 DEF JobRecord
  <2>2. CASE Update(j, [job[j] EXCEPT !.status = IF @ = "queued" THEN "cancelled"
                                                  ELSE "cancel_requested",
                                      !.cancel = TRUE, !.cancelSeen = FALSE])
    BY <1>0, <2>2 DEF JobRecord
  <2> QED
    BY <1>9, <2>1, <2>2 DEF Cancel
<1>10. CASE RestartFailedUnit(j)
  BY <1>0, <1>10 DEF RestartFailedUnit, JobRecord
<1> QED
  BY <1>1, <1>2, <1>3, <1>4, <1>5, <1>6, <1>7, <1>8, <1>9, <1>10 DEF OperatorStep

LEMMA SilentExpiry ==
  ASSUME IInv
  PROVE  \A i \in Jobs : AllExpired[i].output = job[i].output
BY AllExpiredSteps, ExpiredSteps DEF IInv, Drops

LEMMA SilentAcquire ==
  ASSUME IInv, NEW w \in Workers, NEW j \in Jobs, Acquire(w, j)
  PROVE  Silent
<1>1. AllExpired \in [Jobs -> JobRecord]
  BY AllExpiredSteps
<1> DEFINE r == AllExpired[j]
           n == r.issued + 1
           s == [r EXCEPT !.status = "leased", !.issued = n, !.lease[n] = "active",
                          !.worker[n] = w, !.attempt[n] = "leased"]
<1>2. s.output = r.output
  BY <1>1 DEF JobRecord
<1>3. job' = [AllExpired EXCEPT ![j] = s]
  BY DEF Acquire
<1> HIDE DEF s
<1> QED
  BY <1>1, <1>2, <1>3, SilentExpiry DEF Silent

LEMMA SilentServer ==
  ASSUME IInv, Expire \/ ServerStep
  PROVE  Silent
<1>1. CASE Expire \/ StartupExpire
  BY <1>1, SilentExpiry DEF Expire, StartupExpire, Silent
<1>2. CASE Crash
  <2>1. \A j \in Jobs : job[j] \in JobRecord
    BY DEF IInv, TypeOK
  <2> QED
    BY <1>2, <2>1 DEF Crash, Silent, JobRecord
<1>3. CASE Boot \/ Serve
  BY <1>3 DEF Boot, Serve, Silent
<1> QED
  BY <1>1, <1>2, <1>3 DEF ServerStep

LEMMA SilentIndex ==
  ASSUME IInv, NEW j \in Jobs, Index(j)
  PROVE  Silent
BY DEF Index, Update, Silent, IInv, TypeOK, JobRecord

(* A step of an attempt rewrites the record of its job alone.              *)
LEMMA AttemptStepIsLocal ==
  ASSUME IInv, NEW j \in Jobs, NEW n \in Attempts, AttemptStep(j, n)
  PROVE  \A i \in Jobs \ {j} : job'[i] = job[i]
<1>1. \E s : Update(j, s)
  BY DEF AttemptStep, Lapse, KeepAlive, Acknowledge, Upload, BeginCompletion, Decide, Seal,
     Move, RecordPublished, StoreStep, CommitCompletion, AbortCompletion, CompleteFailure,
     Release, CancelLease, Defer, Resume, AckApplied, AckFailed, Reconcile
<1> QED
  BY <1>1 DEF Update, IInv, TypeOK

(* What a commit records.                                                  *)
LEMMA CommitRecords ==
  ASSUME IInv, NEW j \in Jobs, NEW n \in Attempts,
         CommitCompletion(j, n) \/ Reconcile(j, n),
         job'[j].output # job[j].output
  PROVE  job'[j].output[n]
<1>1. job[j] \in JobRecord /\ job \in [Jobs -> JobRecord]
  BY DEF IInv, TypeOK
<1>2. Committed(job[j], n, Phase[j]).output[n]
  BY <1>1 DEF Committed, JobRecord
<1>3. CASE CommitCompletion(j, n)
  <2>1. CASE Update(j, [job[j] EXCEPT !.completing[n] = "idle"])
    BY <1>1, <2>1 DEF Update, JobRecord
  <2>2. CASE Update(j, [Committed(job[j], n, Phase[j]) EXCEPT
                          !.status = "completed", !.completing[n] = "idle"])
    BY <1>1, <2>2 DEF Update, Committed, JobRecord
  <2> QED
    BY <1>3, <2>1, <2>2 DEF CommitCompletion
<1>4. CASE Reconcile(j, n)
  BY <1>1, <1>4 DEF Reconcile, Update, Committed, JobRecord
<1> QED
  BY <1>3, <1>4

LEMMA OutputStaysOrIsFirst ==
  ASSUME NEW r, NEW s, JobStep(r, s), \E n \in Attempts : r.output[n]
  PROVE  s.output = r.output
BY DEF JobStep, Keeps, Drops, Issues, Commits

(* Outputs are never taken back.                                           *)
LEMMA OutputKept ==
  ASSUME Steps, NEW j \in Jobs, NEW n \in Attempts, job[j].output[n]
  PROVE  job'[j].output[n]
BY OutputStaysOrIsFirst DEF Steps

----------------------------------------------------------------------------
LEMMA InitInv == Init => IInv
<1>1. \A status \in {"queued", "paused"} : JobInv(NewJob(status))
  <2> SUFFICES ASSUME NEW status \in {"queued", "paused"}
               PROVE  JobInv(NewJob(status))
    OBVIOUS
  <2>1. 0 \in 0 .. MaxRetries /\ 0 \in 0 .. MaxAttempts
    BY MaxRetriesAssumption, MaxAttemptsAssumption
  <2>2. NewJob(status) \in JobRecord
    BY <2>1, NoDirectiveType
       DEF NewJob, JobRecord, JobStatuses, LeaseStates, AttemptStates, StoreStates
  <2>3. \A n \in Attempts : ~Live(NewJob(status), n)
    BY DEF NewJob, Live, LiveStates, ActiveStates
  <2> QED
    BY <2>2, <2>3 DEF OwnedHasLease, OwnedStatuses, HeldStatuses, PublicationStatuses, NewJob, JobInv, Unissued, LiveIsLatest, OpenIffLive, OpenAttempts,
       OutputIsLatest, CompletedHasOutput, DirectiveHasLease, NoDirective, FencedIsBarred,
       FencedStates
<1>2. ASSUME Init PROVE \A j \in Jobs : JobInv(job[j])
  BY <1>1, <1>2 DEF Init
<1>3. ASSUME Init PROVE TypeOK
  BY <1>1, <1>3 DEF Init, TypeOK, JobInv
<1> QED
  BY <1>2, <1>3 DEF IInv

(* Every job record is consistent, whatever the calls and crashes.         *)
THEOREM Inductive == Spec => []IInv
<1>1. IInv /\ [Next]_vars => IInv'
  BY NextSteps DEF Steps
<1> QED
  BY <1>1, InitInv, PTL DEF Spec

----------------------------------------------------------------------------
(* Types, for every number of jobs, workers, attempts and retries.         *)
THEOREM TypeCorrect == Spec => []TypeOK
BY Inductive, PTL DEF IInv

(* Fencing: whatever expiry, deferral, directives, cancellation, crashes   *)
(* and reconciliation do, no older attempt of a job is ever live, and no   *)
(* live attempt's job is offered to another worker.                        *)
THEOREM Fencing == Spec => []FencedLease
<1>1. IInv => FencedLease
  BY DEF IInv, JobInv, LiveIsLatest, FencedLease
<1> QED
  BY <1>1, Inductive, PTL

(* A held job that is not under cancellation has a live lease.             *)
THEOREM Ownership == Spec => []HeldJobHasOwner
<1>1. IInv => HeldJobHasOwner
  BY DEF IInv, JobInv, OwnedHasLease, OwnedStatuses, HeldJobHasOwner, Attempts
<1> QED
  BY <1>1, Inductive, PTL

(* One attempt commits output, from a recorded publication, and only then  *)
(* is its job completed.                                                   *)
THEOREM SingleOutput == Spec => []OneOutput
<1>1. IInv => OneOutput
  <2> SUFFICES ASSUME IInv, NEW j \in Jobs
               PROVE  /\ \A m, n \in Attempts : job[j].output[m] /\ job[j].output[n] => m = n
                      /\ \A n \in Attempts : job[j].output[n] => job[j].store[n] = "published"
                      /\ job[j].status \in {"completed", "indexed"} =>
                           \E n \in Attempts : job[j].output[n]
    BY DEF OneOutput
  <2>1. JobInv(job[j])
    BY DEF IInv
  <2>2. job[j].status \in {"completed", "indexed"} => job[j].issued \in Attempts
    BY <2>1, MaxAttemptsAssumption DEF JobInv, JobRecord, CompletedHasOutput, Attempts
  <2> QED
    BY <2>1, <2>2 DEF JobInv, OutputIsLatest, CompletedHasOutput
<1> QED
  BY <1>1, Inductive, PTL

(* The execution_attempts row is open exactly while the lease is live.     *)
THEOREM AttemptRows == Spec => []AttemptOpenIffLive
<1>1. IInv => AttemptOpenIffLive
  BY DEF IInv, JobInv, OpenIffLive, AttemptOpenIffLive
<1> QED
  BY <1>1, Inductive, PTL

(* An attempt that was stopped or restarted never commits.                 *)
THEOREM StoppedStaysStopped == Spec => StoppedNeverCommits
<1> DEFINE A == \A j \in Jobs, n \in Attempts :
                  job[j].lease[n] \in FencedStates /\ ~job[j].output[n] => ~job'[j].output[n]
<1>1. IInv /\ [Next]_vars => [A]_vars
  <2> SUFFICES ASSUME IInv, [Next]_vars, NEW j \in Jobs, NEW n \in Attempts,
                      job[j].lease[n] \in FencedStates, ~job[j].output[n]
               PROVE  ~job'[j].output[n]
    OBVIOUS
  <2>1. JobStep(job[j], job'[j])
    BY NextSteps DEF Steps
  <2> QED
    BY <2>1 DEF JobStep, Keeps, Drops, Issues, Commits
<1> QED
  BY <1>1, Inductive, PTL DEF Spec, StoppedNeverCommits

(* Committed output stays, and no attempt is issued after it.              *)
THEOREM OutputStays == Spec => OutputIsFinal
<1> DEFINE A == \A j \in Jobs, n \in Attempts :
                  job[j].output[n] => job'[j].output[n] /\ job'[j].issued = job[j].issued
<1>1. IInv /\ [Next]_vars => [A]_vars
  <2> SUFFICES ASSUME IInv, [Next]_vars, NEW j \in Jobs, NEW n \in Attempts, job[j].output[n]
               PROVE  job'[j].output[n] /\ job'[j].issued = job[j].issued
    OBVIOUS
  <2>1. JobStep(job[j], job'[j])
    BY NextSteps DEF Steps
  <2> QED
    BY <2>1 DEF JobStep, Keeps, Drops, Issues, Commits
<1> QED
  BY <1>1, Inductive, PTL DEF Spec, OutputIsFinal

(* The protocol implements the abstract register of attempts.              *)
THEOREM Implementation == Spec => ImplementsRegister
<1>1. Init => Abstract!Init
  <2> SUFFICES ASSUME Init, NEW j \in Jobs
               PROVE  Register[j] = [issued |-> 0, holders |-> {}, outputs |-> {}]
    BY DEF Abstract!Init, Register
  <2>1. job[j] \in {NewJob("queued"), NewJob("paused")}
    BY DEF Init
  <2>2. job[j].issued = 0 /\ \A n \in Attempts : ~Live(job[j], n) /\ ~job[j].output[n]
    BY <2>1 DEF NewJob, Live, LiveStates, ActiveStates
  <2> QED
    BY <2>2 DEF Register
<1>2. IInv /\ [Next]_vars => [Abstract!Next]_Register
  <2> SUFFICES ASSUME IInv, [Next]_vars
               PROVE  Abstract!Next
    OBVIOUS
  <2>1. DOMAIN Register' = Jobs
    BY DEF Register
  <2>2. ASSUME NEW j \in Jobs
        PROVE  \/ Abstract!Issue(Register[j], Register'[j])
               \/ Abstract!Drop(Register[j], Register'[j])
               \/ Abstract!Commit(Register[j], Register'[j])
               \/ Abstract!Stay(Register[j], Register'[j])
    <3> DEFINE r == job[j]
               s == job'[j]
               entry(t) == [ issued |-> t.issued,
                             holders |-> {n \in Attempts : Live(t, n)},
                             outputs |-> {n \in Attempts : t.output[n]} ]
    <3>1. JobStep(r, s) /\ JobInv(r) /\ s \in JobRecord
      BY NextSteps DEF Steps, IInv, JobInv
    <3>2. Register[j] = entry(r) /\ Register'[j] = entry(s)
      BY DEF Register, Live
    <3>3. CASE Keeps(r, s)
      BY <3>2, <3>3 DEF Keeps, Abstract!Stay
    <3>4. CASE Drops(r, s)
      <4>1. entry(s) = [issued |-> r.issued, holders |-> {}, outputs |-> entry(r).outputs]
        BY <3>4 DEF Drops
      <4> QED
        BY <3>2, <4>1 DEF Abstract!Drop
    <3>5. CASE Issues(r, s)
      <4>1. s.issued \in Attempts
        BY <3>1, <3>5, MaxAttemptsAssumption DEF Issues, JobInv, JobRecord, Attempts
      <4>2. entry(s) = [issued |-> r.issued + 1, holders |-> {r.issued + 1}, outputs |-> {}]
        BY <3>5, <4>1 DEF Issues
      <4>3. entry(r).outputs = {} /\ entry(r).issued = r.issued
        BY <3>5 DEF Issues
      <4> QED
        BY <3>2, <4>2, <4>3 DEF Abstract!Issue
    <3>6. CASE Commits(r, s)
      <4>1. entry(s) = [issued |-> r.issued, holders |-> {}, outputs |-> {r.issued}]
        BY <3>6 DEF Commits
      <4>2. entry(r).outputs = {} /\ entry(r).issued = r.issued /\ r.issued # 0
        BY <3>6 DEF Commits, Attempts
      <4> QED
        BY <3>2, <4>1, <4>2 DEF Abstract!Commit
    <3> QED
      BY <3>1, <3>3, <3>4, <3>5, <3>6 DEF JobStep
  <2> QED
    BY <2>1, <2>2 DEF Abstract!Next
<1> QED
  BY <1>1, <1>2, Inductive, PTL DEF Spec, ImplementsRegister, Abstract!Spec

-----------------------------------------------------------------------------
(* Exclusion.                                                              *)
(*                                                                         *)
(* A worker never owns two unexpired leases.  Only Acquire and Resume make *)
(* a lease active; every other action is quiet, and those two are held     *)
(* back by the unique indexes (NoOtherActive).                             *)

(* No lease becomes active, and none changes hands.                        *)
QuietRecord(r, s) ==
  \A n \in Attempts : s.lease[n] \in ActiveStates =>
    r.lease[n] \in ActiveStates /\ s.worker[n] = r.worker[n]

Quiet == \A j \in Jobs : QuietRecord(job[j], job'[j])

LEMMA QuietUpdate ==
  ASSUME TypeOK, NEW j \in Jobs, NEW s, Update(j, s), QuietRecord(job[j], s)
  PROVE  Quiet
BY DEF TypeOK, Update, Quiet, QuietRecord

LEMMA QuietExpired ==
  ASSUME NEW r, r \in JobRecord
  PROVE  QuietRecord(r, Expired(r)) /\ Expired(r).worker = r.worker
<1>1. CASE \A n \in Attempts : r.lease[n] # "lapsed"
  BY <1>1 DEF Expired, QuietRecord
<1>2. CASE ~\A n \in Attempts : r.lease[n] # "lapsed"
  <2>1. PICK status \in {"cancelled", "queued", "failed"}, k \in 0 .. MaxRetries :
          RetryOrFail(r) = [r EXCEPT !.status = status, !.retries = k]
    BY RetryOrFailMoves
  <2>2. /\ Expired(r).lease =
             [n \in Attempts |-> IF r.lease[n] = "lapsed" THEN "expired" ELSE r.lease[n]]
        /\ Expired(r).worker = r.worker
    BY <1>2, <2>1 DEF Expired, JobRecord
  <2> QED
    BY <2>2 DEF QuietRecord, ActiveStates
<1> QED
  BY <1>1, <1>2

LEMMA QuietAllExpired ==
  ASSUME TypeOK
  PROVE  \A j \in Jobs : /\ AllExpired[j].worker = job[j].worker
                         /\ QuietRecord(job[j], AllExpired[j])
BY QuietExpired DEF TypeOK, AllExpired

LEMMA QuietAttemptStep ==
  ASSUME TypeOK, NEW j \in Jobs, NEW n \in Attempts, AttemptStep(j, n), ~Resume(j, n)
  PROVE  Quiet
<1> USE DEF Quiet, QuietRecord, ActiveStates, Update, TypeOK
<1>0. job[j] \in JobRecord
  BY DEF TypeOK
<1>1. CASE Lapse(j, n)
  BY <1>0, <1>1 DEF Lapse, JobRecord
<1>2. CASE KeepAlive(j, n)
  BY <1>0, <1>2 DEF KeepAlive, JobRecord
<1>3. CASE Acknowledge(j, n)
  BY <1>0, <1>3 DEF Acknowledge, JobRecord
<1>4. CASE Upload(j, n)
  BY <1>0, <1>4 DEF Upload, JobRecord
<1>5. CASE BeginCompletion(j, n)
  BY <1>0, <1>5 DEF BeginCompletion, JobRecord
<1>6. CASE Decide(j, n)
  BY <1>0, <1>6 DEF Decide, JobRecord
<1>7. CASE Seal(j, n) \/ Move(j, n) \/ RecordPublished(j, n)
  <2>1. PICK to \in StoreStates : Update(j, [job[j] EXCEPT !.store[n] = to])
    BY <1>7 DEF Seal, Move, RecordPublished, StoreStep, StoreStates
  <2> QED
    BY <1>0, <2>1 DEF JobRecord
<1>8. CASE CommitCompletion(j, n)
  <2>1. CASE Update(j, [job[j] EXCEPT !.completing[n] = "idle"])
    BY <1>0, <2>1 DEF JobRecord
  <2>2. CASE Update(j, [Committed(job[j], n, Phase[j]) EXCEPT
                          !.status = "completed", !.completing[n] = "idle"])
    BY <1>0, <2>2 DEF Committed, JobRecord
  <2> QED
    BY <1>8, <2>1, <2>2 DEF CommitCompletion
<1>9. CASE AbortCompletion(j, n)
  BY <1>0, <1>9 DEF AbortCompletion, JobRecord
<1>10. CASE CompleteFailure(j, n)
  BY <1>0, <1>10 DEF CompleteFailure, JobRecord
<1>11. CASE \E label \in ReleaseLabels : Release(j, n, label)
  <2>1. PICK label \in ReleaseLabels : Release(j, n, label)
    BY <1>11
  <2>2. PICK status \in {"cancelled", "queued", "failed"}, k \in 0 .. MaxRetries :
          RetryOrFail(job[j]) = [job[j] EXCEPT !.status = status, !.retries = k]
    BY <1>0, RetryOrFailMoves
  <2> QED
    BY <1>0, <2>1, <2>2 DEF Release, ReleaseLabels, JobRecord
<1>12. CASE CancelLease(j, n)
  BY <1>0, <1>12 DEF CancelLease, JobRecord
<1>13. CASE Defer(j, n)
  BY <1>0, <1>13 DEF Defer, JobRecord
<1>14. CASE AckApplied(j, n)
  BY <1>0, <1>14 DEF AckApplied, OpenStop, Stops, JobRecord
<1>15. CASE AckFailed(j, n)
  BY <1>0, <1>15 DEF AckFailed, JobRecord
<1>16. CASE Reconcile(j, n)
  BY <1>0, <1>16 DEF Reconcile, Committed, JobRecord
<1> QED
  BY <1>1, <1>2, <1>3, <1>4, <1>5, <1>6, <1>7, <1>8, <1>9, <1>10, <1>11, <1>12, <1>13,
     <1>14, <1>15, <1>16 DEF AttemptStep

LEMMA QuietOperatorStep ==
  ASSUME IInv, NEW j \in Jobs, OperatorStep(j)
  PROVE  Quiet
<1> USE DEF Quiet, QuietRecord, ActiveStates, Update, TypeOK
<1>0. job[j] \in JobRecord /\ JobInv(job[j]) /\ TypeOK
  BY DEF IInv, TypeOK
<1>1. CASE LookUp(j)
  BY <1>0, <1>1 DEF LookUp, JobRecord
<1>2. CASE \E look \in 0 .. MaxAttempts : Reject(j, look)
  BY <1>0, <1>2 DEF Reject, JobRecord
<1>3. ASSUME NEW look, NEW action, HoldPublication(j, look, action)
      PROVE  Quiet
  BY <1>0, <1>3, PublicationLeaseIsLive DEF HoldPublication, JobRecord
<1>4. ASSUME NEW look, NEW action, FencePublication(j, look, action)
      PROVE  Quiet
  BY <1>0, <1>4, PublicationLeaseIsLive DEF FencePublication, JobRecord
<1>5. ASSUME NEW look, ResumePaused(j, look)
      PROVE  Quiet
  BY <1>0, <1>5 DEF ResumePaused, JobRecord
<1>6. ASSUME NEW look, NEW action, DirectWaiting(j, look, action)
      PROVE  Quiet
  BY <1>0, <1>6 DEF DirectWaiting, JobRecord
<1>7. ASSUME NEW look, NEW action, NEW n \in Attempts, DirectLeased(j, n, look, action)
      PROVE  Quiet
  BY <1>0, <1>7 DEF DirectLeased, JobRecord
<1>8. CASE CancelLook(j)
  BY <1>0, <1>8 DEF CancelLook, JobRecord
<1>9. CASE Cancel(j)
  <2>1. CASE Update(j, [job[j] EXCEPT !.cancelSeen = FALSE])
    BY <1>0, <2>1 DEF JobRecord
  <2>2. CASE Update(j, [job[j] EXCEPT !.status = IF @ = "queued" THEN "cancelled"
                                                  ELSE "cancel_requested",
                                      !.cancel = TRUE, !.cancelSeen = FALSE])
    BY <1>0, <2>2 DEF JobRecord
  <2> QED
    BY <1>9, <2>1, <2>2 DEF Cancel
<1>10. CASE RestartFailedUnit(j)
  BY <1>0, <1>10 DEF RestartFailedUnit, JobRecord
<1> QED
  BY <1>1, <1>2, <1>3, <1>4, <1>5, <1>6, <1>7, <1>8, <1>9, <1>10 DEF OperatorStep

(* Quiet steps preserve exclusion.                                         *)
LEMMA QuietExcludes ==
  ASSUME OneLeasePerWorker, Quiet
  PROVE  OneLeasePerWorker'
BY DEF OneLeasePerWorker, Quiet, QuietRecord

LEMMA ResumeExcludes ==
  ASSUME TypeOK, OneLeasePerWorker, NEW j \in Jobs, NEW n \in Attempts, Resume(j, n)
  PROVE  OneLeasePerWorker'
<1>1. /\ NoOtherActive(job, job[j].worker[n], j, n)
      /\ \A i \in Jobs : job'[i].worker = job[i].worker
      /\ \A i \in Jobs, m \in Attempts : <<i, m>> # <<j, n>> => job'[i].lease[m] = job[i].lease[m]
  BY DEF Resume, Update, TypeOK, JobRecord
<1>2. ASSUME NEW i \in Jobs, NEW m \in Attempts, <<i, m>> # <<j, n>>,
             job'[i].lease[m] \in ActiveStates
      PROVE  job'[i].worker[m] # job'[j].worker[n]
  BY <1>1, <1>2 DEF NoOtherActive
<1> QED
  BY <1>1, <1>2 DEF OneLeasePerWorker

LEMMA AcquireExcludes ==
  ASSUME TypeOK, IInv, OneLeasePerWorker, NEW w \in Workers, NEW j \in Jobs, Acquire(w, j)
  PROVE  OneLeasePerWorker'
<1> DEFINE e == AllExpired
           n == e[j].issued + 1
<1>1. e \in [Jobs -> JobRecord]
  BY AllExpiredSteps
<1>2. n \in Attempts /\ NoOtherActive(e, w, j, n)
  BY <1>1, MaxAttemptsAssumption DEF Acquire, JobRecord, Attempts
<1>3. /\ job'[j].worker[n] = w
      /\ \A i \in Jobs, m \in Attempts : <<i, m>> # <<j, n>> =>
           job'[i].lease[m] = e[i].lease[m] /\ job'[i].worker[m] = e[i].worker[m]
  BY <1>1, <1>2 DEF Acquire, JobRecord
<1> HIDE DEF n, e
<1>4. \A i, k \in Jobs, m, l \in Attempts :
        /\ e[i].lease[m] \in ActiveStates /\ e[k].lease[l] \in ActiveStates
        /\ e[i].worker[m] = e[k].worker[l]
        => i = k /\ m = l
  BY QuietAllExpired DEF OneLeasePerWorker, QuietRecord, e
<1>5. ASSUME NEW i \in Jobs, NEW m \in Attempts, <<i, m>> # <<j, n>>,
             job'[i].lease[m] \in ActiveStates
      PROVE  job'[i].worker[m] # w
  BY <1>2, <1>3, <1>5 DEF NoOtherActive
<1> QED
  BY <1>2, <1>3, <1>4, <1>5 DEF OneLeasePerWorker

(* A worker never owns two unexpired leases, for any number of workers.    *)
THEOREM WorkerExclusion == Spec => []OneLeasePerWorker
<1>1. Init => OneLeasePerWorker
  BY DEF Init, NewJob, OneLeasePerWorker, ActiveStates
<1>2. IInv /\ OneLeasePerWorker /\ [Next]_vars => OneLeasePerWorker'
  <2> SUFFICES ASSUME IInv, OneLeasePerWorker, [Next]_vars
               PROVE  OneLeasePerWorker'
    OBVIOUS
  <2>0. TypeOK
    BY DEF IInv
  <2>1. CASE \E w \in Workers, j \in Jobs : Acquire(w, j)
    BY <2>0, <2>1, AcquireExcludes
  <2>2. CASE \E j \in Jobs, n \in Attempts : AttemptStep(j, n)
    BY <2>0, <2>2, QuietAttemptStep, QuietExcludes, ResumeExcludes
  <2>3. CASE \E j \in Jobs : OperatorStep(j)
    BY <2>3, QuietOperatorStep, QuietExcludes
  <2>4. CASE \E j \in Jobs : Index(j)
    <3>1. PICK j \in Jobs : Index(j)
      BY <2>4
    <3>2. QuietRecord(job[j], [job[j] EXCEPT !.status = "indexed"])
      BY <2>0 DEF TypeOK, JobRecord, QuietRecord
    <3> QED
      BY <2>0, <3>1, <3>2, QuietUpdate, QuietExcludes DEF Index
  <2>5. CASE Expire \/ StartupExpire
    <3>1. job' = AllExpired
      BY <2>5 DEF Expire, StartupExpire
    <3> QED
      BY <2>0, <3>1, QuietAllExpired, QuietExcludes DEF Quiet
  <2>6. CASE Crash
    <3>1. ASSUME NEW j \in Jobs
          PROVE  QuietRecord(job[j], job'[j])
      <4>1. job[j] \in JobRecord
        BY <2>0 DEF TypeOK
      <4>2. job'[j] = [job[j] EXCEPT !.completing = [n \in Attempts |-> "idle"],
                                     !.looked = {}, !.cancelSeen = FALSE]
        BY <2>6 DEF Crash
      <4> QED
        BY <4>1, <4>2 DEF JobRecord, QuietRecord
    <3> QED
      BY <3>1, QuietExcludes DEF Quiet
  <2>7. CASE Boot \/ Serve \/ UNCHANGED vars
    BY <2>7 DEF Boot, Serve, vars, OneLeasePerWorker
  <2> QED
    BY <2>1, <2>2, <2>3, <2>4, <2>5, <2>6, <2>7 DEF Next, ServerStep
<1> QED
  BY <1>1, <1>2, Inductive, PTL DEF Spec
=============================================================================

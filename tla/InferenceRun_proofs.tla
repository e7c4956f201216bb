------------------------ MODULE InferenceRun_proofs ------------------------
(***************************************************************************)
(* Inference runs and post-hoc fits, for any population, shard size and    *)
(* number of attempts.                                                     *)
(*                                                                         *)
(* A run takes only steps of the worker-lease protocol, so what is proved  *)
(* of WorkerLease holds of its jobs.  The inductive invariant InferInv     *)
(* says where the run is in its plan (unit i is shard i, the last unit     *)
(* merges, shard k has output exactly when the run is past it), and which  *)
(* of its jobs have output.  A step then rests, starts the run, advances   *)
(* it by one shard, or reports its result.                                 *)
(***************************************************************************)
EXTENDS InferenceRun, WorkerLease_proofs

Size == Len(request.units)

(* What the merge reads.                                                   *)
MergeOf(output) == UNION {output[k] : k \in Shards}

Merged == MergeOf(request.output)

(* The outputs of the shards once attempt n of the head has committed.     *)
WithHead(n) == [request.output EXCEPT ![CurrentUnit.shard] = {<<HeadJob, n>>}]

PlanInv ==
  /\ request \in RequestRecord
  /\ Size <= IF Divided THEN ShardCount + 1 ELSE 1
  /\ \A i \in 1 .. Size :
       request.units[i].shard = IF Divided /\ i <= ShardCount THEN i ELSE 0
  /\ \A k \in Shards : request.output[k] # {} <=> k < Size
  /\ Started => CurrentUnit.inputs = IF Size = ShardCount + 1 /\ Divided THEN Merged ELSE {}

OutputsInv ==
  /\ \A i \in 1 .. Size - 1 : HasOutput(request.units[i].job)
  /\ \A j \in Jobs \ Units : ~HasOutput(j)
  /\ Started /\ CurrentUnit.shard # 0 => ~HasOutput(HeadJob)

StatusInv ==
  /\ StatusMatchesResult
  /\ request.status = "ready" => ~Started

CallsInv ==
  /\ asked \subseteq Units
  /\ withdraw \in BOOLEAN
  /\ calls \in 0 .. MaxCalls

InferInv == PlanInv /\ OutputsInv /\ StatusInv /\ CallsInv

----------------------------------------------------------------------------
(* The slices of the population.                                           *)
LEMMA TimesMonotonic ==
  ASSUME NEW a \in Int, NEW b \in Int, NEW s \in Nat, a <= b
  PROVE  a * s <= b * s
OBVIOUS

LEMMA Quotient ==
  ASSUME NEW a \in Nat, NEW s \in Nat \ {0}
  PROVE  /\ a \div s \in Nat
         /\ (a \div s) * s <= a /\ a < (a \div s + 1) * s
OBVIOUS

LEMMA ShardCountFits ==
  ASSUME Sharded
  PROVE  /\ ShardCount \in Nat \ {0} /\ Shards = 1 .. ShardCount
         /\ (ShardCount - 1) * ShardSize < Population
         /\ Population <= ShardCount * ShardSize
<1>1. ShardSize \in Nat \ {0} /\ Population \in Nat \ {0}
  BY PopulationAssumption, ShardSizeAssumption DEF Sharded
<1> DEFINE a == Population + ShardSize - 1
<1>2. a \in Nat
  BY <1>1
<1>3. ShardCount = a \div ShardSize
  BY DEF ShardCount
<1> HIDE DEF a
<1>4. /\ ShardCount \in Nat
      /\ ShardCount * ShardSize <= a /\ a < (ShardCount + 1) * ShardSize
  BY <1>1, <1>2, <1>3, Quotient
<1>5. (ShardCount - 1) * ShardSize = ShardCount * ShardSize - ShardSize
  BY <1>1, <1>4
<1>6. (ShardCount + 1) * ShardSize = ShardCount * ShardSize + ShardSize
  BY <1>1, <1>4
<1>7. ShardCount * ShardSize \in Int
  BY <1>1, <1>4
<1>8. a = Population + ShardSize - 1
  BY DEF a
<1>9. /\ (ShardCount - 1) * ShardSize < Population
      /\ Population <= ShardCount * ShardSize
  BY <1>1, <1>4, <1>5, <1>6, <1>7, <1>8
<1>10. ShardCount # 0
  BY <1>1, <1>9
<1> QED
  BY <1>4, <1>9, <1>10 DEF Shards

(* No slice is empty, no item is in two, and every item is in one.         *)
LEMMA BlockNonempty ==
  ASSUME Sharded, NEW k \in Shards
  PROVE  Block(k) # {} /\ Block(k) \subseteq Items
<1>1. /\ k \in Nat \ {0} /\ k <= ShardCount /\ ShardCount \in Nat
      /\ (ShardCount - 1) * ShardSize < Population
      /\ ShardSize \in Nat \ {0} /\ Population \in Nat
  BY ShardCountFits, PopulationAssumption, ShardSizeAssumption DEF Sharded
<1>2. (k - 1) * ShardSize <= (ShardCount - 1) * ShardSize
  BY <1>1, TimesMonotonic
<1>3. k * ShardSize = (k - 1) * ShardSize + ShardSize
  BY <1>1
<1>4. (k - 1) * ShardSize \in Nat /\ (ShardCount - 1) * ShardSize \in Int
  BY <1>1
<1>5. (k - 1) * ShardSize + 1 \in Block(k)
  BY <1>1, <1>2, <1>3, <1>4 DEF Block, Items
<1> QED
  BY <1>5 DEF Block

LEMMA BlocksDisjoint ==
  ASSUME Sharded, NEW i \in Shards, NEW k \in Shards, i < k
  PROVE  Block(i) \cap Block(k) = {}
<1>1. i \in Nat /\ k \in Nat /\ ShardSize \in Nat
  BY ShardCountFits, ShardSizeAssumption
<1>2. i * ShardSize <= (k - 1) * ShardSize
  BY <1>1, TimesMonotonic
<1>3. i * ShardSize \in Int /\ (k - 1) * ShardSize \in Int
  BY <1>1
<1> QED
  BY <1>2, <1>3, PopulationAssumption DEF Block, Items

LEMMA BlocksCover ==
  ASSUME Sharded
  PROVE  UNION {Block(k) : k \in Shards} = Items
<1>1. /\ ShardCount \in Nat /\ Population <= ShardCount * ShardSize
      /\ ShardSize \in Nat \ {0} /\ Population \in Nat
  BY ShardCountFits, PopulationAssumption, ShardSizeAssumption DEF Sharded
<1>2. ASSUME NEW x \in Items PROVE \E k \in Shards : x \in Block(k)
  <2> DEFINE q == (x - 1) \div ShardSize
  <2>1. x \in Nat /\ x - 1 \in Nat /\ x <= Population
    BY <1>1 DEF Items
  <2>2. q \in Nat /\ q * ShardSize <= x - 1 /\ x - 1 < (q + 1) * ShardSize
    BY <1>1, <2>1, Quotient
  <2> HIDE DEF q
  <2>3. q * ShardSize \in Int /\ (q + 1) * ShardSize \in Int /\ ShardCount * ShardSize \in Int
    BY <1>1, <2>2
  <2>4. q < ShardCount
    <3>1. SUFFICES ASSUME ShardCount <= q PROVE FALSE
      BY <1>1, <2>2
    <3>2. ShardCount * ShardSize <= q * ShardSize
      BY <1>1, <2>2, <3>1, TimesMonotonic
    <3> QED
      BY <1>1, <2>1, <2>2, <2>3, <3>2
  <2>5. q + 1 \in Shards /\ (q + 1) - 1 = q
    BY <1>1, <2>2, <2>4, ShardCountFits
  <2>6. x \in Block(q + 1)
    BY <2>1, <2>2, <2>3, <2>5 DEF Block
  <2> QED
    BY <2>5, <2>6
<1>3. \A k \in Shards : Block(k) \subseteq Items
  BY DEF Block
<1> QED
  BY <1>2, <1>3

----------------------------------------------------------------------------
(* Every step of a run is a step of the lease protocol.                    *)
LEMMA UnitsAreJobs ==
  ASSUME request \in RequestRecord
  PROVE  Units \subseteq Jobs
<1>1. request.units \in Seq(UnitRecord)
  BY DEF RequestRecord
<1>2. \A i \in 1 .. Len(request.units) : request.units[i] \in UnitRecord
  BY <1>1
<1> QED
  BY <1>2 DEF Units, UnitRecord

LEMMA InferStepIsLeaseStep ==
  ASSUME request \in RequestRecord, [InferNext]_inferVars
  PROVE  [Next]_vars
<1>1. ASSUME NEW w \in Workers, NEW j \in Units, RunAcquire(w, j)
      PROVE  Next
  BY <1>1, UnitsAreJobs DEF RunAcquire, Next
<1>2. ASSUME NEW j \in Units, NEW n \in Attempts,
             RunAttempt(j, n) \/ FailUnit(j, n) \/ CommitUnit(j, n)
      PROVE  Next
  BY <1>2, UnitsAreJobs DEF RunAttempt, FailUnit, CommitUnit, AttemptStep, Next
<1>3. ASSUME NEW j \in Units, RunOperator(j) \/ IndexFit(j)
      PROVE  Next
  BY <1>3, UnitsAreJobs DEF RunOperator, IndexFit, Next
<1>4. CASE RunServer
  BY <1>4 DEF RunServer, ServerStep, Next
<1>5. CASE (\E j \in Jobs : Start(j)) \/ CancelReads \/ CancelWrites
             \/ \E j \in Units : CancelObserves(j)
  BY <1>5 DEF Start, CancelReads, CancelWrites, CancelObserves, vars
<1>6. CASE UNCHANGED inferVars
  BY <1>6 DEF inferVars, vars
<1> QED
  BY <1>1, <1>2, <1>3, <1>4, <1>5, <1>6 DEF InferNext

LEMMA InferInitIsInit == InferInit => Init
<1> SUFFICES ASSUME InferInit PROVE Init
  OBVIOUS
<1>1. job = [j \in Jobs |-> NewJob("queued")] /\ server = "up"
  BY DEF InferInit
<1>2. \A j \in Jobs : job[j].status = "queued"
  BY <1>1 DEF NewJob
<1> QED
  BY <1>1, <1>2 DEF Init

----------------------------------------------------------------------------
(* The four kinds of step a run takes.                                     *)
RowStatuses == {"ready", "queued", "completed", "failed", "cancelled", "indexed"}

(* At most the status of the row is written.                               *)
SamePlan == \E s \in RowStatuses : request' = [request EXCEPT !.status = s]

(* What a step that records no output may write there.                     *)
Verdict ==
  \/ request'.status \in {request.status, "cancelled"}
  \/ request'.status = "failed" /\ ~HasResult
  \/ request'.status = "indexed" /\ HasResult /\ request.kind = "posthoc"

Rests ==
  /\ SamePlan /\ Verdict
  /\ \A i \in Jobs : job'[i].output = job[i].output

Starts(j) ==
  /\ ~Started
  /\ request' = [request EXCEPT !.status = "queued", !.units = <<FirstUnit(j)>>]
  /\ job' = job

(* The head's attempt n records its output, which the others do not.       *)
HeadRecords(n) ==
  /\ Started /\ ~HasOutput(HeadJob)
  /\ job'[HeadJob].output[n]
  /\ \A i \in Jobs \ {HeadJob} : job'[i].output = job[i].output

(* A shard commits, which no request has cancelled.                        *)
Advances(n) ==
  /\ HeadRecords(n) /\ CurrentUnit.shard # 0
  /\ CommitShard(HeadJob, n)
  /\ ~(job[HeadJob].status = "cancelled" /\ job[HeadJob].cancel)

Reports(n) ==
  /\ HeadRecords(n) /\ CurrentUnit.shard = 0
  /\ SamePlan
  /\ \/ request'.status = "completed"
     \/ request'.status = request.status /\ request.kind = "posthoc"

LEMMA HeadIsUnit ==
  ASSUME request \in RequestRecord, Started
  PROVE  /\ Size \in Nat \ {0} /\ CurrentUnit = request.units[Size]
         /\ CurrentUnit \in UnitRecord /\ HeadJob \in Units
         /\ \A j \in Units : j # HeadJob => \E i \in 1 .. Size - 1 : request.units[i].job = j
<1>1. request.units \in Seq(UnitRecord) /\ request.units # <<>>
  BY DEF RequestRecord, Started
<1>2. Size \in Nat \ {0} /\ \A i \in 1 .. Size : request.units[i] \in UnitRecord
  BY <1>1 DEF Size
<1>3. Size \in 1 .. Size /\ \A i \in 1 .. Size : i # Size => i \in 1 .. Size - 1
  BY <1>2
<1> QED
  BY <1>2, <1>3 DEF CurrentUnit, HeadJob, Units, Size

LEMMA UnitsNeedStart ==
  ASSUME request \in RequestRecord, NEW j \in Units
  PROVE  Started
<1>1. PICK i \in 1 .. Len(request.units) : request.units[i].job = j
  BY DEF Units
<1> QED
  BY <1>1 DEF Started

LEMMA SameRow ==
  ASSUME request \in RequestRecord, request' = request
  PROVE  SamePlan /\ Verdict
<1>1. request.status \in RowStatuses
  BY DEF RequestRecord, RowStatuses
<1>2. request' = [request EXCEPT !.status = request.status]
  BY DEF RequestRecord
<1> QED
  BY <1>1, <1>2 DEF SamePlan, Verdict

(* Only the head can record an output: the jobs behind it have theirs.     *)
LEMMA OnlyHeadRecords ==
  ASSUME IInv, InferInv, NEW j \in Units, NEW n \in Attempts, Steps,
         AttemptStep(j, n), RecordsOutput(j)
  PROVE  /\ Started /\ j = HeadJob /\ ~HasOutput(HeadJob)
         /\ \A i \in Jobs \ {HeadJob} : job'[i].output = job[i].output
<1>1. request \in RequestRecord
  BY DEF InferInv, PlanInv
<1>2. Started /\ j \in Jobs
  BY <1>1, UnitsNeedStart, UnitsAreJobs
<1>3. ~HasOutput(j)
  BY <1>2, OutputStaysOrIsFirst DEF HasOutput, Steps, RecordsOutput
<1>4. j = HeadJob
  BY <1>1, <1>2, <1>3, HeadIsUnit DEF InferInv, OutputsInv
<1> QED
  BY <1>2, <1>3, <1>4, AttemptStepIsLocal

LEMMA CommittedNotCancelled ==
  ASSUME IInv, NEW j \in Jobs, NEW n \in Attempts, RecordsOutput(j),
         CommitCompletion(j, n) \/ Reconcile(j, n)
  PROVE  ~(job[j].status = "cancelled" /\ job[j].cancel)
<1>1. JobInv(job[j]) /\ job \in [Jobs -> JobRecord]
  BY DEF IInv, TypeOK
<1>2. CASE Reconcile(j, n)
  BY <1>2 DEF Reconcile, Reconcilable
<1>3. CASE CommitCompletion(j, n) /\ job[j].lease[n] = "publication_pending"
  BY <1>1, <1>3 DEF JobInv, LiveIsLatest, Live, LiveStates, HeldStatuses, PublicationStatuses
<1>4. CASE Update(j, [job[j] EXCEPT !.completing[n] = "idle"])
  BY <1>1, <1>4 DEF Update, RecordsOutput, JobRecord
<1> QED
  BY <1>2, <1>3, <1>4 DEF CommitCompletion

LEMMA FailedHasNone ==
  ASSUME IInv, NEW j \in Jobs, NEW n \in Attempts, CompleteFailure(j, n)
  PROVE  ~HasOutput(j)
<1>1. JobInv(job[j]) /\ job[j].lease[n] = "active"
  BY DEF IInv, CompleteFailure, Authenticated
<1> QED
  BY <1>1 DEF JobInv, LiveIsLatest, OutputIsLatest, Live, LiveStates, ActiveStates, HasOutput

(* A run that is not divided has one job, whose output is its result.      *)
LEMMA WholeResult ==
  ASSUME PlanInv, ~Divided, NEW j \in Units, HasOutput(j)
  PROVE  HasResult
<1>1. request \in RequestRecord /\ Started
  BY UnitsNeedStart DEF PlanInv
<1>2. Size = 1 /\ CurrentUnit = request.units[1]
  BY <1>1, HeadIsUnit DEF PlanInv
<1>3. CurrentUnit.shard = 0 /\ j = HeadJob
  BY <1>1, <1>2, HeadIsUnit DEF PlanInv
<1> QED
  BY <1>1, <1>3 DEF HasResult

LEMMA InferSteps ==
  ASSUME IInv, InferInv, [InferNext]_inferVars
  PROVE  /\ Steps
         /\ \/ Rests
            \/ \E j \in Jobs : Starts(j)
            \/ \E n \in Attempts : Advances(n) \/ Reports(n)
<1>1. request \in RequestRecord
  BY DEF InferInv, PlanInv
<1>2. Steps
  BY <1>1, InferStepIsLeaseStep, NextSteps
<1>3. Units \subseteq Jobs
  BY <1>1, UnitsAreJobs
<1>4. ASSUME NEW j \in Jobs, Start(j) PROVE Starts(j)
  BY <1>4 DEF Start, Starts, InferInv, StatusInv
<1>5. CASE CancelReads \/ \E j \in Units : CancelObserves(j)
  <2>1. job' = job /\ request' = request
    BY <1>5 DEF CancelReads, CancelObserves
  <2> QED
    BY <1>1, <1>2, <2>1, SameRow DEF Rests
<1>6. CASE CancelWrites
  <2>1. job' = job /\ request' = [request EXCEPT !.status = "cancelled"]
    BY <1>6 DEF CancelWrites
  <2>2. SamePlan /\ request'.status = "cancelled"
    BY <1>1, <2>1 DEF SamePlan, RowStatuses, RequestRecord
  <2> QED
    BY <1>2, <2>1, <2>2 DEF Rests, Verdict
<1>7. ASSUME NEW w \in Workers, NEW j \in Units, RunAcquire(w, j)
      PROVE  Rests
  BY <1>1, <1>3, <1>7, SilentAcquire, SameRow DEF RunAcquire, Silent, Rests
<1>8. ASSUME NEW j \in Units, RunOperator(j) PROVE Rests
  BY <1>1, <1>3, <1>8, SilentOperatorStep, SameRow DEF RunOperator, Silent, Rests
<1>9. ASSUME NEW j \in Units, IndexFit(j) PROVE Rests
  <2>1. Silent
    BY <1>3, <1>9, SilentIndex DEF IndexFit
  <2>2. CASE request' = request
    BY <1>1, <2>1, <2>2, SameRow DEF Silent, Rests
  <2>3. CASE request' = [request EXCEPT !.status = "indexed"]
    <3>1. SamePlan /\ request'.status = "indexed"
      BY <1>1, <2>3 DEF SamePlan, RowStatuses, RequestRecord
    <3>2. HasOutput(j) /\ ~Divided
      BY <1>9 DEF IndexFit, Index, HasOutput, Divided
    <3>3. request.kind = "posthoc"
      BY <1>9 DEF IndexFit
    <3>4. HasResult
      BY <1>1, <3>2, WholeResult DEF InferInv
    <3> QED
      BY <2>1, <3>1, <3>3, <3>4 DEF Silent, Rests, Verdict
  <2> QED
    BY <1>9, <2>2, <2>3 DEF IndexFit
<1>10. ASSUME NEW j \in Units, NEW n \in Attempts, RunAttempt(j, n)
       PROVE  Rests
  BY <1>1, <1>3, <1>10, AttemptStepIsLocal, SameRow DEF RunAttempt, RecordsOutput, Rests
<1>11. ASSUME NEW j \in Units, NEW n \in Attempts, FailUnit(j, n)
       PROVE  Rests
  <2>1. CompleteFailure(j, n) /\ j \in Jobs
    BY <1>3, <1>11 DEF FailUnit
  <2>2. Silent
    BY <2>1, SilentUpdate DEF CompleteFailure, IInv, TypeOK, JobRecord
  <2>3. CASE ~IsHead(j)
    BY <1>1, <1>11, <2>2, <2>3, SameRow DEF FailUnit, Silent, Rests
  <2>4. CASE IsHead(j)
    <3>1. request' = [request EXCEPT !.status = "failed"]
      BY <1>11, <2>4 DEF FailUnit
    <3>2. SamePlan /\ request'.status = "failed"
      BY <1>1, <3>1 DEF SamePlan, RowStatuses, RequestRecord
    <3>3. ~HasResult
      BY <2>1, <2>4, FailedHasNone DEF IsHead, HasResult
    <3> QED
      BY <2>2, <3>2, <3>3 DEF Silent, Rests, Verdict
  <2> QED
    BY <2>3, <2>4
<1>12. ASSUME NEW j \in Units, NEW n \in Attempts, CommitUnit(j, n)
       PROVE  Advances(n) \/ Reports(n)
  <2>1. AttemptStep(j, n) /\ RecordsOutput(j) /\ (CommitCompletion(j, n) \/ Reconcile(j, n))
    BY <1>12 DEF CommitUnit, AttemptStep
  <2>2. /\ Started /\ j = HeadJob /\ ~HasOutput(HeadJob)
        /\ \A i \in Jobs \ {HeadJob} : job'[i].output = job[i].output
    BY <1>2, <2>1, OnlyHeadRecords
  <2>3. job'[j].output[n]
    BY <1>3, <2>1, CommitRecords DEF RecordsOutput
  <2>4. HeadRecords(n)
    BY <2>2, <2>3 DEF HeadRecords
  <2>5. CASE CurrentUnit.shard # 0
    <3>1. ~(job[HeadJob].status = "cancelled" /\ job[HeadJob].cancel)
      BY <1>3, <2>1, <2>2, CommittedNotCancelled
    <3> QED
      BY <1>12, <2>2, <2>4, <2>5, <3>1 DEF CommitUnit, IsHead, Advances
  <2>6. CASE CurrentUnit.shard = 0
    <3>1. Report(j, n)
      BY <1>12, <2>2, <2>6 DEF CommitUnit, IsHead
    <3>2. CASE request' = [request EXCEPT !.status = "completed"]
      <4>1. SamePlan /\ request'.status = "completed"
        BY <1>1, <3>2 DEF SamePlan, RowStatuses, RequestRecord
      <4> QED
        BY <2>4, <2>6, <4>1 DEF Reports
    <3>3. CASE request' = request /\ request.kind = "posthoc"
      BY <1>1, <2>4, <2>6, <3>3, SameRow DEF Reports
    <3> QED
      BY <3>1, <3>2, <3>3 DEF Report
  <2> QED
    BY <2>5, <2>6
<1>13. CASE RunServer
  BY <1>1, <1>2, <1>13, SilentServer, SameRow DEF RunServer, ServerStep, Silent, Rests
<1>14. CASE UNCHANGED inferVars
  <2>1. job' = job /\ request' = request
    BY <1>14 DEF inferVars
  <2> QED
    BY <1>1, <1>2, <2>1, SameRow DEF Rests
<1> QED
  BY <1>2, <1>4, <1>5, <1>6, <1>7, <1>8, <1>9, <1>10, <1>11, <1>12, <1>13, <1>14 DEF InferNext

----------------------------------------------------------------------------
(* A step that leaves the plan alone.                                      *)
LEMMA SamePlanFacts ==
  ASSUME request \in RequestRecord, SamePlan
  PROVE  /\ request' \in RequestRecord
         /\ request'.units = request.units /\ request'.output = request.output
         /\ request'.kind = request.kind
         /\ Units' = Units /\ Started' = Started /\ CurrentUnit' = CurrentUnit
         /\ HeadJob' = HeadJob /\ Size' = Size /\ Divided' = Divided
<1>1. PICK s \in RowStatuses : request' = [request EXCEPT !.status = s]
  BY DEF SamePlan
<1>2. /\ request' \in RequestRecord
      /\ request'.units = request.units /\ request'.output = request.output
      /\ request'.kind = request.kind
  BY <1>1 DEF RequestRecord, RowStatuses
<1> QED
  BY <1>2 DEF Units, Started, CurrentUnit, HeadJob, Size, Divided

LEMMA SamePlanKeepsPlan ==
  ASSUME PlanInv, SamePlan
  PROVE  PlanInv'
<1>1. /\ request' \in RequestRecord
      /\ request'.units = request.units /\ request'.output = request.output
      /\ Started' = Started /\ CurrentUnit' = CurrentUnit
      /\ Size' = Size /\ Divided' = Divided
  BY SamePlanFacts DEF PlanInv
<1>2. Merged' = Merged
  BY <1>1 DEF Merged
<1> QED
  BY <1>1, <1>2 DEF PlanInv

LEMMA RestsKeepsInv ==
  ASSUME InferInv, Rests
  PROVE  PlanInv' /\ OutputsInv' /\ StatusInv' /\ Units' = Units
<1>1. PlanInv' /\ request \in RequestRecord
  BY SamePlanKeepsPlan DEF InferInv, Rests, PlanInv
<1>2. /\ request'.units = request.units /\ request'.kind = request.kind
      /\ Units' = Units /\ Started' = Started /\ CurrentUnit' = CurrentUnit
      /\ HeadJob' = HeadJob /\ Size' = Size
  BY <1>1, SamePlanFacts DEF Rests
<1>3. \A j \in Jobs : HasOutput(j)' <=> HasOutput(j)
  BY DEF Rests, HasOutput
<1>4. /\ Units \subseteq Jobs /\ \A i \in 1 .. Size - 1 : request.units[i].job \in Jobs
      /\ Started => HeadJob \in Jobs
  <2>1. \A i \in 1 .. Size : request.units[i].job \in Units
    BY DEF Units, Size
  <2>2. \A i \in 1 .. Size - 1 : i \in 1 .. Size
    BY <1>1 DEF Size, RequestRecord
  <2> QED
    BY <1>1, <2>1, <2>2, UnitsAreJobs, HeadIsUnit
<1>5. OutputsInv'
  BY <1>2, <1>3, <1>4 DEF InferInv, OutputsInv
<1>6. HasResult' <=> HasResult
  BY <1>2, <1>3, <1>4 DEF HasResult
<1>7. StatusInv'
  <2>1. \/ request'.status \in {request.status, "cancelled"}
        \/ request'.status = "failed" /\ ~HasResult
        \/ request'.status = "indexed" /\ HasResult /\ request.kind = "posthoc"
    BY DEF Rests, Verdict
  <2>2. /\ request.status \in {"completed", "indexed"} => HasResult
        /\ request.kind = "infer" /\ HasResult => request.status \in {"completed", "cancelled"}
        /\ request.status = "ready" => ~Started
    BY DEF InferInv, StatusInv, StatusMatchesResult
  <2> QED
    BY <1>2, <1>6, <2>1, <2>2 DEF StatusInv, StatusMatchesResult
<1> QED
  BY <1>1, <1>2, <1>5, <1>7

LEMMA StartsKeepsInv ==
  ASSUME InferInv, NEW j \in Jobs, Starts(j)
  PROVE  PlanInv' /\ OutputsInv' /\ StatusInv' /\ Units \subseteq Units'
<1> DEFINE u == FirstUnit(j)
<1>1. /\ request \in RequestRecord /\ ~Started
      /\ request' = [request EXCEPT !.status = "queued", !.units = <<u>>]
  BY DEF Starts, InferInv, PlanInv
<1>2. u.job = j /\ u.inputs = {} /\ u.shard = IF Divided THEN 1 ELSE 0
  BY DEF FirstUnit
<1>3. Divided => 1 \in Shards /\ ShardCount >= 1 /\ ShardCount \in Nat
  BY ShardCountFits DEF Divided
<1>4. u \in UnitRecord
  BY <1>2, <1>3 DEF FirstUnit, UnitRecord, Outputs
<1> HIDE DEF u
<1>5. /\ request' \in RequestRecord /\ request'.units = <<u>> /\ request'.status = "queued"
      /\ request'.output = request.output /\ request'.kind = request.kind
  <2>1. <<u>> \in Seq(UnitRecord)
    BY <1>4
  <2> QED
    BY <1>1, <2>1 DEF RequestRecord
<1>6. /\ Size' = 1 /\ request'.units[1] = u /\ CurrentUnit' = u /\ HeadJob' = j
      /\ Started' /\ Units' = {j} /\ Divided' = Divided
  <2>1. Len(<<u>>) = 1 /\ <<u>>[1] = u /\ <<u>> # <<>> /\ 1 .. 1 = {1}
    OBVIOUS
  <2> QED
    BY <1>2, <1>5, <2>1 DEF Size, CurrentUnit, HeadJob, Started, Units, Divided
<1>7. Size = 0 /\ Units = {}
  BY <1>1 DEF Started, Size, Units, RequestRecord
<1>8. PlanInv'
  <2>1. \A k \in Shards : request'.output[k] = {} /\ ~(k < 1)
    BY <1>5, <1>7, ShardCountFits DEF InferInv, PlanInv, Shards
  <2>2. 1 <= IF Divided THEN ShardCount + 1 ELSE 1
    BY <1>3
  <2>3. Divided => 1 # ShardCount + 1
    BY <1>3
  <2>4. \A i \in 1 .. 1 : request'.units[i].shard = IF Divided /\ i <= ShardCount THEN i ELSE 0
    BY <1>2, <1>3, <1>6
  <2> QED
    BY <1>2, <1>5, <1>6, <2>1, <2>2, <2>3, <2>4 DEF PlanInv
<1>9. \A i \in Jobs : ~HasOutput(i)'
  BY <1>7 DEF InferInv, OutputsInv, Starts, HasOutput
<1>10. OutputsInv'
  BY <1>6, <1>9 DEF OutputsInv
<1>11. StatusInv'
  BY <1>5, <1>6, <1>9 DEF StatusInv, StatusMatchesResult, HasResult
<1> QED
  BY <1>7, <1>8, <1>10, <1>11

LEMMA ReportsKeepsInv ==
  ASSUME InferInv, NEW n \in Attempts, Reports(n)
  PROVE  PlanInv' /\ OutputsInv' /\ StatusInv' /\ Units' = Units
<1>1. PlanInv' /\ request \in RequestRecord /\ Started
  BY SamePlanKeepsPlan DEF InferInv, Reports, HeadRecords, PlanInv
<1>2. /\ request'.units = request.units /\ request'.kind = request.kind
      /\ Units' = Units /\ Started' = Started /\ CurrentUnit' = CurrentUnit
      /\ HeadJob' = HeadJob /\ Size' = Size /\ CurrentUnit.shard = 0
  BY <1>1, SamePlanFacts DEF Reports
<1>3. /\ HeadJob \in Units /\ Units \subseteq Jobs
      /\ \A i \in 1 .. Size - 1 : request.units[i].job \in Units
  <2>1. \A i \in 1 .. Size : request.units[i].job \in Units
    BY DEF Units, Size
  <2>2. \A i \in 1 .. Size - 1 : i \in 1 .. Size
    BY <1>1 DEF Size, RequestRecord
  <2> QED
    BY <1>1, <2>1, <2>2, UnitsAreJobs, HeadIsUnit
<1>4. HasOutput(HeadJob)' /\ \A j \in Jobs \ {HeadJob} : HasOutput(j)' <=> HasOutput(j)
  BY <1>2 DEF Reports, HeadRecords, HasOutput
<1>5. OutputsInv'
  BY <1>2, <1>3, <1>4 DEF InferInv, OutputsInv
<1>6. HasResult'
  BY <1>1, <1>2, <1>4 DEF HasResult
<1>7. StatusInv'
  BY <1>1, <1>2, <1>6 DEF InferInv, StatusInv, StatusMatchesResult, Reports
<1> QED
  BY <1>1, <1>2, <1>5, <1>7

----------------------------------------------------------------------------
(* A step that commits a shard: its unit, and the one that follows it.     *)
LEMMA ShardAtHead ==
  ASSUME PlanInv, Started, CurrentUnit.shard # 0
  PROVE  /\ Divided /\ Sharded /\ Size \in Shards /\ CurrentUnit.shard = Size
         /\ Size \in Nat \ {0} /\ Size <= ShardCount
<1>1. Size \in Nat \ {0} /\ CurrentUnit = request.units[Size] /\ Size \in 1 .. Size
  BY HeadIsUnit DEF PlanInv
<1>2. CurrentUnit.shard = IF Divided /\ Size <= ShardCount THEN Size ELSE 0
  BY <1>1 DEF PlanInv
<1>3. Divided /\ Size <= ShardCount /\ CurrentUnit.shard = Size
  BY <1>2
<1> QED
  BY <1>1, <1>3, ShardCountFits DEF Divided

LEMMA SuccessorFits ==
  ASSUME PlanInv, Started, CurrentUnit.shard # 0, HeadJob \in Jobs,
         NEW n \in Attempts, NEW k \in Jobs, NEW output, output = WithHead(n),
         NEW v, v = Successor(k, output)
  PROVE  /\ output \in [Shards -> Outputs]
         /\ \A i \in Shards : output[i] # {} <=> i < Size + 1
         /\ v \in UnitRecord /\ v.job = k
         /\ v.shard = IF Size + 1 <= ShardCount THEN Size + 1 ELSE 0
         /\ v.inputs = IF Size + 1 = ShardCount + 1
                       THEN MergeOf(output) ELSE {}
<1> DEFINE N == Size
           pending == Pending(output)
<1>1. /\ N \in Nat \ {0} /\ N <= ShardCount /\ N \in Shards /\ CurrentUnit.shard = N
      /\ ShardCount \in Nat \ {0} /\ Shards = 1 .. ShardCount
      /\ request.output \in [Shards -> Outputs]
  BY ShardAtHead, ShardCountFits DEF PlanInv, RequestRecord
<1> HIDE DEF N, pending
<1>2. {<<HeadJob, n>>} \in Outputs
  BY DEF Outputs
<1>3. output \in [Shards -> Outputs]
  BY <1>1, <1>2 DEF WithHead
<1>4. \A i \in Shards : output[i] # {} <=> i < N + 1
  <2>1. \A i \in Shards : request.output[i] # {} <=> i < N
    BY DEF PlanInv, N
  <2>2. output[N] # {} /\ \A i \in Shards : i # N => output[i] = request.output[i]
    BY <1>1 DEF WithHead
  <2> QED
    BY <1>1, <2>1, <2>2
<1>5. pending = {i \in Shards : i > N}
  BY <1>1, <1>4 DEF Pending, pending
<1>6. CASE N = ShardCount
  <2>1. pending = {}
    BY <1>1, <1>5, <1>6
  <2> DEFINE all == MergeOf(output)
  <2>2. v = [job |-> k, shard |-> 0, inputs |-> all]
    BY <2>1 DEF Successor, pending, MergeOf
  <2>3. all \in Outputs
    BY <1>3 DEF Outputs, MergeOf
  <2> HIDE DEF all
  <2>4. v \in UnitRecord /\ v.job = k /\ v.shard = 0 /\ v.inputs = all
    BY <2>2, <2>3 DEF UnitRecord
  <2>5. ~(N + 1 <= ShardCount) /\ N + 1 = ShardCount + 1
    BY <1>1, <1>6
  <2> QED
    BY <1>3, <1>4, <2>4, <2>5 DEF N, all
<1>7. CASE N # ShardCount
  <2>1. N + 1 \in pending /\ \A i \in pending : N + 1 <= i
    BY <1>1, <1>5, <1>7
  <2>2. (CHOOSE i \in pending : \A m \in pending : i <= m) = N + 1
    <3> DEFINE c == CHOOSE i \in pending : \A m \in pending : i <= m
    <3>1. c \in pending /\ \A m \in pending : c <= m
      BY <2>1
    <3>2. c <= N + 1 /\ N + 1 <= c /\ c \in Nat
      BY <1>1, <1>5, <2>1, <3>1
    <3> QED
      BY <1>1, <3>2
  <2>3. v = [job |-> k, shard |-> N + 1, inputs |-> {}]
    BY <2>1, <2>2 DEF Successor, pending
  <2>4. N + 1 \in Shards /\ {} \in Outputs
    BY <1>5, <2>1 DEF Outputs
  <2> DEFINE next == N + 1
             none == {}
  <2>5. v = [job |-> k, shard |-> next, inputs |-> none] /\ next \in Shards /\ none \in Outputs
    BY <2>3, <2>4
  <2> HIDE DEF next, none
  <2>6. v \in UnitRecord /\ v.job = k /\ v.shard = next /\ v.inputs = none
    BY <2>5 DEF UnitRecord
  <2>7. N + 1 <= ShardCount /\ N + 1 # ShardCount + 1
    BY <1>1, <1>7
  <2> QED
    BY <1>3, <1>4, <2>6, <2>7 DEF N, next, none
<1> QED
  BY <1>6, <1>7

(* What such a step does to the plan.                                      *)
LEMMA AdvancesFacts ==
  ASSUME InferInv, NEW n \in Attempts, Advances(n)
  PROVE  \E k \in Jobs \ Units : \E v \in UnitRecord :
           /\ request' \in RequestRecord /\ request'.kind = request.kind
           /\ request'.status = "queued"
           /\ \A i \in Shards : request'.output[i] # {} <=> i < Size + 1
           /\ v.job = k
           /\ v.shard = IF Size + 1 <= ShardCount THEN Size + 1 ELSE 0
           /\ v.inputs = IF Size + 1 = ShardCount + 1 THEN Merged' ELSE {}
           /\ request'.units = Append(request.units, v)
           /\ \A i \in 1 .. Size : request'.units[i] = request.units[i]
           /\ request'.units[Size + 1] = v
           /\ Size' = Size + 1 /\ CurrentUnit' = v /\ HeadJob' = k /\ Started'
           /\ Units' = Units \cup {k}
<1> DEFINE N == Size
           h == HeadJob
           output == WithHead(n)
<1>1. /\ PlanInv /\ Started /\ request \in RequestRecord /\ CurrentUnit.shard # 0
      /\ h \in Jobs /\ N \in Nat \ {0} /\ request.units \in Seq(UnitRecord)
  BY HeadIsUnit, UnitsAreJobs DEF InferInv, PlanInv, Advances, HeadRecords, RequestRecord
<1>2. PICK k \in Jobs \ Units :
        request' = [request EXCEPT !.status = "queued", !.output = output,
                      !.units = Append(@, Successor(k, output))]
  BY DEF Advances, CommitShard, WithHead
<1> DEFINE v == Successor(k, output)
<1> HIDE DEF v, output, N, h
<1>3. /\ output \in [Shards -> Outputs]
      /\ \A i \in Shards : output[i] # {} <=> i < N + 1
      /\ v \in UnitRecord /\ v.job = k
      /\ v.shard = IF N + 1 <= ShardCount THEN N + 1 ELSE 0
      /\ v.inputs = IF N + 1 = ShardCount + 1 THEN MergeOf(output) ELSE {}
  <2>1. k \in Jobs /\ HeadJob \in Jobs /\ PlanInv /\ Started /\ CurrentUnit.shard # 0
    BY <1>1, <1>2 DEF h
  <2>2. output = WithHead(n) /\ v = Successor(k, output)
    BY DEF output, v
  <2>3. /\ output \in [Shards -> Outputs]
        /\ \A i \in Shards : output[i] # {} <=> i < Size + 1
        /\ v \in UnitRecord /\ v.job = k
        /\ v.shard = IF Size + 1 <= ShardCount THEN Size + 1 ELSE 0
        /\ v.inputs = IF Size + 1 = ShardCount + 1
                      THEN MergeOf(output) ELSE {}
    BY <2>1, <2>2, SuccessorFits
  <2> QED
    BY <2>3 DEF N
<1>4. Append(request.units, v) \in Seq(UnitRecord)
  BY <1>1, <1>3
<1>5. /\ request' \in RequestRecord /\ request'.kind = request.kind
      /\ request'.status = "queued" /\ request'.output = output
      /\ request'.units = Append(request.units, v)
  <2>1. request' = [request EXCEPT !.status = "queued", !.output = output,
                      !.units = Append(request.units, v)]
    BY <1>2 DEF v
  <2> QED
    BY <1>1, <1>3, <1>4, <2>1 DEF RequestRecord
<1>6. /\ Len(request'.units) = N + 1
      /\ \A i \in 1 .. N : request'.units[i] = request.units[i]
      /\ request'.units[N + 1] = v
  BY <1>1, <1>3, <1>5 DEF N, Size
<1>7. Size' = N + 1 /\ CurrentUnit' = v /\ HeadJob' = k /\ Started'
  <2>1. request'.units # <<>>
    BY <1>1, <1>6
  <2> QED
    BY <1>3, <1>6, <2>1 DEF Size, CurrentUnit, HeadJob, Started
<1>8. Units' = Units \cup {k}
  <2>1. 1 .. N + 1 = (1 .. N) \cup {N + 1}
    BY <1>1
  <2>2. Units' = {request'.units[i].job : i \in 1 .. N + 1}
    BY <1>6 DEF Units
  <2>3. \A i \in 1 .. N : request'.units[i].job = request.units[i].job
    BY <1>6
  <2>4. request'.units[N + 1].job = k
    BY <1>3, <1>6
  <2>5. {request'.units[i].job : i \in 1 .. N + 1} = {request.units[i].job : i \in 1 .. N} \cup {k}
    BY <2>1, <2>3, <2>4
  <2> QED
    BY <2>2, <2>5 DEF Units, N, Size
<1>9. Merged' = MergeOf(output)
  BY <1>5 DEF Merged
<1> QED
  BY <1>3, <1>5, <1>6, <1>7, <1>8, <1>9 DEF N

LEMMA AdvancesKeepsInv ==
  ASSUME InferInv, Steps, NEW n \in Attempts, Advances(n)
  PROVE  PlanInv' /\ OutputsInv' /\ StatusInv' /\ Units \subseteq Units'
<1>1. /\ PlanInv /\ OutputsInv /\ Started /\ CurrentUnit.shard # 0
      /\ request \in RequestRecord /\ HeadRecords(n)
  BY DEF InferInv, Advances, HeadRecords, PlanInv
<1>2. PICK k \in Jobs \ Units, v \in UnitRecord :
        /\ request' \in RequestRecord /\ request'.kind = request.kind
        /\ request'.status = "queued"
        /\ \A i \in Shards : request'.output[i] # {} <=> i < Size + 1
        /\ v.job = k
        /\ v.shard = IF Size + 1 <= ShardCount THEN Size + 1 ELSE 0
        /\ v.inputs = IF Size + 1 = ShardCount + 1 THEN Merged' ELSE {}
        /\ \A i \in 1 .. Size : request'.units[i] = request.units[i]
        /\ request'.units[Size + 1] = v
        /\ Size' = Size + 1 /\ CurrentUnit' = v /\ HeadJob' = k /\ Started'
        /\ Units' = Units \cup {k}
  BY AdvancesFacts, Zenon
<1>3. /\ Divided /\ Divided' = Divided /\ Size \in Nat \ {0} /\ Size <= ShardCount
      /\ ShardCount \in Nat
  BY <1>1, <1>2, ShardAtHead, ShardCountFits DEF Divided
<1>4. \A i \in 1 .. Size + 1 : i \in 1 .. Size \/ i = Size + 1
  BY <1>3
<1>5. PlanInv'
  <2>1. Size + 1 <= ShardCount + 1
    BY <1>3
  <2>2. \A i \in 1 .. Size + 1 :
          request'.units[i].shard = IF Divided /\ i <= ShardCount THEN i ELSE 0
    BY <1>1, <1>2, <1>3, <1>4 DEF PlanInv
  <2> QED
    BY <1>2, <1>3, <2>1, <2>2 DEF PlanInv
<1>6. /\ Units \subseteq Jobs /\ HeadJob \in Units
      /\ \A i \in 1 .. Size : request.units[i].job \in Units
      /\ \A j \in Units : j # HeadJob => \E i \in 1 .. Size - 1 : request.units[i].job = j
  BY <1>1, UnitsAreJobs, HeadIsUnit DEF Units, Size
<1>7. \A j \in Units : \E m \in Attempts : job'[j].output[m]
  <2>1. \A j \in Units \ {HeadJob} : HasOutput(j)
    BY <1>1, <1>6 DEF OutputsInv
  <2> QED
    BY <1>1, <1>6, <2>1, OutputKept DEF HeadRecords, HasOutput
<1>8. \A j \in Jobs \ Units : ~(\E m \in Attempts : job'[j].output[m])
  BY <1>1, <1>6 DEF OutputsInv, HeadRecords, HasOutput
<1>9. OutputsInv'
  <2>1. \A i \in 1 .. Size' - 1 : \E m \in Attempts : job'[request'.units[i].job].output[m]
    <3>1. Size' - 1 = Size
      BY <1>2, <1>3
    <3>2. \A i \in 1 .. Size : request'.units[i].job \in Units
      BY <1>2, <1>6
    <3> QED
      BY <1>7, <3>1, <3>2
  <2>2. ~(\E m \in Attempts : job'[HeadJob'].output[m])
    BY <1>2, <1>8
  <2>3. \A j \in Jobs \ Units' : ~(\E m \in Attempts : job'[j].output[m])
    BY <1>2, <1>8
  <2> QED
    BY <2>1, <2>2, <2>3 DEF OutputsInv, HasOutput
<1>10. ~HasResult'
  BY <1>2, <1>8 DEF HasResult, HasOutput
<1> QED
  BY <1>2, <1>5, <1>9, <1>10 DEF StatusInv, StatusMatchesResult

LEMMA CallsStep ==
  ASSUME CallsInv, request \in RequestRecord, [InferNext]_inferVars
  PROVE  asked' \subseteq Units /\ withdraw' \in BOOLEAN /\ calls' \in 0 .. MaxCalls
<1>1. CASE UNCHANGED callVars
  BY <1>1 DEF callVars, CallsInv
<1>2. CASE CancelReads
  <2>1. calls' \in 0 .. MaxCalls
    BY <1>2, MaxCallsAssumption DEF CancelReads, CallsInv
  <2>2. asked' \subseteq Units /\ withdraw' \in BOOLEAN
    BY <1>2, HeadIsUnit DEF CancelReads, CallsInv
  <2> QED
    BY <2>1, <2>2
<1>3. ASSUME NEW j \in Units, CancelObserves(j)
      PROVE  asked' \subseteq Units /\ withdraw' \in BOOLEAN /\ calls' \in 0 .. MaxCalls
  BY <1>3 DEF CancelObserves, CallsInv
<1>4. CASE CancelWrites
  BY <1>4 DEF CancelWrites, CallsInv
<1>5. CASE Crash /\ asked' = {} /\ withdraw' = FALSE /\ UNCHANGED calls
  BY <1>5 DEF CallsInv
<1>6. CASE UNCHANGED inferVars
  BY <1>1, <1>6 DEF inferVars, callVars
<1> QED
  BY <1>1, <1>2, <1>3, <1>4, <1>5, <1>6
     DEF InferNext, Start, RunAcquire, RunAttempt, FailUnit, CommitUnit, RunOperator, IndexFit,
         RunServer

LEMMA InferInitInv == InferInit => IInv /\ InferInv
<1> SUFFICES ASSUME InferInit PROVE InferInv
  BY InferInitIsInit, InitInv
<1>1. PICK kind \in {"infer", "posthoc"} :
        request = [kind |-> kind, status |-> "ready", units |-> <<>>,
                   output |-> [k \in Shards |-> {}]]
  BY DEF InferInit
<1>2. <<>> \in Seq(UnitRecord) /\ [k \in Shards |-> {}] \in [Shards -> Outputs]
  BY DEF Outputs
<1>3. /\ request \in RequestRecord /\ request.units = <<>> /\ request.status = "ready"
      /\ \A k \in Shards : request.output[k] = {}
  BY <1>1, <1>2 DEF RequestRecord
<1>4. Size = 0 /\ ~Started /\ Units = {}
  <2>1. Len(request.units) = 0 /\ 1 .. 0 = {}
    BY <1>3
  <2> QED
    BY <1>3, <2>1 DEF Size, Started, Units
<1>5. PlanInv
  <2>1. Divided => 0 <= ShardCount + 1
    BY ShardCountFits DEF Divided
  <2>2. \A k \in Shards : ~(k < 0)
    BY ShardCountFits DEF Shards
  <2> QED
    BY <1>3, <1>4, <2>1, <2>2 DEF PlanInv
<1>6. \A j \in Jobs : ~HasOutput(j)
  BY DEF InferInit, NewJob, HasOutput
<1>7. OutputsInv
  BY <1>4, <1>6 DEF OutputsInv
<1>8. StatusInv
  BY <1>3, <1>4 DEF StatusInv, StatusMatchesResult, HasResult
<1>9. CallsInv
  <2>1. asked = {} /\ withdraw = FALSE /\ calls = 0
    BY DEF InferInit
  <2>2. 0 \in 0 .. MaxCalls
    BY MaxCallsAssumption
  <2> QED
    BY <2>1, <2>2 DEF CallsInv
<1> QED
  BY <1>5, <1>7, <1>8, <1>9 DEF InferInv

LEMMA InferStepKeepsInv ==
  ASSUME IInv, InferInv, [InferNext]_inferVars
  PROVE  IInv' /\ InferInv'
<1>1. Steps
  BY InferSteps
<1>2. PlanInv' /\ OutputsInv' /\ StatusInv' /\ Units \subseteq Units'
  BY <1>1, InferSteps, RestsKeepsInv, StartsKeepsInv, AdvancesKeepsInv, ReportsKeepsInv
<1>3. CallsInv'
  BY <1>2, CallsStep DEF CallsInv, InferInv, PlanInv
<1> QED
  BY <1>1, <1>2, <1>3 DEF InferInv, Steps

(* The invariant of the lease protocol and that of the inference run, in   *)
(* which every later theorem finds its premises.                           *)
THEOREM InferInductive == InferSpec => [](IInv /\ InferInv)
<1>1. IInv /\ InferInv /\ [InferNext]_inferVars => IInv' /\ InferInv'
  BY InferStepKeepsInv
<1> QED
  BY <1>1, InferInitInv, PTL DEF InferSpec

----------------------------------------------------------------------------
(* A run is a behaviour of the worker-lease protocol: whatever is proved   *)
(* of leases, attempts and outputs holds of its jobs.                      *)
THEOREM InferUsesLeases == InferSpec => Spec
<1>1. InferInv /\ [InferNext]_inferVars => [Next]_vars
  BY InferStepIsLeaseStep DEF InferInv, PlanInv
<1> QED
  BY <1>1, InferInitIsInit, InferInductive, PTL DEF InferSpec, Spec

(* Types, for any population, shard size and number of attempts.           *)
THEOREM InferTypeCorrect == InferSpec => []InferTypeOK
<1>1. IInv /\ InferInv => InferTypeOK
  BY DEF InferTypeOK, IInv, InferInv, PlanInv, CallsInv
<1> QED
  BY <1>1, InferInductive, PTL

(* No shard runs beside another, and none runs again.                      *)
THEOREM OneUnit == InferSpec => []OneUnitAtATime
<1>1. IInv /\ InferInv => OneUnitAtATime
  <2> SUFFICES ASSUME IInv, InferInv, NEW i \in 1 .. Size - 1
               PROVE  LET j == request.units[i].job
                      IN /\ job[j].status \in TerminalStatuses
                         /\ HasOutput(j)
                         /\ \A n \in Attempts : ~Live(job[j], n)
    BY DEF OneUnitAtATime, Size
  <2> DEFINE j == request.units[i].job
  <2>1. j \in Jobs
    <3>1. request \in RequestRecord /\ i \in 1 .. Size
      BY DEF InferInv, PlanInv, Size, RequestRecord
    <3> QED
      BY <3>1, UnitsAreJobs DEF Units, Size
  <2>2. PICK n \in Attempts : job[j].output[n]
    BY DEF InferInv, OutputsInv, HasOutput
  <2>3. JobInv(job[j])
    BY <2>1 DEF IInv
  <2>4. /\ n = job[j].issued /\ job[j].lease[n] = "completed"
        /\ job[j].status \in {"completed", "indexed", "cancelled"}
    BY <2>2, <2>3 DEF JobInv, OutputIsLatest
  <2>5. \A m \in Attempts : ~Live(job[j], m)
    BY <2>3, <2>4 DEF JobInv, LiveIsLatest, Live, LiveStates, ActiveStates
  <2> QED
    BY <2>2, <2>4, <2>5 DEF TerminalStatuses, HasOutput
<1> QED
  BY <1>1, InferInductive, PTL

(* The row reads completed with the result, and only with it.              *)
THEOREM StatusAgrees == InferSpec => []StatusMatchesResult
<1>1. InferInv => StatusMatchesResult
  BY DEF InferInv, StatusInv
<1> QED
  BY <1>1, InferInductive, PTL

(* After a job of the run was cancelled by a request, nothing follows it.  *)
THEOREM CancelledEnds == InferSpec => CancelledUnitEndsRun
<1>1. IInv /\ InferInv /\ [InferNext]_inferVars
        => [Started /\ job[HeadJob].status = "cancelled" /\ job[HeadJob].cancel
              => request'.units = request.units]_inferVars
  <2> SUFFICES ASSUME IInv, InferInv, [InferNext]_inferVars,
                      Started, job[HeadJob].status = "cancelled", job[HeadJob].cancel
               PROVE  request'.units = request.units
    OBVIOUS
  <2>1. SamePlan
    BY InferSteps DEF Rests, Starts, Advances, Reports
  <2> QED
    BY <2>1, SamePlanFacts DEF InferInv, PlanInv
<1> QED
  BY <1>1, InferInductive, PTL DEF InferSpec, CancelledUnitEndsRun

----------------------------------------------------------------------------
(* The run implements the progress its owner is promised.                  *)
LEMMA PredictedShards ==
  ASSUME PlanInv
  PROVE  Predicted = {k \in Shards : k < Size}
BY DEF PlanInv, Predicted

(* What the result is made of.                                             *)
BlocksOf(shards) == {Block(k) : k \in shards}

LEMMA MergedBlocks ==
  ASSUME PlanInv, Started, CurrentUnit.shard = 0
  PROVE  IF Divided
         THEN Predicted = Shards /\ ResultBlocks = BlocksOf(Shards)
         ELSE Predicted = {} /\ ResultBlocks = {Items}
<1>1. /\ request \in RequestRecord /\ Size \in Nat \ {0}
      /\ CurrentUnit = request.units[Size] /\ Size \in 1 .. Size
  BY HeadIsUnit DEF PlanInv
<1>2. CASE ~Divided
  <2>1. Size = 1 /\ CurrentUnit.inputs = {}
    BY <1>1, <1>2 DEF PlanInv
  <2>2. Predicted = {}
    BY <2>1, PredictedShards, ShardCountFits DEF Shards
  <2> QED
    BY <1>2, <2>1, <2>2 DEF ResultBlocks
<1>3. CASE Divided
  <2>1. /\ ShardCount \in Nat \ {0} /\ Shards = 1 .. ShardCount
    BY <1>3, ShardCountFits DEF Divided
  <2>2. Size = ShardCount + 1
    <3>1. CurrentUnit.shard = IF Size <= ShardCount THEN Size ELSE 0
      BY <1>1, <1>3 DEF PlanInv
    <3> QED
      BY <1>1, <1>3, <2>1, <3>1 DEF PlanInv
  <2>3. Predicted = Shards /\ \A k \in Shards : request.output[k] # {}
    <3>1. \A k \in Shards : k < Size
      BY <2>1, <2>2
    <3> QED
      BY <3>1, PredictedShards DEF PlanInv
  <2>4. CurrentUnit.inputs = Merged
    BY <1>3, <2>2 DEF PlanInv
  <2>5. \A k \in Shards : request.output[k] \subseteq Merged
    BY DEF Merged, MergeOf
  <2>6. Merged # {}
    BY <2>1, <2>3, <2>5
  <2>7. {k \in Predicted : request.output[k] \subseteq CurrentUnit.inputs} = Shards
    BY <2>3, <2>4, <2>5
  <2>8. ResultBlocks = BlocksOf(Shards)
    BY <2>4, <2>6, <2>7 DEF ResultBlocks, BlocksOf
  <2> QED
    BY <1>3, <2>3, <2>8
<1> QED
  BY <1>2, <1>3

(* One more shard is one more block, of items no other block has.          *)
LEMMA NextBlock ==
  ASSUME PlanInv, Started, CurrentUnit.shard # 0
  PROVE  /\ Block(Size) \in SUBSET Items /\ Block(Size) # {}
         /\ Block(Size) \cap UNION BlocksOf(Predicted) = {}
         /\ BlocksOf(Predicted \cup {Size}) = BlocksOf(Predicted) \cup {Block(Size)}
<1>1. Sharded /\ Size \in Shards
  BY ShardAtHead
<1>2. Block(Size) \in SUBSET Items /\ Block(Size) # {}
  BY <1>1, BlockNonempty
<1>3. \A k \in Predicted : Block(k) \cap Block(Size) = {}
  BY <1>1, PredictedShards, BlocksDisjoint
<1>4. Block(Size) \cap UNION BlocksOf(Predicted) = {}
  BY <1>3 DEF BlocksOf
<1>5. BlocksOf(Predicted \cup {Size}) = BlocksOf(Predicted) \cup {Block(Size)}
  BY DEF BlocksOf
<1> QED
  BY <1>2, <1>4, <1>5

LEMMA NotFinished ==
  /\ ~HasResult => Progress = [blocks |-> BlocksOf(Predicted), finished |-> FALSE]
  /\ ~HasResult' => Progress' = [blocks |-> BlocksOf(Predicted'), finished |-> FALSE]
BY DEF Progress, BlocksOf, HasResult

LEMMA HasFinished ==
  /\ HasResult => Progress = [blocks |-> ResultBlocks, finished |-> TRUE]
  /\ HasResult' => Progress' = [blocks |-> ResultBlocks', finished |-> TRUE]
BY DEF Progress, HasResult

(* The run keeps what PredictionProgress promises its owner: disjoint      *)
(* blocks of items, then one result of all of them.                        *)
THEOREM InferImplementation == InferSpec => ImplementsPrediction
<1>1. IInv /\ InferInv /\ InferInit => Abstraction!Init
  <2> SUFFICES ASSUME InferInv, InferInit PROVE Abstraction!Init
    OBVIOUS
  <2>1. Size = 0 /\ ~HasResult
    BY DEF InferInit, Size, HasResult, Started
  <2>2. Predicted = {}
    BY <2>1, PredictedShards, ShardCountFits DEF InferInv, Shards
  <2>3. BlocksOf(Predicted) = {}
    BY <2>2 DEF BlocksOf
  <2> QED
    BY <2>1, <2>3, NotFinished DEF Abstraction!Init
<1>2. IInv /\ InferInv /\ [InferNext]_inferVars => [Abstraction!Next]_Progress
  <2> SUFFICES ASSUME IInv, InferInv, [InferNext]_inferVars
               PROVE  Abstraction!Next \/ Progress' = Progress
    OBVIOUS
  <2>0. PlanInv /\ request \in RequestRecord
    BY DEF InferInv, PlanInv
  <2>1. ASSUME SamePlan
        PROVE  Predicted' = Predicted /\ ResultBlocks' = ResultBlocks
    <3>1. request'.output = request.output /\ CurrentUnit' = CurrentUnit
      BY <2>0, <2>1, SamePlanFacts
    <3>2. Predicted' = Predicted
      BY <3>1 DEF Predicted
    <3> QED
      BY <3>1, <3>2 DEF ResultBlocks
  <2>2. CASE Rests
    <3>1. HasResult' <=> HasResult
      <4>1. Started' = Started /\ CurrentUnit' = CurrentUnit /\ HeadJob' = HeadJob
        BY <2>0, <2>2, SamePlanFacts DEF Rests
      <4>2. Started => HeadJob \in Jobs
        BY <2>0, HeadIsUnit, UnitsAreJobs
      <4> QED
        BY <2>2, <4>1, <4>2 DEF HasResult, HasOutput, Rests
    <3> QED
      <4>1. Predicted' = Predicted /\ ResultBlocks' = ResultBlocks
        BY <2>1, <2>2 DEF Rests
      <4>2. CASE HasResult
        BY <3>1, <4>1, <4>2, HasFinished
      <4>3. CASE ~HasResult
        BY <3>1, <4>1, <4>3, NotFinished
      <4> QED
        BY <4>2, <4>3
  <2>3. ASSUME NEW j \in Jobs, Starts(j) PROVE Progress' = Progress
    <3>1. ~HasResult
      BY <2>3 DEF Starts, HasResult
    <3>2. Units = {}
      BY <2>0, <2>3, UnitsNeedStart DEF Starts
    <3>3. ~HasOutput(j) /\ job' = job
      BY <2>3, <3>2 DEF InferInv, OutputsInv, Starts
    <3>4. request'.units = <<FirstUnit(j)>> /\ request'.output = request.output
      BY <2>0, <2>3 DEF Starts, RequestRecord
    <3>5. HeadJob' = j
      <4>1. Len(<<FirstUnit(j)>>) = 1 /\ FirstUnit(j).job = j
        BY DEF FirstUnit
      <4> QED
        BY <3>4, <4>1 DEF HeadJob, CurrentUnit
    <3>6. ~HasResult'
      BY <3>3, <3>5 DEF HasResult, HasOutput
    <3>7. Predicted' = Predicted
      BY <3>4 DEF Predicted
    <3> QED
      BY <3>1, <3>6, <3>7, NotFinished
  <2>4. ASSUME NEW n \in Attempts, Advances(n) PROVE Abstraction!Next
    <3>1. Started /\ CurrentUnit.shard # 0 /\ ~HasResult /\ HeadRecords(n)
      BY <2>4 DEF Advances, HeadRecords, HasResult
    <3>2. Size \in Shards /\ Size \in Nat \ {0} /\ Shards = 1 .. ShardCount
      BY <2>0, <3>1, ShardAtHead, ShardCountFits
    <3>3. PICK k \in Jobs \ Units :
            /\ \A i \in Shards : request'.output[i] # {} <=> i < Size + 1
            /\ HeadJob' = k
      BY <2>4, AdvancesFacts
    <3>4. ~HasResult'
      <4>1. HeadJob \in Units
        BY <2>0, <3>1, HeadIsUnit
      <4>2. ~(\E m \in Attempts : job'[k].output[m])
        BY <3>1, <4>1 DEF InferInv, OutputsInv, HeadRecords, HasOutput
      <4> QED
        BY <3>3, <4>2 DEF HasResult, HasOutput
    <3>5. Predicted' = Predicted \cup {Size}
      <4>1. Predicted' = {i \in Shards : i < Size + 1}
        BY <3>3 DEF Predicted
      <4> QED
        BY <2>0, <3>2, <4>1, PredictedShards
    <3> DEFINE blocks == BlocksOf(Predicted)
               block == Block(Size)
    <3>6. /\ block \in SUBSET Items /\ block # {} /\ block \cap UNION blocks = {}
          /\ BlocksOf(Predicted') = blocks \cup {block}
      BY <2>0, <3>1, <3>5, NextBlock
    <3>7. /\ Progress = [blocks |-> blocks, finished |-> FALSE]
          /\ Progress' = [blocks |-> BlocksOf(Predicted'), finished |-> FALSE]
      BY <3>1, <3>4, NotFinished
    <3> HIDE DEF blocks, block
    <3>8. Progress' = [blocks |-> Progress.blocks \cup {block}, finished |-> FALSE]
      BY <3>6, <3>7
    <3>9. Abstraction!Predict(block)
      BY <3>6, <3>7, <3>8 DEF Abstraction!Predict
    <3> QED
      BY <3>6, <3>9 DEF Abstraction!Next
  <2>5. ASSUME NEW n \in Attempts, Reports(n) PROVE Abstraction!Next
    <3>1. Started /\ CurrentUnit.shard = 0 /\ ~HasResult /\ SamePlan
      BY <2>5 DEF Reports, HeadRecords, HasResult
    <3>2. HasResult'
      BY <2>0, <2>5, <3>1, SamePlanFacts DEF Reports, HeadRecords, HasResult, HasOutput
    <3> DEFINE blocks == BlocksOf(Predicted)
               result == ResultBlocks
    <3>3. /\ Progress = [blocks |-> blocks, finished |-> FALSE]
          /\ Progress' = [blocks |-> result, finished |-> TRUE]
      BY <2>1, <3>1, <3>2, NotFinished, HasFinished
    <3>4. CASE Divided
      <4>1. result = blocks /\ UNION blocks = Items
        BY <2>0, <3>1, <3>4, MergedBlocks, BlocksCover DEF Divided, BlocksOf
      <4> HIDE DEF blocks, result
      <4>2. Abstraction!Finish
        BY <3>3, <4>1 DEF Abstraction!Finish
      <4> QED
        BY <4>2 DEF Abstraction!Next
    <3>5. CASE ~Divided
      <4>1. result = {Items} /\ blocks = {}
        BY <2>0, <3>1, <3>5, MergedBlocks DEF BlocksOf
      <4> HIDE DEF blocks, result
      <4>2. Abstraction!FinishWhole
        BY <3>3, <4>1 DEF Abstraction!FinishWhole
      <4> QED
        BY <4>2 DEF Abstraction!Next
    <3> QED
      BY <3>4, <3>5
  <2> QED
    BY <2>2, <2>3, <2>4, <2>5, InferSteps
<1> QED
  BY <1>1, <1>2, InferInductive, PTL DEF InferSpec, ImplementsPrediction, Abstraction!Spec
=============================================================================

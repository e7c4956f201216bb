------------------------ MODULE SequentialRun_proofs ------------------------
(***************************************************************************)
(* The chain of work units, for any number of epochs, units and attempts.  *)
(*                                                                         *)
(* A run takes only steps of the worker-lease protocol, so what is proved  *)
(* of WorkerLease holds of its units (RunUsesLeases).  The inductive       *)
(* invariant RunInv adds what ties the chain to the outputs of its units:  *)
(* every unit behind the head has one, rows not inserted yet have none,    *)
(* and a checkpointing head has none.  Only CommitSegment records the      *)
(* output of a checkpointing unit, and it appends the successor.           *)
(***************************************************************************)
EXTENDS SequentialRun, WorkerLease_proofs

(* The phase the lease protocol knows a unit by.                           *)
LeasePhase(phase) == IF phase = "finalize" THEN "finalize" ELSE "train"

Size == Len(run.units)

UnitsInv ==
  /\ run \in RunRecord /\ Size \in Nat \ {0}
  /\ \A i, k \in 1 .. Size : run.units[i].job = run.units[k].job => i = k
  /\ \A i \in 1 .. Size : Phase[run.units[i].job] = LeasePhase(run.units[i].phase)
  /\ \A i \in 1 .. Size - 1 : run.units[i].phase # "finalize"
  /\ \A i \in 1 .. Size : run.units[i].phase = "initialize" => run.units[i].start = 0

OutputsInv ==
  /\ \A i \in 1 .. Size - 1 : HasOutput(run.units[i].job)
  /\ \A j \in Jobs \ Units : ~HasOutput(j)
  /\ CommittedUnitAdvanced

RunInv == UnitsInv /\ OutputsInv /\ ChainIsContiguous

----------------------------------------------------------------------------
(* Every step of a run is a step of the lease protocol.                    *)
LEMMA UnitsAreJobs ==
  ASSUME run \in RunRecord
  PROVE  Units \subseteq Jobs
<1>1. run.units \in Seq(UnitRecord)
  BY DEF RunRecord
<1>2. \A i \in 1 .. Len(run.units) : run.units[i] \in UnitRecord
  BY <1>1
<1> QED
  BY <1>2 DEF Units, UnitRecord

LEMMA RunStepIsLeaseStep ==
  ASSUME run \in RunRecord, [RunNext]_runVars
  PROVE  [Next]_vars
<1>1. CASE \E w \in Workers, j \in Units : RunAcquire(w, j)
  BY <1>1, UnitsAreJobs DEF RunAcquire, Next
<1>2. ASSUME NEW j \in Units, NEW n \in Attempts, RunAttempt(j, n) \/ CommitSegment(j, n)
      PROVE  Next
  BY <1>2, UnitsAreJobs DEF RunAttempt, CommitSegment, AttemptStep, Next
<1>3. CASE \E j \in Units : RunOperator(j) \/ RunIndex(j)
  BY <1>3, UnitsAreJobs DEF RunOperator, RunIndex, Next
<1>4. CASE RunServer
  BY <1>4 DEF RunServer, Next
<1>5. CASE UNCHANGED runVars
  BY <1>5 DEF runVars, vars
<1> QED
  BY <1>1, <1>2, <1>3, <1>4, <1>5 DEF RunNext

LEMMA RunInitIsInit == RunInit => Init
<1> SUFFICES ASSUME RunInit PROVE Init
  OBVIOUS
<1>1. \A j \in Jobs : Born[j] \in {"queued", "paused"}
  BY BornAssumption
<1>2. job = [j \in Jobs |-> NewJob(Born[j])] /\ server = "up"
  BY DEF RunInit
<1>3. job \in [Jobs -> {NewJob("queued"), NewJob("paused")}]
  BY <1>1, <1>2
<1> QED
  BY <1>2, <1>3, UnitsAssumption DEF Init

----------------------------------------------------------------------------
(* The two kinds of step a run takes.                                      *)

(* The chain is left alone, and so are the outputs of checkpointing units  *)
(* and of rows not inserted yet.                                           *)
Holds ==
  /\ run' = run
  /\ \A i \in Jobs : Phase[i] = "train" \/ i \notin Units => job'[i].output = job[i].output

(* The head's attempt n commits and the chain grows by its successor.      *)
Advances(n) ==
  /\ Phase[HeadJob] = "train"
  /\ job'[HeadJob].output[n]
  /\ \A i \in Jobs \ {HeadJob} : job'[i].output = job[i].output
  /\ Continue(HeadJob, n)

LEMMA HeadIsUnit ==
  ASSUME UnitsInv
  PROVE  /\ CurrentUnit \in UnitRecord /\ HeadJob \in Units
         /\ \A j \in Units : j # HeadJob => \E i \in 1 .. Size - 1 : run.units[i].job = j
<1>1. run.units \in Seq(UnitRecord) /\ Size \in Nat \ {0}
  BY DEF UnitsInv, RunRecord
<1>2. \A i \in 1 .. Size : run.units[i] \in UnitRecord
  BY <1>1 DEF Size
<1>3. Size \in 1 .. Size /\ \A i \in 1 .. Size : i # Size => i \in 1 .. Size - 1
  BY <1>1
<1> QED
  BY <1>2, <1>3 DEF CurrentUnit, HeadJob, Units, Size

LEMMA RunSteps ==
  ASSUME IInv, RunInv, [RunNext]_runVars
  PROVE  Steps /\ (Holds \/ \E n \in Attempts : Advances(n))
<1>1. run \in RunRecord
  BY DEF RunInv, UnitsInv
<1>2. Steps
  BY <1>1, RunStepIsLeaseStep, NextSteps
<1>3. Units \subseteq Jobs
  BY <1>1, UnitsAreJobs
<1>4. CASE \E w \in Workers, j \in Units : RunAcquire(w, j)
  BY <1>2, <1>3, <1>4, SilentAcquire DEF RunAcquire, Silent, Holds
<1>5. ASSUME NEW j \in Units, NEW n \in Attempts, RunAttempt(j, n)
      PROVE  Holds
  <2>1. ASSUME RecordsOutput(j) PROVE FALSE
    <3>1. j # HeadJob
      BY <1>5, <2>1 DEF RunAttempt
    <3>2. HasOutput(j)
      BY <3>1, HeadIsUnit DEF RunInv, OutputsInv
    <3>3. job'[j].output = job[j].output
      BY <1>2, <1>3, <3>2, OutputStaysOrIsFirst DEF HasOutput, Steps
    <3> QED
      BY <2>1, <3>3 DEF RecordsOutput
  <2>2. \A i \in Jobs \ {j} : job'[i] = job[i]
    BY <1>3, <1>5, AttemptStepIsLocal DEF RunAttempt
  <2> QED
    BY <1>5, <2>1, <2>2 DEF RunAttempt, RecordsOutput, Holds
<1>6. ASSUME NEW j \in Units, NEW n \in Attempts, CommitSegment(j, n)
      PROVE  Advances(n)
  <2>1. AttemptStep(j, n)
    BY <1>6 DEF CommitSegment, AttemptStep
  <2>2. \A i \in Jobs \ {j} : job'[i] = job[i]
    BY <1>3, <2>1, AttemptStepIsLocal
  <2>3. job'[j].output[n]
    BY <1>3, <1>6, CommitRecords DEF CommitSegment, RecordsOutput
  <2> QED
    BY <1>6, <2>2, <2>3 DEF CommitSegment, RecordsOutput, Advances
<1>7. CASE \E j \in Units : RunOperator(j) \/ RunIndex(j)
  BY <1>2, <1>3, <1>7, SilentOperatorStep, SilentIndex DEF RunOperator, RunIndex, Silent, Holds
<1>8. CASE RunServer
  BY <1>2, <1>8, SilentServer DEF RunServer, Silent, Holds
<1>9. CASE UNCHANGED runVars
  BY <1>2, <1>9 DEF runVars, Holds
<1> QED
  BY <1>2, <1>4, <1>5, <1>6, <1>7, <1>8, <1>9 DEF RunNext

----------------------------------------------------------------------------
(* A step that leaves the chain alone leaves the invariant.                *)
LEMMA HoldsKeepsInv ==
  ASSUME RunInv, Steps, Holds
  PROVE  RunInv'
<1>1. /\ Units' = Units /\ CurrentUnit' = CurrentUnit /\ HeadJob' = HeadJob
      /\ Size' = Size /\ run' = run
  BY DEF Holds, Units, CurrentUnit, HeadJob, Size
<1>2. UnitsInv'
  BY <1>1 DEF RunInv, UnitsInv
<1>3. /\ Units \subseteq Jobs
      /\ \A i \in 1 .. Size : run.units[i].job \in Units
      /\ CurrentUnit \in UnitRecord /\ HeadJob \in Units
  BY UnitsAreJobs, HeadIsUnit DEF RunInv, UnitsInv, Units, Size
<1>4. \A j \in Jobs : HasOutput(j) => HasOutput(j)'
  BY OutputKept DEF HasOutput
<1>5. \A j \in Jobs : j \notin Units \/ Phase[j] = "train" => (HasOutput(j)' <=> HasOutput(j))
  BY DEF Holds, HasOutput
<1>6. \A i \in 1 .. Size - 1 : i \in 1 .. Size
  BY DEF RunInv, UnitsInv
<1>7. OutputsInv'
  <2>1. \A i \in 1 .. Size - 1 : HasOutput(run.units[i].job)'
    BY <1>1, <1>3, <1>4, <1>6 DEF RunInv, OutputsInv
  <2>2. \A j \in Jobs \ Units : ~HasOutput(j)'
    BY <1>5 DEF RunInv, OutputsInv
  <2>3. CurrentUnit.phase # "finalize" => Phase[HeadJob] = "train"
    BY DEF RunInv, UnitsInv, LeasePhase, CurrentUnit, HeadJob, Size
  <2>4. CurrentUnit.phase # "finalize" => \A n \in Attempts : ~job'[HeadJob].output[n]
    BY <1>3, <1>5, <2>3 DEF RunInv, OutputsInv, CommittedUnitAdvanced, HasOutput
  <2> QED
    BY <1>1, <2>1, <2>2, <2>4 DEF OutputsInv, CommittedUnitAdvanced, HasOutput
<1>8. ChainIsContiguous'
  <2>1. \A i \in 1 .. Size - 1, n \in Attempts :
          job[run.units[i].job].output[n] => job'[run.units[i].job].output[n]
    BY <1>3, <1>6, OutputKept
  <2> QED
    BY <1>1, <2>1 DEF RunInv, ChainIsContiguous, Restartable, Size
<1> QED
  BY <1>2, <1>7, <1>8 DEF RunInv

(* The successor of the head: a unit of the remaining epochs.              *)
LEMMA SuccessorFits ==
  ASSUME UnitsInv, ChainIsContiguous, Phase[HeadJob] = "train",
         NEW n \in Attempts, NEW k \in Jobs, NEW result \in Results(CurrentUnit),
         NEW v, v = Successor(CurrentUnit, HeadJob, n, k, result)
  PROVE  /\ v \in UnitRecord /\ v.job = k /\ v.start = result.cursor
         /\ v.input = {<<HeadJob, n>>}
         /\ CurrentUnit.phase \in {"initialize", "train"}
         /\ v.phase \in {"train", "finalize"}
         /\ CurrentUnit.phase = "initialize" => v.phase = "train" /\ v.start = 0
         /\ CurrentUnit.phase = "train" =>
              /\ CurrentUnit.start < v.start
              /\ v.start = TotalEpochs => v.phase = "finalize"
         /\ v.start <= CurrentUnit.stop
         /\ v.phase = "train" => v.start < v.stop
<1> DEFINE u == CurrentUnit
<1>1. u \in UnitRecord /\ HeadJob \in Jobs
  BY HeadIsUnit, UnitsAreJobs DEF UnitsInv
<1>2. u.phase \in {"initialize", "train"}
  <2>1. Phase[HeadJob] = LeasePhase(u.phase)
    BY DEF UnitsInv, HeadJob, CurrentUnit, Size
  <2> QED
    BY <1>1, <2>1 DEF LeasePhase, UnitRecord, UnitPhases
<1>3. TotalEpochs \in Nat \ {0} /\ UnitEpochs \in Nat \ {0}
  BY EpochsAssumption
<1>4. u.start \in Epochs /\ u.stop \in Epochs
  BY <1>1 DEF UnitRecord
<1>5. /\ result.early \in BOOLEAN
      /\ u.phase = "initialize" => result.cursor = 0
      /\ u.phase = "train" => result.cursor \in u.start + 1 .. u.stop
  BY DEF Results
<1>6. /\ result.cursor \in Epochs /\ result.cursor <= u.stop
      /\ u.phase = "train" => u.start < result.cursor
  BY <1>2, <1>3, <1>4, <1>5 DEF Epochs
<1>7. /\ v.job = k /\ v.start = result.cursor /\ v.input = {<<HeadJob, n>>}
      /\ v.phase = NextPhase(u, result)
      /\ v.stop = Earliest(result.cursor + UnitEpochs, TotalEpochs)
  BY DEF Successor
<1>8. /\ v.phase \in {"train", "finalize"}
      /\ u.phase = "initialize" => v.phase = "train"
      /\ u.phase = "train" /\ result.cursor >= TotalEpochs => v.phase = "finalize"
  BY <1>7 DEF NextPhase
<1>9. v.stop \in Epochs /\ (result.cursor < TotalEpochs => result.cursor < v.stop)
  BY <1>3, <1>6, <1>7 DEF Earliest, Epochs
<1>10. v \in UnitRecord
  BY <1>1, <1>6, <1>7, <1>8, <1>9 DEF Successor, UnitRecord, UnitPhases, CheckpointRefs
<1>11. v.phase = "train" => result.cursor < TotalEpochs
  <2>1. CASE u.phase = "initialize"
    BY <1>3, <1>5, <2>1
  <2>2. CASE u.phase = "train"
    BY <1>3, <1>6, <1>8, <2>2 DEF Epochs
  <2> QED
    BY <1>2, <2>1, <2>2
<1> QED
  BY <1>2, <1>3, <1>5, <1>6, <1>7, <1>8, <1>9, <1>10, <1>11 DEF Epochs

LEMMA AdvancesKeepsInv ==
  ASSUME RunInv, Steps, NEW n \in Attempts, Advances(n)
  PROVE  RunInv'
<1> DEFINE u == CurrentUnit
           h == HeadJob
           N == Size
<1>1. /\ UnitsInv /\ OutputsInv /\ ChainIsContiguous
      /\ run.units \in Seq(UnitRecord) /\ N \in Nat \ {0}
      /\ u \in UnitRecord /\ h \in Units /\ Units \subseteq Jobs
      /\ u = run.units[N] /\ h = u.job
  BY UnitsAreJobs, HeadIsUnit DEF RunInv, UnitsInv, RunRecord, CurrentUnit, HeadJob, Size
<1>2. PICK k \in Jobs \ Units, result \in Results(u) :
        LET v == Successor(u, h, n, k, result)
        IN /\ Phase[k] = LeasePhase(v.phase)
           /\ run' = [units |-> Append(run.units, v), epoch |-> result.cursor,
                      checkpoint |-> {<<h, n>>}]
  BY DEF Advances, Continue, LeasePhase
<1> DEFINE v == Successor(u, h, n, k, result)
<1>3. /\ v \in UnitRecord /\ v.job = k /\ v.start = result.cursor
      /\ v.input = {<<h, n>>}
      /\ u.phase \in {"initialize", "train"} /\ v.phase \in {"train", "finalize"}
      /\ u.phase = "train" => u.start < v.start
      /\ v.start <= u.stop
      /\ v.phase = "train" => v.start < v.stop
  BY <1>1, SuccessorFits DEF Advances
<1>4. /\ run'.units = Append(run.units, v) /\ run'.epoch = result.cursor
      /\ run'.checkpoint = {<<h, n>>} /\ Phase[k] = LeasePhase(v.phase)
  BY <1>2
<1> HIDE DEF v
<1>5. /\ run'.units \in Seq(UnitRecord)
      /\ Len(run'.units) = N + 1
      /\ \A i \in 1 .. N : run'.units[i] = run.units[i]
      /\ run'.units[N + 1] = v
  BY <1>1, <1>3, <1>4 DEF Size
<1>6. Size' = N + 1 /\ CurrentUnit' = v /\ HeadJob' = k /\ Units' = Units \cup {k}
  <2>1. Size' = N + 1 /\ CurrentUnit' = v /\ HeadJob' = k
    BY <1>3, <1>5 DEF Size, CurrentUnit, HeadJob
  <2>2. 1 .. N + 1 = (1 .. N) \cup {N + 1}
    BY <1>1
  <2>3. Units' = {run'.units[i].job : i \in 1 .. N + 1}
    BY <1>5 DEF Units
  <2>4. \A i \in 1 .. N : run'.units[i].job = run.units[i].job
    BY <1>5
  <2>5. run'.units[N + 1].job = k
    BY <1>3, <1>5
  <2>6. {run'.units[i].job : i \in 1 .. N + 1} = {run.units[i].job : i \in 1 .. N} \cup {k}
    BY <2>2, <2>4, <2>5
  <2> QED
    BY <2>1, <2>3, <2>6 DEF Units, Size
<1>7. run' \in RunRecord
  <2>1. result.cursor \in Epochs
    BY <1>3 DEF UnitRecord
  <2>2. {<<h, n>>} \in CheckpointRefs
    BY <1>1 DEF CheckpointRefs
  <2> QED
    BY <1>2, <1>4, <1>5, <2>1, <2>2 DEF RunRecord
<1>8. \A i \in 1 .. N : run.units[i].job \in Units /\ run.units[i].job # k
  BY <1>2 DEF Units, Size
<1>9. UnitsInv'
  <2>0. \A i \in 1 .. N + 1 : i \in 1 .. N \/ i = N + 1
    BY <1>1
  <2>1. \A i, m \in 1 .. N + 1 : run'.units[i].job = run'.units[m].job => i = m
    <3>1. \A i \in 1 .. N : run'.units[i].job # run'.units[N + 1].job
      BY <1>3, <1>5, <1>8
    <3>2. \A i, m \in 1 .. N : run'.units[i].job = run'.units[m].job => i = m
      BY <1>1, <1>5 DEF UnitsInv
    <3> QED
      BY <2>0, <3>1, <3>2
  <2>2. \A i \in 1 .. N + 1 : Phase[run'.units[i].job] = LeasePhase(run'.units[i].phase)
    BY <1>1, <1>3, <1>4, <1>5 DEF UnitsInv
  <2>3. \A i \in 1 .. N : run'.units[i].phase # "finalize"
    BY <1>1, <1>3, <1>5 DEF UnitsInv
  <2>4. \A i \in 1 .. N + 1 : run'.units[i].phase = "initialize" => run'.units[i].start = 0
    BY <1>1, <1>3, <1>5, <2>0 DEF UnitsInv
  <2> QED
    BY <1>1, <1>6, <1>7, <2>1, <2>2, <2>3, <2>4 DEF UnitsInv
<1>10. \A i \in 1 .. N, m \in Attempts :
         job[run.units[i].job].output[m] => job'[run.units[i].job].output[m]
  BY <1>1, <1>8, OutputKept
<1>11. \A i \in 1 .. N : \E m \in Attempts : job'[run.units[i].job].output[m]
  BY <1>1, <1>10 DEF OutputsInv, HasOutput, Advances
<1>12. \A j \in Jobs \ Units : \A m \in Attempts : ~job'[j].output[m]
  BY <1>1 DEF OutputsInv, HasOutput, Advances
<1>13. OutputsInv'
  <2>1. \A i \in 1 .. N : \E m \in Attempts : job'[run'.units[i].job].output[m]
    BY <1>5, <1>11
  <2>2. \A m \in Attempts : ~job'[k].output[m]
    BY <1>2, <1>12
  <2> QED
    BY <1>1, <1>6, <1>12, <2>1, <2>2 DEF OutputsInv, CommittedUnitAdvanced, HasOutput
<1>14. ChainIsContiguous'
  <2> DEFINE Linked(x, y) ==
               /\ x.phase = "train" => x.start < y.start
               /\ y.start <= x.stop
               /\ \E m \in Attempts : y.input = {<<x.job, m>>} /\ job'[x.job].output[m]
  <2>1. ASSUME NEW i \in 1 .. N - 1 PROVE Linked(run.units[i], run.units[i + 1])
    <3>1. i \in 1 .. Len(run.units) - 1 /\ i \in 1 .. N
      BY <1>1 DEF Size
    <3>2. /\ run.units[i].phase = "train" => run.units[i].start < run.units[i + 1].start
          /\ run.units[i + 1].start <= run.units[i].stop
      BY <1>1, <3>1 DEF ChainIsContiguous
    <3>3. PICK m \in Attempts : /\ run.units[i + 1].input = {<<run.units[i].job, m>>}
                                /\ job[run.units[i].job].output[m]
      BY <1>1, <3>1 DEF ChainIsContiguous
    <3>4. job'[run.units[i].job].output[m]
      BY <1>10, <3>1, <3>3
    <3> QED
      BY <3>2, <3>3, <3>4
  <2>2. Linked(u, v)
    BY <1>1, <1>3 DEF Advances
  <2>3. ASSUME NEW i \in 1 .. N PROVE Linked(run'.units[i], run'.units[i + 1])
    <3>1. CASE i = N
      <4>1. run'.units[i] = u /\ run'.units[i + 1] = v
        BY <1>1, <1>5, <3>1
      <4> QED
        BY <2>2, <4>1
    <3>2. CASE i # N
      <4>1. i \in 1 .. N - 1 /\ i + 1 \in 1 .. N
        BY <1>1, <3>2
      <4>2. run'.units[i] = run.units[i] /\ run'.units[i + 1] = run.units[i + 1]
        BY <1>5, <4>1
      <4> QED
        BY <2>1, <4>1, <4>2
    <3> QED
      BY <3>1, <3>2
  <2>4. Len(run'.units) - 1 = N
    BY <1>1, <1>5
  <2>5. /\ CurrentUnit'.phase = "train" => CurrentUnit'.start < CurrentUnit'.stop
        /\ Restartable(HeadJob)'
    BY <1>3, <1>4, <1>6 DEF Restartable
  <2> QED
    BY <2>3, <2>4, <2>5 DEF ChainIsContiguous
<1> QED
  BY <1>9, <1>13, <1>14 DEF RunInv

LEMMA RunInitInv == RunInit => IInv /\ RunInv
<1> SUFFICES ASSUME RunInit PROVE RunInv
  BY RunInitIsInit, InitInv
<1>1. PICK j \in Jobs :
        /\ Phase[j] = "train"
        /\ run = [units |-> <<FirstUnit(j)>>, epoch |-> 0, checkpoint |-> {}]
  BY DEF RunInit
<1> DEFINE u == FirstUnit(j)
<1>2. TotalEpochs \in Nat \ {0} /\ UnitEpochs \in Nat \ {0} /\ FirstPhase \in {"initialize", "train"}
  BY EpochsAssumption, FirstPhaseAssumption
<1>3. /\ u.job = j /\ u.phase = FirstPhase /\ u.start = 0 /\ u.input = {}
      /\ u.phase = "train" => u.start < u.stop
      /\ u \in UnitRecord
  BY <1>2 DEF FirstUnit, Earliest, UnitRecord, UnitPhases, Epochs, CheckpointRefs
<1> HIDE DEF u
<1>4. /\ run.units = <<u>> /\ run.epoch = 0 /\ run.checkpoint = {}
      /\ Size = 1 /\ run.units[1] = u /\ CurrentUnit = u /\ HeadJob = j /\ Units = {j}
  <2>1. run.units = <<u>> /\ run.epoch = 0 /\ run.checkpoint = {}
    BY <1>1 DEF u
  <2>2. Len(<<u>>) = 1 /\ <<u>>[1] = u /\ 1 .. 1 = {1}
    OBVIOUS
  <2> QED
    BY <1>3, <2>1, <2>2 DEF Size, CurrentUnit, HeadJob, Units
<1>5. run \in RunRecord
  BY <1>1, <1>2, <1>3, <1>4 DEF RunRecord, Epochs, CheckpointRefs
<1>6. UnitsInv
  BY <1>1, <1>2, <1>3, <1>4, <1>5 DEF UnitsInv, LeasePhase
<1>7. \A i \in Jobs : ~HasOutput(i)
  BY DEF RunInit, NewJob, HasOutput
<1>8. OutputsInv
  BY <1>1, <1>4, <1>7 DEF OutputsInv, CommittedUnitAdvanced
<1>9. ChainIsContiguous
  BY <1>3, <1>4 DEF ChainIsContiguous, Restartable, Size
<1> QED
  BY <1>6, <1>8, <1>9 DEF RunInv

LEMMA RunStepKeepsInv ==
  ASSUME IInv, RunInv, [RunNext]_runVars
  PROVE  IInv' /\ RunInv'
BY RunSteps, HoldsKeepsInv, AdvancesKeepsInv DEF Steps

(* The invariant of the lease protocol and that of the chain of units.     *)
THEOREM RunInductive == RunSpec => [](IInv /\ RunInv)
<1>1. IInv /\ RunInv /\ [RunNext]_runVars => IInv' /\ RunInv'
  BY RunStepKeepsInv
<1> QED
  BY <1>1, RunInitInv, PTL DEF RunSpec

----------------------------------------------------------------------------
(* A run is a behaviour of the worker-lease protocol: whatever is proved   *)
(* of leases, attempts and outputs holds of the units of a run.            *)
THEOREM RunUsesLeases == RunSpec => Spec
<1>1. RunInv /\ [RunNext]_runVars => [Next]_vars
  BY RunStepIsLeaseStep DEF RunInv, UnitsInv
<1> QED
  BY <1>1, RunInitIsInit, RunInductive, PTL DEF RunSpec, Spec

(* Types, for any number of units.                                         *)
THEOREM RunTypeCorrect == RunSpec => []RunTypeOK
<1>1. IInv /\ RunInv => RunTypeOK
  <2> SUFFICES ASSUME IInv, RunInv PROVE run.units # <<>>
    BY DEF RunTypeOK, IInv, RunInv, UnitsInv
  <2> QED
    BY DEF RunInv, UnitsInv, Size
<1> QED
  BY <1>1, RunInductive, PTL

(* No fork: behind the head every unit is committed, over and unleased.    *)
THEOREM NoFork == RunSpec => []OnlyHeadRuns
<1>1. IInv /\ RunInv => OnlyHeadRuns
  <2> SUFFICES ASSUME IInv, RunInv, NEW i \in 1 .. Size - 1
               PROVE  LET j == run.units[i].job
                      IN /\ job[j].status \in TerminalStatuses
                         /\ HasOutput(j)
                         /\ \A n \in Attempts : ~Live(job[j], n)
    BY DEF OnlyHeadRuns, Size
  <2> DEFINE j == run.units[i].job
  <2>1. j \in Jobs
    BY UnitsAreJobs DEF RunInv, UnitsInv, Units, Size
  <2>2. PICK n \in Attempts : job[j].output[n]
    BY DEF RunInv, OutputsInv, HasOutput
  <2>3. JobInv(job[j])
    BY <2>1 DEF IInv
  <2>4. /\ n = job[j].issued /\ job[j].lease[n] = "completed"
        /\ job[j].status \in {"completed", "indexed", "cancelled"}
    BY <2>2, <2>3 DEF JobInv, OutputIsLatest
  <2>5. \A m \in Attempts : ~Live(job[j], m)
    BY <2>3, <2>4 DEF JobInv, LiveIsLatest, Live, LiveStates, ActiveStates
  <2> QED
    BY <2>2, <2>4, <2>5 DEF TerminalStatuses, HasOutput
<1> QED
  BY <1>1, RunInductive, PTL

(* A committed checkpoint always has its continuation.                     *)
THEOREM Continued == RunSpec => []CommittedUnitAdvanced
<1>1. RunInv => CommittedUnitAdvanced
  BY DEF RunInv, OutputsInv
<1> QED
  BY <1>1, RunInductive, PTL

(* Every unit continues the one before it, epoch and checkpoint.           *)
THEOREM Contiguous == RunSpec => []ChainIsContiguous
<1>1. RunInv => ChainIsContiguous
  BY DEF RunInv
<1> QED
  BY <1>1, RunInductive, PTL

----------------------------------------------------------------------------
(* The continuation after a stop                                           *)

(* The latest attempt of the unit was stopped, restarted or cancelled, or  *)
(* its cancellation is on record.                                          *)
StoppedByRequest(r) ==
  r.cancel \/ \E n \in Attempts : n = r.issued /\ r.lease[n] \in FencedStates

(* What is true of StopCancelsContinuation: a cancelled unit has a         *)
(* successor only if it was stopped while it waited, which leaves neither  *)
(* a cancellation nor an ended lease to tell reconciliation of it.         *)
StopOfLeasedUnitHolds ==
  [][job[HeadJob].status = "cancelled" /\ StoppedByRequest(job[HeadJob])
       => run'.units = run.units]_runVars

(* A unit that was cancelled through its lease, or with a cancellation on  *)
(* record, has no successor, whatever completion or reconciliation was     *)
(* under way (request_job_command, reconcile_worker_publications).         *)
THEOREM LeasedStopsHold == RunSpec => StopOfLeasedUnitHolds
<1>1. ASSUME IInv, RunInv, [RunNext]_runVars, job[HeadJob].status = "cancelled",
             StoppedByRequest(job[HeadJob])
      PROVE  run'.units = run.units
  <2> DEFINE r == job[HeadJob]
  <2>1. HeadJob \in Jobs
    BY <1>1, HeadIsUnit, UnitsAreJobs DEF RunInv, UnitsInv
  <2>2. r \in JobRecord /\ JobInv(r) /\ job \in [Jobs -> JobRecord]
    BY <1>1, <2>1 DEF IInv, TypeOK
  <2>3. ASSUME NEW n \in Attempts, CommitSegment(HeadJob, n)
        PROVE  FALSE
    <3>1. CASE Reconcile(HeadJob, n)
      <4>1. n = r.issued /\ ~r.output[n] /\ ~r.cancel /\ n \notin r.barred
        BY <3>1 DEF Reconcile, Reconcilable, BarredByClosing
      <4>2. r.lease[n] \notin FencedStates
        BY <2>2, <4>1 DEF JobInv, FencedIsBarred
      <4> QED
        BY <1>1, <4>1, <4>2 DEF StoppedByRequest
    <3>2. CASE CommitCompletion(HeadJob, n)
      <4>1. CASE r.lease[n] = "publication_pending"
        <5>1. r.status \in HeldStatuses
          BY <2>2, <4>1 DEF JobInv, LiveIsLatest, Live, LiveStates
        <5> QED
          BY <1>1, <5>1 DEF HeldStatuses, PublicationStatuses
      <4>2. CASE Update(HeadJob, [r EXCEPT !.completing[n] = "idle"])
        <5>1. job'[HeadJob].output = r.output
          BY <2>1, <2>2, <4>2 DEF Update, JobRecord
        <5> QED
          BY <2>3, <5>1 DEF CommitSegment, RecordsOutput
      <4> QED
        BY <3>2, <4>1, <4>2 DEF CommitCompletion
    <3> QED
      BY <2>3, <3>1, <3>2 DEF CommitSegment
  <2>4. CASE \E j \in Units, n \in Attempts : CommitSegment(j, n)
    BY <2>3, <2>4 DEF CommitSegment
  <2> QED
    BY <1>1, <2>4 DEF RunNext, RunAcquire, RunAttempt, RunOperator, RunIndex, RunServer, runVars
<1> QED
  BY <1>1, RunInductive, PTL DEF RunSpec, StopOfLeasedUnitHolds

----------------------------------------------------------------------------
(* The chain implements the progress its owner is promised.                *)
THEOREM RunImplementation == RunSpec => ImplementsProgress
<1>1. RunInit => Abstraction!Init
  <2> SUFFICES ASSUME RunInit PROVE Abstraction!Init
    OBVIOUS
  <2>1. PICK j \in Jobs : run = [units |-> <<FirstUnit(j)>>, epoch |-> 0, checkpoint |-> {}]
    BY DEF RunInit
  <2>2. CurrentUnit.phase = FirstPhase /\ run.epoch = 0
    BY <2>1 DEF CurrentUnit, FirstUnit
  <2>3. FirstPhase # "finalize"
    BY FirstPhaseAssumption
  <2> QED
    BY <2>2, <2>3 DEF Abstraction!Init, Progress
<1>2. IInv /\ RunInv /\ [RunNext]_runVars => [Abstraction!Next]_Progress
  <2> SUFFICES ASSUME IInv, RunInv, [RunNext]_runVars
               PROVE  Abstraction!Next \/ Progress' = Progress
    OBVIOUS
  <2>0. Steps /\ CurrentUnit \in UnitRecord /\ HeadJob \in Jobs
    BY RunSteps, HeadIsUnit, UnitsAreJobs DEF RunInv, UnitsInv
  <2>1. CASE Holds
    <3>1. CurrentUnit' = CurrentUnit /\ HeadJob' = HeadJob /\ run'.epoch = run.epoch
      BY <2>1 DEF Holds, CurrentUnit, HeadJob
    <3>2. Progress' = [ phase |-> CurrentUnit.phase, epoch |-> run.epoch,
                        finished |-> /\ CurrentUnit.phase = "finalize"
                                     /\ \E n \in Attempts : job'[HeadJob].output[n] ]
      BY <3>1 DEF Progress, HasOutput
    <3>3. HasOutput(HeadJob) => \E n \in Attempts : job'[HeadJob].output[n]
      BY <2>0, OutputKept DEF HasOutput
    <3>4. CASE Progress'.finished = Progress.finished
      BY <3>2, <3>4 DEF Progress
    <3>5. CASE Progress'.finished # Progress.finished
      <4>1. /\ CurrentUnit.phase = "finalize"
            /\ Progress = [phase |-> CurrentUnit.phase, epoch |-> run.epoch, finished |-> FALSE]
            /\ Progress' = [phase |-> CurrentUnit.phase, epoch |-> run.epoch, finished |-> TRUE]
        BY <3>2, <3>3, <3>5 DEF Progress
      <4>2. Progress.phase = "finalize" /\ ~Progress.finished
        BY <4>1
      <4>3. Progress' = [phase |-> "finalize", epoch |-> Progress.epoch, finished |-> TRUE]
        BY <4>1
      <4> QED
        BY <4>2, <4>3 DEF Abstraction!Next, Abstraction!Finished
    <3> QED
      BY <3>4, <3>5
  <2>2. ASSUME NEW n \in Attempts, Advances(n)
        PROVE  Abstraction!Next
    <3>1. PICK k \in Jobs \ Units, result \in Results(CurrentUnit) :
            run' = [units |-> Append(run.units, Successor(CurrentUnit, HeadJob, n, k, result)),
                    epoch |-> result.cursor, checkpoint |-> {<<HeadJob, n>>}]
      BY <2>2 DEF Advances, Continue
    <3> DEFINE v == Successor(CurrentUnit, HeadJob, n, k, result)
    <3>2. /\ v \in UnitRecord /\ v.job = k /\ v.start = result.cursor
          /\ CurrentUnit.phase \in {"initialize", "train"}
          /\ v.phase \in {"train", "finalize"}
          /\ CurrentUnit.phase = "initialize" => v.phase = "train" /\ v.start = 0
          /\ CurrentUnit.phase = "train" =>
               /\ CurrentUnit.start < v.start
               /\ v.start = TotalEpochs => v.phase = "finalize"
      BY <2>2, SuccessorFits DEF RunInv, Advances
    <3>3. run'.units = Append(run.units, v) /\ run'.epoch = v.start
      BY <3>1, <3>2
    <3> HIDE DEF v
    <3>4. CurrentUnit' = v /\ HeadJob' = k
      BY <3>2, <3>3 DEF CurrentUnit, HeadJob, RunInv, UnitsInv, RunRecord
    <3>5. \A m \in Attempts : ~job'[k].output[m]
      BY <2>2, <3>1, HeadIsUnit DEF RunInv, OutputsInv, Advances, HasOutput
    <3>6. Progress = [phase |-> CurrentUnit.phase, epoch |-> CurrentUnit.start, finished |-> FALSE]
      BY <3>2 DEF Progress, RunInv, ChainIsContiguous, Restartable
    <3>7. Progress' = [phase |-> v.phase, epoch |-> v.start, finished |-> FALSE]
      BY <3>3, <3>4, <3>5 DEF Progress, HasOutput
    <3>8. CASE CurrentUnit.phase = "initialize"
      <4>1. CurrentUnit.start = 0
        BY <3>8 DEF RunInv, UnitsInv, CurrentUnit, Size
      <4>2. Progress' = [phase |-> "train", epoch |-> Progress.epoch, finished |-> FALSE]
        BY <3>2, <3>6, <3>7, <3>8, <4>1
      <4>3. Progress.phase = "initialize"
        BY <3>6, <3>8
      <4> QED
        BY <4>2, <4>3 DEF Abstraction!Next, Abstraction!Initialized
    <3>9. CASE CurrentUnit.phase = "train"
      <4>1. v.start \in 1 .. TotalEpochs
        BY <2>0, <3>2, <3>9, EpochsAssumption DEF UnitRecord, Epochs
      <4>2. Progress' = [phase |-> v.phase, epoch |-> v.start, finished |-> FALSE]
        BY <3>7
      <4>3. Progress.phase = "train" /\ v.start > Progress.epoch
        BY <2>0, <3>2, <3>6, <3>9, <4>1 DEF UnitRecord, Epochs
      <4>4. Abstraction!Checkpoint(v.start)
        BY <3>2, <3>9, <4>2, <4>3 DEF Abstraction!Checkpoint
      <4> QED
        BY <4>1, <4>4 DEF Abstraction!Next
    <3> QED
      BY <3>2, <3>8, <3>9
  <2> QED
    BY <2>1, <2>2, RunSteps
<1> QED
  BY <1>1, <1>2, RunInductive, PTL DEF RunSpec, ImplementsProgress, Abstraction!Spec
=============================================================================

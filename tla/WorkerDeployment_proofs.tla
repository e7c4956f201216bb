---------------------- MODULE WorkerDeployment_proofs ----------------------
(***************************************************************************)
(* The budget of automatic restarts, for any limit of at least two, any    *)
(* number of operators' calls and any number of crashes.  The count is     *)
(* read once for the decision to restart, read again by the restart, and   *)
(* written after the launch, while starts and stops clear it or set it to  *)
(* one; that restarts are never lost to those races is what has to be      *)
(* known of every state in between.                                        *)
(*                                                                         *)
(* It needs that one pass at a time reconciles: two passes count two       *)
(* restarts once, so a reconciliation that an operator asks for is out.    *)
(***************************************************************************)
EXTENDS WorkerDeployment, TLAPS

R == call["runner"]

(* The calls of operators do not recover, the runner does nothing else.    *)
Roles ==
  /\ \A t \in ApiThreads : ~Recovering(t) /\ call[t].at \notin {"read", "asked"}
  /\ R.at # "none" => R.kind = "reconcile"
  /\ R.at \notin {"stopping", "halted"}

(* A restart that is launched and not yet written.                         *)
Launched == R.at \in {"started", "refused"}

Pending == IF Launched THEN 1 ELSE 0

(* The row, and what the pass under way has read of it, count the restarts *)
(* made, but for those that a crash kept from being written.               *)
RowCounts == automatic <= row.attempts + crashes + Pending

SeenCounts == R.at # "none" => automatic <= R.seen.attempts + crashes + Pending

(* Since the pass read the row, operators may have cleared the count, or   *)
(* set it to one by a start that failed.                                   *)
ReadAgain == R.at \in {"read", "asked"} => row.attempts \in {R.seen.attempts, 0, 1}

Room ==
  R.at \in {"starting", "inspected", "started", "refused"} => R.seen.attempts < Limit

IInv == TypeOK /\ Roles /\ RowCounts /\ SeenCounts /\ ReadAgain /\ Room

OperatorsStartAndStop == ApiKinds \subseteq {"start", "stop"}

----------------------------------------------------------------------------
LEMMA NewRowType == NewRow \in Row
  BY LimitAssumption DEF NewRow, Row, Errors

LEMMA NoCallType == NoCall \in CallRecord
  BY NewRowType DEF NoCall, CallRecord, Units

LEMMA RunnerIsThread == "runner" \in Threads /\ "runner" \notin ApiThreads
  BY RunnerAssumption DEF Threads

(* Every step writes the record of one call, or of none.                   *)
LEMMA CallType ==
  ASSUME call \in [Threads -> CallRecord], NEW t \in Threads, NEW r \in CallRecord,
         call' = [call EXCEPT ![t] = r]
  PROVE  /\ call' \in [Threads -> CallRecord]
         /\ call'[t] = r
         /\ \A u \in Threads : u # t => call'[u] = call[u]
  OBVIOUS

LEMMA GoesType ==
  ASSUME call \in [Threads -> CallRecord], NEW t \in Threads,
         NEW step \in {"none", "read", "asked", "starting", "inspected", "started", "refused",
                       "stopping", "halted"},
         Goes(t, step)
  PROVE  /\ call' \in [Threads -> CallRecord]
         /\ call'[t] = [call[t] EXCEPT !.at = step]
         /\ \A u \in Threads : u # t => call'[u] = call[u]
  BY DEF Goes, CallRecord

LEMMA EndsType ==
  ASSUME call \in [Threads -> CallRecord], NEW t \in Threads, Ends(t)
  PROVE  /\ call' \in [Threads -> CallRecord]
         /\ call'[t] = NoCall
         /\ \A u \in Threads : u # t => call'[u] = call[u]
  BY NoCallType DEF Ends

LEMMA InitInv == Init => IInv
<1> SUFFICES ASSUME Init PROVE IInv
  OBVIOUS
<1>1. TypeOK
  BY NewRowType, NoCallType, ProvidersAssumption, BoundsAssumption DEF Init, TypeOK, Units
<1>2. call["runner"] = NoCall /\ \A t \in ApiThreads : call[t] = NoCall
  BY RunnerIsThread DEF Init, Threads
<1>3. Roles
  BY <1>2 DEF Roles, R, Recovering, NoCall
<1>4. RowCounts /\ SeenCounts /\ ReadAgain /\ Room
  BY <1>2 DEF Init, RowCounts, SeenCounts, ReadAgain, Room, R, NoCall, NewRow, Pending, Launched
<1> QED
  BY <1>1, <1>3, <1>4 DEF IInv

(* A call of an operator that leaves the row and the count alone.          *)
LEMMA OperatorMoves ==
  ASSUME IInv, NEW t \in ApiThreads, TypeOK',
         call'[t].kind # "reconcile", call'[t].at \notin {"read", "asked"},
         \A u \in Threads : u # t => call'[u] = call[u],
         UNCHANGED <<row, automatic, crashes>>
  PROVE  IInv'
<1>1. R' = R /\ \A u \in ApiThreads : u # t => call'[u] = call[u]
  BY RunnerIsThread DEF R, Threads
<1>2. Roles'
  BY <1>1 DEF IInv, Roles, Recovering
<1> QED
  BY <1>1, <1>2 DEF IInv, RowCounts, SeenCounts, ReadAgain, Room, Pending, Launched

(* One that writes the row clears the count.                               *)
LEMMA OperatorWrites ==
  ASSUME IInv, NEW t \in ApiThreads, TypeOK', Ends(t),
         row'.attempts \in {0, 1}, automatic' = 0, UNCHANGED crashes
  PROVE  IInv'
<1>1. /\ call'[t] = NoCall
      /\ \A u \in Threads : u # t => call'[u] = call[u]
  BY EndsType DEF IInv, TypeOK, Threads
<1>2. R' = R /\ \A u \in ApiThreads : u # t => call'[u] = call[u]
  BY <1>1, RunnerIsThread DEF R, Threads
<1>3. Roles'
  BY <1>1, <1>2 DEF IInv, Roles, Recovering, NoCall
<1>4. R \in CallRecord /\ crashes \in Nat
  BY RunnerIsThread, BoundsAssumption DEF IInv, TypeOK, R
<1>5. R.seen.attempts \in Nat
  BY <1>4, LimitAssumption DEF CallRecord, Row
<1>6. RowCounts' /\ SeenCounts' /\ ReadAgain' /\ Room'
  BY <1>2, <1>4, <1>5 DEF IInv, RowCounts, SeenCounts, ReadAgain, Room, Pending, Launched
<1> QED
  BY <1>3, <1>6 DEF IInv

(* What the runner leaves alone.                                           *)
LEMMA RunnerRoles ==
  ASSUME IInv, \A u \in Threads : u # "runner" => call'[u] = call[u],
         R'.at # "none" => R'.kind = "reconcile", R'.at \notin {"stopping", "halted"}
  PROVE  Roles'
<1>1. \A u \in ApiThreads : call'[u] = call[u]
  BY RunnerIsThread DEF Threads
<1> QED
  BY <1>1 DEF IInv, Roles, Recovering

LEMMA Numbers ==
  ASSUME TypeOK
  PROVE  /\ row.attempts \in 0 .. Limit /\ R.seen.attempts \in 0 .. Limit
         /\ automatic \in Nat /\ crashes \in Nat /\ Limit \in Nat
         /\ \A t \in Threads : call[t] \in CallRecord /\ call[t].seen.attempts \in 0 .. Limit
         /\ Pending \in {0, 1}
<1>1. \A t \in Threads : call[t] \in CallRecord
  BY DEF TypeOK
<1>2. \A t \in Threads : call[t].seen.attempts \in 0 .. Limit
  BY <1>1 DEF CallRecord, Row
<1> QED
  BY <1>1, <1>2, RunnerIsThread, LimitAssumption, BoundsAssumption
     DEF TypeOK, Row, R, Pending, Launched

----------------------------------------------------------------------------
(* The calls of a start, of an operator or of a pass.                      *)
LEMMA RequestStep ==
  ASSUME IInv, OperatorsStartAndStop, NEW t \in ApiThreads, NEW kind \in ApiKinds,
         Request(t, kind)
  PROVE  IInv'
<1>1. kind \in {"start", "stop"}
  BY DEF OperatorsStartAndStop
<1> DEFINE new == [NoCall EXCEPT !.kind = kind, !.seen = NoCall.seen, !.at = FirstStep[kind]]
<1>2. call' = [call EXCEPT ![t] = new]
  BY <1>1 DEF Request
<1>3. FirstStep[kind] \in {"starting", "stopping"}
  BY <1>1 DEF FirstStep
<1>4. new \in CallRecord /\ new.kind = kind /\ new.at = FirstStep[kind]
  BY <1>1, <1>3, NoCallType DEF CallRecord
<1>5. /\ call' \in [Threads -> CallRecord]
      /\ call'[t] = new
      /\ \A u \in Threads : u # t => call'[u] = call[u]
  BY <1>2, <1>4, CallType DEF IInv, TypeOK, Threads
<1>6. requests' \in 0 .. MaxRequests /\ UNCHANGED <<row, provider, unit, crashes, automatic>>
  BY BoundsAssumption DEF IInv, TypeOK, Request
<1>7. TypeOK'
  BY <1>5, <1>6 DEF IInv, TypeOK
<1> QED
  BY <1>1, <1>3, <1>4, <1>5, <1>6, <1>7, OperatorMoves

LEMMA PassStepInv == ASSUME IInv, Pass PROVE IInv'
<1> DEFINE read == [NoCall EXCEPT !.at = "read", !.kind = "reconcile", !.seen = Seen(row)]
<1>1. read \in CallRecord
  BY NoCallType DEF IInv, TypeOK, CallRecord, Seen, Row, Errors
<1>2. /\ call' \in [Threads -> CallRecord]
      /\ call'["runner"] = read
      /\ \A u \in Threads : u # "runner" => call'[u] = call[u]
  BY <1>1, CallType, RunnerIsThread DEF IInv, TypeOK, Pass
<1>3. TypeOK'
  BY <1>2 DEF IInv, TypeOK, Pass
<1>4. R'.at = "read" /\ R'.kind = "reconcile" /\ R'.seen.attempts = row.attempts
  BY <1>2 DEF R, NoCall, Seen, IInv, TypeOK, Row
<1>5. Roles'
  BY <1>2, <1>4, RunnerRoles
<1>6. RowCounts' /\ SeenCounts' /\ ReadAgain' /\ Room'
  BY <1>4, Numbers DEF IInv, RowCounts, SeenCounts, ReadAgain, Room, Pending, Launched,
     Pass, Thread, R
<1> QED
  BY <1>3, <1>5, <1>6 DEF IInv

LEMMA InspectStep == ASSUME IInv, NEW t \in Threads, Inspect(t) PROVE IInv'
<1> DEFINE next == [call[t] EXCEPT !.at = "inspected", !.found = unit]
<1>1. next \in CallRecord /\ call' = [call EXCEPT ![t] = next]
  BY DEF IInv, TypeOK, CallRecord, Inspect
<1>2. /\ call' \in [Threads -> CallRecord]
      /\ call'[t] = next
      /\ \A u \in Threads : u # t => call'[u] = call[u]
  BY <1>1, CallType DEF IInv, TypeOK
<1>3. TypeOK'
  BY <1>2 DEF IInv, TypeOK, Inspect
<1>4. call[t] \in CallRecord
  BY Numbers DEF IInv
<1>5. /\ call'[t].at = "inspected" /\ call'[t].kind = call[t].kind
      /\ call'[t].seen = call[t].seen
  BY <1>2, <1>4 DEF CallRecord
<1>6. CASE t \in ApiThreads
  <2>1. call'[t].kind # "reconcile"
    BY <1>5, <1>6 DEF IInv, Roles, Recovering
  <2> QED
    BY <1>2, <1>3, <1>5, <1>6, <2>1, OperatorMoves DEF Inspect
<1>7. CASE t = "runner"
  <2>1. R'.at = "inspected" /\ R'.kind = R.kind /\ R'.seen = R.seen /\ R.at = "starting"
    BY <1>5, <1>7 DEF R, Inspect, Thread
  <2>2. Roles'
    BY <1>2, <1>7, <2>1, RunnerRoles DEF IInv, Roles
  <2>3. RowCounts' /\ SeenCounts' /\ ReadAgain' /\ Room'
    BY <2>1 DEF IInv, RowCounts, SeenCounts, ReadAgain, Room, Pending, Launched, Inspect
  <2> QED
    BY <1>3, <2>2, <2>3 DEF IInv
<1> QED
  BY <1>6, <1>7 DEF Threads

LEMMA LaunchStep == ASSUME IInv, NEW t \in Threads, Launch(t) PROVE IInv'
<1>1. PICK step \in {"started", "refused"} : Goes(t, step)
  BY DEF Launch
<1>2. /\ call' \in [Threads -> CallRecord]
      /\ call'[t] = [call[t] EXCEPT !.at = step]
      /\ \A u \in Threads : u # t => call'[u] = call[u]
  BY <1>1, GoesType DEF IInv, TypeOK
<1>3. unit' \in Units /\ automatic' \in Nat
  BY Numbers DEF IInv, TypeOK, Launch, Counted, Units
<1>4. TypeOK'
  BY <1>2, <1>3 DEF IInv, TypeOK, Launch
<1>5. call[t] \in CallRecord
  BY Numbers DEF IInv
<1>6. /\ call'[t].at = step /\ call'[t].kind = call[t].kind
      /\ call'[t].seen = call[t].seen
  BY <1>2, <1>5 DEF CallRecord
<1>7. CASE t \in ApiThreads
  <2>1. call'[t].kind # "reconcile" /\ automatic' = automatic
    BY <1>6, <1>7 DEF IInv, Roles, Recovering, Launch, Counted
  <2> QED
    BY <1>2, <1>4, <1>6, <1>7, <2>1, OperatorMoves DEF Launch
<1>8. CASE t = "runner"
  <2>1. /\ R'.at = step /\ R'.kind = R.kind /\ R'.seen = R.seen /\ R.at = "inspected"
        /\ R.kind = "reconcile"
    BY <1>6, <1>8 DEF R, Launch, Thread, IInv, Roles
  <2>2. Roles'
    BY <1>2, <1>8, <2>1, RunnerRoles DEF IInv, Roles
  <2>3. automatic' = automatic + 1 /\ row' = row /\ crashes' = crashes
    BY <1>8, <2>1 DEF Launch, Counted, Recovering, R
  <2>4. RowCounts' /\ SeenCounts' /\ ReadAgain' /\ Room'
    BY <2>1, <2>3, Numbers
       DEF IInv, RowCounts, SeenCounts, ReadAgain, Room, Pending, Launched
  <2> QED
    BY <1>4, <2>2, <2>4 DEF IInv
<1> QED
  BY <1>7, <1>8 DEF Threads

(* The end of a pass: the row it wrote counts what the pass had seen.      *)
LEMMA RunnerEnds ==
  ASSUME IInv, Ends("runner"), TypeOK', RowCounts'
  PROVE  IInv'
<1>1. R' = NoCall /\ \A u \in Threads : u # "runner" => call'[u] = call[u]
  BY EndsType, RunnerIsThread DEF IInv, TypeOK, R
<1>2. Roles'
  BY <1>1, RunnerRoles DEF NoCall
<1> QED
  BY <1>1, <1>2 DEF IInv, SeenCounts, ReadAgain, Room, NoCall

LEMMA AfterEnds ==
  ASSUME IInv, NEW t \in Threads, Ends(t)
  PROVE  /\ call' \in [Threads -> CallRecord]
         /\ t = "runner" => Pending' = 0
  BY EndsType DEF IInv, TypeOK, Pending, Launched, R, NoCall

LEMMA RecordStartedStep == ASSUME IInv, NEW t \in Threads, RecordStarted(t) PROVE IInv'
<1>1. call' \in [Threads -> CallRecord] /\ (t = "runner" => Pending' = 0)
  BY AfterEnds DEF RecordStarted
<1>2. CASE t \in ApiThreads
  <2>1. row'.attempts = 0 /\ automatic' = 0 /\ row' \in Row
    BY <1>2, LimitAssumption
       DEF IInv, Roles, RecordStarted, Attempts, Cleared, Recovering, Row, Errors
  <2>2. TypeOK'
    BY <1>1, <2>1 DEF IInv, TypeOK, RecordStarted
  <2> QED
    BY <1>2, <2>1, <2>2, OperatorWrites DEF RecordStarted
<1>3. CASE t = "runner"
  <2>1. R.at = "started" /\ R.kind = "reconcile"
    BY <1>3 DEF IInv, Roles, RecordStarted, Thread, R
  <2>2. R.seen.attempts + 1 \in 0 .. Limit
    BY <2>1, Numbers DEF IInv, Room
  <2>3. row'.attempts = R.seen.attempts + 1 /\ row' \in Row /\ automatic' = automatic
    BY <1>3, <2>1, <2>2
       DEF RecordStarted, Attempts, Cleared, Recovering, R, Row, Errors
  <2>4. TypeOK'
    BY <1>1, <2>3 DEF IInv, TypeOK, RecordStarted
  <2>5. RowCounts'
    BY <1>1, <1>3, <2>1, <2>3, Numbers
       DEF IInv, RowCounts, SeenCounts, Pending, Launched, RecordStarted
  <2> QED
    BY <1>3, <2>4, <2>5, RunnerEnds DEF RecordStarted
<1> QED
  BY <1>2, <1>3 DEF Threads

LEMMA RecordRefusedStep == ASSUME IInv, NEW t \in Threads, RecordRefused(t) PROVE IInv'
<1>1. call' \in [Threads -> CallRecord] /\ (t = "runner" => Pending' = 0)
  BY AfterEnds DEF RecordRefused
<1>2. CASE t \in ApiThreads
  <2>1. row'.attempts = 1 /\ automatic' = 0 /\ row' \in Row
    <3>1. ~Recovering(t)
      BY <1>2 DEF IInv, Roles
    <3>2. automatic' = 0
      BY <3>1 DEF RecordRefused, Cleared
    <3>3. row' = [row EXCEPT !.desired = "running", !.error = "failure", !.attempts = 1,
                             !.retry = TRUE]
      BY <3>1 DEF RecordRefused
    <3>4. row \in Row /\ 1 \in 0 .. Limit
      BY LimitAssumption DEF IInv, TypeOK
    <3> QED
      BY <3>2, <3>3, <3>4 DEF Row, Errors
  <2>2. TypeOK'
    BY <1>1, <2>1 DEF IInv, TypeOK, RecordRefused
  <2> QED
    BY <1>2, <2>1, <2>2, OperatorWrites DEF RecordRefused
<1>3. CASE t = "runner"
  <2>1. R.at = "refused" /\ R.kind = "reconcile"
    BY <1>3 DEF IInv, Roles, RecordRefused, Thread, R
  <2>2. R.seen.attempts + 1 \in 0 .. Limit
    BY <2>1, Numbers DEF IInv, Room
  <2>3. row'.attempts = R.seen.attempts + 1 /\ row' \in Row /\ automatic' = automatic
    BY <1>3, <2>1, <2>2
       DEF IInv, TypeOK, RecordRefused, Attempts, Cleared, Recovering, R, Row, Errors
  <2>4. TypeOK'
    BY <1>1, <2>3 DEF IInv, TypeOK, RecordRefused
  <2>5. RowCounts'
    BY <1>1, <1>3, <2>1, <2>3, Numbers
       DEF IInv, RowCounts, SeenCounts, Pending, Launched, RecordRefused
  <2> QED
    BY <1>3, <2>4, <2>5, RunnerEnds DEF RecordRefused
<1> QED
  BY <1>2, <1>3 DEF Threads

----------------------------------------------------------------------------
(* The calls of a stop, which only operators make.                         *)
LEMMA HaltStep == ASSUME IInv, NEW t \in Threads, Halt(t) PROVE IInv'
<1>1. t \in ApiThreads
  BY DEF Threads, IInv, Roles, R, Halt, Thread
<1>2. call[t] \in CallRecord
  BY Numbers DEF IInv
<1>3. CASE Goes(t, "halted")
  <2>1. /\ call' \in [Threads -> CallRecord]
        /\ call'[t] = [call[t] EXCEPT !.at = "halted"]
        /\ \A u \in Threads : u # t => call'[u] = call[u]
    BY <1>3, GoesType DEF IInv, TypeOK
  <2>2. TypeOK'
    BY <2>1 DEF IInv, TypeOK, Halt, Units
  <2>3. call'[t].kind # "reconcile" /\ call'[t].at = "halted"
    BY <1>1, <1>2, <2>1 DEF IInv, Roles, Recovering, CallRecord
  <2> QED
    BY <1>1, <2>1, <2>2, <2>3, OperatorMoves DEF Halt
<1>4. CASE Ends(t)
  <2>1. /\ call' \in [Threads -> CallRecord]
        /\ call'[t] = NoCall
        /\ \A u \in Threads : u # t => call'[u] = call[u]
    BY <1>4, EndsType DEF IInv, TypeOK
  <2>2. TypeOK'
    BY <2>1 DEF IInv, TypeOK, Halt, Units
  <2>3. call'[t].kind # "reconcile" /\ call'[t].at = "none"
    BY <2>1 DEF NoCall
  <2> QED
    BY <1>1, <2>1, <2>2, <2>3, OperatorMoves DEF Halt
<1> QED
  BY <1>3, <1>4 DEF Halt

LEMMA RecordStoppedStep == ASSUME IInv, NEW t \in Threads, RecordStopped(t) PROVE IInv'
<1>1. t \in ApiThreads
  BY DEF Threads, IInv, Roles, R, RecordStopped, Thread
<1>2. TypeOK'
  BY AfterEnds, NewRowType DEF IInv, TypeOK, RecordStopped
<1>3. row'.attempts = 0 /\ automatic' = 0
  BY DEF RecordStopped, NewRow
<1> QED
  BY <1>1, <1>2, <1>3, OperatorWrites DEF RecordStopped

----------------------------------------------------------------------------
(* The steps of a pass.                                                    *)
LEMMA PassIsRunner ==
  ASSUME IInv, NEW t \in Threads, call[t].at \in {"read", "asked"}
  PROVE  t = "runner" /\ R.kind = "reconcile"
  BY DEF Threads, IInv, Roles, R

LEMMA StatusFailsStep == ASSUME IInv, NEW t \in Threads, StatusFails(t) PROVE IInv'
<1>1. t = "runner" /\ R.at = "read"
  BY PassIsRunner DEF StatusFails, Thread, R
<1>2. call' \in [Threads -> CallRecord] /\ Pending' = 0
  BY <1>1, AfterEnds DEF StatusFails
<1>3. row' \in Row /\ row'.attempts = row.attempts
  BY DEF StatusFails, IInv, TypeOK, Row, Errors
<1>4. TypeOK'
  BY <1>2, <1>3 DEF IInv, TypeOK, StatusFails
<1>5. RowCounts'
  BY <1>1, <1>2, <1>3 DEF IInv, RowCounts, Pending, Launched, StatusFails
<1> QED
  BY <1>1, <1>4, <1>5, RunnerEnds DEF StatusFails

LEMMA StatusStep == ASSUME IInv, NEW t \in Threads, Status(t) PROVE IInv'
<1> DEFINE next == [call[t] EXCEPT !.at = "asked", !.found = unit]
<1>1. t = "runner" /\ R.at = "read" /\ R.kind = "reconcile"
  BY PassIsRunner DEF Status, Thread, R
<1>2. next \in CallRecord /\ call' = [call EXCEPT ![t] = next]
  BY DEF IInv, TypeOK, CallRecord, Status
<1>3. /\ call' \in [Threads -> CallRecord]
      /\ call'[t] = next
      /\ \A u \in Threads : u # t => call'[u] = call[u]
  BY <1>2, CallType DEF IInv, TypeOK
<1>4. TypeOK'
  BY <1>3 DEF IInv, TypeOK, Status
<1>5. call[t] \in CallRecord
  BY Numbers DEF IInv
<1>6. R'.at = "asked" /\ R'.kind = R.kind /\ R'.seen = R.seen
  BY <1>1, <1>3, <1>5 DEF CallRecord, R
<1>7. Roles'
  BY <1>1, <1>3, <1>6, RunnerRoles
<1>8. RowCounts' /\ SeenCounts' /\ ReadAgain' /\ Room'
  BY <1>1, <1>6 DEF IInv, RowCounts, SeenCounts, ReadAgain, Room, Pending, Launched, Status
<1> QED
  BY <1>4, <1>7, <1>8 DEF IInv

LEMMA ReconcileRunningStep ==
  ASSUME IInv, NEW t \in Threads, ReconcileRunning(t)
  PROVE  IInv'
<1>1. t = "runner" /\ R.at = "asked"
  BY PassIsRunner DEF ReconcileRunning, Thread, R
<1>2. call' \in [Threads -> CallRecord] /\ Pending' = 0
  BY <1>1, AfterEnds DEF ReconcileRunning
<1>3. PICK stable \in BOOLEAN :
        /\ row' = [row EXCEPT !.error = "none", !.started = TRUE,
             !.attempts = IF stable THEN 0 ELSE R.seen.attempts,
             !.retry = (IF stable THEN 0 ELSE R.seen.attempts) # 0 /\ R.seen.retry]
        /\ automatic' = IF stable THEN 0 ELSE automatic
  BY <1>1 DEF ReconcileRunning, R
<1>4. R \in CallRecord
  BY Numbers, RunnerIsThread DEF IInv, R
<1>5. /\ row'.attempts = IF stable THEN 0 ELSE R.seen.attempts
      /\ row' \in Row
  <2>1. (IF stable THEN 0 ELSE R.seen.attempts) \in 0 .. Limit
    BY Numbers DEF IInv
  <2>2. ((IF stable THEN 0 ELSE R.seen.attempts) # 0 /\ R.seen.retry) \in BOOLEAN
    OBVIOUS
  <2> QED
    BY <1>3, <2>1, <2>2 DEF IInv, TypeOK, Row, Errors
<1>6. TypeOK'
  BY <1>2, <1>3, <1>5, Numbers DEF IInv, TypeOK, ReconcileRunning
<1>7. RowCounts'
  BY <1>1, <1>2, <1>3, <1>5, Numbers
     DEF IInv, RowCounts, SeenCounts, Pending, Launched, ReconcileRunning
<1> QED
  BY <1>1, <1>6, <1>7, RunnerEnds DEF ReconcileRunning

LEMMA RestartStep == ASSUME IInv, NEW t \in Threads, Restart(t) PROVE IInv'
<1> DEFINE next == [call[t] EXCEPT !.at = "starting", !.found = "unknown",
                                   !.seen = [NewRow EXCEPT !.attempts = row.attempts]]
<1>1. t = "runner" /\ R.at = "asked" /\ R.kind = "reconcile" /\ R.seen.attempts < Limit
  BY PassIsRunner DEF Restart, MayRestart, Down, Thread, R
<1>2. [NewRow EXCEPT !.attempts = row.attempts] \in Row
  BY NewRowType, Numbers DEF IInv, Row
<1>3. call[t] \in CallRecord
  BY Numbers DEF IInv
<1>4. next \in CallRecord /\ call' = [call EXCEPT ![t] = next]
  BY <1>2, <1>3 DEF CallRecord, Units, Restart
<1>5. /\ call' \in [Threads -> CallRecord]
      /\ call'[t] = next
      /\ \A u \in Threads : u # t => call'[u] = call[u]
  BY <1>4, CallType DEF IInv, TypeOK
<1>6. TypeOK'
  BY <1>5 DEF IInv, TypeOK, Restart
<1>7. R'.at = "starting" /\ R'.kind = "reconcile" /\ R'.seen.attempts = row.attempts
  BY <1>1, <1>3, <1>5 DEF CallRecord, R, NewRow
<1>8. Roles'
  BY <1>1, <1>5, <1>7, RunnerRoles
<1>9. row.attempts < Limit
  BY <1>1, Numbers, LimitAssumption DEF IInv, ReadAgain
<1>10. RowCounts' /\ SeenCounts' /\ ReadAgain' /\ Room'
  BY <1>1, <1>7, <1>9 DEF IInv, RowCounts, SeenCounts, ReadAgain, Room, Pending, Launched, Restart
<1> QED
  BY <1>6, <1>8, <1>10 DEF IInv

LEMMA ReconcileDownStep == ASSUME IInv, NEW t \in Threads, ReconcileDown(t) PROVE IInv'
<1>1. t = "runner" /\ R.at = "asked"
  BY PassIsRunner DEF ReconcileDown, Down, Thread, R
<1>2. call' \in [Threads -> CallRecord] /\ Pending' = 0
  BY <1>1, AfterEnds DEF ReconcileDown
<1>3. row' \in Row /\ row'.attempts = row.attempts
  BY DEF ReconcileDown, IInv, TypeOK, Row, Errors
<1>4. TypeOK'
  BY <1>2, <1>3 DEF IInv, TypeOK, ReconcileDown
<1>5. RowCounts'
  BY <1>1, <1>2, <1>3 DEF IInv, RowCounts, Pending, Launched, ReconcileDown
<1> QED
  BY <1>1, <1>4, <1>5, RunnerEnds DEF ReconcileDown

----------------------------------------------------------------------------
(* What happens outside the calls.                                         *)
LEMMA WorkerSteps ==
  ASSUME IInv, WorkerExits \/ ContainerRemoved \/ UNCHANGED vars
  PROVE  IInv'
<1>1. UNCHANGED <<row, provider, call, requests, crashes, automatic>> /\ unit' \in Units
  BY DEF WorkerExits, ContainerRemoved, vars, IInv, TypeOK, Units
<1>2. TypeOK'
  BY <1>1 DEF IInv, TypeOK
<1>3. Roles' /\ RowCounts' /\ SeenCounts' /\ ReadAgain' /\ Room'
  BY <1>1 DEF IInv, Roles, Recovering, RowCounts, SeenCounts, ReadAgain, Room, R, Pending, Launched
<1> QED
  BY <1>2, <1>3 DEF IInv

(* A death hides the one restart that was launched and not written.        *)
LEMMA CrashStep == ASSUME IInv, Crash PROVE IInv'
<1>1. call' = [t \in Threads |-> NoCall]
  BY DEF Crash
<1>2. R' = NoCall /\ \A t \in ApiThreads : call'[t] = NoCall
  BY <1>1, RunnerIsThread DEF R, Threads
<1>3. call' \in [Threads -> CallRecord]
  BY <1>1, NoCallType
<1>4. crashes' \in 0 .. MaxCrashes /\ unit' \in Units /\ UNCHANGED <<row, provider, requests, automatic>>
  BY BoundsAssumption DEF Crash, IInv, TypeOK, Units
<1>5. TypeOK'
  BY <1>3, <1>4 DEF IInv, TypeOK
<1>6. Roles'
  BY <1>2 DEF Roles, Recovering, NoCall
<1>7. RowCounts' /\ SeenCounts' /\ ReadAgain' /\ Room'
  BY <1>2, <1>4, Numbers
     DEF IInv, RowCounts, SeenCounts, ReadAgain, Room, Pending, Launched, NoCall, Crash
<1> QED
  BY <1>5, <1>6, <1>7 DEF IInv

LEMMA StepKeepsInv ==
  ASSUME OperatorsStartAndStop, IInv, [Next]_vars
  PROVE  IInv'
<1>1. CASE \E t \in ApiThreads, kind \in ApiKinds : Request(t, kind)
  BY <1>1, RequestStep
<1>2. CASE Pass
  BY <1>2, PassStepInv
<1>3. ASSUME NEW t \in Threads,
             \/ Inspect(t) \/ Launch(t) \/ RecordStarted(t) \/ RecordRefused(t)
             \/ Halt(t) \/ RecordStopped(t)
             \/ StatusFails(t) \/ Status(t)
             \/ ReconcileRunning(t) \/ Restart(t) \/ ReconcileDown(t)
      PROVE  IInv'
  BY <1>3, InspectStep, LaunchStep, RecordStartedStep, RecordRefusedStep, HaltStep,
     RecordStoppedStep, StatusFailsStep, StatusStep, ReconcileRunningStep, RestartStep,
     ReconcileDownStep
<1>4. CASE WorkerExits \/ ContainerRemoved \/ UNCHANGED vars
  BY <1>4, WorkerSteps
<1>5. CASE Crash
  BY <1>5, CrashStep
<1> QED
  BY <1>1, <1>2, <1>3, <1>4, <1>5 DEF Next

(* In every state the row, or the pass under way, counts the restarts made *)
(* but for those a death of the control plane hid.                         *)
THEOREM Inductive == OperatorsStartAndStop /\ Spec => []IInv
<1> SUFFICES ASSUME OperatorsStartAndStop PROVE Spec => []IInv
  OBVIOUS
<1>1. IInv /\ [Next]_vars => IInv'
  BY StepKeepsInv
<1> QED
  BY <1>1, InitInv, PTL DEF Spec

(* The columns of a deployment's row stay in their ranges: the count of    *)
(* restart_attempts never passes the limit.                                *)
THEOREM TypeCorrect == OperatorsStartAndStop /\ Spec => []TypeOK
<1>1. IInv => TypeOK
  BY DEF IInv
<1> QED
  BY <1>1, Inductive, PTL

(* reconcile_worker_deployments never restarts a worker more often than    *)
(* the limit since an operator, or a stable run, cleared the count; but    *)
(* for one restart per death of the control plane.                         *)
THEOREM RestartBudget == OperatorsStartAndStop /\ Spec => []RestartsBounded
<1>1. IInv => RestartsBounded
  BY Numbers DEF IInv, RowCounts, SeenCounts, Room, Pending, Launched, RestartsBounded
<1> QED
  BY <1>1, Inductive, PTL
=============================================================================

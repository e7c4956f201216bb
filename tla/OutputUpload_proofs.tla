------------------------- MODULE OutputUpload_proofs -------------------------
(***************************************************************************)
(* Safety of the resumable output transfer, for any number of parts and of *)
(* overlapping finalize requests.  That a request works undisturbed is the *)
(* file lock's doing from its look at the recorded digest to its own       *)
(* record; outside the lock only the statuses of the session order things. *)
(***************************************************************************)
EXTENDS OutputUpload, TLAPS

(* One request at a time is between the look and the record.               *)
Exclusive ==
  \A c, d \in Calls :
    calls[c].at \in LockSteps /\ calls[d].at \in LockSteps => c = d

(* It found nothing recorded, and nothing has been recorded since.         *)
LockedUnrecorded ==
  \A c \in Calls : calls[c].at \in LockSteps => lease.archive = {}

StagedRecorded ==
  \A c \in Calls : calls[c].at = "staged" => lease.archive # {}

(* Whoever is about to remove the spool has closed the session.            *)
ReceiptClosed ==
  \A c \in Calls : calls[c].at = "receipt" => session.status \in {"finalized", "abandoned"}

(* No request or part finds an abandoned session and a lease to work for.  *)
AbandonedEnded == session.status = "abandoned" => lease.state = "ended"

(* Whoever is inside the lock has the token of the lease, and finds the    *)
(* staging area empty until it holds its own extraction and nothing else.  *)
OwnArea ==
  \A c \in Calls : calls[c].at \in LockSteps =>
    /\ calls[c].token = lease.token
    /\ calls[c].at = "locked" => candidate = {}
    /\ calls[c].at = "extracted" =>
         candidate # {} /\ \A x \in candidate : x.by = c /\ x.token = lease.token

IInv ==
  /\ TypeOK /\ AbandonedEnded /\ OwnArea
  /\ Exclusive /\ LockedUnrecorded /\ StagedRecorded /\ ReceiptClosed
  /\ FinalizedIsStaged /\ OpenSessionHasSpool

----------------------------------------------------------------------------
(* Where a request may go, from what it keeps of its record.               *)
LEMMA GoType ==
  ASSUME calls \in [Calls -> CallRecord], NEW c \in Calls, NEW r \in CallRecord, Go(c, r)
  PROVE  /\ calls' \in [Calls -> CallRecord]
         /\ calls'[c] = r
         /\ \A d \in Calls : d # c => calls'[d] = calls[d]
  BY DEF Go

LEMMA StepType ==
  ASSUME calls \in [Calls -> CallRecord], NEW c \in Calls, NEW at \in CallSteps, Step(c, at)
  PROVE  /\ calls' \in [Calls -> CallRecord]
         /\ calls'[c].at = at
         /\ \A d \in Calls : d # c => calls'[d] = calls[d]
  BY DEF Step, Go, CallRecord

LEMMA IdleType == Idle \in CallRecord
  BY MaxTokensAssumption DEF Idle, CallRecord, CallSteps, Tokens

(* The staging area, of steps by which no request enters or moves on in    *)
(* the lock.                                                               *)
LEMMA AreaRests ==
  ASSUME OwnArea, candidate' = candidate, lease'.token = lease.token,
         \A d \in Calls : calls'[d].at \in LockSteps => calls'[d] = calls[d]
  PROVE  OwnArea'
  BY DEF OwnArea

(* The initial states.                                                     *)
LEMMA InitInv == Init => IInv
<1> SUFFICES ASSUME Init PROVE IInv
  OBVIOUS
<1>1. TypeOK
  BY IdleType, MaxTokensAssumption
     DEF Init, TypeOK, Tokens, SessionStatuses, OpenStatuses
<1>2. Exclusive /\ LockedUnrecorded /\ StagedRecorded /\ ReceiptClosed
  BY DEF Init, Idle, Exclusive, LockedUnrecorded, StagedRecorded, ReceiptClosed, LockSteps
<1>3. FinalizedIsStaged /\ OpenSessionHasSpool /\ AbandonedEnded
  BY DEF Init, FinalizedIsStaged, OpenSessionHasSpool, AbandonedEnded, OpenStatuses
<1>4. OwnArea
  BY DEF Init, Idle, OwnArea, LockSteps
<1> QED
  BY <1>1, <1>2, <1>3, <1>4 DEF IInv

----------------------------------------------------------------------------
(* The steps of one request.  What each does to the other state is enough  *)
(* to decide every conjunct once the request's own record is known.        *)
LEMMA CallKeepsInv ==
  ASSUME IInv, NEW c \in Calls, CallStep(c) \/ Fail(c) \/ GiveUp(c)
  PROVE  IInv'
<1> USE DEF IInv, LockSteps, OpenStatuses
<1>0. TypeOK /\ calls \in [Calls -> CallRecord]
  BY DEF TypeOK
<1>a. AbandonedEnded'
  <2>1. CASE Begin(c)
    BY <2>1 DEF Begin, AbandonedEnded, TypeOK
  <2>2. CASE Finish(c)
    BY <2>2 DEF Finish, AbandonedEnded, TypeOK
  <2>3. CASE GiveUp(c)
    BY <2>3 DEF GiveUp, AbandonedEnded, TypeOK
  <2>4. CASE Record(c)
    BY <2>4 DEF Record, AbandonedEnded, TypeOK
  <2>5. CASE ~(Begin(c) \/ Finish(c) \/ GiveUp(c) \/ Record(c))
    <3>1. session' = session /\ lease' = lease
      BY <2>5 DEF CallStep, Open, Write, Replace, Digest, Lock, Extract, RemoveSpool, Fail
    <3> QED
      BY <3>1 DEF AbandonedEnded
  <2> QED
    BY <2>1, <2>2, <2>3, <2>4, <2>5
<1>1. CASE Begin(c)
  <2>1. lease.token \in Tokens
    BY DEF TypeOK
  <2>2. PICK at \in {"receipt", "begun"} :
          /\ Go(c, [Idle EXCEPT !.at = at, !.token = lease.token])
          /\ at = "receipt" => session'.status = "finalized" /\ lease.archive # {}
          /\ at = "begun" => session'.status = "assembling" /\ session.status \in OpenStatuses
          /\ session'.parts = session.parts
          /\ session' \in [status : SessionStatuses, parts : SUBSET Parts]
    BY <1>1 DEF Begin, Recorded, Assemblable, TypeOK, SessionStatuses, FinalizedIsStaged, AbandonedEnded
  <2>3. [Idle EXCEPT !.at = at, !.token = lease.token] \in CallRecord
    BY <2>1, <2>2, IdleType DEF CallRecord, CallSteps, TrySteps
  <2>4. /\ calls' \in [Calls -> CallRecord]
        /\ calls'[c].at = at
        /\ \A d \in Calls : d # c => calls'[d] = calls[d]
    <3>1. /\ calls' \in [Calls -> CallRecord]
          /\ calls'[c] = [Idle EXCEPT !.at = at, !.token = lease.token]
          /\ \A d \in Calls : d # c => calls'[d] = calls[d]
      BY <1>0, <2>2, <2>3, GoType
    <3>2. [Idle EXCEPT !.at = at, !.token = lease.token].at = at
      BY DEF Idle
    <3> QED
      BY <3>1, <3>2
  <2>5. TypeOK'
    BY <1>1, <2>2, <2>4 DEF Begin, TypeOK
  <2>6. (Exclusive /\ LockedUnrecorded /\ StagedRecorded)'
    BY <1>1, <2>2, <2>4 DEF Begin, Exclusive, LockedUnrecorded, StagedRecorded
  <2>7. (ReceiptClosed /\ FinalizedIsStaged /\ OpenSessionHasSpool)'
    BY <1>1, <2>2, <2>4 DEF Begin, ReceiptClosed, FinalizedIsStaged, OpenSessionHasSpool
  <2>8. OwnArea'
    BY <1>1, <2>2, <2>4, AreaRests DEF Begin
  <2> QED
    BY <1>a, <2>5, <2>6, <2>7, <2>8
<1>2. CASE Open(c)
  <2>1. PICK f \in Files :
          /\ content' = [content EXCEPT ![f] = {}]
          /\ spool' = [spool EXCEPT !.assembling = f]
          /\ Go(c, [calls[c] EXCEPT !.at = "writing", !.file = f])
    BY <1>2 DEF Open
  <2>2. [calls[c] EXCEPT !.at = "writing", !.file = f] \in CallRecord
    BY <1>0 DEF CallRecord, CallSteps, TrySteps
  <2>3. /\ calls' \in [Calls -> CallRecord]
        /\ calls'[c].at = "writing"
        /\ \A d \in Calls : d # c => calls'[d] = calls[d]
    <3>1. /\ calls' \in [Calls -> CallRecord]
          /\ calls'[c] = [calls[c] EXCEPT !.at = "writing", !.file = f]
          /\ \A d \in Calls : d # c => calls'[d] = calls[d]
      BY <1>0, <2>1, <2>2, GoType
    <3>2. [calls[c] EXCEPT !.at = "writing", !.file = f].at = "writing"
      BY <1>0 DEF CallRecord
    <3> QED
      BY <3>1, <3>2
  <2>4. TypeOK'
    BY <1>2, <2>1, <2>3 DEF Open, TypeOK
  <2>5. (Exclusive /\ LockedUnrecorded /\ StagedRecorded /\ ReceiptClosed)'
    BY <1>2, <2>3 DEF Open, Exclusive, LockedUnrecorded, StagedRecorded, ReceiptClosed
  <2>6. (FinalizedIsStaged /\ OpenSessionHasSpool)'
    BY <1>2, <2>1 DEF Open, FinalizedIsStaged, OpenSessionHasSpool, TypeOK
  <2>7. OwnArea'
    BY <1>2, <2>3, AreaRests DEF Open
  <2> QED
    BY <1>a, <2>4, <2>5, <2>6, <2>7
<1>3. CASE \E p \in Parts : Write(c, p)
  <2>1. PICK p \in Parts : Write(c, p)
    BY <1>3
  <2>2. [calls[c] EXCEPT !.done = @ \cup {p}] \in CallRecord
    BY <1>0 DEF CallRecord
  <2>3. /\ calls' \in [Calls -> CallRecord]
        /\ calls'[c].at = "writing"
        /\ \A d \in Calls : d # c => calls'[d] = calls[d]
    BY <1>0, <2>1, <2>2, GoType DEF Write, CallRecord
  <2>4. TypeOK'
    BY <2>1, <2>3 DEF Write, TypeOK
  <2>5. (Exclusive /\ LockedUnrecorded /\ StagedRecorded /\ ReceiptClosed)'
    BY <2>1, <2>3 DEF Write, Exclusive, LockedUnrecorded, StagedRecorded, ReceiptClosed
  <2>6. (FinalizedIsStaged /\ OpenSessionHasSpool)'
    BY <2>1 DEF Write, FinalizedIsStaged, OpenSessionHasSpool
  <2>7. OwnArea'
    BY <2>1, <2>3, AreaRests DEF Write
  <2> QED
    BY <1>a, <2>4, <2>5, <2>6, <2>7
<1>4. CASE Replace(c)
  <2>1. [calls[c] EXCEPT !.at = "replaced", !.file = NoFile, !.done = {}] \in CallRecord
    BY <1>0 DEF CallRecord, CallSteps, TrySteps
  <2>2. /\ calls' \in [Calls -> CallRecord]
        /\ calls'[c].at = "replaced"
        /\ \A d \in Calls : d # c => calls'[d] = calls[d]
    <3>1. /\ calls' \in [Calls -> CallRecord]
          /\ calls'[c] = [calls[c] EXCEPT !.at = "replaced", !.file = NoFile, !.done = {}]
          /\ \A d \in Calls : d # c => calls'[d] = calls[d]
      BY <1>0, <1>4, <2>1, GoType DEF Replace
    <3>2. [calls[c] EXCEPT !.at = "replaced", !.file = NoFile, !.done = {}].at = "replaced"
      BY <1>0 DEF CallRecord
    <3> QED
      BY <3>1, <3>2
  <2>3. TypeOK'
    BY <1>4, <2>2 DEF Replace, TypeOK
  <2>4. (Exclusive /\ LockedUnrecorded /\ StagedRecorded /\ ReceiptClosed)'
    BY <1>4, <2>2 DEF Replace, Exclusive, LockedUnrecorded, StagedRecorded, ReceiptClosed
  <2>5. (FinalizedIsStaged /\ OpenSessionHasSpool)'
    BY <1>4 DEF Replace, FinalizedIsStaged, OpenSessionHasSpool, TypeOK
  <2>6. OwnArea'
    BY <1>4, <2>2, AreaRests DEF Replace
  <2> QED
    BY <1>a, <2>3, <2>4, <2>5, <2>6
<1>5. CASE Digest(c)
  <2>1. content[spool.archive] \in SUBSET Parts
    BY <1>5 DEF Digest, TypeOK
  <2>2. [calls[c] EXCEPT !.at = "digested", !.digest = content[spool.archive]] \in CallRecord
    BY <1>0, <2>1 DEF CallRecord, CallSteps, TrySteps
  <2>3. /\ calls' \in [Calls -> CallRecord]
        /\ calls'[c].at = "digested"
        /\ \A d \in Calls : d # c => calls'[d] = calls[d]
    <3>1. /\ calls' \in [Calls -> CallRecord]
          /\ calls'[c] = [calls[c] EXCEPT !.at = "digested", !.digest = content[spool.archive]]
          /\ \A d \in Calls : d # c => calls'[d] = calls[d]
      BY <1>0, <1>5, <2>2, GoType DEF Digest
    <3>2. [calls[c] EXCEPT !.at = "digested", !.digest = content[spool.archive]].at = "digested"
      BY <1>0 DEF CallRecord
    <3> QED
      BY <3>1, <3>2
  <2>4. TypeOK'
    BY <1>5, <2>3 DEF Digest, TypeOK
  <2>5. (Exclusive /\ LockedUnrecorded /\ StagedRecorded /\ ReceiptClosed)'
    BY <1>5, <2>3 DEF Digest, Exclusive, LockedUnrecorded, StagedRecorded, ReceiptClosed
  <2>6. (FinalizedIsStaged /\ OpenSessionHasSpool)'
    BY <1>5 DEF Digest, FinalizedIsStaged, OpenSessionHasSpool
  <2>7. OwnArea'
    BY <1>5, <2>3, AreaRests DEF Digest
  <2> QED
    BY <1>a, <2>4, <2>5, <2>6, <2>7
<1>6. CASE Lock(c)
  <2>1. PICK at \in {"locked", "staged"} :
          /\ Step(c, at)
          /\ at = "locked" => lease.archive = {} /\ candidate' = {}
          /\ at = "staged" => lease.archive # {} /\ candidate' = candidate
    BY <1>6 DEF Lock
  <2>2. /\ calls' \in [Calls -> CallRecord]
        /\ calls'[c].at = at
        /\ \A d \in Calls : d # c => calls'[d] = calls[d]
    BY <1>0, <2>1, StepType DEF CallSteps, TrySteps
  <2>3. TypeOK'
    BY <1>6, <2>1, <2>2 DEF Lock, TypeOK
  <2>4. Exclusive'
    BY <1>6, <2>1, <2>2 DEF Lock, Unlocked, Exclusive
  <2>5. (LockedUnrecorded /\ StagedRecorded /\ ReceiptClosed)'
    BY <1>6, <2>1, <2>2 DEF Lock, LockedUnrecorded, StagedRecorded, ReceiptClosed
  <2>6. (FinalizedIsStaged /\ OpenSessionHasSpool)'
    BY <1>6 DEF Lock, FinalizedIsStaged, OpenSessionHasSpool
  <2>7. OwnArea'
    <3>1. calls'[c].token = calls[c].token /\ calls[c].token = lease.token /\ lease' = lease
      BY <1>0, <1>6, <2>1 DEF Lock, Authenticated, Step, Go, CallRecord
    <3>2. \A d \in Calls : d # c => calls'[d].at \notin LockSteps
      BY <1>6, <2>2 DEF Lock, Unlocked
    <3> QED
      BY <2>1, <2>2, <3>1, <3>2 DEF OwnArea
  <2> QED
    BY <1>a, <2>3, <2>4, <2>5, <2>6, <2>7
<1>7. CASE Extract(c)
  <2>1. /\ calls' \in [Calls -> CallRecord]
        /\ calls'[c].at = "extracted"
        /\ \A d \in Calls : d # c => calls'[d] = calls[d]
    BY <1>0, <1>7, StepType DEF Extract, CallSteps, TrySteps
  <2>2. TypeOK'
    <3>1. content[spool.archive] \subseteq Parts /\ calls[c].token \in Tokens
      BY <1>0, <1>7 DEF Extract, TypeOK, CallRecord
    <3>2. candidate' \subseteq Extracted
      BY <1>7, <3>1 DEF Extract, Extracted, TypeOK
    <3> QED
      BY <1>7, <2>1, <3>2 DEF Extract, TypeOK
  <2>3. (Exclusive /\ LockedUnrecorded /\ StagedRecorded /\ ReceiptClosed)'
    BY <1>7, <2>1 DEF Extract, Exclusive, LockedUnrecorded, StagedRecorded, ReceiptClosed
  <2>4. (FinalizedIsStaged /\ OpenSessionHasSpool)'
    BY <1>7 DEF Extract, FinalizedIsStaged, OpenSessionHasSpool
  <2>5. OwnArea'
    <3>1. /\ calls[c].token = lease.token /\ candidate = {}
          /\ calls'[c].token = calls[c].token /\ lease' = lease
      BY <1>0, <1>7 DEF Extract, Step, Go, CallRecord, OwnArea
    <3>2. /\ candidate' = [part : content[spool.archive], by : {c}, token : {lease.token}]
          /\ content[spool.archive] # {}
      BY <1>7, <3>1 DEF Extract
    <3>3. candidate' # {} /\ \A x \in candidate' : x.by = c /\ x.token = lease.token
      <4>1. PICK p \in content[spool.archive] : TRUE
        BY <3>2
      <4>2. [part |-> p, by |-> c, token |-> lease.token] \in candidate'
        BY <3>2, <4>1
      <4> QED
        BY <3>2, <4>2
    <3>4. \A d \in Calls : d # c => calls'[d].at \notin LockSteps
      BY <1>7, <2>1 DEF Extract, Exclusive
    <3> QED
      BY <2>1, <3>1, <3>3, <3>4 DEF OwnArea
  <2> QED
    BY <1>a, <2>2, <2>3, <2>4, <2>5
<1>8. CASE Record(c)
  <2>1. /\ calls' \in [Calls -> CallRecord]
        /\ calls'[c].at = "staged"
        /\ \A d \in Calls : d # c => calls'[d] = calls[d]
    BY <1>0, <1>8, StepType DEF Record, CallSteps
  <2>2. lease'.archive # {} /\ {calls[c].digest} \in SUBSET SUBSET Parts
    BY <1>0, <1>8 DEF Record, TypeOK, CallRecord
  <2>3. TypeOK'
    BY <1>8, <2>1, <2>2 DEF Record, TypeOK
  <2>4. (Exclusive /\ LockedUnrecorded)'
    BY <1>8, <2>1 DEF Record, Exclusive, LockedUnrecorded
  <2>5. (StagedRecorded /\ ReceiptClosed)'
    BY <1>8, <2>1, <2>2 DEF Record, StagedRecorded, ReceiptClosed
  <2>6. (FinalizedIsStaged /\ OpenSessionHasSpool)'
    BY <1>8, <2>2 DEF Record, FinalizedIsStaged, OpenSessionHasSpool
  <2>7. OwnArea'
    BY <1>8, <2>1, AreaRests DEF Record, TypeOK
  <2> QED
    BY <1>a, <2>3, <2>4, <2>5, <2>6, <2>7
<1>9. CASE Finish(c)
  <2>1. /\ calls' \in [Calls -> CallRecord]
        /\ calls'[c].at = "receipt"
        /\ \A d \in Calls : d # c => calls'[d] = calls[d]
    BY <1>0, <1>9, StepType DEF Finish, CallSteps
  <2>2. session'.status = "finalized" /\ session' \in [status : SessionStatuses, parts : SUBSET Parts]
    BY <1>9 DEF Finish, TypeOK, SessionStatuses
  <2>3. TypeOK'
    BY <1>9, <2>1, <2>2 DEF Finish, TypeOK
  <2>4. (Exclusive /\ LockedUnrecorded /\ StagedRecorded /\ ReceiptClosed)'
    BY <1>9, <2>1, <2>2 DEF Finish, Exclusive, LockedUnrecorded, StagedRecorded, ReceiptClosed
  <2>5. (FinalizedIsStaged /\ OpenSessionHasSpool)'
    BY <1>9, <2>2 DEF Finish, FinalizedIsStaged, OpenSessionHasSpool, StagedRecorded
  <2>6. OwnArea'
    BY <1>9, <2>1, AreaRests DEF Finish
  <2> QED
    BY <1>a, <2>3, <2>4, <2>5, <2>6
<1>10. CASE RemoveSpool(c)
  <2>1. /\ calls' \in [Calls -> CallRecord]
        /\ calls'[c].at = "idle"
        /\ \A d \in Calls : d # c => calls'[d] = calls[d]
    BY <1>0, <1>10, GoType, IdleType DEF RemoveSpool, Idle
  <2>2. TypeOK'
    BY <1>10, <2>1 DEF RemoveSpool, TypeOK, Removed
  <2>3. (Exclusive /\ LockedUnrecorded /\ StagedRecorded /\ ReceiptClosed)'
    BY <1>10, <2>1 DEF RemoveSpool, Exclusive, LockedUnrecorded, StagedRecorded, ReceiptClosed
  <2>4. (FinalizedIsStaged /\ OpenSessionHasSpool)'
    BY <1>10 DEF RemoveSpool, FinalizedIsStaged, OpenSessionHasSpool, ReceiptClosed
  <2>5. OwnArea'
    BY <1>10, <2>1, AreaRests DEF RemoveSpool
  <2> QED
    BY <1>a, <2>2, <2>3, <2>4, <2>5
<1>11. CASE Fail(c)
  <2>1. [Idle EXCEPT !.at = "failed", !.token = calls[c].token] \in CallRecord
    BY <1>0, IdleType DEF CallRecord, CallSteps
  <2>2. /\ calls' \in [Calls -> CallRecord]
        /\ calls'[c].at = "failed"
        /\ \A d \in Calls : d # c => calls'[d] = calls[d]
    BY <1>0, <1>11, <2>1, GoType, IdleType DEF Fail, CallRecord
  <2>3. TypeOK'
    BY <1>11, <2>2 DEF Fail, TypeOK
  <2>4. (Exclusive /\ LockedUnrecorded /\ StagedRecorded /\ ReceiptClosed)'
    BY <1>11, <2>2 DEF Fail, Exclusive, LockedUnrecorded, StagedRecorded, ReceiptClosed
  <2>5. (FinalizedIsStaged /\ OpenSessionHasSpool)'
    BY <1>11 DEF Fail, FinalizedIsStaged, OpenSessionHasSpool
  <2>6. OwnArea'
    <3>1. CASE calls[c].at \in LockSteps
      BY <2>2, <3>1 DEF Exclusive, OwnArea
    <3>2. CASE calls[c].at \notin LockSteps
      BY <1>11, <2>2, <3>2, AreaRests DEF Fail
    <3> QED
      BY <3>1, <3>2
  <2> QED
    BY <1>a, <2>3, <2>4, <2>5, <2>6
<1>12. CASE GiveUp(c)
  <2>1. /\ calls' \in [Calls -> CallRecord]
        /\ calls'[c].at = "idle"
        /\ \A d \in Calls : d # c => calls'[d] = calls[d]
    BY <1>0, <1>12, GoType, IdleType DEF GiveUp, Idle
  <2>2. /\ session' \in [status : SessionStatuses, parts : SUBSET Parts]
        /\ session'.status \in OpenStatuses => session.status \in OpenStatuses
        /\ session'.status = "finalized" => session.status = "finalized"
        /\ session.status \in {"finalized", "abandoned"} => session'.status = session.status
        /\ spool'.exists = spool.exists
    BY <1>12 DEF GiveUp, TypeOK, SessionStatuses
  <2>3. TypeOK'
    BY <1>12, <2>1, <2>2 DEF GiveUp, TypeOK
  <2>4. (Exclusive /\ LockedUnrecorded /\ StagedRecorded)'
    BY <1>12, <2>1 DEF GiveUp, Exclusive, LockedUnrecorded, StagedRecorded
  <2>5. (ReceiptClosed /\ FinalizedIsStaged /\ OpenSessionHasSpool)'
    BY <1>12, <2>1, <2>2 DEF GiveUp, ReceiptClosed, FinalizedIsStaged, OpenSessionHasSpool
  <2>6. OwnArea'
    BY <1>12, <2>1, AreaRests DEF GiveUp
  <2> QED
    BY <1>a, <2>3, <2>4, <2>5, <2>6
<1> QED
  BY <1>1, <1>2, <1>3, <1>4, <1>5, <1>6, <1>7, <1>8, <1>9, <1>10, <1>11, <1>12 DEF CallStep

(* Steps that touch no request: sessions, leases, the sweep.               *)
LEMMA OutsideKeepsInv ==
  ASSUME IInv, Create \/ (\E p \in Parts : PutPart(p)) \/ LeaseStep \/ Sweep
  PROVE  IInv'
<1> USE DEF IInv, LockSteps, OpenStatuses
<1>1. calls' = calls /\ content' = content /\ candidate' = candidate /\ lease'.archive = lease.archive
  BY DEF Create, PutPart, LeaseStep, Defer, Resume, Expire, Fence, Close, Sweep, TypeOK
<1>2. (Exclusive /\ LockedUnrecorded /\ StagedRecorded)'
  BY <1>1 DEF Exclusive, LockedUnrecorded, StagedRecorded
<1>3. /\ session' \in [status : SessionStatuses, parts : SUBSET Parts]
      /\ session.status \in {"finalized", "abandoned"}
           => session'.status \in {"finalized", "abandoned"}
      /\ session'.status = "finalized" => session.status = "finalized"
  <2>1. CASE \E p \in Parts : PutPart(p)
    BY <2>1 DEF PutPart, TypeOK, SessionStatuses, AbandonedEnded
  <2>2. CASE Create \/ LeaseStep \/ Sweep
    BY <2>2 DEF Create, LeaseStep, Defer, Resume, Expire, Fence, Close, Sweep, TypeOK, SessionStatuses
  <2> QED
    BY <2>1, <2>2
<1>a. AbandonedEnded'
  <2>1. CASE Create \/ (\E p \in Parts : PutPart(p)) \/ Sweep
    BY <2>1 DEF Create, PutPart, Sweep, AbandonedEnded, TypeOK
  <2>2. CASE LeaseStep
    BY <2>2 DEF LeaseStep, Defer, Resume, Expire, Fence, Close, AbandonedEnded, TypeOK
  <2> QED
    BY <2>1, <2>2
<1>4. (ReceiptClosed /\ FinalizedIsStaged)'
  BY <1>1, <1>3 DEF ReceiptClosed, FinalizedIsStaged
<1>5. OpenSessionHasSpool'
  <2>1. CASE Create
    BY <2>1 DEF Create, OpenSessionHasSpool, TypeOK
  <2>2. CASE \E p \in Parts : PutPart(p)
    BY <2>2 DEF PutPart, OpenSessionHasSpool, TypeOK
  <2>3. CASE LeaseStep
    BY <2>3 DEF LeaseStep, Defer, Resume, Expire, Fence, Close, OpenSessionHasSpool, TypeOK
  <2>4. CASE Sweep
    BY <2>4 DEF Sweep, OpenSessionHasSpool
  <2> QED
    BY <2>1, <2>2, <2>3, <2>4
<1>6. lease' \in [state : {"active", "deferred", "ended"}, token : Tokens,
                  archive : SUBSET SUBSET Parts]
  <2>1. CASE Resume
    <3>1. lease.token \in Nat /\ lease.token >= 1 /\ lease.token < MaxTokens
      BY <2>1, MaxTokensAssumption DEF Resume, TypeOK, Tokens
    <3>2. lease.token + 1 \in Tokens
      BY <3>1, MaxTokensAssumption DEF Tokens
    <3> QED
      BY <2>1, <3>2 DEF Resume, TypeOK
  <2>2. CASE ~Resume
    BY <2>2 DEF Create, PutPart, LeaseStep, Defer, Expire, Fence, Close, Sweep, TypeOK
  <2> QED
    BY <2>1, <2>2
<1>7. spool' \in [exists : BOOLEAN, assembling : Files \cup {NoFile},
                  archive : Files \cup {NoFile}]
  <2>1. CASE Create
    BY <2>1 DEF Create, TypeOK
  <2>2. CASE Sweep
    BY <2>2 DEF Sweep, Removed, TypeOK
  <2>3. CASE (\E p \in Parts : PutPart(p)) \/ LeaseStep
    BY <2>3 DEF PutPart, LeaseStep, Defer, Resume, Expire, Fence, Close, TypeOK
  <2> QED
    BY <2>1, <2>2, <2>3
<1>8. TypeOK'
  BY <1>1, <1>3, <1>6, <1>7 DEF TypeOK
<1>9. OwnArea'
  <2>1. CASE Resume
    BY <1>1, <2>1 DEF Resume, Unlocked, OwnArea
  <2>2. CASE ~Resume
    <3>1. lease'.token = lease.token
      BY <2>2 DEF Create, PutPart, LeaseStep, Defer, Expire, Fence, Close, Sweep, TypeOK
    <3> QED
      BY <1>1, <3>1, AreaRests
  <2> QED
    BY <2>1, <2>2
<1> QED
  BY <1>a, <1>2, <1>4, <1>5, <1>8, <1>9

LEMMA CrashKeepsInv ==
  ASSUME IInv, Crash
  PROVE  IInv'
<1>1. TypeOK'
  BY IdleType DEF IInv, Crash, TypeOK
<1>2. \A c \in Calls : calls'[c].at = "idle"
  BY DEF Crash, Idle
<1>3. (Exclusive /\ LockedUnrecorded /\ StagedRecorded /\ ReceiptClosed /\ OwnArea)'
  BY <1>2 DEF Exclusive, LockedUnrecorded, StagedRecorded, ReceiptClosed, OwnArea, LockSteps
<1>4. (FinalizedIsStaged /\ OpenSessionHasSpool /\ AbandonedEnded)'
  BY DEF IInv, Crash, FinalizedIsStaged, OpenSessionHasSpool, AbandonedEnded
<1> QED
  BY <1>1, <1>3, <1>4 DEF IInv

LEMMA NextKeepsInv == IInv /\ [Next]_vars => IInv'
<1> SUFFICES ASSUME IInv, [Next]_vars PROVE IInv'
  OBVIOUS
<1>1. CASE \E c \in Calls : CallStep(c) \/ Fail(c) \/ GiveUp(c)
  BY <1>1, CallKeepsInv
<1>2. CASE Create \/ (\E p \in Parts : PutPart(p)) \/ LeaseStep \/ Sweep
  BY <1>2, OutsideKeepsInv
<1>3. CASE Crash
  BY <1>3, CrashKeepsInv
<1>4. CASE UNCHANGED vars
  BY <1>4 DEF vars, IInv, TypeOK, Exclusive, LockedUnrecorded, StagedRecorded,
              ReceiptClosed, FinalizedIsStaged, OpenSessionHasSpool, AbandonedEnded, OwnArea
<1> QED
  BY <1>1, <1>2, <1>3, <1>4 DEF Next

(* The inductive invariant holds of every behaviour of the transfer.       *)
THEOREM Inductive == Spec => []IInv
  BY InitInv, NextKeepsInv, PTL DEF Spec

(* Every part of the state keeps its type.                                 *)
THEOREM TypeCorrect == Spec => []TypeOK
  BY Inductive, PTL DEF IInv

(* An open session never loses its spool directory to a request that ends. *)
THEOREM SpoolKept == Spec => []OpenSessionHasSpool
  BY Inductive, PTL DEF IInv

(* A session reads finalized only once a digest is recorded.               *)
THEOREM FinalizedStaged == Spec => []FinalizedIsStaged
  BY Inductive, PTL DEF IInv

----------------------------------------------------------------------------
(* Who changes the staging area or the recorded digest.                    *)
LEMMA StagingSteps ==
  ASSUME IInv, [Next]_vars
  PROVE  \/ lease'.archive = lease.archive /\ candidate' = candidate
         \/ /\ lease'.archive = lease.archive /\ lease.archive = {}
            /\ \E c \in Calls : Lock(c) \/ Extract(c) \/ Fail(c)
         \/ lease.archive = {} /\ candidate' = candidate /\ \E c \in Calls : Record(c)
<1> USE DEF IInv, LockSteps
<1>1. CASE \E c \in Calls : Lock(c) \/ Extract(c) \/ Fail(c)
  <2>1. PICK c \in Calls : Lock(c) \/ Extract(c) \/ Fail(c)
    BY <1>1
  <2>2. lease' = lease
    BY <2>1 DEF Lock, Extract, Fail
  <2>3. candidate' = candidate \/ lease.archive = {}
    BY <2>1 DEF Lock, Extract, Fail, LockedUnrecorded
  <2> QED
    BY <2>1, <2>2, <2>3
<1>2. CASE \E c \in Calls : Record(c)
  BY <1>2 DEF Record
<1>3. CASE \E c \in Calls : \/ Begin(c) \/ Open(c) \/ \E p \in Parts : Write(c, p)
                            \/ Replace(c) \/ Digest(c) \/ Finish(c) \/ RemoveSpool(c)
                            \/ GiveUp(c)
  BY <1>3 DEF Begin, Open, Write, Replace, Digest, Finish, RemoveSpool, GiveUp
<1>4. CASE Create \/ (\E p \in Parts : PutPart(p)) \/ Sweep \/ Crash \/ UNCHANGED vars
  BY <1>4 DEF Create, PutPart, Sweep, Crash, vars
<1>5. CASE LeaseStep
  BY <1>5 DEF LeaseStep, Defer, Resume, Expire, Fence, Close, TypeOK
<1> QED
  BY <1>1, <1>2, <1>3, <1>4, <1>5 DEF Next, CallStep

(* Recorded output is final: nothing touches the digest or what is staged. *)
THEOREM StagedStays == Spec => StagedOutputIsFinal
<1>1. IInv /\ [Next]_vars
        => (lease.archive # {} => lease'.archive = lease.archive /\ candidate' = candidate)
  BY StagingSteps
<1> QED
  BY <1>1, Inductive, PTL DEF Spec, StagedOutputIsFinal

(* The recorded archive is the recording request's own extraction, whole   *)
(* and alone, under the token the lease has at that moment.                *)
THEOREM OwnExtraction == Spec => RecordedIsOwnExtraction
<1>1. IInv /\ [Next]_vars =>
        (lease'.archive # lease.archive =>
           \E c \in Calls :
             /\ lease'.archive = {calls[c].digest}
             /\ candidate' # {}
             /\ \A x \in candidate' : x.by = c /\ x.token = lease'.token)
  <2> SUFFICES ASSUME IInv, [Next]_vars, lease'.archive # lease.archive
               PROVE  \E c \in Calls :
                        /\ lease'.archive = {calls[c].digest}
                        /\ candidate' # {}
                        /\ \A x \in candidate' : x.by = c /\ x.token = lease'.token
    OBVIOUS
  <2>1. PICK c \in Calls : Record(c)
    BY StagingSteps
  <2>2. /\ lease'.archive = {calls[c].digest} /\ lease'.token = lease.token
        /\ candidate' = candidate /\ calls[c].at = "extracted"
    BY <2>1 DEF Record, IInv, TypeOK
  <2>3. candidate # {} /\ \A x \in candidate : x.by = c /\ x.token = lease.token
    BY <2>2 DEF IInv, OwnArea, LockSteps
  <2> QED
    BY <2>2, <2>3
<1> QED
  BY <1>1, Inductive, PTL DEF Spec, RecordedIsOwnExtraction

----------------------------------------------------------------------------
(* The archive is the declared one, unless two requests write at once.     *)

(* No two requests copy parts at the same time.                            *)
OneWriter ==
  \A c, d \in Calls : calls[c].at = "writing" /\ calls[d].at = "writing" => c = d

(* Then whoever writes has the file under the name "assembling", if that   *)
(* name is still there, holds in it what it has written, and is not at     *)
(* work on the file under the name "archive".                              *)
WriterOwnsFile ==
  \A c \in Calls : calls[c].at = "writing" =>
    /\ calls[c].file \in Files /\ calls[c].file # spool.archive
    /\ spool.assembling \in {NoFile, calls[c].file}
    /\ content[calls[c].file] = calls[c].done

NothingWritten == \A c \in Calls : calls[c].at = "begun" => calls[c].done = {}

ArchiveWhole ==
  spool.archive # NoFile =>
    /\ content[spool.archive] = Parts
    /\ spool.assembling # spool.archive

DigestDeclared ==
  \A c \in Calls : calls[c].at \in {"digested", "locked", "extracted"}
                     => calls[c].digest = Parts

RecordedDeclared == lease.archive \subseteq {Parts}

WholeInv ==
  /\ WriterOwnsFile /\ NothingWritten /\ ArchiveWhole
  /\ DigestDeclared /\ RecordedDeclared

(* Of a request that goes on, its record and those of the others.          *)
LEMMA StepRecord ==
  ASSUME TypeOK, NEW c \in Calls, NEW at \in CallSteps, Step(c, at)
  PROVE  /\ calls'[c].at = at /\ calls'[c].file = calls[c].file
         /\ calls'[c].done = calls[c].done /\ calls'[c].digest = calls[c].digest
         /\ \A d \in Calls : d # c => calls'[d] = calls[d]
BY DEF Step, Go, TypeOK, CallRecord

LEMMA InitWhole == Init => WholeInv
BY DEF Init, Idle, WholeInv, WriterOwnsFile, NothingWritten, ArchiveWhole,
       DigestDeclared, RecordedDeclared

(* The steps that touch neither a file nor its names.                      *)
LEMMA FilesRest ==
  ASSUME WholeInv, UNCHANGED <<spool, content>>,
         \A c \in Calls : calls'[c].at = "writing" => calls'[c] = calls[c],
         NothingWritten', DigestDeclared', RecordedDeclared'
  PROVE  WholeInv'
BY DEF WholeInv, WriterOwnsFile, ArchiveWhole

LEMMA WholeRequest ==
  ASSUME TypeOK, WholeInv, NEW c \in Calls,
         \/ Begin(c) \/ Digest(c) \/ Lock(c) \/ Extract(c) \/ Record(c)
         \/ Finish(c) \/ Fail(c)
  PROVE  WholeInv'
<1> USE DEF WholeInv
<1>1. CASE Begin(c)
  <2>1. PICK r \in {[Idle EXCEPT !.at = "receipt", !.token = lease.token],
                    [Idle EXCEPT !.at = "begun", !.token = lease.token]} : Go(c, r)
    BY <1>1 DEF Begin
  <2>2. r.at \in {"receipt", "begun"} /\ r.done = {}
    BY <2>1 DEF Idle
  <2>3. calls'[c] = r /\ \A d \in Calls : d # c => calls'[d] = calls[d]
    BY <2>1 DEF Go, TypeOK
  <2>4. NothingWritten' /\ DigestDeclared'
    BY <2>2, <2>3 DEF NothingWritten, DigestDeclared
  <2>5. UNCHANGED <<spool, content>> /\ RecordedDeclared'
    BY <1>1 DEF Begin, RecordedDeclared
  <2> QED
    BY <2>2, <2>3, <2>4, <2>5, FilesRest
<1>2. CASE Digest(c)
  <2> DEFINE r == [calls[c] EXCEPT !.at = "digested", !.digest = content[spool.archive]]
  <2>1. Go(c, r) /\ spool.archive # NoFile /\ UNCHANGED <<lease, spool, content>>
    BY <1>2 DEF Digest
  <2>2. r.at = "digested" /\ r.digest = Parts
    BY <2>1 DEF TypeOK, CallRecord, ArchiveWhole
  <2>3. calls'[c] = r /\ \A d \in Calls : d # c => calls'[d] = calls[d]
    BY <2>1 DEF Go, TypeOK
  <2> HIDE DEF r
  <2>4. NothingWritten' /\ DigestDeclared' /\ RecordedDeclared'
    BY <2>1, <2>2, <2>3 DEF NothingWritten, DigestDeclared, RecordedDeclared
  <2> QED
    BY <2>1, <2>2, <2>3, <2>4, FilesRest
<1>3. CASE Lock(c) \/ Extract(c) \/ Record(c) \/ Finish(c)
  <2>1. PICK at \in {"locked", "staged", "extracted", "receipt"} : Step(c, at)
    BY <1>3 DEF Lock, Extract, Record, Finish
  <2>2. /\ calls[c].at \in {"digested", "locked", "extracted", "staged"}
        /\ at \in {"locked", "extracted"} => calls[c].at \in {"digested", "locked"}
    <3>1. CASE Lock(c)
      BY <2>1, <3>1 DEF Lock
    <3>2. CASE Extract(c)
      BY <2>1, <3>2 DEF Extract
    <3>3. CASE Record(c) \/ Finish(c)
      <4>1. calls'[c].at \in {"staged", "receipt"}
        <5>1. Step(c, "staged") \/ Step(c, "receipt")
          BY <3>3 DEF Record, Finish
        <5> QED
          BY <5>1, StepRecord DEF CallSteps
      <4>2. calls'[c].at = at
        BY <2>1, StepRecord DEF CallSteps, TrySteps, LockSteps
      <4> QED
        BY <3>3, <4>1, <4>2 DEF Record, Finish
    <3> QED
      BY <1>3, <3>1, <3>2, <3>3
  <2>3. /\ calls'[c].at = at /\ calls'[c].digest = calls[c].digest
        /\ \A d \in Calls : d # c => calls'[d] = calls[d]
    BY <2>1, StepRecord DEF CallSteps, TrySteps, LockSteps
  <2>4. UNCHANGED <<spool, content>>
    BY <1>3 DEF Lock, Extract, Record, Finish
  <2>5. NothingWritten' /\ DigestDeclared'
    BY <2>1, <2>2, <2>3 DEF NothingWritten, DigestDeclared
  <2>6. RecordedDeclared'
    <3>1. CASE Record(c)
      BY <3>1 DEF Record, RecordedDeclared, DigestDeclared, TypeOK
    <3>2. CASE Lock(c) \/ Extract(c) \/ Finish(c)
      BY <3>2 DEF Lock, Extract, Finish, RecordedDeclared
    <3> QED
      BY <1>3, <3>1, <3>2
  <2> QED
    BY <2>1, <2>3, <2>4, <2>5, <2>6, FilesRest
<1>4. CASE Fail(c)
  <2> DEFINE r == [Idle EXCEPT !.at = "failed", !.token = calls[c].token]
  <2>1. Go(c, r) /\ UNCHANGED <<lease, spool, content>> /\ r.at = "failed"
    BY <1>4 DEF Fail, Idle
  <2>2. calls'[c] = r /\ \A d \in Calls : d # c => calls'[d] = calls[d]
    BY <2>1 DEF Go, TypeOK
  <2> HIDE DEF r
  <2>3. NothingWritten' /\ DigestDeclared' /\ RecordedDeclared'
    BY <2>1, <2>2 DEF NothingWritten, DigestDeclared, RecordedDeclared
  <2> QED
    BY <2>1, <2>2, <2>3, FilesRest
<1> QED
  BY <1>1, <1>2, <1>3, <1>4

(* Opening the file empties what another request may be writing, which is  *)
(* what OneWriter excludes.                                                *)
LEMMA WholeOpen ==
  ASSUME TypeOK, WholeInv, OneWriter', NEW c \in Calls, Open(c)
  PROVE  WholeInv'
<1>1. PICK f \in Files :
        /\ IF spool.assembling = NoFile THEN Unused(f) ELSE f = spool.assembling
        /\ content' = [content EXCEPT ![f] = {}]
        /\ spool' = [spool EXCEPT !.assembling = f]
        /\ Go(c, [calls[c] EXCEPT !.at = "writing", !.file = f])
  BY DEF Open
<1> DEFINE r == [calls[c] EXCEPT !.at = "writing", !.file = f]
<1>2. /\ r.at = "writing" /\ r.file = f /\ r.done = {}
      /\ calls'[c] = r /\ \A d \in Calls : d # c => calls'[d] = calls[d]
  BY <1>1 DEF Go, TypeOK, CallRecord, WholeInv, NothingWritten, Open
<1> HIDE DEF r
<1>3. /\ spool'.assembling = f /\ spool'.archive = spool.archive /\ f # spool.archive
      /\ f # NoFile
  BY <1>1, FilesAssumption DEF TypeOK, Unused, WholeInv, ArchiveWhole
<1>4. content'[f] = {} /\ \A g \in Files : g # f => content'[g] = content[g]
  BY <1>1 DEF TypeOK
<1>5. WriterOwnsFile'
  <2>1. \A d \in Calls : calls'[d].at = "writing" => d = c
    BY <1>2 DEF OneWriter
  <2> QED
    BY <1>2, <1>3, <1>4, <2>1 DEF WriterOwnsFile
<1>6. NothingWritten' /\ DigestDeclared'
  BY <1>2 DEF WholeInv, NothingWritten, DigestDeclared
<1>7. ArchiveWhole'
  BY <1>3, <1>4 DEF WholeInv, ArchiveWhole, TypeOK
<1>8. RecordedDeclared'
  BY DEF Open, WholeInv, RecordedDeclared
<1> QED
  BY <1>5, <1>6, <1>7, <1>8 DEF WholeInv

LEMMA WholeWrite ==
  ASSUME TypeOK, WholeInv, OneWriter, NEW c \in Calls, NEW p \in Parts, Write(c, p)
  PROVE  WholeInv'
<1> DEFINE f == calls[c].file
           r == [calls[c] EXCEPT !.done = @ \cup {p}]
<1>1. /\ calls[c].at = "writing" /\ f \in Files /\ f # spool.archive
      /\ spool.assembling \in {NoFile, f} /\ content[f] = calls[c].done
  BY DEF Write, WholeInv, WriterOwnsFile
<1>2. /\ r.at = "writing" /\ r.file = f /\ r.done = calls[c].done \cup {p}
      /\ calls'[c] = r /\ \A d \in Calls : d # c => calls'[d] = calls[d]
  BY <1>1 DEF Write, Go, TypeOK, CallRecord
<1> HIDE DEF r
<1>3. /\ spool' = spool /\ lease' = lease
      /\ content'[f] = content[f] \cup {p}
      /\ \A g \in Files : g # f => content'[g] = content[g]
  BY <1>1 DEF Write, TypeOK
<1>4. WriterOwnsFile'
  <2>1. \A d \in Calls : calls'[d].at = "writing" => d = c
    BY <1>1, <1>2 DEF OneWriter
  <2> QED
    BY <1>1, <1>2, <1>3, <2>1 DEF WriterOwnsFile
<1>5. NothingWritten' /\ DigestDeclared' /\ RecordedDeclared'
  BY <1>2, <1>3 DEF WholeInv, NothingWritten, DigestDeclared, RecordedDeclared
<1>6. ArchiveWhole'
  BY <1>1, <1>3 DEF WholeInv, ArchiveWhole, TypeOK
<1> QED
  BY <1>4, <1>5, <1>6 DEF WholeInv

LEMMA WholeReplace ==
  ASSUME TypeOK, WholeInv, OneWriter, NEW c \in Calls, Replace(c)
  PROVE  WholeInv'
<1> DEFINE r == [calls[c] EXCEPT !.at = "replaced", !.file = NoFile, !.done = {}]
           f == spool.assembling
<1>1. /\ calls[c].at = "writing" /\ f = calls[c].file /\ f \in Files
      /\ content[f] = Parts
  BY DEF Replace, WholeInv, WriterOwnsFile
<1>2. /\ r.at = "replaced"
      /\ calls'[c] = r /\ \A d \in Calls : d # c => calls'[d] = calls[d]
  BY DEF Replace, Go, TypeOK, CallRecord
<1> HIDE DEF r
<1>3. spool'.archive = f /\ spool'.assembling = NoFile /\ content' = content /\ lease' = lease
  BY DEF Replace, TypeOK
<1>4. WriterOwnsFile'
  BY <1>1, <1>2 DEF OneWriter, WriterOwnsFile
<1>5. NothingWritten' /\ DigestDeclared' /\ RecordedDeclared'
  BY <1>2, <1>3 DEF WholeInv, NothingWritten, DigestDeclared, RecordedDeclared
<1>6. ArchiveWhole'
  BY <1>1, <1>3, FilesAssumption DEF ArchiveWhole
<1> QED
  BY <1>4, <1>5, <1>6 DEF WholeInv

(* A name is dropped, or the whole spool.                                  *)
LEMMA WholeDrop ==
  ASSUME TypeOK, WholeInv,
         \/ spool' = [spool EXCEPT !.assembling = NoFile]
         \/ spool' = Removed,
         \/ calls' = calls
         \/ \E c \in Calls : Go(c, Idle),
         UNCHANGED <<lease, content>>
  PROVE  WholeInv'
<1>1. /\ spool'.assembling = NoFile
      /\ spool'.archive \in {NoFile, spool.archive}
  BY DEF TypeOK, Removed
<1>2. \A c \in Calls : calls'[c] = calls[c] \/ calls'[c].at = "idle"
  BY DEF Go, Idle, TypeOK
<1>3. WriterOwnsFile'
  BY <1>1, <1>2, FilesAssumption DEF WholeInv, WriterOwnsFile
<1>4. NothingWritten' /\ DigestDeclared' /\ RecordedDeclared'
  BY <1>2 DEF WholeInv, NothingWritten, DigestDeclared, RecordedDeclared
<1>5. ArchiveWhole'
  BY <1>1 DEF WholeInv, ArchiveWhole
<1> QED
  BY <1>3, <1>4, <1>5 DEF WholeInv

LEMMA NextKeepsWhole ==
  ASSUME TypeOK, WholeInv, OneWriter, OneWriter', [Next]_vars
  PROVE  WholeInv'
<1>1. ASSUME NEW c \in Calls, CallStep(c) \/ Fail(c) \/ GiveUp(c)
      PROVE  WholeInv'
  <2>1. CASE RemoveSpool(c)
    BY <2>1, WholeDrop DEF RemoveSpool
  <2>2. CASE GiveUp(c)
    BY <2>2, WholeDrop DEF GiveUp
  <2> QED
    BY <1>1, <2>1, <2>2, WholeRequest, WholeOpen, WholeWrite, WholeReplace DEF CallStep
<1>2. CASE Sweep
  BY <1>2, WholeDrop DEF Sweep
<1>3. CASE LeaseStep \/ (\E p \in Parts : PutPart(p)) \/ UNCHANGED vars
  <2>1. UNCHANGED <<spool, content, calls>> /\ lease'.archive = lease.archive
    BY <1>3 DEF LeaseStep, Defer, Resume, Expire, Fence, Close, PutPart, vars, TypeOK
  <2> QED
    BY <2>1 DEF WholeInv, WriterOwnsFile, NothingWritten, ArchiveWhole, DigestDeclared,
                RecordedDeclared
<1>4. CASE Create
  <2>1. /\ UNCHANGED <<lease, content, calls>>
        /\ spool'.assembling = spool.assembling /\ spool'.archive = spool.archive
    BY <1>4 DEF Create, TypeOK
  <2> QED
    BY <2>1 DEF WholeInv, WriterOwnsFile, NothingWritten, ArchiveWhole, DigestDeclared,
                RecordedDeclared
<1>5. CASE Crash
  <2>1. UNCHANGED <<lease, spool, content>> /\ \A c \in Calls : calls'[c].at = "idle"
    BY <1>5 DEF Crash, Idle
  <2> QED
    BY <2>1 DEF WholeInv, WriterOwnsFile, NothingWritten, ArchiveWhole, DigestDeclared,
                RecordedDeclared
<1> QED
  BY <1>1, <1>2, <1>3, <1>4, <1>5 DEF Next

(* However many requests overlap, fail, are repeated or cut off by a       *)
(* crash: a session reads finalized only for the declared archive, as long *)
(* as no two of them copy parts at the same time.                          *)
THEOREM DeclaredUnlessOverlap == Spec /\ []OneWriter => []FinalizedIsDeclared
<1>1. IInv /\ WholeInv => FinalizedIsDeclared
  BY DEF IInv, WholeInv, RecordedDeclared, FinalizedIsStaged, FinalizedIsDeclared
<1>2. IInv /\ WholeInv /\ OneWriter /\ OneWriter' /\ [Next]_vars => WholeInv'
  BY NextKeepsWhole DEF IInv
<1> QED
  BY InitWhole, <1>1, <1>2, Inductive, PTL DEF Spec

(* One request at a time, interrupted anywhere and repeated: what the      *)
(* comment in finalize_worker_output_upload says is so.                    *)
OneRequest == \A c, d \in Calls : c = d

THEOREM FinalizedDeclared == OneRequest /\ Spec => []FinalizedIsDeclared
<1> SUFFICES ASSUME OneRequest
             PROVE  Spec => []FinalizedIsDeclared
  OBVIOUS
<1>1. OneWriter
  BY DEF OneRequest, OneWriter
<1> QED
  BY <1>1, DeclaredUnlessOverlap, PTL
=============================================================================

---------------------------- MODULE OutputUpload ----------------------------
(***************************************************************************)
(* The resumable transfer of one lease's output archive: the worker sends  *)
(* numbered parts, asks to finalize, and the control plane assembles the   *)
(* archive, extracts it into the staging area and records its digest.      *)
(*                                                                         *)
(* Finalizing is a sequence of database transactions with file work in     *)
(* between.  A worker whose request got no answer asks again, perhaps      *)
(* with a rotated lease token, while the first request is still running;   *)
(* both work on the same spool directory, which is why a file is kept      *)
(* apart from its name here.  A part is a position in the archive; the     *)
(* content of a file is the set of parts in place, and the digest of a     *)
(* content is that content, so Parts stands for the declared digest.       *)
(* Uploads of a whole archive in one request, by old workers, are left out.*)
(***************************************************************************)
EXTENDS Integers, FiniteSets

CONSTANTS
  Parts,         \* part numbers of the declared archive
  Calls,         \* finalize requests that may be under way at once
  Files,         \* identities of the files assembled in the spool
  NoFile,        \* what a name without a file refers to
  MaxTokens      \* bound: lease tokens issued, one more at each resumption

ASSUME PartsAssumption == Parts # {}
ASSUME FilesAssumption == NoFile \notin Files
ASSUME MaxTokensAssumption == MaxTokens \in Nat \ {0}

VARIABLES
  lease,         \* the lease row: state, token, recorded digests (none or one)
  session,       \* the upload row and its parts
  spool,         \* the spool directory and the files its two names refer to
  content,       \* content[f]: the parts in place in file f
  candidate,     \* what the staging area holds, and whose extraction it is
  calls          \* calls[c]: where finalize request c has got to

vars == <<lease, session, spool, content, candidate, calls>>

Tokens == 1 .. MaxTokens
OpenStatuses == {"uploading", "assembling"}
SessionStatuses == {"none", "finalized", "abandoned"} \cup OpenStatuses

(* "locked" and "extracted" hold the lease's file lock; "staged" has the   *)
(* digest recorded or confirmed; "receipt" has only the spool to remove.   *)
LockSteps == {"locked", "extracted"}
TrySteps == {"begun", "writing", "replaced", "digested"} \cup LockSteps
CallSteps == {"idle", "staged", "receipt", "failed"} \cup TrySteps

CallRecord ==
  [ at     : CallSteps,
    token  : Tokens,
    file   : Files \cup {NoFile},    \* the file it has open for writing
    done   : SUBSET Parts,           \* the parts it has written
    digest : SUBSET Parts ]          \* the digest it read from the archive

(* A part in the staging area, with the request that extracted it and the  *)
(* token that request came with: a history no guard reads and no column    *)
(* keeps.                                                                  *)
Extracted == [part : Parts, by : Calls, token : Tokens]

Idle == [at |-> "idle", token |-> 1, file |-> NoFile, done |-> {}, digest |-> {}]

(* The lease has been acknowledged and its work executed.                  *)
Init ==
  /\ lease = [state |-> "active", token |-> 1, archive |-> {}]
  /\ session = [status |-> "none", parts |-> {}]
  /\ spool = [exists |-> FALSE, assembling |-> NoFile, archive |-> NoFile]
  /\ content = [f \in Files |-> {}]
  /\ candidate = {}
  /\ calls = [c \in Calls |-> Idle]

Authenticated(token) == lease.state = "active" /\ lease.token = token
Unlocked == \A c \in Calls : calls[c].at \notin LockSteps

----------------------------------------------------------------------------
(* Parts *)

Create ==
  /\ lease.state = "active"
  /\ session.status = "none"
  /\ session' = [status |-> "uploading", parts |-> {}]
  /\ spool' = [spool EXCEPT !.exists = TRUE]
  /\ UNCHANGED <<lease, content, candidate, calls>>

(* The part's bytes and its row, in one transaction.  A part that is there *)
(* already is confirmed or rejected, never replaced.  Nothing but the      *)
(* lease protects an abandoned session from being reopened.                *)
PutPart(p) ==
  /\ lease.state = "active"
  /\ session.status \in {"uploading", "abandoned"}
  /\ p \notin session.parts
  /\ spool.exists
  /\ session' = [status |-> "uploading", parts |-> session.parts \cup {p}]
  /\ UNCHANGED <<lease, spool, content, candidate, calls>>

----------------------------------------------------------------------------
(* Finalizing *)

Go(c, r) == calls' = [calls EXCEPT ![c] = r]
Step(c, at) == Go(c, [calls[c] EXCEPT !.at = at])

(* A session found assembling whose digest the lease already records.      *)
Recorded(status) == status = "assembling" /\ lease.archive = {Parts}

(* Mutant of Assemblable: an interrupted assembly is never started again.  *)
AssemblableOnce(status) == status = "uploading" /\ session.parts = Parts

(* A complete session, also one whose assembly seems to be interrupted.    *)
Assemblable(status) ==
  status \notin {"none", "finalized"} /\ ~Recorded(status) /\ session.parts = Parts

(* First transaction: answer with a receipt or start to assemble.          *)
Begin(c) ==
  /\ calls[c].at = "idle"
  /\ lease.state = "active"
  /\ \/ /\ session.status = "finalized" \/ Recorded(session.status)
        /\ session' = [session EXCEPT !.status = "finalized"]
        /\ Go(c, [Idle EXCEPT !.at = "receipt", !.token = lease.token])
     \/ /\ Assemblable(session.status)
        /\ session' = [session EXCEPT !.status = "assembling"]
        /\ Go(c, [Idle EXCEPT !.at = "begun", !.token = lease.token])
  /\ UNCHANGED <<lease, spool, content, candidate>>

Unused(f) ==
  /\ spool.assembling # f /\ spool.archive # f
  /\ \A c \in Calls : calls[c].file # f

(* Opening for writing creates the file or empties the one that is there.  *)
Open(c) ==
  /\ calls[c].at = "begun"
  /\ spool.exists
  /\ \E f \in Files :
       /\ IF spool.assembling = NoFile THEN Unused(f) ELSE f = spool.assembling
       /\ content' = [content EXCEPT ![f] = {}]
       /\ spool' = [spool EXCEPT !.assembling = f]
       /\ Go(c, [calls[c] EXCEPT !.at = "writing", !.file = f])
  /\ UNCHANGED <<lease, session, candidate>>

(* The next part is copied from the spool, each at its own offset.         *)
Write(c, p) ==
  /\ calls[c].at = "writing"
  /\ p \notin calls[c].done
  /\ \A q \in Parts \ calls[c].done : p <= q
  /\ spool.exists
  /\ content' = [content EXCEPT ![calls[c].file] = @ \cup {p}]
  /\ Go(c, [calls[c] EXCEPT !.done = @ \cup {p}])
  /\ UNCHANGED <<lease, session, spool, candidate>>

(* Mutant of Replace: what was written is not verified.                    *)
ReplaceUnverified(c) ==
  /\ calls[c].at = "writing"
  /\ spool.exists /\ spool.assembling # NoFile
  /\ spool' = [spool EXCEPT !.archive = spool.assembling, !.assembling = NoFile]
  /\ Go(c, [calls[c] EXCEPT !.at = "replaced", !.file = NoFile, !.done = {}])
  /\ UNCHANGED <<lease, session, content, candidate>>

(* The digest of what this request wrote is the declared one; the name     *)
(* "archive" then takes over whichever file has the name "assembling".     *)
Replace(c) ==
  /\ calls[c].at = "writing"
  /\ calls[c].done = Parts
  /\ spool.exists /\ spool.assembling # NoFile
  /\ spool' = [spool EXCEPT !.archive = spool.assembling, !.assembling = NoFile]
  /\ Go(c, [calls[c] EXCEPT !.at = "replaced", !.file = NoFile, !.done = {}])
  /\ UNCHANGED <<lease, session, content, candidate>>

(* upload_worker_lease_output_archive reads the archive again ...          *)
Digest(c) ==
  /\ calls[c].at = "replaced"
  /\ spool.archive # NoFile
  /\ Go(c, [calls[c] EXCEPT !.at = "digested", !.digest = content[spool.archive]])
  /\ UNCHANGED <<lease, session, spool, content, candidate>>

(* Mutants of Lock: the file lock is not taken; what an interrupted        *)
(* extraction left in the staging area stays there.                        *)
LockFree(c) ==
  /\ calls[c].at = "digested"
  /\ Authenticated(calls[c].token)
  /\ \/ /\ lease.archive = {}
        /\ candidate' = {}
        /\ Step(c, "locked")
     \/ /\ lease.archive = {calls[c].digest}
        /\ Step(c, "staged")
        /\ UNCHANGED candidate
  /\ UNCHANGED <<lease, session, spool, content>>

LockKeeping(c) ==
  /\ calls[c].at = "digested"
  /\ Unlocked
  /\ Authenticated(calls[c].token)
  /\ \/ lease.archive = {} /\ Step(c, "locked")
     \/ lease.archive = {calls[c].digest} /\ Step(c, "staged")
  /\ UNCHANGED <<lease, session, spool, content, candidate>>

(* ... takes the file lock, and clears the staging area unless an archive  *)
(* is recorded; the same one is confirmed.                                 *)
Lock(c) ==
  /\ calls[c].at = "digested"
  /\ Unlocked
  /\ Authenticated(calls[c].token)
  /\ \/ /\ lease.archive = {}
        /\ candidate' = {}
        /\ Step(c, "locked")
     \/ /\ lease.archive = {calls[c].digest}
        /\ Step(c, "staged")
        /\ UNCHANGED candidate
  /\ UNCHANGED <<lease, session, spool, content>>

(* The archive is opened once more and extracted.  A tar file that ends    *)
(* early may extract in part without an error; an empty one is refused.    *)
(* What the area holds already is not removed by this.                     *)
Extract(c) ==
  /\ calls[c].at = "locked"
  /\ spool.archive # NoFile
  /\ content[spool.archive] # {}
  /\ candidate' = candidate \cup
       [part : content[spool.archive], by : {c}, token : {calls[c].token}]
  /\ Step(c, "extracted")
  /\ UNCHANGED <<lease, session, spool, content>>

(* The digest is recorded, if the lease is still this worker's.            *)
Record(c) ==
  /\ calls[c].at = "extracted"
  /\ Authenticated(calls[c].token)
  /\ lease.archive = {}
  /\ lease' = [lease EXCEPT !.archive = {calls[c].digest}]
  /\ Step(c, "staged")
  /\ UNCHANGED <<session, spool, content, candidate>>

(* Last transaction, without a look at the lease or the session.           *)
Finish(c) ==
  /\ calls[c].at = "staged"
  /\ session' = [session EXCEPT !.status = "finalized"]
  /\ Step(c, "receipt")
  /\ UNCHANGED <<lease, spool, content, candidate>>

Removed == [exists |-> FALSE, assembling |-> NoFile, archive |-> NoFile]

RemoveSpool(c) ==
  /\ calls[c].at = "receipt"
  /\ spool' = Removed
  /\ Go(c, Idle)
  /\ UNCHANGED <<lease, session, content, candidate>>

(* A missing file, a revoked token, a recorded digest that differs, an     *)
(* I/O error: the request fails.  Whoever fails to extract or to record    *)
(* clears the staging area.                                                *)
Fail(c) ==
  /\ calls[c].at \in TrySteps
  /\ candidate' = IF calls[c].at \in LockSteps THEN {} ELSE candidate
  /\ Go(c, [Idle EXCEPT !.at = "failed", !.token = calls[c].token])
  /\ UNCHANGED <<lease, session, spool, content>>

(* Mutant of GiveUp: the session is reopened whatever became of it.        *)
Reopen(c) ==
  /\ calls[c].at = "failed"
  /\ spool' = [spool EXCEPT !.assembling = NoFile]
  /\ session' = [session EXCEPT !.status = "uploading"]
  /\ Go(c, Idle)
  /\ UNCHANGED <<lease, content, candidate>>

(* Its exception handler: drop the unfinished file, reopen the session.    *)
GiveUp(c) ==
  /\ calls[c].at = "failed"
  /\ spool' = [spool EXCEPT !.assembling = NoFile]
  /\ session' = [session EXCEPT !.status = IF @ = "assembling" THEN "uploading" ELSE @]
  /\ Go(c, Idle)
  /\ UNCHANGED <<lease, content, candidate>>

----------------------------------------------------------------------------
(* What happens to the lease meanwhile (module WorkerLease) *)

(* The worker got no answer and hands the lease back ...                   *)
Defer ==
  /\ lease.state = "active"
  /\ lease.token < MaxTokens
  /\ lease' = [lease EXCEPT !.state = "deferred"]
  /\ UNCHANGED <<session, spool, content, candidate, calls>>

(* ... and comes back for it with a new token, under the file lock.        *)
Resume ==
  /\ lease.state # "ended"
  /\ lease.token < MaxTokens
  /\ Unlocked
  /\ lease' = [lease EXCEPT !.state = "active", !.token = @ + 1]
  /\ UNCHANGED <<session, spool, content, candidate, calls>>

(* Expiry abandons an open session, in the same transaction.               *)
Expire ==
  /\ lease.state = "active"
  /\ lease' = [lease EXCEPT !.state = "ended"]
  /\ session' = [session EXCEPT !.status = IF @ \in OpenStatuses THEN "abandoned" ELSE @]
  /\ UNCHANGED <<spool, content, candidate, calls>>

(* So does a stop or restart of the publication, whatever its status.      *)
Fence ==
  /\ lease.state # "ended"
  /\ lease' = [lease EXCEPT !.state = "ended"]
  /\ session' = [session EXCEPT !.status = IF @ = "none" THEN @ ELSE "abandoned"]
  /\ UNCHANGED <<spool, content, candidate, calls>>

(* Release, failure and cancellation leave the session as it is.           *)
Close ==
  /\ lease.state = "active"
  /\ lease' = [lease EXCEPT !.state = "ended"]
  /\ UNCHANGED <<session, spool, content, candidate, calls>>

(* The expiry tick and the clean-up thread.                                *)
Sweep ==
  /\ session.status \in {"finalized", "abandoned"}
  /\ spool.exists
  /\ spool' = Removed
  /\ UNCHANGED <<lease, session, content, candidate, calls>>

(* The control plane dies and comes back.                                  *)
Crash ==
  /\ calls' = [c \in Calls |-> Idle]
  /\ UNCHANGED <<lease, session, spool, content, candidate>>

----------------------------------------------------------------------------
CallStep(c) ==
  \/ Begin(c) \/ Open(c) \/ \E p \in Parts : Write(c, p)
  \/ Replace(c) \/ Digest(c) \/ Lock(c) \/ Extract(c) \/ Record(c)
  \/ Finish(c) \/ RemoveSpool(c)

LeaseStep == Defer \/ Resume \/ Expire \/ Fence \/ Close

Next ==
  \/ Create \/ \E p \in Parts : PutPart(p)
  \/ \E c \in Calls : CallStep(c) \/ Fail(c) \/ GiveUp(c)
  \/ LeaseStep \/ Sweep \/ Crash

Spec == Init /\ [][Next]_vars

----------------------------------------------------------------------------
TypeOK ==
  /\ lease \in [state : {"active", "deferred", "ended"}, token : Tokens,
                archive : SUBSET SUBSET Parts]
  /\ session \in [status : SessionStatuses, parts : SUBSET Parts]
  /\ spool \in [exists : BOOLEAN, assembling : Files \cup {NoFile},
                archive : Files \cup {NoFile}]
  /\ content \in [Files -> SUBSET Parts]
  /\ candidate \subseteq Extracted
  /\ calls \in [Calls -> CallRecord]

(* While a session is open its parts are still there, whatever requests    *)
(* that finished, failed or were answered with a receipt do to the spool:  *)
(* the worker skips the parts the session lists.                           *)
OpenSessionHasSpool ==
  session.status \in OpenStatuses => spool.exists

(* A session reads finalized only when an archive was extracted and its    *)
(* digest recorded: the worker completes the lease on the strength of it.  *)
FinalizedIsStaged == session.status = "finalized" => lease.archive # {}

(* One archive at most is staged for a lease, and once it is recorded no   *)
(* request that is late, repeated or failing touches the staging area.     *)
StagedOutputIsFinal ==
  [][lease.archive # {} => lease'.archive = lease.archive /\ candidate' = candidate]_vars

(* What a lease records is what the recording request itself extracted,    *)
(* under the token the lease has then: not what an earlier request left    *)
(* behind when it failed or died, what one made with a revoked token       *)
(* extracted meanwhile, or an area that another request emptied.           *)
RecordedIsOwnExtraction ==
  [][lease'.archive # lease.archive =>
       \E c \in Calls :
         /\ lease'.archive = {calls[c].digest}
         /\ candidate' # {}
         /\ \A x \in candidate' : x.by = c /\ x.token = lease'.token]_vars

(* "No receipt means an interrupted assembly; it is safe to recreate the   *)
(* archive deterministically from immutable parts"                         *)
(* (finalize_worker_output_upload).  A session reads finalized only for    *)
(* the declared archive: true of one request at a time, crashes included,  *)
(* false of a repeated request that meets an assembly under way.           *)
FinalizedIsDeclared == session.status = "finalized" => lease.archive = {Parts}

----------------------------------------------------------------------------
(* Progress: the worker repeats its request and comes back for a lease it  *)
(* handed back, neither crashes nor I/O errors hit every repetition, and a *)
(* request without authority is rejected in the end.                       *)
Fairness ==
  /\ SF_vars(Resume)
  /\ \A c \in Calls :
       /\ SF_vars(Begin(c)) /\ SF_vars(Open(c)) /\ \A p \in Parts : SF_vars(Write(c, p))
       /\ SF_vars(Replace(c)) /\ SF_vars(Digest(c)) /\ SF_vars(Lock(c))
       /\ SF_vars(Extract(c)) /\ SF_vars(Record(c)) /\ SF_vars(Finish(c))
       /\ WF_vars(RemoveSpool(c)) /\ WF_vars(GiveUp(c))
       /\ WF_vars(~Authenticated(calls[c].token) /\ Fail(c))

FairSpec == Spec /\ Fairness

(* A transfer whose parts all arrived is finalized, unless the lease ends: *)
(* an interruption at any point does not strand completed output.          *)
UploadFinishes ==
  (session.parts = Parts) ~> (session.status = "finalized" \/ lease.state = "ended")
=============================================================================

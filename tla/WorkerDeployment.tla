-------------------------- MODULE WorkerDeployment --------------------------
(***************************************************************************)
(* One worker deployment: its durable row, the provider that runs its      *)
(* worker, the periodic reconciliation of the operation runner, and the    *)
(* start, stop and reconcile requests of operators, each in a thread of    *)
(* its own.  Every call reads the row, talks to the provider, and writes   *)
(* the row in a later transaction; nothing holds a lock in between.        *)
(*                                                                         *)
(* Time is left open: a retry that is scheduled may be due at any later    *)
(* pass, and a worker that was started may have been up for five minutes.  *)
(* The columns state and endpoint are for display, no guard reads them.    *)
(***************************************************************************)
EXTENDS Naturals, FiniteSets

CONSTANTS
  Providers,       \* which of the two providers may be configured
  Limit,           \* automatic restarts before an operator has to act: 8
  ApiThreads,      \* requests of operators that may be under way at once
  ApiKinds,        \* the requests operators make
  MaxRequests,     \* bound: requests of operators
  MaxCrashes       \* bound: deaths of the control plane

ASSUME ProvidersAssumption == Providers \subseteq {"docker", "local-process"}
ASSUME LimitAssumption == Limit \in Nat /\ Limit >= 2
ASSUME RunnerAssumption == "runner" \notin ApiThreads
ASSUME KindsAssumption == ApiKinds \subseteq {"start", "stop", "reconcile"}
ASSUME BoundsAssumption == MaxRequests \in Nat /\ MaxCrashes \in Nat

VARIABLES
  row,             \* the row of worker_deployments
  provider,        \* the configured provider
  unit,            \* what it knows of the worker: a container, or a process
  call,            \* per thread: the call under way
  requests,        \* requests so far
  crashes,         \* deaths so far
  automatic        \* restarts nobody asked for since the count was cleared

vars == <<row, provider, unit, call, requests, crashes, automatic>>

Threads == ApiThreads \cup {"runner"}

(* "unknown": no such container; or a process of an earlier control plane. *)
Units == {"unknown", "stopped", "running"}
Errors == {"none", "failure", "limit"}

Row ==
  [ desired  : {"stopped", "running"},
    error    : Errors,
    attempts : 0 .. Limit,       \* restart_attempts
    retry    : BOOLEAN,          \* next_restart_at is set
    started  : BOOLEAN ]         \* last_started_at is set

(* A call keeps the row it read; a reconciliation that restarts the worker *)
(* goes through the steps of a start, with the row read again.             *)
CallRecord ==
  [ at : {"none", "read", "asked", "starting", "inspected", "started", "refused",
          "stopping", "halted"},
    kind : {"none", "start", "stop", "reconcile"},
    seen : Row,
    found : Units ]              \* what the provider last answered

NewRow ==
  [ desired |-> "stopped", error |-> "none", attempts |-> 0, retry |-> FALSE,
    started |-> FALSE ]

NoCall == [at |-> "none", kind |-> "none", seen |-> NewRow, found |-> "unknown"]

(* create_worker_deployment has run.                                       *)
Init ==
  /\ row = NewRow
  /\ provider \in Providers
  /\ unit = "unknown"
  /\ call = [t \in Threads |-> NoCall]
  /\ requests = 0 /\ crashes = 0 /\ automatic = 0

-----------------------------------------------------------------------------
Thread(t, step) == call[t].at = step

Goes(t, step) == call' = [call EXCEPT ![t].at = step]
Ends(t) == call' = [call EXCEPT ![t] = NoCall]

Recovering(t) == call[t].kind = "reconcile"

(* Of the row it read, a reconciliation uses all but the error.            *)
Seen(r) == [r EXCEPT !.error = "none"]

FirstStep == [start |-> "starting", stop |-> "stopping", reconcile |-> "read"]

(* An operator asks; a start and a stop use nothing of the row they read.  *)
Request(t, kind) ==
  /\ Thread(t, "none") /\ requests < MaxRequests
  /\ requests' = requests + 1
  /\ call' = [call EXCEPT ![t] =
       [NoCall EXCEPT !.kind = kind,
          !.seen = IF kind = "reconcile" THEN Seen(row) ELSE @,
          !.at = FirstStep[kind]]]
  /\ UNCHANGED <<row, provider, unit, crashes, automatic>>

(* The pass at startup, and every 30 seconds.                              *)
Pass ==
  /\ Thread("runner", "none")
  /\ call' = [call EXCEPT !["runner"] =
                [NoCall EXCEPT !.at = "read", !.kind = "reconcile",
                               !.seen = Seen(row)]]
  /\ UNCHANGED <<row, provider, unit, requests, crashes, automatic>>

-----------------------------------------------------------------------------
(* The providers.                                                          *)

(* docker inspect, or the table of processes: what is there.               *)
Inspect(t) ==
  /\ Thread(t, "starting")
  /\ call' = [call EXCEPT ![t].at = "inspected", ![t].found = unit]
  /\ UNCHANGED <<row, provider, unit, requests, crashes, automatic>>

Counted(t) == automatic' = IF Recovering(t) THEN automatic + 1 ELSE automatic

(* docker run and docker start, or a new process.  A container of that     *)
(* name that appeared since refuses the run; any launch may fail, and      *)
(* docker start then removes the container before it runs a new one.       *)
Launch(t) ==
  /\ Thread(t, "inspected") /\ Counted(t)
  /\ \/ /\ call[t].found = "running"
        /\ Goes(t, IF provider = "docker" THEN "started" ELSE "refused")
        /\ UNCHANGED unit
     \/ /\ call[t].found # "running"
        /\ provider = "docker" => (call[t].found = "stopped" \/ unit = "unknown")
        /\ unit' = "running" /\ Goes(t, "started")
     \/ /\ call[t].found # "running"
        /\ Goes(t, "refused")
        /\ \/ UNCHANGED unit
           \/ provider = "docker" /\ call[t].found = "stopped" /\ unit' = "unknown"
  /\ UNCHANGED <<row, provider, requests, crashes>>

(* docker stop, or terminate and kill.                                     *)
Halt(t) ==
  /\ Thread(t, "stopping")
  /\ \/ unit # "unknown" /\ unit' = "stopped" /\ Goes(t, "halted")
     \/ unit = "unknown" /\ Ends(t) /\ UNCHANGED unit
  /\ UNCHANGED <<row, provider, requests, crashes, automatic>>

(* A worker exits, or its container is removed.                            *)
WorkerExits ==
  /\ unit = "running" /\ unit' = "stopped"
  /\ UNCHANGED <<row, provider, call, requests, crashes, automatic>>

ContainerRemoved ==
  /\ provider = "docker" /\ unit = "stopped" /\ unit' = "unknown"
  /\ UNCHANGED <<row, provider, call, requests, crashes, automatic>>

-----------------------------------------------------------------------------
(* start_worker_deployment.                                                *)

(* Mutant of Attempts: a restart that succeeds clears the count.           *)
AttemptsUnlessStarted(t) ==
  IF Recovering(t) /\ Thread(t, "refused") THEN call[t].seen.attempts + 1 ELSE 0

Attempts(t) == IF Recovering(t) THEN call[t].seen.attempts + 1 ELSE 0

Cleared(t) == automatic' = IF Recovering(t) THEN automatic ELSE 0

RecordStarted(t) ==
  /\ Thread(t, "started")
  /\ row' = [desired |-> "running", error |-> "none", attempts |-> Attempts(t),
             retry |-> Recovering(t), started |-> TRUE]
  /\ Cleared(t) /\ Ends(t)
  /\ UNCHANGED <<provider, unit, requests, crashes>>

RecordRefused(t) ==
  /\ Thread(t, "refused")
  /\ row' = [row EXCEPT !.desired = "running", !.error = "failure",
                        !.attempts = IF Recovering(t) THEN Attempts(t) ELSE 1,
                        !.retry = TRUE]
  /\ Cleared(t) /\ Ends(t)
  /\ UNCHANGED <<provider, unit, requests, crashes>>

(* stop_worker_deployment.                                                 *)
RecordStopped(t) ==
  /\ Thread(t, "halted")
  /\ row' = NewRow
  /\ automatic' = 0 /\ Ends(t)
  /\ UNCHANGED <<provider, unit, requests, crashes>>

-----------------------------------------------------------------------------
(* reconcile_worker_deployments.                                           *)

StatusFails(t) ==
  /\ Thread(t, "read")
  /\ row' = [row EXCEPT !.error = "failure"]
  /\ Ends(t)
  /\ UNCHANGED <<provider, unit, requests, crashes, automatic>>

Status(t) ==
  /\ Thread(t, "read")
  /\ call' = [call EXCEPT ![t].at = "asked", ![t].found = unit]
  /\ UNCHANGED <<row, provider, unit, requests, crashes, automatic>>

(* The columns that were read are written back with those that changed.    *)
ReconcileRunning(t) ==
  LET seen == call[t].seen IN
  /\ Thread(t, "asked") /\ call[t].found = "running"
  /\ \E stable \in BOOLEAN :
       /\ stable => seen.started
       /\ LET attempts == IF stable THEN 0 ELSE seen.attempts IN
          row' = [row EXCEPT !.error = "none", !.started = TRUE, !.attempts = attempts,
                             !.retry = attempts # 0 /\ seen.retry]
       /\ automatic' = IF stable THEN 0 ELSE automatic
  /\ Ends(t)
  /\ UNCHANGED <<provider, unit, requests, crashes>>

Down(t) == Thread(t, "asked") /\ call[t].found # "running"

(* Mutant of MayRestart: the limit is looked for one restart too late.     *)
MayRestartOnceMore(t) ==
  Down(t) /\ call[t].seen.desired = "running" /\ call[t].seen.attempts <= Limit

(* Mutant of MayRestart: a restart too few, so that the limit that is      *)
(* reported is never reached.                                              *)
MayRestartOnceLess(t) ==
  Down(t) /\ call[t].seen.desired = "running" /\ call[t].seen.attempts < Limit - 1

MayRestart(t) ==
  Down(t) /\ call[t].seen.desired = "running" /\ call[t].seen.attempts < Limit

(* The restart reads the row again, for its count only.                    *)
Restart(t) ==
  /\ MayRestart(t)
  /\ call' = [call EXCEPT ![t].at = "starting", ![t].found = "unknown",
                            ![t].seen = [NewRow EXCEPT !.attempts = row.attempts]]
  /\ UNCHANGED <<row, provider, unit, requests, crashes, automatic>>

(* Not desired, not yet due, or no longer tried.                           *)
ReconcileDown(t) ==
  LET seen == call[t].seen IN
  /\ Down(t)
  /\ MayRestart(t) => seen.retry
  /\ row' = [row EXCEPT !.error =
       IF seen.desired = "running"
       THEN IF seen.attempts >= Limit THEN "limit" ELSE "failure"
       ELSE IF call[t].found = "unknown" THEN "failure" ELSE "none"]
  /\ Ends(t)
  /\ UNCHANGED <<provider, unit, requests, crashes, automatic>>

-----------------------------------------------------------------------------
(* The control plane dies: containers go on, and so do its processes, but  *)
(* the next one does not know them.                                        *)
Crash ==
  /\ crashes < MaxCrashes
  /\ crashes' = crashes + 1
  /\ call' = [t \in Threads |-> NoCall]
  /\ unit' = IF provider = "docker" THEN unit ELSE "unknown"
  /\ UNCHANGED <<row, provider, requests, automatic>>

StartCall(t) == Inspect(t) \/ Launch(t) \/ RecordStarted(t) \/ RecordRefused(t)

PassStep(t) == Status(t) \/ ReconcileRunning(t) \/ Restart(t) \/ ReconcileDown(t)

Next ==
  \/ \E t \in ApiThreads, kind \in ApiKinds : Request(t, kind)
  \/ Pass
  \/ \E t \in Threads :
       \/ Inspect(t) \/ Launch(t) \/ RecordStarted(t) \/ RecordRefused(t)
       \/ Halt(t) \/ RecordStopped(t)
       \/ StatusFails(t) \/ Status(t)
       \/ ReconcileRunning(t) \/ Restart(t) \/ ReconcileDown(t)
  \/ WorkerExits \/ ContainerRemoved
  \/ Crash

Spec == Init /\ [][Next]_vars

(* The runner passes every 30 seconds and each step returns; a provider    *)
(* answers some of its queries, and a retry falls due.                     *)
Fairness ==
  /\ WF_vars(Pass)
  /\ WF_vars(StartCall("runner") \/ PassStep("runner"))
  /\ SF_vars(Status("runner")) /\ SF_vars(Restart("runner"))

FairSpec == Spec /\ Fairness

-----------------------------------------------------------------------------
TypeOK ==
  /\ row \in Row
  /\ provider \in Providers
  /\ unit \in Units
  /\ call \in [Threads -> CallRecord]
  /\ requests \in 0 .. MaxRequests
  /\ crashes \in 0 .. MaxCrashes
  /\ automatic \in Nat

(* "After 8 consecutive recovery attempts, automatic restarts pause"       *)
(* (deploy/docker/README.md): whatever operators and the worker do between *)
(* the reads and the writes of a pass, the count kept in the row bounds    *)
(* the restarts made since it was last cleared, but for one per death of   *)
(* the control plane, between the launch and the write that counts it.     *)
RestartsBounded == automatic <= Limit + crashes

(* A deployment that should run and does not is restarted, or reports that *)
(* it needs an operator, or is no longer wanted.                           *)
RecoversOrReports ==
  row.desired = "running" /\ unit # "running"
    ~> unit = "running" \/ row.error = "limit" \/ row.desired = "stopped"
=============================================================================

--------------------------- MODULE ResidentRuntime ---------------------------
(***************************************************************************)
(* The warm model cache of the inference service.  Request threads share a *)
(* bounded number of loaded models under one lock and condition variable;  *)
(* every loaded model has a lane: a bounded queue and one thread that      *)
(* joins queued requests into batches and answers each through a future.   *)
(*                                                                         *)
(* A critical section of the runtime lock is one action.  What happens     *)
(* outside the lock is split where another thread can get in between:      *)
(* loading, the closed check of submit and its put, every get of a lane's  *)
(* thread, and the lanes closed one by one when the runtime closes.  Which *)
(* idle model is least recently used is left open, the prediction of an    *)
(* item is the item itself, and a model is registered under one name.      *)
(***************************************************************************)
EXTENDS Integers, FiniteSets, Sequences, SequencesExt

CONSTANTS
  Requests,      \* predict and warm calls, each on a thread of its own
  Models,        \* artifact fingerprints
  Size,          \* Size[c]: the number of items of request c
  Batched,       \* models whose task lets requests share a batch
  MaxLoaded,     \* max_loaded_models
  MaxBatch,      \* the batch size a lane resolved at warmup
  Capacity,      \* queue_capacity
  Nobody,        \* no request: an empty carry
  Stop           \* the None that tells a lane's thread to stop

ASSUME RequestsAssumption ==
  /\ IsFiniteSet(Requests) /\ IsFiniteSet(Models) /\ Models # {}
  /\ Batched \subseteq Models
  /\ Size \in [Requests -> Nat \ {0}]
ASSUME MarksAssumption == Nobody \notin Requests /\ Stop \notin Requests
ASSUME LimitsAssumption ==
  {MaxLoaded, MaxBatch, Capacity} \subseteq Nat \ {0}

VARIABLES
  entry,         \* entry[m]: state, whether bundle and lane are set, in_flight
  lane,          \* lane[m]: the lane last installed for m
  call,          \* call[c]: where the predict or warm call of c has got to
  runtime        \* whether the runtime is closed, and lanes still to close

vars == <<entry, lane, call, runtime>>

EntryStates == {"absent", "registered", "loading", "ready", "failed", "closed"}
ThreadStates == {"idle", "polled", "collecting", "executing", "executed", "exited"}

(* A caller in Held has been counted in in_flight and not yet released.    *)
Held == {"acquired", "checked", "queued", "answered", "raised"}
CallSteps == {"new", "waiting", "woken", "loading", "returned"} \cup Held

Item == Requests \X Nat
ItemsOf(c) == [i \in 1 .. Size[c] |-> <<c, i>>]

EmptyLane ==
  [queue |-> <<>>, closed |-> FALSE, carry |-> Nobody, batch |-> <<>>,
   count |-> 0, thread |-> "exited"]

Init ==
  /\ entry = [m \in Models |->
                [state |-> "absent", loaded |-> FALSE, inflight |-> 0]]
  /\ lane = [m \in Models |-> EmptyLane]
  /\ call \in [Requests -> [at : {"new"}, model : {CHOOSE m \in Models : TRUE},
                           answer : {<<>>}]]
  /\ runtime = [closed |-> FALSE, closing |-> {}]

-----------------------------------------------------------------------------
(* The cache, under the runtime lock.                                      *)

At(c, step) == call[c].at = step

(* notify_all: every thread that waits on the condition competes for the   *)
(* lock again.                                                             *)
Notify(calls) ==
  [c \in Requests |-> IF calls[c].at = "waiting"
                     THEN [calls[c] EXCEPT !.at = "woken"] ELSE calls[c]]

Goes(c, step) == [call EXCEPT ![c].at = step]

Register(m) ==
  /\ entry[m].state = "absent"
  /\ entry' = [entry EXCEPT ![m].state = "registered"]
  /\ UNCHANGED <<lane, call, runtime>>

(* Mutant of Occupied: a load under way reserves no slot.                  *)
OccupiedLoaded == {m \in Models : entry[m].loaded}

Occupied == {m \in Models : entry[m].loaded \/ entry[m].state = "loading"}

Full == Cardinality(Occupied) >= MaxLoaded

(* Mutant of Victims: a model in use may be evicted.                       *)
AnyVictims(m) == {v \in Occupied \ {m} : entry[v].loaded}

Victims(m) ==
  {v \in Occupied \ {m} : entry[v].loaded /\ entry[v].inflight = 0}

ClosedLane(l) ==
  IF l.closed THEN l
  ELSE [l EXCEPT !.closed = TRUE,
                 !.queue = IF Len(@) < Capacity THEN Append(@, Stop) ELSE @]

(* The body of _acquire under the lock, for a caller that asks for m.      *)
WaitForLoad(c, m) ==
  /\ entry[m].state = "loading"
  /\ call' = [call EXCEPT ![c] = [@ EXCEPT !.at = "waiting", !.model = m]]
  /\ UNCHANGED <<entry, lane>>

UseLoaded(c, m) ==
  /\ entry[m].state # "loading" /\ entry[m].loaded
  /\ entry' = [entry EXCEPT ![m].inflight = @ + 1]
  /\ call' = [call EXCEPT ![c] = [@ EXCEPT !.at = "acquired", !.model = m]]
  /\ UNCHANGED lane

StartLoad(c, m) ==
  /\ entry[m].state # "loading" /\ ~entry[m].loaded
  /\ call' = [call EXCEPT ![c] = [@ EXCEPT !.at = "loading", !.model = m]]
  /\ \/ /\ ~Full
        /\ entry' = [entry EXCEPT ![m].state = "loading"]
        /\ UNCHANGED lane
     \/ \E v \in Victims(m) :
          /\ Full
          /\ entry' = [entry EXCEPT
               ![v] = [@ EXCEPT !.state = "registered", !.loaded = FALSE],
               ![m].state = "loading"]
          /\ lane' = [lane EXCEPT ![v] = ClosedLane(@)]

NoSlot(c, m) ==
  /\ entry[m].state # "loading" /\ ~entry[m].loaded
  /\ Full /\ Victims(m) = {}
  /\ call' = Goes(c, "returned")
  /\ UNCHANGED <<entry, lane>>

Acquire(c, m) ==
  /\ \/ WaitForLoad(c, m) \/ UseLoaded(c, m) \/ StartLoad(c, m) \/ NoSlot(c, m)
  /\ UNCHANGED runtime

(* A call on a closed runtime or for an unknown model raises at once.      *)
Call(c, m) ==
  /\ At(c, "new") /\ ~runtime.closed /\ entry[m].state # "absent"
  /\ Acquire(c, m)

(* Only entry.state is looked at again after the wait, not _closed.        *)
Wake(c) == At(c, "woken") /\ Acquire(c, call[c].model)

(* Mutant of LoadFails: the failure is recorded without notify_all.        *)
LoadFailsSilently(c) ==
  /\ At(c, "loading")
  /\ entry' = [entry EXCEPT ![call[c].model].state = "failed"]
  /\ call' = Goes(c, "returned")
  /\ UNCHANGED <<lane, runtime>>

(* The artifact fails its validation, or does not load or warm up.         *)
LoadFails(c) ==
  /\ At(c, "loading")
  /\ entry' = [entry EXCEPT ![call[c].model].state = "failed"]
  /\ call' = Notify(Goes(c, "returned"))
  /\ UNCHANGED <<lane, runtime>>

(* A lane made for a runtime that closed meanwhile is closed unused, and   *)
(* the entry stays as it is.                                               *)
LoadCompletes(c) ==
  LET m == call[c].model IN
  /\ At(c, "loading")
  /\ \/ /\ runtime.closed
        /\ call' = Goes(c, "returned")
        /\ UNCHANGED <<entry, lane>>
     \/ /\ ~runtime.closed
        /\ entry' = [entry EXCEPT ![m] =
             [state |-> "ready", loaded |-> TRUE, inflight |-> @.inflight + 1]]
        /\ lane' = [lane EXCEPT ![m] = [EmptyLane EXCEPT !.thread = "idle"]]
        /\ call' = Notify(Goes(c, "acquired"))
  /\ UNCHANGED runtime

(* The finally clause of predict and warm; a warm call releases what it    *)
(* has acquired and asks for no prediction.                                *)
Release(c) ==
  /\ At(c, "answered") \/ At(c, "raised") \/ At(c, "acquired")
  /\ entry' = [entry EXCEPT ![call[c].model].inflight = IF @ = 0 THEN 0 ELSE @ - 1]
  /\ call' = Notify([call EXCEPT ![c] = [@ EXCEPT !.at = "returned", !.answer = <<>>]])
  /\ UNCHANGED <<lane, runtime>>

Close ==
  /\ ~runtime.closed
  /\ runtime' = [closed |-> TRUE, closing |-> {m \in Models : entry[m].loaded}]
  /\ entry' = [m \in Models |->
       IF entry[m].state = "absent" THEN entry[m]
       ELSE [entry[m] EXCEPT !.state = "closed", !.loaded = FALSE]]
  /\ call' = Notify(call)
  /\ UNCHANGED lane

CloseLane(m) ==
  /\ m \in runtime.closing
  /\ runtime' = [runtime EXCEPT !.closing = @ \ {m}]
  /\ lane' = [lane EXCEPT ![m] = ClosedLane(@)]
  /\ UNCHANGED <<entry, call>>

-----------------------------------------------------------------------------
(* submit, on the caller's thread.                                         *)

TooLarge(c) == call[c].model \in Batched /\ Size[c] > MaxBatch

(* entry.lane is read again without the lock: a close in between empties   *)
(* it, and the call raises.                                                *)
CheckOpen(c) ==
  LET m == call[c].model
      open == entry[m].loaded /\ ~TooLarge(c) /\ ~lane[m].closed IN
  /\ At(c, "acquired")
  /\ call' = Goes(c, IF open THEN "checked" ELSE "raised")
  /\ UNCHANGED <<entry, lane, runtime>>

Enqueue(c) ==
  LET m == call[c].model IN
  /\ At(c, "checked")
  /\ \/ /\ Len(lane[m].queue) < Capacity
        /\ lane' = [lane EXCEPT ![m].queue = Append(@, c)]
        /\ call' = Goes(c, "queued")
     \/ /\ Len(lane[m].queue) >= Capacity
        /\ call' = Goes(c, "raised")
        /\ UNCHANGED lane
  /\ UNCHANGED <<entry, runtime>>

-----------------------------------------------------------------------------
(* The thread of a lane.                                                   *)

Thread(m, steps) == lane[m].thread \in steps
LaneMoves(m, l) == lane' = [lane EXCEPT ![m] = l] /\ UNCHANGED <<entry, runtime>>

(* first, with the batch it opens.                                         *)
Opened(l, c) ==
  [l EXCEPT !.batch = <<c>>, !.count = Size[c], !.thread = "collecting"]

TakeFirst(m) ==
  LET l == lane[m] IN
  /\ Thread(m, {"idle"})
  /\ \/ /\ l.carry # Nobody
        /\ LaneMoves(m, [Opened(l, l.carry) EXCEPT !.carry = Nobody])
     \/ /\ l.carry = Nobody /\ l.queue # <<>> /\ Head(l.queue) # Stop
        /\ LaneMoves(m, [Opened(l, Head(l.queue)) EXCEPT !.queue = Tail(@)])
     \/ /\ l.carry = Nobody /\ l.queue # <<>> /\ Head(l.queue) = Stop
        /\ LaneMoves(m, [l EXCEPT !.queue = Tail(@), !.thread = "exited"])
  /\ UNCHANGED call

(* The get times out on an empty queue; only then is the flag looked at.   *)
PollEmpty(m) ==
  /\ Thread(m, {"idle"})
  /\ lane[m].carry = Nobody /\ lane[m].queue = <<>>
  /\ LaneMoves(m, [lane[m] EXCEPT !.thread = "polled"])
  /\ UNCHANGED call

AfterPoll(m) ==
  /\ Thread(m, {"polled"})
  /\ LaneMoves(m, [lane[m] EXCEPT
       !.thread = IF lane[m].closed THEN "exited" ELSE "idle"])
  /\ UNCHANGED call

MayCollect(m) == Thread(m, {"collecting"}) /\ m \in Batched /\ lane[m].count < MaxBatch

(* Mutant of Collect: the candidate that does not fit goes back to the     *)
(* queue, as in MicroBatchExecutor.                                        *)
CollectPutsBack(m) ==
  LET l == lane[m]
      next == Head(l.queue) IN
  /\ MayCollect(m) /\ l.queue # <<>> /\ next # Stop
  /\ LaneMoves(m, IF l.count + Size[next] > MaxBatch
       THEN [l EXCEPT !.queue = Append(Tail(@), next), !.thread = "executing"]
       ELSE [l EXCEPT !.queue = Tail(@), !.batch = Append(@, next),
                      !.count = @ + Size[next]])
  /\ UNCHANGED call

(* The next request joins the batch, or starts the next one from carry.    *)
Collect(m) ==
  LET l == lane[m]
      next == Head(l.queue) IN
  /\ MayCollect(m) /\ l.queue # <<>>
  /\ \/ /\ next = Stop
        /\ LaneMoves(m, [l EXCEPT !.queue = Tail(@), !.closed = TRUE,
                                  !.thread = "executing"])
     \/ /\ next # Stop /\ l.count + Size[next] > MaxBatch
        /\ LaneMoves(m, [l EXCEPT !.queue = Tail(@), !.carry = next,
                                  !.thread = "executing"])
     \/ /\ next # Stop /\ l.count + Size[next] <= MaxBatch
        /\ LaneMoves(m, [l EXCEPT !.queue = Tail(@), !.batch = Append(@, next),
                                  !.count = @ + Size[next]])
  /\ UNCHANGED call

(* The batch is full, max_wait_ms is over, or the task takes one request.  *)
StopCollecting(m) ==
  /\ Thread(m, {"collecting"})
  /\ LaneMoves(m, [lane[m] EXCEPT !.thread = "executing"])
  /\ UNCHANGED call

(* combined.results, in the order of all_items; a request gets the slice   *)
(* that starts at its offset.  Mutant of Offset: it is not advanced.       *)
AllItems(batch) == FlattenSeq([i \in DOMAIN batch |-> ItemsOf(batch[i])])
OffsetStays(batch, k) == 0

Offset(batch, k) == Len(AllItems(SubSeq(batch, 1, k - 1)))

Slice(batch, k) ==
  SubSeq(AllItems(batch), Offset(batch, k) + 1, Offset(batch, k) + Size[batch[k]])

Execute(m) ==
  LET l == lane[m]
      place(c) == CHOOSE k \in DOMAIN l.batch : l.batch[k] = c IN
  /\ Thread(m, {"executing"})
  /\ LaneMoves(m, [l EXCEPT !.batch = <<>>, !.count = 0, !.thread = "executed"])
  /\ \/ call' = [c \in Requests |->
          IF c \in ToSet(l.batch)
          THEN [call[c] EXCEPT !.at = "answered", !.answer = Slice(l.batch, place(c))]
          ELSE call[c]]
     \/ call' = [c \in Requests |->
          IF c \in ToSet(l.batch) THEN [call[c] EXCEPT !.at = "raised"] ELSE call[c]]

(* Mutant of Drained: a closed lane exits whatever it still holds.         *)
DrainedWhenClosed(l) == l.closed

Drained(l) == l.closed /\ l.queue = <<>> /\ l.carry = Nobody

AfterExecute(m) ==
  /\ Thread(m, {"executed"})
  /\ LaneMoves(m, [lane[m] EXCEPT
       !.thread = IF Drained(lane[m]) THEN "exited" ELSE "idle"])
  /\ UNCHANGED call

LaneStep(m) ==
  \/ TakeFirst(m) \/ PollEmpty(m) \/ AfterPoll(m) \/ Collect(m)
  \/ StopCollecting(m) \/ Execute(m) \/ AfterExecute(m)

CallerStep(c) ==
  \/ Wake(c) \/ LoadFails(c) \/ LoadCompletes(c) \/ CheckOpen(c)
  \/ Enqueue(c) \/ Release(c)

Next ==
  \/ \E m \in Models : Register(m) \/ CloseLane(m) \/ LaneStep(m)
  \/ \E c \in Requests : CallerStep(c) \/ \E m \in Models : Call(c, m)
  \/ Close

Spec == Init /\ [][Next]_vars

(* Every thread runs, and a load ends one way or the other; nobody has to  *)
(* call, register or close.                                                *)
Fairness ==
  /\ \A m \in Models : WF_vars(LaneStep(m)) /\ WF_vars(CloseLane(m))
  /\ \A c \in Requests : WF_vars(CallerStep(c))

FairSpec == Spec /\ Fairness

-----------------------------------------------------------------------------
LaneRecord ==
  [ queue : Seq(Requests \cup {Stop}),
    closed : BOOLEAN,
    carry : Requests \cup {Nobody},
    batch : Seq(Requests),
    count : Nat,
    thread : ThreadStates ]

(* Types, and limits: a queue never outgrows its capacity, and while the   *)
(* runtime is open the models in memory and the loads under way together   *)
(* never exceed max_loaded_models, a load having reserved its slot before  *)
(* it started (_evict_if_needed_locked).                                   *)
CacheTypeOK ==
  /\ entry \in [Models -> [state : EntryStates, loaded : BOOLEAN, inflight : Nat]]
  /\ lane \in [Models -> LaneRecord]
  /\ call \in [Requests -> [at : CallSteps, model : Models, answer : Seq(Item)]]
  /\ runtime \in [closed : BOOLEAN, closing : SUBSET Models]
  /\ \A m \in Models : Len(lane[m].queue) <= Capacity
  /\ ~runtime.closed =>
       Cardinality({m \in Models : entry[m].loaded})
         + Cardinality({c \in Requests : At(c, "loading")}) <= MaxLoaded

(* The requests in a queue, without the marks that stop its thread.        *)
Accepted(queue) ==
  LET first[i \in 0 .. Len(queue)] ==
        IF i = 0 THEN <<>>
        ELSE IF queue[i] = Stop THEN first[i - 1]
        ELSE Append(first[i - 1], queue[i])
  IN first[Len(queue)]

(* The requests a lane has accepted, in the order it will serve them.      *)
Backlog(l) ==
  l.batch \o (IF l.carry = Nobody THEN <<>> ELSE <<l.carry>>)
          \o Accepted(l.queue)

(* A model is not evicted under a request that uses it: from _acquire to   *)
(* the answer its bundle stays, and its lane stays open with a live        *)
(* thread.  And a lane that is closed, or replaced when its model is       *)
(* loaded again, drops no request that it has accepted and not answered.   *)
EvictionSparesWork ==
  /\ ~runtime.closed =>
       \A c \in Requests : call[c].at \in Held =>
         LET m == call[c].model IN
         entry[m].loaded /\ ~lane[m].closed /\ lane[m].thread # "exited"
  /\ \A c \in Requests : At(c, "queued") =>
       c \in ToSet(Backlog(lane[call[c].model]))

(* An answer holds the results of exactly the caller's own items, in order,*)
(* whatever other requests its batch was joined from (_execute).           *)
AnswersMatch ==
  \A c \in Requests : At(c, "answered") => call[c].answer = ItemsOf(c)

(* Requests are served in the order they were accepted: a step of a lane   *)
(* answers requests at the front of the backlog or accepts one at its end, *)
(* and never reorders it.  The request that did not fit starts the next    *)
(* batch.                                                                  *)
ServedInOrder ==
  [][\A m \in Models :
       LET b == Backlog(lane[m])
           c == Backlog(lane[m])' IN
       \/ IsPrefix(b, c) \/ IsSuffix(c, b)]_vars

(* While the runtime stays open, every predict and warm call returns, with *)
(* an answer or an error: no caller waits for ever for a load, a slot, or  *)
(* a lane.                                                                 *)
CallsReturn ==
  \A c \in Requests : ~At(c, "new") ~> At(c, "returned") \/ runtime.closed

(* "leaving it to do so is safer than dropping accepted inference          *)
(* requests" (close): a request that waits behind a busy lane is answered  *)
(* even when the runtime closes meanwhile.                                 *)
BusyLaneDrains ==
  \A c \in Requests :
    /\ At(c, "queued") /\ ~lane[call[c].model].closed
    /\ lane[call[c].model].thread \in {"collecting", "executing"}
    ~> ~At(c, "queued")
=============================================================================

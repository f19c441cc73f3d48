----------------------------- MODULE RunService -----------------------------
(***************************************************************************)
(* services/run_service.py with the handlers of api/routes.py that call    *)
(* it: admission, the task of each run, the slot semaphore, the whole-run  *)
(* deadline, DELETE, the sweeper, and draining on shutdown.                *)
(*                                                                         *)
(* One asyncio event loop runs everything.  A step of the model is one     *)
(* callback of the loop: an HTTP handler, a timer, or one step of a task   *)
(* from the await it was suspended on to its next await.  run_pipeline is  *)
(* the environment here: it may return any outcome, or never return.       *)
(*                                                                         *)
(* The asyncio parts (Task.cancel/uncancel, timeout(), Semaphore) follow   *)
(* the CPython releases in which wait_for() awaits a coroutine in the      *)
(* calling task (3.12 and later; the tree carries 3.14 byte code).         *)
(***************************************************************************)
EXTENDS RunStore

CONSTANTS
  NoKey,               \* the request carries no Idempotency-Key
  MaxConcurrentRuns,   \* config.max_concurrent_runs
  MaxQueuedRuns,       \* config.max_queued_runs
  Outcomes,            \* what run_pipeline may return or raise
  RunOutlivesKey       \* idempotency_ttl_s <= run_ttl_s, as in the defaults

ASSUME ServiceAssumption ==
  /\ NoKey \notin Keys
  /\ MaxConcurrentRuns \in Nat
  /\ MaxQueuedRuns \in Nat
  /\ Outcomes \subseteq {"ok", "all_sources_failed", "upstream_timeout",
                         "llm_error", "empty_brief", "internal_error"}
  /\ RunOutlivesKey \in BOOLEAN

VARIABLES
  store,       \* self.store
  aged,        \* runs older than run_ttl_s
  lapsed,      \* keys whose idempotency entry is past its expires_at
  pc,          \* where the task of each run is suspended
  cancels,     \* Task._num_cancels_requested of the task of each run
  deadline,    \* state of the asyncio.timeout() around run_pipeline
  outcome,     \* what run_pipeline produced, once its last await is over
  ended,       \* which of runs_done/runs_failed/runs_cancelled the run bumped
  free,        \* self._slots._value
  admitted,    \* self._admitted
  executing,   \* self._executing
  phase        \* how far stop() has come

clock   == <<aged, lapsed>>
taskv   == <<pc, cancels, deadline, outcome, ended>>
counts  == <<free, admitted, executing>>
vars    == <<store, aged, lapsed, pc, cancels, deadline, outcome, ended,
             free, admitted, executing, phase>>

Working == {"running", "ready"}
Waiting == {"queued", "granted"}
Live    == {"scheduled"} \cup Waiting \cup Working
Places  == {"absent", "finished"} \cup Live

TypeOK ==
  /\ store     \in Store
  /\ aged      \subseteq Runs
  /\ lapsed    \subseteq Keys
  /\ pc        \in [Runs -> Places]
  /\ cancels   \in [Runs -> Nat]
  /\ deadline  \in [Runs -> {"off", "armed", "expiring"}]
  /\ outcome   \in [Runs -> Outcomes \cup {"none"}]
  /\ ended     \in [Runs -> {"none", "done", "error", "cancelled"}]
  /\ free      \in Nat
  /\ admitted  \in Nat
  /\ executing \in Nat
  /\ phase     \in {"up", "stopping", "draining", "stopped"}

\* The value start() gives the semaphore.
Slots == IF MaxConcurrentRuns > 1 THEN MaxConcurrentRuns ELSE 1

Init ==
  /\ store     = EmptyStore
  /\ aged      = {}
  /\ lapsed    = {}
  /\ pc        = [r \in Runs |-> "absent"]
  /\ cancels   = [r \in Runs |-> 0]
  /\ deadline  = [r \in Runs |-> "off"]
  /\ outcome   = [r \in Runs |-> "none"]
  /\ ended     = [r \in Runs |-> "none"]
  /\ free      = Slots
  /\ admitted  = 0
  /\ executing = 0
  /\ phase     = "up"

-----------------------------------------------------------------------------
(***************************************************************************)
(* asyncio.Semaphore.  Tasks reach acquire() in the order of their         *)
(* creation, so the waiters' order is the order of `born'.                 *)
(***************************************************************************)

\* A waiter whose future is still pending: neither granted nor cancelled.
Pending(p, r) == p[r] = "queued" /\ cancels[r] = 0

\* Semaphore.locked(): newcomers queue behind every waiter not cancelled.
Locked == free = 0 \/ \E r \in Runs : pc[r] = "granted" \/ Pending(pc, r)

\* With v slots to hand out, G are the oldest waiters woken, at most n.
Woken(p, v, n, G) ==
  LET eligible == {r \in Runs : Pending(p, r)}
      allowed  == IF v < n THEN v ELSE n
  IN  /\ G \subseteq eligible
      /\ \A g \in G, q \in eligible \ G : store.born[g] < store.born[q]
      /\ \/ Cardinality(G) = allowed
         \/ Cardinality(G) < allowed /\ G = eligible

\* From places p and value v, wake at most n waiters.
Wake(p, v, n) ==
  \E G \in SUBSET Runs :
    /\ Woken(p, v, n, G)
    /\ pc'   = [r \in Runs |-> IF r \in G THEN "granted" ELSE p[r]]
    /\ free' = v - Cardinality(G)

-----------------------------------------------------------------------------
(***************************************************************************)
(* Requests.  create_run, cancel and get await nothing: each is one step.  *)
(***************************************************************************)
Limit == MaxConcurrentRuns + MaxQueuedRuns

\* The run an idempotent replay would answer with.
Replayed(k) == IF k = NoKey THEN NoRun ELSE KeyRun(store, lapsed, k)

\* Mutated form of CanReplay: only a run that is still going is replayed.
CanReplayRunning(k) == /\ Replayed(k) # NoRun
                       /\ Found(store, aged, Replayed(k))
                       /\ ~IsTerminal(store, Replayed(k))

CanReplay(k) == Replayed(k) # NoRun /\ Found(store, aged, Replayed(k))

\* What the two lookups of create_run leave behind when there is no replay.
AfterLookup(k) ==
  IF k = NoKey THEN store
  ELSE IF Replayed(k) = NoRun THEN LookupKey(store, lapsed, k)
  ELSE Get(store, aged, Replayed(k))

\* Mutated form of CapacityAvailable: one too many.
CapacityOffByOne == admitted <= Limit

\* capacity_available()
CapacityAvailable == admitted < Limit

\* create_run refused with CapacityExceeded.
Reject(k) ==
  /\ phase = "up"
  /\ ~CanReplay(k)
  /\ ~CapacityAvailable
  /\ store' = AfterLookup(k)
  /\ lapsed' = IF store'.keys = store.keys THEN lapsed ELSE lapsed \ {k}
  /\ UNCHANGED <<aged, taskv, counts, phase>>

\* create_run admits run r and schedules its task.
Accept(k, r) ==
  /\ phase = "up"
  /\ ~CanReplay(k)
  /\ CapacityAvailable
  /\ pc[r] = "absent"
  /\ LET s == Insert(AfterLookup(k), r)
     IN  \E V \in SUBSET Runs :
           /\ IsEviction(s, V)
           /\ store' = IF k = NoKey THEN Drop(s, V)
                       ELSE RememberKey(Drop(s, V), k, r)
  /\ lapsed'   = lapsed \ {k}
  /\ admitted' = admitted + 1
  /\ pc'       = [pc EXCEPT ![r] = "scheduled"]
  /\ UNCHANGED <<aged, cancels, deadline, outcome, ended, free, executing, phase>>

\* GET /runs/{r}, and a DELETE that answers 404 or 409: one store.get.
Poll(r) ==
  /\ phase # "stopped"
  /\ pc[r] # "absent"
  /\ store' = Get(store, aged, r)
  /\ UNCHANGED <<clock, taskv, counts, phase>>

\* What cancel() insists on, else the answer is 404 or 409.
Cancellable(r) == Found(store, aged, r) /\ ~IsTerminal(store, r)

\* Mutated form of CancelTask: a task that is being cancelled is left alone.
CancelTaskOnce(r) ==
  cancels' = IF pc[r] \in Live /\ cancels[r] = 0
             THEN [cancels EXCEPT ![r] = 1] ELSE cancels

\* Task.cancel(), of no effect on a task that is done.
CancelTask(r) ==
  cancels' = IF pc[r] \in Live THEN [cancels EXCEPT ![r] = @ + 1] ELSE cancels

\* DELETE /runs/{r} of a run that is still going.  The id reaches a client
\* only after the response to its POST, hence after the task's first step.
Cancel(r) ==
  /\ phase # "stopped"
  /\ pc[r] \notin {"absent", "scheduled"}
  /\ Cancellable(r)
  /\ CancelTask(r)
  /\ LET s == Finish(store, aged, r, [status |-> "cancelled",
                                      code |-> "cancelled", by |-> "request"])
     IN  store' = Get(s, aged, r)
  /\ UNCHANGED <<clock, pc, deadline, outcome, ended, counts, phase>>

-----------------------------------------------------------------------------
(***************************************************************************)
(* The task of a run: _execute.                                            *)
(***************************************************************************)

\* Mutated form of EnterPipeline: _executing is not incremented.
EnterUncounted(r) ==
  /\ UNCHANGED executing
  /\ deadline' = [deadline EXCEPT ![r] = "armed"]

\* Mutated form of EnterPipeline: run_pipeline is awaited without wait_for.
EnterUntimed(r) ==
  /\ executing' = executing + 1
  /\ UNCHANGED deadline

\* Past the semaphore: _executing goes up and wait_for arms the deadline.
EnterPipeline(r) ==
  /\ executing' = executing + 1
  /\ deadline'  = [deadline EXCEPT ![r] = "armed"]

\* The first step of the task, up to acquire().  New tasks start in order.
Start(r) ==
  /\ pc[r] = "scheduled"
  /\ \A q \in Runs : pc[q] = "scheduled" => store.born[r] <= store.born[q]
  /\ IF Locked
     THEN /\ pc' = [pc EXCEPT ![r] = "queued"]
          /\ UNCHANGED <<free, executing, deadline>>
     ELSE /\ pc' = [pc EXCEPT ![r] = "running"]
          /\ free' = free - 1
          /\ EnterPipeline(r)
  /\ UNCHANGED <<store, clock, cancels, outcome, ended, admitted, phase>>

\* acquire() returns: take the slot and wake whoever else may go.
Resume(r) ==
  /\ pc[r] = "granted"
  /\ cancels[r] = 0
  /\ Wake([pc EXCEPT ![r] = "running"], free, free)
  /\ EnterPipeline(r)
  /\ UNCHANGED <<store, clock, cancels, outcome, ended, admitted, phase>>

\* run_pipeline's last await is over; the task has not been stepped yet.
PipelineEnds(r, o) ==
  /\ pc[r] = "running"
  /\ cancels[r] = 0
  /\ pc'      = [pc EXCEPT ![r] = "ready"]
  /\ outcome' = [outcome EXCEPT ![r] = o]
  /\ UNCHANGED <<store, clock, cancels, deadline, ended, counts, phase>>

\* The whole-run timer: Timeout._on_timeout.
DeadlineFires(r) ==
  /\ pc[r] \in Working
  /\ deadline[r] = "armed"
  /\ deadline' = [deadline EXCEPT ![r] = "expiring"]
  /\ cancels'  = [cancels EXCEPT ![r] = @ + 1]
  /\ UNCHANGED <<store, clock, pc, outcome, ended, counts, phase>>

\* Mutated form of Verdict: a result that is there wins over a cancellation,
\* as with the wait_for() of CPython up to 3.11.
VerdictResultWins(r) ==
  CASE outcome[r] # "none"        -> outcome[r]
    [] deadline[r] = "expiring"   -> "run_timeout"
    [] OTHER                      -> "cancelled"

\* Mutated form of Verdict: a deadline that fired wins over a cancellation.
VerdictDeadlineWins(r) ==
  CASE cancels[r] = 0             -> outcome[r]
    [] deadline[r] = "expiring"   -> "run_timeout"
    [] OTHER                      -> "cancelled"

\* What leaves `async with self._slots': the outcome, or the CancelledError
\* that a request causes, which timeout() turns into TimeoutError when the
\* deadline asked for it and nobody else did.
Verdict(r) ==
  CASE cancels[r] = 0                              -> outcome[r]
    [] cancels[r] = 1 /\ deadline[r] = "expiring"  -> "run_timeout"
    [] OTHER                                       -> "cancelled"

\* The record each branch of _execute writes.
Closing(v) ==
  [status |-> CASE v = "ok" -> "done" [] v = "cancelled" -> "cancelled"
                [] OTHER -> "error",
   code   |-> IF v = "ok" THEN "none" ELSE v,
   by     |-> "task"]

\* Mutated form of Close: a cancelled run keeps its admission.
CloseLeaking(r, v) ==
  /\ store'    = Finish(store, aged, r, Closing(v))
  /\ ended'    = [ended EXCEPT ![r] = Closing(v).status]
  /\ admitted' = IF v = "cancelled" THEN admitted ELSE admitted - 1
  /\ cancels'  = [cancels EXCEPT ![r] = 0]
  /\ deadline' = [deadline EXCEPT ![r] = "off"]
  /\ outcome'  = [outcome EXCEPT ![r] = "none"]

\* The tail of _execute: _finish, the counter, and the finally clause.
Close(r, v) ==
  /\ store'    = Finish(store, aged, r, Closing(v))
  /\ ended'    = [ended EXCEPT ![r] = Closing(v).status]
  /\ admitted' = IF admitted > 0 THEN admitted - 1 ELSE 0
  /\ cancels'  = [cancels EXCEPT ![r] = 0]
  /\ deadline' = [deadline EXCEPT ![r] = "off"]
  /\ outcome'  = [outcome EXCEPT ![r] = "none"]

\* A cancelled acquire() gives back the slot it was granted, if it was.
GivenBack(r) == IF pc[r] = "granted" THEN free + 1 ELSE free

\* Cancelled while queueing for a slot.
AbandonQueue(r) ==
  /\ pc[r] \in Waiting
  /\ cancels[r] > 0
  /\ Wake([pc EXCEPT ![r] = "finished"], GivenBack(r), GivenBack(r))
  /\ Close(r, "cancelled")
  /\ UNCHANGED <<clock, executing, phase>>

\* Mutated form of Released: released after the await, not in a finally.
ReleasedOnResult(r) == IF outcome[r] = "ok" THEN free + 1 ELSE free

\* `async with self._slots' gives the slot back however the body ends.
Released(r) == free + 1

\* run_pipeline returned or raised: leave the deadline and the slot, finish.
Conclude(r) ==
  /\ pc[r] = "ready" \/ (pc[r] = "running" /\ cancels[r] > 0)
  /\ executing' = executing - 1
  /\ Wake([pc EXCEPT ![r] = "finished"], Released(r), 1)
  /\ Close(r, Verdict(r))
  /\ UNCHANGED <<clock, phase>>

-----------------------------------------------------------------------------
(***************************************************************************)
(* The sweeper, shutdown, and time.                                        *)
(***************************************************************************)
Sweep ==
  /\ phase = "up"
  /\ LET s == DropExpired(store, aged, lapsed)
     IN  \E V \in SUBSET Runs : IsEviction(s, V) /\ store' = Drop(s, V)
  /\ lapsed' = {}
  /\ UNCHANGED <<aged, taskv, counts, phase>>

\* stop(): no more admissions; the sweeper is cancelled and awaited.
StopBegin ==
  /\ phase = "up"
  /\ phase' = "stopping"
  /\ UNCHANGED <<store, clock, taskv, counts>>

\* The sweeper's end is queued behind the first step of every task created
\* before stop(), so no task is cancelled before it ran.
StopDrain ==
  /\ phase = "stopping"
  /\ \A r \in Runs : pc[r] # "scheduled"
  /\ phase'   = "draining"
  /\ cancels' = [r \in Runs |-> IF pc[r] \in Live THEN cancels[r] + 1
                                ELSE cancels[r]]
  /\ UNCHANGED <<store, clock, pc, deadline, outcome, ended, counts>>

\* asyncio.wait returns: every task is done or the grace period is over.
StopEnd ==
  /\ phase = "draining"
  /\ phase' = "stopped"
  /\ UNCHANGED <<store, clock, taskv, counts>>

\* run_ttl_s has passed since r was created; older runs get there first.
RunAges(r) ==
  /\ r \in Created(store) \ aged
  /\ \A q \in Created(store) : store.born[q] < store.born[r] => q \in aged
  /\ RunOutlivesKey => \A k \in Keys : store.keys[k] = r => k \in lapsed
  /\ aged' = aged \cup {r}
  /\ UNCHANGED <<store, lapsed, taskv, counts, phase>>

\* idempotency_ttl_s has passed since key k was remembered.
KeyLapses(k) ==
  /\ store.keys[k] # NoRun
  /\ k \notin lapsed
  /\ lapsed' = lapsed \cup {k}
  /\ UNCHANGED <<store, aged, taskv, counts, phase>>

Request == \/ \E k \in Keys \cup {NoKey} : Reject(k)
           \/ \E k \in Keys \cup {NoKey}, r \in Runs : Accept(k, r)
           \/ \E r \in Runs : Poll(r) \/ Cancel(r)

TaskStep(r) == \/ Start(r) \/ Resume(r) \/ AbandonQueue(r) \/ Conclude(r)

Stop == StopBegin \/ StopDrain \/ StopEnd

Next == \/ Request
        \/ \E r \in Runs : TaskStep(r) \/ DeadlineFires(r) \/ RunAges(r)
        \/ \E r \in Runs, o \in Outcomes : PipelineEnds(r, o)
        \/ \E k \in Keys : KeyLapses(k)
        \/ Sweep
        \/ Stop

(***************************************************************************)
(* The loop steps every task that is ready and fires every timer; a run of *)
(* stop() goes on to its end.  Nothing is assumed of requests, of          *)
(* run_pipeline, or of the passing of the TTLs.                            *)
(***************************************************************************)
Fairness == /\ \A r \in Runs : WF_vars(TaskStep(r)) /\ WF_vars(DeadlineFires(r))
            /\ WF_vars(StopDrain)
            /\ WF_vars(StopEnd)

Spec == Init /\ [][Next]_vars
FairSpec == Spec /\ Fairness

-----------------------------------------------------------------------------
(***************************************************************************)
(* Properties.                                                             *)
(***************************************************************************)

LiveRuns    == {r \in Runs : pc[r] \in Live}
WorkingRuns == {r \in Runs : pc[r] \in Working}
GrantedRuns == {r \in Runs : pc[r] = "granted"}

\* The two counters health() reports and admission relies on are exact: a
\* task that ends by any path (result, error, deadline, DELETE, shutdown, in
\* the queue or in the pipeline) gives back its admission exactly once.
CountersExact ==
  /\ admitted  = Cardinality(LiveRuns)
  /\ executing = Cardinality(WorkingRuns)

\* Admission bounds the load: never more live tasks than the configured limit,
\* never more pipelines at work than slots.
LoadBounded ==
  /\ Cardinality(LiveRuns) <= Limit
  /\ Cardinality(WorkingRuns) <= Slots

\* Slots are neither lost nor invented, whichever of release, cancellation of
\* a waiter and arrival of a newcomer come first; and a run never queues at
\* an idle slot that no one is about to take or to pass on.
SlotsConserved ==
  /\ free + Cardinality(WorkingRuns) + Cardinality(GrantedRuns) = Slots
  /\ free > 0 /\ GrantedRuns = {} => \A r \in Runs : ~Pending(pc, r)

\* Neither the TTL, nor the capacity cap, nor a lookup removes a run that is
\* still going; and no run is left at "running" once its task is over.
RunningMeansLive ==
  \A r \in Runs :
    /\ pc[r] \in Live /\ cancels[r] = 0 =>
         r \in store.runs /\ store.rec[r].status = "running"
    /\ r \in store.runs /\ store.rec[r].status = "running" => pc[r] \in Live

\* RecordFollowsTask for one run.
RecordFollows(r) ==
  /\ pc[r] = "absent" => store.rec[r] = Fresh /\ r \notin store.runs
  /\ pc[r] \in {"absent", "scheduled", "finished"} => cancels[r] = 0
  /\ pc[r] \notin Working => deadline[r] = "off"
  /\ deadline[r] = "expiring" => cancels[r] > 0
  /\ pc[r] \in Live /\ ~IsTerminal(store, r) => r \in store.runs
  /\ pc[r] \in Live /\ IsTerminal(store, r) =>
       /\ store.rec[r].status = "cancelled" /\ store.rec[r].code = "cancelled"
       /\ cancels[r] > (IF deadline[r] = "expiring" THEN 1 ELSE 0)
  /\ pc[r] = "finished" =>
       IsTerminal(store, r) /\ store.rec[r].status = ended[r]

\* Where a task is determines what may be on record.  Until its DELETE or its
\* end a run is held as running; a record that is terminal while the task is
\* live was written by a DELETE whose cancellation is still on its way and
\* outnumbers what the deadline asked for; and the record of a task that is
\* over agrees with the metric that its last branch bumped, even if the store
\* lost the record meanwhile.
RecordFollowsTask ==
  \A r \in Runs : RecordFollows(r)

\* The store's hard cap: it is exceeded only while more runs than that are
\* going at once, so the records held never outnumber the larger of the two.
StoreBounded ==
  Cardinality(store.runs) <= (IF Cap > Limit THEN Cap ELSE Limit)

\* evicted_total counts each run that left the store once, although lookups,
\* the sweeper and the capacity walk all remove runs.
EvictionsCounted ==
  store.evicted + Cardinality(store.runs) = Cardinality(Created(store))

\* Once terminal, the status and the error code of a run stay what they were:
\* a completion, a failure or the deadline racing a DELETE does not overturn
\* the answer that DELETE gave.
OutcomeIsFinal ==
  [][\A r \in Runs : IsTerminal(store, r) =>
        /\ store'.rec[r].status = store.rec[r].status
        /\ store'.rec[r].code   = store.rec[r].code]_vars

\* The same for the whole record, its finished_at included.
\* store.py: a run in a terminal state will never change again; run_service.py:
\* the task's own handler writes the same state, the write is idempotent.
RecordIsFinal ==
  [][\A r \in Runs : IsTerminal(store, r) => store'.rec[r] = store.rec[r]]_vars

\* A key that has not passed its time to live keeps naming the run it named:
\* a form submitted twice does not start a second run.
KeyNamesOneRun ==
  [][\A k \in Keys : store.keys[k] # NoRun /\ k \notin lapsed \cup lapsed' =>
                       store'.keys[k] = store.keys[k]]_vars

\* After stop() cancelled the tasks, whatever ends, ends as cancelled: not as
\* a deadline that had fired already nor as a result that was on its way.
DrainCancels ==
  [][\A r \in Runs :
        /\ phase \in {"draining", "stopped"}
        /\ pc[r] \in Live /\ pc'[r] = "finished"
        => ended'[r] = "cancelled"]_vars

\* Every admitted run ends, even if its pipeline never returns and if it had
\* to queue behind runs whose pipelines never return.
EveryRunEnds ==
  \A r \in Runs : pc[r] \in Live ~> pc[r] = "finished"

\* The answer GET /runs/{r} gives.
View(r) == IF store.born[r] = 0 THEN "unknown"
           ELSE IF Found(store, aged, r) THEN store.rec[r].status
           ELSE "gone"

Contract == INSTANCE RunContract WITH
              view <- [r \in Runs |-> View(r)], since <- store.born,
              overdue <- aged

\* Tasks, slots, cancellation, lookups that pop, the sweeper and the capacity
\* walk together do what RunContract promises: in particular the TTL acts at
\* once, whenever the sweeper runs, and an expired run that was not swept yet
\* never costs a younger one its place under the cap.
ImplementsContract == Contract!Spec
=============================================================================

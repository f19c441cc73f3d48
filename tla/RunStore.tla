------------------------------ MODULE RunStore ------------------------------
(***************************************************************************)
(* services/store.py: the bounded, TTL'd map of runs and the idempotency   *)
(* map, as pure operators on a store value.  Every method runs on the      *)
(* event loop thread and awaits nothing, so one call is one application.   *)
(*                                                                         *)
(* Time enters through two sets the caller supplies: `aged', the runs      *)
(* whose age exceeds run_ttl_s, and `lapsed', the keys whose entry has     *)
(* passed its expires_at.  finished_at is abstracted to `by', the call of  *)
(* _finish that stamped it: two calls read the clock at two moments.       *)
(***************************************************************************)
EXTENDS Integers, FiniteSets

CONSTANTS
  Runs,            \* run ids; uuid4 never hands out the same one twice
  Keys,            \* Idempotency-Key header values
  NoRun,           \* "no run": lookup_key returned None
  MaxStoredRuns    \* config.max_stored_runs

ASSUME StoreAssumption ==
  /\ IsFiniteSet(Runs)
  /\ NoRun \notin Runs
  /\ MaxStoredRuns \in Nat

Terminal == {"done", "error", "cancelled"}
Status   == {"running"} \cup Terminal

\* error_code, None when the run did not fail.
Codes == {"none", "cancelled", "run_timeout", "all_sources_failed",
          "upstream_timeout", "llm_error", "empty_brief", "internal_error"}

Record == [status : Status, code : Codes, by : {"nobody", "request", "task"}]

Fresh == [status |-> "running", code |-> "none", by |-> "nobody"]

(***************************************************************************)
(* A store: the ids it holds, the record of each id, the position at which *)
(* the id entered the OrderedDict (0: never), the eviction counter, and    *)
(* the run each idempotency key names.                                     *)
(***************************************************************************)
Store == [runs    : SUBSET Runs,
          rec     : [Runs -> Record],
          born    : [Runs -> Nat],
          evicted : Nat,
          keys    : [Keys -> Runs \cup {NoRun}]]

EmptyStore == [runs    |-> {},
               rec     |-> [r \in Runs |-> Fresh],
               born    |-> [r \in Runs |-> 0],
               evicted |-> 0,
               keys    |-> [k \in Keys |-> NoRun]]

IsTerminal(s, r) == s.rec[r].status \in Terminal

\* Ids that were put at some time, whether or not they are still held.
Created(s) == {r \in Runs : s.born[r] # 0}

\* Mutated form of IsExpired: the age alone decides.
IsExpiredByAge(s, aged, r) == r \in aged

(***************************************************************************)
(* Only terminal runs expire: an in-flight run may outlive the TTL.        *)
(***************************************************************************)
IsExpired(s, aged, r) == IsTerminal(s, r) /\ r \in aged

Drop(s, R) == [s EXCEPT !.runs = @ \ R, !.evicted = @ + Cardinality(R)]

\* get(r) returns a record ...
Found(s, aged, r) == r \in s.runs /\ ~IsExpired(s, aged, r)

\* Mutated form of Get: an expired record is popped and not counted.
GetUncounted(s, aged, r) ==
  IF r \in s.runs /\ IsExpired(s, aged, r) THEN [s EXCEPT !.runs = @ \ {r}]
  ELSE s

\* ... and leaves this store behind: an expired record is popped and counted.
Get(s, aged, r) ==
  IF r \in s.runs /\ IsExpired(s, aged, r) THEN Drop(s, {r}) ELSE s

Cap == IF MaxStoredRuns > 1 THEN MaxStoredRuns ELSE 1

Concluded(s) == {r \in s.runs : IsTerminal(s, r)}

\* Mutated form of IsEviction: the walk stops at the first run still going.
IsEvictionToLive(s, V) ==
  LET reach  == {r \in Concluded(s) : \A q \in s.runs :
                   s.born[q] < s.born[r] => IsTerminal(s, q)}
      excess == Cardinality(s.runs) - Cap
  IN  /\ V \subseteq reach
      /\ \A v \in V, w \in reach \ V : s.born[v] < s.born[w]
      /\ IF excess <= 0 THEN V = {}
         ELSE Cardinality(V) = excess \/ (Cardinality(V) < excess /\ V = reach)

\* Mutated form of IsEviction: newest first, as with reversed(self._runs).
IsEvictionNewest(s, V) ==
  LET excess == Cardinality(s.runs) - Cap
      spare  == Concluded(s) \ V
  IN  /\ V \subseteq Concluded(s)
      /\ \A v \in V, w \in spare : s.born[v] > s.born[w]
      /\ IF excess <= 0 THEN V = {}
         ELSE Cardinality(V) = excess \/ (Cardinality(V) < excess /\ spare = {})

(***************************************************************************)
(* _enforce_capacity walks the ids oldest first and drops terminal runs    *)
(* until the cap is met or no terminal run is left.  IsEviction(s, V) says *)
(* that V is the set of runs this walk drops.                              *)
(***************************************************************************)
IsEviction(s, V) ==
  LET excess == Cardinality(s.runs) - Cap
      spare  == Concluded(s) \ V
  IN  /\ V \subseteq Concluded(s)
      /\ \A v \in V, w \in spare : s.born[v] < s.born[w]
      /\ IF excess <= 0 THEN V = {}
         ELSE Cardinality(V) = excess \/ (Cardinality(V) < excess /\ spare = {})

\* put(r) before its call of _enforce_capacity; ids are new, so they go last.
Insert(s, r) ==
  [s EXCEPT !.runs = @ \cup {r},
            !.rec  = [@ EXCEPT ![r] = Fresh],
            !.born = [@ EXCEPT ![r] = Cardinality(Created(s)) + 1]]

\* sweep() before its call of _enforce_capacity.
DropExpired(s, aged, lapsed) ==
  [Drop(s, {r \in s.runs : IsExpired(s, aged, r)}) EXCEPT
     !.keys = [k \in Keys |-> IF k \in lapsed THEN NoRun ELSE @[k]]]

\* remember_key(k, r)
RememberKey(s, k, r) == [s EXCEPT !.keys[k] = r]

\* lookup_key(k): the run it returns, and the store it leaves behind.
KeyRun(s, lapsed, k) == IF k \in lapsed THEN NoRun ELSE s.keys[k]

LookupKey(s, lapsed, k) ==
  IF k \in lapsed THEN [s EXCEPT !.keys[k] = NoRun] ELSE s

\* RunService._finish: look the record up and, if it is there, overwrite it.
Finish(s, aged, r, record) ==
  IF Found(s, aged, r) THEN [s EXCEPT !.rec = [@ EXCEPT ![r] = record]] ELSE Get(s, aged, r)
=============================================================================

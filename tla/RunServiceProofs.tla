-------------------------- MODULE RunServiceProofs --------------------------
(***************************************************************************)
(* Theorems about RunService for every value of its constants.             *)
(*                                                                         *)
(* The type invariant needs the counters: that executing stays a natural   *)
(* number is because it counts the working runs.  So TypeOK and Counts     *)
(* are proved inductive together, and RecordFollowsTask on top of them.    *)
(***************************************************************************)
EXTENDS RunService, RunStoreProofs

USE DEF Places, Live, Waiting, Working

\* What the counters count, and the first bound that makes admission.
Counts ==
  /\ admitted  = Cardinality(LiveRuns)
  /\ executing = Cardinality(WorkingRuns)
  /\ free + Cardinality(WorkingRuns) + Cardinality(GrantedRuns) = Slots
  /\ admitted <= Limit

-----------------------------------------------------------------------------
(***************************************************************************)
(* Counting.                                                               *)
(***************************************************************************)

\* One run more, or one fewer, in a set of runs.
LEMMA OneMoreOrLess ==
  ASSUME NEW R \in SUBSET Runs, NEW r \in Runs
  PROVE  /\ r \notin R => Cardinality(R \cup {r}) = Cardinality(R) + 1
         /\ r \in R => Cardinality(R \ {r}) = Cardinality(R) - 1
BY RunCount, FS_AddElement, FS_RemoveElement

\* Disjoint sets of runs add up.
LEMMA DisjointUnion ==
  ASSUME NEW R \in SUBSET Runs, NEW G \in SUBSET Runs, R \cap G = {}
  PROVE  Cardinality(R \cup G) = Cardinality(R) + Cardinality(G)
<1>1. Cardinality(R \cup G) =
        Cardinality(R) + Cardinality(G) - Cardinality(R \cap G)
  BY RunCount, FS_Union
<1>. QED
  BY <1>1, RunCount, FS_EmptySet

\* Bounds of the configuration.
LEMMA Sizes == Slots \in Nat /\ Limit \in Nat
BY ServiceAssumption DEF Slots, Limit

\* Waking waiters moves slots from the semaphore to the granted runs and runs
\* from "queued" to "granted", and does nothing else.
LEMMA WakeMoves ==
  ASSUME TypeOK, NEW p \in [Runs -> Places], NEW v \in Nat, NEW n \in Nat,
         Wake(p, v, n)
  PROVE  /\ pc' \in [Runs -> Places]
         /\ free' \in Nat
         /\ \A r \in Runs : \/ pc'[r] = p[r]
                            \/ Pending(p, r) /\ pc'[r] = "granted"
         /\ free' + Cardinality(GrantedRuns') =
              v + Cardinality({r \in Runs : p[r] = "granted"})
<1>1. PICK G \in SUBSET Runs :
        /\ Woken(p, v, n, G)
        /\ pc' = [r \in Runs |-> IF r \in G THEN "granted" ELSE p[r]]
        /\ free' = v - Cardinality(G)
  BY DEF Wake
<1>. DEFINE P == {r \in Runs : p[r] = "granted"}
<1>2. \A r \in G : Pending(p, r)
  BY <1>1 DEF Woken
<1>3. Cardinality(G) \in Nat /\ Cardinality(G) <= v
  <2>1. Cardinality(G) \in Nat
    BY RunCount
  <2>. QED
    BY <1>1, <2>1 DEF Woken
<1>4. GrantedRuns' = P \cup G /\ P \cap G = {}
  BY <1>1, <1>2 DEF GrantedRuns, Pending
<1>5. Cardinality(GrantedRuns') = Cardinality(P) + Cardinality(G)
  BY <1>4, DisjointUnion
<1>6. Cardinality(P) \in Nat
  BY RunCount
<1>. QED
  BY <1>1, <1>2, <1>3, <1>5, <1>6

-----------------------------------------------------------------------------
(***************************************************************************)
(* What requests do to the store.                                          *)
(***************************************************************************)

\* The lookups of create_run shrink the store.
LEMMA AfterLookupShrinks ==
  ASSUME TypeOK, NEW k \in Keys \cup {NoKey}
  PROVE  AfterLookup(k) \in Store /\ Shrinks(store, AfterLookup(k))
<1>0. store \in Store
  BY DEF TypeOK
<1>1. CASE k = NoKey
  BY <1>0, <1>1 DEF AfterLookup, Shrinks
<1>2. CASE k # NoKey
  <2>1. k \in Keys /\ Replayed(k) = KeyRun(store, lapsed, k)
    BY <1>2 DEF Replayed
  <2>2. Replayed(k) \in Runs \cup {NoRun}
    BY <1>0, <2>1, LookupKeyShrinks
  <2>3. CASE Replayed(k) = NoRun
    BY <1>0, <1>2, <2>1, <2>3, LookupKeyShrinks DEF AfterLookup
  <2>4. CASE Replayed(k) # NoRun
    BY <1>0, <1>2, <2>2, <2>4, GetShrinks DEF AfterLookup
  <2>. QED
    BY <2>3, <2>4
<1>. QED
  BY <1>1, <1>2

\* Admission adds a fresh record; whatever else leaves the store is concluded.
LEMMA AcceptStores ==
  ASSUME TypeOK, NEW k \in Keys \cup {NoKey}, NEW r \in Runs, Accept(k, r),
         store.rec[r] = Fresh
  PROVE  /\ store' \in Store
         /\ store'.rec = [store.rec EXCEPT ![r] = Fresh]
         /\ store'.runs \subseteq store.runs \cup {r}
         /\ \A q \in (store.runs \cup {r}) \ store'.runs : IsTerminal(store, q)
<1>. DEFINE a == AfterLookup(k)
            s == Insert(a, r)
<1>1. a \in Store /\ Shrinks(store, a)
  BY AfterLookupShrinks
<1>2. /\ s \in Store /\ s.runs = a.runs \cup {r}
      /\ s.rec = [a.rec EXCEPT ![r] = Fresh]
  BY <1>1, InsertStores
<1>3. PICK V \in SUBSET Runs :
        /\ IsEviction(s, V)
        /\ store' = IF k = NoKey THEN Drop(s, V)
                    ELSE RememberKey(Drop(s, V), k, r)
  BY DEF Accept
<1>. DEFINE d == Drop(s, V)
<1>4. d \in Store /\ Shrinks(s, d)
  BY <1>2, <1>3, EvictionShrinks
<1>5. store' \in Store /\ store'.runs = d.runs /\ store'.rec = d.rec
  <2>. HIDE DEF d
  <2>1. k # NoKey => k \in Keys
    OBVIOUS
  <2>2. store' = IF k = NoKey THEN d ELSE RememberKey(d, k, r)
    BY <1>3 DEF d
  <2>. QED
    BY <1>4, <2>1, <2>2 DEF RememberKey, Store
<1>6. store'.rec = [store.rec EXCEPT ![r] = Fresh]
  BY <1>1, <1>2, <1>4, <1>5 DEF Shrinks
<1>7. ASSUME NEW q \in (store.runs \cup {r}) \ store'.runs
      PROVE  IsTerminal(store, q)
  <2>. HIDE DEF a, s, d
  <2>0. store.rec \in [Runs -> Record] /\ store.runs \in SUBSET Runs
    BY DEF TypeOK, Store
  <2>1. CASE q \in s.runs \ d.runs
    <3>1. IsTerminal(s, q)
      BY <1>4, <2>1 DEF Shrinks
    <3>2. s.rec = store.rec
      BY <1>1, <1>2, <2>0 DEF Shrinks
    <3>. QED
      BY <3>1, <3>2 DEF IsTerminal
  <2>2. CASE q \in store.runs \ a.runs
    BY <1>1, <2>2 DEF Shrinks
  <2>. QED
    BY <1>2, <1>5, <2>1, <2>2
<1>. QED
  BY <1>1, <1>2, <1>4, <1>5, <1>6, <1>7 DEF Shrinks

\* _finish keeps the type of the store, whatever verdict it records.
LEMMA ClosingStores ==
  ASSUME TypeOK, NEW r \in Runs, NEW v \in Codes \cup {"ok"}
  PROVE  /\ Closing(v) \in Record
         /\ Closing(v).status \in Terminal
         /\ Finish(store, aged, r, Closing(v)) \in Store
<1>1. /\ Closing(v) \in Record
      /\ Closing(v).status \in Terminal
  BY DEF Closing, Record, Status, Terminal, Codes
<1>. QED
  BY <1>1, FinishStores DEF TypeOK

\* A verdict is a result or an error code.
LEMMA VerdictType ==
  ASSUME TypeOK, NEW r \in Runs
  PROVE  Verdict(r) \in Codes \cup {"ok"}
<1>1. outcome[r] \in Codes \cup {"ok"}
  BY ServiceAssumption DEF TypeOK, Codes
<1>. QED
  BY <1>1 DEF Verdict, Codes

-----------------------------------------------------------------------------
(***************************************************************************)
(* TypeOK and Counts are inductive: one lemma per group of actions.        *)
(***************************************************************************)

\* Steps that move no task and touch no counter keep the counts.
LEMMA CountsUnchanged ==
  ASSUME Counts, UNCHANGED <<free, admitted, executing>>,
         pc' = pc
  PROVE  Counts'
BY DEF Counts, LiveRuns, WorkingRuns, GrantedRuns

LEMMA RejectCounts ==
  ASSUME TypeOK, Counts, NEW k \in Keys \cup {NoKey}, Reject(k)
  PROVE  TypeOK' /\ Counts'
<1>1. store' \in Store
  BY AfterLookupShrinks DEF Reject
<1>. QED
  BY <1>1, CountsUnchanged DEF Reject, TypeOK, taskv, counts

LEMMA AcceptCounts ==
  ASSUME TypeOK, Counts, NEW k \in Keys \cup {NoKey}, NEW r \in Runs,
         Accept(k, r), store.rec[r] = Fresh
  PROVE  TypeOK' /\ Counts'
<1>1. TypeOK'
  <2>1. store' \in Store
    BY AcceptStores
  <2>. QED
    BY <2>1 DEF Accept, TypeOK
<1>2. Counts'
  <2>1. /\ LiveRuns' = LiveRuns \cup {r} /\ r \notin LiveRuns
        /\ WorkingRuns' = WorkingRuns /\ GrantedRuns' = GrantedRuns
    BY DEF Accept, TypeOK, LiveRuns, WorkingRuns, GrantedRuns
  <2>2. Cardinality(LiveRuns') = Cardinality(LiveRuns) + 1
    BY <2>1, OneMoreOrLess DEF LiveRuns
  <2>3. admitted' <= Limit
    BY Sizes DEF Accept, CapacityAvailable, TypeOK
  <2>. QED
    BY <2>1, <2>2, <2>3 DEF Accept, Counts
<1>. QED
  BY <1>1, <1>2

LEMMA PollCounts ==
  ASSUME TypeOK, Counts, NEW r \in Runs, Poll(r)
  PROVE  TypeOK' /\ Counts'
<1>1. store' \in Store
  BY GetShrinks DEF Poll, TypeOK
<1>. QED
  BY <1>1, CountsUnchanged DEF Poll, TypeOK, clock, taskv, counts

LEMMA CancelCounts ==
  ASSUME TypeOK, Counts, NEW r \in Runs, Cancel(r)
  PROVE  TypeOK' /\ Counts'
<1>. DEFINE c == [status |-> "cancelled", code |-> "cancelled", by |-> "request"]
<1>1. c \in Record
  BY DEF Record, Status, Terminal, Codes
<1>2. Finish(store, aged, r, c) \in Store
  BY <1>1, FinishStores DEF TypeOK
<1>3. store' \in Store
  BY <1>2, GetShrinks DEF Cancel
<1>4. cancels' \in [Runs -> Nat]
  BY DEF Cancel, CancelTask, TypeOK
<1>. QED
  BY <1>3, <1>4, CountsUnchanged DEF Cancel, TypeOK, clock, counts

LEMMA StartCounts ==
  ASSUME TypeOK, Counts, NEW r \in Runs, Start(r)
  PROVE  TypeOK' /\ Counts'
<1>1. pc[r] = "scheduled" /\ LiveRuns' = LiveRuns /\ GrantedRuns' = GrantedRuns
  BY DEF Start, TypeOK, LiveRuns, GrantedRuns
<1>2. CASE Locked
  <2>1. WorkingRuns' = WorkingRuns
    BY <1>2 DEF Start, TypeOK, WorkingRuns
  <2>. QED
    BY <1>1, <1>2, <2>1 DEF Start, TypeOK, Counts, clock
<1>3. CASE ~Locked
  <2>1. free \in Nat /\ free # 0
    BY <1>3 DEF TypeOK, Locked
  <2>2. WorkingRuns' = WorkingRuns \cup {r} /\ r \notin WorkingRuns
    BY <1>3 DEF Start, TypeOK, WorkingRuns
  <2>3. Cardinality(WorkingRuns') = Cardinality(WorkingRuns) + 1
    BY <2>2, OneMoreOrLess DEF WorkingRuns
  <2>4. Cardinality(WorkingRuns) \in Nat /\ Cardinality(GrantedRuns) \in Nat
    BY RunCount DEF WorkingRuns, GrantedRuns
  <2>5. TypeOK'
    BY <1>3, <2>1 DEF Start, EnterPipeline, TypeOK, clock
  <2>6. Counts'
    BY <1>1, <1>3, <2>1, <2>3, <2>4
       DEF Start, EnterPipeline, TypeOK, Counts
  <2>. QED
    BY <2>5, <2>6
<1>. QED
  BY <1>2, <1>3

LEMMA ResumeCounts ==
  ASSUME TypeOK, Counts, NEW r \in Runs, Resume(r)
  PROVE  TypeOK' /\ Counts'
<1>. DEFINE p == [pc EXCEPT ![r] = "running"]
            P == {q \in Runs : p[q] = "granted"}
<1>1. p \in [Runs -> Places] /\ free \in Nat /\ pc[r] = "granted"
  BY DEF Resume, TypeOK
<1>2. /\ pc' \in [Runs -> Places] /\ free' \in Nat
      /\ \A q \in Runs : pc'[q] = p[q] \/ (Pending(p, q) /\ pc'[q] = "granted")
      /\ free' + Cardinality(GrantedRuns') = free + Cardinality(P)
  BY <1>1, WakeMoves DEF Resume
<1>3. P = GrantedRuns \ {r} /\ r \in GrantedRuns
  BY <1>1 DEF GrantedRuns, TypeOK
<1>4. LiveRuns' = LiveRuns
  BY <1>1, <1>2 DEF LiveRuns, Pending, TypeOK
<1>5. WorkingRuns' = WorkingRuns \cup {r} /\ r \notin WorkingRuns
  BY <1>1, <1>2 DEF WorkingRuns, Pending, TypeOK
<1>6. /\ Cardinality(P) = Cardinality(GrantedRuns) - 1
      /\ Cardinality(WorkingRuns') = Cardinality(WorkingRuns) + 1
  BY <1>3, <1>5, OneMoreOrLess DEF GrantedRuns, WorkingRuns
<1>7. /\ Cardinality(WorkingRuns) \in Nat /\ Cardinality(GrantedRuns) \in Nat
      /\ Cardinality(GrantedRuns') \in Nat
  BY RunCount DEF WorkingRuns, GrantedRuns
<1>8. TypeOK'
  <2>1. executing' \in Nat /\ deadline' \in [Runs -> {"off", "armed", "expiring"}]
    BY DEF Resume, EnterPipeline, TypeOK
  <2>2. UNCHANGED <<store, aged, lapsed, cancels, outcome, ended, admitted, phase>>
    BY DEF Resume, clock
  <2>. QED
    BY <1>2, <2>1, <2>2 DEF TypeOK
<1>9. Counts'
  <2>. HIDE DEF p, P
  <2>. QED
    BY <1>1, <1>2, <1>4, <1>6, <1>7, Sizes
       DEF Resume, EnterPipeline, Counts, TypeOK
<1>. QED
  BY <1>8, <1>9

LEMMA PipelineEndsCounts ==
  ASSUME TypeOK, Counts, NEW r \in Runs, NEW o \in Outcomes, PipelineEnds(r, o)
  PROVE  TypeOK' /\ Counts'
<1>1. /\ LiveRuns' = LiveRuns /\ WorkingRuns' = WorkingRuns
      /\ GrantedRuns' = GrantedRuns
  BY DEF PipelineEnds, TypeOK, LiveRuns, WorkingRuns, GrantedRuns
<1>. QED
  BY <1>1 DEF PipelineEnds, TypeOK, Counts, clock, counts

LEMMA DeadlineFiresCounts ==
  ASSUME TypeOK, Counts, NEW r \in Runs, DeadlineFires(r)
  PROVE  TypeOK' /\ Counts'
BY CountsUnchanged DEF DeadlineFires, TypeOK, clock, counts

\* The tail of _execute keeps the types and gives back one admission.
LEMMA CloseCounts ==
  ASSUME TypeOK, Counts, NEW r \in Runs, NEW v \in Codes \cup {"ok"},
         Close(r, v), pc[r] \in Live,
         pc' \in [Runs -> Places], LiveRuns' = LiveRuns \ {r}
  PROVE  /\ store' \in Store
         /\ cancels' \in [Runs -> Nat]
         /\ deadline' \in [Runs -> {"off", "armed", "expiring"}]
         /\ outcome' \in [Runs -> Outcomes \cup {"none"}]
         /\ ended' \in [Runs -> {"none", "done", "error", "cancelled"}]
         /\ admitted' \in Nat
         /\ admitted' = Cardinality(LiveRuns')
         /\ admitted' <= Limit
<1>1. Finish(store, aged, r, Closing(v)) \in Store /\ Closing(v).status \in Terminal
  BY ClosingStores
<1>2. r \in LiveRuns
  BY DEF LiveRuns
<1>3. Cardinality(LiveRuns') = Cardinality(LiveRuns) - 1
  BY <1>2, OneMoreOrLess DEF LiveRuns
<1>4. Cardinality(LiveRuns') \in Nat
  BY RunCount DEF LiveRuns
<1>5. /\ admitted' \in Nat
      /\ admitted' = Cardinality(LiveRuns')
      /\ admitted' <= Limit
  BY <1>3, <1>4, Sizes DEF Close, Counts, TypeOK
<1>6. ended' \in [Runs -> {"none", "done", "error", "cancelled"}]
  BY <1>1 DEF Close, TypeOK, Terminal
<1>7. /\ cancels' \in [Runs -> Nat]
      /\ deadline' \in [Runs -> {"off", "armed", "expiring"}]
      /\ outcome' \in [Runs -> Outcomes \cup {"none"}]
  BY DEF Close, TypeOK
<1>. QED
  BY <1>1, <1>5, <1>6, <1>7 DEF Close

LEMMA AbandonQueueCounts ==
  ASSUME TypeOK, Counts, NEW r \in Runs, AbandonQueue(r)
  PROVE  TypeOK' /\ Counts'
<1>. DEFINE p == [pc EXCEPT ![r] = "finished"]
            P == {q \in Runs : p[q] = "granted"}
            v == GivenBack(r)
<1>1. p \in [Runs -> Places] /\ v \in Nat /\ pc[r] \in Waiting
  BY DEF AbandonQueue, TypeOK, GivenBack
<1>2. /\ pc' \in [Runs -> Places] /\ free' \in Nat
      /\ \A q \in Runs : pc'[q] = p[q] \/ (Pending(p, q) /\ pc'[q] = "granted")
      /\ free' + Cardinality(GrantedRuns') = v + Cardinality(P)
  BY <1>1, WakeMoves DEF AbandonQueue
<1>3. WorkingRuns' = WorkingRuns /\ LiveRuns' = LiveRuns \ {r}
  BY <1>1, <1>2 DEF LiveRuns, WorkingRuns, Pending, TypeOK
<1>4. v + Cardinality(P) = free + Cardinality(GrantedRuns)
  <2>1. CASE pc[r] = "granted"
    <3>1. P = GrantedRuns \ {r} /\ r \in GrantedRuns
      BY <2>1 DEF GrantedRuns, TypeOK
    <3>2. Cardinality(P) = Cardinality(GrantedRuns) - 1
      BY <3>1, OneMoreOrLess DEF GrantedRuns
    <3>3. Cardinality(GrantedRuns) \in Nat /\ v = free + 1
      BY <2>1, RunCount DEF GrantedRuns, GivenBack
    <3>. QED
      BY <3>2, <3>3 DEF TypeOK
  <2>2. CASE pc[r] # "granted"
    <3>1. P = GrantedRuns /\ v = free
      BY <2>2 DEF GrantedRuns, GivenBack, TypeOK
    <3>. QED
      BY <3>1
  <2>. QED
    BY <2>1, <2>2
<1>5. Close(r, "cancelled") /\ "cancelled" \in Codes \cup {"ok"}
  BY DEF AbandonQueue, Codes
<1>6. /\ store' \in Store
      /\ cancels' \in [Runs -> Nat]
      /\ deadline' \in [Runs -> {"off", "armed", "expiring"}]
      /\ outcome' \in [Runs -> Outcomes \cup {"none"}]
      /\ ended' \in [Runs -> {"none", "done", "error", "cancelled"}]
      /\ admitted' \in Nat /\ admitted' = Cardinality(LiveRuns')
      /\ admitted' <= Limit
  BY <1>1, <1>2, <1>3, <1>5, CloseCounts
<1>7. TypeOK'
  BY <1>2, <1>6 DEF AbandonQueue, TypeOK, clock
<1>8. Counts'
  <2>. HIDE DEF p, P, v
  <2>1. /\ Cardinality(WorkingRuns) \in Nat /\ Cardinality(GrantedRuns) \in Nat
        /\ Cardinality(GrantedRuns') \in Nat
    BY RunCount DEF WorkingRuns, GrantedRuns
  <2>2. UNCHANGED executing
    BY DEF AbandonQueue
  <2>. QED
    BY <1>2, <1>3, <1>4, <1>6, <2>1, <2>2 DEF Counts, TypeOK
<1>. QED
  BY <1>7, <1>8

LEMMA ConcludeCounts ==
  ASSUME TypeOK, Counts, NEW r \in Runs, Conclude(r)
  PROVE  TypeOK' /\ Counts'
<1>. DEFINE p == [pc EXCEPT ![r] = "finished"]
            P == {q \in Runs : p[q] = "granted"}
<1>1. p \in [Runs -> Places] /\ free + 1 \in Nat /\ pc[r] \in Working
  BY DEF Conclude, TypeOK
<1>2. /\ pc' \in [Runs -> Places] /\ free' \in Nat
      /\ \A q \in Runs : pc'[q] = p[q] \/ (Pending(p, q) /\ pc'[q] = "granted")
      /\ free' + Cardinality(GrantedRuns') = free + 1 + Cardinality(P)
  BY <1>1, WakeMoves DEF Conclude, Released
<1>3. /\ LiveRuns' = LiveRuns \ {r} /\ P = GrantedRuns
      /\ WorkingRuns' = WorkingRuns \ {r} /\ r \in WorkingRuns
  BY <1>1, <1>2 DEF LiveRuns, WorkingRuns, GrantedRuns, Pending, TypeOK
<1>4. Cardinality(WorkingRuns') = Cardinality(WorkingRuns) - 1
  BY <1>3, OneMoreOrLess DEF WorkingRuns
<1>5. Close(r, Verdict(r)) /\ Verdict(r) \in Codes \cup {"ok"}
  BY VerdictType DEF Conclude
<1>6. /\ store' \in Store
      /\ cancels' \in [Runs -> Nat]
      /\ deadline' \in [Runs -> {"off", "armed", "expiring"}]
      /\ outcome' \in [Runs -> Outcomes \cup {"none"}]
      /\ ended' \in [Runs -> {"none", "done", "error", "cancelled"}]
      /\ admitted' \in Nat /\ admitted' = Cardinality(LiveRuns')
      /\ admitted' <= Limit
  BY <1>1, <1>2, <1>3, <1>5, CloseCounts
<1>7. /\ Cardinality(WorkingRuns) \in Nat /\ Cardinality(GrantedRuns) \in Nat
      /\ Cardinality(WorkingRuns') \in Nat /\ Cardinality(GrantedRuns') \in Nat
  BY RunCount DEF WorkingRuns, GrantedRuns
<1>8. executing' = Cardinality(WorkingRuns')
  BY <1>4 DEF Conclude, Counts
<1>9. TypeOK'
  BY <1>2, <1>6, <1>7, <1>8 DEF Conclude, TypeOK, clock
<1>10. Counts'
  <2>. HIDE DEF p, P
  <2>. QED
    BY <1>2, <1>3, <1>4, <1>6, <1>7, <1>8, Sizes DEF Counts, TypeOK
<1>. QED
  BY <1>9, <1>10

LEMMA SweepCounts ==
  ASSUME TypeOK, Counts, Sweep
  PROVE  TypeOK' /\ Counts'
<1>. DEFINE s == DropExpired(store, aged, lapsed)
<1>1. PICK V \in SUBSET Runs : IsEviction(s, V) /\ store' = Drop(s, V)
  BY DEF Sweep
<1>2. s \in Store
  BY DropExpiredShrinks DEF TypeOK
<1>3. store' \in Store
  BY <1>1, <1>2, EvictionShrinks
<1>. QED
  BY <1>3, CountsUnchanged DEF Sweep, TypeOK, taskv, counts

\* Shutdown and the passing of time touch neither places nor counters.
LEMMA RestCounts ==
  ASSUME TypeOK, Counts,
         \/ Stop
         \/ \E r \in Runs : RunAges(r)
         \/ \E k \in Keys : KeyLapses(k)
         \/ UNCHANGED vars
  PROVE  TypeOK' /\ Counts'
<1>1. CASE StopBegin
  BY <1>1, CountsUnchanged DEF StopBegin, TypeOK, clock, taskv, counts
<1>2. CASE StopDrain
  BY <1>2, CountsUnchanged DEF StopDrain, TypeOK, clock, counts
<1>3. CASE StopEnd
  BY <1>3, CountsUnchanged DEF StopEnd, TypeOK, clock, taskv, counts
<1>4. CASE \E r \in Runs : RunAges(r)
  BY <1>4, CountsUnchanged DEF RunAges, TypeOK, taskv, counts
<1>5. CASE \E k \in Keys : KeyLapses(k)
  BY <1>5, CountsUnchanged DEF KeyLapses, TypeOK, taskv, counts
<1>6. CASE UNCHANGED vars
  BY <1>6, CountsUnchanged DEF vars, TypeOK
<1>. QED
  BY <1>1, <1>2, <1>3, <1>4, <1>5, <1>6 DEF Stop

-----------------------------------------------------------------------------
(***************************************************************************)
(* RecordFollowsTask: the record of a run against the place of its task.   *)
(***************************************************************************)

\* A run whose record stays and whose task stays at the same kind of place.
LEMMA RecordKept ==
  ASSUME TypeOK, NEW q \in Runs, RecordFollows(q),
         store'.rec[q] = store.rec[q],
         q \in store'.runs => q \in store.runs,
         q \in store.runs /\ q \notin store'.runs => IsTerminal(store, q),
         cancels'[q] = cancels[q], deadline'[q] = deadline[q],
         ended'[q] = ended[q],
         \/ pc'[q] = pc[q]
         \/ pc[q] \in Waiting /\ pc'[q] \in Waiting
         \/ pc[q] \in Working /\ pc'[q] \in Working
  PROVE  RecordFollows(q)'
BY DEF RecordFollows, IsTerminal

\* Steps that only shrink the store.
LEMMA ShrinkRecords ==
  ASSUME TypeOK, RecordFollowsTask, Shrinks(store, store'),
         UNCHANGED <<pc, cancels, deadline, ended>>
  PROVE  RecordFollowsTask'
<1>. SUFFICES ASSUME NEW q \in Runs PROVE RecordFollows(q)'
  BY DEF RecordFollowsTask
<1>1. RecordFollows(q)
  BY DEF RecordFollowsTask
<1>. QED
  BY <1>1, RecordKept DEF Shrinks

\* A DELETE that was answered decides the verdict, whatever else happened.
LEMMA CancelledVerdict ==
  ASSUME TypeOK, NEW r \in Runs, RecordFollows(r), pc[r] \in Live,
         IsTerminal(store, r)
  PROVE  Verdict(r) = "cancelled"
<1>1. cancels[r] \in Nat
  BY DEF TypeOK
<1>2. cancels[r] > (IF deadline[r] = "expiring" THEN 1 ELSE 0)
  BY DEF RecordFollows
<1>3. cancels[r] # 0 /\ ~(cancels[r] = 1 /\ deadline[r] = "expiring")
  BY <1>1, <1>2
<1>. QED
  BY <1>3 DEF Verdict

LEMMA AcceptRecords ==
  ASSUME TypeOK, RecordFollowsTask, NEW k \in Keys \cup {NoKey},
         NEW r \in Runs, Accept(k, r)
  PROVE  RecordFollowsTask'
<1>. SUFFICES ASSUME NEW q \in Runs PROVE RecordFollows(q)'
  BY DEF RecordFollowsTask
<1>1. RecordFollows(q) /\ RecordFollows(r)
  BY DEF RecordFollowsTask
<1>2. pc[r] = "absent" /\ store.rec[r] = Fresh
  BY <1>1 DEF Accept, RecordFollows
<1>3. /\ store'.rec = [store.rec EXCEPT ![r] = Fresh]
      /\ store'.runs \subseteq store.runs \cup {r}
      /\ \A p \in (store.runs \cup {r}) \ store'.runs : IsTerminal(store, p)
  BY <1>2, AcceptStores
<1>4. store.rec \in [Runs -> Record]
  BY DEF TypeOK, Store
<1>5. CASE q = r
  <2>1. ~IsTerminal(store, r) /\ store'.rec[r] = Fresh
    BY <1>2, <1>3, <1>4 DEF IsTerminal, Fresh, Terminal
  <2>2. r \in store'.runs
    BY <1>3, <2>1
  <2>3. ~IsTerminal(store', r)
    BY <2>1 DEF IsTerminal, Fresh, Terminal
  <2>4. pc'[r] = "scheduled" /\ cancels'[r] = 0 /\ deadline'[r] = "off"
    BY <1>1, <1>2 DEF Accept, RecordFollows, TypeOK
  <2>. QED
    BY <1>5, <2>2, <2>3, <2>4 DEF RecordFollows
<1>6. CASE q # r
  <2>1. pc'[q] = pc[q] /\ UNCHANGED <<cancels, deadline, ended>>
    BY <1>6 DEF Accept, TypeOK
  <2>2. store'.rec[q] = store.rec[q]
    BY <1>3, <1>4, <1>6
  <2>. QED
    BY <1>1, <1>3, <1>6, <2>1, <2>2, RecordKept
<1>. QED
  BY <1>5, <1>6

LEMMA CancelRecords ==
  ASSUME TypeOK, RecordFollowsTask, NEW r \in Runs, Cancel(r)
  PROVE  RecordFollowsTask'
<1>. DEFINE c == [status |-> "cancelled", code |-> "cancelled", by |-> "request"]
            s == Finish(store, aged, r, c)
<1>. SUFFICES ASSUME NEW q \in Runs PROVE RecordFollows(q)'
  BY DEF RecordFollowsTask
<1>1. RecordFollows(q) /\ RecordFollows(r)
  BY DEF RecordFollowsTask
<1>2. c \in Record
  BY DEF Record, Status, Terminal, Codes
<1>3. /\ s \in Store /\ s.runs = store.runs
      /\ s.rec = [store.rec EXCEPT ![r] = c]
  BY <1>2, FinishStores DEF TypeOK, Cancel, Cancellable
<1>4. Shrinks(s, store')
  BY <1>3, GetShrinks DEF Cancel
<1>5. store.rec \in [Runs -> Record] /\ store'.rec = s.rec
  BY <1>4 DEF TypeOK, Store, Shrinks
<1>6. CASE q = r
  <2>1. pc[r] \in Live
    <3>1. pc[r] \notin {"absent", "scheduled"} /\ ~IsTerminal(store, r)
      BY DEF Cancel, Cancellable
    <3>. QED
      BY <1>1, <3>1 DEF RecordFollows, TypeOK
  <2>2. store'.rec[r] = c
    BY <1>3, <1>5
  <2>3. cancels'[r] = cancels[r] + 1 /\ cancels[r] \in Nat
    BY <2>1 DEF Cancel, CancelTask, TypeOK
  <2>4. UNCHANGED <<pc, deadline>>
    BY DEF Cancel
  <2>5. pc[r] \notin {"absent", "scheduled", "finished"}
    BY <2>1 DEF Cancel
  <2>. QED
    BY <1>1, <1>6, <2>1, <2>2, <2>3, <2>4, <2>5
       DEF RecordFollows, IsTerminal, Terminal
<1>7. CASE q # r
  <2>1. cancels'[q] = cancels[q] /\ UNCHANGED <<pc, deadline, ended>>
    BY <1>7 DEF Cancel, CancelTask, TypeOK
  <2>2. store'.rec[q] = store.rec[q]
    BY <1>3, <1>5, <1>7
  <2>3. /\ q \in store'.runs => q \in store.runs
        /\ q \in store.runs /\ q \notin store'.runs => IsTerminal(store, q)
    BY <1>3, <1>4, <2>2 DEF Shrinks, IsTerminal
  <2>. QED
    BY <1>1, <2>1, <2>2, <2>3, RecordKept
<1>. QED
  BY <1>6, <1>7

\* A task that was not cancelled is not on record as terminal.
LEMMA UncancelledRecord ==
  ASSUME TypeOK, NEW r \in Runs, RecordFollows(r), pc[r] \in Live,
         cancels[r] = 0
  PROVE  ~IsTerminal(store, r) /\ r \in store.runs
BY DEF RecordFollows, TypeOK

LEMMA StartRecords ==
  ASSUME TypeOK, RecordFollowsTask, NEW r \in Runs, Start(r)
  PROVE  RecordFollowsTask'
<1>. SUFFICES ASSUME NEW q \in Runs PROVE RecordFollows(q)'
  BY DEF RecordFollowsTask
<1>1. RecordFollows(q) /\ RecordFollows(r)
  BY DEF RecordFollowsTask
<1>2. pc[r] = "scheduled" /\ UNCHANGED <<store, cancels, ended>>
  BY DEF Start
<1>3. /\ \/ pc' = [pc EXCEPT ![r] = "queued"] /\ deadline' = deadline
         \/ /\ pc' = [pc EXCEPT ![r] = "running"]
            /\ deadline' = [deadline EXCEPT ![r] = "armed"]
  BY DEF Start, EnterPipeline
<1>4. CASE q = r
  <2>1. cancels[r] = 0 /\ ~IsTerminal(store, r) /\ r \in store.runs
    BY <1>1, <1>2, UncancelledRecord DEF RecordFollows
  <2>. QED
    BY <1>1, <1>2, <1>3, <1>4, <2>1 DEF RecordFollows, TypeOK, IsTerminal
<1>5. CASE q # r
  <2>1. pc'[q] = pc[q] /\ deadline'[q] = deadline[q]
    BY <1>3, <1>5 DEF TypeOK
  <2>. QED
    BY <1>1, <1>2, <2>1, RecordKept
<1>. QED
  BY <1>4, <1>5

LEMMA ResumeRecords ==
  ASSUME TypeOK, RecordFollowsTask, NEW r \in Runs, Resume(r)
  PROVE  RecordFollowsTask'
<1>. DEFINE p == [pc EXCEPT ![r] = "running"]
<1>. SUFFICES ASSUME NEW q \in Runs PROVE RecordFollows(q)'
  BY DEF RecordFollowsTask
<1>1. RecordFollows(q) /\ RecordFollows(r)
  BY DEF RecordFollowsTask
<1>2. pc[r] = "granted" /\ cancels[r] = 0 /\ UNCHANGED <<store, cancels, ended>>
  BY DEF Resume
<1>3. deadline' = [deadline EXCEPT ![r] = "armed"]
  BY DEF Resume, EnterPipeline
<1>4. pc'[q] = p[q] \/ (Pending(p, q) /\ pc'[q] = "granted")
  <2>1. p \in [Runs -> Places] /\ free \in Nat /\ Wake(p, free, free)
    BY DEF TypeOK, Resume
  <2>. QED
    BY <2>1, WakeMoves
<1>5. CASE q = r
  <2>1. ~IsTerminal(store, r) /\ r \in store.runs
    BY <1>1, <1>2, UncancelledRecord
  <2>2. pc'[r] = "running" /\ deadline'[r] = "armed"
    BY <1>3, <1>4, <1>5 DEF TypeOK, Pending
  <2>. QED
    BY <1>2, <1>5, <2>1, <2>2 DEF RecordFollows, IsTerminal
<1>6. CASE q # r
  <2>1. pc'[q] = pc[q] \/ (pc[q] \in Waiting /\ pc'[q] \in Waiting)
    BY <1>4, <1>6 DEF TypeOK, Pending
  <2>2. deadline'[q] = deadline[q]
    BY <1>3, <1>6 DEF TypeOK
  <2>. QED
    BY <1>1, <1>2, <2>1, <2>2, RecordKept
<1>. QED
  BY <1>5, <1>6

LEMMA PipelineEndsRecords ==
  ASSUME TypeOK, RecordFollowsTask, NEW r \in Runs, NEW o \in Outcomes,
         PipelineEnds(r, o)
  PROVE  RecordFollowsTask'
<1>. SUFFICES ASSUME NEW q \in Runs PROVE RecordFollows(q)'
  BY DEF RecordFollowsTask
<1>1. RecordFollows(q)
  BY DEF RecordFollowsTask
<1>2. UNCHANGED <<store, cancels, deadline, ended>>
  BY DEF PipelineEnds
<1>3. pc'[q] = pc[q] \/ (pc[q] \in Working /\ pc'[q] \in Working)
  BY DEF PipelineEnds, TypeOK
<1>. QED
  BY <1>1, <1>2, <1>3, RecordKept

LEMMA DeadlineFiresRecords ==
  ASSUME TypeOK, RecordFollowsTask, NEW r \in Runs, DeadlineFires(r)
  PROVE  RecordFollowsTask'
<1>. SUFFICES ASSUME NEW q \in Runs PROVE RecordFollows(q)'
  BY DEF RecordFollowsTask
<1>1. RecordFollows(q)
  BY DEF RecordFollowsTask
<1>2. UNCHANGED <<store, pc, ended>> /\ pc[r] \in Working /\ deadline[r] = "armed"
  BY DEF DeadlineFires
<1>3. CASE q = r
  <2>1. /\ cancels'[r] = cancels[r] + 1 /\ cancels[r] \in Nat
        /\ deadline'[r] = "expiring"
    BY DEF DeadlineFires, TypeOK
  <2>. QED
    BY <1>1, <1>2, <1>3, <2>1 DEF RecordFollows, IsTerminal
<1>4. CASE q # r
  <2>1. cancels'[q] = cancels[q] /\ deadline'[q] = deadline[q]
    BY <1>4 DEF DeadlineFires, TypeOK
  <2>. QED
    BY <1>1, <1>2, <2>1, RecordKept
<1>. QED
  BY <1>3, <1>4

\* What the tail of _execute leaves on record for its run, and for no other.
LEMMA CloseStores ==
  ASSUME TypeOK, NEW r \in Runs, NEW v \in Codes \cup {"ok"}, Close(r, v),
         RecordFollows(r), pc[r] \in Live,
         IsTerminal(store, r) => v = "cancelled"
  PROVE  /\ store'.rec[r].status = ended'[r] /\ ended'[r] \in Terminal
         /\ IsTerminal(store, r) => /\ store'.rec[r].status = "cancelled"
                                    /\ store'.rec[r].code = "cancelled"
         /\ \A q \in Runs \ {r} : store'.rec[q] = store.rec[q]
         /\ store'.runs \subseteq store.runs
         /\ \A q \in store.runs \ store'.runs : IsTerminal(store, q)
<1>1. /\ Closing(v) \in Record /\ Closing(v).status \in Terminal
      /\ store' = Finish(store, aged, r, Closing(v))
  BY ClosingStores DEF Close
<1>2. ended'[r] = Closing(v).status
  BY DEF Close, TypeOK
<1>3. store \in Store /\ store.rec \in [Runs -> Record]
  BY DEF TypeOK, Store
<1>4. v = "cancelled" => /\ Closing(v).status = "cancelled"
                         /\ Closing(v).code = "cancelled"
  BY DEF Closing
<1>5. CASE Found(store, aged, r)
  <2>1. /\ store'.runs = store.runs
        /\ store'.rec = [store.rec EXCEPT ![r] = Closing(v)]
    BY <1>1, <1>3, <1>5, FinishStores
  <2>. QED
    BY <1>1, <1>2, <1>3, <1>4, <2>1
<1>6. CASE ~Found(store, aged, r)
  <2>1. Shrinks(store, store')
    BY <1>1, <1>3, <1>6, FinishStores
  <2>2. IsTerminal(store, r)
    BY <1>6 DEF RecordFollows, Found, IsExpired
  <2>3. store.rec[r].status = "cancelled" /\ store.rec[r].code = "cancelled"
    BY <2>2 DEF RecordFollows
  <2>. QED
    BY <1>1, <1>2, <1>4, <2>1, <2>2, <2>3 DEF Shrinks
<1>. QED
  BY <1>5, <1>6

\* The task of r is over; other tasks are at most granted a slot.
OnlyEnds(r) ==
  /\ pc'[r] = "finished"
  /\ \A q \in Runs \ {r} : \/ pc'[q] = pc[q]
                           \/ pc[q] \in Waiting /\ pc'[q] \in Waiting

\* A task that is over leaves its verdict on record.
LEMMA CloseRecords ==
  ASSUME TypeOK, RecordFollowsTask, NEW r \in Runs,
         NEW v \in Codes \cup {"ok"}, Close(r, v), pc[r] \in Live,
         IsTerminal(store, r) => v = "cancelled",
         OnlyEnds(r)
  PROVE  RecordFollowsTask'
<1>. SUFFICES ASSUME NEW q \in Runs PROVE RecordFollows(q)'
  BY DEF RecordFollowsTask
<1>1. RecordFollows(q) /\ RecordFollows(r)
  BY DEF RecordFollowsTask
<1>2. /\ store'.rec[r].status = ended'[r] /\ ended'[r] \in Terminal
      /\ \A p \in Runs \ {r} : store'.rec[p] = store.rec[p]
      /\ store'.runs \subseteq store.runs
      /\ \A p \in store.runs \ store'.runs : IsTerminal(store, p)
  BY <1>1, CloseStores
<1>3. CASE q = r
  <2>1. cancels'[r] = 0 /\ deadline'[r] = "off"
    BY DEF Close, TypeOK
  <2>. QED
    BY <1>2, <1>3, <2>1 DEF RecordFollows, IsTerminal, OnlyEnds
<1>4. CASE q # r
  <2>1. /\ cancels'[q] = cancels[q] /\ deadline'[q] = deadline[q]
        /\ ended'[q] = ended[q]
    BY <1>4 DEF Close, TypeOK
  <2>. QED
    BY <1>1, <1>2, <1>4, <2>1, RecordKept DEF OnlyEnds
<1>. QED
  BY <1>3, <1>4

LEMMA AbandonQueueRecords ==
  ASSUME TypeOK, RecordFollowsTask, NEW r \in Runs, AbandonQueue(r)
  PROVE  RecordFollowsTask'
<1>. DEFINE p == [pc EXCEPT ![r] = "finished"]
<1>1. p \in [Runs -> Places] /\ GivenBack(r) \in Nat /\ pc[r] \in Live
  BY DEF AbandonQueue, TypeOK, GivenBack
<1>2. \A q \in Runs : pc'[q] = p[q] \/ (Pending(p, q) /\ pc'[q] = "granted")
  BY <1>1, WakeMoves DEF AbandonQueue
<1>3. OnlyEnds(r)
  BY <1>2 DEF Pending, TypeOK, OnlyEnds
<1>4. Close(r, "cancelled") /\ "cancelled" \in Codes \cup {"ok"}
  BY DEF AbandonQueue, Codes
<1>. QED
  BY <1>1, <1>3, <1>4, CloseRecords

LEMMA ConcludeRecords ==
  ASSUME TypeOK, RecordFollowsTask, NEW r \in Runs, Conclude(r)
  PROVE  RecordFollowsTask'
<1>. DEFINE p == [pc EXCEPT ![r] = "finished"]
<1>1. p \in [Runs -> Places] /\ free + 1 \in Nat /\ pc[r] \in Live
  BY DEF Conclude, TypeOK
<1>2. \A q \in Runs : pc'[q] = p[q] \/ (Pending(p, q) /\ pc'[q] = "granted")
  BY <1>1, WakeMoves DEF Conclude, Released
<1>3. OnlyEnds(r)
  BY <1>2 DEF Pending, TypeOK, OnlyEnds
<1>4. Close(r, Verdict(r)) /\ Verdict(r) \in Codes \cup {"ok"}
  BY VerdictType DEF Conclude
<1>5. IsTerminal(store, r) => Verdict(r) = "cancelled"
  BY <1>1, CancelledVerdict DEF RecordFollowsTask
<1>. QED
  BY <1>1, <1>3, <1>4, <1>5, CloseRecords

\* Requests that only look up, the sweeper, shutdown, and time.
LEMMA RestRecords ==
  ASSUME TypeOK, RecordFollowsTask,
         \/ \E k \in Keys \cup {NoKey} : Reject(k)
         \/ \E r \in Runs : Poll(r)
         \/ Sweep
         \/ Stop
         \/ \E r \in Runs : RunAges(r)
         \/ \E k \in Keys : KeyLapses(k)
         \/ UNCHANGED vars
  PROVE  RecordFollowsTask'
<1>0. store \in Store /\ Shrinks(store, store)
  BY DEF TypeOK, Shrinks
<1>1. CASE \E k \in Keys \cup {NoKey} : Reject(k)
  BY <1>1, AfterLookupShrinks, ShrinkRecords DEF Reject, taskv
<1>2. CASE \E r \in Runs : Poll(r)
  BY <1>0, <1>2, GetShrinks, ShrinkRecords DEF Poll, taskv
<1>3. CASE Sweep
  <2>. DEFINE s == DropExpired(store, aged, lapsed)
  <2>1. PICK V \in SUBSET Runs : IsEviction(s, V) /\ store' = Drop(s, V)
    BY <1>3 DEF Sweep
  <2>2. s \in Store /\ Shrinks(store, s)
    BY <1>0, DropExpiredShrinks
  <2>3. store' \in Store /\ Shrinks(s, store')
    BY <2>1, <2>2, EvictionShrinks
  <2>4. Shrinks(store, store')
    BY <1>0, <2>2, <2>3, ShrinksTransitive
  <2>. QED
    BY <1>3, <2>4, ShrinkRecords DEF Sweep, taskv
<1>4. CASE StopDrain
  <2>. SUFFICES ASSUME NEW q \in Runs PROVE RecordFollows(q)'
    BY DEF RecordFollowsTask
  <2>1. RecordFollows(q) /\ UNCHANGED <<store, pc, deadline, ended>>
    BY <1>4 DEF RecordFollowsTask, StopDrain
  <2>2. pc[q] # "scheduled" /\ cancels[q] \in Nat
    BY <1>4 DEF StopDrain, TypeOK
  <2>3. cancels'[q] = IF pc[q] \in Live THEN cancels[q] + 1 ELSE cancels[q]
    BY <1>4 DEF StopDrain, TypeOK
  <2>. QED
    BY <2>1, <2>2, <2>3 DEF RecordFollows, IsTerminal
<1>5. CASE \/ StopBegin \/ StopEnd \/ UNCHANGED vars
           \/ \E r \in Runs : RunAges(r)
           \/ \E k \in Keys : KeyLapses(k)
  BY <1>0, <1>5, ShrinkRecords
     DEF StopBegin, StopEnd, RunAges, KeyLapses, vars, taskv
<1>. QED
  BY <1>1, <1>2, <1>3, <1>4, <1>5 DEF Stop

-----------------------------------------------------------------------------
(***************************************************************************)
(* The inductive invariant and what follows from it.                       *)
(***************************************************************************)
IndInv == TypeOK /\ Counts /\ RecordFollowsTask

\* Every run that was not admitted yet has the record Insert will give it.
LEMMA AbsentIsFresh ==
  ASSUME RecordFollowsTask, NEW k \in Keys \cup {NoKey}, NEW r \in Runs,
         Accept(k, r)
  PROVE  store.rec[r] = Fresh
BY DEF RecordFollowsTask, RecordFollows, Accept

LEMMA InitIndInv == Init => IndInv
<1>. SUFFICES ASSUME Init PROVE IndInv
  OBVIOUS
<1>1. EmptyStore \in Store
  <2>1. Fresh \in Record
    BY DEF Fresh, Record, Status, Codes
  <2>. QED
    BY <2>1 DEF EmptyStore, Store
<1>2. TypeOK
  BY <1>1, Sizes DEF Init, TypeOK
<1>3. LiveRuns = {} /\ WorkingRuns = {} /\ GrantedRuns = {}
  BY DEF Init, LiveRuns, WorkingRuns, GrantedRuns
<1>4. Counts
  BY <1>3, Sizes, FS_EmptySet DEF Init, Counts
<1>5. RecordFollowsTask
  BY DEF Init, RecordFollowsTask, RecordFollows, EmptyStore
<1>. QED
  BY <1>2, <1>4, <1>5 DEF IndInv

LEMMA NextIndInv == IndInv /\ [Next]_vars => IndInv'
<1>. SUFFICES ASSUME IndInv, [Next]_vars PROVE IndInv'
  OBVIOUS
<1>. USE DEF IndInv
<1>1. ASSUME NEW k \in Keys \cup {NoKey}, Reject(k) PROVE IndInv'
  BY <1>1, RejectCounts, RestRecords
<1>2. ASSUME NEW k \in Keys \cup {NoKey}, NEW r \in Runs, Accept(k, r)
      PROVE  IndInv'
  BY <1>2, AbsentIsFresh, AcceptCounts, AcceptRecords
<1>3. ASSUME NEW r \in Runs, Poll(r) PROVE IndInv'
  BY <1>3, PollCounts, RestRecords
<1>4. ASSUME NEW r \in Runs, Cancel(r) PROVE IndInv'
  BY <1>4, CancelCounts, CancelRecords
<1>5. ASSUME NEW r \in Runs, Start(r) PROVE IndInv'
  BY <1>5, StartCounts, StartRecords
<1>6. ASSUME NEW r \in Runs, Resume(r) PROVE IndInv'
  BY <1>6, ResumeCounts, ResumeRecords
<1>7. ASSUME NEW r \in Runs, AbandonQueue(r) PROVE IndInv'
  BY <1>7, AbandonQueueCounts, AbandonQueueRecords
<1>8. ASSUME NEW r \in Runs, Conclude(r) PROVE IndInv'
  BY <1>8, ConcludeCounts, ConcludeRecords
<1>9. ASSUME NEW r \in Runs, DeadlineFires(r) PROVE IndInv'
  BY <1>9, DeadlineFiresCounts, DeadlineFiresRecords
<1>10. ASSUME NEW r \in Runs, NEW o \in Outcomes, PipelineEnds(r, o)
       PROVE  IndInv'
  BY <1>10, PipelineEndsCounts, PipelineEndsRecords
<1>11. ASSUME Sweep PROVE IndInv'
  BY <1>11, SweepCounts, RestRecords
<1>12. ASSUME \/ Stop
              \/ \E r \in Runs : RunAges(r)
              \/ \E k \in Keys : KeyLapses(k)
              \/ UNCHANGED vars
       PROVE  IndInv'
  BY <1>12, RestCounts, RestRecords
<1>. QED
  BY <1>1, <1>2, <1>3, <1>4, <1>5, <1>6, <1>7, <1>8, <1>9, <1>10, <1>11, <1>12
     DEF Next, Request, TaskStep

\* Every reachable state satisfies the inductive invariant.
THEOREM Invariance == Spec => []IndInv
BY InitIndInv, NextIndInv, PTL DEF Spec

\* The variables keep their types; no counter ever goes below zero.
THEOREM TypeCorrect == Spec => []TypeOK
<1>1. IndInv => TypeOK
  BY DEF IndInv
<1>. QED
  BY <1>1, Invariance, PTL

\* _admitted and _executing count the live tasks and the working pipelines
\* exactly, by whichever path each task ends.
THEOREM CountersAreExact == Spec => []CountersExact
<1>1. IndInv => CountersExact
  BY DEF IndInv, Counts, CountersExact
<1>. QED
  BY <1>1, Invariance, PTL

\* At most max_concurrent_runs + max_queued_runs runs are in flight, and at
\* most as many pipelines are at work as start() made slots.
THEOREM LoadIsBounded == Spec => []LoadBounded
<1>1. IndInv => LoadBounded
  <2>. SUFFICES ASSUME IndInv PROVE LoadBounded
    OBVIOUS
  <2>1. Cardinality(WorkingRuns) \in Nat /\ Cardinality(GrantedRuns) \in Nat
    BY RunCount DEF WorkingRuns, GrantedRuns
  <2>. QED
    BY <2>1, Sizes DEF IndInv, TypeOK, Counts, LoadBounded
<1>. QED
  BY <1>1, Invariance, PTL

\* A run that was neither deleted nor finished is on record as running, and
\* whatever is on record as running has a task that will bring it to an end.
THEOREM RunningIsLive == Spec => []RunningMeansLive
<1>1. IndInv => RunningMeansLive
  <2>. SUFFICES ASSUME IndInv, NEW r \in Runs
                PROVE  /\ pc[r] \in Live /\ cancels[r] = 0 =>
                            r \in store.runs /\ store.rec[r].status = "running"
                       /\ r \in store.runs /\ store.rec[r].status = "running"
                            => pc[r] \in Live
    BY DEF RunningMeansLive
  <2>1. RecordFollows(r) /\ TypeOK
    BY DEF IndInv, RecordFollowsTask
  <2>2. store.rec[r].status \in Status
    BY <2>1 DEF TypeOK, Store, Record
  <2>3. ~IsTerminal(store, r) <=> store.rec[r].status = "running"
    BY <2>2 DEF Status, IsTerminal, Terminal
  <2>4. pc[r] \in Live /\ cancels[r] = 0 =>
          r \in store.runs /\ store.rec[r].status = "running"
    BY <2>1, <2>3, UncancelledRecord
  <2>5. r \in store.runs /\ store.rec[r].status = "running" => pc[r] \in Live
    BY <2>1, <2>3 DEF RecordFollows, TypeOK
  <2>. QED
    BY <2>4, <2>5
<1>. QED
  BY <1>1, Invariance, PTL

\* One step leaves the status and the code of a terminal run what they were.
LEMMA OutcomeStep ==
  ASSUME IndInv, [Next]_vars, NEW r \in Runs, IsTerminal(store, r)
  PROVE  /\ store'.rec[r].status = store.rec[r].status
         /\ store'.rec[r].code   = store.rec[r].code
<1>. DEFINE Kept == store'.rec[r] = store.rec[r]
<1>0. TypeOK /\ store \in Store /\ store.rec \in [Runs -> Record]
  BY DEF IndInv, TypeOK, Store
<1>1. \A q \in Runs : RecordFollows(q)
  BY DEF IndInv, RecordFollowsTask
<1>2. ASSUME NEW k \in Keys \cup {NoKey}, Reject(k) PROVE Kept
  BY <1>0, <1>2, AfterLookupShrinks DEF Reject, Shrinks
<1>3. ASSUME NEW k \in Keys \cup {NoKey}, NEW q \in Runs, Accept(k, q)
      PROVE  Kept
  <2>1. store.rec[q] = Fresh
    BY <1>1, <1>3 DEF Accept, RecordFollows
  <2>2. q # r
    BY <2>1 DEF IsTerminal, Fresh, Terminal
  <2>3. store'.rec = [store.rec EXCEPT ![q] = Fresh]
    BY <1>0, <1>3, <2>1, AcceptStores
  <2>. QED
    BY <1>0, <2>2, <2>3
<1>4. ASSUME NEW q \in Runs, Poll(q) PROVE Kept
  BY <1>0, <1>4, GetShrinks DEF Poll, Shrinks
<1>5. ASSUME NEW q \in Runs, Cancel(q) PROVE Kept
  <2>. DEFINE c == [status |-> "cancelled", code |-> "cancelled",
                    by |-> "request"]
  <2>1. c \in Record
    BY DEF Record, Status, Terminal, Codes
  <2>2. Found(store, aged, q) /\ q # r
    BY <1>5 DEF Cancel, Cancellable
  <2>3. /\ Finish(store, aged, q, c) \in Store
        /\ Finish(store, aged, q, c).rec = [store.rec EXCEPT ![q] = c]
    BY <1>0, <2>1, <2>2, FinishStores
  <2>4. store'.rec = Finish(store, aged, q, c).rec
    BY <1>5, <2>3, GetShrinks DEF Cancel, Shrinks
  <2>. QED
    BY <1>0, <2>2, <2>3, <2>4
<1>6. ASSUME NEW q \in Runs, NEW v \in Codes \cup {"ok"}, Close(q, v),
             pc[q] \in Live, IsTerminal(store, q) => v = "cancelled"
      PROVE  /\ store'.rec[r].status = store.rec[r].status
             /\ store'.rec[r].code   = store.rec[r].code
  <2>1. RecordFollows(q) /\ RecordFollows(r)
    BY <1>1
  <2>2. /\ IsTerminal(store, q) => /\ store'.rec[q].status = "cancelled"
                                   /\ store'.rec[q].code = "cancelled"
        /\ \A p \in Runs \ {q} : store'.rec[p] = store.rec[p]
    BY <1>0, <1>6, <2>1, CloseStores
  <2>3. CASE q = r
    BY <1>6, <2>1, <2>2, <2>3 DEF RecordFollows
  <2>4. CASE q # r
    BY <2>2, <2>4
  <2>. QED
    BY <2>3, <2>4
<1>7. ASSUME NEW q \in Runs, AbandonQueue(q)
      PROVE  /\ store'.rec[r].status = store.rec[r].status
             /\ store'.rec[r].code   = store.rec[r].code
  <2>1. Close(q, "cancelled") /\ pc[q] \in Live /\ "cancelled" \in Codes
    BY <1>7 DEF AbandonQueue, Codes
  <2>. QED
    BY <1>6, <2>1
<1>8. ASSUME NEW q \in Runs, Conclude(q)
      PROVE  /\ store'.rec[r].status = store.rec[r].status
             /\ store'.rec[r].code   = store.rec[r].code
  <2>1. Close(q, Verdict(q)) /\ pc[q] \in Live
    BY <1>8 DEF Conclude
  <2>2. Verdict(q) \in Codes \cup {"ok"}
    BY <1>0, VerdictType
  <2>3. IsTerminal(store, q) => Verdict(q) = "cancelled"
    BY <1>0, <1>1, <2>1, CancelledVerdict
  <2>. QED
    BY <1>6, <2>1, <2>2, <2>3
<1>9. ASSUME Sweep PROVE Kept
  <2>1. PICK V \in SUBSET Runs :
          /\ IsEviction(DropExpired(store, aged, lapsed), V)
          /\ store' = Drop(DropExpired(store, aged, lapsed), V)
    BY <1>9 DEF Sweep
  <2>2. /\ DropExpired(store, aged, lapsed) \in Store
        /\ Shrinks(store, DropExpired(store, aged, lapsed))
    BY <1>0, DropExpiredShrinks
  <2>3. Shrinks(DropExpired(store, aged, lapsed), store')
    BY <2>1, <2>2, EvictionShrinks
  <2>. QED
    BY <2>2, <2>3 DEF Shrinks
<1>10. ASSUME \/ \E q \in Runs : Start(q) \/ Resume(q) \/ DeadlineFires(q)
                              \/ RunAges(q)
              \/ \E q \in Runs, o \in Outcomes : PipelineEnds(q, o)
              \/ \E k \in Keys : KeyLapses(k)
              \/ Stop
              \/ UNCHANGED vars
       PROVE  Kept
  BY <1>10 DEF Start, Resume, DeadlineFires, RunAges, PipelineEnds, KeyLapses,
               Stop, StopBegin, StopDrain, StopEnd, vars
<1>. QED
  BY <1>2, <1>3, <1>4, <1>5, <1>7, <1>8, <1>9, <1>10
     DEF Next, Request, TaskStep

\* What a DELETE answered, or a completion, a failure or the deadline put on
\* record, is never overturned by what comes after it.
THEOREM OutcomesAreFinal == Spec => OutcomeIsFinal
<1>1. IndInv /\ [Next]_vars =>
        [\A r \in Runs : IsTerminal(store, r) =>
            /\ store'.rec[r].status = store.rec[r].status
            /\ store'.rec[r].code   = store.rec[r].code]_vars
  BY OutcomeStep
<1>. QED
  BY <1>1, Invariance, PTL DEF Spec, OutcomeIsFinal

\* Where the task of a run is determines what may be on record for it.
THEOREM RecordsFollowTasks == Spec => []RecordFollowsTask
<1>1. IndInv => RecordFollowsTask
  BY DEF IndInv
<1>. QED
  BY <1>1, Invariance, PTL

-----------------------------------------------------------------------------
(***************************************************************************)
(* No idle slot: the half of SlotsConserved that is not counting.          *)
(***************************************************************************)

\* Nobody waits at a slot that no one is about to take or to pass on.
NoIdleSlot == free > 0 /\ GrantedRuns = {} => \A r \in Runs : ~Pending(pc, r)

\* Whoever wakes at least one waiter if there is one leaves no idle slot: the
\* waiters it left are left because another was granted or no slot remains.
LEMMA WakeLeavesNone ==
  ASSUME TypeOK, NEW p \in [Runs -> Places], NEW v \in Nat, NEW n \in Nat,
         Wake(p, v, n), n > 0 \/ v = 0,
         \A r \in Runs : Pending(pc, r)' => Pending(p, r)
  PROVE  NoIdleSlot'
<1>1. PICK G \in SUBSET Runs :
        /\ Woken(p, v, n, G)
        /\ pc' = [r \in Runs |-> IF r \in G THEN "granted" ELSE p[r]]
        /\ free' = v - Cardinality(G)
  BY DEF Wake
<1>3. CASE G = {r \in Runs : Pending(p, r)}
  BY <1>1, <1>3 DEF NoIdleSlot, Pending
<1>4. CASE G # {}
  BY <1>1, <1>4 DEF NoIdleSlot, GrantedRuns
<1>5. CASE G = {} /\ G # {r \in Runs : Pending(p, r)}
  <2>1. Cardinality(G) = 0
    BY <1>5, FS_EmptySet
  <2>2. v = 0
    BY <1>1, <1>5, <2>1 DEF Woken
  <2>. QED
    BY <1>1, <2>1, <2>2 DEF NoIdleSlot
<1>. QED
  BY <1>3, <1>4, <1>5

\* Steps that wake nobody and let nobody start to wait.
LEMMA NoNewWaiter ==
  ASSUME NoIdleSlot, free' = free, GrantedRuns' = GrantedRuns,
         \A r \in Runs : Pending(pc, r)' => Pending(pc, r)
  PROVE  NoIdleSlot'
BY DEF NoIdleSlot

\* Every step leaves no idle slot.
LEMMA NoIdleSlotStep == TypeOK /\ NoIdleSlot /\ [Next]_vars => NoIdleSlot'
<1>. SUFFICES ASSUME TypeOK, NoIdleSlot, [Next]_vars PROVE NoIdleSlot'
  OBVIOUS
<1>1. ASSUME NEW r \in Runs, Start(r) PROVE NoIdleSlot'
  <2>1. pc[r] = "scheduled" /\ UNCHANGED cancels
    BY <1>1 DEF Start
  <2>2. CASE Locked
    <3>1. free' = free /\ GrantedRuns' = GrantedRuns
      BY <1>1, <2>1, <2>2 DEF Start, TypeOK, GrantedRuns
    <3>2. free = 0 \/ GrantedRuns # {}
      BY <2>2 DEF Locked, NoIdleSlot, GrantedRuns, TypeOK
    <3>. QED
      BY <3>1, <3>2 DEF NoIdleSlot
  <2>3. CASE ~Locked
    <3>1. pc' = [pc EXCEPT ![r] = "running"]
      BY <1>1, <2>3 DEF Start
    <3>. QED
      BY <2>1, <2>3, <3>1 DEF Locked, TypeOK, NoIdleSlot, Pending
  <2>. QED
    BY <2>2, <2>3
<1>2. ASSUME NEW r \in Runs, Resume(r) PROVE NoIdleSlot'
  <2>. DEFINE p == [pc EXCEPT ![r] = "running"]
  <2>1. p \in [Runs -> Places] /\ free \in Nat /\ Wake(p, free, free)
    BY <1>2 DEF Resume, TypeOK
  <2>2. UNCHANGED cancels
    BY <1>2 DEF Resume
  <2>3. \A q \in Runs : pc'[q] = p[q] \/ (Pending(p, q) /\ pc'[q] = "granted")
    BY <2>1, WakeMoves
  <2>4. \A q \in Runs : Pending(pc, q)' => Pending(p, q)
    BY <2>2, <2>3 DEF Pending
  <2>5. free > 0 \/ free = 0
    BY <2>1
  <2>. HIDE DEF p
  <2>. QED
    BY <2>1, <2>4, <2>5, WakeLeavesNone
<1>3. ASSUME NEW r \in Runs, NEW v \in Nat, NEW n \in Nat, n > 0 \/ v = 0,
             Wake([pc EXCEPT ![r] = "finished"], v, n),
             cancels' = [cancels EXCEPT ![r] = 0]
      PROVE  NoIdleSlot'
  <2>. DEFINE p == [pc EXCEPT ![r] = "finished"]
  <2>1. p \in [Runs -> Places]
    BY DEF TypeOK
  <2>2. \A q \in Runs : pc'[q] = p[q] \/ (Pending(p, q) /\ pc'[q] = "granted")
    BY <1>3, <2>1, WakeMoves
  <2>3. p[r] = "finished" /\ \A q \in Runs \ {r} : cancels'[q] = cancels[q]
    BY <1>3 DEF TypeOK
  <2>4. \A q \in Runs : Pending(pc, q)' => Pending(p, q)
    BY <2>2, <2>3 DEF Pending
  <2>. QED
    BY <1>3, <2>1, <2>4, WakeLeavesNone
<1>4. ASSUME NEW r \in Runs, AbandonQueue(r) PROVE NoIdleSlot'
  <2>1. GivenBack(r) \in Nat /\ (GivenBack(r) > 0 \/ GivenBack(r) = 0)
    BY DEF GivenBack, TypeOK
  <2>2. /\ Wake([pc EXCEPT ![r] = "finished"], GivenBack(r), GivenBack(r))
        /\ cancels' = [cancels EXCEPT ![r] = 0]
    BY <1>4 DEF AbandonQueue, Close
  <2>. QED
    BY <1>3, <2>1, <2>2
<1>5. ASSUME NEW r \in Runs, Conclude(r) PROVE NoIdleSlot'
  <2>1. Released(r) \in Nat /\ 1 \in Nat /\ 1 > 0
    BY DEF Released, TypeOK
  <2>2. /\ Wake([pc EXCEPT ![r] = "finished"], Released(r), 1)
        /\ cancels' = [cancels EXCEPT ![r] = 0]
    BY <1>5 DEF Conclude, Close
  <2>. QED
    BY <1>3, <2>1, <2>2
<1>6. ASSUME NEW r \in Runs,
             \/ Cancel(r)
             \/ DeadlineFires(r)
             \/ \E o \in Outcomes : PipelineEnds(r, o)
             \/ \E k \in Keys \cup {NoKey} : Accept(k, r)
      PROVE  NoIdleSlot'
  <2>1. free' = free
    BY <1>6 DEF Cancel, DeadlineFires, PipelineEnds, Accept, counts
  <2>2. GrantedRuns' = GrantedRuns
    BY <1>6 DEF Cancel, DeadlineFires, PipelineEnds, Accept, TypeOK, GrantedRuns
  <2>3. \A q \in Runs : Pending(pc, q)' => Pending(pc, q)
    BY <1>6 DEF Cancel, CancelTask, DeadlineFires, PipelineEnds, Accept, TypeOK,
                Pending
  <2>. QED
    BY <2>1, <2>2, <2>3, NoNewWaiter
<1>7. CASE StopDrain
  <2>1. free' = free /\ pc' = pc
    BY <1>7 DEF StopDrain, counts
  <2>2. \A q \in Runs : Pending(pc, q)' => Pending(pc, q)
    BY <1>7, <2>1 DEF StopDrain, TypeOK, Pending
  <2>. QED
    BY <2>1, <2>2, NoNewWaiter DEF GrantedRuns
<1>8. CASE \/ \E k \in Keys \cup {NoKey} : Reject(k)
           \/ \E r \in Runs : Poll(r) \/ RunAges(r)
           \/ \E k \in Keys : KeyLapses(k)
           \/ Sweep \/ StopBegin \/ StopEnd
           \/ UNCHANGED vars
  <2>1. UNCHANGED <<free, pc, cancels>>
    BY <1>8 DEF Reject, Poll, RunAges, KeyLapses, Sweep, StopBegin, StopEnd,
                vars, taskv, counts
  <2>. QED
    BY <2>1, NoNewWaiter DEF GrantedRuns, Pending
<1>. QED
  BY <1>1, <1>2, <1>4, <1>5, <1>6, <1>7, <1>8 DEF Next, Request, TaskStep, Stop

\* Slots are neither lost nor invented by release, cancellation of a waiter
\* and arrival of a newcomer in any order, and none idles beside a waiter.
THEOREM SlotsAreConserved == Spec => []SlotsConserved
<1>1. Init => NoIdleSlot
  BY DEF Init, NoIdleSlot, Pending
<1>2. IndInv => TypeOK
  BY DEF IndInv
<1>3. IndInv /\ NoIdleSlot => SlotsConserved
  BY DEF IndInv, Counts, NoIdleSlot, SlotsConserved
<1>. QED
  BY <1>1, <1>2, <1>3, NoIdleSlotStep, Invariance, PTL DEF Spec

-----------------------------------------------------------------------------
(***************************************************************************)
(* Shutdown.                                                               *)
(***************************************************************************)

\* While tasks are drained each live task owes its end to a cancellation that
\* is not the deadline's.
Doomed(r) ==
  /\ phase \in {"draining", "stopped"}
  /\ pc[r] \in Live
  => cancels[r] > (IF deadline[r] = "expiring" THEN 1 ELSE 0)

AllDoomed == \A r \in Runs : Doomed(r)

\* A task of which a step changes no more than its place.
LEMMA DoomKept ==
  ASSUME NEW q \in Runs, Doomed(q), phase' = phase,
         pc'[q] \in Live => pc[q] \in Live,
         cancels'[q] = cancels[q], deadline'[q] = deadline[q]
  PROVE  Doomed(q)'
BY DEF Doomed

\* No task that nobody cancelled is stepped while tasks are drained.
LEMMA DoomedIsCancelled ==
  ASSUME TypeOK, NEW r \in Runs, Doomed(r), phase \in {"draining", "stopped"},
         pc[r] \in Live
  PROVE  /\ cancels[r] # 0
         /\ ~(cancels[r] = 1 /\ deadline[r] = "expiring")
         /\ Verdict(r) = "cancelled"
<1>1. cancels[r] \in Nat
  BY DEF TypeOK
<1>2. cancels[r] > (IF deadline[r] = "expiring" THEN 1 ELSE 0)
  BY DEF Doomed
<1>3. cancels[r] # 0 /\ ~(cancels[r] = 1 /\ deadline[r] = "expiring")
  BY <1>1, <1>2
<1>. QED
  BY <1>3 DEF Verdict

\* A task that ends closes its run, and no other task ends with it.
LEMMA EndsOne ==
  ASSUME TypeOK, NEW r \in Runs, AbandonQueue(r) \/ Conclude(r)
  PROVE  /\ OnlyEnds(r) /\ pc[r] \in Live /\ phase' = phase
         /\ \E v \in Codes \cup {"ok"} : Close(r, v)
<1>. DEFINE p == [pc EXCEPT ![r] = "finished"]
<1>1. pc[r] \in Live /\ phase' = phase
  BY DEF AbandonQueue, Conclude
<1>2. PICK v \in Nat, n \in Nat : Wake(p, v, n)
  <2>1. GivenBack(r) \in Nat /\ Released(r) \in Nat
    BY DEF GivenBack, Released, TypeOK
  <2>. QED
    BY <2>1 DEF AbandonQueue, Conclude
<1>3. p \in [Runs -> Places]
  BY DEF TypeOK
<1>4. \A q \in Runs : pc'[q] = p[q] \/ (Pending(p, q) /\ pc'[q] = "granted")
  BY <1>2, <1>3, WakeMoves
<1>5. OnlyEnds(r)
  BY <1>4 DEF Pending, TypeOK, OnlyEnds
<1>6. "cancelled" \in Codes /\ Verdict(r) \in Codes \cup {"ok"}
  BY VerdictType DEF Codes
<1>. QED
  BY <1>1, <1>5, <1>6 DEF AbandonQueue, Conclude

\* Every step keeps what is doomed doomed, and dooms nobody but for a reason.
LEMMA DoomStep == IndInv /\ AllDoomed /\ [Next]_vars => AllDoomed'
<1>. SUFFICES ASSUME IndInv, AllDoomed, [Next]_vars, NEW q \in Runs
              PROVE  Doomed(q)'
  BY DEF AllDoomed
<1>0. TypeOK /\ Doomed(q) /\ RecordFollows(q)
  BY DEF IndInv, AllDoomed, RecordFollowsTask
<1>1. ASSUME phase' \notin {"draining", "stopped"} PROVE Doomed(q)'
  BY <1>1 DEF Doomed
<1>2. ASSUME NEW r \in Runs, Start(r) \/ Resume(r) PROVE Doomed(q)'
  <2>1. phase' = phase /\ cancels' = cancels /\ pc[r] \in Live /\ cancels[r] = 0
    <3>1. RecordFollows(r)
      BY DEF IndInv, RecordFollowsTask
    <3>. QED
      BY <1>2, <3>1 DEF Start, Resume, RecordFollows
  <2>2. phase \notin {"draining", "stopped"}
    <3>1. Doomed(r)
      BY DEF AllDoomed
    <3>. QED
      BY <1>0, <2>1, <3>1, DoomedIsCancelled
  <2>. QED
    BY <1>1, <2>1, <2>2
<1>3. ASSUME NEW r \in Runs, NEW o \in Outcomes, PipelineEnds(r, o)
      PROVE  Doomed(q)'
  BY <1>0, <1>3, DoomKept DEF PipelineEnds, TypeOK
<1>4. ASSUME NEW r \in Runs, DeadlineFires(r) PROVE Doomed(q)'
  <2>1. phase' = phase /\ pc' = pc
    BY <1>4 DEF DeadlineFires
  <2>2. CASE q = r
    <3>1. /\ deadline[r] = "armed" /\ cancels[r] \in Nat
          /\ cancels'[r] = cancels[r] + 1
      BY <1>0, <1>4 DEF DeadlineFires, TypeOK
    <3>. QED
      BY <1>0, <2>1, <2>2, <3>1 DEF Doomed
  <2>3. CASE q # r
    BY <1>0, <1>4, <2>1, <2>3, DoomKept DEF DeadlineFires, TypeOK
  <2>. QED
    BY <2>2, <2>3
<1>5. ASSUME NEW r \in Runs, Cancel(r) PROVE Doomed(q)'
  <2>1. UNCHANGED <<phase, pc, deadline>> /\ cancels[q] \in Nat
    BY <1>0, <1>5 DEF Cancel, TypeOK
  <2>2. cancels'[q] = cancels[q] \/ cancels'[q] = cancels[q] + 1
    BY <1>0, <1>5 DEF Cancel, CancelTask, TypeOK
  <2>. QED
    BY <1>0, <2>1, <2>2 DEF Doomed
<1>6. ASSUME NEW r \in Runs, NEW v \in Codes \cup {"ok"}, Close(r, v),
             OnlyEnds(r), phase' = phase
      PROVE  Doomed(q)'
  BY <1>0, <1>6, DoomKept DEF Close, OnlyEnds, TypeOK, Doomed
<1>7. ASSUME NEW r \in Runs, AbandonQueue(r) \/ Conclude(r) PROVE Doomed(q)'
  BY <1>0, <1>6, <1>7, EndsOne
<1>8. CASE StopDrain
  <2>1. UNCHANGED <<pc, deadline>> /\ cancels[q] \in Nat
    BY <1>0, <1>8 DEF StopDrain, TypeOK
  <2>2. pc[q] \in Live => cancels'[q] = cancels[q] + 1
    BY <1>8 DEF StopDrain
  <2>3. deadline[q] = "expiring" => cancels[q] > 0
    BY <1>0 DEF RecordFollows
  <2>. QED
    BY <2>1, <2>2, <2>3 DEF Doomed
<1>9. CASE \/ \E k \in Keys \cup {NoKey} : Reject(k)
           \/ \E k \in Keys \cup {NoKey}, r \in Runs : Accept(k, r)
           \/ Sweep \/ StopBegin
  BY <1>1, <1>9 DEF Reject, Accept, Sweep, StopBegin
<1>10. CASE \/ \E r \in Runs : Poll(r) \/ RunAges(r)
            \/ \E k \in Keys : KeyLapses(k)
            \/ StopEnd
            \/ UNCHANGED vars
  BY <1>0, <1>10 DEF Poll, RunAges, KeyLapses, StopEnd, vars, taskv, Doomed
<1>. QED
  BY <1>2, <1>3, <1>4, <1>5, <1>7, <1>8, <1>9, <1>10
     DEF Next, Request, TaskStep, Stop

\* The step that ends a task is its own, and records the verdict.
LEMMA EndsByItself ==
  ASSUME IndInv, [Next]_vars, NEW r \in Runs, pc[r] \in Live,
         pc'[r] = "finished"
  PROVE  AbandonQueue(r) \/ Conclude(r)
<1>0. TypeOK
  BY DEF IndInv
<1>1. ASSUME NEW q \in Runs, Resume(q) PROVE FALSE
  <2>. DEFINE p == [pc EXCEPT ![q] = "running"]
  <2>1. p \in [Runs -> Places] /\ free \in Nat /\ Wake(p, free, free)
    BY <1>0, <1>1 DEF Resume, TypeOK
  <2>2. pc'[r] = p[r] \/ (Pending(p, r) /\ pc'[r] = "granted")
    BY <1>0, <2>1, WakeMoves
  <2>. QED
    BY <1>0, <2>2 DEF TypeOK
<1>2. ASSUME NEW q \in Runs, AbandonQueue(q) \/ Conclude(q), q # r PROVE FALSE
  BY <1>0, <1>2, EndsOne DEF OnlyEnds
<1>3. ASSUME NEW q \in Runs,
             \/ Start(q) \/ DeadlineFires(q) \/ RunAges(q) \/ Poll(q) \/ Cancel(q)
             \/ \E o \in Outcomes : PipelineEnds(q, o)
             \/ \E k \in Keys \cup {NoKey} : Accept(k, q)
      PROVE  FALSE
  BY <1>0, <1>3 DEF Start, DeadlineFires, RunAges, Poll, Cancel, PipelineEnds,
                    Accept, TypeOK, taskv
<1>4. CASE \/ \E k \in Keys \cup {NoKey} : Reject(k)
           \/ \E k \in Keys : KeyLapses(k)
           \/ Sweep \/ Stop
           \/ UNCHANGED vars
  BY <1>4 DEF Reject, KeyLapses, Sweep, Stop, StopBegin, StopDrain, StopEnd,
              vars, taskv
<1>. QED
  BY <1>1, <1>2, <1>3, <1>4 DEF Next, Request, TaskStep

\* After stop() cancelled the tasks every task that ends is recorded as
\* cancelled, whether its deadline had fired or its result was there.
THEOREM DrainsCancel == Spec => DrainCancels
<1>1. Init => AllDoomed
  BY DEF Init, AllDoomed, Doomed
<1>2. IndInv /\ AllDoomed /\ [Next]_vars =>
        [\A r \in Runs :
           /\ phase \in {"draining", "stopped"}
           /\ pc[r] \in Live /\ pc'[r] = "finished"
           => ended'[r] = "cancelled"]_vars
  <2>. SUFFICES ASSUME IndInv, AllDoomed, [Next]_vars, NEW r \in Runs,
                       phase \in {"draining", "stopped"},
                       pc[r] \in Live, pc'[r] = "finished"
                PROVE  ended'[r] = "cancelled"
    OBVIOUS
  <2>1. TypeOK /\ Doomed(r)
    BY DEF IndInv, AllDoomed
  <2>2. Verdict(r) = "cancelled"
    BY <2>1, DoomedIsCancelled
  <2>3. Close(r, "cancelled")
    BY <2>2, EndsByItself DEF AbandonQueue, Conclude
  <2>. QED
    BY <2>1, <2>3 DEF Close, Closing, TypeOK
<1>. QED
  BY <1>1, <1>2, DoomStep, Invariance, PTL DEF Spec, DrainCancels
=============================================================================

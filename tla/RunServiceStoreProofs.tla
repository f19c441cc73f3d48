----------------------- MODULE RunServiceStoreProofs ------------------------
(***************************************************************************)
(* What the store of RunService holds and forgets, for every value of the  *)
(* constants: its size, its eviction counter, the refinement of            *)
(* RunContract, and how long an idempotency key names its run.             *)
(*                                                                         *)
(* Every step of the service does one of five things to the store: it      *)
(* looks up (and so pops records that are expired), it concludes one run,  *)
(* it admits one, it sweeps, or it lets a run age.  That is StoreSteps;    *)
(* the invariant and the refinement then have five cases each.             *)
(***************************************************************************)
EXTENDS RunServiceProofs

USE DEF Places, Live, Waiting, Working

\* t is s without the runs R, each counted once.
Loses(s, t, R) ==
  /\ R \subseteq s.runs
  /\ t.runs    = s.runs \ R
  /\ t.born    = s.born
  /\ t.evicted = s.evicted + Cardinality(R)

SameStatus(s, t) == \A q \in Runs : t.rec[q].status = s.rec[q].status

\* The runs that are held although their time is over.
Expired(s) == {r \in s.runs : IsExpired(s, aged, r)}

\* What lookups do.
Pops(s, t) ==
  SameStatus(s, t) /\ \E R \in SUBSET Expired(s) : Loses(s, t, R)

\* A run still going gets its verdict; it is popped with it if it is overdue.
Concludes(r, t) ==
  /\ r \in store.runs /\ ~IsTerminal(store, r)
  /\ IsTerminal(t, r)
  /\ \A q \in Runs \ {r} : t.rec[q].status = store.rec[q].status
  /\ \E R \in SUBSET {r} : Loses(store, t, R) /\ (R # {} => r \in aged)

\* No run is admitted.
StayAbsent == \A q \in Runs : pc'[q] = "absent" <=> pc[q] = "absent"

StoreStep ==
  \/ Pops(store, store') /\ aged' = aged /\ StayAbsent
  \/ \E r \in Runs : Concludes(r, store') /\ aged' = aged /\ StayAbsent
  \/ \E k \in Keys \cup {NoKey}, r \in Runs : Accept(k, r)
  \/ Sweep
  \/ \E r \in Runs : RunAges(r)

-----------------------------------------------------------------------------
(***************************************************************************)
(* Losing runs.                                                            *)
(***************************************************************************)

\* Drop loses what it is told to drop.
LEMMA DropLoses ==
  ASSUME NEW s \in Store, NEW R \in SUBSET s.runs
  PROVE  Loses(s, Drop(s, R), R) /\ SameStatus(s, Drop(s, R))
BY DEF Drop, Store, Loses, SameStatus

\* A store that differs in its keys and in details of records lost nothing.
LEMMA NothingLost ==
  ASSUME NEW s \in Store, NEW t \in Store, SameStatus(s, t),
         t.runs = s.runs, t.born = s.born, t.evicted = s.evicted
  PROVE  Pops(s, t)
<1>1. Loses(s, t, {})
  BY FS_EmptySet DEF Loses, Store
<1>. QED
  BY <1>1 DEF Pops

\* Losing R and then V is losing both.
LEMMA LosesTransitive ==
  ASSUME NEW s \in Store, NEW t \in Store, NEW u \in Store,
         NEW R \in SUBSET Runs, NEW V \in SUBSET Runs,
         Loses(s, t, R), Loses(t, u, V)
  PROVE  Loses(s, u, R \cup V)
<1>1. R \cap V = {}
  BY DEF Loses
<1>2. Cardinality(R \cup V) = Cardinality(R) + Cardinality(V)
  BY <1>1, DisjointUnion
<1>3. Cardinality(R) \in Nat /\ Cardinality(V) \in Nat /\ s.evicted \in Nat
  BY RunCount DEF Store
<1>. QED
  BY <1>2, <1>3 DEF Loses

\* What is lost is gone from the number held.
LEMMA LossCounts ==
  ASSUME NEW A \in SUBSET Runs, NEW R \in SUBSET A
  PROVE  /\ Cardinality(A \ R) = Cardinality(A) - Cardinality(R)
         /\ Cardinality(A \ R) \in Nat /\ Cardinality(A) \in Nat
         /\ Cardinality(R) \in Nat /\ Cardinality(A \ R) <= Cardinality(A)
<1>1. A \ R \in SUBSET Runs /\ R \in SUBSET Runs /\ (A \ R) \cap R = {}
  OBVIOUS
<1>2. Cardinality((A \ R) \cup R) = Cardinality(A \ R) + Cardinality(R)
  BY <1>1, DisjointUnion
<1>3. (A \ R) \cup R = A
  OBVIOUS
<1>4. /\ Cardinality(A) \in Nat /\ Cardinality(R) \in Nat
      /\ Cardinality(A \ R) \in Nat
  BY <1>1, RunCount
<1>. QED
  BY <1>2, <1>3, <1>4

\* get pops an expired record and nothing else.
LEMMA GetPops ==
  ASSUME NEW s \in Store, NEW r \in Runs
  PROVE  Pops(s, Get(s, aged, r))
<1>1. CASE r \in s.runs /\ IsExpired(s, aged, r)
  <2>1. {r} \in SUBSET s.runs /\ {r} \in SUBSET Expired(s)
    BY <1>1 DEF Expired
  <2>2. Loses(s, Drop(s, {r}), {r}) /\ SameStatus(s, Drop(s, {r}))
    BY <2>1, DropLoses
  <2>. QED
    BY <1>1, <2>1, <2>2 DEF Get, Pops
<1>2. CASE ~(r \in s.runs /\ IsExpired(s, aged, r))
  BY <1>2, NothingLost DEF Get, SameStatus
<1>. QED
  BY <1>1, <1>2

\* The lookups of create_run pop at most the run the key names.
LEMMA AfterLookupPops ==
  ASSUME TypeOK, NEW k \in Keys \cup {NoKey}
  PROVE  Pops(store, AfterLookup(k))
<1>0. store \in Store
  BY DEF TypeOK
<1>1. CASE k = NoKey
  BY <1>0, <1>1, NothingLost DEF AfterLookup, SameStatus
<1>2. CASE k # NoKey /\ Replayed(k) = NoRun
  <2>1. k \in Keys /\ AfterLookup(k) = LookupKey(store, lapsed, k)
    BY <1>2 DEF AfterLookup
  <2>2. AfterLookup(k) \in Store
    BY AfterLookupShrinks
  <2>3. /\ AfterLookup(k).runs = store.runs /\ AfterLookup(k).rec = store.rec
        /\ AfterLookup(k).born = store.born
        /\ AfterLookup(k).evicted = store.evicted
    BY <1>0, <2>1 DEF LookupKey, Store
  <2>. QED
    BY <1>0, <2>2, <2>3, NothingLost DEF SameStatus
<1>3. CASE k # NoKey /\ Replayed(k) # NoRun
  <2>1. k \in Keys /\ Replayed(k) = KeyRun(store, lapsed, k)
    BY <1>3 DEF Replayed
  <2>2. Replayed(k) \in Runs
    BY <1>0, <1>3, <2>1, LookupKeyShrinks
  <2>3. AfterLookup(k) = Get(store, aged, Replayed(k))
    BY <1>3 DEF AfterLookup
  <2>. QED
    BY <1>0, <2>2, <2>3, GetPops
<1>. QED
  BY <1>1, <1>2, <1>3

\* _finish concludes a run still going, and leaves the status of others alone.
LEMMA FinishConcludes ==
  ASSUME TypeOK, NEW r \in Runs, NEW c \in Record, c.status \in Terminal,
         IsTerminal(store, r) => c.status = store.rec[r].status
  PROVE  \/ Pops(store, Finish(store, aged, r, c))
         \/ Concludes(r, Finish(store, aged, r, c))
<1>. DEFINE t == Finish(store, aged, r, c)
<1>0. store \in Store /\ t \in Store /\ store.rec \in [Runs -> Record]
  BY FinishStores DEF TypeOK, Store
<1>1. CASE ~Found(store, aged, r)
  BY <1>0, <1>1, GetPops DEF Finish
<1>2. CASE Found(store, aged, r)
  <2>1. /\ t.runs = store.runs /\ t.rec = [store.rec EXCEPT ![r] = c]
        /\ t.born = store.born /\ t.evicted = store.evicted
    BY <1>0, <1>2 DEF Finish, Store
  <2>. HIDE DEF t
  <2>2. CASE IsTerminal(store, r)
    <3>1. SameStatus(store, t)
      BY <1>0, <2>1, <2>2 DEF SameStatus
    <3>2. Pops(store, t)
      BY <1>0, <2>1, <3>1, NothingLost
    <3>. QED
      BY <3>2 DEF t
  <2>3. CASE ~IsTerminal(store, r)
    <3>1. Loses(store, t, {})
      BY <1>0, <2>1, FS_EmptySet DEF Loses, Store
    <3>2. IsTerminal(t, r) /\ r \in store.runs
      BY <1>0, <1>2, <2>1 DEF IsTerminal, Found
    <3>3. Concludes(r, t)
      BY <1>0, <2>1, <2>3, <3>1, <3>2 DEF Concludes
    <3>. QED
      BY <3>3 DEF t
  <2>. QED
    BY <2>2, <2>3
<1>. QED
  BY <1>1, <1>2

-----------------------------------------------------------------------------
(***************************************************************************)
(* What each step does to the store.                                       *)
(***************************************************************************)

\* DELETE concludes its run, which is popped at once if it is overdue.
LEMMA CancelConcludes ==
  ASSUME TypeOK, NEW r \in Runs, Cancel(r)
  PROVE  Concludes(r, store')
<1>. DEFINE c == [status |-> "cancelled", code |-> "cancelled", by |-> "request"]
            s == Finish(store, aged, r, c)
<1>0. store \in Store /\ store.rec \in [Runs -> Record] /\ c \in Record
  BY DEF TypeOK, Store, Record, Status, Terminal, Codes
<1>1. Found(store, aged, r) /\ ~IsTerminal(store, r)
  BY DEF Cancel, Cancellable
<1>2. /\ s \in Store /\ s.runs = store.runs
      /\ s.rec = [store.rec EXCEPT ![r] = c]
      /\ s.born = store.born /\ s.evicted = store.evicted
  BY <1>0, <1>1, FinishStores DEF Finish, Store
<1>3. store' = Get(s, aged, r)
  BY DEF Cancel
<1>. HIDE DEF s
<1>4. s.rec[r].status = "cancelled" /\ IsTerminal(s, r)
  BY <1>0, <1>2 DEF IsTerminal, Terminal
<1>5. store'.rec = s.rec
  BY <1>2, <1>3 DEF Get, Drop, Store
<1>6. IsTerminal(store', r)
  BY <1>4, <1>5 DEF IsTerminal
<1>7. \A q \in Runs \ {r} : store'.rec[q].status = store.rec[q].status
  BY <1>0, <1>2, <1>5
<1>8. \E R \in SUBSET {r} : Loses(store, store', R) /\ (R # {} => r \in aged)
  <2>1. CASE r \in aged
    <3>1. r \in s.runs /\ IsExpired(s, aged, r)
      BY <1>1, <1>2, <1>4, <2>1 DEF Found, IsExpired
    <3>2. store' = Drop(s, {r}) /\ {r} \in SUBSET s.runs
      BY <1>3, <3>1 DEF Get
    <3>3. Loses(s, store', {r})
      BY <1>2, <3>2, DropLoses
    <3>4. Loses(store, store', {r})
      BY <1>2, <3>3 DEF Loses
    <3>. QED
      BY <2>1, <3>4
  <2>2. CASE r \notin aged
    <3>1. store' = s
      BY <1>3, <2>2 DEF Get, IsExpired
    <3>2. Loses(store, store', {})
      BY <1>0, <1>2, <3>1, FS_EmptySet DEF Loses, Store
    <3>. QED
      BY <3>2
  <2>. QED
    BY <2>1, <2>2
<1>. QED
  BY <1>1, <1>6, <1>7, <1>8 DEF Concludes, Found

\* A task that ends concludes its run unless a DELETE did.
LEMMA EndConcludes ==
  ASSUME IndInv, NEW r \in Runs, AbandonQueue(r) \/ Conclude(r)
  PROVE  /\ Pops(store, store') \/ Concludes(r, store')
         /\ StayAbsent /\ aged' = aged
<1>0. TypeOK /\ RecordFollows(r)
  BY DEF IndInv, RecordFollowsTask
<1>1. OnlyEnds(r) /\ pc[r] \in Live
  BY <1>0, EndsOne
<1>2. StayAbsent /\ aged' = aged
  BY <1>1 DEF StayAbsent, OnlyEnds, AbandonQueue, Conclude, clock
<1>3. PICK v \in Codes \cup {"ok"} :
        Close(r, v) /\ (IsTerminal(store, r) => v = "cancelled")
  <2>1. IsTerminal(store, r) => Verdict(r) = "cancelled"
    BY <1>0, <1>1, CancelledVerdict
  <2>2. "cancelled" \in Codes /\ Verdict(r) \in Codes \cup {"ok"}
    BY <1>0, VerdictType DEF Codes
  <2>. QED
    BY <2>1, <2>2 DEF AbandonQueue, Conclude
<1>4. Closing(v) \in Record /\ Closing(v).status \in Terminal
  BY <1>0, ClosingStores
<1>5. IsTerminal(store, r) => Closing(v).status = store.rec[r].status
  BY <1>0, <1>1, <1>3 DEF RecordFollows, Closing
<1>6. store' = Finish(store, aged, r, Closing(v))
  BY <1>3 DEF Close
<1>. QED
  BY <1>0, <1>2, <1>4, <1>5, <1>6, FinishConcludes

\* Every step does one of the five things to the store.
LEMMA StoreSteps == IndInv /\ [Next]_vars => StoreStep
<1>. SUFFICES ASSUME IndInv, [Next]_vars PROVE StoreStep
  OBVIOUS
<1>0. TypeOK /\ store \in Store
  BY DEF IndInv, TypeOK
<1>1. ASSUME UNCHANGED <<store, aged>>, StayAbsent PROVE StoreStep
  BY <1>0, <1>1, NothingLost DEF StoreStep, SameStatus
<1>2. ASSUME NEW k \in Keys \cup {NoKey}, Reject(k) PROVE StoreStep
  BY <1>0, <1>2, AfterLookupPops DEF Reject, StoreStep, taskv, StayAbsent
<1>3. ASSUME NEW r \in Runs, Poll(r) PROVE StoreStep
  BY <1>0, <1>3, GetPops DEF Poll, StoreStep, taskv, clock, StayAbsent
<1>4. ASSUME NEW r \in Runs, Cancel(r) PROVE StoreStep
  <2>1. aged' = aged /\ StayAbsent
    BY <1>4 DEF Cancel, clock, StayAbsent
  <2>. QED
    BY <1>0, <1>4, <2>1, CancelConcludes DEF StoreStep
<1>5. ASSUME NEW r \in Runs, AbandonQueue(r) \/ Conclude(r) PROVE StoreStep
  BY <1>5, EndConcludes DEF StoreStep
<1>6. ASSUME NEW r \in Runs, Resume(r) PROVE StoreStep
  <2>. DEFINE p == [pc EXCEPT ![r] = "running"]
  <2>1. p \in [Runs -> Places] /\ free \in Nat /\ Wake(p, free, free)
    BY <1>0, <1>6 DEF Resume, TypeOK
  <2>2. \A q \in Runs : pc'[q] = p[q] \/ (Pending(p, q) /\ pc'[q] = "granted")
    BY <1>0, <2>1, WakeMoves
  <2>3. pc[r] = "granted" /\ UNCHANGED <<store, aged>>
    BY <1>6 DEF Resume, clock
  <2>4. StayAbsent
    BY <1>0, <2>2, <2>3 DEF StayAbsent, Pending, TypeOK
  <2>. QED
    BY <1>1, <2>3, <2>4
<1>7. ASSUME NEW r \in Runs,
             \/ Start(r) \/ DeadlineFires(r)
             \/ \E o \in Outcomes : PipelineEnds(r, o)
      PROVE  StoreStep
  <2>1. UNCHANGED <<store, aged>>
    BY <1>7 DEF Start, DeadlineFires, PipelineEnds, clock
  <2>2. StayAbsent
    BY <1>0, <1>7 DEF Start, DeadlineFires, PipelineEnds, StayAbsent, TypeOK
  <2>. QED
    BY <1>1, <2>1, <2>2
<1>8. CASE Stop \/ (\E k \in Keys : KeyLapses(k)) \/ UNCHANGED vars
  BY <1>1, <1>8 DEF Stop, StopBegin, StopDrain, StopEnd, KeyLapses, vars,
                    clock, taskv, StayAbsent
<1>. QED
  BY <1>2, <1>3, <1>4, <1>5, <1>6, <1>7, <1>8
     DEF Next, Request, TaskStep, StoreStep

\* Admission in full: the lookups pop R, the run is put last, and the walk
\* then drops V from the store s.
LEMMA AcceptShape ==
  ASSUME IndInv, NEW k \in Keys \cup {NoKey}, NEW r \in Runs, Accept(k, r)
  PROVE  \E R \in SUBSET Expired(store), V \in SUBSET Runs, s \in Store :
           /\ s.runs    = (store.runs \ R) \cup {r}
           /\ s.born    = [store.born EXCEPT
                             ![r] = Cardinality(Created(store)) + 1]
           /\ s.evicted = store.evicted + Cardinality(R)
           /\ s.rec[r]  = Fresh
           /\ \A q \in Runs \ {r} : s.rec[q].status = store.rec[q].status
           /\ IsEviction(s, V)
           /\ Loses(s, store', V) /\ SameStatus(s, store')
<1>. DEFINE a == AfterLookup(k)
            s == Insert(a, r)
<1>0. TypeOK /\ store \in Store /\ store.runs \in SUBSET Runs
  BY DEF IndInv, TypeOK, Store
<1>1. a \in Store /\ Pops(store, a)
  BY <1>0, AfterLookupShrinks, AfterLookupPops
<1>2. PICK R \in SUBSET Expired(store) : Loses(store, a, R)
  BY <1>1 DEF Pops
<1>3. SameStatus(store, a)
  BY <1>1 DEF Pops
<1>4. PICK V \in SUBSET Runs :
        /\ IsEviction(s, V)
        /\ store' = IF k = NoKey THEN Drop(s, V)
                    ELSE RememberKey(Drop(s, V), k, r)
  BY DEF Accept
<1>. HIDE DEF a
<1>5. /\ s \in Store /\ s.runs = a.runs \cup {r}
      /\ s.rec = [a.rec EXCEPT ![r] = Fresh]
  BY <1>1, InsertStores
<1>6. /\ s.born = [a.born EXCEPT ![r] = Cardinality(Created(a)) + 1]
      /\ s.evicted = a.evicted
  BY <1>1 DEF Insert, Store
<1>. HIDE DEF s
<1>7. Created(a) = Created(store)
  BY <1>2 DEF Loses, Created
<1>8. V \in SUBSET s.runs
  BY <1>4 DEF IsEviction, Concluded
<1>. DEFINE d == Drop(s, V)
<1>9. d \in Store /\ Loses(s, d, V) /\ SameStatus(s, d)
  BY <1>4, <1>5, <1>8, DropLoses, EvictionShrinks
<1>10. /\ store'.runs = d.runs /\ store'.rec = d.rec
       /\ store'.born = d.born /\ store'.evicted = d.evicted
  <2>1. store' = IF k = NoKey THEN d ELSE RememberKey(d, k, r)
    BY <1>4
  <2>. HIDE DEF d
  <2>. QED
    BY <1>9, <2>1 DEF RememberKey, Store
<1>11. Loses(s, store', V) /\ SameStatus(s, store')
  BY <1>9, <1>10 DEF Loses, SameStatus
<1>12. /\ s.rec[r] = Fresh
       /\ \A q \in Runs \ {r} : s.rec[q].status = store.rec[q].status
  BY <1>1, <1>3, <1>5 DEF SameStatus, Store
<1>. QED
  BY <1>2, <1>4, <1>5, <1>6, <1>7, <1>11, <1>12 DEF Loses

\* The sweep in full: it loses what is expired, then what the walk drops.
LEMMA SweepShape ==
  ASSUME IndInv, Sweep
  PROVE  \E V \in SUBSET Runs, s \in Store :
           /\ s.runs = store.runs \ Expired(store)
           /\ s.born = store.born
           /\ s.rec  = store.rec
           /\ IsEviction(s, V)
           /\ Loses(s, store', V) /\ SameStatus(store, store')
           /\ Loses(store, store', Expired(store) \cup V)
<1>. DEFINE s == DropExpired(store, aged, lapsed)
            X == Expired(store)
<1>0. TypeOK /\ store \in Store /\ X \in SUBSET store.runs /\ X \in SUBSET Runs
  BY DEF IndInv, TypeOK, Store, Expired
<1>1. PICK V \in SUBSET Runs : IsEviction(s, V) /\ store' = Drop(s, V)
  BY DEF Sweep
<1>2. Loses(store, Drop(store, X), X)
  BY <1>0, DropLoses
<1>3. s \in Store
  BY <1>0, DropExpiredShrinks
<1>4. Loses(store, s, X) /\ s.rec = store.rec
  <2>1. /\ s.runs = Drop(store, X).runs /\ s.born = Drop(store, X).born
        /\ s.evicted = Drop(store, X).evicted /\ s.rec = store.rec
    BY <1>0 DEF DropExpired, Drop, Store, Expired
  <2>. QED
    BY <1>2, <2>1 DEF Loses
<1>. HIDE DEF s
<1>5. V \in SUBSET s.runs
  BY <1>1 DEF IsEviction, Concluded
<1>6. Loses(s, store', V) /\ SameStatus(s, store') /\ store' \in Store
  BY <1>1, <1>3, <1>5, DropLoses, EvictionShrinks
<1>7. Loses(store, store', X \cup V)
  BY <1>0, <1>3, <1>4, <1>6, LosesTransitive
<1>. QED
  BY <1>1, <1>3, <1>4, <1>6, <1>7 DEF Loses, SameStatus

-----------------------------------------------------------------------------
(***************************************************************************)
(* What is true of the store beside IndInv.                                *)
(***************************************************************************)

\* The order of the ids against the tasks and the clock.
Ordered ==
  /\ \A r \in Runs : store.born[r] = 0 <=> pc[r] = "absent"
  /\ \A r \in Runs : store.born[r] <= Cardinality(Created(store))
  /\ store.runs \subseteq Created(store)
  /\ aged \subseteq Created(store)
  /\ \A q \in Created(store), r \in aged :
       store.born[q] < store.born[r] => q \in aged

StoreInv == Ordered /\ EvictionsCounted /\ StoreBounded

\* Losing runs keeps the order, the count and the bound.
LEMMA LossKeepsStoreInv ==
  ASSUME IndInv, StoreInv, NEW R \in SUBSET Runs, Loses(store, store', R),
         aged' = aged, StayAbsent
  PROVE  StoreInv'
<1>0. /\ store \in Store /\ store.runs \in SUBSET Runs /\ store.evicted \in Nat
      /\ R \in SUBSET store.runs
  BY DEF IndInv, TypeOK, Store, Loses
<1>1. Created(store') = Created(store) /\ store'.runs = store.runs \ R
  BY DEF Loses, Created
<1>2. /\ Cardinality(store'.runs) = Cardinality(store.runs) - Cardinality(R)
      /\ Cardinality(store'.runs) <= Cardinality(store.runs)
      /\ Cardinality(store.runs) \in Nat /\ Cardinality(R) \in Nat
      /\ Cardinality(store'.runs) \in Nat
  BY <1>0, <1>1, LossCounts
<1>3. Ordered'
  BY <1>1 DEF StoreInv, Ordered, Loses, StayAbsent
<1>4. EvictionsCounted'
  BY <1>0, <1>1, <1>2 DEF StoreInv, EvictionsCounted, Loses
<1>5. Cap \in Nat /\ Limit \in Nat
  BY StoreAssumption, Sizes DEF Cap
<1>6. StoreBounded'
  BY <1>2, <1>5 DEF StoreInv, StoreBounded
<1>. QED
  BY <1>3, <1>4, <1>6 DEF StoreInv

\* The walk brings the store down to the cap, or to the runs still going.
LEMMA WalkBounds ==
  ASSUME NEW s \in Store, NEW V \in SUBSET Runs, IsEviction(s, V)
  PROVE  \/ Cardinality(s.runs \ V) <= Cap
         \/ \A r \in s.runs \ V : ~IsTerminal(s, r)
<1>. DEFINE excess == Cardinality(s.runs) - Cap
            spare  == Concluded(s) \ V
<1>1. s.runs \in SUBSET Runs /\ V \in SUBSET s.runs
  BY DEF Store, IsEviction, Concluded
<1>2. /\ Cardinality(s.runs \ V) = Cardinality(s.runs) - Cardinality(V)
      /\ Cardinality(s.runs) \in Nat /\ Cardinality(V) \in Nat
      /\ Cardinality(s.runs \ V) <= Cardinality(s.runs)
  BY <1>1, LossCounts
<1>3. Cap \in Nat
  BY StoreAssumption DEF Cap
<1>4. \/ excess <= 0
      \/ Cardinality(V) = excess
      \/ spare = {}
  BY DEF IsEviction
<1>5. CASE excess <= 0 \/ Cardinality(V) = excess
  BY <1>2, <1>3, <1>5
<1>6. CASE spare = {}
  BY <1>6 DEF Concluded
<1>. QED
  BY <1>4, <1>5, <1>6

\* Runs on record as going after a step are live, and so within the limit.
LEMMA GoingBounded ==
  ASSUME IndInv', \A r \in store'.runs : ~IsTerminal(store', r)
  PROVE  Cardinality(store'.runs) <= Limit
<1>1. store'.runs \in SUBSET LiveRuns'
  <2>. SUFFICES ASSUME NEW r \in store'.runs PROVE r \in LiveRuns'
    OBVIOUS
  <2>1. r \in Runs /\ RecordFollows(r)' /\ ~IsTerminal(store', r)
    BY DEF IndInv, TypeOK, Store, RecordFollowsTask
  <2>2. pc'[r] \in Live
    BY <2>1 DEF RecordFollows, IndInv, TypeOK
  <2>. QED
    BY <2>1, <2>2 DEF LiveRuns
<1>2. LiveRuns' \in SUBSET Runs
  BY DEF LiveRuns
<1>3. /\ Cardinality(store'.runs) <= Cardinality(LiveRuns')
      /\ Cardinality(LiveRuns') \in Nat /\ Cardinality(store'.runs) \in Nat
  BY <1>1, <1>2, FS_Subset, RunCount
<1>4. Cardinality(LiveRuns') <= Limit
  BY DEF IndInv, Counts, Limit
<1>. QED
  BY <1>3, <1>4, Sizes

\* Admission puts the run last and leaves the store within bounds.
LEMMA AcceptStoreInv ==
  ASSUME IndInv, IndInv', StoreInv, NEW k \in Keys \cup {NoKey},
         NEW r \in Runs, Accept(k, r)
  PROVE  StoreInv'
<1>0. TypeOK /\ store \in Store /\ store.runs \in SUBSET Runs
  BY DEF IndInv, TypeOK, Store
<1>1. PICK R \in SUBSET Expired(store), V \in SUBSET Runs, s \in Store :
        /\ s.runs    = (store.runs \ R) \cup {r}
        /\ s.born    = [store.born EXCEPT ![r] = Cardinality(Created(store)) + 1]
        /\ s.evicted = store.evicted + Cardinality(R)
        /\ s.rec[r]  = Fresh
        /\ \A q \in Runs \ {r} : s.rec[q].status = store.rec[q].status
        /\ IsEviction(s, V)
        /\ Loses(s, store', V) /\ SameStatus(s, store')
  BY AcceptShape
<1>2. /\ pc[r] = "absent" /\ pc' = [pc EXCEPT ![r] = "scheduled"]
      /\ aged' = aged
  BY DEF Accept
<1>. DEFINE n == Cardinality(Created(store))
<1>3. n \in Nat /\ store.born \in [Runs -> Nat] /\ Created(store) \in SUBSET Runs
  BY <1>0, RunCount DEF Created, Store
<1>4. store.born[r] = 0 /\ r \notin Created(store) /\ r \notin store.runs
  BY <1>2 DEF StoreInv, Ordered, Created
<1>5. store'.born = [store.born EXCEPT ![r] = n + 1] /\ store'.runs = s.runs \ V
  BY <1>1 DEF Loses
<1>6. Created(store') = Created(store) \cup {r}
  BY <1>3, <1>5 DEF Created
<1>7. Cardinality(Created(store')) = n + 1
  BY <1>3, <1>4, <1>6, OneMoreOrLess
<1>8. Ordered'
  <2>1. \A q \in Runs : store'.born[q] = 0 <=> pc'[q] = "absent"
    BY <1>0, <1>2, <1>3, <1>5 DEF StoreInv, Ordered, TypeOK
  <2>2. \A q \in Runs : store'.born[q] <= n + 1
    BY <1>3, <1>5 DEF StoreInv, Ordered
  <2>3. store'.runs \subseteq Created(store') /\ aged' \subseteq Created(store')
    BY <1>1, <1>2, <1>5, <1>6 DEF StoreInv, Ordered
  <2>4. ASSUME NEW q \in Created(store'), NEW x \in aged',
               store'.born[q] < store'.born[x]
        PROVE  q \in aged'
    <3>1. x \in Created(store) /\ x \in Runs /\ x # r /\ q \in Runs
      BY <1>2, <1>3, <1>4, <1>6 DEF StoreInv, Ordered
    <3>2. store'.born[x] = store.born[x] /\ store.born[x] <= n
      BY <1>3, <1>5, <3>1 DEF StoreInv, Ordered
    <3>3. q # r
      BY <1>3, <1>5, <2>4, <3>1, <3>2
    <3>4. q \in Created(store) /\ store'.born[q] = store.born[q]
      BY <1>3, <1>5, <1>6, <3>1, <3>3
    <3>. QED
      BY <1>2, <2>4, <3>2, <3>4 DEF StoreInv, Ordered
  <2>. QED
    BY <1>7, <2>1, <2>2, <2>3, <2>4 DEF Ordered
<1>9. EvictionsCounted'
  <2>1. R \in SUBSET store.runs /\ V \in SUBSET s.runs /\ s.runs \in SUBSET Runs
    BY <1>1 DEF Expired, Loses, Store
  <2>2. /\ Cardinality(store.runs \ R) = Cardinality(store.runs) - Cardinality(R)
        /\ Cardinality(store.runs) \in Nat /\ Cardinality(R) \in Nat
        /\ Cardinality(store.runs \ R) \in Nat
    BY <1>0, <2>1, LossCounts
  <2>3. Cardinality(s.runs) = Cardinality(store.runs \ R) + 1
    BY <1>0, <1>1, <1>4, OneMoreOrLess
  <2>4. /\ Cardinality(s.runs \ V) = Cardinality(s.runs) - Cardinality(V)
        /\ Cardinality(V) \in Nat /\ Cardinality(s.runs \ V) \in Nat
    BY <2>1, LossCounts
  <2>5. store'.evicted = store.evicted + Cardinality(R) + Cardinality(V)
    BY <1>1 DEF Loses
  <2>6. store.evicted \in Nat
    BY <1>0 DEF Store
  <2>7. store.evicted + Cardinality(store.runs) = n
    BY DEF StoreInv, EvictionsCounted
  <2>8. Cardinality(store'.runs) = Cardinality(s.runs) - Cardinality(V)
    BY <1>5, <2>4
  <2>. HIDE DEF n
  <2>9. store'.evicted + Cardinality(store'.runs) = n + 1
    BY <1>3, <2>2, <2>3, <2>4, <2>5, <2>6, <2>7, <2>8
  <2>. QED
    BY <1>7, <2>9 DEF EvictionsCounted
<1>10. StoreBounded'
  <2>1. CASE Cardinality(s.runs \ V) <= Cap
    <3>1. Cardinality(s.runs \ V) \in Nat /\ Cap \in Nat /\ Limit \in Nat
      BY <1>1, RunCount, StoreAssumption, Sizes DEF Cap, Store
    <3>. QED
      BY <1>5, <2>1, <3>1 DEF StoreBounded
  <2>2. CASE \A q \in s.runs \ V : ~IsTerminal(s, q)
    <3>1. \A q \in store'.runs : ~IsTerminal(store', q)
      BY <1>0, <1>1, <1>5, <2>2 DEF SameStatus, IsTerminal, Store
    <3>2. Cardinality(store'.runs) <= Limit
      BY <3>1, GoingBounded
    <3>3. Cardinality(store'.runs) \in Nat /\ Cap \in Nat /\ Limit \in Nat
      <4>1. store'.runs \in SUBSET Runs
        BY <1>1, <1>5 DEF Store
      <4>. QED
        BY <4>1, RunCount, StoreAssumption, Sizes DEF Cap
    <3>. QED
      BY <3>2, <3>3 DEF StoreBounded
  <2>. QED
    BY <1>1, <2>1, <2>2, WalkBounds
<1>. QED
  BY <1>8, <1>9, <1>10 DEF StoreInv

\* A run that ages does so after all older ones.
LEMMA AgingStoreInv ==
  ASSUME IndInv, StoreInv, NEW r \in Runs, RunAges(r)
  PROVE  StoreInv'
<1>1. /\ r \in Created(store) /\ aged' = aged \cup {r} /\ store' = store
      /\ pc' = pc
      /\ \A q \in Created(store) : store.born[q] < store.born[r] => q \in aged
  BY DEF RunAges, taskv
<1>2. Ordered'
  BY <1>1 DEF StoreInv, Ordered
<1>. QED
  BY <1>1, <1>2 DEF StoreInv, EvictionsCounted, StoreBounded

LEMMA InitStoreInv == Init => StoreInv
<1>. SUFFICES ASSUME Init PROVE StoreInv
  OBVIOUS
<1>1. store.runs = {} /\ store.evicted = 0 /\ Created(store) = {}
  BY DEF Init, EmptyStore, Created
<1>2. Cardinality({}) = 0
  BY FS_EmptySet
<1>3. Ordered
  BY <1>1, <1>2 DEF Init, Ordered, EmptyStore
<1>4. Cap \in Nat /\ Limit \in Nat
  BY StoreAssumption, Sizes DEF Cap
<1>. QED
  BY <1>1, <1>2, <1>3, <1>4 DEF StoreInv, EvictionsCounted, StoreBounded

LEMMA NextStoreInv ==
  IndInv /\ IndInv' /\ StoreInv /\ [Next]_vars => StoreInv'
<1>. SUFFICES ASSUME IndInv, IndInv', StoreInv, [Next]_vars PROVE StoreInv'
  OBVIOUS
<1>0. store.runs \in SUBSET Runs
  BY DEF IndInv, TypeOK, Store
<1>1. StoreStep
  BY StoreSteps
<1>2. CASE Pops(store, store') /\ aged' = aged /\ StayAbsent
  <2>1. PICK R \in SUBSET Expired(store) : Loses(store, store', R)
    BY <1>2 DEF Pops
  <2>2. R \in SUBSET Runs
    BY <1>0 DEF Expired
  <2>. QED
    BY <1>2, <2>1, <2>2, LossKeepsStoreInv
<1>3. CASE \E r \in Runs : Concludes(r, store') /\ aged' = aged /\ StayAbsent
  <2>1. PICK R \in SUBSET Runs : Loses(store, store', R)
    BY <1>3 DEF Concludes
  <2>. QED
    BY <1>3, <2>1, LossKeepsStoreInv
<1>4. CASE \E k \in Keys \cup {NoKey}, r \in Runs : Accept(k, r)
  BY <1>4, AcceptStoreInv
<1>5. CASE Sweep
  <2>1. PICK V \in SUBSET Runs : Loses(store, store', Expired(store) \cup V)
    BY <1>5, SweepShape
  <2>2. Expired(store) \cup V \in SUBSET Runs
    BY <1>0 DEF Expired
  <2>3. aged' = aged /\ StayAbsent
    BY <1>5 DEF Sweep, taskv, StayAbsent
  <2>. QED
    BY <2>1, <2>2, <2>3, LossKeepsStoreInv
<1>6. CASE \E r \in Runs : RunAges(r)
  BY <1>6, AgingStoreInv
<1>. QED
  BY <1>1, <1>2, <1>3, <1>4, <1>5, <1>6 DEF StoreStep

\* Every reachable state has the store in order.
THEOREM StoreInvariance == Spec => [](IndInv /\ StoreInv)
<1>1. Init => IndInv /\ StoreInv
  BY InitIndInv, InitStoreInv
<1>2. (IndInv /\ StoreInv) /\ [Next]_vars => (IndInv /\ StoreInv)'
  BY NextIndInv, NextStoreInv
<1>. QED
  BY <1>1, <1>2, PTL DEF Spec

\* The store never holds more runs than its cap or the admission limit,
\* whichever is larger, whatever mix of runs concludes in whatever order.
THEOREM StoreIsBounded == Spec => []StoreBounded
<1>1. IndInv /\ StoreInv => StoreBounded
  BY DEF StoreInv
<1>. QED
  BY <1>1, StoreInvariance, PTL

\* evicted_total counts each run that left the store once, whether a lookup,
\* the sweeper or the capacity walk removed it.
THEOREM EvictionsAreCounted == Spec => []EvictionsCounted
<1>1. IndInv /\ StoreInv => EvictionsCounted
  BY DEF StoreInv
<1>. QED
  BY <1>1, StoreInvariance, PTL

-----------------------------------------------------------------------------
(***************************************************************************)
(* The refinement of RunContract: what clients see, step by step.          *)
(***************************************************************************)

\* The refinement mapping's answers.
Views == [r \in Runs |-> View(r)]

\* Both modules count with FiniteSets.
LEMMA OneCardinality == \A S : Contract!Cardinality(S) = Cardinality(S)
BY DEF Contract!Cardinality, Cardinality

\* An answer never depends on what a lookup pops.
LEMMA PopsKeepViews ==
  ASSUME TypeOK, Pops(store, store'), aged' = aged
  PROVE  Views' = Views
<1>1. PICK R \in SUBSET Expired(store) : Loses(store, store', R)
  BY DEF Pops
<1>. SUFFICES ASSUME NEW q \in Runs PROVE View(q)' = View(q)
  BY DEF Views
<1>2. store'.rec[q].status = store.rec[q].status
  BY DEF Pops, SameStatus
<1>3. Found(store', aged', q) <=> Found(store, aged, q)
  BY <1>1, <1>2 DEF Found, IsExpired, IsTerminal, Loses, Expired
<1>. QED
  BY <1>1, <1>2, <1>3 DEF View, Loses

\* The answer for a run that was admitted.
LEMMA ViewIs ==
  ASSUME TypeOK, NEW r \in Runs
  PROVE  /\ View(r) \in {"unknown", "gone"} \cup Status
         /\ View(r) = "unknown" <=> store.born[r] = 0
         /\ store.born[r] # 0 =>
              /\ Found(store, aged, r) => View(r) = store.rec[r].status
              /\ ~Found(store, aged, r) => View(r) = "gone"
<1>1. store.rec[r].status \in Status
  BY DEF TypeOK, Store, Record
<1>. QED
  BY <1>1 DEF View, Status, Terminal

\* What concludes one run is a step of the contract.
LEMMA ConcludesRefines ==
  ASSUME TypeOK, TypeOK', Ordered, NEW r \in Runs, Concludes(r, store'),
         aged' = aged
  PROVE  Contract!Conclude(r)
<1>1. PICK R \in SUBSET {r} : Loses(store, store', R) /\ (R # {} => r \in aged)
  BY DEF Concludes
<1>2. store.born[r] # 0 /\ store'.born = store.born
  BY <1>1 DEF Concludes, Ordered, Created, Loses
<1>3. store.rec[r].status \in Status /\ store'.rec[r].status \in Terminal
  BY DEF TypeOK, Store, Record, Concludes, IsTerminal
<1>4. View(r) = "running"
  BY <1>2, <1>3 DEF View, Found, IsExpired, Concludes, IsTerminal, Status
<1>5. View(r)' = IF r \in aged THEN "gone" ELSE store'.rec[r].status
  BY <1>1, <1>2 DEF View, Found, IsExpired, Concludes, Loses
<1>6. ASSUME NEW q \in Runs, q # r PROVE View(q)' = View(q)
  <2>1. store'.rec[q].status = store.rec[q].status
    BY <1>6 DEF Concludes
  <2>2. q \in store'.runs <=> q \in store.runs
    BY <1>1, <1>6 DEF Loses
  <2>. QED
    BY <1>2, <2>1, <2>2 DEF View, Found, IsExpired, IsTerminal
<1>7. Views' = [Views EXCEPT ![r] = IF r \in aged THEN "gone"
                                    ELSE store'.rec[r].status]
  BY <1>5, <1>6 DEF Views
<1>8. Views[r] = "running"
  BY <1>4 DEF Views
<1>. QED
  BY <1>2, <1>3, <1>7, <1>8
     DEF Contract!Conclude, Contract!Concluded, Terminal, Views

\* The walk over the store, expired runs included, forgets what the contract
\* lets it forget: what is expired goes first and is no loss to any client.
LEMMA WalkTrims ==
  ASSUME TypeOK, NEW s \in Store, NEW V \in SUBSET Runs, IsEviction(s, V),
         NEW seen,
         \A q \in Runs : seen[q] \in Contract!Held <=>
                           q \in s.runs \ Expired(s),
         \A q \in Runs : seen[q] \in Contract!Concluded <=>
                           q \in Concluded(s) \ Expired(s),
         \A q \in Concluded(s) : s.born[q] = store.born[q],
         \A q \in Concluded(s), x \in aged :
           s.born[q] < s.born[x] => q \in aged
  PROVE  Contract!Trims(seen, V \ Expired(s))
<1>. DEFINE X == Expired(s)
            E == V \ X
            held == {q \in Runs : seen[q] \in Contract!Held}
            spare == {q \in held \ E : seen[q] \in Contract!Concluded}
<1>1. /\ s.runs \in SUBSET Runs /\ Concluded(s) \in SUBSET s.runs
      /\ X \in SUBSET Concluded(s) /\ V \in SUBSET Concluded(s)
      /\ X \in SUBSET s.runs /\ V \in SUBSET Runs /\ X \in SUBSET Runs
  BY DEF Store, Concluded, Expired, IsExpired, IsEviction
<1>2. held = s.runs \ X
  BY <1>1
<1>3. spare = (Concluded(s) \ X) \ V
  BY <1>1, <1>2
<1>4. \A e \in E : seen[e] \in Contract!Concluded
  BY <1>1
<1>5. \A e \in E, q \in spare : store.born[e] < store.born[q]
  BY <1>1, <1>3 DEF IsEviction
<1>6. /\ Cardinality(held) = Cardinality(s.runs) - Cardinality(X)
      /\ Cardinality(held) \in Nat /\ Cardinality(s.runs) \in Nat
      /\ Cardinality(X) \in Nat
  BY <1>1, <1>2, LossCounts
<1>7. Cap \in Nat /\ Cardinality(V) \in Nat /\ Cardinality(E) \in Nat
  <2>1. V \in SUBSET Runs /\ E \in SUBSET Runs
    BY <1>1
  <2>. QED
    BY <2>1, RunCount, StoreAssumption DEF Cap
<1>8. X \in SUBSET V => Cardinality(E) = Cardinality(V) - Cardinality(X)
  BY <1>1, LossCounts
<1>9. Cardinality(E) = 0 => E = {}
  <2>1. E \in SUBSET Runs
    BY <1>1
  <2>2. IsFiniteSet(E)
    BY <2>1, RunCount
  <2>. QED
    BY <2>2, FS_EmptySet
<1>10. V \in SUBSET X => E = {} /\ Cardinality(V) <= Cardinality(X)
  <2>1. IsFiniteSet(X)
    BY <1>1, RunCount
  <2>. QED
    BY <2>1, FS_Subset
<1>11. V \in SUBSET X \/ X \in SUBSET V
  <2>. SUFFICES ASSUME NEW v \in V \ X, NEW x \in X \ V PROVE FALSE
    OBVIOUS
  <2>1. s.born[v] < s.born[x]
    BY <1>1 DEF IsEviction
  <2>2. v \in Concluded(s) /\ x \in aged
    BY <1>1 DEF Expired, IsExpired
  <2>3. v \in aged
    BY <2>1, <2>2
  <2>4. v \in X
    BY <2>2, <2>3 DEF Concluded, Expired, IsExpired
  <2>. QED
    BY <2>4
<1>. DEFINE excess == Cardinality(held) - Cap
            whole  == Cardinality(s.runs) - Cap
<1>12. /\ whole <= 0 => V = {}
       /\ whole > 0 => \/ Cardinality(V) = whole
                       \/ Cardinality(V) < whole /\ Concluded(s) \ V = {}
  <2>1. IF whole <= 0 THEN V = {}
        ELSE \/ Cardinality(V) = whole
             \/ Cardinality(V) < whole /\ Concluded(s) \ V = {}
    BY DEF IsEviction
  <2>. QED
    BY <1>6, <1>7, <2>1
<1>13. excess = whole - Cardinality(X) /\ whole \in Int /\ excess \in Int
  BY <1>6, <1>7
<1>14. IF excess <= 0 THEN E = {}
       ELSE \/ Cardinality(E) = excess
            \/ Cardinality(E) < excess /\ spare = {}
  <2>. HIDE DEF X, E, held, spare, excess, whole
  <2>1. CASE whole <= 0
    <3>1. V = {} /\ excess <= 0
      BY <1>6, <1>12, <1>13, <2>1
    <3>2. E = {}
      BY <3>1 DEF E
    <3>. QED
      BY <3>1, <3>2
  <2>2. CASE whole > 0 /\ Cardinality(V) = whole
    <3>1. CASE V \in SUBSET X
      BY <1>6, <1>10, <1>13, <2>2, <3>1
    <3>2. CASE X \in SUBSET V
      BY <1>6, <1>7, <1>8, <1>9, <1>13, <2>2, <3>2
    <3>. QED
      BY <1>11, <3>1, <3>2
  <2>3. CASE whole > 0 /\ Cardinality(V) < whole /\ Concluded(s) \ V = {}
    <3>1. X \in SUBSET V /\ spare = {}
      BY <1>1, <1>3, <2>3
    <3>. QED
      BY <1>6, <1>7, <1>8, <1>13, <2>3, <3>1
  <2>. QED
    BY <1>12, <1>13, <2>1, <2>2, <2>3
<1>15. Contract!Trims(seen, E)
  <2>. HIDE DEF X, E
  <2>. QED
    BY <1>4, <1>5, <1>14, OneCardinality DEF Contract!Trims
<1>. QED
  BY <1>15

\* Admission with its walk is admission in the contract.
LEMMA AcceptRefines ==
  ASSUME IndInv, StoreInv, TypeOK', NEW k \in Keys \cup {NoKey},
         NEW r \in Runs, Accept(k, r)
  PROVE  Contract!Accept(r)
<1>0. TypeOK /\ Ordered /\ store \in Store
  BY DEF IndInv, StoreInv, TypeOK
<1>1. PICK R \in SUBSET Expired(store), V \in SUBSET Runs, s \in Store :
        /\ s.runs    = (store.runs \ R) \cup {r}
        /\ s.born    = [store.born EXCEPT ![r] = Cardinality(Created(store)) + 1]
        /\ s.evicted = store.evicted + Cardinality(R)
        /\ s.rec[r]  = Fresh
        /\ \A q \in Runs \ {r} : s.rec[q].status = store.rec[q].status
        /\ IsEviction(s, V)
        /\ Loses(s, store', V) /\ SameStatus(s, store')
  BY AcceptShape
<1>. DEFINE seen == [Views EXCEPT ![r] = "running"]
            E    == V \ Expired(s)
            n    == Cardinality(Created(store))
<1>2. /\ pc[r] = "absent" /\ aged' = aged /\ admitted < Limit
      /\ store.born[r] = 0
  BY <1>0 DEF Accept, CapacityAvailable, Ordered
<1>3. /\ n \in Nat /\ store.born \in [Runs -> Nat] /\ store.runs \in SUBSET Runs
      /\ s.runs \in SUBSET Runs /\ store.runs \subseteq Created(store)
  BY <1>0, RunCount DEF Created, Store, Ordered
<1>4. /\ ~IsTerminal(s, r) /\ s.rec[r].status = "running" /\ s.born[r] = n + 1
      /\ s.born[r] # 0
  BY <1>1, <1>3 DEF IsTerminal, Fresh, Terminal
<1>5. ASSUME NEW q \in Runs, q # r
      PROVE  /\ s.born[q] = store.born[q]
             /\ IsTerminal(s, q) <=> IsTerminal(store, q)
             /\ q \in Expired(s) => q \in Expired(store)
             /\ q \in s.runs \ Expired(s) <=> q \in store.runs \ Expired(store)
  <2>1. /\ s.born[q] = store.born[q]
        /\ IsTerminal(s, q) <=> IsTerminal(store, q)
    BY <1>1, <1>3, <1>5 DEF IsTerminal
  <2>. QED
    BY <1>1, <1>5, <2>1 DEF Expired, IsExpired
<1>6. Views[r] = "unknown"
  BY <1>2 DEF Views, View
<1>7. ASSUME NEW q \in Runs
      PROVE  /\ seen[q] \in Contract!Held <=> q \in s.runs \ Expired(s)
             /\ seen[q] \in Contract!Concluded <=>
                  q \in Concluded(s) \ Expired(s)
  <2>1. CASE q = r
    BY <1>1, <1>4, <2>1 DEF Views, Contract!Held, Contract!Concluded, Concluded,
                            Expired, IsExpired
  <2>2. CASE q # r
    <3>1. seen[q] = View(q)
      BY <2>2 DEF Views
    <3>2. store.rec[q].status \in Status
      BY <1>0 DEF Store, Record
    <3>3. View(q) \in Contract!Held <=> q \in store.runs \ Expired(store)
      BY <1>3, <3>2 DEF View, Found, Expired, Created, Contract!Held,
                        Contract!Concluded, Status, Terminal
    <3>4. View(q) \in Contract!Concluded <=>
            q \in store.runs \ Expired(store) /\ IsTerminal(store, q)
      BY <1>3, <3>2 DEF View, Found, Expired, Created, Contract!Concluded,
                        Status, Terminal, IsTerminal
    <3>. QED
      BY <1>5, <2>2, <3>1, <3>3, <3>4 DEF Concluded
  <2>. QED
    BY <2>1, <2>2
<1>8. Contract!Trims(seen, E)
  <2>1. \A q \in Concluded(s) : q # r /\ q \in Runs /\ s.born[q] = store.born[q]
    BY <1>3, <1>4, <1>5 DEF Concluded
  <2>2. ASSUME NEW q \in Concluded(s), NEW x \in aged, s.born[q] < s.born[x]
        PROVE  q \in aged
    <3>1. x \in Runs /\ x # r /\ s.born[x] = store.born[x]
      BY <1>0, <1>2, <1>5 DEF Ordered, Created
    <3>2. q \in Created(store)
      BY <1>1, <1>3, <2>1 DEF Concluded
    <3>. QED
      BY <1>0, <2>1, <2>2, <3>1, <3>2 DEF Ordered
  <2>. HIDE DEF seen
  <2>. QED
    BY <1>0, <1>1, <1>7, <2>1, <2>2, WalkTrims
<1>9. Views' = Contract!Forget(seen, E)
  <2>. SUFFICES ASSUME NEW q \in Runs
                PROVE  View(q)' = IF q \in E THEN "gone" ELSE seen[q]
    BY DEF Views, Contract!Forget
  <2>1. /\ store'.runs = s.runs \ V /\ store'.born = s.born
        /\ store'.rec[q].status = s.rec[q].status
    BY <1>1 DEF Loses, SameStatus
  <2>2. r \notin V
    BY <1>1, <1>4 DEF IsEviction, Concluded
  <2>3. CASE q = r
    BY <1>1, <1>4, <2>1, <2>2, <2>3
       DEF View, Found, IsExpired, IsTerminal, Terminal, Views
  <2>4. CASE q # r
    <3>1. seen[q] = View(q)
      BY <2>4 DEF Views
    <3>2. q \in V => q \in s.runs /\ q \in Created(store)
      BY <1>1, <1>3, <2>4 DEF IsEviction, Concluded
    <3>3. /\ store'.born[q] = store.born[q]
          /\ store'.rec[q].status = store.rec[q].status
      BY <1>1, <1>5, <2>1, <2>4
    <3>4. Found(store', aged', q) <=> q \in (s.runs \ Expired(s)) \ V
      BY <1>2, <2>1 DEF Found, Expired, IsExpired, IsTerminal
    <3>5. Found(store, aged, q) <=> q \in s.runs \ Expired(s)
      BY <1>5, <2>4 DEF Found, Expired
    <3>6. CASE q \in E
      BY <3>2, <3>3, <3>4, <3>6 DEF View, Created
    <3>7. CASE q \notin E
      BY <3>1, <3>3, <3>4, <3>5, <3>7 DEF View
    <3>. QED
      BY <3>6, <3>7
  <2>. QED
    BY <2>3, <2>4
<1>10. Cardinality({q \in Runs : Views[q] = "running"}) < Limit
  <2>1. {q \in Runs : Views[q] = "running"} \in SUBSET LiveRuns
    <3>. SUFFICES ASSUME NEW q \in Runs, View(q) = "running"
                  PROVE  q \in LiveRuns
      BY DEF Views
    <3>1. q \in store.runs /\ store.rec[q].status = "running"
      BY DEF View, Found
    <3>2. RecordFollows(q) /\ ~IsTerminal(store, q)
      BY <3>1 DEF IndInv, RecordFollowsTask, IsTerminal, Terminal
    <3>. QED
      BY <1>0, <3>1, <3>2 DEF RecordFollows, TypeOK, LiveRuns
  <2>2. LiveRuns \in SUBSET Runs
    BY DEF LiveRuns
  <2>3. /\ Cardinality({q \in Runs : Views[q] = "running"})
             <= Cardinality(LiveRuns)
        /\ Cardinality(LiveRuns) \in Nat
        /\ Cardinality({q \in Runs : Views[q] = "running"}) \in Nat
    BY <2>1, <2>2, FS_Subset, RunCount
  <2>. QED
    BY <1>2, <2>3, Sizes DEF IndInv, Counts
<1>11. store'.born = [store.born EXCEPT
                        ![r] = Cardinality({q \in Runs : store.born[q] # 0}) + 1]
  BY <1>1 DEF Loses, Created
<1>12. \E F \in SUBSET Runs : /\ Contract!Trims(seen, F)
                              /\ Views' = Contract!Forget(seen, F)
  BY <1>8, <1>9
<1>. HIDE DEF E, n
<1>. QED
  BY <1>2, <1>6, <1>10, <1>11, <1>12, OneCardinality DEF Contract!Accept, Views

\* The sweep is a trim: what it loses to the clock, clients lost already.
LEMMA SweepRefines ==
  ASSUME IndInv, StoreInv, TypeOK', Sweep
  PROVE  Contract!Trim
<1>0. TypeOK /\ Ordered /\ store \in Store
  BY DEF IndInv, StoreInv, TypeOK
<1>1. PICK V \in SUBSET Runs, s \in Store :
        /\ s.runs = store.runs \ Expired(store)
        /\ s.born = store.born
        /\ s.rec  = store.rec
        /\ IsEviction(s, V)
        /\ Loses(s, store', V) /\ SameStatus(store, store')
  BY SweepShape
<1>2. aged' = aged /\ store'.born = store.born /\ store'.runs = s.runs \ V
  BY <1>1 DEF Sweep, Loses
<1>3. /\ Expired(s) = {} /\ V \ Expired(s) = V
      /\ store.runs \subseteq Created(store) /\ store.runs \in SUBSET Runs
  BY <1>0, <1>1 DEF Expired, IsExpired, IsTerminal, Ordered, Store
<1>4. ASSUME NEW q \in Runs
      PROVE  /\ Views[q] \in Contract!Held <=> q \in s.runs \ Expired(s)
             /\ Views[q] \in Contract!Concluded <=>
                  q \in Concluded(s) \ Expired(s)
  <2>1. store.rec[q].status \in Status
    BY <1>0 DEF Store, Record
  <2>2. Found(store, aged, q) <=> q \in s.runs
    BY <1>1 DEF Found, Expired
  <2>3. q \in Concluded(s) <=> q \in s.runs /\ store.rec[q].status \in Terminal
    BY <1>1 DEF Concluded, IsTerminal
  <2>. QED
    BY <1>1, <1>3, <2>1, <2>2, <2>3
       DEF Views, View, Created, Contract!Held, Contract!Concluded, Status,
           Terminal
<1>5. \A q \in Concluded(s) : q \in Created(store)
  BY <1>1, <1>3 DEF Concluded
<1>6. Contract!Trims(Views, V)
  <2>1. Contract!Trims(Views, V \ Expired(s))
    BY <1>0, <1>1, <1>4, <1>5, WalkTrims DEF Ordered
  <2>. QED
    BY <1>3, <2>1
<1>7. Views' = Contract!Forget(Views, V)
  <2>. SUFFICES ASSUME NEW q \in Runs
                PROVE  View(q)' = IF q \in V THEN "gone" ELSE View(q)
    BY DEF Views, Contract!Forget
  <2>1. q \in V => q \in Created(store)
    BY <1>1, <1>5 DEF IsEviction
  <2>2. store'.rec[q].status = store.rec[q].status
    BY <1>1 DEF SameStatus
  <2>3. Found(store', aged', q) <=> Found(store, aged, q) /\ q \notin V
    BY <1>1, <1>2, <2>2 DEF Found, Expired, IsExpired, IsTerminal
  <2>. QED
    BY <1>2, <2>1, <2>2, <2>3 DEF View, Created
<1>. QED
  BY <1>2, <1>6, <1>7 DEF Contract!Trim, Views

\* A run that ages is lost to clients at once if it has concluded.
LEMMA AgingRefines ==
  ASSUME IndInv, StoreInv, NEW r \in Runs, RunAges(r)
  PROVE  Contract!Expire(r)
<1>0. TypeOK /\ Ordered /\ store \in Store
  BY DEF IndInv, StoreInv, TypeOK
<1>1. /\ r \in Created(store) /\ r \notin aged /\ aged' = aged \cup {r}
      /\ store' = store
      /\ \A q \in Created(store) : store.born[q] < store.born[r] => q \in aged
  BY DEF RunAges
<1>2. store.rec[r].status \in Status /\ store.born[r] # 0
  BY <1>0, <1>1 DEF Store, Record, Created
<1>3. View(r)' = IF View(r) \in Contract!Concluded THEN "gone" ELSE View(r)
  BY <1>1, <1>2 DEF View, Found, IsExpired, IsTerminal, Contract!Concluded,
                    Status, Terminal
<1>4. \A q \in Runs \ {r} : View(q)' = View(q)
  BY <1>1 DEF View, Found, IsExpired
<1>5. Views' = IF Views[r] \in Contract!Concluded
               THEN [Views EXCEPT ![r] = "gone"] ELSE Views
  BY <1>3, <1>4 DEF Views
<1>6. Views[r] # "unknown"
  BY <1>2 DEF Views, View, Status, Terminal
<1>. QED
  BY <1>1, <1>5, <1>6 DEF Contract!Expire, Views, Created

\* Every step of the service is a step of the contract, or none clients see.
LEMMA StepRefines ==
  ASSUME IndInv, IndInv', StoreInv, [Next]_vars
  PROVE  [Contract!Next]_(Contract!vars)
<1>0. TypeOK /\ TypeOK' /\ Ordered
  BY DEF IndInv, StoreInv
<1>1. StoreStep
  BY StoreSteps
<1>2. CASE Pops(store, store') /\ aged' = aged /\ StayAbsent
  <2>1. Views' = Views
    BY <1>0, <1>2, PopsKeepViews
  <2>2. store'.born = store.born
    BY <1>2 DEF Pops, Loses
  <2>. QED
    BY <1>2, <2>1, <2>2 DEF Contract!vars, Views
<1>3. CASE \E r \in Runs : Concludes(r, store') /\ aged' = aged /\ StayAbsent
  BY <1>0, <1>3, ConcludesRefines DEF Contract!Next
<1>4. CASE \E k \in Keys \cup {NoKey}, r \in Runs : Accept(k, r)
  BY <1>0, <1>4, AcceptRefines DEF Contract!Next
<1>5. CASE Sweep
  BY <1>0, <1>5, SweepRefines DEF Contract!Next
<1>6. CASE \E r \in Runs : RunAges(r)
  BY <1>6, AgingRefines DEF Contract!Next
<1>. QED
  BY <1>1, <1>2, <1>3, <1>4, <1>5, <1>6 DEF StoreStep

\* The service implements its contract: what clients are told of runs follows
\* from admission, conclusion, time and the cap alone, however tasks, lookups
\* that pop, the sweeper and the walk interleave.
THEOREM ContractIsImplemented == Spec => ImplementsContract
<1>1. Init => Contract!Init
  BY DEF Init, Contract!Init, EmptyStore, View
<1>2. (IndInv /\ StoreInv) /\ (IndInv /\ StoreInv)' /\ [Next]_vars =>
        [Contract!Next]_(Contract!vars)
  BY StepRefines
<1>. QED
  BY <1>1, <1>2, StoreInvariance, PTL DEF Spec, ImplementsContract, Contract!Spec

-----------------------------------------------------------------------------
(***************************************************************************)
(* Idempotency keys.                                                       *)
(***************************************************************************)

\* What a step does to a key: it keeps its run and its age, it is forgotten after
\* its time, or it is given the run that is admitted with it.
KeyStep(k) ==
  \/ /\ store'.keys[k] = store.keys[k]
     /\ k \in lapsed => k \in lapsed' \/ store.keys[k] = NoRun
  \/ store'.keys[k] = NoRun /\ k \in lapsed
  \/ \E r \in Runs : Accept(k, r) /\ store'.keys[k] = r

\* Lookups of runs, evictions and verdicts leave the keys alone.
LEMMA KeysUntouched ==
  ASSUME NEW s \in Store
  PROVE  /\ \A r : Get(s, aged, r).keys = s.keys
         /\ \A R : Drop(s, R).keys = s.keys
         /\ \A r, c : Finish(s, aged, r, c).keys = s.keys
BY DEF Get, Drop, Finish, Store

\* The lookups of create_run forget the key at most, and only if it has lapsed.
LEMMA LookupKeys ==
  ASSUME TypeOK, NEW k \in Keys \cup {NoKey}
  PROVE  \/ AfterLookup(k).keys = store.keys
         \/ /\ k \in Keys /\ k \in lapsed
            /\ AfterLookup(k).keys = [store.keys EXCEPT ![k] = NoRun]
<1>0. store \in Store
  BY DEF TypeOK
<1>1. CASE k = NoKey
  BY <1>1 DEF AfterLookup
<1>2. CASE k # NoKey /\ Replayed(k) = NoRun
  <2>1. k \in Keys /\ AfterLookup(k) = LookupKey(store, lapsed, k)
    BY <1>2 DEF AfterLookup
  <2>. QED
    BY <1>0, <2>1 DEF LookupKey, Store
<1>3. CASE k # NoKey /\ Replayed(k) # NoRun
  <2>1. k \in Keys /\ Replayed(k) = KeyRun(store, lapsed, k)
    BY <1>3 DEF Replayed
  <2>2. Replayed(k) \in Runs
    BY <1>0, <1>3, <2>1, LookupKeyShrinks
  <2>3. AfterLookup(k) = Get(store, aged, Replayed(k))
    BY <1>3 DEF AfterLookup
  <2>. QED
    BY <1>0, <2>2, <2>3 DEF Get, Drop, Store
<1>. QED
  BY <1>1, <1>2, <1>3

\* Every step does one of the three to each key.
LEMMA KeySteps ==
  ASSUME IndInv, [Next]_vars
  PROVE  \A k \in Keys : KeyStep(k)
<1>0. TypeOK /\ store \in Store
  BY DEF IndInv, TypeOK
<1>1. ASSUME store'.keys = store.keys, lapsed \subseteq lapsed'
      PROVE  \A k \in Keys : KeyStep(k)
  BY <1>1 DEF KeyStep
<1>2. ASSUME NEW q \in Keys \cup {NoKey}, Reject(q) PROVE \A k \in Keys : KeyStep(k)
  <2>1. /\ store' = AfterLookup(q)
        /\ lapsed' = IF store'.keys = store.keys THEN lapsed ELSE lapsed \ {q}
    BY <1>2 DEF Reject
  <2>2. CASE store'.keys = store.keys
    BY <1>1, <2>1, <2>2
  <2>3. CASE /\ q \in Keys /\ q \in lapsed
             /\ store'.keys = [store.keys EXCEPT ![q] = NoRun]
    BY <1>0, <2>1, <2>3 DEF KeyStep, Store
  <2>. QED
    BY <1>0, <2>1, <2>2, <2>3, LookupKeys
<1>3. ASSUME NEW q \in Keys \cup {NoKey}, NEW r \in Runs, Accept(q, r)
      PROVE  \A k \in Keys : KeyStep(k)
  <2>. DEFINE a == AfterLookup(q)
              s == Insert(a, r)
  <2>1. PICK V \in SUBSET Runs :
          /\ IsEviction(s, V)
          /\ store' = IF q = NoKey THEN Drop(s, V)
                      ELSE RememberKey(Drop(s, V), q, r)
    BY <1>3 DEF Accept
  <2>. DEFINE d == Drop(s, V)
  <2>2. a \in Store /\ s \in Store /\ d \in Store
    BY <1>0, <2>1, AfterLookupShrinks, InsertStores, EvictionShrinks
  <2>3. s.keys = a.keys
    BY <2>2 DEF Insert, Store
  <2>. HIDE DEF s
  <2>4. d.keys = a.keys
    BY <2>2, <2>3, KeysUntouched
  <2>5. store' = IF q = NoKey THEN d ELSE RememberKey(d, q, r)
    BY <2>1
  <2>. HIDE DEF a, d
  <2>6. /\ q = NoKey => store'.keys = a.keys
        /\ q # NoKey => store'.keys = [a.keys EXCEPT ![q] = r]
    BY <2>2, <2>4, <2>5 DEF RememberKey, Store
  <2>7. /\ q = NoKey => a.keys = store.keys
        /\ a.keys \in [Keys -> Runs \cup {NoRun}] /\ store.keys \in [Keys -> Runs \cup {NoRun}]
        /\ \A k \in Keys \ {q} : a.keys[k] = store.keys[k]
    BY <1>0, <2>2, LookupKeys, ServiceAssumption DEF a, Store
  <2>8. lapsed' = lapsed \ {q}
    BY <1>3 DEF Accept
  <2>. SUFFICES ASSUME NEW k \in Keys PROVE KeyStep(k)
    OBVIOUS
  <2>9. CASE k = q
    <3>1. store'.keys[k] = r /\ Accept(k, r)
      BY <1>3, <2>6, <2>7, <2>9, ServiceAssumption
    <3>. QED
      BY <3>1 DEF KeyStep
  <2>10. CASE k # q
    <3>1. store'.keys[k] = store.keys[k]
      BY <2>6, <2>7, <2>10
    <3>. QED
      BY <2>8, <2>10, <3>1 DEF KeyStep
  <2>. QED
    BY <2>9, <2>10
<1>4. ASSUME NEW r \in Runs, Poll(r) PROVE \A k \in Keys : KeyStep(k)
  BY <1>0, <1>1, <1>4 DEF Poll, clock, Get, Drop, Store
<1>5. ASSUME NEW r \in Runs, Cancel(r) PROVE \A k \in Keys : KeyStep(k)
  <2>. DEFINE c == [status |-> "cancelled", code |-> "cancelled", by |-> "request"]
              s == Finish(store, aged, r, c)
  <2>1. c \in Record
    BY DEF Record, Status, Terminal, Codes
  <2>2. s \in Store /\ s.keys = store.keys
    BY <1>0, <2>1, FinishStores, KeysUntouched
  <2>3. store' = Get(s, aged, r) /\ lapsed' = lapsed
    BY <1>5 DEF Cancel, clock
  <2>. HIDE DEF s
  <2>4. store'.keys = store.keys
    BY <2>2, <2>3 DEF Get, Drop, Store
  <2>. QED
    BY <1>1, <2>3, <2>4
<1>6. ASSUME NEW r \in Runs, AbandonQueue(r) \/ Conclude(r)
      PROVE  \A k \in Keys : KeyStep(k)
  <2>1. PICK v \in Codes \cup {"ok"} : Close(r, v)
    <3>1. "cancelled" \in Codes /\ (pc[r] \in Live => Verdict(r) \in Codes \cup {"ok"})
      BY <1>0, VerdictType DEF Codes, IndInv, RecordFollowsTask
    <3>2. pc[r] \in Live
      BY <1>6 DEF AbandonQueue, Conclude
    <3>. QED
      BY <1>6, <3>1, <3>2 DEF AbandonQueue, Conclude
  <2>2. Closing(v) \in Record
    BY <1>0, ClosingStores
  <2>3. store' = Finish(store, aged, r, Closing(v)) /\ lapsed' = lapsed
    BY <1>6, <2>1 DEF Close, AbandonQueue, Conclude, clock
  <2>. QED
    BY <1>0, <1>1, <2>2, <2>3, KeysUntouched
<1>7. ASSUME Sweep PROVE \A k \in Keys : KeyStep(k)
  <2>. DEFINE s == DropExpired(store, aged, lapsed)
  <2>1. PICK V \in SUBSET Runs : store' = Drop(s, V)
    BY <1>7 DEF Sweep
  <2>2. s \in Store
    BY <1>0, DropExpiredShrinks
  <2>3. s.keys = [k \in Keys |-> IF k \in lapsed THEN NoRun ELSE store.keys[k]]
    BY <1>0 DEF DropExpired, Drop, Store
  <2>. HIDE DEF s
  <2>4. store'.keys = s.keys
    BY <2>1, <2>2 DEF Drop, Store
  <2>. QED
    BY <2>3, <2>4 DEF KeyStep
<1>8. ASSUME NEW r \in Runs,
             \/ Start(r) \/ Resume(r) \/ DeadlineFires(r) \/ RunAges(r)
             \/ \E o \in Outcomes : PipelineEnds(r, o)
      PROVE  \A k \in Keys : KeyStep(k)
  BY <1>1, <1>8 DEF Start, Resume, DeadlineFires, RunAges, PipelineEnds, clock
<1>9. CASE Stop \/ (\E k \in Keys : KeyLapses(k)) \/ UNCHANGED vars
  BY <1>1, <1>9 DEF Stop, StopBegin, StopDrain, StopEnd, KeyLapses, vars, clock
<1>. QED
  BY <1>2, <1>3, <1>4, <1>5, <1>6, <1>7, <1>8, <1>9 DEF Next, Request, TaskStep

\* A key that has not lapsed names no run that is past its own time.
Young == \A k \in Keys \ lapsed : store.keys[k] \notin aged

\* RunAges waits for the keys of its run, if idempotency_ttl_s <= run_ttl_s.
LEMMA YoungStep ==
  ASSUME RunOutlivesKey
  PROVE  IndInv /\ StoreInv /\ Young /\ [Next]_vars => Young'
<1>. SUFFICES ASSUME IndInv, StoreInv, Young, [Next]_vars, NEW k \in Keys \ lapsed'
              PROVE  store'.keys[k] \notin aged'
  BY DEF Young
<1>0. /\ NoRun \notin Runs /\ aged \subseteq Runs /\ aged' \subseteq Runs
      /\ store.keys[k] \in Runs \cup {NoRun}
  BY StoreAssumption, NextIndInv DEF IndInv, TypeOK, Store
<1>1. \/ aged' = aged
      \/ \E r \in Runs : RunAges(r)
  BY StoreSteps DEF StoreStep, Accept, Sweep
<1>2. CASE /\ store'.keys[k] = store.keys[k]
           /\ k \in lapsed => k \in lapsed' \/ store.keys[k] = NoRun
  <2>1. k \notin lapsed \/ store.keys[k] = NoRun
    BY <1>2
  <2>2. store.keys[k] \notin aged
    BY <1>0, <2>1 DEF Young
  <2>3. ASSUME NEW r \in Runs, RunAges(r) PROVE store.keys[k] \notin aged'
    BY <2>2, <2>3 DEF RunAges
  <2>. QED
    BY <1>1, <1>2, <2>2, <2>3
<1>3. CASE store'.keys[k] = NoRun
  BY <1>0, <1>3
<1>4. ASSUME NEW r \in Runs, Accept(k, r), store'.keys[k] = r PROVE r \notin aged'
  <2>1. aged' = aged /\ pc[r] = "absent"
    BY <1>4 DEF Accept
  <2>2. store.born[r] = 0
    BY <2>1 DEF StoreInv, Ordered
  <2>. QED
    BY <2>1, <2>2 DEF StoreInv, Ordered, Created
<1>. QED
  BY <1>2, <1>3, <1>4, KeySteps DEF KeyStep

\* What may take the name of its run from a key that has not lapsed.
LEMMA NamedUntilLost ==
  ASSUME IndInv, Young, [Next]_vars, NEW k \in Keys,
         store.keys[k] # NoRun, k \notin lapsed, store'.keys[k] # store.keys[k]
  PROVE  store.keys[k] \notin store.runs
<1>1. k \in Keys \cup {NoKey} /\ k # NoKey
  BY ServiceAssumption
<1>2. PICK r \in Runs : Accept(k, r)
  BY KeySteps DEF KeyStep
<1>3. Replayed(k) = store.keys[k]
  BY <1>1 DEF Replayed, KeyRun
<1>4. ~Found(store, aged, store.keys[k])
  BY <1>2, <1>3 DEF Accept, CanReplay
<1>. QED
  BY <1>4 DEF Found, IsExpired, Young

-----------------------------------------------------------------------------
(***************************************************************************)
(* Keys, where the cap takes no run away.                                  *)
(***************************************************************************)

\* No run is admitted to a store that is full.
RoomStep ==
  \A k \in Keys \cup {NoKey}, r \in Runs :
    Accept(k, r) => Cardinality(store.runs) < Cap

RoomForEach == [][RoomStep]_vars

\* The run a key names is there until the key lapses.
KeysHeld ==
  /\ Cardinality(store.runs) <= Cap
  /\ \A k \in Keys \ lapsed : store.keys[k] # NoRun => store.keys[k] \in store.runs

\* With room, the walk drops nothing.
LEMMA NothingToDrop ==
  ASSUME NEW s \in Store, NEW V \in SUBSET Runs, IsEviction(s, V),
         Cardinality(s.runs) <= Cap
  PROVE  V = {}
<1>1. Cardinality(s.runs) \in Nat /\ Cap \in Nat
  BY RunCount, StoreAssumption DEF Cap, Store
<1>. QED
  BY <1>1 DEF IsEviction

\* With room, only what is past its time leaves the store.
LEMMA OnlyOldLeave ==
  ASSUME IndInv, StoreInv, Cardinality(store.runs) <= Cap,
         [Next]_vars, RoomStep \/ UNCHANGED vars
  PROVE  /\ Cardinality(store'.runs) <= Cap
         /\ \A q \in store.runs \ aged : q \in store'.runs
         /\ \A k \in Keys \cup {NoKey}, r \in Runs : Accept(k, r) => r \in store'.runs
<1>0. /\ TypeOK /\ store \in Store /\ store.runs \in SUBSET Runs
      /\ Cardinality(store.runs) \in Nat /\ Cap \in Nat
  BY RunCount, StoreAssumption DEF IndInv, TypeOK, Store, Cap
<1>1. ASSUME NEW R \in SUBSET aged, Loses(store, store', R)
      PROVE  /\ Cardinality(store'.runs) <= Cap
             /\ \A q \in store.runs \ aged : q \in store'.runs
  <2>1. store'.runs = store.runs \ R /\ R \in SUBSET store.runs
    BY <1>1 DEF Loses
  <2>2. Cardinality(store'.runs) <= Cardinality(store.runs) /\ Cardinality(store'.runs) \in Nat
    BY <1>0, <2>1, LossCounts
  <2>. QED
    BY <1>0, <2>1, <2>2
<1>2. ASSUME NEW k \in Keys \cup {NoKey}, NEW r \in Runs, Accept(k, r)
      PROVE  /\ Cardinality(store'.runs) <= Cap
             /\ \A q \in store.runs \ aged : q \in store'.runs
             /\ r \in store'.runs
  <2>1. PICK R \in SUBSET Expired(store), V \in SUBSET Runs, s \in Store :
          /\ s.runs = (store.runs \ R) \cup {r}
          /\ IsEviction(s, V)
          /\ Loses(s, store', V)
    BY <1>2, AcceptShape
  <2>2. Cardinality(store.runs) < Cap
    <3>1. pc[r] = "absent" /\ pc'[r] = "scheduled"
      BY <1>0, <1>2 DEF Accept, TypeOK
    <3>2. ~UNCHANGED vars
      BY <3>1 DEF vars
    <3>. QED
      BY <1>2, <3>2 DEF RoomStep
  <2>3. R \in SUBSET store.runs /\ R \subseteq aged
    BY DEF Expired, IsExpired
  <2>4. Cardinality(s.runs) <= Cap
    <3>1. Cardinality(store.runs \ R) <= Cardinality(store.runs)
          /\ Cardinality(store.runs \ R) \in Nat
      BY <1>0, <2>3, LossCounts
    <3>2. store.runs \ R \in SUBSET Runs
      BY <1>0
    <3>3. CASE r \in store.runs \ R
      <4>1. s.runs = store.runs \ R
        BY <2>1, <3>3
      <4>. QED
        BY <1>0, <2>2, <3>1, <4>1
    <3>4. CASE r \notin store.runs \ R
      <4>1. Cardinality(s.runs) = Cardinality(store.runs \ R) + 1
        BY <2>1, <3>2, <3>4, OneMoreOrLess
      <4>. QED
        BY <1>0, <2>2, <3>1, <4>1
    <3>. QED
      BY <3>3, <3>4
  <2>5. V = {}
    BY <2>1, <2>4, NothingToDrop
  <2>6. store'.runs = s.runs
    BY <2>1, <2>5 DEF Loses
  <2>. QED
    BY <2>1, <2>3, <2>4, <2>6
<1>3. CASE Pops(store, store')
  <2>1. PICK R \in SUBSET Expired(store) : Loses(store, store', R)
    BY <1>3 DEF Pops
  <2>2. R \in SUBSET aged
    BY DEF Expired, IsExpired
  <2>. QED
    BY <1>1, <1>2, <2>1, <2>2
<1>4. ASSUME NEW r \in Runs, Concludes(r, store')
      PROVE  /\ Cardinality(store'.runs) <= Cap
             /\ \A q \in store.runs \ aged : q \in store'.runs
  <2>1. PICK R \in SUBSET {r} : Loses(store, store', R) /\ (R # {} => r \in aged)
    BY <1>4 DEF Concludes
  <2>2. R \in SUBSET aged
    BY <2>1
  <2>. QED
    BY <1>1, <2>1, <2>2
<1>5. ASSUME Sweep
      PROVE  /\ Cardinality(store'.runs) <= Cap
             /\ \A q \in store.runs \ aged : q \in store'.runs
  <2>1. PICK V \in SUBSET Runs, s \in Store :
          /\ s.runs = store.runs \ Expired(store)
          /\ IsEviction(s, V)
          /\ Loses(store, store', Expired(store) \cup V)
    BY <1>5, SweepShape
  <2>2. Expired(store) \in SUBSET store.runs /\ Expired(store) \in SUBSET aged
    BY DEF Expired, IsExpired
  <2>3. Cardinality(s.runs) <= Cap
    <3>1. /\ Cardinality(store.runs \ Expired(store)) <= Cardinality(store.runs)
          /\ Cardinality(store.runs \ Expired(store)) \in Nat
      BY <1>0, <2>2, LossCounts
    <3>. QED
      BY <1>0, <2>1, <3>1
  <2>4. V = {}
    BY <2>1, <2>3, NothingToDrop
  <2>5. Expired(store) \cup V \in SUBSET aged
    BY <2>2, <2>4
  <2>. QED
    BY <1>1, <2>1, <2>5
<1>6. ASSUME NEW r \in Runs, RunAges(r)
      PROVE  /\ Cardinality(store'.runs) <= Cap
             /\ \A q \in store.runs \ aged : q \in store'.runs
  BY <1>6 DEF RunAges
<1>7. /\ Cardinality(store'.runs) <= Cap
      /\ \A q \in store.runs \ aged : q \in store'.runs
  BY <1>2, <1>3, <1>4, <1>5, <1>6, StoreSteps DEF StoreStep
<1>. QED
  BY <1>2, <1>7

\* So a key keeps finding its run.
LEMMA KeysHeldStep ==
  ASSUME IndInv, StoreInv, Young, KeysHeld, [Next]_vars, RoomStep \/ UNCHANGED vars
  PROVE  KeysHeld'
<1>1. /\ Cardinality(store'.runs) <= Cap
      /\ \A q \in store.runs \ aged : q \in store'.runs
      /\ \A k \in Keys \cup {NoKey}, r \in Runs : Accept(k, r) => r \in store'.runs
  BY OnlyOldLeave DEF KeysHeld
<1>2. ASSUME NEW k \in Keys \ lapsed', store'.keys[k] # NoRun
      PROVE  store'.keys[k] \in store'.runs
  <2>1. CASE /\ store'.keys[k] = store.keys[k]
             /\ k \in lapsed => k \in lapsed' \/ store.keys[k] = NoRun
    <3>1. k \notin lapsed /\ store.keys[k] # NoRun
      BY <1>2, <2>1
    <3>2. store.keys[k] \in store.runs \ aged
      BY <3>1 DEF KeysHeld, Young
    <3>. QED
      BY <1>1, <2>1, <3>2
  <2>2. ASSUME NEW r \in Runs, Accept(k, r), store'.keys[k] = r
        PROVE  r \in store'.runs
    BY <1>1, <2>2
  <2>. QED
    BY <1>2, <2>1, <2>2, KeySteps DEF KeyStep
<1>. QED
  BY <1>1, <1>2 DEF KeysHeld

\* A key within its time loses its run only after the store has: a form that is
\* submitted twice starts a second run only if the cap has evicted the first one
\* (create_run, lookup_key, _enforce_capacity).
THEOREM KeysNameTheirRuns ==
  ASSUME RunOutlivesKey
  PROVE  Spec => [][\A k \in Keys :
                      /\ store.keys[k] # NoRun /\ k \notin lapsed
                      /\ store.keys[k] \in store.runs
                      => store'.keys[k] = store.keys[k]]_vars
<1>1. Init => Young
  BY StoreAssumption DEF Init, Young, EmptyStore
<1>2. IndInv /\ StoreInv /\ Young /\ [Next]_vars => Young'
  BY YoungStep
<1>3. IndInv /\ Young /\ [Next]_vars =>
        [\A k \in Keys :
           /\ store.keys[k] # NoRun /\ k \notin lapsed
           /\ store.keys[k] \in store.runs
           => store'.keys[k] = store.keys[k]]_vars
  BY NamedUntilLost
<1>. QED
  BY <1>1, <1>2, <1>3, StoreInvariance, PTL DEF Spec

\* Where the store is never full when a run is admitted, and idempotency_ttl_s is
\* within run_ttl_s, a key names one run until it lapses.  Without the first the
\* code does not keep this.
THEOREM KeysNameOneRun ==
  ASSUME RunOutlivesKey
  PROVE  Spec /\ RoomForEach => KeyNamesOneRun
<1>1. Init => Young /\ KeysHeld
  <2>. SUFFICES ASSUME Init PROVE Young /\ KeysHeld
    OBVIOUS
  <2>1. store.runs = {} /\ aged = {} /\ \A k \in Keys : store.keys[k] = NoRun
    BY DEF Init, EmptyStore
  <2>2. Cardinality({}) = 0 /\ Cap \in Nat
    BY FS_EmptySet, StoreAssumption DEF Cap
  <2>. QED
    BY <2>1, <2>2 DEF Young, KeysHeld
<1>2. IndInv /\ StoreInv /\ Young /\ KeysHeld /\ [Next]_vars /\ [RoomStep]_vars
        => Young' /\ KeysHeld'
  BY YoungStep, KeysHeldStep
<1>3. IndInv /\ Young /\ KeysHeld /\ [Next]_vars =>
        [\A k \in Keys : store.keys[k] # NoRun /\ k \notin lapsed \cup lapsed' =>
                            store'.keys[k] = store.keys[k]]_vars
  BY NamedUntilLost DEF KeysHeld
<1>. QED
  BY <1>1, <1>2, <1>3, StoreInvariance, PTL DEF Spec, RoomForEach, KeyNamesOneRun
=============================================================================

--------------------------- MODULE RunStoreProofs ---------------------------
(***************************************************************************)
(* Lemmas about the operations of RunStore, for every value of its         *)
(* constants: what they return is a store, and what leaves a store is      *)
(* concluded.                                                              *)
(***************************************************************************)
EXTENDS RunStore, FiniteSetTheorems, TLAPS

\* t is s without some of its concluded runs; nothing is said of the keys.
Shrinks(s, t) ==
  /\ t.rec = s.rec /\ t.born = s.born
  /\ t.runs \subseteq s.runs
  /\ \A r \in s.runs \ t.runs : IsTerminal(s, r)

\* Any set of run ids has a natural number of members.
LEMMA RunCount ==
  ASSUME NEW R \in SUBSET Runs
  PROVE  IsFiniteSet(R) /\ Cardinality(R) \in Nat
BY FS_Subset, FS_CardinalityType, StoreAssumption

\* A store with some of its fields replaced by well-typed values is a store.
LEMMA StoreFields ==
  ASSUME NEW s \in Store, NEW R \in SUBSET Runs,
         NEW f \in [Runs -> Record], NEW b \in [Runs -> Nat]
  PROVE  /\ [s EXCEPT !.runs = R, !.rec = f, !.born = b] \in Store
         /\ [s EXCEPT !.rec = f] \in Store
BY DEF Store

\* Dropping concluded runs shrinks a store.
LEMMA DropShrinks ==
  ASSUME NEW s \in Store, NEW R \in SUBSET Runs,
         \A r \in R : IsTerminal(s, r)
  PROVE  Drop(s, R) \in Store /\ Shrinks(s, Drop(s, R))
<1>1. Cardinality(R) \in Nat
  BY RunCount
<1>. DEFINE t == Drop(s, R)
<1>2. t \in Store
  <2>1. s.runs \ R \in SUBSET Runs /\ s.evicted + Cardinality(R) \in Nat
    BY <1>1 DEF Store
  <2>2. \A A \in SUBSET Runs, n \in Nat :
          [s EXCEPT !.runs = A, !.evicted = n] \in Store
    BY DEF Store
  <2>3. [s EXCEPT !.runs = s.runs \ R, !.evicted = s.evicted + Cardinality(R)]
          \in Store
    BY <2>1, <2>2, Zenon
  <2>. QED
    BY <2>3 DEF Drop
<1>3. t.runs = s.runs \ R /\ t.rec = s.rec /\ t.born = s.born
  BY DEF Drop, Store
<1>4. \A r \in s.runs \ t.runs : IsTerminal(s, r)
  BY <1>3
<1>. QED
  BY <1>2, <1>3, <1>4 DEF Shrinks

\* A lookup that pops an expired record shrinks the store.
LEMMA GetShrinks ==
  ASSUME NEW s \in Store, NEW aged, NEW r \in Runs
  PROVE  Get(s, aged, r) \in Store /\ Shrinks(s, Get(s, aged, r))
<1>1. CASE r \in s.runs /\ IsExpired(s, aged, r)
  <2>1. {r} \in SUBSET Runs /\ \A q \in {r} : IsTerminal(s, q)
    BY <1>1 DEF IsExpired
  <2>. QED
    BY <1>1, <2>1, DropShrinks DEF Get
<1>2. CASE ~(r \in s.runs /\ IsExpired(s, aged, r))
  BY <1>2 DEF Get, Shrinks
<1>. QED
  BY <1>1, <1>2

\* The walk of _enforce_capacity shrinks the store.
LEMMA EvictionShrinks ==
  ASSUME NEW s \in Store, NEW V \in SUBSET Runs, IsEviction(s, V)
  PROVE  Drop(s, V) \in Store /\ Shrinks(s, Drop(s, V))
BY DropShrinks DEF IsEviction, Concluded

\* The sweep shrinks the store before it walks it.
LEMMA DropExpiredShrinks ==
  ASSUME NEW s \in Store, NEW aged, NEW lapsed
  PROVE  /\ DropExpired(s, aged, lapsed) \in Store
         /\ Shrinks(s, DropExpired(s, aged, lapsed))
<1>. DEFINE R == {r \in s.runs : IsExpired(s, aged, r)}
<1>1. R \in SUBSET Runs /\ \A r \in R : IsTerminal(s, r)
  BY DEF IsExpired, Store
<1>2. Drop(s, R) \in Store /\ Shrinks(s, Drop(s, R))
  BY <1>1, DropShrinks
<1>. QED
  BY <1>2 DEF DropExpired, Store, Shrinks

\* A lookup of a key leaves the runs alone.
LEMMA LookupKeyShrinks ==
  ASSUME NEW s \in Store, NEW lapsed, NEW k \in Keys
  PROVE  /\ LookupKey(s, lapsed, k) \in Store
         /\ Shrinks(s, LookupKey(s, lapsed, k))
         /\ KeyRun(s, lapsed, k) \in Runs \cup {NoRun}
BY DEF LookupKey, KeyRun, Store, Shrinks

\* Shrinking twice is shrinking.
LEMMA ShrinksTransitive ==
  ASSUME NEW s \in Store, NEW t \in Store, NEW u \in Store,
         Shrinks(s, t), Shrinks(t, u)
  PROVE  Shrinks(s, u)
BY DEF Shrinks, IsTerminal, Store

\* put adds one fresh, running record before it enforces the cap.
LEMMA InsertStores ==
  ASSUME NEW s \in Store, NEW r \in Runs
  PROVE  /\ Insert(s, r) \in Store
         /\ Insert(s, r).runs = s.runs \cup {r}
         /\ Insert(s, r).rec = [s.rec EXCEPT ![r] = Fresh]
<1>1. Cardinality(Created(s)) \in Nat
  BY RunCount DEF Created
<1>2. Fresh \in Record
  BY DEF Fresh, Record, Status, Codes
<1>. DEFINE t == Insert(s, r)
<1>3. t.runs = s.runs \cup {r} /\ t.rec = [s.rec EXCEPT ![r] = Fresh]
  BY DEF Insert, Store
<1>4. t \in Store
  <2>1. s.runs \cup {r} \in SUBSET Runs
    BY DEF Store
  <2>2. [s.rec EXCEPT ![r] = Fresh] \in [Runs -> Record]
    BY <1>2 DEF Store
  <2>3. [s.born EXCEPT ![r] = Cardinality(Created(s)) + 1] \in [Runs -> Nat]
    BY <1>1 DEF Store
  <2>. QED
    BY <2>1, <2>2, <2>3, StoreFields DEF Insert
<1>. QED
  BY <1>3, <1>4

\* _finish overwrites the record it finds and otherwise at most pops it.
LEMMA FinishStores ==
  ASSUME NEW s \in Store, NEW aged, NEW r \in Runs, NEW record \in Record
  PROVE  /\ Finish(s, aged, r, record) \in Store
         /\ IF Found(s, aged, r)
            THEN /\ Finish(s, aged, r, record).runs = s.runs
                 /\ Finish(s, aged, r, record).rec = [s.rec EXCEPT ![r] = record]
            ELSE Shrinks(s, Finish(s, aged, r, record))
<1>1. CASE Found(s, aged, r)
  BY <1>1 DEF Finish, Store
<1>2. CASE ~Found(s, aged, r)
  BY <1>2, GetShrinks DEF Finish
<1>. QED
  BY <1>1, <1>2
=============================================================================

---------------------------- MODULE RunContract -----------------------------
(***************************************************************************)
(* What the service promises the clients of one process about its runs,    *)
(* without tasks, slots, cancellations or a sweeper: what GET /runs/{id}   *)
(* answers, and which runs the service may forget, and when.               *)
(*                                                                         *)
(*   - a run is admitted only while fewer than Limit are running;          *)
(*   - a running run is never forgotten; it concludes once;                *)
(*   - a concluded run is forgotten as soon as it is overdue, whatever the *)
(*     sweeper does, or to bring the number of runs held down to Cap, and  *)
(*     then the oldest goes first and no more go than it takes;            *)
(*   - what is forgotten stays forgotten.                                  *)
(***************************************************************************)
EXTENDS Integers, FiniteSets

CONSTANTS
  Runs,    \* run ids
  Cap,     \* how many runs are held before concluded ones are forgotten
  Limit    \* how many may be running at once

VARIABLES
  view,    \* the answer a client gets for each id; "gone" is a 404
  since,   \* the order in which the runs were admitted, 0 for never
  overdue  \* the runs past their time to live

vars == <<view, since, overdue>>

Concluded == {"done", "error", "cancelled"}
Held      == {"running"} \cup Concluded

Init ==
  /\ view    = [r \in Runs |-> "unknown"]
  /\ since   = [r \in Runs |-> 0]
  /\ overdue = {}

\* Forgetting E brings the runs held by `seen' down to Cap, if that many have
\* concluded, at the expense of the oldest.
Trims(seen, E) ==
  LET held   == {r \in Runs : seen[r] \in Held}
      spare  == {r \in held \ E : seen[r] \in Concluded}
      excess == Cardinality(held) - Cap
  IN  /\ \A e \in E : seen[e] \in Concluded
      /\ \A e \in E, r \in spare : since[e] < since[r]
      /\ IF excess <= 0 THEN E = {}
         ELSE Cardinality(E) = excess \/ (Cardinality(E) < excess /\ spare = {})

Forget(seen, E) == [r \in Runs |-> IF r \in E THEN "gone" ELSE seen[r]]

Accept(r) ==
  /\ view[r] = "unknown"
  /\ Cardinality({q \in Runs : view[q] = "running"}) < Limit
  /\ LET seen == [view EXCEPT ![r] = "running"]
     IN  \E E \in SUBSET Runs : Trims(seen, E) /\ view' = Forget(seen, E)
  /\ since' = [since EXCEPT ![r] =
                 Cardinality({q \in Runs : since[q] # 0}) + 1]
  /\ UNCHANGED overdue

\* Mutated form of Conclude: without asking whether the run is running.
ConcludeAgain(r) ==
  /\ view[r] \in Held
  /\ \E v \in Concluded :
       view' = [view EXCEPT ![r] = IF r \in overdue THEN "gone" ELSE v]
  /\ UNCHANGED <<since, overdue>>

\* A run that outlived its time to live is forgotten the moment it concludes.
Conclude(r) ==
  /\ view[r] = "running"
  /\ \E v \in Concluded :
       view' = [view EXCEPT ![r] = IF r \in overdue THEN "gone" ELSE v]
  /\ UNCHANGED <<since, overdue>>

\* The time to live of r is over; older runs got there first.
Expire(r) ==
  /\ r \notin overdue /\ view[r] # "unknown"
  /\ \A q \in Runs : since[q] # 0 /\ since[q] < since[r] => q \in overdue
  /\ overdue' = overdue \cup {r}
  /\ view' = IF view[r] \in Concluded THEN [view EXCEPT ![r] = "gone"] ELSE view
  /\ UNCHANGED since

\* Runs that concluded after the cap was exceeded may go at any later time.
Trim ==
  /\ \E E \in SUBSET Runs : Trims(view, E) /\ view' = Forget(view, E)
  /\ UNCHANGED <<since, overdue>>

Next == (\E r \in Runs : Accept(r) \/ Conclude(r) \/ Expire(r)) \/ Trim

Spec == Init /\ [][Next]_vars
=============================================================================

--------------------------- MODULE RequestsProofs ---------------------------
(***************************************************************************)
(* For any number of requests and runs: no line carries the ids of another *)
(* request or run, the counters add up, and a run works on canonical     *)
(* URLs.  For every URL: the canonical form is settled, and it is the same *)
(* for two URLs exactly when they ask for the same resource.  For every    *)
(* list: it is worked on without loss, repetition or change of order.      *)
(*                                                                         *)
(* The loops over lists are recursive functions.  What they compute is     *)
(* found by induction over the turns, as the set of the turns up to which  *)
(* it holds (UpTo), which rests on the library's theorem that the strict   *)
(* subset ordering of finite sets is well-founded.                         *)
(***************************************************************************)
EXTENDS Requests, FiniteSetTheorems, TLAPS

Typed ==
  /\ at \in [Reqs -> {"absent", "handling", "answered", "raised", "over"}]
  /\ id \in [Reqs -> Ids \cup {NoId}]
  /\ ctx \in [Tasks -> Context]
  /\ record \in [Runs -> Ids \cup {NoId}]
  /\ live \subseteq Runs

\* The context of the two tasks of a request that is being served.
Served ==
  \A q \in Reqs :
    /\ at[q] # "absent" => id[q] \in Ids
    /\ ctx[<<q, "middleware">>].run = NoRun
    /\ at[q] = "handling" => ctx[<<q, "handler">>] = [request |-> id[q], run |-> NoRun]
    /\ at[q] \in {"handling", "answered", "raised"} =>
         ctx[<<q, "middleware">>] = [request |-> id[q], run |-> NoRun]

\* The context of the task of a live run.
Bound ==
  \A r \in live : /\ record[r] \in Ids
                  /\ ctx[<<r, "run">>] = [request |-> record[r], run |-> r]

\* Nothing is logged of a request before it has its id.
Begun == \A l \in lines : l.about \in Reqs \cup Runs
                          /\ (l.about \in Reqs => at[l.about] # "absent")

\* What the context of its task makes of each line.
Stamped ==
  \A l \in lines :
    /\ l.about \in Runs => /\ l.run = l.about
                           /\ l.request = record[l.about] /\ l.request # NoId
    /\ l.about \in Reqs =>
         /\ l.run = NoRun
         /\ l.request = IF l.kind \in {"access", "unhandled"} THEN NoId ELSE id[l.about]

Inv == Typed /\ Served /\ Bound /\ Begun /\ Stamped

\* The tasks of different requests and runs are different.
LEMMA TasksDiffer ==
  /\ \A q \in Reqs : <<q, "middleware">> \in Tasks /\ <<q, "handler">> \in Tasks
  /\ \A r \in Runs : <<r, "run">> \in Tasks
  /\ \A q \in Reqs : \A r \in Runs : q # r
BY RequestAssumption DEF Tasks

\* Setting the request id changes the context of one task.
LEMMA SetRequestSets ==
  ASSUME NEW c \in [Tasks -> Context], NEW t \in Tasks, NEW i \in Ids \cup {NoId}
  PROVE  /\ SetVar(c, t, "request", i) \in [Tasks -> Context]
         /\ SetVar(c, t, "request", i)[t] = [request |-> i, run |-> c[t].run]
         /\ \A s \in Tasks \ {t} : SetVar(c, t, "request", i)[s] = c[s]
BY DEF SetVar, Context

\* So does setting the run id.
LEMMA SetRunSets ==
  ASSUME NEW c \in [Tasks -> Context], NEW t \in Tasks, NEW r \in Runs \cup {NoRun}
  PROVE  /\ SetVar(c, t, "run", r) \in [Tasks -> Context]
         /\ SetVar(c, t, "run", r)[t] = [request |-> c[t].request, run |-> r]
         /\ \A s \in Tasks \ {t} : SetVar(c, t, "run", r)[s] = c[s]
BY DEF SetVar, Context

\* A new task starts with the context of its creator.
LEMMA CopyContextCopies ==
  ASSUME NEW c \in [Tasks -> Context], NEW s \in Tasks, NEW t \in Tasks
  PROVE  /\ CopyContext(c, s, t) \in [Tasks -> Context]
         /\ CopyContext(c, s, t)[t] = c[s]
         /\ \A u \in Tasks \ {t} : CopyContext(c, s, t)[u] = c[u]
BY DEF CopyContext

\* The id of a header is an id.
LEMMA RequestIdIsId == \A header \in Headers : RequestId(header) \in Ids
BY RequestAssumption DEF RequestId

\* The first state satisfies the invariant.
LEMMA InitInv == Init => Inv
<1> SUFFICES ASSUME Init PROVE Inv
  OBVIOUS
<1>1. Typed
  BY DEF Init, Typed, Context, Nothing
<1> QED
  BY <1>1, TasksDiffer DEF Init, Nothing, Inv, Served, Bound, Begun, Stamped

\* The first half of the middleware gives both tasks of a request its id.
LEMMA ArriveKeeps ==
  ASSUME Inv, NEW q \in Reqs, Arrive(q)
  PROVE  Inv'
<1> DEFINE m == <<q, "middleware">>
           h == <<q, "handler">>
           c == SetVar(ctx, m, "request", id'[q])
<1> USE DEF Inv
<1>1. /\ id'[q] \in Ids /\ id' \in [Reqs -> Ids \cup {NoId}]
      /\ \A p \in Reqs \ {q} : id'[p] = id[p]
  BY RequestIdIsId DEF Arrive, Typed
<1>2. m \in Tasks /\ h \in Tasks /\ m # h /\ ctx \in [Tasks -> Context]
  BY TasksDiffer DEF Typed
<1>3. /\ c \in [Tasks -> Context]
      /\ c[m] = [request |-> id'[q], run |-> ctx[m].run]
      /\ \A t \in Tasks \ {m} : c[t] = ctx[t]
  <2> HIDE DEF m, h
  <2> QED
    BY <1>1, <1>2, SetRequestSets
<1>4. ctx' = CopyContext(c, m, h)
  BY DEF Arrive
<1>5. /\ ctx' \in [Tasks -> Context] /\ ctx'[h] = c[m]
      /\ \A t \in Tasks \ {h} : ctx'[t] = c[t]
  <2> HIDE DEF m, h, c
  <2> QED
    BY <1>2, <1>3, <1>4, CopyContextCopies
<1>6. \A t \in Tasks \ {m, h} : ctx'[t] = ctx[t]
  <2> HIDE DEF m, h, c
  <2> QED
    BY <1>3, <1>5
<1>7. /\ at' \in [Reqs -> {"absent", "handling", "answered", "raised", "over"}]
      /\ at[q] = "absent" /\ at'[q] = "handling"
      /\ \A p \in Reqs \ {q} : at'[p] = at[p]
      /\ UNCHANGED <<live, record, lines>>
  BY DEF Arrive, Typed
<1>8. Typed'
  BY <1>1, <1>5, <1>7 DEF Typed
<1>9. Served'
  <2> SUFFICES ASSUME NEW p \in Reqs
               PROVE  /\ at'[p] # "absent" => id'[p] \in Ids
                      /\ ctx'[<<p, "middleware">>].run = NoRun
                      /\ at'[p] = "handling" =>
                           ctx'[<<p, "handler">>] = [request |-> id'[p], run |-> NoRun]
                      /\ at'[p] \in {"handling", "answered", "raised"} =>
                           ctx'[<<p, "middleware">>] = [request |-> id'[p], run |-> NoRun]
    BY DEF Served
  <2>1. CASE p = q
    <3>1. ctx[m].run = NoRun
      BY DEF Served
    <3>2. ctx'[m] = [request |-> id'[q], run |-> NoRun] /\ ctx'[h] = ctx'[m]
      <4> HIDE DEF m, h, c
      <4> QED
        BY <1>2, <1>3, <1>5, <3>1
    <3> QED
      BY <1>1, <2>1, <3>2
  <2>2. CASE p # q
    <3>1. <<p, "middleware">> \in Tasks \ {m, h} /\ <<p, "handler">> \in Tasks \ {m, h}
      BY <2>2, TasksDiffer
    <3> QED
      BY <1>1, <1>6, <1>7, <2>2, <3>1 DEF Served
  <2> QED
    BY <2>1, <2>2
<1>10. Bound'
  BY <1>6, <1>7, TasksDiffer DEF Bound, Typed
<1>11. Begun'
  BY <1>7 DEF Begun
<1>12. Stamped'
  BY <1>1, <1>7 DEF Stamped, Begun
<1> QED
  BY <1>8, <1>9, <1>10, <1>11, <1>12

\* A request over the limit is over before anything is logged of it.
LEMMA TooLargeKeeps ==
  ASSUME Inv, NEW q \in Reqs, TooLarge(q)
  PROVE  Inv'
<1> DEFINE m == <<q, "middleware">>
<1> USE DEF Inv
<1>1. /\ id'[q] \in Ids /\ id' \in [Reqs -> Ids \cup {NoId}]
      /\ \A p \in Reqs \ {q} : id'[p] = id[p]
  BY RequestIdIsId DEF TooLarge, Typed
<1>2. m \in Tasks /\ ctx \in [Tasks -> Context]
  BY TasksDiffer DEF Typed
<1>3. /\ ctx' \in [Tasks -> Context]
      /\ ctx'[m] = [request |-> NoId, run |-> ctx[m].run]
      /\ \A t \in Tasks \ {m} : ctx'[t] = ctx[t]
  <2>1. ctx' = SetVar(ctx, m, "request", NoId)
    BY DEF TooLarge
  <2> HIDE DEF m
  <2> QED
    BY <1>2, <2>1, SetRequestSets
<1>4. /\ at' \in [Reqs -> {"absent", "handling", "answered", "raised", "over"}]
      /\ at[q] = "absent" /\ at'[q] = "over"
      /\ \A p \in Reqs \ {q} : at'[p] = at[p]
      /\ UNCHANGED <<live, record, lines>>
  BY DEF TooLarge, Typed
<1>5. Typed'
  BY <1>1, <1>3, <1>4 DEF Typed
<1>6. Served'
  <2> SUFFICES ASSUME NEW p \in Reqs
               PROVE  /\ at'[p] # "absent" => id'[p] \in Ids
                      /\ ctx'[<<p, "middleware">>].run = NoRun
                      /\ at'[p] = "handling" =>
                           ctx'[<<p, "handler">>] = [request |-> id'[p], run |-> NoRun]
                      /\ at'[p] \in {"handling", "answered", "raised"} =>
                           ctx'[<<p, "middleware">>] = [request |-> id'[p], run |-> NoRun]
    BY DEF Served
  <2>1. CASE p = q
    <3>1. ctx[m].run = NoRun
      BY DEF Served
    <3>2. ctx'[m].run = NoRun
      BY <1>3, <3>1
    <3> QED
      BY <1>1, <1>4, <2>1, <3>2
  <2>2. CASE p # q
    <3>1. <<p, "middleware">> \in Tasks \ {m} /\ <<p, "handler">> \in Tasks \ {m}
      BY <2>2, TasksDiffer
    <3> QED
      BY <1>1, <1>3, <1>4, <2>2, <3>1 DEF Served
  <2> QED
    BY <2>1, <2>2
<1>7. Bound' /\ Begun'
  BY <1>3, <1>4, TasksDiffer DEF Bound, Begun, Typed
<1>8. Stamped'
  BY <1>1, <1>4 DEF Stamped, Begun
<1> QED
  BY <1>5, <1>6, <1>7, <1>8

\* What an answer logs is stamped with the handler's context, which is its id's.
LEMMA AnswersTrace ==
  ASSUME Inv, NEW q \in Reqs, NEW class, NEW kinds, NEW counted,
         Answers(q, class, kinds, counted),
         \A k \in kinds : k \notin {"access", "unhandled"},
         \A r \in Runs : record[r] # NoId => record'[r] = record[r]
  PROVE  Begun' /\ Stamped'
<1> USE DEF Inv
<1>1. /\ ctx[<<q, "handler">>] = [request |-> id[q], run |-> NoRun]
      /\ UNCHANGED id
      /\ at'[q] # "absent" /\ \A p \in Reqs \ {q} : at'[p] = at[p]
  BY DEF Answers, Served, Typed
<1>2. lines' = lines \cup {Line(q, k, [request |-> id[q], run |-> NoRun]) : k \in kinds}
  BY <1>1 DEF Answers
<1>3. \A l \in lines' \ lines : /\ l.about = q /\ l.request = id[q] /\ l.run = NoRun
                               /\ l.kind \in kinds
  BY <1>2 DEF Line
<1>4. lines \subseteq lines'
  BY <1>2
<1>5. \A l \in lines' : l \in lines \/ (/\ l.about = q /\ l.request = id[q] /\ l.run = NoRun
                                      /\ l.kind \in kinds)
  BY <1>3
<1>6. Begun'
  BY <1>1, <1>5, TasksDiffer DEF Begun
<1>7. Stamped'
  BY <1>1, <1>5, TasksDiffer DEF Stamped, Begun
<1> QED
  BY <1>6, <1>7

\* An answer moves its request on and leaves the tasks alone.
LEMMA AnswersKeep ==
  ASSUME Inv, NEW q \in Reqs, NEW class, NEW kinds, NEW counted,
         Answers(q, class, kinds, counted), Runless,
         \A k \in kinds : k \notin {"access", "unhandled"}
  PROVE  Inv'
<1>1. /\ at' \in [Reqs -> {"absent", "handling", "answered", "raised", "over"}]
      /\ at[q] = "handling" /\ at'[q] = "answered"
      /\ \A p \in Reqs \ {q} : at'[p] = at[p]
      /\ UNCHANGED <<id, ctx, live, record>>
  BY DEF Answers, Runless, Inv, Typed
<1>2. Typed' /\ Served' /\ Bound'
  BY <1>1 DEF Inv, Typed, Served, Bound
<1>3. Begun' /\ Stamped'
  BY <1>1, AnswersTrace
<1> QED
  BY <1>2, <1>3 DEF Inv

\* The task of a new run starts with the id of its request, and sets its own.
LEMMA AcceptKeeps ==
  ASSUME Inv, NEW q \in Reqs, NEW r \in Runs, Accept(q, r)
  PROVE  Inv'
<1> DEFINE h == <<q, "handler">>
           t == <<r, "run">>
           c == CopyContext(ctx, h, t)
<1>1. /\ Typed /\ Served /\ Bound
      /\ h \in Tasks /\ t \in Tasks /\ h # t /\ ctx \in [Tasks -> Context]
  BY TasksDiffer DEF Inv, Typed
<1>2. /\ at[q] = "handling" /\ at'[q] = "answered"
      /\ at' \in [Reqs -> {"absent", "handling", "answered", "raised", "over"}]
      /\ \A p \in Reqs \ {q} : at'[p] = at[p]
      /\ UNCHANGED id /\ id[q] \in Ids
      /\ record[r] = NoId /\ live' = live \cup {r}
      /\ record' = [record EXCEPT ![r] = id[q]]
  BY <1>1 DEF Accept, Answers, Typed, Served
<1>3. c \in [Tasks -> Context] /\ c[t] = ctx[h] /\ \A u \in Tasks \ {t} : c[u] = ctx[u]
  <2> HIDE DEF h, t
  <2> QED
    BY <1>1, CopyContextCopies
<1>4. ctx' = SetVar(c, t, "run", r)
  BY DEF Accept
<1>5. /\ ctx' \in [Tasks -> Context]
      /\ ctx'[t] = [request |-> c[t].request, run |-> r]
      /\ \A u \in Tasks \ {t} : ctx'[u] = c[u]
  <2> HIDE DEF h, t, c
  <2> QED
    BY <1>1, <1>3, <1>4, SetRunSets
<1>6. ctx[h] = [request |-> id[q], run |-> NoRun]
  BY <1>1, <1>2 DEF Served
<1>7. /\ ctx'[t] = [request |-> id[q], run |-> r]
      /\ \A u \in Tasks \ {t} : ctx'[u] = ctx[u]
  <2> HIDE DEF h, t, c
  <2> QED
    BY <1>3, <1>5, <1>6
<1> HIDE DEF c
<1>8. Typed'
  BY <1>1, <1>2, <1>5 DEF Typed
<1>9. Served'
  <2>1. \A p \in Reqs : <<p, "middleware">> \in Tasks \ {t} /\ <<p, "handler">> \in Tasks \ {t}
    BY TasksDiffer
  <2> QED
    BY <1>1, <1>2, <1>7, <2>1 DEF Served
<1>10. Bound'
  <2> SUFFICES ASSUME NEW s \in live'
               PROVE  /\ record'[s] \in Ids
                      /\ ctx'[<<s, "run">>] = [request |-> record'[s], run |-> s]
    BY DEF Bound
  <2>1. CASE s = r
    BY <1>1, <1>2, <1>7, <2>1 DEF Typed
  <2>2. CASE s # r
    <3>1. s \in live /\ s \in Runs /\ <<s, "run">> \in Tasks \ {t}
      BY <1>1, <1>2, <2>2, TasksDiffer DEF Typed
    <3> QED
      BY <1>1, <1>2, <1>7, <2>2, <3>1 DEF Bound, Typed
  <2> QED
    BY <2>1, <2>2
<1>11. Begun' /\ Stamped'
  <2>1. \A s \in Runs : record[s] # NoId => record'[s] = record[s]
    BY <1>1, <1>2 DEF Typed
  <2>2. Answers(q, "2xx", {"queued"}, {"runs_started"})
    BY DEF Accept
  <2> QED
    BY <2>1, <2>2, AnswersTrace
<1> QED
  BY <1>8, <1>9, <1>10, <1>11 DEF Inv

\* The end of a request, answered or raised: its lines and the reset of its id.
LEMMA OverKeeps ==
  ASSUME Inv, NEW q \in Reqs, Reply(q) \/ Fail(q)
  PROVE  Inv'
<1> DEFINE m == <<q, "middleware">>
<1>1. /\ Typed /\ Served /\ Bound
      /\ m \in Tasks /\ ctx \in [Tasks -> Context]
  BY TasksDiffer DEF Inv, Typed
<1>2. /\ at[q] \in {"answered", "raised"} /\ at'[q] = "over"
      /\ at' \in [Reqs -> {"absent", "handling", "answered", "raised", "over"}]
      /\ \A p \in Reqs \ {q} : at'[p] = at[p]
      /\ UNCHANGED <<id, record, live>>
  BY <1>1 DEF Reply, Fail, Typed
<1>3. ctx[m] = [request |-> id[q], run |-> NoRun]
  BY <1>1, <1>2 DEF Served
<1>4. /\ ctx' \in [Tasks -> Context]
      /\ ctx'[m] = [request |-> NoId, run |-> NoRun]
      /\ \A u \in Tasks \ {m} : ctx'[u] = ctx[u]
  <2>1. ctx' = SetVar(ctx, m, "request", NoId)
    BY DEF Reply, Fail
  <2> HIDE DEF m
  <2> QED
    BY <1>1, <1>3, <2>1, SetRequestSets
<1>5. Typed'
  BY <1>1, <1>2, <1>4 DEF Typed
<1>6. Served'
  <2> SUFFICES ASSUME NEW p \in Reqs
               PROVE  /\ at'[p] # "absent" => id'[p] \in Ids
                      /\ ctx'[<<p, "middleware">>].run = NoRun
                      /\ at'[p] = "handling" =>
                           ctx'[<<p, "handler">>] = [request |-> id'[p], run |-> NoRun]
                      /\ at'[p] \in {"handling", "answered", "raised"} =>
                           ctx'[<<p, "middleware">>] = [request |-> id'[p], run |-> NoRun]
    BY DEF Served
  <2>1. CASE p = q
    <3>1. ctx'[m].run = NoRun
      BY <1>4
    <3>2. id'[q] \in Ids
      BY <1>1, <1>2 DEF Served
    <3> QED
      BY <1>2, <2>1, <3>1, <3>2
  <2>2. CASE p # q
    <3>1. <<p, "middleware">> \in Tasks \ {m} /\ <<p, "handler">> \in Tasks \ {m}
      BY <2>2, TasksDiffer
    <3> QED
      BY <1>1, <1>2, <1>4, <2>2, <3>1 DEF Served
  <2> QED
    BY <2>1, <2>2
<1>7. Bound'
  BY <1>1, <1>2, <1>4, TasksDiffer DEF Bound, Typed
<1>8. \A l \in lines' : \/ l \in lines
                        \/ /\ l.about = q /\ l.run = NoRun
                           /\ l.request = IF l.kind \in {"access", "unhandled"}
                                          THEN NoId ELSE id[q]
  BY <1>3, <1>4 DEF Reply, Fail, Line
<1>9. Begun' /\ Stamped'
  BY <1>2, <1>8, TasksDiffer DEF Inv, Begun, Stamped
<1> QED
  BY <1>5, <1>6, <1>7, <1>9 DEF Inv

\* The lines of a run come from its own task, to the last one.
LEMMA RunKeeps ==
  ASSUME Inv, NEW r \in Runs, RunLogs(r) \/ RunEnds(r)
  PROVE  Inv'
<1> DEFINE t == <<r, "run">>
<1>1. /\ Typed /\ Served /\ Bound
      /\ t \in Tasks /\ ctx \in [Tasks -> Context] /\ r \in live
      /\ UNCHANGED <<at, id, record>>
  BY TasksDiffer DEF Inv, Typed, RunLogs, RunEnds
<1>2. \/ ctx' = ctx /\ live' = live
      \/ ctx' = SetVar(ctx, t, "run", NoRun) /\ live' = live \ {r}
  BY DEF RunLogs, RunEnds
<1>3. /\ ctx' \in [Tasks -> Context]
      /\ \A u \in Tasks \ {t} : ctx'[u] = ctx[u]
      /\ (ctx' = ctx /\ live' = live) \/ live' = live \ {r}
  <2>1. CASE ctx' = ctx /\ live' = live
    BY <1>1, <2>1
  <2>2. CASE ctx' = SetVar(ctx, t, "run", NoRun) /\ live' = live \ {r}
    <3>1. /\ ctx' \in [Tasks -> Context]
          /\ \A u \in Tasks \ {t} : ctx'[u] = ctx[u]
      <4>1. ctx \in [Tasks -> Context] /\ t \in Tasks
        BY <1>1
      <4> HIDE DEF t
      <4>2. /\ SetVar(ctx, t, "run", NoRun) \in [Tasks -> Context]
            /\ \A u \in Tasks \ {t} : SetVar(ctx, t, "run", NoRun)[u] = ctx[u]
        BY <4>1 DEF SetVar, Context
      <4> QED
        BY <2>2, <4>2
    <3> QED
      BY <2>2, <3>1
  <2> QED
    BY <1>2, <2>1, <2>2
<1>4. Typed'
  BY <1>1, <1>3 DEF Typed
<1>5. Served'
  <2>1. \A p \in Reqs : <<p, "middleware">> \in Tasks \ {t} /\ <<p, "handler">> \in Tasks \ {t}
    BY TasksDiffer
  <2> QED
    BY <1>1, <1>3, <2>1 DEF Served
<1>6. Bound'
  <2> SUFFICES ASSUME NEW s \in live'
               PROVE  /\ record'[s] \in Ids
                      /\ ctx'[<<s, "run">>] = [request |-> record'[s], run |-> s]
    BY DEF Bound
  <2>1. s \in live /\ s \in Runs /\ <<s, "run">> \in Tasks
    BY <1>1, <1>3, TasksDiffer DEF Typed
  <2>2. ctx'[<<s, "run">>] = ctx[<<s, "run">>]
    BY <1>3, <2>1
  <2> QED
    BY <1>1, <2>1, <2>2 DEF Bound
<1>7. record[r] \in Ids /\ ctx[t] = [request |-> record[r], run |-> r]
  BY <1>1 DEF Bound
<1>8. \A l \in lines' : l \in lines \/ (l.about = r /\ l.run = r /\ l.request = record[r])
  BY <1>7 DEF RunLogs, RunEnds, Line
<1>9. Begun' /\ Stamped'
  BY <1>1, <1>7, <1>8, TasksDiffer, RequestAssumption DEF Inv, Begun, Stamped
<1> QED
  BY <1>4, <1>5, <1>6, <1>9 DEF Inv

\* Every step keeps the invariant.
LEMMA NextInv == Inv /\ [Next]_vars => Inv'
<1> SUFFICES ASSUME Inv, [Next]_vars PROVE Inv'
  OBVIOUS
<1>1. ASSUME NEW q \in Reqs, Arrive(q) PROVE Inv'
  BY <1>1, ArriveKeeps
<1>2. ASSUME NEW q \in Reqs, TooLarge(q) PROVE Inv'
  BY <1>2, TooLargeKeeps
<1>3. ASSUME NEW q \in Reqs, Invalid(q) PROVE Inv'
  BY <1>3, AnswersKeep DEF Invalid
<1>4. ASSUME NEW q \in Reqs, RateLimited(q) PROVE Inv'
  BY <1>4, AnswersKeep DEF RateLimited
<1>5. ASSUME NEW q \in Reqs, AtCapacity(q) PROVE Inv'
  BY <1>5, AnswersKeep DEF AtCapacity
<1>6. ASSUME NEW q \in Reqs, Replay(q) PROVE Inv'
  BY <1>6, AnswersKeep DEF Replay
<1>7. ASSUME NEW q \in Reqs, Cancel(q) PROVE Inv'
  BY <1>7, AnswersKeep DEF Cancel
<1>8. ASSUME NEW q \in Reqs, Other(q) PROVE Inv'
  BY <1>8, AnswersKeep DEF Other
<1>9. ASSUME NEW q \in Reqs, Raises(q) PROVE Inv'
  <2>1. /\ at' \in [Reqs -> {"absent", "handling", "answered", "raised", "over"}]
        /\ at[q] = "handling" /\ at'[q] = "raised"
        /\ \A p \in Reqs \ {q} : at'[p] = at[p]
        /\ UNCHANGED <<id, ctx, live, record, lines>>
    BY <1>9 DEF Raises, Inv, Typed
  <2>2. Typed' /\ Served' /\ Bound'
    BY <2>1 DEF Inv, Typed, Served, Bound
  <2>3. Begun' /\ Stamped'
    BY <2>1 DEF Inv, Begun, Stamped
  <2> QED
    BY <2>2, <2>3 DEF Inv
<1>10. ASSUME NEW q \in Reqs, NEW r \in Runs, Accept(q, r) PROVE Inv'
  BY <1>10, AcceptKeeps
<1>11. ASSUME NEW q \in Reqs, Reply(q) \/ Fail(q) PROVE Inv'
  BY <1>11, OverKeeps
<1>12. ASSUME NEW r \in Runs, RunLogs(r) \/ RunEnds(r) PROVE Inv'
  BY <1>12, RunKeeps
<1>13. ASSUME UNCHANGED vars PROVE Inv'
  BY <1>13 DEF vars, Inv, Typed, Served, Bound, Begun, Stamped
<1> QED
  BY <1>1, <1>2, <1>3, <1>4, <1>5, <1>6, <1>7, <1>8, <1>9, <1>10, <1>11, <1>12, <1>13
  DEF Next, Handle

\* No line carries the id of a request or a run that it is not about; a line of a
\* run carries the run's id and its request's, and so does every line of a request
\* but two, which may carry none (request_context, _execute).
THEOREM LinesAreTraced == Spec => []LinesTraced
<1>1. Inv => LinesTraced
  <2> SUFFICES ASSUME Inv, NEW l \in lines, l.about \in Reqs
               PROVE  l.request = NoId => l.kind \in {"access", "unhandled"}
    BY DEF Inv, Stamped, LinesTraced
  <2>1. id[l.about] \in Ids
    BY DEF Inv, Begun, Served
  <2> QED
    BY <2>1, RequestAssumption DEF Inv, Stamped
<1> QED
  BY InitInv, NextInv, <1>1, PTL DEF Spec

-----------------------------------------------------------------------------
\* A URL is its parts.
LEMMA UrlsEqual ==
  ASSUME NEW u \in Url, NEW v \in Url,
         u.form = v.form, u.scheme = v.scheme, u.caps = v.caps, u.secret = v.secret,
         u.host = v.host, u.port = v.port, u.path = v.path, u.extra = v.extra
  PROVE  u = v
<1> DEFINE F == {"ok", "blank", "malformed"}
           S == Schemes \cup {"other"}
           H == Hosts \cup {NoHost}
           P == Paths \cup {"", "/"}
<1>1. Url = [form : F, scheme : S, caps : BOOLEAN, secret : BOOLEAN, host : H, port : Nat,
             path : P, extra : Int]
  BY DEF Url
<1> HIDE DEF F, S, H, P
<1> QED
  BY <1>1

\* The types of the parts of a URL.
LEMMA UrlParts ==
  ASSUME NEW u \in Url
  PROVE  /\ u.scheme \in Schemes \cup {"other"} /\ u.host \in Hosts \cup {NoHost}
         /\ u.path \in Paths \cup {"", "/"}
         /\ u.port \in Nat /\ u.extra \in Int
<1> DEFINE F == {"ok", "blank", "malformed"}
           S == Schemes \cup {"other"}
           H == Hosts \cup {NoHost}
           P == Paths \cup {"", "/"}
           B == BOOLEAN
           N == Nat
           Z == Int
<1>1. Url = [form : F, scheme : S, caps : B, secret : B, host : H, port : N,
             path : P, extra : Z]
  BY DEF Url
<1> HIDE DEF F, S, H, P, B, N, Z
<1>2. /\ u.scheme \in S /\ u.host \in H /\ u.path \in P
      /\ u.port \in N /\ u.extra \in Z
  BY <1>1
<1> QED
  BY <1>2 DEF S, H, P, N, Z

\* The fields of a canonical form.
LEMMA CanonicalParts ==
  ASSUME NEW u \in Url
  PROVE  LET c == Canonicalise(u)
         IN  /\ c.form = u.form /\ c.scheme = u.scheme /\ c.caps = FALSE
             /\ c.secret = u.secret /\ c.host = u.host /\ c.extra = 0
             /\ c.port = IF u.port = DefaultPort(u.scheme) THEN NoPort ELSE u.port
             /\ c.path = IF u.path = "" THEN "/" ELSE u.path
BY DEF Url, Canonicalise

\* A canonical form is a URL.
LEMMA CanonicalIsUrl ==
  ASSUME NEW u \in Url
  PROVE  Canonicalise(u) \in Url
<1> DEFINE F == {"ok", "blank", "malformed"}
           S == Schemes \cup {"other"}
           H == Hosts \cup {NoHost}
           P == Paths \cup {"", "/"}
           B == BOOLEAN
           N == Nat
           Z == Int
           port == IF u.port = DefaultPort(u.scheme) THEN NoPort ELSE u.port
           path == IF u.path = "" THEN "/" ELSE u.path
<1>1. Url = [form : F, scheme : S, caps : B, secret : B, host : H, port : N,
             path : P, extra : Z]
  BY DEF Url
<1>2. port \in N /\ path \in P
  <2>1. u.port \in Nat /\ u.path \in Paths \cup {"", "/"} /\ NoPort \in Nat
    BY UrlParts DEF NoPort
  <2> QED
    BY <2>1
<1>3. FALSE \in B
  OBVIOUS
<1>4. 0 \in Z
  OBVIOUS
<1>5. Canonicalise(u) =
        [u EXCEPT !.caps = FALSE, !.port = port, !.path = path, !.extra = 0]
  BY DEF Canonicalise
<1> HIDE DEF F, S, H, P, B, N, Z, port, path
<1> QED
  BY <1>1, <1>2, <1>3, <1>4, <1>5

\* A canonical URL asks for the same, and canonicalising it changes nothing; when
\* it is sent again it is refused for its length, if at all (canonicalise).
THEOREM CanonicalIsSettled ==
  ASSUME NEW u \in Url, ~Rejected(u)
  PROVE  /\ Canonicalise(u) \in Url
         /\ Canonicalise(Canonicalise(u)) = Canonicalise(u)
         /\ Rejected(Canonicalise(u)) => TooLong(Canonicalise(u))
         /\ SameResource(Canonicalise(u), u)
<1> DEFINE c == Canonicalise(u)
<1>1. /\ c.form = "ok" /\ c.scheme = u.scheme /\ c.caps = FALSE /\ c.secret = FALSE
      /\ c.host = u.host /\ c.extra = 0
      /\ c.port = IF u.port = DefaultPort(u.scheme) THEN NoPort ELSE u.port
      /\ c.path = IF u.path = "" THEN "/" ELSE u.path
  BY DEF Url, Rejected, Canonicalise
<1>2. c \in Url
  BY CanonicalIsUrl
<1>3. DefaultPort(u.scheme) # NoPort
  BY DEF DefaultPort, NoPort
<1>4. Canonicalise(c) = c
  <2> HIDE DEF c
  <2> QED
    BY <1>1, <1>2, <1>3 DEF Url, Canonicalise
<1>5. Rejected(c) => TooLong(c)
  <2> HIDE DEF c
  <2> QED
    BY <1>1 DEF Rejected
<1>6. SameResource(c, u)
  BY <1>1 DEF SameResource, Port
<1> QED
  BY <1>2, <1>4, <1>5, <1>6

\* The port of a URL adds to its length, if anything.
LEMMA PortHasLength == \A port \in Nat : PortChars(port) \in Nat
<1> SUFFICES ASSUME NEW port \in Nat PROVE PortChars(port) \in Nat
  OBVIOUS
<1> DEFINE D == {1, 10, 100, 1000, 10000}
           S == {d \in D : d <= port}
<1>1. IsFiniteSet(D)
  <2>1. /\ IsFiniteSet({}) /\ {1} = {} \cup {1} /\ {1, 10} = {1} \cup {10}
        /\ {1, 10, 100} = {1, 10} \cup {100} /\ {1, 10, 100, 1000} = {1, 10, 100} \cup {1000}
        /\ D = {1, 10, 100, 1000} \cup {10000}
    BY FS_EmptySet
  <2>2. IsFiniteSet({1})
    BY <2>1, FS_AddElement
  <2>3. IsFiniteSet({1, 10})
    BY <2>1, <2>2, FS_AddElement
  <2>4. IsFiniteSet({1, 10, 100})
    BY <2>1, <2>3, FS_AddElement
  <2>5. IsFiniteSet({1, 10, 100, 1000})
    BY <2>1, <2>4, FS_AddElement
  <2> QED
    BY <2>1, <2>5, FS_AddElement
<1>2. Cardinality(S) \in Nat
  BY <1>1, FS_Subset, FS_CardinalityType
<1> QED
  BY <1>2 DEF PortChars

\* The parts of a URL and the limits are numbers.
LEMMA CharsAreNumbers ==
  /\ \A u \in Url : Chars[u.scheme] \in Nat /\ Chars[u.host] \in Nat /\ Chars[u.path] \in Nat
  /\ Chars["/"] \in Nat /\ Chars[""] \in Nat
<1>1. \A t \in Schemes \cup {"other"} \cup Hosts \cup {NoHost} \cup Paths \cup {"", "/"} :
        Chars[t] \in Nat
  BY UrlAssumption
<1>2. ASSUME NEW u \in Url
      PROVE  Chars[u.scheme] \in Nat /\ Chars[u.host] \in Nat /\ Chars[u.path] \in Nat
  <2>1. /\ u.scheme \in Schemes \cup {"other"} /\ u.host \in Hosts \cup {NoHost}
        /\ u.path \in Paths \cup {"", "/"}
    BY UrlParts
  <2> QED
    BY <1>1, <2>1
<1> QED
  BY <1>1, <1>2

\* So are the limits.
LEMMA LimitsAreNumbers == MaxUrls \in Nat /\ MaxUrlChars \in Nat
BY UrlAssumption

\* A length whose path has grown by one at most, and nothing else at all.
LEMMA LongerByOne ==
  ASSUME NEW s \in Nat, NEW h \in Nat, NEW p \in Nat, NEW q \in Nat, NEW t \in Nat,
         NEW v \in Nat, NEW e \in Int, NEW limit \in Nat, q <= p, e >= 0,
         ~(s + 3 + h + p + t + e > limit)
  PROVE  /\ v <= t + 1 => s + 3 + h + q + v + 0 <= limit + 1
         /\ v <= t     => ~(s + 3 + h + q + v + 0 > limit)
OBVIOUS

HasPath(u)       == u.path # ""
LowerAddsNone(u) == u.extra >= 0

\* The "/" that is put in the place of an empty path is all that can take a URL
\* over the limit, unless lower() makes it longer (canonicalise).
THEOREM OnlyTheSlashExceeds ==
  ASSUME NEW u \in Url, ~Rejected(u), LowerAddsNone(u)
  PROVE  /\ Length(Canonicalise(u)) <= MaxUrlChars + 1
         /\ HasPath(u) => ~Rejected(Canonicalise(u))
<1> DEFINE c == Canonicalise(u)
           s == Chars[u.scheme]
           h == Chars[u.host]
           p == PortChars(u.port)
           q == PortChars(c.port)
           t == Chars[u.path]
           v == Chars[c.path]
           e == u.extra
<1>1. /\ c.scheme = u.scheme /\ c.host = u.host /\ c.extra = 0
      /\ c.port = NoPort \/ c.port = u.port
      /\ c.path = IF u.path = "" THEN "/" ELSE u.path
  BY CanonicalParts
<1>2. s \in Nat /\ h \in Nat /\ t \in Nat
  BY CharsAreNumbers
<1>3. v \in {t, t + 1} /\ (HasPath(u) => v = t)
  <2>1. Chars["/"] = Chars[""] + 1
    BY UrlAssumption
  <2> HIDE DEF c
  <2> QED
    BY <1>1, <2>1 DEF HasPath
<1>4. p \in Nat /\ q \in Nat /\ q <= p
  <2>1. p \in Nat
    BY UrlParts, PortHasLength
  <2>2. PortChars(NoPort) = 0
    BY DEF PortChars
  <2>3. q = 0 \/ q = p
    <3> HIDE DEF c
    <3> QED
      BY <1>1, <2>2
  <2> HIDE DEF p, q
  <2> QED
    BY <2>1, <2>3
<1>5. Length(u) = s + 3 + h + p + t + e /\ e \in Int /\ e >= 0
  BY UrlParts DEF Length, LowerAddsNone
<1>6. Length(c) = s + 3 + h + q + v + 0
  <2> HIDE DEF c
  <2> QED
    BY <1>1 DEF Length
<1>7. ~(Length(u) > MaxUrlChars)
  BY DEF Rejected, TooLong
<1> HIDE DEF c, s, h, p, q, t, v, e
<1>8. v \in Nat /\ v <= t + 1 /\ (HasPath(u) => v <= t)
  BY <1>2, <1>3
<1>9. /\ Length(c) <= MaxUrlChars + 1
      /\ HasPath(u) => ~(Length(c) > MaxUrlChars)
  BY <1>2, <1>4, <1>5, <1>6, <1>7, <1>8, LimitsAreNumbers, LongerByOne
<1>10. Rejected(c) => TooLong(c)
  BY CanonicalIsSettled DEF c
<1> QED
  BY <1>9, <1>10 DEF c, TooLong

WellFormed(u) == u.form = "ok" /\ u.secret = FALSE

\* What is accepted is well-formed, and so is its canonical form.
LEMMA AcceptedIsWellFormed ==
  ASSUME NEW u \in Url, ~Rejected(u)
  PROVE  WellFormed(u) /\ WellFormed(Canonicalise(u))
<1>1. u.form = "ok" /\ u.secret = FALSE
  BY DEF Rejected, Url
<1> QED
  BY <1>1 DEF WellFormed, Canonicalise, Url

\* Two URLs have one canonical form exactly when they ask for the same.
LEMMA WellFormedAgree ==
  ASSUME NEW u \in Url, NEW v \in Url, WellFormed(u), WellFormed(v)
  PROVE  (Canonicalise(u) = Canonicalise(v)) <=> SameResource(u, v)
<1> DEFINE DroppedPort(w) == IF w.port = DefaultPort(w.scheme) THEN NoPort ELSE w.port
           FullPath(w)    == IF w.path = "" THEN "/" ELSE w.path
           Parts(w) == [form |-> "ok", scheme |-> w.scheme, caps |-> FALSE, secret |-> FALSE,
                        host |-> w.host, port |-> DroppedPort(w), path |-> FullPath(w),
                        extra |-> 0]
<1>1. ASSUME NEW w \in Url, WellFormed(w)
      PROVE  Canonicalise(w) = Parts(w)
  <2>a. Canonicalise(w) \in Url
    BY CanonicalIsUrl
  <2>2. LET c == Canonicalise(w)
        IN  /\ c.form = "ok" /\ c.scheme = w.scheme /\ c.caps = FALSE /\ c.secret = FALSE
            /\ c.host = w.host /\ c.extra = 0
            /\ c.port = DroppedPort(w) /\ c.path = FullPath(w)
    BY <1>1 DEF Url, WellFormed, Canonicalise
  <2>1. Parts(w) \in Url
    <3>1. /\ w.scheme \in Schemes \cup {"other"} /\ w.host \in Hosts \cup {NoHost}
          /\ DroppedPort(w) \in Nat /\ FullPath(w) \in Paths \cup {"", "/"}
      BY UrlParts DEF NoPort
    <3> HIDE DEF DroppedPort, FullPath
    <3> QED
      BY <2>a, <2>2, <3>1 DEF Url
  <2> HIDE DEF DroppedPort, FullPath
  <2> QED
    BY <2>a, <2>1, <2>2, UrlsEqual
<1>2. (Parts(u) = Parts(v)) <=>
        (u.scheme = v.scheme /\ u.host = v.host /\ DroppedPort(u) = DroppedPort(v)
           /\ FullPath(u) = FullPath(v))
  <2> HIDE DEF DroppedPort, FullPath
  <2>1. ASSUME Parts(u) = Parts(v)
        PROVE  u.scheme = v.scheme /\ u.host = v.host /\ DroppedPort(u) = DroppedPort(v)
                 /\ FullPath(u) = FullPath(v)
    <3>1. \A w : /\ Parts(w).scheme = w.scheme /\ Parts(w).host = w.host
                 /\ Parts(w).port = DroppedPort(w) /\ Parts(w).path = FullPath(w)
      OBVIOUS
    <3> HIDE DEF Parts
    <3> QED
      BY <2>1, <3>1
  <2> QED
    BY <2>1
<1>3. u.scheme = v.scheme => ((DroppedPort(u) = DroppedPort(v)) <=> (Port(u) = Port(v)))
  <2>1. DefaultPort(u.scheme) # NoPort
    BY DEF DefaultPort, NoPort
  <2> QED
    BY <2>1 DEF Port
<1>4. (FullPath(u) = FullPath(v)) <=> (u.path = v.path \/ {u.path, v.path} = {"", "/"})
  <2>1. \A x, y : ({x, y} = {"", "/"}) <=> ((x = "" /\ y = "/") \/ (x = "/" /\ y = ""))
    OBVIOUS
  <2> QED
    BY <2>1
<1> HIDE DEF DroppedPort, FullPath, Parts
<1> QED
  BY <1>1, <1>2, <1>3, <1>4 DEF SameResource

\* Two URLs that are accepted have one canonical form exactly when they ask for
\* the same: normalise_many neither loses a page nor fetches one twice.
THEOREM CanonicalFormsAgree ==
  ASSUME NEW u \in Url, NEW v \in Url, ~Rejected(u), ~Rejected(v)
  PROVE  (Canonicalise(u) = Canonicalise(v)) <=> SameResource(u, v)
BY WellFormedAgree, AcceptedIsWellFormed

-----------------------------------------------------------------------------
\* Every set of naturals that is not empty has a least member.
LEMMA LeastMember ==
  ASSUME NEW S \in SUBSET Nat, S # {}
  PROVE  \E n \in S : \A m \in S : n <= m
<1> DEFINE T == {0 .. n : n \in S}
           R == StrictSubsetOrdering(Nat)
<1>1. \A n \in S : 0 .. n \in FiniteSubsetsOf(Nat)
  <2>1. \A n \in S : n \in Int /\ IsFiniteSet(0 .. n) /\ 0 .. n \in SUBSET Nat
    BY FS_Interval
  <2> QED
    BY <2>1 DEF FiniteSubsetsOf
<1>2. T # {} /\ T \subseteq FiniteSubsetsOf(Nat)
  BY <1>1
<1>3. IsWellFoundedOn(R, FiniteSubsetsOf(Nat))
  BY FS_StrictSubsetOrderingWellFounded
<1>4. \E x \in T : \A y \in T : ~(<<y, x>> \in R)
  <2> HIDE DEF T, R
  <2> QED
    BY <1>2, <1>3, WFMin
<1>5. PICK n \in S : \A m \in S : <<0 .. m, 0 .. n>> \notin R
  BY <1>4
<1>6. ASSUME NEW m \in S, m < n PROVE <<0 .. m, 0 .. n>> \in R
  BY <1>6 DEF StrictSubsetOrdering
<1> HIDE DEF T, R
<1>7. \A m \in S : ~(m < n)
  BY <1>5, <1>6
<1> QED
  BY <1>7

\* Induction, over a set instead of a predicate: what holds of 0 and, with a
\* number below N, of the next, holds up to N.
LEMMA UpTo ==
  ASSUME NEW N \in Nat, NEW S, 0 \in S,
         \A n \in 1 .. N : n - 1 \in S => n \in S
  PROVE  0 .. N \subseteq S
<1> SUFFICES ASSUME (0 .. N) \ S # {} PROVE FALSE
  OBVIOUS
<1>1. PICK n \in (0 .. N) \ S : \A m \in (0 .. N) \ S : n <= m
  <2> (0 .. N) \ S \in SUBSET Nat
    OBVIOUS
  <2> QED
    BY LeastMember
<1>2. n \in 1 .. N /\ n - 1 \in 0 .. N /\ n - 1 \notin (0 .. N) \ S
  BY <1>1
<1> QED
  BY <1>1, <1>2

\* What the N turns of a loop may do to a value in X, and what they do to base.
Turns(N, X) == [1 .. N -> [X -> X]]
IsLoop(f, N, X, base, turns) ==
  /\ f \in [0 .. N -> X]
  /\ f[0] = base
  /\ \A n \in 1 .. N : f[n] = turns[n][f[n - 1]]

\* A loop computes something.
LEMMA Loops ==
  ASSUME NEW N \in Nat, NEW X, NEW base \in X, NEW turns \in Turns(N, X)
  PROVE  \E f : IsLoop(f, N, X, base, turns)
<1> DEFINE S == {n \in 0 .. N : \E f : IsLoop(f, n, X, base, turns)}
<1>1. 0 \in S
  <2>1. [i \in 0 .. 0 |-> base] \in [0 .. 0 -> X]
    OBVIOUS
  <2>2. IsLoop([i \in 0 .. 0 |-> base], 0, X, base, turns)
    BY <2>1 DEF IsLoop
  <2> QED
    BY <2>2
<1>2. ASSUME NEW n \in 1 .. N, n - 1 \in S PROVE n \in S
  <2>1. PICK g : IsLoop(g, n - 1, X, base, turns)
    BY <1>2
  <2> DEFINE f == [i \in 0 .. n |-> IF i < n THEN g[i] ELSE turns[n][g[n - 1]]]
  <2>2. /\ g \in [0 .. n - 1 -> X] /\ g[0] = base
        /\ \A i \in 1 .. n - 1 : g[i] = turns[i][g[i - 1]]
    BY <2>1 DEF IsLoop
  <2>3. turns[n] \in [X -> X]
    BY DEF Turns
  <2>4. g[n - 1] \in X /\ turns[n][g[n - 1]] \in X
    BY <2>2, <2>3
  <2>5. f \in [0 .. n -> X]
    BY <2>2, <2>4
  <2>6. f[0] = base
    BY <2>2
  <2>7. ASSUME NEW i \in 1 .. n PROVE f[i] = turns[i][f[i - 1]]
    <3>1. CASE i < n
      <4>1. i \in 1 .. n - 1 /\ f[i] = g[i] /\ f[i - 1] = g[i - 1]
        BY <3>1
      <4> QED
        BY <2>2, <4>1
    <3>2. CASE i = n
      BY <3>2
    <3> QED
      BY <3>1, <3>2
  <2> HIDE DEF f
  <2>8. IsLoop(f, n, X, base, turns)
    BY <2>5, <2>6, <2>7 DEF IsLoop
  <2> QED
    BY <2>8
<1>3. N \in S
  <2> HIDE DEF S
  <2>1. 0 .. N \subseteq S
    BY <1>1, <1>2, UpTo
  <2> QED
    BY <2>1
<1> QED
  BY <1>3

\* The loop that drops blank lines, turn by turn.
LEMMA CandidatesLoop ==
  ASSUME NEW raw \in Seq(Url)
  PROVE  \E kept \in [0 .. Len(raw) -> Seq(Url)] :
           /\ kept[0] = <<>>
           /\ \A n \in 1 .. Len(raw) :
                kept[n] = IF raw[n].form = "blank" THEN kept[n - 1]
                          ELSE Append(kept[n - 1], raw[n])
           /\ Candidates(raw) = kept[Len(raw)]
<1> DEFINE N == Len(raw)
           none == <<>>
           X == Seq(Url)
           Turn(n, before) == IF raw[n].form = "blank" THEN before ELSE Append(before, raw[n])
           Is(f) == f = [n \in 0 .. N |-> IF n = 0 THEN none ELSE Turn(n, f[n - 1])]
           kept == CHOOSE f : Is(f)
           turns == [n \in 1 .. N |-> [before \in X |-> Turn(n, before)]]
<1>1. N \in Nat /\ none \in X
  OBVIOUS
<1>2. \A n \in 1 .. N : \A before \in X : Turn(n, before) \in X
  OBVIOUS
<1>3. Candidates(raw) = kept[N]
  BY DEF Candidates
<1> SUFFICES \E f \in [0 .. N -> X] : /\ f[0] = none
                                     /\ \A n \in 1 .. N : f[n] = Turn(n, f[n - 1])
                                     /\ Candidates(raw) = f[N]
  <2>1. \A f : \A n \in 1 .. N : (f[n] = Turn(n, f[n - 1])) =>
          f[n] = IF raw[n].form = "blank" THEN f[n - 1] ELSE Append(f[n - 1], raw[n])
    OBVIOUS
  <2> HIDE DEF Turn
  <2> QED
    BY <2>1
<1> HIDE DEF N, Turn, none, X
<1>4. turns \in Turns(N, X)
  BY <1>2 DEF Turns
<1>5. \A n \in 1 .. N : \A before \in X : turns[n][before] = Turn(n, before)
  OBVIOUS
<1> HIDE DEF Is, kept, turns
<1>6. PICK f : IsLoop(f, N, X, none, turns)
  BY <1>1, <1>4, Loops
<1>7. f \in [0 .. N -> X] /\ f[0] = none /\ \A n \in 1 .. N : f[n] = Turn(n, f[n - 1])
  BY <1>1, <1>5, <1>6 DEF IsLoop
<1>8. Is(f)
  BY <1>7 DEF Is
<1>9. Is(kept)
  BY <1>8 DEF kept
<1>10. kept[0] = none /\ \A n \in 1 .. N : kept[n] = Turn(n, kept[n - 1])
  BY <1>1, <1>9 DEF Is
<1> DEFINE S == {n \in 0 .. N : kept[n] \in X}
<1>11. 0 \in S
  BY <1>1, <1>10
<1>12. ASSUME NEW n \in 1 .. N, n - 1 \in S PROVE n \in S
  BY <1>2, <1>10, <1>12
<1>13. 0 .. N \subseteq S
  <2> HIDE DEF S
  <2> QED
    BY <1>1, <1>11, <1>12, UpTo
<1>14. \A n \in 0 .. N : kept[n] \in X
  BY <1>13
<1>15. kept \in [0 .. N -> X]
  BY <1>9, <1>14 DEF Is
<1> QED
  BY <1>3, <1>10, <1>15

\* It leaves a list of URLs.
LEMMA CandidatesType ==
  ASSUME NEW raw \in Seq(Url)
  PROVE  Candidates(raw) \in Seq(Url)
<1>1. PICK kept \in [0 .. Len(raw) -> Seq(Url)] : Candidates(raw) = kept[Len(raw)]
  BY CandidatesLoop
<1> QED
  BY <1>1

\* A list without blank lines is left alone.
LEMMA CandidatesOfAll ==
  ASSUME NEW raw \in Seq(Url), \A n \in 1 .. Len(raw) : raw[n].form # "blank"
  PROVE  Candidates(raw) = raw
<1> DEFINE N == Len(raw)
<1>1. N \in Nat
  OBVIOUS
<1>2. PICK kept \in [0 .. N -> Seq(Url)] :
        /\ kept[0] = <<>>
        /\ \A n \in 1 .. N : kept[n] = IF raw[n].form = "blank" THEN kept[n - 1]
                                       ELSE Append(kept[n - 1], raw[n])
        /\ Candidates(raw) = kept[N]
  BY CandidatesLoop
<1> DEFINE S == {n \in 0 .. N : Len(kept[n]) = n /\ \A i \in 1 .. n : kept[n][i] = raw[i]}
<1>3. 0 \in S
  BY <1>1, <1>2
<1>4. ASSUME NEW n \in 1 .. N, n - 1 \in S PROVE n \in S
  <2>1. kept[n] = Append(kept[n - 1], raw[n]) /\ kept[n - 1] \in Seq(Url)
    <3>1. n - 1 \in 0 .. N /\ raw[n].form # "blank"
      BY <1>1
    <3> HIDE DEF N
    <3> QED
      BY <1>2, <3>1
  <2>2. Len(kept[n - 1]) = n - 1 /\ \A i \in 1 .. n - 1 : kept[n - 1][i] = raw[i]
    BY <1>4
  <2>3. Len(kept[n]) = n /\ \A i \in 1 .. n : kept[n][i] = raw[i]
    BY <2>1, <2>2
  <2> QED
    BY <2>3
<1>5. 0 .. N \subseteq S
  <2> HIDE DEF N, S
  <2> QED
    BY <1>1, <1>3, <1>4, UpTo
<1>6. Candidates(raw) \in Seq(Url) /\ Len(Candidates(raw)) = N
      /\ \A i \in 1 .. N : Candidates(raw)[i] = raw[i]
  BY <1>1, <1>2, <1>5
<1> QED
  BY <1>6

\* The loop of normalise_many, turn by turn.
LEMMA KeepFirstLoop ==
  ASSUME NEW submitted \in Seq(Url)
  PROVE  \E out \in [0 .. Len(submitted) -> Seq(Url)] :
           /\ out[0] = <<>>
           /\ \A n \in 1 .. Len(submitted) : out[n] = KeepNew(out[n - 1], submitted[n])
           /\ KeepFirst(submitted) = out[Len(submitted)]
<1> DEFINE N == Len(submitted)
           none == <<>>
           X == Seq(Url)
           Turn(n, before) == KeepNew(before, submitted[n])
           Is(f) == f = [n \in 0 .. N |-> IF n = 0 THEN none ELSE Turn(n, f[n - 1])]
           out == CHOOSE f : Is(f)
           turns == [n \in 1 .. N |-> [before \in X |-> Turn(n, before)]]
<1>1. N \in Nat /\ none \in X
  OBVIOUS
<1>2. \A n \in 1 .. N : \A before \in X : Turn(n, before) \in X
  <2>1. \A n \in 1 .. N : Canonicalise(submitted[n]) \in Url
    <3>1. \A n \in 1 .. N : submitted[n] \in Url
      OBVIOUS
    <3> QED
      BY <3>1, CanonicalIsUrl
  <2> QED
    BY <2>1 DEF KeepNew
<1>3. KeepFirst(submitted) = out[N]
  BY DEF KeepFirst
<1>4. \A n \in 1 .. N : \A before : Turn(n, before) = KeepNew(before, submitted[n])
  OBVIOUS
<1> SUFFICES \E f \in [0 .. N -> X] :
               /\ f[0] = none
               /\ \A n \in 1 .. N : f[n] = Turn(n, f[n - 1])
               /\ KeepFirst(submitted) = f[N]
  OBVIOUS
<1> HIDE DEF N, Turn, none, X
<1>5. turns \in Turns(N, X)
  BY <1>2 DEF Turns
<1>6. \A n \in 1 .. N : \A before \in X : turns[n][before] = Turn(n, before)
  OBVIOUS
<1> HIDE DEF Is, out, turns
<1>7. PICK f : IsLoop(f, N, X, none, turns)
  BY <1>1, <1>5, Loops
<1>8. f \in [0 .. N -> X] /\ f[0] = none /\ \A n \in 1 .. N : f[n] = Turn(n, f[n - 1])
  BY <1>1, <1>6, <1>7 DEF IsLoop
<1>9. Is(f)
  BY <1>8 DEF Is
<1>10. Is(out)
  BY <1>9 DEF out
<1>11. out[0] = none /\ \A n \in 1 .. N : out[n] = Turn(n, out[n - 1])
  BY <1>1, <1>10 DEF Is
<1> DEFINE S == {n \in 0 .. N : out[n] \in X}
<1>12. 0 \in S
  BY <1>1, <1>11
<1>13. ASSUME NEW n \in 1 .. N, n - 1 \in S PROVE n \in S
  BY <1>2, <1>11, <1>13
<1>14. 0 .. N \subseteq S
  <2> HIDE DEF S
  <2> QED
    BY <1>1, <1>12, <1>13, UpTo
<1>15. \A n \in 0 .. N : out[n] \in X
  BY <1>14
<1>16. out \in [0 .. N -> X]
  BY <1>10, <1>15 DEF Is
<1> QED
  BY <1>3, <1>11, <1>16

\* What the loop has made of its first n URLs.
Kept(out, submitted, n) ==
  /\ out \in Seq(Url) /\ Len(out) <= n
  /\ \A i \in 1 .. Len(out) : \E k \in 1 .. n : out[i] = Canonicalise(submitted[k])
  /\ \A k \in 1 .. n : \E i \in 1 .. Len(out) : out[i] = Canonicalise(submitted[k])
  /\ \A i, j \in 1 .. Len(out) :
       i < j => \E k \in 1 .. n : /\ out[i] = Canonicalise(submitted[k])
                                  /\ \A m \in 1 .. k : out[j] # Canonicalise(submitted[m])

\* One turn of the loop.
LEMMA KeepNewKeeps ==
  ASSUME NEW submitted \in Seq(Url), NEW n \in 1 .. Len(submitted), NEW before,
         Kept(before, submitted, n - 1)
  PROVE  Kept(KeepNew(before, submitted[n]), submitted, n)
<1> DEFINE url  == Canonicalise(submitted[n])
           out  == KeepNew(before, submitted[n])
           Form(k) == Canonicalise(submitted[k])
<1>1. /\ before \in Seq(Url) /\ url \in Url /\ url = Form(n) /\ Len(before) <= n - 1
      /\ out = IF url \in Range(before) THEN before ELSE Append(before, url)
  <2>1. submitted[n] \in Url
    OBVIOUS
  <2> QED
    BY <2>1, CanonicalIsUrl DEF Kept, KeepNew
<1>2. /\ \A i \in 1 .. Len(before) : \E k \in 1 .. n - 1 : before[i] = Form(k)
      /\ \A k \in 1 .. n - 1 : \E i \in 1 .. Len(before) : before[i] = Form(k)
      /\ \A i, j \in 1 .. Len(before) :
           i < j => \E k \in 1 .. n - 1 : /\ before[i] = Form(k)
                                          /\ \A m \in 1 .. k : before[j] # Form(m)
  BY DEF Kept
<1> SUFFICES /\ out \in Seq(Url) /\ Len(out) <= n
             /\ \A i \in 1 .. Len(out) : \E k \in 1 .. n : out[i] = Form(k)
             /\ \A k \in 1 .. n : \E i \in 1 .. Len(out) : out[i] = Form(k)
             /\ \A i, j \in 1 .. Len(out) :
                  i < j => \E k \in 1 .. n : /\ out[i] = Form(k)
                                             /\ \A m \in 1 .. k : out[j] # Form(m)
  BY DEF Kept
<1>3. /\ n \in Nat /\ n \in 1 .. n
      /\ \A k \in 1 .. n - 1 : k \in 1 .. n
      /\ \A k \in 1 .. n : k = n \/ k \in 1 .. n - 1
  OBVIOUS
<1> HIDE DEF url, out, Form
<1>4. CASE url \in Range(before)
  <2>1. out = before /\ \E i \in 1 .. Len(before) : before[i] = Form(n)
    BY <1>1, <1>4 DEF Range
  <2>2. \A i \in 1 .. Len(out) : \E k \in 1 .. n : out[i] = Form(k)
    BY <1>2, <1>3, <2>1
  <2>3. \A k \in 1 .. n : \E i \in 1 .. Len(out) : out[i] = Form(k)
    BY <1>2, <1>3, <2>1
  <2>4. ASSUME NEW i \in 1 .. Len(out), NEW j \in 1 .. Len(out), i < j
        PROVE  \E k \in 1 .. n : out[i] = Form(k) /\ \A m \in 1 .. k : out[j] # Form(m)
    <3>1. PICK k \in 1 .. n - 1 : before[i] = Form(k) /\ \A m \in 1 .. k : before[j] # Form(m)
      BY <1>2, <2>1, <2>4
    <3> QED
      BY <1>3, <2>1, <3>1
  <2>5. out \in Seq(Url) /\ Len(out) <= n
    <3>1. Len(before) \in Nat
      BY <1>1
    <3> QED
      BY <1>1, <1>3, <2>1, <3>1
  <2> QED
    BY <2>2, <2>3, <2>4, <2>5
<1>5. CASE url \notin Range(before)
  <2>1. /\ out \in Seq(Url) /\ Len(out) = Len(before) + 1 /\ Len(before) \in Nat
        /\ out[Len(out)] = Form(n)
        /\ \A i \in 1 .. Len(before) : out[i] = before[i]
        /\ \A i \in 1 .. Len(out) : i = Len(out) \/ i \in 1 .. Len(before)
    BY <1>1, <1>5
  <2>2. ASSUME NEW i \in 1 .. Len(out) PROVE \E k \in 1 .. n : out[i] = Form(k)
    <3>1. CASE i = Len(out)
      BY <1>3, <2>1, <3>1
    <3>2. CASE i \in 1 .. Len(before)
      <4>1. PICK k \in 1 .. n - 1 : before[i] = Form(k)
        BY <1>2, <3>2
      <4> QED
        BY <1>3, <2>1, <3>2, <4>1
    <3> QED
      BY <2>1, <3>1, <3>2
  <2>3. \A k \in 1 .. n : \E i \in 1 .. Len(out) : out[i] = Form(k)
    BY <1>2, <1>3, <2>1
  <2>4. ASSUME NEW m \in 1 .. n - 1, Form(m) = Form(n) PROVE FALSE
    <3>1. PICK i \in 1 .. Len(before) : before[i] = Form(m)
      BY <1>2
    <3>2. before[i] \in Range(before)
      BY <1>1 DEF Range
    <3> QED
      BY <1>1, <1>5, <2>4, <3>1, <3>2
  <2>5. ASSUME NEW i \in 1 .. Len(out), NEW j \in 1 .. Len(out), i < j
        PROVE  \E k \in 1 .. n : out[i] = Form(k) /\ \A m \in 1 .. k : out[j] # Form(m)
    <3>1. i \in 1 .. Len(before)
      BY <2>1, <2>5
    <3>2. CASE j = Len(out)
      <4>1. PICK k \in 1 .. n - 1 : before[i] = Form(k)
        BY <1>2, <3>1
      <4>2. out[i] = Form(k) /\ out[j] = Form(n) /\ k \in 1 .. n
        BY <1>3, <2>1, <3>1, <3>2, <4>1
      <4>3. \A m \in 1 .. k : m \in 1 .. n - 1
        BY <1>3, <4>1
      <4>4. \A m \in 1 .. k : out[j] # Form(m)
        BY <2>4, <4>2, <4>3
      <4> QED
        BY <4>2, <4>4
    <3>3. CASE j \in 1 .. Len(before)
      <4>1. PICK k \in 1 .. n - 1 :
              before[i] = Form(k) /\ \A m \in 1 .. k : before[j] # Form(m)
        BY <1>2, <2>5, <3>1, <3>3
      <4> QED
        BY <1>3, <2>1, <3>1, <3>3, <4>1
    <3> QED
      BY <2>1, <3>2, <3>3
  <2>6. out \in Seq(Url) /\ Len(out) <= n
    BY <1>1, <1>3, <2>1
  <2> QED
    BY <2>2, <2>3, <2>5, <2>6
<1> QED
  BY <1>4, <1>5

\* The whole loop.
LEMMA KeepFirstKeeps ==
  ASSUME NEW submitted \in Seq(Url)
  PROVE  Kept(KeepFirst(submitted), submitted, Len(submitted))
<1> DEFINE N == Len(submitted)
<1>1. N \in Nat
  OBVIOUS
<1>2. PICK out \in [0 .. N -> Seq(Url)] :
        /\ out[0] = <<>>
        /\ \A n \in 1 .. N : out[n] = KeepNew(out[n - 1], submitted[n])
        /\ KeepFirst(submitted) = out[N]
  BY KeepFirstLoop
<1> DEFINE S == {n \in 0 .. N : Kept(out[n], submitted, n)}
<1>3. 0 \in S
  BY <1>1, <1>2 DEF Kept
<1>4. ASSUME NEW n \in 1 .. N, n - 1 \in S PROVE n \in S
  <2>1. Kept(out[n - 1], submitted, n - 1)
    BY <1>4
  <2>2. Kept(KeepNew(out[n - 1], submitted[n]), submitted, n)
    BY <2>1, KeepNewKeeps
  <2> QED
    BY <1>1, <1>2, <2>2
<1>5. 0 .. N \subseteq S
  <2> HIDE DEF N, S
  <2> QED
    BY <1>1, <1>3, <1>4, UpTo
<1> QED
  BY <1>1, <1>2, <1>5

\* It leaves a list alone that it could have made.
LEMMA KeepFirstOfKept ==
  ASSUME NEW submitted \in Seq(Url),
         \A n \in 1 .. Len(submitted) : Canonicalise(submitted[n]) = submitted[n],
         \A i, j \in 1 .. Len(submitted) : i < j => submitted[i] # submitted[j]
  PROVE  KeepFirst(submitted) = submitted
<1> DEFINE N == Len(submitted)
<1>1. N \in Nat
  OBVIOUS
<1>2. PICK out \in [0 .. N -> Seq(Url)] :
        /\ out[0] = <<>>
        /\ \A n \in 1 .. N : out[n] = KeepNew(out[n - 1], submitted[n])
        /\ KeepFirst(submitted) = out[N]
  BY KeepFirstLoop
<1> DEFINE S == {n \in 0 .. N : Len(out[n]) = n /\ \A i \in 1 .. n : out[n][i] = submitted[i]}
<1>3. 0 \in S
  BY <1>1, <1>2
<1>4. ASSUME NEW n \in 1 .. N, n - 1 \in S PROVE n \in S
  <2> DEFINE before == out[n - 1]
  <2>1. n - 1 \in 0 .. N /\ before \in Seq(Url)
    BY <1>1, <1>2
  <2>2. Len(before) = n - 1 /\ \A i \in 1 .. n - 1 : before[i] = submitted[i]
    BY <1>4
  <2>3. submitted[n] \notin Range(before)
    <3>1. \A i \in 1 .. n - 1 : submitted[i] # submitted[n]
      BY <1>1
    <3> HIDE DEF before
    <3> QED
      BY <2>1, <2>2, <3>1 DEF Range
  <2>4. out[n] = Append(before, submitted[n])
    BY <1>2, <2>3 DEF KeepNew
  <2> HIDE DEF before
  <2>5. Len(out[n]) = n /\ \A i \in 1 .. n : out[n][i] = submitted[i]
    BY <2>1, <2>2, <2>4
  <2> QED
    BY <2>5
<1>5. 0 .. N \subseteq S
  <2> HIDE DEF N, S
  <2> QED
    BY <1>1, <1>3, <1>4, UpTo
<1>6. KeepFirst(submitted) \in Seq(Url) /\ Len(KeepFirst(submitted)) = N
      /\ \A i \in 1 .. N : KeepFirst(submitted)[i] = submitted[i]
  BY <1>1, <1>2, <1>5
<1> QED
  BY <1>6

\* FirstLike finds the first of the URLs whose canonical form is u.
LEMMA FirstLikeIsFirst ==
  ASSUME NEW submitted \in Seq(Url), \A k \in 1 .. Len(submitted) : ~Rejected(submitted[k]),
         NEW n \in 1 .. Len(submitted)
  PROVE  LET u == Canonicalise(submitted[n])
             k == FirstLike(u, submitted)
         IN  /\ k \in 1 .. Len(submitted)
             /\ Canonicalise(submitted[k]) = u
             /\ \A j \in 1 .. k - 1 : Canonicalise(submitted[j]) # u
<1> DEFINE u == Canonicalise(submitted[n])
           L == Len(submitted)
           Is(k) == /\ k \in 1 .. L
                    /\ SameResource(u, submitted[k])
                    /\ \A j \in 1 .. k - 1 : ~SameResource(u, submitted[j])
           S == {k \in 1 .. L : SameResource(u, submitted[k])}
<1>1. u \in Url /\ WellFormed(u) /\ Canonicalise(u) = u /\ L \in Nat
  BY CanonicalIsSettled, AcceptedIsWellFormed
<1>2. \A k \in 1 .. L : SameResource(u, submitted[k]) <=> u = Canonicalise(submitted[k])
  BY <1>1, WellFormedAgree, AcceptedIsWellFormed
<1>3. FirstLike(u, submitted) = CHOOSE k : Is(k)
  BY DEF FirstLike
<1>4. \E k : Is(k)
  <2>1. n \in S /\ S \in SUBSET Nat
    BY <1>2
  <2>2. PICK k \in S : \A j \in S : k <= j
    BY <2>1, LeastMember
  <2>3. \A j \in 1 .. k - 1 : j \in 1 .. L /\ j \notin S
    BY <1>1, <2>2
  <2>4. Is(k)
    BY <2>2, <2>3
  <2> QED
    BY <2>4
<1>5. Is(FirstLike(u, submitted))
  <2> HIDE DEF Is
  <2> QED
    BY <1>3, <1>4
<1> QED
  BY <1>1, <1>2, <1>5

\* Posting the list that a run works on changes nothing; it is accepted, unless one
\* of its URLs has become too long.
THEOREM NormalisedIsSettled ==
  ASSUME NEW raw \in Seq(Url), ~ListRejected(raw)
  PROVE  /\ ListRejected(NormaliseMany(raw)) =>
              \E u \in Range(NormaliseMany(raw)) : TooLong(u)
         /\ NormaliseMany(NormaliseMany(raw)) = NormaliseMany(raw)
<1> DEFINE out == NormaliseMany(raw)
           submitted == Candidates(raw)
           L == Len(submitted)
           Form(k) == Canonicalise(submitted[k])
<1>1. /\ submitted \in Seq(Url) /\ L \in 1 .. MaxUrls
      /\ \A k \in 1 .. L : ~Rejected(submitted[k])
  BY CandidatesType DEF ListRejected
<1>2. \A k \in 1 .. L : /\ Form(k) \in Url /\ Canonicalise(Form(k)) = Form(k)
                        /\ Rejected(Form(k)) => TooLong(Form(k))
                        /\ Form(k).form = "ok"
  <2>1. ASSUME NEW k \in 1 .. L
        PROVE  Form(k).form = "ok"
    <3>1. submitted[k] \in Url /\ ~Rejected(submitted[k])
      BY <1>1
    <3> QED
      BY <3>1, AcceptedIsWellFormed DEF WellFormed
  <2> QED
    BY <2>1, <1>1, CanonicalIsSettled
<1>3. Kept(out, submitted, L)
  BY <1>1, KeepFirstKeeps DEF NormaliseMany
<1>4. /\ out \in Seq(Url) /\ Len(out) <= L
      /\ \A i \in 1 .. Len(out) : \E k \in 1 .. L : out[i] = Form(k)
      /\ \A k \in 1 .. L : \E i \in 1 .. Len(out) : out[i] = Form(k)
      /\ \A i, j \in 1 .. Len(out) :
           i < j => \E k \in 1 .. L : out[i] = Form(k) /\ \A m \in 1 .. k : out[j] # Form(m)
  BY <1>3 DEF Kept
<1> HIDE DEF out, submitted, L, Form
<1>5. \A i \in 1 .. Len(out) : /\ Canonicalise(out[i]) = out[i] /\ out[i].form = "ok"
                               /\ Rejected(out[i]) => TooLong(out[i])
  BY <1>2, <1>4
<1>6. ASSUME NEW i \in 1 .. Len(out), NEW j \in 1 .. Len(out), i < j
      PROVE  out[i] # out[j]
  <2>1. PICK k \in 1 .. L : out[i] = Form(k) /\ \A m \in 1 .. k : out[j] # Form(m)
    BY <1>4, <1>6
  <2>2. k \in 1 .. k
    BY <1>1
  <2> QED
    BY <2>1, <2>2
<1>7. KeepFirst(out) = out
  BY <1>4, <1>5, <1>6, KeepFirstOfKept
<1>8. Candidates(out) = out
  <2>1. \A i \in 1 .. Len(out) : out[i].form # "blank"
    BY <1>5
  <2> QED
    BY <1>4, <2>1, CandidatesOfAll
<1>9. Len(out) \in 1 .. MaxUrls
  <2>1. MaxUrls \in Nat /\ Len(out) \in Nat
    BY <1>4, LimitsAreNumbers
  <2>2. 1 \in 1 .. L
    BY <1>1
  <2>3. \E i \in 1 .. Len(out) : out[i] = Form(1)
    BY <1>4, <2>2
  <2> QED
    BY <1>1, <1>4, <2>1, <2>3
<1>10. NormaliseMany(out) = out
  BY <1>7, <1>8 DEF NormaliseMany
<1>11. ListRejected(out) => \E u \in Range(out) : TooLong(u)
  <2>1. \A i \in 1 .. Len(out) : out[i] \in Range(out)
    BY <1>4 DEF Range
  <2> QED
    BY <1>5, <1>8, <1>9, <2>1 DEF ListRejected
<1> QED
  BY <1>10, <1>11 DEF out

\* A member of a list stands somewhere in it.
LEMMA RangeIndex ==
  ASSUME NEW s \in Seq(Url), NEW u \in Range(s)
  PROVE  \E i \in 1 .. Len(s) : u = s[i]
BY DEF Range

\* The list a run works on, for every list it may be posted with.
THEOREM NormaliseManyNormalises ==
  ASSUME NEW raw \in Seq(Url), ~ListRejected(raw)
  PROVE  LET out == NormaliseMany(raw)
             submitted == Candidates(raw)
         IN  /\ out \in Seq(Url)
             /\ \A u \in Range(out) : Canonicalise(u) = u /\ (Rejected(u) => TooLong(u))
             /\ \A k \in 1 .. Len(submitted) :
                  \E u \in Range(out) : SameResource(u, submitted[k])
             /\ \A i, j \in 1 .. Len(out) :
                  i < j => FirstLike(out[i], submitted) < FirstLike(out[j], submitted)
<1> DEFINE out == NormaliseMany(raw)
           submitted == Candidates(raw)
           L == Len(submitted)
           Form(k) == Canonicalise(submitted[k])
           first(i) == FirstLike(out[i], submitted)
<1>1. submitted \in Seq(Url) /\ L \in Nat /\ \A k \in 1 .. L : ~Rejected(submitted[k])
  BY CandidatesType DEF ListRejected
<1>2. \A k \in 1 .. L : /\ Form(k) \in Url /\ Canonicalise(Form(k)) = Form(k)
                        /\ Rejected(Form(k)) => TooLong(Form(k))
                        /\ SameResource(Form(k), submitted[k])
  BY <1>1, CanonicalIsSettled
<1>3. Kept(out, submitted, L)
  BY <1>1, KeepFirstKeeps DEF NormaliseMany
<1>4. /\ out \in Seq(Url)
      /\ \A i \in 1 .. Len(out) : \E k \in 1 .. L : out[i] = Form(k)
      /\ \A k \in 1 .. L : \E i \in 1 .. Len(out) : out[i] = Form(k)
      /\ \A i, j \in 1 .. Len(out) :
           i < j => \E k \in 1 .. L : out[i] = Form(k) /\ \A m \in 1 .. k : out[j] # Form(m)
  BY <1>3 DEF Kept
<1>5. \A i \in 1 .. Len(out) : /\ first(i) \in 1 .. L
                               /\ Form(first(i)) = out[i]
                               /\ \A j \in 1 .. first(i) - 1 : Form(j) # out[i]
  <2> SUFFICES ASSUME NEW i \in 1 .. Len(out)
               PROVE  /\ first(i) \in 1 .. L
                      /\ Form(first(i)) = out[i]
                      /\ \A j \in 1 .. first(i) - 1 : Form(j) # out[i]
    OBVIOUS
  <2>1. PICK k \in 1 .. L : out[i] = Form(k)
    BY <1>4
  <2> QED
    BY <1>1, <2>1, FirstLikeIsFirst
<1> HIDE DEF out, submitted, L, Form, first
<1>6. ASSUME NEW u \in Range(out)
      PROVE  Canonicalise(u) = u /\ (Rejected(u) => TooLong(u))
  <2>1. out \in Seq(Url)
    BY <1>4
  <2>2. PICK i \in 1 .. Len(out) : u = out[i]
    BY <2>1, RangeIndex
  <2>3. PICK k \in 1 .. L : u = Form(k)
    BY <1>4, <2>2
  <2> QED
    BY <1>2, <2>3
<1>7. \A k \in 1 .. L : \E u \in Range(out) : SameResource(u, submitted[k])
  <2>1. \A i \in 1 .. Len(out) : out[i] \in Range(out)
    BY <1>4 DEF Range
  <2> QED
    BY <1>2, <1>4, <2>1
<1>8. ASSUME NEW i \in 1 .. Len(out), NEW j \in 1 .. Len(out), i < j
      PROVE  first(i) < first(j)
  <2>1. PICK k \in 1 .. L : out[i] = Form(k) /\ \A m \in 1 .. k : out[j] # Form(m)
    BY <1>4, <1>8
  <2>2. first(i) <= k
    BY <1>1, <1>5, <2>1
  <2>3. first(j) > k
    BY <1>1, <1>5, <2>1
  <2> QED
    BY <1>1, <1>5, <2>2, <2>3
<1> QED
  BY <1>4, <1>6, <1>7, <1>8 DEF out, submitted, L, first

-----------------------------------------------------------------------------
\* A request that has been answered has a class of answer; a live run works on
\* what was made of the list it was posted with, which was accepted.
Posted ==
  /\ \A q \in Reqs : at[q] = "answered" => status[q] \in Classes
  /\ \A r \in live : /\ asked[r] \in Lists /\ ~ListRejected(asked[r])
                     /\ urls[r] = NormaliseMany(asked[r])

\* What is counted is finite: each step begins one request or one run.
Finite ==
  /\ IsFiniteSet({q \in Reqs : at[q] # "absent"})
  /\ IsFiniteSet({r \in Runs : record[r] # NoId})

Whole == Inv /\ TypeOK /\ Posted /\ Finite /\ CountersAddUp

Statuses == Classes \cup {"none"}
Kinds == {"invalid", "rejected", "replay", "queued", "cancelled", "access",
          "failed", "unhandled", "run", "ended"}
LineType == [about : Reqs \cup Runs, kind : Kinds,
             request : Ids \cup {NoId}, run : Runs \cup {NoRun}]

\* A line is one, whichever task writes it.
LEMMA LineTyped ==
  ASSUME NEW about \in Reqs \cup Runs, NEW kind \in Kinds, NEW context \in Context
  PROVE  Line(about, kind, context) \in LineType
BY DEF Line, LineType, Context

\* Counting adds one to the counters that are named.
LEMMA IncrCounts ==
  ASSUME counters \in [Counters -> Nat], NEW names, Incr(names)
  PROVE  /\ counters' \in [Counters -> Nat]
         /\ \A c \in Counters : counters'[c] = counters[c] + (IF c \in names THEN 1 ELSE 0)
BY DEF Incr

\* The counters are told apart.
LEMMA CountersAre ==
  /\ "requests_total" \in Counters /\ "responses_2xx" \in Counters
  /\ "responses_3xx" \in Counters
  /\ "responses_4xx" \in Counters /\ "responses_5xx" \in Counters
  /\ "requests_failed" \in Counters /\ "requests_too_large" \in Counters
  /\ "requests_invalid" \in Counters /\ "requests_rate_limited" \in Counters
  /\ "runs_rejected_capacity" \in Counters /\ "runs_idempotent_replay" \in Counters
  /\ "runs_started" \in Counters
BY DEF Counters

\* The sets whose members the properties count.
OverSet == {q \in Reqs : at[q] \in {"over"}}
UnderwaySet(class) == {q \in Reqs : at[q] = "answered" /\ status[q] = class}
StoredSet == {r \in Runs : record[r] # NoId}

\* They are finite.
LEMMA SetsAreFinite ==
  ASSUME Finite
  PROVE  /\ IsFiniteSet(OverSet) /\ IsFiniteSet(StoredSet)
         /\ \A class : IsFiniteSet(UnderwaySet(class))
<1>1. OverSet \subseteq {q \in Reqs : at[q] # "absent"}
  BY DEF OverSet
<1>2. \A class : UnderwaySet(class) \subseteq {q \in Reqs : at[q] # "absent"}
  BY DEF UnderwaySet
<1> QED
  BY <1>1, <1>2, FS_Subset DEF Finite, StoredSet

\* The sums, in terms of those sets.
Sums(c, over, under2, under4, stored) ==
  /\ c["requests_total"] = c["responses_2xx"] + c["responses_3xx"] + c["responses_4xx"]
                           + c["responses_5xx"]
  /\ c["requests_total"] + c["requests_failed"] + c["requests_too_large"] = over
  /\ c["requests_invalid"] + c["requests_rate_limited"] + c["runs_rejected_capacity"]
       <= c["responses_4xx"] + under4
  /\ c["runs_started"] + c["runs_idempotent_replay"] <= c["responses_2xx"] + under2
  /\ c["runs_started"] = stored

\* The counters that a plain answer leaves alone.
Others == {"requests_failed", "requests_too_large", "requests_invalid",
           "requests_rate_limited", "runs_rejected_capacity", "runs_idempotent_replay",
           "runs_started"}

\* An answer that leaves, of one class, keeps the sums.
LEMMA OneMoreAnswer ==
  ASSUME NEW c \in [Counters -> Nat], NEW d \in [Counters -> Nat],
         NEW over \in Nat, NEW under2 \in Nat, NEW under4 \in Nat, NEW stored \in Nat,
         NEW x2 \in Int, NEW x3 \in Int, NEW x4 \in Int, NEW x5 \in Int,
         x2 + x3 + x4 + x5 = 1,
         Sums(c, over, under2, under4, stored),
         d["requests_total"] = c["requests_total"] + 1,
         d["responses_2xx"] = c["responses_2xx"] + x2,
         d["responses_3xx"] = c["responses_3xx"] + x3,
         d["responses_4xx"] = c["responses_4xx"] + x4,
         d["responses_5xx"] = c["responses_5xx"] + x5,
         \A k \in Others : d[k] = c[k]
  PROVE  Sums(d, over + 1, under2 - x2, under4 - x4, stored)
BY CountersAre DEF Sums, Others

\* That is what CountersAddUp says.
LEMMA AddUpIsSums ==
  /\ CountersAddUp = Sums(counters, Cardinality(OverSet), Cardinality(UnderwaySet("2xx")),
                          Cardinality(UnderwaySet("4xx")), Cardinality(StoredSet))
  /\ CountersAddUp' = Sums(counters', Cardinality(OverSet'), Cardinality(UnderwaySet("2xx")'),
                           Cardinality(UnderwaySet("4xx")'), Cardinality(StoredSet'))
BY DEF CountersAddUp, Sums, Requests, Underway, OverSet, UnderwaySet, StoredSet

\* What every answer does to the request it answers.
LEMMA AnswersCount ==
  ASSUME Whole, NEW q \in Reqs, NEW class \in Classes,
         NEW kinds \in SUBSET Kinds, NEW counted, Answers(q, class, kinds, counted)
  PROVE  /\ at' \in [Reqs -> {"absent", "handling", "answered", "raised", "over"}]
         /\ id' \in [Reqs -> Ids \cup {NoId}]
         /\ status' \in [Reqs -> Statuses]
         /\ lines' \subseteq LineType
         /\ \A p \in Reqs : at'[p] = "answered" => status'[p] \in Classes
         /\ IsFiniteSet({p \in Reqs : at'[p] # "absent"})
         /\ OverSet' = OverSet
         /\ \A c \in {"2xx", "4xx"} :
              Cardinality(UnderwaySet(c)') =
                Cardinality(UnderwaySet(c)) + (IF c = class THEN 1 ELSE 0)
<1>1. /\ at \in [Reqs -> {"absent", "handling", "answered", "raised", "over"}]
      /\ id \in [Reqs -> Ids \cup {NoId}] /\ status \in [Reqs -> Statuses]
      /\ ctx[<<q, "handler">>] \in Context /\ lines \subseteq LineType
  BY TasksDiffer DEF Whole, TypeOK, Statuses, LineType, Kinds
<1>2. /\ at[q] = "handling" /\ at'[q] = "answered" /\ status'[q] = class
      /\ \A p \in Reqs \ {q} : at'[p] = at[p] /\ status'[p] = status[p]
      /\ at' \in [Reqs -> {"absent", "handling", "answered", "raised", "over"}]
      /\ status' \in [Reqs -> Statuses]
      /\ id' = id
  BY <1>1 DEF Answers, Statuses
<1>3. lines' \subseteq LineType
  <2>1. \A k \in kinds : Line(q, k, ctx[<<q, "handler">>]) \in LineType
    BY <1>1, LineTyped
  <2>2. lines' = lines \cup {Line(q, k, ctx[<<q, "handler">>]) : k \in kinds}
    BY DEF Answers
  <2> QED
    BY <1>1, <2>1, <2>2
<1>4. \A p \in Reqs : at'[p] = "answered" => status'[p] \in Classes
  BY <1>2 DEF Whole, Posted
<1>5. {p \in Reqs : at'[p] # "absent"} = {p \in Reqs : at[p] # "absent"}
  BY <1>2
<1>6. OverSet' = OverSet
  BY <1>2 DEF OverSet
<1>7. ASSUME NEW c \in {"2xx", "4xx"}
      PROVE  Cardinality(UnderwaySet(c)') =
               Cardinality(UnderwaySet(c)) + (IF c = class THEN 1 ELSE 0)
  <2>1. IsFiniteSet(UnderwaySet(c)) /\ Cardinality(UnderwaySet(c)) \in Nat
    BY SetsAreFinite, FS_CardinalityType DEF Whole
  <2>2. q \notin UnderwaySet(c)
    BY <1>2 DEF UnderwaySet
  <2>3. CASE c = class
    <3>1. UnderwaySet(c)' = UnderwaySet(c) \cup {q}
      BY <1>2, <2>3 DEF UnderwaySet
    <3> QED
      BY <2>1, <2>2, <2>3, <3>1, FS_AddElement
  <2>4. CASE c # class
    <3>1. UnderwaySet(c)' = UnderwaySet(c)
      BY <1>2, <2>4 DEF UnderwaySet
    <3> QED
      BY <2>1, <2>4, <3>1
  <2> QED
    BY <2>3, <2>4
<1> QED
  BY <1>1, <1>2, <1>3, <1>4, <1>5, <1>6, <1>7 DEF Whole, Finite

\* The cards of the sets are numbers.
LEMMA CardsAreNumbers ==
  ASSUME Finite
  PROVE  /\ Cardinality(OverSet) \in Nat /\ Cardinality(StoredSet) \in Nat
         /\ Cardinality(UnderwaySet("2xx")) \in Nat /\ Cardinality(UnderwaySet("4xx")) \in Nat
BY SetsAreFinite, FS_CardinalityType

\* An answer that starts no run keeps everything but the sums.
LEMMA RunlessType ==
  ASSUME Whole, NEW q \in Reqs, NEW class \in Classes,
         NEW kinds \in SUBSET Kinds, NEW counted, Answers(q, class, kinds, counted), Runless
  PROVE  TypeOK' /\ Posted' /\ Finite'
<1>1. UNCHANGED <<ctx, live, record, urls, asked>>
  BY DEF Runless
<1>2. counters' \in [Counters -> Nat]
  BY IncrCounts DEF Whole, TypeOK, Answers
<1> QED
  BY <1>1, <1>2, AnswersCount DEF Whole, TypeOK, Posted, Finite, Statuses, LineType, Kinds

\* The answers that start no run: what each counts is on its way with it.
LEMMA RunlessAddsUp ==
  ASSUME Whole, NEW q \in Reqs,
         \/ Invalid(q) \/ RateLimited(q) \/ AtCapacity(q)
         \/ Replay(q) \/ Cancel(q) \/ Other(q)
  PROVE  TypeOK' /\ Posted' /\ Finite' /\ CountersAddUp'
<1> DEFINE R == {"requests_invalid", "requests_rate_limited", "runs_rejected_capacity"}
<1>1. PICK class \in Classes, kinds \in SUBSET Kinds, counted \in SUBSET Counters :
        /\ Answers(q, class, kinds, counted)
        /\ Runless
        /\ \/ counted = {}
           \/ class = "4xx" /\ \E c \in R : counted = {c}
           \/ class = "2xx" /\ counted = {"runs_idempotent_replay"}
  <2> HIDE DEF R
  <2>a. /\ {"requests_invalid"} \in SUBSET Counters
        /\ {"runs_rejected_capacity"} \in SUBSET Counters
        /\ {"requests_rate_limited"} \in SUBSET Counters
        /\ {"runs_idempotent_replay"} \in SUBSET Counters
        /\ "requests_invalid" \in R /\ "requests_rate_limited" \in R
        /\ "runs_rejected_capacity" \in R /\ "2xx" \in Classes /\ "4xx" \in Classes
    BY CountersAre DEF R, Classes
  <2>b. /\ {"invalid"} \in SUBSET Kinds /\ {"rejected"} \in SUBSET Kinds
        /\ {"replay"} \in SUBSET Kinds /\ {"cancelled"} \in SUBSET Kinds
    BY DEF Kinds
  <2>1. CASE Invalid(q)
    BY <2>1, <2>a, <2>b DEF Invalid
  <2>2. CASE RateLimited(q)
    BY <2>2, <2>a, <2>b DEF RateLimited
  <2>3. CASE AtCapacity(q)
    BY <2>3, <2>a, <2>b DEF AtCapacity
  <2>4. CASE Replay(q)
    BY <2>4, <2>a, <2>b DEF Replay
  <2>5. CASE Cancel(q)
    BY <2>5, <2>a, <2>b DEF Cancel
  <2>6. CASE Other(q)
    BY <2>6 DEF Other
  <2> QED
    BY <2>1, <2>2, <2>3, <2>4, <2>5, <2>6
<1>2. /\ OverSet' = OverSet
      /\ Cardinality(UnderwaySet("2xx")') =
           Cardinality(UnderwaySet("2xx")) + (IF "2xx" = class THEN 1 ELSE 0)
      /\ Cardinality(UnderwaySet("4xx")') =
           Cardinality(UnderwaySet("4xx")) + (IF "4xx" = class THEN 1 ELSE 0)
  BY <1>1, AnswersCount
<1>3. StoredSet' = StoredSet
  BY <1>1 DEF Runless, StoredSet
<1>4. counters \in [Counters -> Nat]
      /\ \A c \in Counters : counters'[c] = counters[c] + (IF c \in counted THEN 1 ELSE 0)
  BY <1>1, IncrCounts DEF Whole, TypeOK, Answers
<1>5. Sums(counters, Cardinality(OverSet), Cardinality(UnderwaySet("2xx")),
           Cardinality(UnderwaySet("4xx")), Cardinality(StoredSet))
  BY AddUpIsSums DEF Whole
<1>6. CountersAddUp'
  <2>1. /\ Cardinality(OverSet) \in Nat /\ Cardinality(StoredSet) \in Nat
        /\ Cardinality(UnderwaySet("2xx")) \in Nat /\ Cardinality(UnderwaySet("4xx")) \in Nat
    BY CardsAreNumbers DEF Whole
  <2>2. Sums(counters', Cardinality(OverSet), Cardinality(UnderwaySet("2xx")'),
             Cardinality(UnderwaySet("4xx")'), Cardinality(StoredSet))
    BY <1>1, <1>2, <1>4, <1>5, <2>1, CountersAre DEF Sums
  <2> QED
    BY <1>2, <1>3, <2>2, AddUpIsSums
<1>7. TypeOK' /\ Posted' /\ Finite'
  BY <1>1, RunlessType
<1> QED
  BY <1>6, <1>7

\* The sums, where nothing that they count changes.
LEMMA NothingCounted ==
  ASSUME Whole, UNCHANGED counters, OverSet' = OverSet, StoredSet' = StoredSet,
         UnderwaySet("2xx")' = UnderwaySet("2xx"), UnderwaySet("4xx")' = UnderwaySet("4xx")
  PROVE  CountersAddUp'
BY AddUpIsSums DEF Whole

\* A request that begins: over at once, or to be handled.
LEMMA BeginsKeeps ==
  ASSUME Whole, Inv', NEW q \in Reqs, Arrive(q) \/ TooLarge(q)
  PROVE  TypeOK' /\ Posted' /\ Finite' /\ CountersAddUp'
<1>1. /\ at[q] = "absent" /\ at'[q] \in {"handling", "over"}
      /\ \A p \in Reqs \ {q} : at'[p] = at[p]
      /\ UNCHANGED <<status, live, record, urls, asked, lines>>
  BY DEF Whole, TypeOK, Arrive, TooLarge
<1>2. counters' \in [Counters -> Nat]
  BY IncrCounts DEF Whole, TypeOK, Arrive, TooLarge
<1>3. TypeOK' /\ Posted'
  <2>1. Typed'
    BY DEF Inv
  <2>2. Posted'
    BY <1>1 DEF Whole, Posted
  <2>3. TypeOK'
    BY <1>1, <1>2, <2>1 DEF Whole, TypeOK, Typed
  <2> QED
    BY <2>2, <2>3
<1>4. Finite'
  <2>1. {p \in Reqs : at'[p] # "absent"} = {p \in Reqs : at[p] # "absent"} \cup {q}
    BY <1>1
  <2> QED
    BY <1>1, <2>1, FS_AddElement DEF Whole, Finite
<1>5. StoredSet' = StoredSet /\ \A c : UnderwaySet(c)' = UnderwaySet(c)
  BY <1>1 DEF StoredSet, UnderwaySet
<1>6. CASE Arrive(q)
  <2>1. at'[q] = "handling" /\ UNCHANGED counters
    BY <1>6 DEF Arrive, Whole, TypeOK
  <2>2. OverSet' = OverSet
    BY <1>1, <2>1 DEF OverSet
  <2> QED
    BY <1>3, <1>4, <1>5, <2>1, <2>2, NothingCounted
<1>7. CASE TooLarge(q)
  <2>1. at'[q] = "over" /\ Incr({"requests_too_large"})
    BY <1>7 DEF TooLarge, Whole, TypeOK
  <2>2. OverSet' = OverSet \cup {q} /\ q \notin OverSet
    BY <1>1, <2>1 DEF OverSet
  <2>3. Cardinality(OverSet') = Cardinality(OverSet) + 1
    BY <2>2, SetsAreFinite, FS_AddElement DEF Whole
  <2>4. \A c \in Counters :
          counters'[c] = counters[c] + (IF c \in {"requests_too_large"} THEN 1 ELSE 0)
    BY <2>1, IncrCounts DEF Whole, TypeOK
  <2>5. counters \in [Counters -> Nat]
    BY DEF Whole, TypeOK
  <2>6. Sums(counters, Cardinality(OverSet), Cardinality(UnderwaySet("2xx")),
             Cardinality(UnderwaySet("4xx")), Cardinality(StoredSet))
    BY AddUpIsSums DEF Whole
  <2>7. Sums(counters', Cardinality(OverSet'), Cardinality(UnderwaySet("2xx")),
             Cardinality(UnderwaySet("4xx")), Cardinality(StoredSet))
    BY <2>3, <2>4, <2>5, <2>6, CardsAreNumbers, CountersAre DEF Sums, Whole
  <2> QED
    BY <1>3, <1>4, <1>5, <2>7, AddUpIsSums
<1> QED
  BY <1>6, <1>7

\* A run that starts works on what was made of a list that was accepted.
LEMMA AcceptCounts ==
  ASSUME Whole, Inv', NEW q \in Reqs, NEW r \in Runs, Accept(q, r)
  PROVE  TypeOK' /\ Posted' /\ Finite' /\ CountersAddUp'
<1>1. /\ Answers(q, "2xx", {"queued"}, {"runs_started"})
      /\ {"queued"} \in SUBSET Kinds /\ "2xx" \in Classes
  BY DEF Accept, Kinds, Classes
<1>2. /\ record[r] = NoId /\ record' = [record EXCEPT ![r] = id[q]]
      /\ live' = live \cup {r}
  BY DEF Accept
<1>3. id[q] # NoId /\ record \in [Runs -> Ids \cup {NoId}]
  BY <1>1, RequestAssumption DEF Whole, Inv, Served, Typed, Answers
<1>4. PICK raw \in Lists : /\ ~ListRejected(raw)
                           /\ asked' = [asked EXCEPT ![r] = raw]
                           /\ urls' = [urls EXCEPT ![r] = NormaliseMany(raw)]
  BY DEF Accept
<1>5. raw \in Seq(Url) /\ NormaliseMany(raw) \in Seq(Url)
  BY <1>4, RequestAssumption, NormaliseManyNormalises
<1>6. /\ asked \in [Runs -> Seq(Url)] /\ urls \in [Runs -> Seq(Url)] /\ live \subseteq Runs
  BY DEF Whole, TypeOK
<1>7. asked' \in [Runs -> Seq(Url)] /\ urls' \in [Runs -> Seq(Url)]
  BY <1>4, <1>5, <1>6
<1>8. counters' \in [Counters -> Nat]
      /\ \A c \in Counters : counters'[c] = counters[c] + (IF c \in {"runs_started"} THEN 1 ELSE 0)
  BY <1>1, IncrCounts DEF Whole, TypeOK, Answers
<1>9. TypeOK'
  <2>1. Typed'
    BY DEF Inv
  <2> QED
    BY <1>1, <1>7, <1>8, <2>1, AnswersCount
    DEF TypeOK, Typed, Statuses, LineType, Kinds
<1>10. Posted'
  <2>1. \A p \in Reqs : at'[p] = "answered" => status'[p] \in Classes
    BY <1>1, AnswersCount
  <2>2. ASSUME NEW s \in live'
        PROVE  /\ asked'[s] \in Lists /\ ~ListRejected(asked'[s])
               /\ urls'[s] = NormaliseMany(asked'[s])
    <3>1. CASE s = r
      BY <1>4, <1>6, <3>1
    <3>2. CASE s # r
      <4>1. s \in live /\ s \in Runs /\ asked'[s] = asked[s] /\ urls'[s] = urls[s]
        BY <1>2, <1>4, <1>6, <3>2
      <4> QED
        BY <4>1 DEF Whole, Posted
    <3> QED
      BY <3>1, <3>2
  <2> QED
    BY <2>1, <2>2 DEF Posted
<1>11. StoredSet' = StoredSet \cup {r} /\ r \notin StoredSet
  BY <1>2, <1>3 DEF StoredSet
<1>12. IsFiniteSet(StoredSet') /\ Cardinality(StoredSet') = Cardinality(StoredSet) + 1
  BY <1>11, SetsAreFinite, FS_AddElement DEF Whole
<1>13. Finite'
  BY <1>1, <1>12, AnswersCount DEF Finite, StoredSet
<1>14. CountersAddUp'
  <2>1. /\ OverSet' = OverSet
        /\ Cardinality(UnderwaySet("2xx")') = Cardinality(UnderwaySet("2xx")) + 1
        /\ Cardinality(UnderwaySet("4xx")') = Cardinality(UnderwaySet("4xx"))
    <3>1. /\ Cardinality(UnderwaySet("2xx")) \in Nat
          /\ Cardinality(UnderwaySet("4xx")) \in Nat
      BY CardsAreNumbers DEF Whole
    <3>2. /\ OverSet' = OverSet
          /\ \A c \in {"2xx", "4xx"} :
               Cardinality(UnderwaySet(c)') =
                 Cardinality(UnderwaySet(c)) + (IF c = "2xx" THEN 1 ELSE 0)
      BY <1>1, AnswersCount
    <3> QED
      BY <3>1, <3>2
  <2>2. counters \in [Counters -> Nat]
    BY DEF Whole, TypeOK
  <2>3. Sums(counters, Cardinality(OverSet), Cardinality(UnderwaySet("2xx")),
             Cardinality(UnderwaySet("4xx")), Cardinality(StoredSet))
    BY AddUpIsSums DEF Whole
  <2>4. Sums(counters', Cardinality(OverSet), Cardinality(UnderwaySet("2xx")'),
             Cardinality(UnderwaySet("4xx")'), Cardinality(StoredSet'))
    BY <1>8, <1>12, <2>1, <2>2, <2>3, CardsAreNumbers, CountersAre DEF Sums, Whole
  <2> QED
    BY <2>1, <2>4, AddUpIsSums
<1> QED
  BY <1>9, <1>10, <1>13, <1>14

\* A handler that raises has neither answered nor counted.
LEMMA RaisesCounts ==
  ASSUME Whole, Inv', NEW q \in Reqs, Raises(q)
  PROVE  TypeOK' /\ Posted' /\ Finite' /\ CountersAddUp'
<1>1. /\ at[q] = "handling" /\ at'[q] = "raised"
      /\ \A p \in Reqs \ {q} : at'[p] = at[p]
      /\ UNCHANGED <<id, status, ctx, counters, live, record, urls, asked, lines>>
  BY DEF Whole, TypeOK, Raises
<1>2. Typed'
  BY DEF Inv
<1>3. TypeOK' /\ Posted'
  BY <1>1, <1>2 DEF Whole, TypeOK, Typed, Posted
<1>4. {p \in Reqs : at'[p] # "absent"} = {p \in Reqs : at[p] # "absent"}
  BY <1>1
<1>5. Finite'
  BY <1>1, <1>4 DEF Whole, Finite
<1>6. OverSet' = OverSet /\ StoredSet' = StoredSet /\ \A c : UnderwaySet(c)' = UnderwaySet(c)
  BY <1>1 DEF OverSet, StoredSet, UnderwaySet
<1> QED
  BY <1>1, <1>3, <1>5, <1>6, NothingCounted

\* The end of a request is what counts it, and its answer.
LEMMA OverCounts ==
  ASSUME Whole, Inv', NEW q \in Reqs, Reply(q) \/ Fail(q)
  PROVE  TypeOK' /\ Posted' /\ Finite' /\ CountersAddUp'
<1>1. /\ at[q] \in {"answered", "raised"} /\ at'[q] = "over"
      /\ \A p \in Reqs \ {q} : at'[p] = at[p] /\ status'[p] = status[p]
      /\ status' \in [Reqs -> Statuses]
      /\ UNCHANGED <<id, live, record, urls, asked>>
  BY DEF Whole, TypeOK, Reply, Fail, Statuses, Classes
<1>2. Typed' /\ Typed
  BY DEF Whole, Inv
<1>3. /\ ctx[<<q, "middleware">>] \in Context /\ ctx'[<<q, "middleware">>] \in Context
      /\ lines \subseteq LineType
  BY <1>2, TasksDiffer DEF Typed, Whole, TypeOK, LineType, Kinds
<1>4. lines' \subseteq LineType
  <2>1. "access" \in Kinds /\ "failed" \in Kinds /\ "unhandled" \in Kinds
    BY DEF Kinds
  <2> QED
    BY <1>3, <2>1, LineTyped DEF Reply, Fail
<1>5. counters \in [Counters -> Nat] /\ counters' \in [Counters -> Nat]
  BY IncrCounts DEF Whole, TypeOK, Reply, Fail
<1>6. TypeOK'
  BY <1>1, <1>2, <1>4, <1>5 DEF Whole, TypeOK, Typed, Statuses, LineType, Kinds
<1>7. Posted'
  BY <1>1 DEF Whole, Posted
<1>8. {p \in Reqs : at'[p] # "absent"} = {p \in Reqs : at[p] # "absent"}
  BY <1>1
<1>9. Finite'
  BY <1>1, <1>8 DEF Whole, Finite
<1>10. OverSet' = OverSet \cup {q} /\ q \notin OverSet /\ StoredSet' = StoredSet
  BY <1>1 DEF OverSet, StoredSet
<1>11. Cardinality(OverSet') = Cardinality(OverSet) + 1
  BY <1>10, SetsAreFinite, FS_AddElement DEF Whole
<1>12. Sums(counters, Cardinality(OverSet), Cardinality(UnderwaySet("2xx")),
            Cardinality(UnderwaySet("4xx")), Cardinality(StoredSet))
  BY AddUpIsSums DEF Whole
<1>13. CASE Reply(q)
  <2>1. at[q] = "answered" /\ status' = status /\ status[q] \in {"2xx", "3xx", "4xx", "5xx"}
    BY <1>13 DEF Reply, Whole, Posted, Classes
  <2>2. \A c \in Counters : counters'[c] =
          counters[c] + (IF c \in {"requests_total", ResponsesOf(status[q])} THEN 1 ELSE 0)
    BY <1>5, <1>13, IncrCounts DEF Reply
  <2>3. /\ status[q] = "2xx" => ResponsesOf(status[q]) = "responses_2xx"
        /\ status[q] = "3xx" => ResponsesOf(status[q]) = "responses_3xx"
        /\ status[q] = "4xx" => ResponsesOf(status[q]) = "responses_4xx"
        /\ status[q] = "5xx" => ResponsesOf(status[q]) = "responses_5xx"
    BY DEF ResponsesOf
  <2>4. ASSUME NEW c \in {"2xx", "4xx"}
        PROVE  Cardinality(UnderwaySet(c)') =
                 Cardinality(UnderwaySet(c)) - (IF c = status[q] THEN 1 ELSE 0)
    <3>1. IsFiniteSet(UnderwaySet(c)) /\ Cardinality(UnderwaySet(c)) \in Nat
      BY SetsAreFinite, FS_CardinalityType DEF Whole
    <3>2. UnderwaySet(c)' = UnderwaySet(c) \ {q}
      BY <1>1, <2>1 DEF UnderwaySet
    <3>3. q \in UnderwaySet(c) <=> c = status[q]
      BY <2>1 DEF UnderwaySet
    <3>4. Cardinality(UnderwaySet(c) \ {q}) =
            IF q \in UnderwaySet(c) THEN Cardinality(UnderwaySet(c)) - 1
                                    ELSE Cardinality(UnderwaySet(c))
      BY <3>1, FS_RemoveElement
    <3> HIDE DEF UnderwaySet
    <3> QED
      BY <3>1, <3>2, <3>3, <3>4
  <2>5. /\ Cardinality(UnderwaySet("2xx")') =
             Cardinality(UnderwaySet("2xx")) - (IF "2xx" = status[q] THEN 1 ELSE 0)
        /\ Cardinality(UnderwaySet("4xx")') =
             Cardinality(UnderwaySet("4xx")) - (IF "4xx" = status[q] THEN 1 ELSE 0)
    BY <2>4
  <2> DEFINE of(class) == IF class = status[q] THEN 1 ELSE 0
  <2>6. /\ counters'["requests_total"] = counters["requests_total"] + 1
        /\ counters'["responses_2xx"] = counters["responses_2xx"] + of("2xx")
        /\ counters'["responses_3xx"] = counters["responses_3xx"] + of("3xx")
        /\ counters'["responses_4xx"] = counters["responses_4xx"] + of("4xx")
        /\ counters'["responses_5xx"] = counters["responses_5xx"] + of("5xx")
    BY <1>5, <2>1, <2>2, <2>3, CountersAre
  <2>7. ASSUME NEW c \in Others PROVE counters'[c] = counters[c]
    <3>1. c \in Counters /\ c \notin {"requests_total", ResponsesOf(status[q])}
      BY <2>1, <2>3 DEF Others, Counters
    <3> QED
      BY <1>5, <2>2, <3>1
  <2>8. of("2xx") + of("3xx") + of("4xx") + of("5xx") = 1
    BY <2>1
  <2>9. of("2xx") \in Int /\ of("3xx") \in Int /\ of("4xx") \in Int /\ of("5xx") \in Int
    OBVIOUS
  <2>10. /\ Cardinality(UnderwaySet("2xx")') = Cardinality(UnderwaySet("2xx")) - of("2xx")
         /\ Cardinality(UnderwaySet("4xx")') = Cardinality(UnderwaySet("4xx")) - of("4xx")
    BY <2>5
  <2> HIDE DEF of
  <2>11. /\ Cardinality(OverSet) \in Nat /\ Cardinality(StoredSet) \in Nat
         /\ Cardinality(UnderwaySet("2xx")) \in Nat /\ Cardinality(UnderwaySet("4xx")) \in Nat
    BY CardsAreNumbers DEF Whole
  <2>12. Sums(counters', Cardinality(OverSet) + 1, Cardinality(UnderwaySet("2xx")) - of("2xx"),
              Cardinality(UnderwaySet("4xx")) - of("4xx"), Cardinality(StoredSet))
    <3> HIDE DEF UnderwaySet, OverSet, StoredSet
    <3> QED
      BY <1>5, <1>12, <2>6, <2>7, <2>8, <2>9, <2>11, OneMoreAnswer
  <2>13. Sums(counters', Cardinality(OverSet'), Cardinality(UnderwaySet("2xx")'),
              Cardinality(UnderwaySet("4xx")'), Cardinality(StoredSet))
    BY <1>11, <2>10, <2>12
  <2> QED
    BY <1>6, <1>7, <1>9, <1>10, <2>13, AddUpIsSums
<1>14. CASE Fail(q)
  <2>1. at[q] = "raised" /\ Incr({"requests_failed"})
    BY <1>14 DEF Fail
  <2>2. \A c \in Counters :
          counters'[c] = counters[c] + (IF c \in {"requests_failed"} THEN 1 ELSE 0)
    BY <1>5, <2>1, IncrCounts
  <2>3. \A c : UnderwaySet(c)' = UnderwaySet(c)
    BY <1>1, <2>1 DEF UnderwaySet
  <2>4. Sums(counters', Cardinality(OverSet'), Cardinality(UnderwaySet("2xx")),
             Cardinality(UnderwaySet("4xx")), Cardinality(StoredSet))
    BY <1>5, <1>11, <1>12, <2>2, CardsAreNumbers, CountersAre DEF Sums, Whole
  <2> QED
    BY <1>6, <1>7, <1>9, <1>10, <2>3, <2>4, AddUpIsSums
<1> QED
  BY <1>13, <1>14

\* A run counts nothing, and at its end forgets its list.
LEMMA RunCounts ==
  ASSUME Whole, Inv', NEW r \in Runs, RunLogs(r) \/ RunEnds(r)
  PROVE  TypeOK' /\ Posted' /\ Finite' /\ CountersAddUp'
<1>1. UNCHANGED <<at, id, status, counters, record>>
  BY DEF RunLogs, RunEnds
<1>2. Typed' /\ Typed
  BY DEF Whole, Inv
<1>3. ctx[<<r, "run">>] \in Context /\ lines \subseteq LineType
  BY <1>2, TasksDiffer DEF Typed, Whole, TypeOK, LineType, Kinds
<1>4. lines' \subseteq LineType
  <2>1. "run" \in Kinds /\ "ended" \in Kinds
    BY DEF Kinds
  <2> QED
    BY <1>3, <2>1, LineTyped DEF RunLogs, RunEnds
<1>5. urls \in [Runs -> Seq(Url)] /\ asked \in [Runs -> Seq(Url)] /\ live \subseteq Runs
  BY DEF Whole, TypeOK
<1>6. /\ urls' \in [Runs -> Seq(Url)] /\ asked' \in [Runs -> Seq(Url)]
      /\ \A s \in live' : s \in live /\ urls'[s] = urls[s] /\ asked'[s] = asked[s]
  <2>1. CASE RunLogs(r)
    BY <1>5, <2>1 DEF RunLogs
  <2>2. CASE RunEnds(r)
    <3>1. <<>> \in Seq(Url)
      OBVIOUS
    <3>2. /\ live' = live \ {r} /\ urls' = [urls EXCEPT ![r] = <<>>]
          /\ asked' = [asked EXCEPT ![r] = <<>>]
      BY <2>2 DEF RunEnds
    <3> QED
      BY <1>5, <3>1, <3>2
  <2> QED
    BY <2>1, <2>2
<1>7. TypeOK'
  BY <1>1, <1>2, <1>4, <1>6 DEF Whole, TypeOK, Typed, LineType, Kinds
<1>8. Posted'
  BY <1>1, <1>6 DEF Whole, Posted
<1>9. Finite'
  BY <1>1 DEF Whole, Finite
<1>10. OverSet' = OverSet /\ StoredSet' = StoredSet /\ \A c : UnderwaySet(c)' = UnderwaySet(c)
  BY <1>1 DEF OverSet, StoredSet, UnderwaySet
<1> QED
  BY <1>1, <1>7, <1>8, <1>9, <1>10, NothingCounted

\* The first state.
LEMMA InitWhole == Init => Whole
<1> SUFFICES ASSUME Init PROVE Whole
  OBVIOUS
<1>1. Inv
  BY InitInv
<1>2. TypeOK
  <2>1. <<>> \in Seq(Url)
    OBVIOUS
  <2> QED
    BY <2>1 DEF Init, TypeOK, Context, Nothing
<1>3. Posted
  BY DEF Init, Posted
<1>4. {q \in Reqs : at[q] # "absent"} = {} /\ OverSet = {} /\ StoredSet = {}
      /\ UnderwaySet("2xx") = {} /\ UnderwaySet("4xx") = {}
  BY DEF Init, OverSet, StoredSet, UnderwaySet
<1>5. Finite
  BY <1>4, FS_EmptySet DEF Finite, StoredSet
<1>6. \A c \in Counters : counters[c] = 0
  BY DEF Init
<1>7. Sums(counters, 0, 0, 0, 0)
  BY <1>6, CountersAre DEF Sums
<1>8. CountersAddUp
  BY <1>4, <1>7, AddUpIsSums, FS_EmptySet
<1> QED
  BY <1>1, <1>2, <1>3, <1>5, <1>8 DEF Whole

\* Every step keeps all of it.
LEMMA NextWhole == Whole /\ [Next]_vars => Whole'
<1> SUFFICES ASSUME Whole, [Next]_vars PROVE Whole'
  OBVIOUS
<1>1. Inv'
  BY NextInv DEF Whole
<1> SUFFICES TypeOK' /\ Posted' /\ Finite' /\ CountersAddUp'
  BY <1>1 DEF Whole
<1>2. ASSUME NEW q \in Reqs, Arrive(q) \/ TooLarge(q)
      PROVE  TypeOK' /\ Posted' /\ Finite' /\ CountersAddUp'
  BY <1>1, <1>2, BeginsKeeps
<1>3. ASSUME NEW q \in Reqs,
             \/ Invalid(q) \/ RateLimited(q) \/ AtCapacity(q)
             \/ Replay(q) \/ Cancel(q) \/ Other(q)
      PROVE  TypeOK' /\ Posted' /\ Finite' /\ CountersAddUp'
  BY <1>3, RunlessAddsUp
<1>4. ASSUME NEW q \in Reqs, Raises(q)
      PROVE  TypeOK' /\ Posted' /\ Finite' /\ CountersAddUp'
  BY <1>1, <1>4, RaisesCounts
<1>5. ASSUME NEW q \in Reqs, NEW r \in Runs, Accept(q, r)
      PROVE  TypeOK' /\ Posted' /\ Finite' /\ CountersAddUp'
  BY <1>1, <1>5, AcceptCounts
<1>6. ASSUME NEW q \in Reqs, Reply(q) \/ Fail(q)
      PROVE  TypeOK' /\ Posted' /\ Finite' /\ CountersAddUp'
  BY <1>1, <1>6, OverCounts
<1>7. ASSUME NEW r \in Runs, RunLogs(r) \/ RunEnds(r)
      PROVE  TypeOK' /\ Posted' /\ Finite' /\ CountersAddUp'
  BY <1>1, <1>7, RunCounts
<1>8. ASSUME UNCHANGED vars
      PROVE  TypeOK' /\ Posted' /\ Finite' /\ CountersAddUp'
  <2>1. OverSet' = OverSet /\ StoredSet' = StoredSet /\ \A c : UnderwaySet(c)' = UnderwaySet(c)
    BY <1>8 DEF vars, OverSet, StoredSet, UnderwaySet
  <2>2. CountersAddUp'
    BY <1>8, <2>1, NothingCounted DEF vars
  <2> QED
    BY <1>8, <2>2 DEF vars, Whole, TypeOK, Posted, Finite
<1> QED
  BY <1>2, <1>3, <1>4, <1>5, <1>6, <1>7, <1>8 DEF Next, Handle

\* The variables keep their types: in particular no id that is recorded or logged
\* is longer than 64 characters (request_context, Metrics, start_run).
THEOREM RequestsTyped == Spec => []TypeOK
<1>1. Whole => TypeOK
  BY DEF Whole
<1> QED
  BY InitWhole, NextWhole, <1>1, PTL DEF Spec

\* However requests and runs interleave, GET /metrics adds up (request_context,
\* on_validation_error, start_run, create_run).
THEOREM MetricsAddUp == Spec => []CountersAddUp
<1>1. Whole => CountersAddUp
  BY DEF Whole
<1> QED
  BY InitWhole, NextWhole, <1>1, PTL DEF Spec

\* Whatever lists clients post, a run works on canonical URLs, all of them, each
\* once, in the order of submission (RunRequest, normalise_many, _execute).
THEOREM RunsWorkOnCanonicalLists == Spec => []ListsCanonical
<1>1. Whole => ListsCanonical
  <2> SUFFICES ASSUME Whole, NEW r \in live
               PROVE  LET out == urls[r]
                          submitted == Candidates(asked[r])
                      IN  /\ \A u \in Range(out) : Canonicalise(u) = u /\ (Rejected(u) => TooLong(u))
                          /\ \A k \in 1 .. Len(submitted) :
                               \E u \in Range(out) : SameResource(u, submitted[k])
                          /\ \A i, j \in 1 .. Len(out) :
                               i < j => FirstLike(out[i], submitted) < FirstLike(out[j], submitted)
    BY DEF ListsCanonical
  <2>1. /\ asked[r] \in Seq(Url) /\ ~ListRejected(asked[r])
        /\ urls[r] = NormaliseMany(asked[r])
    BY RequestAssumption DEF Whole, Posted
  <2> QED
    BY <2>1, NormaliseManyNormalises
<1> QED
  BY InitWhole, NextWhole, <1>1, PTL DEF Spec
=============================================================================

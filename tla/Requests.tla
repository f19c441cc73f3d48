------------------------------ MODULE Requests ------------------------------
(***************************************************************************)
(* main.py's middleware and error handlers, the routes they call and the   *)
(* tasks of the runs they start: which context each log line is written    *)
(* in, what is counted, and which URLs a run works on.                     *)
(*                                                                         *)
(* A request is served by two tasks, the middleware's and the one in which *)
(* call_next() runs the handler; a run has a third, that outlives both.    *)
(* All of them interleave on one thread.  A task has context variables of  *)
(* its own, which start as a copy of those of the task that creates it.    *)
(* Which answer a request gets beyond what is tested here depends on the   *)
(* rate limiter and the store, and is left open.                           *)
(***************************************************************************)
EXTENDS Urls

CONSTANTS
  Reqs,      \* requests, each served once
  Runs,
  Headers,   \* values of X-Request-ID, of a client's making or, without one, new
  Ids,       \* those of at most 64 characters
  First64,   \* what the first 64 characters of a header are
  NoId,      \* the default "-" of request_id_var
  NoRun,     \* the default "-" of run_id_var
  Lists,     \* lists of URLs that clients post
  Limit      \* runs admitted at once

ASSUME RequestAssumption ==
  /\ First64 \in [Headers -> Ids]
  /\ NoId \notin Ids /\ NoRun \notin Runs /\ Reqs \cap Runs = {}
  /\ Lists \subseteq Seq(Url)
  /\ Limit \in Nat

VARIABLES
  at,        \* where each request is
  id,        \* request.state.request_id
  status,    \* the class of each answer
  ctx,       \* the context variables of each task
  counters,  \* metrics.counters
  live,      \* runs whose task has not ended
  record,    \* RunRecord.request_id, NoId for a run that does not exist
  urls,      \* the argument of a live run
  asked,     \* history: the list a live run was posted with
  lines      \* history: the lines logged

vars == <<at, id, status, ctx, counters, live, record, urls, asked, lines>>

Tasks == (Reqs \X {"middleware", "handler"}) \cup (Runs \X {"run"})
Context == [request : Ids \cup {NoId}, run : Runs \cup {NoRun}]

Classes == {"2xx", "3xx", "4xx", "5xx"}     \* status_code // 100

Counters == {"requests_total", "responses_2xx", "responses_3xx", "responses_4xx",
             "responses_5xx", "requests_failed", "requests_too_large",
             "requests_invalid", "requests_rate_limited", "runs_rejected_capacity",
             "runs_idempotent_replay", "runs_started"}

Nothing == [request |-> NoId, run |-> NoRun]

Init ==
  /\ at     = [q \in Reqs |-> "absent"]
  /\ id     = [q \in Reqs |-> NoId]
  /\ status = [q \in Reqs |-> "none"]
  /\ ctx    = [t \in Tasks |-> Nothing]
  /\ counters = [c \in Counters |-> 0]
  /\ live = {}
  /\ record = [r \in Runs |-> NoId]
  /\ urls  = [r \in Runs |-> <<>>]
  /\ asked = [r \in Runs |-> <<>>]
  /\ lines = {}

\* The counter of a class of answers.
ResponsesOf(class) ==
  CASE class = "2xx" -> "responses_2xx"
    [] class = "3xx" -> "responses_3xx"
    [] class = "4xx" -> "responses_4xx"
    [] class = "5xx" -> "responses_5xx"

Incr(names) == counters' = [c \in Counters |-> counters[c] + IF c \in names THEN 1 ELSE 0]

\* Mutated form of SetVar: the variable is a global of the module.
SetVarGlobal(c, task, var, value) == [t \in Tasks |-> [c[t] EXCEPT ![var] = value]]

\* ContextVar.set and reset, in the task that calls them.
SetVar(c, task, var, value) == [c EXCEPT ![task][var] = value]

\* Task `from' creates task `to'.
CopyContext(c, from, to) == [c EXCEPT ![to] = c[from]]

\* A line as ContextFilter stamps it; what `extra' says of the ids is overwritten.
Line(about, kind, context) ==
  [about |-> about, kind |-> kind, request |-> context.request, run |-> context.run]

-----------------------------------------------------------------------------
\* Mutated form of RequestId: the header as it comes.
RequestIdWhole(header) == header

\* request_id[:64]
RequestId(header) == First64[header]

\* request_context up to call_next(), which starts the handler.
Arrive(q) ==
  /\ at[q] = "absent"
  /\ \E header \in Headers : id' = [id EXCEPT ![q] = RequestId(header)]
  /\ ctx' = CopyContext(SetVar(ctx, <<q, "middleware">>, "request", id'[q]),
                        <<q, "middleware">>, <<q, "handler">>)
  /\ at' = [at EXCEPT ![q] = "handling"]
  /\ UNCHANGED <<status, counters, live, record, urls, asked, lines>>

\* A declared length beyond max_body_bytes: answered at once with 413.
TooLarge(q) ==
  /\ at[q] = "absent"
  /\ \E header \in Headers : id' = [id EXCEPT ![q] = RequestId(header)]
  /\ ctx' = SetVar(ctx, <<q, "middleware">>, "request", NoId)
  /\ at' = [at EXCEPT ![q] = "over"]
  /\ Incr({"requests_too_large"})
  /\ UNCHANGED <<status, live, record, urls, asked, lines>>

\* The handler of q answers, with lines of the given kinds and what it counts.
Answers(q, class, kinds, counted) ==
  /\ at[q] = "handling"
  /\ at' = [at EXCEPT ![q] = "answered"]
  /\ status' = [status EXCEPT ![q] = class]
  /\ lines' = lines \cup {Line(q, k, ctx[<<q, "handler">>]) : k \in kinds}
  /\ Incr(counted)
  /\ UNCHANGED id

Runless == UNCHANGED <<ctx, live, record, urls, asked>>

\* RunRequest refuses the list, or the prompt, which may go with any list.
Invalid(q) ==
  /\ Answers(q, "4xx", {"invalid"}, {"requests_invalid"})
  /\ Runless

RateLimited(q) ==
  /\ Answers(q, "4xx", {}, {"requests_rate_limited"})
  /\ Runless

AtCapacity(q) ==
  /\ Cardinality(live) >= Limit
  /\ Answers(q, "4xx", {"rejected"}, {"runs_rejected_capacity"})
  /\ Runless

\* The key of q names a run that is stored.
Replay(q) ==
  /\ \E r \in Runs : record[r] # NoId
  /\ Answers(q, "2xx", {"replay"}, {"runs_idempotent_replay"})
  /\ Runless

\* start_run creates a run: its record, its task, and the line "run queued".
Accept(q, r) ==
  /\ record[r] = NoId
  /\ Cardinality(live) < Limit
  /\ Answers(q, "2xx", {"queued"}, {"runs_started"})
  /\ record' = [record EXCEPT ![r] = id[q]]
  /\ live' = live \cup {r}
  /\ \E raw \in Lists :
       /\ ~ListRejected(raw)
       /\ asked' = [asked EXCEPT ![r] = raw]
       /\ urls' = [urls EXCEPT ![r] = NormaliseMany(raw)]
  /\ ctx' = SetVar(CopyContext(ctx, <<q, "handler">>, <<r, "run">>), <<r, "run">>, "run", r)

\* DELETE of a run that is not over; the task learns of it later.
Cancel(q) ==
  /\ live # {}
  /\ Answers(q, "2xx", {"cancelled"}, {})
  /\ Runless

\* GET, health, ready (503 when it is not), an unknown run, a long key, shutdown;
\* the router's redirect of a path that ends in "/" (307).
Other(q) ==
  /\ \E class \in Classes : Answers(q, class, {}, {})
  /\ Runless

Raises(q) ==
  /\ at[q] = "handling"
  /\ at' = [at EXCEPT ![q] = "raised"]
  /\ UNCHANGED <<id, status, ctx, counters, live, record, urls, asked, lines>>

-----------------------------------------------------------------------------
\* request_context after call_next(): the access line is written after reset().
Reply(q) ==
  /\ at[q] = "answered"
  /\ at' = [at EXCEPT ![q] = "over"]
  /\ ctx' = SetVar(ctx, <<q, "middleware">>, "request", NoId)
  /\ Incr({"requests_total", ResponsesOf(status[q])})
  /\ lines' = lines \cup {Line(q, "access", ctx'[<<q, "middleware">>])}
  /\ UNCHANGED <<id, status, live, record, urls, asked>>

\* Mutated form of Fail: the request is counted in `finally'.
FailCounted(q) ==
  /\ at[q] = "raised"
  /\ at' = [at EXCEPT ![q] = "over"]
  /\ status' = [status EXCEPT ![q] = "5xx"]
  /\ Incr({"requests_failed", "requests_total", "responses_5xx"})
  /\ UNCHANGED <<id, ctx, live, record, urls, asked, lines>>

\* call_next() raised: the except and finally branches, then on_unhandled, which
\* Starlette calls outside this middleware.
Fail(q) ==
  /\ at[q] = "raised"
  /\ at' = [at EXCEPT ![q] = "over"]
  /\ status' = [status EXCEPT ![q] = "5xx"]
  /\ Incr({"requests_failed"})
  /\ ctx' = SetVar(ctx, <<q, "middleware">>, "request", NoId)
  /\ lines' = lines \cup {Line(q, "failed", ctx[<<q, "middleware">>]),
                          Line(q, "unhandled", ctx'[<<q, "middleware">>])}
  /\ UNCHANGED <<id, live, record, urls, asked>>

\* A line of the run's task: of the pipeline, of a retry, of the run itself.
RunLogs(r) ==
  /\ r \in live
  /\ lines' = lines \cup {Line(r, "run", ctx[<<r, "run">>])}
  /\ UNCHANGED <<at, id, status, ctx, counters, live, record, urls, asked>>

\* The line that every branch of _execute ends with, and reset().
RunEnds(r) ==
  /\ r \in live
  /\ live' = live \ {r}
  /\ lines' = lines \cup {Line(r, "ended", ctx[<<r, "run">>])}
  /\ ctx' = SetVar(ctx, <<r, "run">>, "run", NoRun)
  /\ urls' = [urls EXCEPT ![r] = <<>>]
  /\ asked' = [asked EXCEPT ![r] = <<>>]
  /\ UNCHANGED <<at, id, status, counters, record>>

Handle(q) ==
  \/ Invalid(q) \/ RateLimited(q) \/ AtCapacity(q) \/ Replay(q) \/ Cancel(q)
  \/ Other(q) \/ Raises(q) \/ \E r \in Runs : Accept(q, r)

Next ==
  \/ \E q \in Reqs : Arrive(q) \/ TooLarge(q) \/ Handle(q) \/ Reply(q) \/ Fail(q)
  \/ \E r \in Runs : RunLogs(r) \/ RunEnds(r)

Spec == Init /\ [][Next]_vars
-----------------------------------------------------------------------------
\* Types of the variables; no id is longer than 64 characters, wherever it goes.
TypeOK ==
  /\ at \in [Reqs -> {"absent", "handling", "answered", "raised", "over"}]
  /\ id \in [Reqs -> Ids \cup {NoId}]
  /\ status \in [Reqs -> Classes \cup {"none"}]
  /\ ctx \in [Tasks -> Context]
  /\ counters \in [Counters -> Nat]
  /\ live \subseteq Runs
  /\ record \in [Runs -> Ids \cup {NoId}]
  /\ urls \in [Runs -> Seq(Url)] /\ asked \in [Runs -> Seq(Url)]
  /\ lines \subseteq
       [about : Reqs \cup Runs,
        kind : {"invalid", "rejected", "replay", "queued", "cancelled", "access",
                "failed", "unhandled", "run", "ended"},
        request : Ids \cup {NoId}, run : Runs \cup {NoRun}]

\* Whatever requests and runs interleave with it, a line of a run carries the
\* run's id and the id on its record, which its request brought, long after that
\* request is over.  A line of a request carries the request's id, or none if it
\* is the access line or that of on_unhandled, and never the id of another
\* request or of another's run (request_context, _execute, ContextFilter).
LinesTraced ==
  \A l \in lines :
    /\ l.about \in Runs => /\ l.run = l.about
                           /\ l.request = record[l.about] /\ l.request # NoId
    /\ l.about \in Reqs =>
         /\ l.request \in {NoId, id[l.about]}
         /\ l.request = NoId => l.kind \in {"access", "unhandled"}
         /\ l.run # NoRun    => record[l.run] = id[l.about]

\* "Correlate every log line and response with one request id" (request_context):
\* every line of a request carries the request's id.
LinesCorrelated == \A l \in lines : l.about \in Reqs => l.request = id[l.about]

Requests(places) == Cardinality({q \in Reqs : at[q] \in places})
Underway(class)  == Cardinality({q \in Reqs : at[q] = "answered" /\ status[q] = class})

\* GET /metrics adds up at any moment: every request that is over was counted
\* once, in one of three ways; the reasons for refusals and the runs account for
\* answers that were given or are on their way; runs_started counts the runs
\* (request_context, on_validation_error, start_run, create_run).
CountersAddUp ==
  /\ counters["requests_total"] = counters["responses_2xx"] + counters["responses_3xx"]
                                    + counters["responses_4xx"] + counters["responses_5xx"]
  /\ counters["requests_total"] + counters["requests_failed"]
       + counters["requests_too_large"] = Requests({"over"})
  /\ counters["requests_invalid"] + counters["requests_rate_limited"]
       + counters["runs_rejected_capacity"] <= counters["responses_4xx"] + Underway("4xx")
  /\ counters["runs_started"] + counters["runs_idempotent_replay"]
       <= counters["responses_2xx"] + Underway("2xx")
  /\ counters["runs_started"] = Cardinality({r \in Runs : record[r] # NoId})

\* The first of the submitted URLs that asks for the same as u.
FirstLike(u, submitted) ==
  CHOOSE k \in 1 .. Len(submitted) :
    /\ SameResource(u, submitted[k])
    /\ \A j \in 1 .. k - 1 : ~SameResource(u, submitted[j])

\* A run works on the canonical forms of the URLs it was posted with: none is
\* lost, none is fetched twice, they keep the order of submission; sending one
\* again changes nothing, unless it has become too long to be accepted
\* (canonicalise, normalise_many, RunRequest).
ListsCanonical ==
  \A r \in live :
    LET out == urls[r]
        submitted == Candidates(asked[r])
    IN  /\ \A u \in Range(out) : Canonicalise(u) = u /\ (Rejected(u) => TooLong(u))
        /\ \A k \in 1 .. Len(submitted) : \E u \in Range(out) : SameResource(u, submitted[k])
        /\ \A i, j \in 1 .. Len(out) :
             i < j => FirstLike(out[i], submitted) < FirstLike(out[j], submitted)
=============================================================================

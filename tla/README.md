# A verification of the research-runs service

This directory models the service in `src/Final_Code` in TLA+, checks the models with TLC on small
instances, and proves theorems about them with TLAPS. The service takes a research prompt and a
list of URLs (`POST /runs`), scrapes the pages, asks an LLM for a brief, and lets the client poll for
the result (`GET /runs/{id}`) or cancel it (`DELETE /runs/{id}`). Everything is kept in the memory of
one process: one asyncio event loop, one pool of worker threads.

Source paths below are relative to `src/Final_Code/backend` unless they start with `src/`.

## 1. Inventory

| Component | State it keeps | Operations | What makes it hard |
| --- | --- | --- | --- |
| Run service, `services/run_service.py` | `_tasks`, `_slots` (a semaphore), `_admitted`, `_executing`, `_shutting_down`, the sweeper task | `start`, `stop`, `create_run`, `_execute`, `_finish`, `_fail`, `cancel`, `_sweep_loop` | DELETE, deadline, result and shutdown race for one task; counters and slots must come back on every path |
| Run store, `services/store.py` | ordered map of records, idempotency map, `evicted_total` | `put`, `get`, `list`, `remember_key`, `lookup_key`, `sweep`, `_enforce_capacity` | three paths remove runs; the TTL, the cap and live runs interact; keys outlive runs |
| Routes, `api/routes.py` | none | `start_run`, `list_runs`, `get_run`, `cancel_run`, `health`, `ready` | order of the calls it makes on the service |
| Retry, `services/retry.py` | the attempt and its last error; threads of the shared pool | `call_with_retry`, `_backoff_delay` | a timeout abandons a thread that goes on running; queueing for a thread counts against the timeout |
| Pipeline, `services/pipeline.py` | per run: page outcomes, the page semaphore | `scrape_all`, `_scrape_one`, `deduplicate`, `build_context`, `synthesise`, `run_pipeline` | partial failure, cancellation through `gather`, budgets |
| Rate limiter, `services/ratelimit.py` | token bucket per client | `check`, `sweep`, `reset` | refill and clamp arithmetic; a map nobody sweeps |
| URL handling, `services/urls.py` | none | `canonicalise`, `normalise_many` | one form for one resource, idempotence, order, the host guard |
| Models, `models.py` | none | validation of a request, serialisation | what is counted and refused before and after normalisation |
| Application, `main.py` | the request id, in a context variable | middleware, error handlers, lifespan | two tasks per request; what a handler sees before and after the context is reset |
| Observability, `observability.py` | counters, a window of durations, two context variables | `incr`, `observe_run_duration`, `snapshot`, `ContextFilter` | counters that must add up on every path; ids on the lines of tasks that interleave |
| Configuration, `config.py` | settings, read once | none | edge values (zero, negative) |
| Stubs, `services/stubs.py` | none | `scrape_page`, `call_llm` | stand-ins for external services |
| Browser client, `src/Final_Code/frontend.html` | `active` session, timers | `startRun`, `poll`, `cancelRun`, `stopRun` | late answers of an earlier session, retries, backoff |

How they interact: the routes call the service synchronously on the event loop; the service creates one task per run;
the task queues for a slot, then awaits the pipeline under the whole-run deadline; the pipeline awaits calls on the
thread pool through `call_with_retry`; the task, the routes and the sweeper share the store. Every request passes the
middleware, which runs the route in a task of its own. The page in the browser talks to the routes over HTTP only. On
the server no lock is taken anywhere: a piece of code without an `await` is atomic.

The properties that make each part correct, and the lines where they are at risk, are the `hazards` of
`PROJECT.json`; each names the properties that cover it, or why none does yet.

## 2. Modules

| Module | Models |
| --- | --- |
| `RunStore` | the store, as pure operators on a store value |
| `RunService` | the service and the route handlers around it, one action per callback of the event loop |
| `RunContract` | what a client may observe of the runs: an abstract specification without tasks, slots or a sweeper |
| `Pipeline` | the pipelines of the runs that are going, their calls with retries, and the shared thread pool |
| `Context` | `deduplicate` and `build_context`, one action per turn of their loops |
| `RateLimit` | the token buckets and the Retry-After header, over an integer clock |
| `Client` | the page of `frontend.html` against a server that keeps `RunContract` |
| `Urls` | which lists of URLs are accepted, and their canonical form, as pure operators |
| `Requests` | the middleware, the error handlers and the routes: context variables, log lines, counters, the URLs of a run |
| `MCRunService`, `MCRateLimit`, `MCContext`, `MCRequests` | symmetry sets and instances for TLC; `Pipeline` and `Client` are checked as they stand |
| `RunStoreProofs` | lemmas: what the store's operations return, and that only concluded runs leave it |
| `RunServiceProofs` | the service's inductive invariant and the theorems about runs, slots and counters |
| `RunServiceStoreProofs` | on top of it: the bounds of the store, that the service implements `RunContract`, and how long a key names its run |
| `PipelineProofs`, `RateLimitProofs`, `ClientProofs`, `RequestsProofs`, `ContextProofs` | the inductive invariants and the theorems about these modules |

`RunService` extends `RunStore` and is shown to implement `RunContract`. To it a pipeline is an await that ends with
one of `Outcomes`, or never; `Pipeline` models the inside of that await for several runs at once, and to it the
service is the environment that begins a run and may cancel it at any moment (`Abort`: DELETE, deadline or shutdown).
What `Pipeline` shows of a run, that it ends by itself or by a cancellation with one of the codes in `Failures`, is
what `RunService` takes for granted. `Context` spells out the pure part of the step `Synthesise` of `Pipeline`.

`RunContract` is used from both sides: `RunService` implements it, and it is the server of `Client`. So what `Client`
shows of the page holds of the page with this service, by way of the contract. `Requests` extends `Urls` and looks at
the same routes as `RunService` from the other end: it leaves open what the service answers and keeps what each answer
logs and counts.

### The run service

*One step is one callback of the loop.* A handler that awaits nothing (`create_run`, `cancel`, `get`) is
one action. The task of a run is split at its awaits: `Start` runs it up to `acquire()`, `Resume` from the
wake-up in `acquire()` to the await of `run_pipeline`, `Conclude` from the end of that await to the end of
`_execute`, `AbandonQueue` is the path of a cancellation that hits the queue. Each of them contains
everything its stretch of code does: leaving the semaphore, the record, the metric, the `finally`.

*The task's place* is `pc`: `scheduled` (created, first step not run), `queued` and `granted` (in
`acquire()`, waiting or already woken), `running` (in the pipeline), `ready` (the pipeline's last await is
over and the task is about to be stepped), `finished`. The gap between `ready` and `Conclude` is where a
DELETE or the deadline meets a result that is already there.

*Cancellation* is asyncio's count of requests, `cancels`. `Cancel` and `StopDrain` add one; so does the
deadline, which also moves `deadline` to `expiring`. On the way out `Verdict` does what `asyncio.timeout()`
does: the error becomes a `TimeoutError` only if the deadline's request is the only one. This is the
`wait_for` of CPython 3.12 and later, which awaits the pipeline in the calling task (the byte code in
the tree is that of 3.14). Up to 3.11 `wait_for` wraps the pipeline in a task of its own and may return a
result although a cancellation arrived; the mutated form `VerdictResultWins` is that behaviour, and TLC
shows that it would break `OutcomeIsFinal`.

*The semaphore* is `free` (its value) and the places `queued` and `granted`. The order of the waiters is the
order in which the tasks were created, because the loop runs new tasks in that order (`Start`).

*Time* is two sets: `aged`, the runs past `run_ttl_s`, and `lapsed`, the keys past `idempotency_ttl_s`. They
grow in any step, the older run first. `RunOutlivesKey` says that a key lapses before its run ages, as with
the default 900 s and 3600 s.

*Records* keep `status`, `error_code` and `by`, the call of `_finish` that stamped `finished_at`. Prompts,
results, messages and logging are left out. `born` is the position in the ordered map.

*Metrics* are kept as `ended`, the one of `runs_done`, `runs_failed` and `runs_cancelled` the run bumped.

*Requests* come from anyone at any time for any run whose id can be known. An id reaches a client with the
answer to its POST, which the loop sends after the first step of the task it scheduled before; hence
`Cancel` does not hit a task at `scheduled`. `stop()` awaits the sweeper before it lists the tasks, and
the sweeper's end is queued behind those first steps: hence the guard of `StopDrain`. These two facts are
what keeps a run from being cancelled before its `try` block is entered, which would leave it at
"running" for ever; they are properties of the loop, not of this code, and are assumed.

*Refused requests* with no effect (shutting down, 404 for an unknown id, 422) are stuttering steps.

### The pipeline and the threads

*A call* is one use of `call_with_retry`: a page of a run, or its LLM call. `place` says where the task that makes
it is suspended: `waiting` (for the page semaphore), `awaiting` (in `wait_for`), `sleeping` (in a backoff), or
done: `settled` or `cancelled`. `tries` is the list of how its attempts ended.

*A job* is a call with the number of an attempt. It is in the executor's `queue`, then on a thread (`working`).
`wait_for` cancels the future of an attempt it gives up: a queued job is withdrawn, a working thread goes on and
its answer is dropped. So a job on a thread may belong to nobody. The queue is a set, taken from in any order:
the executor's own is first-in first-out, but the jobs of a cancelled run disappear from it one by one while
threads take jobs, and no property depends on the order.

*Answer and Deliver* are two steps: the thread hands its answer to the loop, and the task is stepped with it.
Between them the timer may fire (`TimeOut`, then the answer is lost) and the run may be cancelled. Waking the
task of a page, of `gather()` or of the run is merged with what it then does up to its next await. The timer and
the task's step that follows it are one action too.

*A page that cannot be read* (`"malformed"`: not a dict, or content that is not a string) raises after the `try`
of `_scrape_one`, through `gather()`, and ends the run, while the tasks of the other pages go on. These orphans are
part of the model, and `QuietAfterEnd` says that they are the only calls that outlive their run.

*Left out*: the length of a backoff, the KPI row, the end of the executor itself (at shutdown `stop()` cancels the
runs, which `Abort` is, and does not wait for the threads).

### The context and the rate limiter

`Context` keeps of a page its text up to case and white space, the length of its content and the length of the
tags around it. `RateLimit` counts time in ticks (`Second` to a second), tokens in units (`Unit` to a token), and
refills `Refill` units in a tick, so every rational rate can be written down; the rounding of the doubles is left
out. `since[k][t]` is a history variable: the runs a client has started at or after tick `t`. `sweep()` of the
buckets has no caller and `reset()` is called from tests only: they are not actions. The switch
`rate_limit_enabled` is on.

### The page

*A session* is what one click on Run starts; the page keeps one in `active` and hands it to every handler, which
returns if it is no longer the active one. In the model sessions are numbered and `active` is a number.

*A promise and its request are two things.* `posting` and `polling` are the promises the page waits for, `posts` and
`deletions` the requests that are on their way and that the server may serve although the page has timed out or gone
away. An answer is taken from the server's state when the server gets to the request (`ServePost`, `ServeGet`,
`ServeDelete`) and handled later, or lost (`PostFails`, `PollFails`: timeout, network; for a GET a 5xx as well). The page takes every
answer to its POST that is not ok, or names no run, for a refusal (`PostRefused`), that of a gateway in front of the
server included, which may come after the server has admitted the run. A GET changes nothing on
the server, so an abandoned one is dropped.

*Aborting.* `stopRun` clears the timer and aborts the session's controller; the aborted promise settles, finds that
its session is superseded and returns. That is one step, `StopRun`. A DELETE has no session and no signal of the
controller: its promise survives in `deletes`, and this is what `stale_cancel` is about.

*Leaving the page* is `Hide` (`pagehide`): promises go, requests on the wire stay. Coming back, or loading the page
again, is a page without a session, which the next `StartRun` uses.

*Other clients*, the pipelines, the TTL and the cap are `Others`, any step of the contract.

*Left out*: rendering, the length of timers and backoffs (the overall limit is the set `late`), and the form's
validation, but for the fact that it may refuse.

### Requests, their logs and their URLs

*Three tasks, three contexts.* `@app.middleware` runs a request in one task and the route in another, which
`call_next()` creates; `create_run` creates the run's task. Each starts with a copy of its creator's context variables
(`CopyContext`), and `set` and `reset` touch the caller's own (`SetVar`). A run's task therefore has its request's id
for as long as it lives, and resetting the request's does not take it away. A line carries what the context variables
of the task that writes it say (`ContextFilter`).

*Answers.* A step of the route is one action per answer that is counted or logged differently. What the
rate limiter and the store would decide is left open, but for the limit on live runs.

*A URL* is a record of the parts `canonicalise` tells apart. Whether a port is written matters (`NoPort`), and so does
an empty path; a query is carried along unchanged and left out. What is found out by looking at characters, `ipaddress`
included, is a property of the URL (`form`) or of its host (`Private`). The length that is checked is that of the parts
(`Chars`, `PortChars`) and of what is written but not kept (`extra`: a fragment, zeros before a port); canonicalising
changes it, and it is not checked again. `SameResource` is the reference: two URLs whose
requests are the same by scheme, host, port in force, and path.

## 3. Properties and runs

Properties are stated at the end of each module.

| Property | Says | Run |
| --- | --- | --- |
| `TypeOK` (`RunService`) | types; counters never negative | `service_tight` |
| `CountersExact` | `_admitted` and `_executing` equal the live tasks and working pipelines | `service_tight` |
| `RunningMeansLive` | a live run is held as running; nothing stays at running without a task | `service_tight` |
| `RecordFollowsTask` | what may be on record at each place of the task, with the count of cancellations | `service_tight` |
| `StoreBounded` | at most max(cap, admission limit) records | `service_tight` |
| `EvictionsCounted` | `evicted_total` counts every run that left once | `service_tight` |
| `OutcomeIsFinal` | status and code of a terminal run never change | `service_tight` |
| `DrainCancels` | what ends after the drain began ends as cancelled | `service_tight` |
| `LoadBounded` | live tasks within the admission limit, pipelines within the slots | `service_tight` |
| `SlotsConserved` | no slot lost or invented, none idle while a run waits | `service_contract` |
| `ImplementsContract` | the service refines `RunContract` | `service_contract` |
| `KeyNamesOneRun` | a key that has not lapsed never starts a second run | `service_live` |
| `EveryRunEnds` | every admitted run ends | `service_live` |
| `TypeOK` (`Pipeline`) | types; no job of an attempt beyond the last | `pipeline_calls` |
| `NoAnswerLost` | an awaited attempt is queued, on a thread or answered, and only one of these | `pipeline_calls` |
| `LLMGrounded` | the LLM is called only when all pages are decided and one has text | `pipeline_calls` |
| `RetriesJustified` | what is retried, and when a call gives up | `pipeline_calls` |
| `ResultExplained` | the code of a run says what happened to its pages and its LLM call; a page ends a run only if it cannot be read | `pipeline_calls` |
| `ThreadsAccounted` | no thread starts work nobody awaits; a thread left over has a timeout or a cancellation behind it | `pipeline_calls` |
| `ScrapesBounded` | the page semaphore bounds the jobs of a run, but for timed-out attempts | `pipeline_calls` |
| `QuietAfterEnd` | a run that is over has no call that goes on, unless an unreadable page of its own ended it | `pipeline_calls` |
| `EveryPipelineEnds` | every pipeline ends, even if no thread ever answers | `pipeline_calls` |
| `TypeOK` (`RateLimit`) | no bucket is overdrawn or overfull | `rate_burst` |
| `GrantsBounded` | in any stretch of time up to now, at most the burst and the refill | `rate_burst` |
| `RetryAfterHonest` | the header is right to within a second, both ways | `rate_burst` |
| `TypeOK` (`Context`) | types; fingerprints are texts | `context_loops` |
| `FirstOfEach` | the first page of each group of mirrors is kept, in order | `context_loops` |
| `LongestPrefix` | the prompt is the longest prefix of the kept pages that fits | `context_loops` |
| `LengthBounded` | by how much the prompt may exceed the budget | `context_loops` |
| `TypeOK` (`Client`) | types; an answer at hand belongs to a promise that waits for it | `client` |
| `NothingLeftBehind` | an ended session has no timer, POST or GET; the active one has exactly one of them | `client` |
| `MessageIsTrue` | what the page says of a polled run holds on the server, as long as it knows the run, however late the answer | `client` |
| `OneRunPerClick` | a click buys at most one run, and no two clicks share one | `client` |
| `EverySessionEnds` | every session ends, even if the server never answers | `client` |
| `TypeOK` (`Requests`) | types; no id longer than 64 characters gets anywhere | `requests` |
| `LinesTraced` | no line carries the ids of another request or run; which lines may lack an id | `requests` |
| `CountersAddUp` | the counters of `GET /metrics` add up at any moment, over answers of every class | `requests` |
| `ListsCanonical` | a run's URLs are the canonical forms of those posted: none lost, none twice, in order; each is its own canonical form, and refused again only for its length | `requests` |

Four runs show where the code does not do what its comments or tests say.

* `finished_twice` (`RecordIsFinal`). A DELETE writes the terminal record, then the task's own handler writes
  it again: `finished_at` moves. `services/store.py:25` says a terminal run "will never change again" and
  `services/run_service.py:274` calls the second write idempotent; status and code do stay
  (`OutcomeIsFinal`), the timestamp does not. Until the cancellation is delivered a cacheable answer shows a
  timestamp that later answers contradict.
* `evicted_key` (`KeyNamesOneRun`). When the store is at `max_stored_runs`, admitting a run drops the oldest
  finished one although its idempotency key is alive; a retry with that key then starts a second run, which
  `services/run_service.py:124-125` excludes. `service_live` shows that the promise holds while the store
  stays below its cap.
* `stale_cancel` (`MessageIsOfLatest`). `cancelRun` keeps the id of the run but not its session, and its `finally` at
  `src/Final_Code/frontend.html:384` calls `stopRun()` without asking whose session is active by then. If a session
  ends on a poll while its DELETE is under way and the user starts another run, the DELETE's handler stops the new
  session, whose run goes on unwatched, and says "Run cancelled." of the old one. `src/Final_Code/frontend.html:123-124`
  says that starting or stopping a run cannot leave a request behind.
* `uncorrelated_line` (`LinesCorrelated`). The middleware resets the context variable (`main.py:110`) before it writes
  the access line (`:119`), and `ContextFilter` overwrites the id that `extra` gives the line, so it carries "-". So
  does the line of `on_unhandled`. `main.py:80` says "Correlate every log line and response with one request id".
  `LinesTraced` is what holds: no line carries a wrong id.

Smaller disagreements, met while modelling and not run. In the service: `page.get()` and
`.strip()` at `services/pipeline.py:85` are outside the `try`, so a scraper that returns no dict fails the whole run,
although `:53` and `:76` say that no page-level failure raises (`ResultExplained` and `QuietAfterEnd` say what comes of
it, and that no other answer of a page ends a run); `TimeoutExceeded` is raised when the last
attempt timed out, not only when every one did (`services/retry.py:32`); a retry starts while the thread of the
attempt before it is still scraping, so a run may scrape more pages at once than `services/pipeline.py:95-98` says
(`ScrapesBounded` is what holds: only timed-out attempts come on top); if the block of the first page exceeds the
budget the LLM is called with an empty context, though `tests/test_resilience.py:62` says it must not be called with
zero sources; the budget does not count the separators between blocks (by as much as `LengthBounded` says); `sources`
lists every unique page, also those the budget kept from the prompt (`services/pipeline.py:234`); nobody calls
`sweep()` of the rate limiter, so idle buckets stay (`services/ratelimit.py:59`); a client that waits exactly as long
as Retry-After says may be refused once more, because the wait is cut to whole seconds (`api/routes.py:99`).

Around the requests: the line "run queued" names its run in the text only, as `ContextFilter` overwrites the run id
that `extra` gives it with that of the request's context, "-"; the 500 of `on_unhandled` lacks the `X-Request-ID`
header. A 413 and a request that raised are in no `responses_*` counter and not in `requests_total` (`CountersAddUp`
says how they add up). A URL with an empty path and as long as `max_url_chars` is accepted (`services/urls.py:103`),
but the canonical form gains a "/" (`:141`) and is refused when it is posted again; the run `requests` has such a URL,
`ListsCanonical` allows for it, and `OnlyTheSlashExceeds` says that this is the only way, but for host names that
`lower()` makes longer. On the page: "Could not start the run." is also said of a run that was admitted, when a
gateway answers its POST with a 5xx (`src/Final_Code/frontend.html:284-286`); the idempotency key is made afresh by every `startRun`, so it protects a POST the browser itself repeats,
not a second click, although the comment at `src/Final_Code/frontend.html:276-277` names the double submit
(`OneRunPerClick` holds because Run is dead while a session is active); and "Run cancelled." is shown whatever came of
the DELETE.

### Bounds

| Run | Instance | Why it is enough |
| --- | --- | --- |
| `service_tight` | 3 runs, 1 key, 1 slot + 1 place in the queue, cap 1, outcomes ok and internal_error | one run works, one queues, a third meets a refusal or a store beyond its cap with live and finished records; cap, TTL and races meet |
| `service_contract` | 4 runs, no key, 2 slots + 1 place, cap 2, outcome ok | a newcomer meets a free slot while an older waiter has been granted another; two releases race a cancelled waiter; the capacity walk chooses among several finished runs |
| `service_live` | 3 runs, 1 key, 1 slot + 1 place, cap 3, outcome ok | the waiter of a hung run, a key that is used again, and a cap that is not reached |
| `pipeline_calls` | 1 run of 3 pages, 2 at a time, 2 threads, 2 attempts, every kind of answer | one page waits for the semaphore while one retries; hung threads are those of abandoned attempts of the same run, and both may hang for ever |
| `rate_burst` | 2 clients, burst 2, 5 units to a token, 1 a tick, 2 ticks a second, 11 ticks | a full bucket is emptied and refilled past its edge; the rate divides neither the second nor the token |
| `context_loops` | up to 4 pages of 3 texts, contents of 1 and 3, frames of 1 and 2, at most 2 a page, budget 6 | duplicates in every position, truncated and whole pages, blocks that fit after one that does not |
| `client` | 2 runs, cap 1, limit 2, 2 sessions, 2 clicks on cancel, 2 errors in a row | answers and DELETEs of the first session meet the second; the first session's run is evicted by the second's or by another client's; a GET fails before and at the limit |
| `requests` | 3 requests, 2 runs, limit 2, 3 headers of which one is cut, up to 4 URLs of 9 spellings of which at most 3 are allowed, 20 characters to a URL | two runs work while a third request comes; a request ends before, between and after the lines of its run; duplicates under different spellings, a URL at the limit of length and its canonical form, which is over it, a list that is too long |

`Runs`, `Reqs`, `MaxSessions`, `MaxPages` and `Horizon` bound how many runs are ever admitted, requests sent, sessions
started and pages scraped, and how long the clock runs; `MaxClicks` bounds the DELETEs one session has under way;
attempts are bounded by the code itself. Nothing else is bounded, and every state graph is explored to its end. Ids of
runs, requests, clients and texts are interchangeable (the order of runs is data), so the safety runs use symmetry
sets; the liveness runs do not. Cancellation requests per run are not bounded by a constant: a second DELETE is
refused by the code, so there are at most three.

Deadlock checking is off because the systems do stop: after shutdown, when every run has ended and time
has passed, at the horizon, when the prompt is sent, or when the last request or session is over, nothing is left to do.

### Fairness

`EveryRunEnds` assumes weak fairness of `TaskStep(r)` and `DeadlineFires(r)` for each run and of the
two later halves of `stop()`: the loop steps every ready task and fires every timer that is due. Nothing is
assumed of `run_pipeline` (it may hang for ever), of requests, of the sweeper or of the TTLs. That a
cancelled pipeline lets its task go on is part of the action `Conclude`: the awaits inside the pipeline are
futures that a cancellation ends at once, even if a worker thread is still busy.

`EveryPipelineEnds` assumes weak fairness of the task's steps (`CallStep`, `Synthesise`) and of `TimeOut`, for the
same reason. Nothing is assumed of the threads: no job need be taken, none need be answered, and no run need be
cancelled. The timer of an attempt runs from its submission, so time in the queue counts; the mutated form
`OverdueOnThread`, in which it does not, lets hung threads hold a run for ever.

`EverySessionEnds` assumes weak fairness of `PostSettles`, `Poll`, `PollSettles` and `GetsLate` for each session: the
browser fires its timers, every request is answered or runs into its `AbortSignal` timeout, and the clock passes
`OVERALL_TIMEOUT_MS`. Nothing is assumed of the server or the network; the answers may all be lost.

## 4. Theorems

| Theorem | Proves | For every |
| --- | --- | --- |
| `RunServiceProofs!TypeCorrect` | `Spec => []TypeOK` | finite set of runs, set of keys, limits in `Nat` |
| `RunServiceProofs!CountersAreExact` | `Spec => []CountersExact` | |
| `RunServiceProofs!LoadIsBounded` | `Spec => []LoadBounded` | |
| `RunServiceProofs!RunningIsLive` | `Spec => []RunningMeansLive` | |
| `RunServiceProofs!OutcomesAreFinal` | `Spec => OutcomeIsFinal` | |
| `RunServiceProofs!RecordsFollowTasks` | `Spec => []RecordFollowsTask` | |
| `RunServiceProofs!SlotsAreConserved` | `Spec => []SlotsConserved` | |
| `RunServiceProofs!DrainsCancel` | `Spec => DrainCancels` | |
| `RunServiceStoreProofs!StoreIsBounded` | `Spec => []StoreBounded` | |
| `RunServiceStoreProofs!EvictionsAreCounted` | `Spec => []EvictionsCounted` | |
| `RunServiceStoreProofs!ContractIsImplemented` | `Spec => ImplementsContract` | |
| `RunServiceStoreProofs!KeysNameTheirRuns` | a key within its time keeps its run while the store holds that run | the same, if keys lapse before runs age (`RunOutlivesKey`) |
| `RunServiceStoreProofs!KeysNameOneRun` | `Spec /\ RoomForEach => KeyNamesOneRun` | the same, where no run is admitted to a full store (`RoomForEach`) |
| `PipelineProofs!TypeCorrect` | `Spec => []TypeOK` | set of runs, number of pages, threads and attempts, set of answers |
| `PipelineProofs!ThreadsAreAccounted` | `Spec => []ThreadsAccounted` | |
| `PipelineProofs!NoAnswersLost` | `Spec => []NoAnswerLost` | |
| `PipelineProofs!LLMIsGrounded` | `Spec => []LLMGrounded` | |
| `PipelineProofs!RetriesAreJustified` | `Spec => []RetriesJustified` | |
| `PipelineProofs!ResultsAreExplained` | `Spec => []ResultExplained` | |
| `PipelineProofs!ScrapesAreBounded` | `Spec => []ScrapesBounded` | |
| `PipelineProofs!EndsAreQuiet` | `Spec => []QuietAfterEnd` | |
| `RateLimitProofs!TypeCorrect` | `Spec => []TypeOK` | set of clients, burst, rate, horizon |
| `RateLimitProofs!GrantsAreBounded` | `Spec => []GrantsBounded` | |
| `RateLimitProofs!RetryAfterIsHonest` | `Spec => []RetryAfterHonest` | |
| `ContextProofs!TypeCorrect` | `Spec => []TypeOK` | number of pages, set of texts, lengths, budget |
| `ContextProofs!FirstsAreKept` | `Spec => []FirstOfEach` | |
| `ContextProofs!PrefixIsLongest` | `Spec => []LongestPrefix` | |
| `ContextProofs!LengthIsBounded` | `Spec => []LengthBounded` | |
| `ClientProofs!TypeCorrect` | `Spec => []TypeOK` | set of runs, cap, limit, number of sessions, clicks and errors |
| `ClientProofs!NothingIsLeft` | `Spec => []NothingLeftBehind` | |
| `ClientProofs!MessagesAreTrue` | `Spec => []MessageIsTrue` | |
| `ClientProofs!ClicksBuyOneRun` | `Spec => []OneRunPerClick` | |
| `RequestsProofs!LinesAreTraced` | `Spec => []LinesTraced` | set of requests, of runs, of headers, of lists |
| `RequestsProofs!RequestsTyped` | `Spec => []TypeOK` | |
| `RequestsProofs!MetricsAddUp` | `Spec => []CountersAddUp` | |
| `RequestsProofs!RunsWorkOnCanonicalLists` | `Spec => []ListsCanonical` | |
| `RequestsProofs!CanonicalIsSettled` | its canonical form is its own canonical form, asks for the same, and is refused only if it is too long | URL that is accepted |
| `RequestsProofs!OnlyTheSlashExceeds` | its canonical form is at most one character over the limit, and is accepted if the URL has a path | URL that is accepted and whose host `lower()` does not lengthen |
| `RequestsProofs!CanonicalFormsAgree` | two URLs have one canonical form just when they ask for the same | two URLs that are accepted |
| `RequestsProofs!NormaliseManyNormalises` | `normalise_many` returns the canonical forms of what it is given: none lost, none twice, in order; refused only if too long | list that is accepted, of any length |
| `RequestsProofs!NormalisedIsSettled` | the normalised list is its own normalised list, and is refused only if a URL in it is too long | list that is accepted |

Assumptions: `StoreAssumption`, `ServiceAssumption`, `PipelineAssumption`, `RateAssumption`, `ContextAssumption`,
`ClientAssumption`, `UrlAssumption` and `RequestAssumption` (the constants are of
their types, ids and keys are distinct from the "none" values, finitely many runs in the service, at least one page,
positive rates). Limits of the pipeline may be any integers, as in the configuration: the code raises them to one.

*The service.* `TypeOK` is not inductive alone: that `executing - 1` is a natural number needs that `executing` counts
the working runs. So `TypeOK` and `Counts` (the counters, and that free, occupied and granted slots add up) are
carried together; the lemma `WakeMoves` says what waking waiters does to the counts, `CloseCounts` what the tail of a
task does. `OutcomeIsFinal` is not inductive either: nothing in "terminal" says that the task's last branch will
agree. The strengthening is `RecordFollowsTask`: a terminal record on a live task was written by a DELETE, and the
task's count of cancellation requests exceeds what the deadline asked for. Hence `Verdict` is "cancelled"
(`CancelledVerdict`), and the branch taken writes what is on record already (`CloseStores`). The store's side is
`Shrinks` in `RunStoreProofs`: every operation that removes runs removes concluded ones and touches no record. The
second half of `SlotsConserved`, no slot idle while a run waits, is the invariant `NoIdleSlot`; a release gives its
slot to the first waiter, and `Start` queues only behind others or at an empty semaphore. `DrainCancels` needs
`Doomed`: once the drain has begun every live task has a request of cancellation more than its deadline asked for.

*The store and the contract.* A step does one of five things to the store (`StoreStep`): a lookup pops expired runs or
nothing at all, a run concludes, a run is admitted, the sweeper passes, a run ages. `StoreInv` is that the ids are in
the order of admission, which is that of age, with `EvictionsCounted` and `StoreBounded`, neither of which survives a
sweep without the order. The refinement is shown step by step. The hard case is `create_run` at the cap, where the
contract allows only the oldest concluded runs to be forgotten, and no more of them than it takes, while the code
counts and drops expired runs that clients have lost already. The walk of `_enforce_capacity` takes the oldest
finished runs first, so the expired ones, being the oldest (`aged` is closed under "older"), go before any that a
client may still read (`WalkTrims`).

*The keys.* `KeyNamesOneRun` is false of the code: the run `evicted_key` shows it. The theorems say what it takes.
`KeyStep` is the effect of a step on a key: it stays as it was, it is forgotten once it has lapsed, or it is given to
the run that is being admitted, which happens only if `CanReplay` does not hold of it.
With keys that lapse first, a key within its time names no run that is past its own (`Young`); so no lookup and no sweep
can drop that run, and only the cap is left (`KeysNameTheirRuns`). `OnlyOldLeave` is that an admission to a store that
is not full drops nothing but what has aged, as the walk of `_enforce_capacity` has nothing to do (`NothingToDrop`).
So if no run is admitted to a full store, the run of every key within its time is held (`KeysHeld`), and a POST with
the key is answered with it. `RoomForEach` is a condition on the load, not on the code: nothing in the
configuration keeps the store below its cap. The instance of `service_live` meets it.

*The pipeline.* The invariant speaks of one call at a time: `PoolOf` (which jobs of the call are in the pool),
`AnswerHeld` and `TriesFit` (how many attempts, and how they ended, at each place). None is inductive alone. That an
answer is not taken for that of a later attempt needs that a job left on a thread carries the number of an attempt
that timed out (`PoolOf`); that the submission of a retry finds no other job of the call needs the same; and that the
numbers stay within the attempts needs `TriesFit`. `OneCall` reduces an action to its own call, since a job belongs to
one call; `AttemptKeeps` is the one hard step. `RunInv` adds that a run that still scrapes has not called the LLM,
which makes `LLMGrounded` survive. `ResultExplained` is carried run by run (`Explained`), with the fact that the
LLM's task gets no answer that cannot be read (`Readable`). `ScrapesBounded` is about a
cardinality: `SemaphoreInv` bounds the pages that hold the semaphore or were cancelled while their job was on a
thread, and the jobs of a run that have not timed out are mapped to these pages one to one. `QuietAfterEnd` is carried run
by run (`Quiet`): a step that leaves the calls and the result of a run alone keeps it (`QuietKept`), and the end of an
attempt either leaves the run going, or is that of its LLM call, when every page is settled (`RunInv`), or is the
answer of an unreadable page, which is then the witness of `BrokenByPage` (`AttemptQuiet`).

*The rate limiter.* `GrantsBounded` does not say what a client may still draw. `Balanced` does: the tokens in the
bucket and what was drawn since any tick up to the last check never exceed a full bucket and the refill since
that tick. A check adds at most the refill, a grant moves one token from one side to the other, and the clamp
only loses tokens. `RetryAfterHonest` is about the header a client holds and the bucket it will find later. `Told` says
that the header is still what the code would compute from the bucket, which nothing but a check of the same client
changes; the rest is arithmetic, and `DivBounds` and `RetryAfterIs` give the two divisions of `RetryAfter` as
inequalities between products, which is the form the solver can use.

*The context.* The invariants are those of the two loops: what is kept are the first ones among the pages passed, in
order, so at most as many as were passed (`Deduplicating`); the chunks are the kept pages so far (`Building`); and
what they take is within the budget and at most a block each (`Spent`).

*The page.* Sessions start in order and one that has not started has nothing (`Ordered`). A POST on the wire has bought
nothing yet and has no answer (`OnTheWire`); an answer to it names the run it bought, if any (`Posts`). An answer to a
GET may be old, but an outcome it tells still holds or the run is gone (`Polls`): of the server the proof uses
only that its steps never change an outcome nor bring back what is gone (`Moved`), which is what the contract promises.

*The requests.* `LinesTraced` follows from `Stamped`, which says of each kind of line just which ids it carries, and
holds because of what is in the contexts: the handler's task has its request's id while
it is served (`Served`), and a live run's task has the run's id and that on its record (`Bound`). The rest is
carried in `Whole`: the contexts, `TypeOK`, `CountersAddUp`, that only accepted lists were posted (`Posted`), and that
finitely many requests and runs have begun (`Finite`). The set of requests may be infinite, but a step begins one at
most, so the cardinalities that `CountersAddUp` equates with the counters are numbers. An answer moves one request from
one set to another and bumps one counter of its class (`RunlessAddsUp`, `AcceptCounts`, `RaisesCounts`); the end of a run
does so for runs (`RunCounts`).

*The lists.* A posted list passes two loops, which are recursive functions of the number of turns: `Candidates` (the
filter of `_check_urls`) drops what is blank, `KeepFirst` (the loop of `normalise_many`) drops a canonical form seen
before. What a loop returns for a list of any length is an
induction over its turns. The library's induction theorems take an operator as a parameter, which the provers cannot
instantiate; the proofs use instead that proper inclusion is well founded on finite sets, a theorem about sets only. A
set of turns that holds a failing one has a least (`LeastMember`), and the loop does on that turn what its body says
(`Loops`, `KeepFirstLoop`). The invariant of the loop is `Kept`: after each turn the list holds the canonical forms of
the URLs passed, each once and in the order of their first spelling. That a list of distinct canonical forms is left as
it is (`KeepFirstOfKept`) and that a canonical form is its own (`CanonicalIsSettled`) make the whole idempotent. All of
this is about URLs that are well formed, that is accepted but for their length (`AcceptedIsWellFormed`,
`WellFormedAgree`), because the length is the one thing a canonical form may be refused for. `OnlyTheSlashExceeds`
compares the lengths part by part: of a canonical form no part is longer than of the URL but the path, which may gain
its "/".

Only model-checked: the three liveness properties `EveryRunEnds`, `EveryPipelineEnds` and `EverySessionEnds`, as
liveness under fairness is out of the prover's reach. The four properties that the code breaks are stated as they are
documented, and TLC refutes them; of `KeyNamesOneRun` the theorems above say when it holds.

## 5. Not modelled, and the plan

Left out for good:

* Parsing and formatting: the address parsing in `urls.py` (which hosts are private is a constant), the shape of error
  envelopes and of serialised records in `models.py`, the form and the rendering of the page.
* `config.py`: settings are the constants of the modules; its coercions are one-line conversions read once.
* `stubs.py`: stand-ins for a scraper and an LLM. The models use what the pipeline expects of them, any answer or none.
* In `observability.py` the window of run durations and its percentiles: one sort of a bounded deque, which nothing else reads.
* The rate limiter's `sweep()` has no caller and `reset()` only tests as callers.
* Crashes: the process keeps nothing across a restart, so there is no recovery to model.

All that the plan named is done: the store, the service, its contract and the refinement; the pipeline and its
threads; the context; the rate limiter; the page against the contract; the requests with their logs, counters and
URLs; and a proof of every safety property that a passing run checks
(of `KeyNamesOneRun` under the condition it needs). What could still be added is an abstract
specification for the rate limiter (a window of grants without buckets) and one for the requests.

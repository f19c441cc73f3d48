------------------------------ MODULE Pipeline ------------------------------
(***************************************************************************)
(* services/pipeline.py and services/retry.py: the pipelines of the runs   *)
(* that are going, with their calls of the scraper and of the LLM on the   *)
(* thread pool that all runs share.                                        *)
(*                                                                         *)
(* A call is one use of call_with_retry: page i of run r is <<r, i>>, its  *)
(* LLM call <<r, LLM>>.  The n-th attempt of a call submits one job to the *)
(* pool.  A thread that has taken a job cannot be interrupted: when the    *)
(* attempt times out or the run is cancelled, the thread goes on for as    *)
(* long as the call takes, perhaps for ever, and its answer is dropped.    *)
(*                                                                         *)
(* Waking the task of a page, of gather() or of the run is merged with     *)
(* what the task then does up to its next await; a timeout and a           *)
(* cancellation may still come between a job's answer and the task that    *)
(* waits for it (Answer, Deliver).                                         *)
(***************************************************************************)
EXTENDS Integers, Sequences, FiniteSets

CONSTANTS
  Runs,             \* runs past the slots of the run service
  NumPages,         \* len(urls), the same for every run
  PageConcurrency,  \* config.page_concurrency
  WorkerThreads,    \* config.worker_threads
  ScrapeAttempts,   \* config.scrape_max_attempts
  LLMAttempts,      \* config.llm_max_attempts
  PageReplies,      \* what scrape_page may return or raise
  LLMReplies        \* what call_llm may return or raise

(***************************************************************************)
(* How an attempt may end: an answer; an answer without any text; an error *)
(* flagged retryable, or not; an exception of another class; no answer in  *)
(* time (a TimeoutError raised by the client is the same); and, from the   *)
(* scraper, a value that is not a dict with a string in it.                *)
(***************************************************************************)
Replies   == {"ok", "empty", "transient", "permanent", "bug", "timeout"}
Retryable == {"transient", "timeout"}

ASSUME PipelineAssumption ==
  /\ NumPages \in Nat \ {0}
  /\ PageConcurrency \in Int
  /\ WorkerThreads \in Int
  /\ ScrapeAttempts \in Int
  /\ LLMAttempts \in Int
  /\ PageReplies \subseteq Replies \cup {"malformed"}
  /\ LLMReplies \subseteq Replies

LLM   == 0
Pages == 1 .. NumPages
Calls == Runs \X (Pages \cup {LLM})

AtLeastOne(n) == IF n > 1 THEN n ELSE 1

Threads     == AtLeastOne(WorkerThreads)
PageSlots   == AtLeastOne(PageConcurrency)
Attempts(c) == AtLeastOne(IF c[2] = LLM THEN LLMAttempts ELSE ScrapeAttempts)

\* What run_pipeline may return or raise.
Failures == {"all_sources_failed", "upstream_timeout", "llm_error",
             "empty_brief", "internal_error", "cancelled"}

VARIABLES
  stage,    \* how far run_pipeline has come for each run
  result,   \* what it returned or raised
  place,    \* where the task that makes a call is suspended
  tries,    \* how the attempts of a call ended so far
  reply,    \* the answer to the current attempt, not yet looked at
  queue,    \* jobs in the executor's queue
  working   \* jobs on a thread

vars == <<stage, result, place, tries, reply, queue, working>>

Places == {"absent", "waiting", "awaiting", "sleeping", "settled", "cancelled"}

\* The calls and the numbers of their attempts.
Jobs == {j \in Calls \X Nat : j[2] \in 1 .. Attempts(j[1])}

TypeOK ==
  /\ stage   \in [Runs -> {"absent", "scraping", "synthesising", "over"}]
  /\ result  \in [Runs -> {"none", "ok"} \cup Failures]
  /\ place   \in [Calls -> Places]
  /\ tries   \in [Calls -> Seq(Replies \cup {"malformed"})]
  /\ reply   \in [Calls -> Replies \cup {"malformed", "none"}]
  /\ queue   \subseteq Jobs
  /\ working \subseteq Jobs

Init ==
  /\ stage   = [r \in Runs |-> "absent"]
  /\ result  = [r \in Runs |-> "none"]
  /\ place   = [c \in Calls |-> "absent"]
  /\ tries   = [c \in Calls |-> <<>>]
  /\ reply   = [c \in Calls |-> "none"]
  /\ queue   = {}
  /\ working = {}

\* The job of the attempt a call is at.
Current(c) == <<c, Len(tries[c]) + 1>>

\* How the last attempt of a call ended.
LastTry(c) == tries[c][Len(tries[c])]

PageOk(c) == place[c] = "settled" /\ LastTry(c) = "ok"

-----------------------------------------------------------------------------
(***************************************************************************)
(* The thread pool.  The order of the queue is left open: the jobs that a  *)
(* cancelled run has queued are withdrawn one by one, and a thread may     *)
(* take a job from the middle of them meanwhile.                           *)
(***************************************************************************)

\* A free thread takes a job.
Take(j) ==
  /\ j \in queue
  /\ Cardinality(working) < Threads
  /\ queue'   = queue \ {j}
  /\ working' = working \cup {j}
  /\ UNCHANGED <<stage, result, place, tries, reply>>

\* Mutated form of Awaited: the answer is for the call, whatever the attempt.
AwaitedByCall(j) == place[j[1]] = "awaiting"

\* Whether a task still waits for this job.
Awaited(j) == place[j[1]] = "awaiting" /\ j = Current(j[1])

\* A thread is done with its job: the answer goes to the task that awaits it,
\* or nowhere.
Answer(j, v) ==
  /\ j \in working
  /\ working' = working \ {j}
  /\ reply' = IF Awaited(j) THEN [reply EXCEPT ![j[1]] = v] ELSE reply
  /\ UNCHANGED <<stage, result, place, tries, queue>>

-----------------------------------------------------------------------------
(***************************************************************************)
(* call_with_retry.                                                        *)
(***************************************************************************)

\* run_in_executor under wait_for: submit a job and await it.
Submit(c) ==
  /\ place' = [place EXCEPT ![c] = "awaiting"]
  /\ queue' = queue \cup {Current(c)}

\* Mutated form of TriesAgain: one attempt too many.
TriesAgainOneMore(c, v) == v \in Retryable /\ Len(tries[c]) < Attempts(c)

\* Mutated form of TriesAgain: every error is retried.
TriesAgainAlways(c, v) == v # "ok" /\ Len(tries[c]) + 1 < Attempts(c)

\* Whether an attempt that ended with v is followed by another one.
TriesAgain(c, v) == v \in Retryable /\ Len(tries[c]) + 1 < Attempts(c)

\* The code a run ends with when its LLM call ends with v.
LLMResult(v) ==
  CASE v = "ok"                        -> "ok"
    [] v = "empty"                     -> "empty_brief"
    [] v = "timeout"                   -> "upstream_timeout"
    [] v \in {"transient", "permanent"} -> "llm_error"
    [] OTHER                           -> "internal_error"

\* What the last attempt of a call means for its run: an LLM call ends the
\* run, a page only if its value cannot be read, which raises out of gather().
Settles(c, v) ==
  /\ place' = [place EXCEPT ![c] = "settled"]
  /\ LET r    == c[1]
         ends == stage[r] # "over" /\ (c[2] = LLM \/ v = "malformed")
     IN  /\ stage'  = IF ends THEN [stage EXCEPT ![r] = "over"] ELSE stage
         /\ result' = IF ends THEN [result EXCEPT ![r] = LLMResult(v)] ELSE result

\* The task learns how the current attempt ended.
AttemptEnds(c, v) ==
  /\ place[c] = "awaiting"
  /\ tries' = [tries EXCEPT ![c] = Append(@, v)]
  /\ reply' = [reply EXCEPT ![c] = "none"]
  /\ IF TriesAgain(c, v)
     THEN place' = [place EXCEPT ![c] = "sleeping"] /\ UNCHANGED <<stage, result>>
     ELSE Settles(c, v)

\* The task is stepped with the answer.
Deliver(c) ==
  /\ reply[c] # "none"
  /\ AttemptEnds(c, reply[c])
  /\ UNCHANGED <<queue, working>>

\* Mutated form of Withdraw: the job stays in the queue, as under shield().
WithdrawNothing(C) == queue

\* Cancelling the futures of the calls C: what no thread has taken is removed.
Withdraw(C) == {j \in queue : j[1] \notin C}

\* Mutated form of Overdue: time in the queue does not count.
OverdueOnThread(c) == place[c] = "awaiting" /\ Current(c) \notin queue

\* timeout_s counts from the submission.
Overdue(c) == place[c] = "awaiting"

\* wait_for gives up on the attempt, even if the answer has just come in.
TimeOut(c) ==
  /\ Overdue(c)
  /\ AttemptEnds(c, "timeout")
  /\ queue' = Withdraw({c})
  /\ UNCHANGED working

\* The backoff is over.
Retry(c) ==
  /\ place[c] = "sleeping"
  /\ Submit(c)
  /\ UNCHANGED <<stage, result, tries, reply, working>>

-----------------------------------------------------------------------------
(***************************************************************************)
(* run_pipeline.                                                           *)
(***************************************************************************)
PagesOf(r) == {<<r, i>> : i \in Pages}

\* Mutated form of Scraping: the semaphore is released during a backoff.
ScrapingAwake(r) == {c \in PagesOf(r) : place[c] = "awaiting"}

\* The pages of a run that hold its page semaphore, in a backoff too.
Scraping(r) == {c \in PagesOf(r) : place[c] \in {"awaiting", "sleeping"}}

\* scrape_all: a semaphore, and a task for each page.
Begin(r) ==
  /\ stage[r] = "absent"
  /\ stage' = [stage EXCEPT ![r] = "scraping"]
  /\ place' = [c \in Calls |-> IF c \in PagesOf(r) THEN "waiting" ELSE place[c]]
  /\ UNCHANGED <<result, tries, reply, queue, working>>

\* A page gets the semaphore, in the order of the URLs.
ScrapeOne(c) ==
  /\ place[c] = "waiting"
  /\ \A q \in PagesOf(c[1]) : place[q] = "waiting" => c[2] <= q[2]
  /\ Cardinality(Scraping(c[1])) < PageSlots
  /\ Submit(c)
  /\ UNCHANGED <<stage, result, tries, reply, working>>

\* Mutated form of Usable: every page that did not raise.
UsableUnread(r) == {c \in PagesOf(r) : LastTry(c) \in {"ok", "empty"}}

\* The pages to synthesise from.
Usable(r) == {c \in PagesOf(r) : PageOk(c)}

\* Mutated form of ScrapeDone: the first page that is there will do.
ScrapeDoneFirst(r) == \E c \in PagesOf(r) : place[c] = "settled"

\* gather() has the outcome of every page.
ScrapeDone(r) == \A c \in PagesOf(r) : place[c] = "settled"

\* From gather() to the LLM call, or to NoUsableSources.
Synthesise(r) ==
  /\ stage[r] = "scraping"
  /\ ScrapeDone(r)
  /\ IF Usable(r) = {}
     THEN /\ stage'  = [stage EXCEPT ![r] = "over"]
          /\ result' = [result EXCEPT ![r] = "all_sources_failed"]
          /\ UNCHANGED <<place, queue>>
     ELSE /\ stage' = [stage EXCEPT ![r] = "synthesising"]
          /\ Submit(<<r, LLM>>)
          /\ UNCHANGED result
  /\ UNCHANGED <<tries, reply, working>>

Active == {"waiting", "awaiting", "sleeping"}

\* Mutated form of Cancelled: the pages are shielded from the cancellation.
CancelledLLM(r) == {c \in {<<r, LLM>>} : place[c] \in Active}

\* The calls that the cancellation of a run reaches: its LLM call, and its
\* pages through gather().
Cancelled(r) == {c \in Calls : c[1] = r /\ place[c] \in Active}

\* DELETE, the whole-run deadline or shutdown cancels the run.
Abort(r) ==
  /\ stage[r] \in {"scraping", "synthesising"}
  /\ stage'  = [stage EXCEPT ![r] = "over"]
  /\ result' = [result EXCEPT ![r] = "cancelled"]
  /\ place' = [c \in Calls |-> IF c \in Cancelled(r) THEN "cancelled" ELSE place[c]]
  /\ reply' = [c \in Calls |-> IF c \in Cancelled(r) THEN "none" ELSE reply[c]]
  /\ queue' = Withdraw(Cancelled(r))
  /\ UNCHANGED <<tries, working>>

\* What a job may answer.
RepliesTo(c) == IF c[2] = LLM THEN LLMReplies ELSE PageReplies

Pool     == \/ \E j \in queue : Take(j)
            \/ \E j \in working : \E v \in RepliesTo(j[1]) : Answer(j, v)
CallStep(c) == ScrapeOne(c) \/ Deliver(c) \/ Retry(c)

Next == \/ Pool
        \/ \E c \in Calls : CallStep(c) \/ TimeOut(c)
        \/ \E r \in Runs : Begin(r) \/ Synthesise(r) \/ Abort(r)

(***************************************************************************)
(* The loop steps the tasks that are ready and fires the timers that are   *)
(* due.  Nothing is assumed of the threads: no job need ever be taken, and *)
(* none need ever be answered.                                             *)
(***************************************************************************)
Fairness == /\ \A c \in Calls : WF_vars(CallStep(c)) /\ WF_vars(TimeOut(c))
            /\ \A r \in Runs : WF_vars(Synthesise(r))

Spec == Init /\ [][Next]_vars
FairSpec == Spec /\ Fairness

-----------------------------------------------------------------------------
(***************************************************************************)
(* Properties.                                                             *)
(***************************************************************************)

\* The attempts of c that timed out so far.
TimedOut(c) == {n \in 1 .. Len(tries[c]) : tries[c][n] = "timeout"}

\* Every job in the pool has a reason to be there.  A queued job is the one
\* its call awaits, so no thread starts work for a run that is over or for an
\* attempt that was given up; and a thread nobody waits for belongs to an
\* attempt that timed out, or to a cancelled run.
ThreadsAccounted ==
  /\ \A j \in queue : place[j[1]] = "awaiting" /\ j = Current(j[1])
  /\ \A j \in working :
       \/ j[2] \in TimedOut(j[1])
       \/ j = Current(j[1]) /\ place[j[1]] \in {"awaiting", "cancelled"}

\* An awaited attempt is in exactly one place: queued, on a thread, or
\* answered.  No answer is lost, none is taken from an earlier attempt, and
\* no retry runs beside a queued attempt of the same call.
NoAnswerLost ==
  \A c \in Calls :
    IF place[c] = "awaiting"
    THEN /\ (Current(c) \in queue) # (Current(c) \in working \/ reply[c] # "none")
         /\ ~(Current(c) \in working /\ reply[c] # "none")
    ELSE reply[c] = "none"

\* The LLM is called only when every page has its outcome and at least one of
\* them has text in it.
LLMGrounded ==
  \A r \in Runs : place[<<r, LLM>>] # "absent" =>
    /\ \A c \in PagesOf(r) : place[c] = "settled"
    /\ \E c \in PagesOf(r) : PageOk(c)

\* Only a timeout or an error flagged retryable is followed by another
\* attempt, and such a failure is final only when the attempts are used up.
RetriesJustified ==
  \A c \in Calls :
    /\ \A n \in 1 .. Len(tries[c]) - 1 : tries[c][n] \in Retryable
    /\ place[c] = "settled" /\ LastTry(c) \in Retryable =>
         Len(tries[c]) = Attempts(c)

\* A page whose value could not be read has taken the run with it.
BrokenByPage(r) ==
  /\ result[r] = "internal_error"
  /\ \E c \in PagesOf(r) : place[c] = "settled" /\ LastTry(c) = "malformed"

\* The code a client reads says what happened to the pages and to the LLM
\* call of the run; a page can only break the run by being unreadable.
ResultExplained ==
  \A r \in Runs :
    LET llm == <<r, LLM>>
        LLMEnded(V) == place[llm] = "settled" /\ LastTry(llm) \in V
    IN  /\ (stage[r] = "over") = (result[r] # "none")
        /\ result[r] = "all_sources_failed" =>
             /\ place[llm] = "absent"
             /\ \A c \in PagesOf(r) : place[c] = "settled" /\ ~PageOk(c)
        /\ result[r] = "ok" => LLMEnded({"ok"})
        /\ result[r] = "upstream_timeout" => LLMEnded({"timeout"})
        /\ result[r] = "llm_error" => LLMEnded({"transient", "permanent"})
        /\ result[r] = "empty_brief" => LLMEnded({"empty"})
        /\ result[r] = "internal_error" => LLMEnded({"bug"}) \/ BrokenByPage(r)

\* Once a run is over no call of it is still going: it scrapes nothing, retries
\* nothing and pays for nothing any more.  There is one end that this is not
\* true of: a page that raises out of gather() leaves the tasks of the other
\* pages at work; but no LLM call, even so (_scrape_one, scrape_all).
QuietAfterEnd ==
  \A c \in Calls : stage[c[1]] = "over" /\ place[c] \in Active =>
    c[2] # LLM /\ BrokenByPage(c[1])

\* Through retries, backoffs and cancellation the pages of a run have no more
\* jobs in the pool than the page semaphore allows, but for the attempts that
\* timed out on a thread.
ScrapesBounded ==
  \A r \in Runs :
    Cardinality({j \in queue \cup working :
                   j[1] \in PagesOf(r) /\ j[2] \notin TimedOut(j[1])}) <= PageSlots

\* Every pipeline ends, even if no thread ever answers and if the threads are
\* all held by calls of other runs.
EveryPipelineEnds ==
  \A r \in Runs : stage[r] \in {"scraping", "synthesising"} ~> stage[r] = "over"
=============================================================================

------------------------------- MODULE Client -------------------------------
(***************************************************************************)
(* The page of frontend.html against a server that keeps RunContract: one  *)
(* browser tab, whose user starts runs one after the other and may cancel  *)
(* them, while other clients use the same server.  A request may be served *)
(* late or never, its answer may be lost, and the server may serve it      *)
(* although the page has given it up.                                      *)
(*                                                                         *)
(* A session is what one click on Run starts; sessions are numbered.  A    *)
(* promise of the page and the request behind it are two things: `posting',*)
(* `polling' and `deletes' are the promises, `posts' and `deletions' the   *)
(* requests still on their way.  A GET changes nothing on the server and   *)
(* is only the promise.  The lengths of timers and backoffs are left out.  *)
(***************************************************************************)
EXTENDS Integers

CONSTANTS
  Runs, Cap, Limit,          \* of the server, as in RunContract
  NoRun,                     \* what session.runId is at first
  MaxSessions,               \* bound: how often Run is clicked
  MaxClicks,                 \* bound: DELETEs of one session under way at once
  MAX_CONSECUTIVE_ERRORS

ASSUME ClientAssumption ==
  /\ NoRun \notin Runs
  /\ MaxSessions \in Nat \ {0} /\ MaxClicks \in Nat /\ MAX_CONSECUTIVE_ERRORS \in Nat

VARIABLES
  view, since, overdue,      \* the server, see RunContract
  active,                    \* the session in `active', 0 for null
  started,                   \* how many sessions there were
  runId,                     \* session.runId
  errorStreak,               \* session.errorStreak
  late,                      \* sessions older than OVERALL_TIMEOUT_MS
  timers,                    \* sessions with a pending session.timer
  posting,                   \* sessions that wait for their POST
  polling,                   \* sessions that wait for their GET
  answers,                   \* answers that reached the page, not handled yet
  deletes,                   \* DELETEs of a session that have not settled
  posts,                     \* sessions whose POST the server may yet serve
  deletions,                 \* runs whose DELETE the server may yet serve
  shown,                     \* the last message on the page, and whose it is
  made                       \* history: the runs admitted for a session's POST

server  == <<view, since, overdue>>
session == <<runId, errorStreak, late>>
pending == <<timers, posting, polling, answers>>
wire    == <<posts, deletions>>
vars    == <<server, active, started, session, pending, deletes, wire, shown, made>>

Server == INSTANCE RunContract

Sessions == 1 .. MaxSessions

Concluded == {"done", "error", "cancelled"}

Replies  == {"accepted", "refused", "running", "gone"} \cup Concluded
Messages == Replies \cup {"none", "invalid", "unreachable", "gave_up",
                          "lost_contact", "deleted"}

Answer(s, what, r) == [of |-> s, says |-> what, run |-> r]
Silence == [of |-> 0, says |-> "none"]

Init ==
  /\ Server!Init
  /\ active = 0 /\ started = 0
  /\ runId = [s \in Sessions |-> NoRun]
  /\ errorStreak = [s \in Sessions |-> 0]
  /\ late = {}
  /\ timers = {} /\ posting = {} /\ polling = {} /\ answers = {}
  /\ deletes = [s \in Sessions |-> 0]
  /\ posts = {} /\ deletions = {}
  /\ shown = Silence
  /\ made = [s \in Sessions |-> {}]

-----------------------------------------------------------------------------
\* Mutated form of StopRun: without clearTimeout().
StopRunTimed ==
  /\ active'  = 0
  /\ posting' = posting \ {active}
  /\ polling' = polling \ {active}
  /\ answers' = {a \in answers : a.of # active}
  /\ UNCHANGED timers

\* stopRun() clears the timer and aborts the request of the active session; the
\* handlers of the aborted promise find that they are superseded and return.
StopRun ==
  /\ active'  = 0
  /\ timers'  = timers \ {active}
  /\ posting' = posting \ {active}
  /\ polling' = polling \ {active}
  /\ answers' = {a \in answers : a.of # active}

Show(s, what) == shown' = [of |-> s, says |-> what]

\* The end of session s with a message, as most handlers have it.
EndWith(s, what) ==
  /\ StopRun
  /\ Show(s, what)
  /\ UNCHANGED <<runId, late>>

\* The handlers of a promise see which it was, and that s is still active.
Settled(promises, s) == s \in promises /\ active = s

Answered(s, what) == \E a \in answers : a.of = s /\ a.says = what

\* A click on Run, or Ctrl+Enter; both are dead while a session is active.
StartRun ==
  /\ active = 0 /\ started < MaxSessions
  /\ LET s == started + 1
     IN  /\ active' = s /\ started' = s
         /\ posting' = posting \cup {s}
         /\ posts' = posts \cup {s}
  /\ shown' = Silence
  /\ UNCHANGED <<server, session, timers, polling, answers, deletes, deletions, made>>

\* The same click on a form that is not valid.
RejectForm ==
  /\ active = 0
  /\ Show(0, "invalid")
  /\ UNCHANGED <<server, active, started, session, pending, deletes, wire, made>>

\* The server gets to a POST: it admits a run, for good, or refuses.  Only a
\* page that still waits gets the answer.
ServePost(s) ==
  /\ s \in posts
  /\ posts' = posts \ {s}
  /\ \/ \E r \in Runs :
          /\ Server!Accept(r)
          /\ made' = [made EXCEPT ![s] = @ \cup {r}]
          /\ answers' = IF s \in posting
                        THEN answers \cup {Answer(s, "accepted", r)} ELSE answers
     \/ /\ answers' = IF s \in posting
                      THEN answers \cup {Answer(s, "refused", NoRun)} ELSE answers
        /\ UNCHANGED <<server, made>>
  /\ UNCHANGED <<active, started, session, timers, posting, polling, deletes,
                 deletions, shown>>

PostAccepted(s) ==
  /\ Settled(posting, s)
  /\ \E a \in answers :
       /\ a.of = s /\ a.says = "accepted"
       /\ runId' = [runId EXCEPT ![s] = a.run]
       /\ answers' = answers \ {a}
  /\ posting' = posting \ {s}
  /\ timers' = timers \cup {s}
  /\ UNCHANGED <<server, active, started, errorStreak, late, polling, deletes,
                 wire, shown, made>>

\* Any answer that is not ok or names no run: the server's refusal, or a 5xx from
\* a gateway, which may come in the place of the answer that a run was admitted.
PostRefused(s) ==
  /\ Settled(posting, s) /\ ~Answered(s, "accepted")
  /\ EndWith(s, "refused")
  /\ UNCHANGED <<server, started, errorStreak, deletes, wire, made>>

\* Mutated form of PostFails: the POST is sent again, with a new key.
PostFailsRetried(s) ==
  /\ Settled(posting, s)
  /\ posts' = posts \cup {s}
  /\ UNCHANGED <<server, active, started, session, pending, deletes, deletions,
                 shown, made>>

\* The POST timed out, or the network failed it: before or after it was served.
PostFails(s) ==
  /\ Settled(posting, s)
  /\ EndWith(s, "unreachable")
  /\ UNCHANGED <<server, started, errorStreak, deletes, wire, made>>

-----------------------------------------------------------------------------
\* Mutated form of GivesUp: no overall limit.
GivesUpNever(s) == FALSE

\* Date.now() - session.startedAt > OVERALL_TIMEOUT_MS
GivesUp(s) == s \in late

\* poll(), when its timer fires.
Poll(s) ==
  /\ s \in timers /\ active = s
  /\ IF GivesUp(s)
     THEN EndWith(s, "gave_up")
     ELSE /\ timers' = timers \ {s}
          /\ polling' = polling \cup {s}
          /\ UNCHANGED <<active, runId, late, posting, answers, shown>>
  /\ UNCHANGED <<server, started, errorStreak, deletes, wire, made>>

\* The server answers the GET with what it holds now.
ServeGet(s) ==
  /\ s \in polling
  /\ \A a \in answers : a.of # s
  /\ answers' = answers \cup {Answer(s, view[runId[s]], runId[s])}
  /\ UNCHANGED <<server, active, started, session, timers, posting, polling,
                 deletes, wire, shown, made>>

\* Mutated form of PollAgain: the answer is left to the next GET.
PollAgainKept(s) ==
  /\ polling' = polling \ {s}
  /\ timers' = timers \cup {s}
  /\ UNCHANGED <<active, runId, late, posting, answers, shown>>

\* schedulePoll() after a GET that has settled.
PollAgain(s) ==
  /\ polling' = polling \ {s}
  /\ answers' = {a \in answers : a.of # s}
  /\ timers' = timers \cup {s}
  /\ UNCHANGED <<active, runId, late, posting, shown>>

PollRunning(s) ==
  /\ Settled(polling, s) /\ Answered(s, "running")
  /\ errorStreak' = [errorStreak EXCEPT ![s] = 0]
  /\ PollAgain(s)
  /\ UNCHANGED <<server, started, deletes, wire, made>>

\* A terminal status (which clears errorStreak too), or a 404 (which does not).
PollEnds(s) ==
  /\ Settled(polling, s)
  /\ \E what \in Concluded \cup {"gone"} :
       /\ Answered(s, what)
       /\ EndWith(s, what)
       /\ errorStreak' = [errorStreak EXCEPT ![s] = IF what = "gone" THEN @ ELSE 0]
  /\ UNCHANGED <<server, started, deletes, wire, made>>

\* The GET timed out, failed, or brought an answer of the 5xx kind.
PollFails(s) ==
  /\ Settled(polling, s)
  /\ errorStreak' = [errorStreak EXCEPT ![s] = @ + 1]
  /\ IF errorStreak[s] + 1 >= MAX_CONSECUTIVE_ERRORS
     THEN EndWith(s, "lost_contact")
     ELSE PollAgain(s)
  /\ UNCHANGED <<server, started, deletes, wire, made>>

GetsLate(s) ==
  /\ active = s /\ s \notin late
  /\ late' = late \cup {s}
  /\ UNCHANGED <<server, active, started, runId, errorStreak, pending, deletes,
                 wire, shown, made>>

-----------------------------------------------------------------------------
\* cancelRun(): the button is there from the run id on, also while a DELETE is
\* under way.  Without an active session it does nothing.
CancelRun(s) ==
  /\ active = s /\ runId[s] # NoRun
  /\ deletes[s] < MaxClicks
  /\ deletes' = [deletes EXCEPT ![s] = @ + 1]
  /\ deletions' = deletions \cup {runId[s]}
  /\ UNCHANGED <<server, active, started, session, pending, posts, shown, made>>

\* The server gets to a DELETE: 404 and 409 leave everything as it is.
ServeDelete(r) ==
  /\ r \in deletions
  /\ deletions' = deletions \ {r}
  /\ IF view[r] = "running"
     THEN Server!Conclude(r) /\ view'[r] \in {"cancelled", "gone"}
     ELSE UNCHANGED server
  /\ UNCHANGED <<active, started, session, pending, deletes, posts, shown, made>>

\* The DELETE of s has settled, one way or another: stopRun(), without asking
\* whose session is active by now.
DeleteSettles(s) ==
  /\ deletes[s] > 0
  /\ deletes' = [deletes EXCEPT ![s] = @ - 1]
  /\ EndWith(s, "deleted")
  /\ UNCHANGED <<server, started, errorStreak, wire, made>>

\* pagehide, after which the page is loaded afresh, if at all: its promises are
\* gone, what is on the wire is not.
Hide ==
  /\ active # 0
  /\ StopRun
  /\ deletes' = [s \in Sessions |-> 0]
  /\ shown' = Silence
  /\ UNCHANGED <<server, started, session, wire, made>>

\* Other clients, the pipelines, the TTL and the cap.
Others ==
  /\ Server!Next
  /\ UNCHANGED <<active, started, session, pending, deletes, wire, shown, made>>

PostSettles(s) == PostAccepted(s) \/ PostRefused(s) \/ PostFails(s)
PollSettles(s) == PollRunning(s) \/ PollEnds(s) \/ PollFails(s)

Page(s) == \/ PostSettles(s) \/ Poll(s) \/ PollSettles(s) \/ GetsLate(s)
           \/ CancelRun(s) \/ DeleteSettles(s)
Serve   == \/ \E s \in Sessions : ServePost(s) \/ ServeGet(s)
           \/ \E r \in Runs : ServeDelete(r)

Next == StartRun \/ RejectForm \/ Hide \/ (\E s \in Sessions : Page(s)) \/ Serve \/ Others

Spec == Init /\ [][Next]_vars

\* Timers fire and requests time out.  Nothing is asked of the server.
FairSpec ==
  /\ Spec
  /\ \A s \in Sessions : /\ WF_vars(PostSettles(s)) /\ WF_vars(PollSettles(s))
                         /\ WF_vars(Poll(s))        /\ WF_vars(GetsLate(s))
-----------------------------------------------------------------------------
\* Types; an answer at hand belongs to a promise that waits for it.
TypeOK ==
  /\ active \in 0 .. MaxSessions /\ started \in 0 .. MaxSessions
  /\ runId \in [Sessions -> Runs \cup {NoRun}]
  /\ errorStreak \in [Sessions -> Nat]
  /\ late \subseteq Sessions /\ timers \subseteq Sessions
  /\ posting \subseteq Sessions /\ polling \subseteq Sessions
  /\ answers \subseteq [of : posting \cup polling, says : Replies,
                        run : Runs \cup {NoRun}]
  /\ deletes \in [Sessions -> 0 .. MaxClicks]
  /\ posts \subseteq Sessions /\ deletions \subseteq Runs
  /\ shown \in [of : 0 .. MaxSessions, says : Messages]
  /\ made \in [Sessions -> SUBSET Runs]

\* Starting or stopping a run leaves no timer and no POST or GET behind, and a
\* session that goes on always has exactly one of them: it neither polls twice
\* nor waits for nothing (stopRun, schedulePoll and every return of poll).
NothingLeftBehind ==
  /\ timers \cup posting \cup polling \subseteq {active}
  /\ active # 0 => /\ active \in timers \cup posting \cup polling
                   /\ timers \cap posting = {}
                   /\ (timers \cup posting) \cap polling = {}

\* What the page says of a run it polled is what the server holds, if it holds
\* the run at all, however old the answer was (poll, and the finality of terminal
\* records).
MessageIsTrue ==
  LET r == runId[shown.of]
  IN  /\ shown.says \in Concluded => view[r] \in {shown.says, "gone"}
      /\ shown.says = "gone"      => view[r] = "gone"

\* A click buys at most one run; once its POST has settled, a session that goes
\* on knows that run; and no two sessions share one.
OneRunPerClick ==
  /\ \A s \in Sessions : \A q, r \in made[s] : q = r
  /\ active # 0 /\ active \notin posting => made[active] = {runId[active]}
  /\ \A s, t \in Sessions : s # t => made[s] \cap made[t] = {}

\* Every session ends, although the server may never answer and the run never
\* finish: timeouts, the limit on errors and the overall limit see to it.
EverySessionEnds == \A s \in Sessions : (active = s) ~> (active # s)

\* "Starting or stopping a run cannot leave a timer or a request behind"
\* (frontend.html, `active'): what the page says is about its latest run.
MessageIsOfLatest == shown.of \in {0, started}
=============================================================================

---------------------------- MODULE ClientProofs ----------------------------
(***************************************************************************)
(* The page's invariants, for any number of sessions, clicks, errors and   *)
(* runs, and any capacity of the server.  What is needed of the server is  *)
(* Moved: it forgets or keeps an outcome, but never changes it.            *)
(***************************************************************************)
EXTENDS Client, TLAPS

Views == {"unknown", "running", "gone"} \cup Concluded

ServerTyped == view \in [Runs -> Views]

\* What a step of the server does to the answers it would give.
Moved ==
  /\ view' \in [Runs -> Views]
  /\ \A r \in Runs : /\ view[r] # "unknown"   => view'[r] # "unknown"
                     /\ view[r] \in Concluded => view'[r] \in {view[r], "gone"}
                     /\ view[r] = "gone"      => view'[r] = "gone"

\* Sessions start in order; a message on the page is there between sessions.
Ordered ==
  /\ active \in {0, started}
  /\ active # 0 => shown = Silence
  /\ \A s \in Sessions : s > started =>
       s \notin posts /\ runId[s] = NoRun /\ made[s] = {}

\* A POST on its way has bought nothing yet and has no answer.
OnTheWire == \A s \in posts : made[s] = {} /\ \A a \in answers : a.of # s

\* The server has heard of what it admitted.
Admitted == \A s \in Sessions : \A r \in made[s] : view[r] # "unknown"

\* The answer to a POST names the run it bought, if it bought one.
Posts ==
  \A a \in answers : a.of \in posting =>
    \/ a.says = "accepted" /\ made[a.of] = {a.run} /\ a.run \in Runs
    \/ a.says = "refused" /\ made[a.of] = {}

\* The answer to a GET may be old, but what it says of an outcome still holds.
Polls ==
  /\ \A a \in answers : a.of \in polling =>
       /\ a.run = runId[a.of] /\ a.run \in Runs
       /\ a.says \in Concluded => view[a.run] \in {a.says, "gone"}
       /\ a.says = "gone" => view[a.run] = "gone"
       /\ a.says \notin {"accepted", "refused"}
  /\ shown.says \in Concluded \cup {"gone"} =>
       shown.of \in Sessions /\ runId[shown.of] \in Runs

Inv == /\ TypeOK /\ ServerTyped /\ Ordered /\ NothingLeftBehind
       /\ OnTheWire /\ Admitted /\ Posts /\ Polls /\ OneRunPerClick /\ MessageIsTrue

\* Forgetting runs takes concluded ones and turns their answers into a 404.
LEMMA ForgetMoves ==
  ASSUME NEW seen \in [Runs -> Views], NEW E \in SUBSET Runs, Server!Trims(seen, E)
  PROVE  /\ Server!Forget(seen, E) \in [Runs -> Views]
         /\ \A r \in Runs :
              \/ Server!Forget(seen, E)[r] = seen[r]
              \/ seen[r] \in Concluded /\ Server!Forget(seen, E)[r] = "gone"
BY DEF Server!Trims, Server!Forget, Server!Concluded, Concluded, Views

\* Admitting r makes it running and leaves every outcome alone.
LEMMA AcceptMoves ==
  ASSUME ServerTyped, NEW r \in Runs, Server!Accept(r)
  PROVE  Moved /\ view[r] = "unknown" /\ view'[r] = "running"
<1> DEFINE seen == [view EXCEPT ![r] = "running"]
<1>1. PICK E \in SUBSET Runs : Server!Trims(seen, E) /\ view' = Server!Forget(seen, E)
  BY DEF Server!Accept
<1>2. seen \in [Runs -> Views]
  BY DEF ServerTyped, Views
<1>3. view[r] = "unknown"
  BY DEF Server!Accept
<1>4. /\ view' \in [Runs -> Views]
      /\ \A q \in Runs : view'[q] = seen[q] \/ (seen[q] \in Concluded /\ view'[q] = "gone")
  <2> HIDE DEF seen
  <2> QED
    BY <1>1, <1>2, ForgetMoves
<1>5. seen[r] = "running" /\ \A q \in Runs \ {r} : seen[q] = view[q]
  BY DEF ServerTyped
<1> HIDE DEF seen
<1>6. view'[r] = "running"
  BY <1>4, <1>5 DEF Concluded
<1>7. \A q \in Runs \ {r} : view'[q] = view[q] \/ (view[q] \in Concluded /\ view'[q] = "gone")
  BY <1>4, <1>5
<1> QED
  BY <1>3, <1>4, <1>6, <1>7 DEF Moved, Concluded

\* A run concludes once.
LEMMA ConcludeMoves ==
  ASSUME ServerTyped, NEW r \in Runs, Server!Conclude(r)
  PROVE  Moved
BY DEF Server!Conclude, Server!Concluded, ServerTyped, Moved, Views, Concluded

\* Every other step of the server.
LEMMA ServerMoves ==
  ASSUME ServerTyped, Server!Next
  PROVE  Moved
<1>1. CASE \E r \in Runs : Server!Accept(r)
  BY <1>1, AcceptMoves
<1>2. CASE \E r \in Runs : Server!Conclude(r)
  BY <1>2, ConcludeMoves
<1>3. CASE \E r \in Runs : Server!Expire(r)
  BY <1>3 DEF Server!Expire, Server!Concluded, ServerTyped, Moved, Views, Concluded
<1>4. CASE Server!Trim
  <2>1. PICK E \in SUBSET Runs : Server!Trims(view, E) /\ view' = Server!Forget(view, E)
    BY <1>4 DEF Server!Trim
  <2> QED
    BY <2>1, ForgetMoves DEF ServerTyped, Moved, Views, Concluded
<1> QED
  BY <1>1, <1>2, <1>3, <1>4 DEF Server!Next

-----------------------------------------------------------------------------
\* Without an active session nothing is pending.
LEMMA IdleHasNothing ==
  ASSUME ClientAssumption, Inv, active = 0
  PROVE  timers = {} /\ posting = {} /\ polling = {} /\ answers = {}
<1>1. timers = {} /\ posting = {} /\ polling = {}
  BY DEF ClientAssumption, Inv, TypeOK, NothingLeftBehind, Sessions
<1>2. answers = {}
  BY <1>1 DEF Inv, TypeOK
<1> QED
  BY <1>1, <1>2

\* A session that is active was started, and has nothing on the page yet.
LEMMA ActiveSession ==
  ASSUME ClientAssumption, Inv, NEW s \in Sessions, active = s
  PROVE  /\ s # 0 /\ s = started /\ shown = Silence
         /\ timers \subseteq {s} /\ posting \subseteq {s} /\ polling \subseteq {s}
         /\ \A a \in answers : a.of = s
<1>1. s # 0 /\ s = started /\ shown = Silence
  BY DEF ClientAssumption, Inv, Ordered, Sessions
<1>2. timers \subseteq {s} /\ posting \subseteq {s} /\ polling \subseteq {s}
  BY DEF Inv, NothingLeftBehind
<1>3. \A a \in answers : a.of = s
  BY <1>2 DEF Inv, TypeOK
<1> QED
  BY <1>1, <1>2, <1>3

\* stopRun() leaves nothing pending at all.
LEMMA StopClears ==
  ASSUME Inv, StopRun
  PROVE  /\ active' = 0
         /\ timers' = {} /\ posting' = {} /\ polling' = {} /\ answers' = {}
BY DEF Inv, TypeOK, NothingLeftBehind, StopRun

\* Every end of a session, with a message that is true or says nothing.
LEMMA EndKeeps ==
  ASSUME ClientAssumption, Inv, StopRun,
         UNCHANGED <<server, started, runId, wire, made>>,
         errorStreak' \in [Sessions -> Nat], late' \subseteq Sessions,
         deletes' \in [Sessions -> 0 .. MaxClicks],
         shown' \in [of : 0 .. MaxSessions, says : Messages],
         shown'.says \in Concluded \cup {"gone"} =>
           /\ shown'.of \in Sessions /\ runId[shown'.of] \in Runs
           /\ view[runId[shown'.of]] \in {shown'.says, "gone"}
  PROVE  Inv'
<1> USE ClientAssumption, StopClears DEF Inv, server, wire
<1>1. TypeOK' /\ ServerTyped' /\ NothingLeftBehind'
  BY DEF TypeOK, ServerTyped, NothingLeftBehind
<1>2. Ordered' /\ OnTheWire' /\ Admitted'
  BY DEF Ordered, OnTheWire, Admitted
<1>3. Posts' /\ Polls'
  BY DEF Posts, Polls
<1>4. OneRunPerClick'
  BY DEF OneRunPerClick
<1>5. MessageIsTrue'
  BY DEF MessageIsTrue
<1> QED
  BY <1>1, <1>2, <1>3, <1>4, <1>5

\* An end that says nothing of the run.
LEMMA ClaimsNothing ==
  ASSUME ClientAssumption, Inv, NEW s \in Sessions,
         NEW what \in {"refused", "unreachable", "gave_up", "lost_contact", "deleted"}, EndWith(s, what),
         UNCHANGED <<server, started, wire, made>>,
         errorStreak' \in [Sessions -> Nat], deletes' \in [Sessions -> 0 .. MaxClicks]
  PROVE  Inv'
<1>1. shown'.of = s /\ shown'.says = what
      /\ shown' \in [of : 0 .. MaxSessions, says : Messages]
  BY DEF EndWith, Show, Messages, Replies, Sessions, ClientAssumption
<1>2. StopRun /\ UNCHANGED runId /\ late' \subseteq Sessions
  BY DEF EndWith, Inv, TypeOK
<1> QED
  BY <1>1, <1>2, EndKeeps DEF Concluded

\* A step of the server that the page has no part in.
LEMMA ServerKeeps ==
  ASSUME Inv, Moved, deletions' \subseteq Runs,
         UNCHANGED <<active, started, session, pending, deletes, posts, shown, made>>
  PROVE  Inv'
<1> USE DEF Inv, session, pending
<1>1. TypeOK' /\ ServerTyped' /\ Ordered' /\ NothingLeftBehind' /\ OnTheWire'
  BY DEF TypeOK, ServerTyped, Moved, Ordered, NothingLeftBehind, OnTheWire
<1>2. Admitted'
  BY DEF TypeOK, Admitted, Moved
<1>3. Posts' /\ OneRunPerClick'
  BY DEF Posts, OneRunPerClick
<1>4. Polls'
  BY DEF TypeOK, Polls, Moved, Concluded
<1>5. MessageIsTrue'
  BY DEF TypeOK, Polls, MessageIsTrue, Moved, Concluded
<1> QED
  BY <1>1, <1>2, <1>3, <1>4, <1>5

\* The next poll of session s is scheduled.
LEMMA AgainKeeps ==
  ASSUME ClientAssumption, Inv, NEW s \in Sessions, Settled(polling, s), PollAgain(s),
         errorStreak' \in [Sessions -> Nat],
         UNCHANGED <<server, started, deletes, wire, made>>
  PROVE  Inv'
<1> USE DEF Inv, server, wire, Settled, PollAgain
<1>1. timers' = {s} /\ posting' = {} /\ polling' = {} /\ answers' = {}
  <2>1. timers = {} /\ posting = {} /\ polling = {s}
    BY ActiveSession DEF NothingLeftBehind
  <2> QED
    BY <2>1, ActiveSession
<1>2. TypeOK' /\ ServerTyped'
  BY <1>1 DEF TypeOK, ServerTyped
<1>3. NothingLeftBehind' /\ Ordered' /\ OnTheWire' /\ Admitted'
  BY <1>1 DEF NothingLeftBehind, Ordered, OnTheWire, Admitted
<1>4. Posts' /\ Polls'
  BY <1>1 DEF Posts, Polls
<1>5. OneRunPerClick' /\ MessageIsTrue'
  BY DEF NothingLeftBehind, OneRunPerClick, MessageIsTrue
<1> QED
  BY <1>2, <1>3, <1>4, <1>5

-----------------------------------------------------------------------------
\* The new session starts from a page on which nothing is pending.
LEMMA StartRunKeeps ==
  ASSUME ClientAssumption, Inv, StartRun
  PROVE  Inv'
<1> DEFINE s == started + 1
<1> USE ClientAssumption DEF Inv, StartRun, server, session
<1>1. /\ s \in Sessions /\ active' = s /\ posting' = {s} /\ timers' = {} /\ polling' = {}
      /\ answers' = {} /\ s \notin posts /\ made[s] = {} /\ runId[s] = NoRun
  <2>1. s \in Sessions /\ s > started
    BY DEF TypeOK, Sessions
  <2> QED
    BY <2>1, IdleHasNothing DEF Ordered
<1> HIDE DEF s
<1>2. TypeOK' /\ ServerTyped' /\ NothingLeftBehind'
  BY <1>1 DEF TypeOK, ServerTyped, NothingLeftBehind, Silence, Messages, Sessions
<1>3. Ordered'
  BY <1>1 DEF TypeOK, Ordered, Sessions, s
<1>4. OnTheWire' /\ Admitted' /\ Posts' /\ Polls'
  BY <1>1 DEF OnTheWire, Admitted, Posts, Polls, Silence, Concluded, s
<1>5. OneRunPerClick' /\ MessageIsTrue'
  BY <1>1 DEF OneRunPerClick, MessageIsTrue, Silence, Concluded
<1> QED
  BY <1>2, <1>3, <1>4, <1>5

\* The server admits a run for the POST, or refuses; the page may have gone on.
LEMMA ServePostKeeps ==
  ASSUME ClientAssumption, Inv, NEW s \in Sessions, ServePost(s)
  PROVE  Inv'
<1> USE ClientAssumption DEF Inv, server, session
<1>1. s \in posts /\ made[s] = {} /\ posts' = posts \ {s} /\ s <= started
  BY DEF ServePost, OnTheWire, Ordered, TypeOK, Sessions
<1>2. UNCHANGED <<active, started, session, timers, posting, polling, deletes, deletions, shown>>
  BY DEF ServePost
<1>3. s \in posting => s \notin polling
  BY DEF NothingLeftBehind, Sessions
<1>4. CASE UNCHANGED <<server, made>> /\ answers' = IF s \in posting
                THEN answers \cup {Answer(s, "refused", NoRun)} ELSE answers
  <2>1. TypeOK' /\ ServerTyped' /\ Ordered' /\ NothingLeftBehind'
    BY <1>1, <1>2, <1>4 DEF TypeOK, ServerTyped, Ordered, NothingLeftBehind, Answer, Replies
  <2>2. OnTheWire' /\ Admitted'
    BY <1>1, <1>2, <1>4 DEF OnTheWire, Admitted, Answer
  <2>3. Posts'
    BY <1>1, <1>2, <1>4 DEF Posts, Answer
  <2>4. Polls'
    BY <1>1, <1>2, <1>4, <1>3 DEF Polls, Answer
  <2>5. OneRunPerClick' /\ MessageIsTrue'
    BY <1>2, <1>4 DEF OneRunPerClick, MessageIsTrue
  <2> QED
    BY <2>1, <2>2, <2>3, <2>4, <2>5
<1>5. ASSUME NEW r \in Runs, Server!Accept(r), made' = [made EXCEPT ![s] = @ \cup {r}],
             answers' = IF s \in posting
                        THEN answers \cup {Answer(s, "accepted", r)} ELSE answers
      PROVE  Inv'
  <2>1. Moved /\ view[r] = "unknown" /\ view'[r] = "running"
    BY <1>5, AcceptMoves
  <2>2. made' \in [Sessions -> SUBSET Runs] /\ made'[s] = {r}
        /\ \A t \in Sessions \ {s} : made'[t] = made[t]
    BY <1>1, <1>5 DEF TypeOK
  <2>3. \A t \in Sessions : r \notin made[t]
    BY <2>1 DEF Admitted
  <2>4. TypeOK' /\ ServerTyped' /\ NothingLeftBehind'
    BY <1>1, <1>2, <1>5, <2>1, <2>2 DEF TypeOK, ServerTyped, Moved, NothingLeftBehind, Answer, Replies
  <2>5. Ordered'
    BY <1>1, <1>2, <2>2 DEF Ordered, TypeOK, Sessions
  <2>6. OnTheWire'
    BY <1>1, <1>2, <1>5, <2>2 DEF OnTheWire, TypeOK, Answer
  <2>7. Admitted'
    BY <2>1, <2>2 DEF Admitted, Moved, TypeOK
  <2>8. Posts'
    BY <1>1, <1>2, <1>5, <2>2 DEF Posts, OnTheWire, TypeOK, NothingLeftBehind, Answer
  <2>9. Polls'
    BY <1>1, <1>2, <1>5, <1>3, <2>1 DEF Polls, Moved, Concluded, Answer, TypeOK
  <2>10. OneRunPerClick'
    <3>1. \A t \in Sessions : \A p, q \in made'[t] : p = q
      BY <2>2 DEF OneRunPerClick
    <3>2. active # 0 /\ active \notin posting => active # s
      BY <1>1, <2>2 DEF OneRunPerClick, OnTheWire
    <3>3. active # 0 /\ active \notin posting => made'[active] = {runId[active]}
      BY <2>2, <3>2 DEF OneRunPerClick, TypeOK, Sessions
    <3>4. \A t, u \in Sessions : t # u => made'[t] \cap made'[u] = {}
      BY <2>2, <2>3 DEF OneRunPerClick
    <3> QED
      BY <1>2, <3>1, <3>3, <3>4 DEF OneRunPerClick
  <2>11. MessageIsTrue'
    BY <1>2, <2>1 DEF MessageIsTrue, Posts, Polls, Moved, Concluded
  <2> QED
    BY <2>4, <2>5, <2>6, <2>7, <2>8, <2>9, <2>10, <2>11
<1> QED
  BY <1>4, <1>5 DEF ServePost

\* The page learns the id of its run.
LEMMA PostAcceptedKeeps ==
  ASSUME ClientAssumption, Inv, NEW s \in Sessions, PostAccepted(s)
  PROVE  Inv'
<1> USE DEF Inv, server, wire
<1>1. PICK a \in answers : /\ a.of = s /\ a.says = "accepted"
                           /\ runId' = [runId EXCEPT ![s] = a.run]
                           /\ answers' = answers \ {a}
  BY DEF PostAccepted
<1>2. made[s] = {a.run} /\ a.run \in Runs
  BY <1>1 DEF PostAccepted, Settled, Posts
<1>3. /\ active = s /\ timers' = {s} /\ posting' = {} /\ polling' = {} /\ shown = Silence
      /\ s = started
  BY ActiveSession DEF PostAccepted, Settled, NothingLeftBehind
<1>4. answers' = {}
  <2>1. ASSUME NEW b \in answers PROVE b = a
    <3>1. b.of = s /\ b.says = "accepted" /\ b.run = a.run
      BY <1>2, ActiveSession DEF PostAccepted, Settled, Posts
    <3> QED
      BY <1>1, <3>1 DEF TypeOK
  <2> QED
    BY <1>1, <2>1
<1>5. runId' \in [Sessions -> Runs \cup {NoRun}] /\ runId'[s] = a.run
  BY <1>1, <1>2 DEF TypeOK
<1>6. UNCHANGED <<server, active, started, errorStreak, late, polling, deletes, wire, shown, made>>
  BY DEF PostAccepted
<1>7. TypeOK' /\ ServerTyped' /\ NothingLeftBehind'
  BY <1>3, <1>4, <1>5, <1>6 DEF TypeOK, ServerTyped, NothingLeftBehind
<1>8. Ordered' /\ OnTheWire' /\ Admitted'
  BY <1>1, <1>3, <1>4, <1>6 DEF Ordered, OnTheWire, Admitted, TypeOK, Sessions
<1>9. Posts' /\ Polls' /\ MessageIsTrue'
  BY <1>3, <1>4, <1>6 DEF Posts, Polls, MessageIsTrue, Silence, Concluded
<1>10. OneRunPerClick'
  BY <1>2, <1>3, <1>5, <1>6 DEF OneRunPerClick
<1> QED
  BY <1>7, <1>8, <1>9, <1>10

\* The timer fires: one GET takes its place, or the session ends.
LEMMA PollKeeps ==
  ASSUME ClientAssumption, Inv, NEW s \in Sessions, Poll(s)
  PROVE  Inv'
<1> USE DEF Inv
<1>1. CASE GivesUp(s)
  BY <1>1, ClaimsNothing DEF Poll, TypeOK
<1>2. CASE ~GivesUp(s)
  <2> USE DEF server, wire
  <2>1. active = s /\ timers' = {} /\ posting' = {} /\ polling' = {s} /\ answers = {}
    <3>1. active = s /\ posting = {} /\ polling = {} /\ timers = {s}
      BY ActiveSession DEF Poll, NothingLeftBehind
    <3>2. answers = {}
      BY <3>1 DEF TypeOK
    <3> QED
      BY <1>2, <3>1, <3>2 DEF Poll
  <2>2. UNCHANGED <<server, active, started, session, posting, answers, deletes, wire, shown, made>>
    BY <1>2 DEF Poll, session
  <2>3. TypeOK' /\ ServerTyped' /\ NothingLeftBehind' /\ Ordered'
    BY <2>1, <2>2 DEF TypeOK, ServerTyped, NothingLeftBehind, Ordered, session
  <2>4. OnTheWire' /\ Admitted' /\ Posts' /\ Polls'
    BY <2>1, <2>2 DEF OnTheWire, Admitted, Posts, Polls, session
  <2>5. OneRunPerClick' /\ MessageIsTrue'
    BY <2>1, <2>2 DEF NothingLeftBehind, OneRunPerClick, MessageIsTrue, session
  <2> QED
    BY <2>3, <2>4, <2>5
<1> QED
  BY <1>1, <1>2

\* The answer to a GET is what the server holds when it is sent.
LEMMA ServeGetKeeps ==
  ASSUME ClientAssumption, Inv, NEW s \in Sessions, ServeGet(s)
  PROVE  Inv'
<1> DEFINE a == Answer(s, view[runId[s]], runId[s])
<1> USE DEF Inv, server, session, wire
<1>1. /\ active = s /\ s \in polling /\ s \notin posting /\ posting = {}
      /\ answers' = answers \cup {a}
  BY DEF ServeGet, NothingLeftBehind, Sessions
<1>2. made[s] = {runId[s]} /\ runId[s] \in Runs
  BY <1>1 DEF OneRunPerClick, TypeOK, Sessions
<1>3. view[runId[s]] \in {"running", "gone"} \cup Concluded
  BY <1>2 DEF Admitted, ServerTyped, Views
<1>4. a.of = s /\ a.run = runId[s] /\ a.says = view[runId[s]]
  BY DEF Answer
<1>5. a \in [of : posting \cup polling, says : Replies, run : Runs \cup {NoRun}]
  BY <1>1, <1>2, <1>3 DEF Answer, Replies
<1> HIDE DEF a
<1>6. UNCHANGED <<server, active, started, session, timers, posting, polling, deletes, wire, shown, made>>
  BY DEF ServeGet
<1>7. TypeOK' /\ ServerTyped' /\ NothingLeftBehind' /\ Ordered'
  BY <1>1, <1>5, <1>6 DEF TypeOK, ServerTyped, NothingLeftBehind, Ordered
<1>8. OnTheWire' /\ Admitted'
  BY <1>1, <1>2, <1>4, <1>6 DEF OnTheWire, Admitted, TypeOK
<1>9. Posts' /\ OneRunPerClick' /\ MessageIsTrue'
  BY <1>1, <1>6 DEF Posts, OneRunPerClick, MessageIsTrue
<1>10. Polls'
  BY <1>1, <1>2, <1>3, <1>4, <1>6 DEF Polls, Concluded
<1> QED
  BY <1>7, <1>8, <1>9, <1>10

\* A session ends with the outcome of its run.
LEMMA PollEndsKeeps ==
  ASSUME ClientAssumption, Inv, NEW s \in Sessions, PollEnds(s)
  PROVE  Inv'
<1> USE DEF Inv
<1>1. PICK what \in Concluded \cup {"gone"} : /\ Answered(s, what) /\ EndWith(s, what)
        /\ errorStreak' = [errorStreak EXCEPT ![s] = IF what = "gone" THEN @ ELSE 0]
  BY DEF PollEnds
<1>2. PICK a \in answers : a.of = s /\ a.says = what
  BY <1>1 DEF Answered
<1>3. runId[s] \in Runs /\ view[runId[s]] \in {what, "gone"}
  BY <1>2 DEF PollEnds, Settled, Polls
<1>4. errorStreak' \in [Sessions -> Nat]
  BY <1>1 DEF TypeOK
<1>5. shown' = [of |-> s, says |-> what] /\ StopRun /\ UNCHANGED <<runId, late>>
  BY <1>1 DEF EndWith, Show
<1>6. shown'.of = s /\ shown'.says = what /\ shown' \in [of : 0 .. MaxSessions, says : Messages]
  BY <1>5 DEF Concluded, Messages, Replies, Sessions, TypeOK
<1> QED
  BY <1>3, <1>4, <1>5, <1>6, EndKeeps DEF PollEnds, TypeOK

\* A failed poll is followed by another one, or by the end of the session.
LEMMA PollFailsKeeps ==
  ASSUME ClientAssumption, Inv, NEW s \in Sessions, PollFails(s)
  PROVE  Inv'
<1> USE DEF Inv
<1>1. errorStreak' \in [Sessions -> Nat]
  BY DEF PollFails, TypeOK
<1>2. CASE errorStreak[s] + 1 >= MAX_CONSECUTIVE_ERRORS
  BY <1>1, <1>2, ClaimsNothing DEF PollFails, TypeOK
<1>3. CASE ~(errorStreak[s] + 1 >= MAX_CONSECUTIVE_ERRORS)
  BY <1>1, <1>3, AgainKeeps DEF PollFails
<1> QED
  BY <1>2, <1>3

\* The other ends of a session: their messages claim nothing of a run.
LEMMA EndsKeep ==
  ASSUME ClientAssumption, Inv, NEW s \in Sessions,
         PostRefused(s) \/ PostFails(s) \/ DeleteSettles(s) \/ Hide
  PROVE  Inv'
<1> USE DEF Inv
<1>1. CASE PostRefused(s)
  BY <1>1, ClaimsNothing DEF PostRefused, TypeOK
<1>2. CASE PostFails(s)
  BY <1>2, ClaimsNothing DEF PostFails, TypeOK
<1>3. CASE DeleteSettles(s)
  <2>1. deletes' \in [Sessions -> 0 .. MaxClicks]
    BY <1>3 DEF DeleteSettles, TypeOK, ClientAssumption
  <2> QED
    BY <1>3, <2>1, ClaimsNothing DEF DeleteSettles, TypeOK
<1>4. CASE Hide
  BY <1>4, EndKeeps DEF Hide, Silence, Messages, Concluded, TypeOK, session, ClientAssumption
<1> QED
  BY <1>1, <1>2, <1>3, <1>4

\* Steps that touch none of what the invariant relates.
LEMMA OtherStepsKeep ==
  ASSUME ClientAssumption, Inv, NEW s \in Sessions,
         RejectForm \/ GetsLate(s) \/ CancelRun(s) \/ UNCHANGED vars
  PROVE  Inv'
<1> USE ClientAssumption DEF Inv, server, session, pending, wire
<1>1. CASE RejectForm
  BY <1>1, IdleHasNothing DEF RejectForm, Show, TypeOK, ServerTyped, Ordered,
     NothingLeftBehind, OnTheWire, Admitted, Posts, Polls, OneRunPerClick, MessageIsTrue,
     Messages, Concluded
<1>2. CASE GetsLate(s)
  BY <1>2 DEF GetsLate, TypeOK, ServerTyped, Ordered, NothingLeftBehind, OnTheWire,
     Admitted, Posts, Polls, OneRunPerClick, MessageIsTrue
<1>3. CASE CancelRun(s)
  <2>1. deletes' \in [Sessions -> 0 .. MaxClicks] /\ deletions' \subseteq Runs
    BY <1>3 DEF CancelRun, TypeOK
  <2> QED
    BY <1>3, <2>1 DEF CancelRun, TypeOK, ServerTyped, Ordered, NothingLeftBehind, OnTheWire,
       Admitted, Posts, Polls, OneRunPerClick, MessageIsTrue
<1>4. CASE UNCHANGED vars
  BY <1>4 DEF vars, TypeOK, ServerTyped, Ordered, NothingLeftBehind, OnTheWire,
     Admitted, Posts, Polls, OneRunPerClick, MessageIsTrue
<1> QED
  BY <1>1, <1>2, <1>3, <1>4

\* The server serves a DELETE or somebody else.
LEMMA ServedKeeps ==
  ASSUME Inv, Others \/ \E r \in Runs : ServeDelete(r)
  PROVE  Inv'
<1> USE DEF Inv
<1>1. CASE Others
  <2>1. Moved
    BY <1>1, ServerMoves DEF Others
  <2> QED
    BY <1>1, <2>1, ServerKeeps DEF Others, wire, TypeOK
<1>2. ASSUME NEW r \in Runs, ServeDelete(r)
      PROVE  Inv'
  <2>1. Moved
    <3>1. CASE Server!Conclude(r)
      BY <3>1, ConcludeMoves
    <3>2. CASE UNCHANGED server
      BY <3>2 DEF server, Moved, ServerTyped
    <3> QED
      BY <1>2, <3>1, <3>2 DEF ServeDelete
  <2>2. deletions' \subseteq Runs
    BY <1>2 DEF ServeDelete, TypeOK
  <2> QED
    BY <1>2, <2>1, <2>2, ServerKeeps DEF ServeDelete
<1> QED
  BY <1>1, <1>2

\* The invariant holds at first.
LEMMA Initial ==
  ASSUME ClientAssumption, Init
  PROVE  Inv
<1> USE DEF Init, Inv
<1>1. TypeOK /\ ServerTyped
  BY DEF ClientAssumption, TypeOK, ServerTyped, Server!Init, Views, Silence, Messages, Sessions
<1>2. Ordered /\ NothingLeftBehind /\ OnTheWire /\ Admitted
  BY DEF Ordered, NothingLeftBehind, OnTheWire, Admitted
<1>3. Posts /\ Polls /\ OneRunPerClick /\ MessageIsTrue
  BY DEF Posts, Polls, OneRunPerClick, MessageIsTrue, Silence, Concluded
<1> QED
  BY <1>1, <1>2, <1>3

\* Every step keeps the invariant; it is inductive.
LEMMA Step ==
  ASSUME ClientAssumption, Inv, [Next]_vars
  PROVE  Inv'
<1>1. CASE StartRun
  BY <1>1, StartRunKeeps
<1>2. CASE RejectForm \/ Hide \/ UNCHANGED vars
  <2>1. 1 \in Sessions
    BY DEF Sessions, ClientAssumption
  <2> QED
    BY <1>2, <2>1, OtherStepsKeep, EndsKeep
<1>3. ASSUME NEW s \in Sessions, Page(s)
      PROVE  Inv'
  <2>1. CASE PostSettles(s)
    BY <2>1, PostAcceptedKeeps, EndsKeep DEF PostSettles
  <2>2. CASE PollSettles(s)
    <3>1. CASE PollRunning(s)
      <4>1. errorStreak' \in [Sessions -> Nat]
        BY <3>1 DEF PollRunning, Inv, TypeOK
      <4> QED
        BY <3>1, <4>1, AgainKeeps DEF PollRunning
    <3> QED
      BY <2>2, <3>1, PollEndsKeeps, PollFailsKeeps DEF PollSettles
  <2> QED
    BY <1>3, <2>1, <2>2, PollKeeps, OtherStepsKeep, EndsKeep DEF Page
<1>4. CASE Serve
  BY <1>4, ServePostKeeps, ServeGetKeeps, ServedKeeps DEF Serve
<1>5. CASE Others
  BY <1>5, ServedKeeps
<1> QED
  BY <1>1, <1>2, <1>3, <1>4, <1>5 DEF Next

\* The inductive invariant.
THEOREM Invariance == Spec => []Inv
BY ClientAssumption, Initial, Step, PTL DEF Spec

\* Every variable keeps its type, and no answer outlives its promise.
THEOREM TypeCorrect == Spec => []TypeOK
BY Invariance, PTL DEF Inv

\* No timer, POST or GET of a session that is over is left behind, and a session
\* that goes on has exactly one of them (stopRun, schedulePoll, poll).
THEOREM NothingIsLeft == Spec => []NothingLeftBehind
BY Invariance, PTL DEF Inv

\* What the page says about the outcome of a run is true on the server.
THEOREM MessagesAreTrue == Spec => []MessageIsTrue
BY Invariance, PTL DEF Inv

\* No click buys two runs, and the page knows the run it polls.
THEOREM ClicksBuyOneRun == Spec => []OneRunPerClick
BY Invariance, PTL DEF Inv
=============================================================================

--------------------------- MODULE PipelineProofs ---------------------------
(***************************************************************************)
(* Theorems about Pipeline, for every number of runs, pages, threads and   *)
(* attempts, and for every kind of answer.                                 *)
(*                                                                         *)
(* The inductive invariant speaks of one call at a time (CallInv) and of   *)
(* one run at a time (RunInv): an action of one call leaves the facts of   *)
(* every other call alone, because a job belongs to one call.              *)
(***************************************************************************)
EXTENDS Pipeline, FiniteSetTheorems, TLAPS

\* The jobs of a call that are in the pool.
PoolOf(c) ==
  /\ \A n \in Nat : <<c, n>> \in queue =>
       place[c] = "awaiting" /\ n = Len(tries[c]) + 1
  /\ \A n \in Nat : <<c, n>> \in working =>
       \/ n \in TimedOut(c)
       \/ n = Len(tries[c]) + 1 /\ place[c] \in {"awaiting", "cancelled"}

\* NoAnswerLost for one call.
AnswerHeld(c) ==
  IF place[c] = "awaiting"
  THEN /\ (Current(c) \in queue) # (Current(c) \in working \/ reply[c] # "none")
       /\ ~(Current(c) \in working /\ reply[c] # "none")
  ELSE reply[c] = "none"

\* The attempts of a call fit its place.
TriesFit(c) ==
  /\ place[c] \in {"absent", "waiting"} => Len(tries[c]) = 0
  /\ place[c] \in {"awaiting", "sleeping"} => Len(tries[c]) < Attempts(c)
  /\ \A n \in 1 .. Len(tries[c]) - 1 : tries[c][n] \in Retryable
  /\ place[c] = "settled" =>
       /\ Len(tries[c]) > 0
       /\ LastTry(c) \in Retryable => Len(tries[c]) = Attempts(c)
  /\ place[c] # "settled" =>
       \A n \in 1 .. Len(tries[c]) : tries[c][n] \in Retryable

CallInv(c) == PoolOf(c) /\ AnswerHeld(c) /\ TriesFit(c)

\* Before its stage a call is absent; the LLM is called on grounds only.
RunInv(r) ==
  /\ stage[r] = "absent" => \A c \in Calls : c[1] = r => place[c] = "absent"
  /\ stage[r] = "scraping" => place[<<r, LLM>>] = "absent"
  /\ place[<<r, LLM>>] # "absent" =>
       /\ \A c \in PagesOf(r) : place[c] = "settled"
       /\ \E c \in PagesOf(r) : PageOk(c)

\* The inductive invariant.
IndInv == TypeOK /\ (\A c \in Calls : CallInv(c)) /\ (\A r \in Runs : RunInv(r))

-----------------------------------------------------------------------------
(***************************************************************************)
(* Calls and jobs.                                                         *)
(***************************************************************************)

\* A call is a pair; the LLM call and the pages of a run are calls.
LEMMA CallPairs ==
  /\ \A c \in Calls : c = <<c[1], c[2]>> /\ c[1] \in Runs
  /\ \A r \in Runs : <<r, LLM>> \in Calls /\ <<r, LLM>> \notin PagesOf(r)
  /\ \A r \in Runs : PagesOf(r) \subseteq Calls
  /\ \A r \in Runs : \A c \in Calls :
       c[1] = r => c = <<r, LLM>> \/ c \in PagesOf(r)
  /\ \A r \in Runs : \A c \in PagesOf(r) : c[1] = r
BY PipelineAssumption DEF Calls, PagesOf, Pages, LLM

\* Every call has at least one attempt.
LEMMA SomeAttempt ==
  ASSUME NEW c \in Calls
  PROVE  Attempts(c) \in Nat /\ Attempts(c) >= 1
BY PipelineAssumption DEF Attempts, AtLeastOne

\* A job is a pair of a call and the number of one of its attempts.
LEMMA JobPairs ==
  /\ \A j \in Jobs : j = <<j[1], j[2]>> /\ j[1] \in Calls /\ j[2] \in Nat
  /\ \A c \in Calls, n \in Nat : n >= 1 /\ n <= Attempts(c) => <<c, n>> \in Jobs
BY SomeAttempt DEF Jobs

\* One more attempt at the end of the sequence.
LEMMA AppendTry ==
  ASSUME NEW S, NEW s \in Seq(S), NEW v \in S
  PROVE  /\ Append(s, v) \in Seq(S)
         /\ Len(Append(s, v)) = Len(s) + 1 /\ Len(s) \in Nat
         /\ \A n \in 1 .. Len(s) : Append(s, v)[n] = s[n]
         /\ Append(s, v)[Len(s) + 1] = v
OBVIOUS

\* What is left alone keeps its invariant.
LEMMA Frame ==
  ASSUME NEW d \in Calls, CallInv(d),
         place'[d] = place[d], tries'[d] = tries[d], reply'[d] = reply[d],
         \A n \in Nat : (<<d, n>> \in queue') = (<<d, n>> \in queue),
         \A n \in Nat : (<<d, n>> \in working') = (<<d, n>> \in working),
         Len(tries[d]) \in Nat
  PROVE  CallInv(d)'
<1>1. Current(d) = <<d, Len(tries[d]) + 1>> /\ Current(d)' = Current(d)
  BY DEF Current
<1>2. PoolOf(d)'
  BY DEF CallInv, PoolOf, TimedOut
<1>3. AnswerHeld(d)'
  BY <1>1 DEF CallInv, AnswerHeld
<1>4. TriesFit(d)'
  BY DEF CallInv, TriesFit, LastTry, Attempts
<1>. QED
  BY <1>2, <1>3, <1>4 DEF CallInv

\* A step of one call: nothing of any other call changes.
StepOf(c) ==
  \A d \in Calls : d # c =>
    /\ place'[d] = place[d] /\ tries'[d] = tries[d] /\ reply'[d] = reply[d]
    /\ \A n \in Nat : (<<d, n>> \in queue') = (<<d, n>> \in queue)
    /\ \A n \in Nat : (<<d, n>> \in working') = (<<d, n>> \in working)

\* Such a step has only its own call to answer for.
LEMMA OneCall ==
  ASSUME IndInv, NEW c \in Calls, StepOf(c), CallInv(c)'
  PROVE  \A d \in Calls : CallInv(d)'
<1>. SUFFICES ASSUME NEW d \in Calls, d # c PROVE CallInv(d)'
  OBVIOUS
<1>1. CallInv(d) /\ Len(tries[d]) \in Nat
  BY DEF IndInv, TypeOK
<1>. QED
  BY <1>1, Frame DEF StepOf

-----------------------------------------------------------------------------
(***************************************************************************)
(* The steps of a call.                                                    *)
(***************************************************************************)

\* A thread takes a job.
LEMMA TakeKeeps ==
  ASSUME IndInv, NEW j \in queue, Take(j)
  PROVE  TypeOK' /\ (\A d \in Calls : CallInv(d)')
<1>. DEFINE c == j[1]
            n == j[2]
<1>1. /\ j \in Jobs /\ j = <<c, n>> /\ c \in Calls /\ n \in Nat
      /\ CallInv(c) /\ Len(tries[c]) \in Nat
  BY JobPairs DEF IndInv, TypeOK
<1>. HIDE DEF c, n
<1>2. n = Len(tries[c]) + 1 /\ place[c] = "awaiting" /\ Current(c) = <<c, n>>
  BY <1>1 DEF CallInv, PoolOf, Current
<1>3. /\ queue' = queue \ {<<c, n>>} /\ working' = working \cup {<<c, n>>}
      /\ UNCHANGED <<stage, result, place, tries, reply>>
  BY <1>1 DEF Take
<1>4. TypeOK'
  BY <1>1, <1>3 DEF IndInv, TypeOK
<1>5. StepOf(c)
  BY <1>3 DEF StepOf
<1>6. PoolOf(c)'
  BY <1>1, <1>2, <1>3 DEF CallInv, PoolOf, TimedOut
<1>7. AnswerHeld(c)'
  <2>1. Current(c)' = <<c, n>> /\ <<c, n>> \in queue
    BY <1>1, <1>2, <1>3 DEF Current
  <2>2. reply[c] = "none"
    BY <1>1, <1>2, <2>1 DEF CallInv, AnswerHeld
  <2>. QED
    BY <1>2, <1>3, <2>1, <2>2 DEF AnswerHeld
<1>8. TriesFit(c)'
  BY <1>1, <1>3 DEF CallInv, TriesFit, LastTry, Attempts
<1>. QED
  BY <1>1, <1>4, <1>5, <1>6, <1>7, <1>8, OneCall DEF CallInv

\* A thread answers, in time or too late.
LEMMA AnswerKeeps ==
  ASSUME IndInv, NEW j \in working, NEW v \in Replies \cup {"malformed"}, Answer(j, v)
  PROVE  TypeOK' /\ (\A d \in Calls : CallInv(d)')
<1>. DEFINE c == j[1]
            n == j[2]
<1>1. /\ j \in Jobs /\ j = <<c, n>> /\ c \in Calls /\ n \in Nat
      /\ CallInv(c) /\ Len(tries[c]) \in Nat
  BY JobPairs DEF IndInv, TypeOK
<1>2. /\ working' = working \ {<<c, n>>}
      /\ UNCHANGED <<stage, result, place, tries, queue>>
      /\ reply' = IF Awaited(j) THEN [reply EXCEPT ![c] = v] ELSE reply
  BY <1>1 DEF Answer
<1>. HIDE DEF c, n
<1>3. TypeOK'
  BY <1>1, <1>2 DEF IndInv, TypeOK
<1>4. StepOf(c)
  BY <1>1, <1>2 DEF StepOf, IndInv, TypeOK
<1>5. PoolOf(c)'
  BY <1>1, <1>2 DEF CallInv, PoolOf, TimedOut
<1>6. AnswerHeld(c)'
  <2>1. v # "none"
    BY DEF Replies
  <2>2. Current(c) = <<c, Len(tries[c]) + 1>> /\ Current(c)' = Current(c)
    BY <1>2 DEF Current
  <2>3. Awaited(j) = (place[c] = "awaiting" /\ <<c, n>> = Current(c))
    BY <1>1 DEF Awaited, c
  <2>4. CASE Awaited(j)
    <3>1. reply'[c] = v
      BY <1>1, <1>2, <2>4 DEF IndInv, TypeOK
    <3>2. Current(c) \in working /\ Current(c) \notin working'
      BY <1>1, <1>2, <2>3, <2>4
    <3>3. Current(c) \notin queue /\ place[c] = "awaiting"
      BY <1>1, <2>3, <2>4, <3>2 DEF CallInv, AnswerHeld
    <3>. QED
      BY <1>2, <2>1, <2>2, <3>1, <3>2, <3>3 DEF AnswerHeld
  <2>5. CASE ~Awaited(j)
    <3>1. reply' = reply
      BY <1>2, <2>5
    <3>2. place[c] = "awaiting" =>
            (Current(c) \in working') = (Current(c) \in working)
      <4>1. place[c] = "awaiting" => Current(c) # <<c, n>>
        BY <2>3, <2>5
      <4>. QED
        BY <1>2, <4>1
    <3>. QED
      BY <1>1, <1>2, <2>2, <3>1, <3>2 DEF CallInv, AnswerHeld
  <2>. QED
    BY <2>4, <2>5
<1>7. TriesFit(c)'
  BY <1>1, <1>2 DEF CallInv, TriesFit, LastTry, Attempts
<1>. QED
  BY <1>1, <1>3, <1>4, <1>5, <1>6, <1>7, OneCall DEF CallInv

\* An attempt is submitted by a call that is not awaiting one.
LEMMA SubmitKeeps ==
  ASSUME IndInv, NEW c \in Calls, Submit(c),
         place[c] \in {"absent", "waiting", "sleeping"},
         UNCHANGED <<tries, reply, working>>
  PROVE  /\ place' \in [Calls -> Places] /\ queue' \subseteq Jobs
         /\ \A d \in Calls : CallInv(d)'
<1>. DEFINE n == Len(tries[c]) + 1
<1>1. CallInv(c) /\ Len(tries[c]) \in Nat /\ Current(c) = <<c, n>> /\ n \in Nat
  BY DEF IndInv, TypeOK, Current
<1>2. /\ place' \in [Calls -> Places] /\ place'[c] = "awaiting"
      /\ \A d \in Calls : d # c => place'[d] = place[d]
      /\ queue' = queue \cup {<<c, n>>}
  BY <1>1 DEF Submit, IndInv, TypeOK, Places
<1>3. Len(tries[c]) < Attempts(c)
  BY <1>1, SomeAttempt DEF CallInv, TriesFit
<1>4. <<c, n>> \in Jobs
  BY <1>1, <1>3, SomeAttempt, JobPairs
<1>5. StepOf(c)
  BY <1>2 DEF StepOf
<1>6. /\ \A m \in Nat : <<c, m>> \notin queue
      /\ <<c, n>> \notin working
      /\ reply[c] = "none"
  BY <1>1 DEF CallInv, PoolOf, AnswerHeld, TimedOut
<1>7. PoolOf(c)'
  BY <1>1, <1>2, <1>6 DEF CallInv, PoolOf, TimedOut
<1>8. AnswerHeld(c)'
  BY <1>1, <1>2, <1>6 DEF AnswerHeld, Current
<1>9. TriesFit(c)'
  BY <1>1, <1>2, <1>3 DEF CallInv, TriesFit, LastTry, Attempts
<1>. QED
  BY <1>2, <1>4, <1>5, <1>7, <1>8, <1>9, OneCall DEF IndInv, TypeOK, CallInv

\* An attempt ends.  The thread may only be left with it if it timed out.
LEMMA AttemptKeeps ==
  ASSUME IndInv, NEW c \in Calls, NEW v \in Replies \cup {"malformed"},
         AttemptEnds(c, v), queue' = Withdraw({c}), working' = working,
         Current(c) \in working => v = "timeout"
  PROVE  /\ TypeOK' /\ StepOf(c) /\ place'[c] \in {"sleeping", "settled"}
         /\ \A r \in Runs : stage'[r] \in {stage[r], "over"}
         /\ \A d \in Calls : CallInv(d)'
<1>. DEFINE l == Len(tries[c])
<1>1. /\ CallInv(c) /\ l \in Nat /\ Current(c) = <<c, l + 1>>
      /\ place[c] = "awaiting" /\ l < Attempts(c) /\ Attempts(c) \in Nat
      /\ tries[c] \in Seq(Replies \cup {"malformed"})
  <2>1. CallInv(c) /\ tries[c] \in Seq(Replies \cup {"malformed"})
    BY DEF IndInv, TypeOK
  <2>2. place[c] = "awaiting" /\ Attempts(c) \in Nat
    BY SomeAttempt DEF AttemptEnds
  <2>3. l < Attempts(c)
    BY <2>1, <2>2 DEF CallInv, TriesFit
  <2>. QED
    BY <2>1, <2>2, <2>3 DEF Current
<1>2. /\ tries' = [tries EXCEPT ![c] = Append(tries[c], v)]
      /\ reply' = [reply EXCEPT ![c] = "none"]
  BY DEF AttemptEnds
<1>3. /\ tries' \in [Calls -> Seq(Replies \cup {"malformed"})]
      /\ reply' \in [Calls -> Replies \cup {"malformed", "none"}]
      /\ tries'[c] = Append(tries[c], v) /\ reply'[c] = "none"
      /\ \A d \in Calls : d # c => tries'[d] = tries[d] /\ reply'[d] = reply[d]
  BY <1>1, <1>2, AppendTry DEF IndInv, TypeOK
<1>4. /\ Len(tries'[c]) = l + 1 /\ tries'[c][l + 1] = v
      /\ \A n \in 1 .. l : tries'[c][n] = tries[c][n]
  BY <1>1, <1>3, AppendTry
<1>5. /\ place' \in [Calls -> Places] /\ place'[c] \in {"sleeping", "settled"}
      /\ \A d \in Calls : d # c => place'[d] = place[d]
      /\ place'[c] = "sleeping" => TriesAgain(c, v)
      /\ place'[c] = "settled" => ~TriesAgain(c, v)
  BY DEF AttemptEnds, Settles, IndInv, TypeOK, Places
<1>6. /\ stage' \in [Runs -> {"absent", "scraping", "synthesising", "over"}]
      /\ result' \in [Runs -> {"none", "ok"} \cup Failures]
      /\ \A r \in Runs : stage'[r] \in {stage[r], "over"}
  <2>1. CASE TriesAgain(c, v)
    BY <2>1 DEF AttemptEnds, IndInv, TypeOK
  <2>2. CASE ~TriesAgain(c, v)
    <3>1. LLMResult(v) \in {"none", "ok"} \cup Failures
      BY DEF LLMResult, Failures
    <3>. QED
      <4>. DEFINE r == c[1]
                  ends == stage[r] # "over" /\ (c[2] = LLM \/ v = "malformed")
      <4>1. r \in Runs
        BY CallPairs
      <4>2. /\ stage' = IF ends THEN [stage EXCEPT ![r] = "over"] ELSE stage
            /\ result' = IF ends THEN [result EXCEPT ![r] = LLMResult(v)] ELSE result
        BY <2>2 DEF AttemptEnds, Settles
      <4>. QED
        BY <3>1, <4>1, <4>2 DEF IndInv, TypeOK
  <2>. QED
    BY <2>1, <2>2
<1>7. /\ queue' \subseteq queue /\ \A n \in Nat : <<c, n>> \notin queue'
      /\ \A d \in Calls, n \in Nat : d # c => (<<d, n>> \in queue') = (<<d, n>> \in queue)
  BY DEF Withdraw
<1>8. TypeOK'
  BY <1>3, <1>5, <1>6, <1>7 DEF IndInv, TypeOK
<1>9. StepOf(c)
  BY <1>3, <1>5, <1>7 DEF StepOf
<1>10. PoolOf(c)'
  <2>1. ASSUME NEW n \in Nat, <<c, n>> \in working
        PROVE  n \in 1 .. l + 1 /\ tries'[c][n] = "timeout"
    <3>1. CASE n \in TimedOut(c)
      <4>1. n \in 1 .. l /\ tries[c][n] = "timeout"
        BY <3>1 DEF TimedOut
      <4>. HIDE DEF l
      <4>. QED
        BY <1>1, <1>4, <4>1
    <3>2. CASE n = l + 1
      BY <1>1, <1>4, <2>1, <3>2
    <3>. QED
      BY <1>1, <2>1, <3>1, <3>2 DEF CallInv, PoolOf
  <2>2. \A n \in Nat : <<c, n>> \in working => n \in TimedOut(c)'
    BY <1>4, <2>1 DEF TimedOut
  <2>. QED
    BY <1>7, <2>2 DEF PoolOf
<1>11. AnswerHeld(c)'
  BY <1>3, <1>5 DEF AnswerHeld
<1>12. TriesFit(c)'
  <2>1. \A n \in 1 .. l : tries'[c][n] \in Retryable
    BY <1>1, <1>4 DEF CallInv, TriesFit
  <2>2. LastTry(c)' = v
    BY <1>4 DEF LastTry
  <2>3. Attempts(c)' = Attempts(c)
    BY DEF Attempts
  <2>4. CASE place'[c] = "sleeping"
    <3>1. v \in Retryable /\ l + 1 < Attempts(c)
      BY <1>5, <2>4 DEF TriesAgain
    <3>2. \A n \in 1 .. l + 1 : tries'[c][n] \in Retryable
      BY <1>1, <1>4, <2>1, <3>1
    <3>. QED
      BY <1>1, <1>4, <2>1, <2>3, <2>4, <3>1, <3>2 DEF TriesFit
  <2>5. CASE place'[c] = "settled"
    <3>1. v \in Retryable => l + 1 = Attempts(c)
      BY <1>1, <1>5, <2>5 DEF TriesAgain
    <3>. QED
      BY <1>1, <1>4, <2>1, <2>2, <2>3, <2>5, <3>1 DEF TriesFit
  <2>. QED
    BY <1>5, <2>4, <2>5
<1>. QED
  BY <1>5, <1>6, <1>8, <1>9, <1>10, <1>11, <1>12, OneCall DEF CallInv

\* A call that is going on may go on or settle without harm to any run.
LEMMA RunsKept ==
  ASSUME IndInv, NEW c \in Calls, StepOf(c),
         place[c] \in Active, place'[c] # "absent", place'[c] # "waiting",
         \A r \in Runs : stage'[r] \in {stage[r], "over"}
  PROVE  \A r \in Runs : RunInv(r)'
<1>. SUFFICES ASSUME NEW r \in Runs PROVE RunInv(r)'
  OBVIOUS
<1>. DEFINE llm == <<r, LLM>>
<1>1. RunInv(r) /\ llm \in Calls /\ PagesOf(r) \subseteq Calls
  BY CallPairs DEF IndInv
<1>2. stage'[r] = "absent" => \A d \in Calls : d[1] = r => place'[d] = "absent"
  BY <1>1 DEF RunInv, StepOf, Active
<1>3. stage'[r] = "scraping" => place'[llm] = "absent"
  BY <1>1 DEF RunInv, StepOf, Active
<1>4. ASSUME place'[llm] # "absent"
      PROVE  /\ \A d \in PagesOf(r) : place'[d] = "settled"
             /\ \E d \in PagesOf(r) : PageOk(d)'
  <2>1. place[llm] # "absent"
    BY <1>1, <1>4 DEF StepOf, Active
  <2>2. \A d \in PagesOf(r) : d # c
    BY <1>1, <2>1 DEF RunInv, Active
  <2>3. \A d \in PagesOf(r) : place'[d] = place[d] /\ tries'[d] = tries[d]
    BY <1>1, <2>2 DEF StepOf
  <2>. QED
    BY <1>1, <2>1, <2>3 DEF RunInv, PageOk, LastTry
<1>. QED
  BY <1>2, <1>3, <1>4 DEF RunInv, PagesOf
-----------------------------------------------------------------------------
(***************************************************************************)
(* The steps of a run.                                                     *)
(***************************************************************************)

\* A run whose calls are left alone keeps its invariant.
LEMMA OtherRun ==
  ASSUME NEW s \in Runs, RunInv(s), stage'[s] = stage[s],
         \A c \in Calls : c[1] = s => place'[c] = place[c] /\ tries'[c] = tries[c]
  PROVE  RunInv(s)'
<1>. DEFINE llm == <<s, LLM>>
<1>1. /\ llm \in Calls /\ llm[1] = s
      /\ \A c \in PagesOf(s) : c \in Calls /\ c[1] = s
  BY CallPairs
<1>2. /\ place'[llm] = place[llm]
      /\ \A c \in PagesOf(s) : place'[c] = place[c] /\ tries'[c] = tries[c]
  BY <1>1
<1>3. \A c \in PagesOf(s) : PageOk(c)' = PageOk(c)
  BY <1>2 DEF PageOk, LastTry
<1>. HIDE DEF llm
<1>4. PagesOf(s)' = PagesOf(s)
  BY DEF PagesOf
<1>. QED
  BY <1>2, <1>3, <1>4 DEF RunInv, llm

\* A pipeline starts.
LEMMA BeginKeeps ==
  ASSUME IndInv, NEW r \in Runs, Begin(r)
  PROVE  IndInv'
<1>1. /\ stage' = [stage EXCEPT ![r] = "scraping"]
      /\ place' = [c \in Calls |-> IF c \in PagesOf(r) THEN "waiting" ELSE place[c]]
      /\ UNCHANGED <<result, tries, reply, queue, working>>
      /\ TypeOK
  BY DEF Begin, IndInv
<1>2. TypeOK'
  BY <1>1 DEF TypeOK, Places
<1>3. \A c \in Calls : c[1] = r => place[c] = "absent"
  BY DEF Begin, IndInv, RunInv
<1>4. ASSUME NEW d \in Calls PROVE CallInv(d)'
  <2>1. CallInv(d) /\ Len(tries[d]) \in Nat
    BY <1>1 DEF IndInv, TypeOK
  <2>2. CASE d \in PagesOf(r)
    <3>1. place[d] = "absent" /\ place'[d] = "waiting"
      BY <1>1, <1>3, <2>2, CallPairs
    <3>2. PoolOf(d)'
      BY <1>1, <2>1, <3>1 DEF CallInv, PoolOf, TimedOut
    <3>3. AnswerHeld(d)'
      BY <1>1, <2>1, <3>1 DEF CallInv, AnswerHeld
    <3>4. TriesFit(d)'
      BY <1>1, <2>1, <3>1 DEF CallInv, TriesFit
    <3>. QED
      BY <3>2, <3>3, <3>4 DEF CallInv
  <2>3. CASE d \notin PagesOf(r)
    <3>1. place'[d] = place[d]
      BY <1>1, <2>3
    <3>. QED
      BY <1>1, <2>1, <3>1, Frame
  <2>. QED
    BY <2>2, <2>3
<1>5. ASSUME NEW s \in Runs PROVE RunInv(s)'
  <2>1. CASE s = r
    <3>1. stage'[r] = "scraping" /\ place'[<<r, LLM>>] = "absent"
      BY <1>1, <1>3, CallPairs DEF TypeOK
    <3>. QED
      BY <2>1, <3>1 DEF RunInv
  <2>2. CASE s # r
    <3>1. RunInv(s) /\ stage'[s] = stage[s]
      BY <1>1, <2>2 DEF IndInv, TypeOK
    <3>2. ASSUME NEW c \in Calls, c[1] = s PROVE place'[c] = place[c] /\ tries'[c] = tries[c]
      BY <1>1, <2>2, <3>2, CallPairs
    <3>. QED
      BY <3>1, <3>2, OtherRun
  <2>. QED
    BY <2>1, <2>2
<1>. QED
  BY <1>2, <1>4, <1>5 DEF IndInv

\* A run is cancelled, and with it every call of it that is going.
LEMMA AbortKeeps ==
  ASSUME IndInv, NEW r \in Runs, Abort(r)
  PROVE  IndInv'
<1>. DEFINE C == Cancelled(r)
<1>1. /\ stage' = [stage EXCEPT ![r] = "over"]
      /\ result' = [result EXCEPT ![r] = "cancelled"]
      /\ place' = [c \in Calls |-> IF c \in C THEN "cancelled" ELSE place[c]]
      /\ reply' = [c \in Calls |-> IF c \in C THEN "none" ELSE reply[c]]
      /\ queue' = Withdraw(C)
      /\ UNCHANGED <<tries, working>>
      /\ TypeOK
  BY DEF Abort, IndInv
<1>2. \A c \in Calls : c \in C <=> c[1] = r /\ place[c] \in Active
  BY DEF Cancelled
<1>. HIDE DEF C
<1>3. TypeOK'
  BY <1>1 DEF TypeOK, Places, Withdraw, Failures
<1>4. ASSUME NEW d \in Calls PROVE CallInv(d)'
  <2>1. CallInv(d) /\ Len(tries[d]) \in Nat
    BY <1>1 DEF IndInv, TypeOK
  <2>2. CASE d \in C
    <3>1. /\ place'[d] = "cancelled" /\ reply'[d] = "none"
          /\ place[d] \in Active /\ \A n \in Nat : <<d, n>> \notin queue'
      BY <1>1, <1>2, <2>2 DEF Withdraw
    <3>2. PoolOf(d)'
      BY <1>1, <2>1, <3>1 DEF CallInv, PoolOf, TimedOut
    <3>3. AnswerHeld(d)'
      BY <3>1 DEF AnswerHeld
    <3>4. TriesFit(d)'
      BY <1>1, <2>1, <3>1 DEF CallInv, TriesFit, Active
    <3>. QED
      BY <3>2, <3>3, <3>4 DEF CallInv
  <2>3. CASE d \notin C
    <3>1. place'[d] = place[d] /\ reply'[d] = reply[d]
      BY <1>1, <2>3
    <3>2. \A n \in Nat : (<<d, n>> \in queue') = (<<d, n>> \in queue)
      BY <1>1, <2>3 DEF Withdraw
    <3>. QED
      BY <1>1, <2>1, <3>1, <3>2, Frame
  <2>. QED
    BY <2>2, <2>3
<1>5. ASSUME NEW s \in Runs PROVE RunInv(s)'
  <2>1. RunInv(s)
    BY DEF IndInv
  <2>2. CASE s = r
    <3>1. stage'[r] = "over"
      BY <1>1 DEF TypeOK
    <3>2. ASSUME place'[<<r, LLM>>] # "absent"
          PROVE  /\ \A c \in PagesOf(r) : place'[c] = "settled"
                 /\ \E c \in PagesOf(r) : PageOk(c)'
      <4>1. place[<<r, LLM>>] # "absent"
        BY <1>1, <1>2, <3>2, CallPairs DEF Active
      <4>2. \A c \in PagesOf(r) : c \in Calls /\ place[c] = "settled"
        BY <2>1, <2>2, <4>1, CallPairs DEF RunInv
      <4>3. \A c \in PagesOf(r) : place'[c] = place[c] /\ tries'[c] = tries[c]
        BY <1>1, <1>2, <4>2 DEF Active
      <4>. QED
        BY <2>1, <2>2, <4>1, <4>3 DEF RunInv, PageOk, LastTry
    <3>. QED
      BY <2>2, <3>1, <3>2 DEF RunInv, PagesOf
  <2>3. CASE s # r
    <3>1. stage'[s] = stage[s]
      BY <1>1, <2>3 DEF TypeOK
    <3>2. ASSUME NEW c \in Calls, c[1] = s PROVE place'[c] = place[c] /\ tries'[c] = tries[c]
      BY <1>1, <1>2, <2>3, <3>2
    <3>. QED
      BY <2>1, <3>1, <3>2, OtherRun
  <2>. QED
    BY <2>2, <2>3
<1>. QED
  BY <1>3, <1>4, <1>5 DEF IndInv

\* A run goes from its pages to the LLM, or fails for want of a page.
LEMMA SynthesiseKeeps ==
  ASSUME IndInv, NEW r \in Runs, Synthesise(r)
  PROVE  IndInv'
<1>. DEFINE llm == <<r, LLM>>
<1>1. /\ TypeOK /\ llm \in Calls /\ llm[1] = r
      /\ RunInv(r) /\ stage[r] = "scraping" /\ place[llm] = "absent"
      /\ \A c \in PagesOf(r) : place[c] = "settled" /\ c # llm /\ c \in Calls
      /\ UNCHANGED <<tries, reply, working>>
  BY CallPairs DEF IndInv, Synthesise, ScrapeDone, RunInv
<1>. HIDE DEF llm
<1>2. CASE Usable(r) = {}
  <2>1. /\ stage' = [stage EXCEPT ![r] = "over"]
        /\ result' = [result EXCEPT ![r] = "all_sources_failed"]
        /\ UNCHANGED <<place, queue>>
    BY <1>2 DEF Synthesise
  <2>2. TypeOK'
    BY <1>1, <2>1 DEF TypeOK, Failures
  <2>3. ASSUME NEW d \in Calls PROVE CallInv(d)'
    <3>1. CallInv(d) /\ Len(tries[d]) \in Nat
      BY <1>1 DEF IndInv, TypeOK
    <3>. QED
      BY <1>1, <2>1, <3>1, Frame
  <2>4. ASSUME NEW s \in Runs PROVE RunInv(s)'
    <3>1. CASE s = r
      BY <1>1, <2>1, <3>1 DEF RunInv, TypeOK, llm
    <3>2. CASE s # r
      <4>1. RunInv(s) /\ stage'[s] = stage[s]
        BY <1>1, <2>1, <3>2 DEF IndInv, TypeOK
      <4>. QED
        BY <1>1, <2>1, <4>1, OtherRun
    <3>. QED
      BY <3>1, <3>2
  <2>. QED
    BY <2>2, <2>3, <2>4 DEF IndInv
<1>3. CASE Usable(r) # {}
  <2>1. /\ stage' = [stage EXCEPT ![r] = "synthesising"]
        /\ Submit(llm)
        /\ UNCHANGED result
    BY <1>3 DEF Synthesise, llm
  <2>2. /\ place' \in [Calls -> Places] /\ queue' \subseteq Jobs
        /\ \A d \in Calls : CallInv(d)'
    BY <1>1, <2>1, SubmitKeeps
  <2>3. TypeOK'
    BY <1>1, <2>1, <2>2 DEF TypeOK
  <2>4. \A d \in Calls : d # llm => place'[d] = place[d] /\ tries'[d] = tries[d]
    BY <1>1, <2>1 DEF Submit, TypeOK
  <2>5. ASSUME NEW s \in Runs PROVE RunInv(s)'
    <3>1. CASE s = r
      <4>1. stage'[r] = "synthesising"
        BY <1>1, <2>1 DEF TypeOK
      <4>2. \A c \in PagesOf(r) : place'[c] = "settled" /\ tries'[c] = tries[c]
        BY <1>1, <2>4
      <4>3. \E c \in PagesOf(r) : PageOk(c)'
        BY <1>1, <1>3, <4>2 DEF Usable, PageOk, LastTry
      <4>. QED
        BY <3>1, <4>1, <4>2, <4>3 DEF RunInv, PagesOf
    <3>2. CASE s # r
      <4>1. RunInv(s) /\ stage'[s] = stage[s]
        BY <1>1, <2>1, <3>2 DEF IndInv, TypeOK
      <4>2. \A c \in Calls : c[1] = s => place'[c] = place[c] /\ tries'[c] = tries[c]
        BY <1>1, <2>4, <3>2
      <4>. QED
        BY <4>1, <4>2, OtherRun
    <3>. QED
      BY <3>1, <3>2
  <2>. QED
    BY <2>2, <2>3, <2>5 DEF IndInv
<1>. QED
  BY <1>2, <1>3
-----------------------------------------------------------------------------
(***************************************************************************)
(* The invariant and the theorems.                                         *)
(***************************************************************************)

\* The invariant holds before any pipeline starts.
LEMMA InitInv == Init => IndInv
<1>. SUFFICES ASSUME Init PROVE IndInv
  OBVIOUS
<1>1. TypeOK
  BY DEF Init, TypeOK, Places
<1>2. ASSUME NEW c \in Calls PROVE CallInv(c)
  <2>1. place[c] = "absent" /\ tries[c] = <<>> /\ reply[c] = "none"
    BY DEF Init
  <2>2. queue = {} /\ working = {}
    BY DEF Init
  <2>. QED
    BY <2>1, <2>2 DEF CallInv, PoolOf, AnswerHeld, TriesFit
<1>3. ASSUME NEW r \in Runs PROVE RunInv(r)
  BY CallPairs DEF Init, RunInv
<1>. QED
  BY <1>1, <1>2, <1>3 DEF IndInv

\* A page is scraped, an answer arrives or a backoff ends.
LEMMA CallStepKeeps ==
  ASSUME IndInv, NEW c \in Calls, CallStep(c)
  PROVE  IndInv'
<1>1. TypeOK /\ CallInv(c)
  BY DEF IndInv
<1>2. CASE ScrapeOne(c) \/ Retry(c)
  <2>1. /\ Submit(c) /\ place[c] \in {"waiting", "sleeping"}
        /\ UNCHANGED <<stage, result, tries, reply, working>>
    BY <1>2 DEF ScrapeOne, Retry
  <2>2. /\ place' \in [Calls -> Places] /\ queue' \subseteq Jobs
        /\ \A d \in Calls : CallInv(d)'
    BY <2>1, SubmitKeeps
  <2>3. TypeOK'
    BY <1>1, <2>1, <2>2 DEF TypeOK
  <2>4. StepOf(c)
    BY <1>1, <2>1 DEF StepOf, Submit, TypeOK, Current
  <2>5. place'[c] = "awaiting"
    BY <1>1, <2>1 DEF Submit, TypeOK
  <2>6. \A r \in Runs : RunInv(r)'
    BY <2>1, <2>4, <2>5, RunsKept DEF Active
  <2>. QED
    BY <2>2, <2>3, <2>6 DEF IndInv
<1>3. CASE Deliver(c)
  <2>. DEFINE v == reply[c]
  <2>1. /\ v # "none" /\ AttemptEnds(c, v) /\ UNCHANGED <<queue, working>>
        /\ place[c] = "awaiting"
    BY <1>3 DEF Deliver, AttemptEnds
  <2>2. v \in Replies \cup {"malformed"}
    BY <1>1, <2>1 DEF TypeOK
  <2>3. Current(c) \notin queue /\ Current(c) \notin working
    BY <1>1, <2>1 DEF CallInv, AnswerHeld
  <2>4. queue' = Withdraw({c})
    <3>1. ASSUME NEW j \in queue PROVE j[1] # c
      <4>1. j = <<j[1], j[2]>> /\ j[2] \in Nat
        BY <1>1, JobPairs DEF TypeOK
      <4>. QED
        BY <1>1, <2>3, <4>1 DEF CallInv, PoolOf, Current
    <3>. QED
      BY <2>1, <3>1 DEF Withdraw
  <2>. HIDE DEF v
  <2>5. /\ TypeOK' /\ StepOf(c) /\ place'[c] \in {"sleeping", "settled"}
        /\ \A r \in Runs : stage'[r] \in {stage[r], "over"}
        /\ \A d \in Calls : CallInv(d)'
    BY <2>1, <2>2, <2>3, <2>4, AttemptKeeps
  <2>6. \A r \in Runs : RunInv(r)'
    BY <2>1, <2>5, RunsKept DEF Active
  <2>. QED
    BY <2>5, <2>6 DEF IndInv
<1>. QED
  BY <1>2, <1>3 DEF CallStep

\* wait_for gives up.
LEMMA TimeOutKeeps ==
  ASSUME IndInv, NEW c \in Calls, TimeOut(c)
  PROVE  IndInv'
<1>1. /\ AttemptEnds(c, "timeout") /\ place[c] = "awaiting"
      /\ queue' = Withdraw({c}) /\ working' = working
  BY DEF TimeOut, AttemptEnds
<1>2. "timeout" \in Replies \cup {"malformed"}
  BY DEF Replies
<1>3. /\ TypeOK' /\ StepOf(c) /\ place'[c] \in {"sleeping", "settled"}
      /\ \A r \in Runs : stage'[r] \in {stage[r], "over"}
      /\ \A d \in Calls : CallInv(d)'
  BY <1>1, <1>2, AttemptKeeps
<1>4. \A r \in Runs : RunInv(r)'
  BY <1>1, <1>3, RunsKept DEF Active
<1>. QED
  BY <1>3, <1>4 DEF IndInv

\* Nothing that a run depends on changes in the pool.
LEMMA PoolKeeps ==
  ASSUME IndInv, Pool
  PROVE  IndInv'
<1>1. TypeOK' /\ (\A d \in Calls : CallInv(d)') /\ UNCHANGED <<stage, place, tries>>
  <2>1. CASE \E j \in queue : Take(j)
    BY <2>1, TakeKeeps DEF Take
  <2>2. CASE \E j \in working : \E v \in RepliesTo(j[1]) : Answer(j, v)
    <3>1. PICK j \in working : \E v \in RepliesTo(j[1]) : Answer(j, v)
      BY <2>2
    <3>2. PICK v \in RepliesTo(j[1]) : Answer(j, v)
      BY <3>1
    <3>3. v \in Replies \cup {"malformed"}
      BY <3>2, PipelineAssumption DEF RepliesTo
    <3>. QED
      BY <3>2, <3>3, AnswerKeeps DEF Answer
  <2>. QED
    BY <2>1, <2>2 DEF Pool
<1>2. ASSUME NEW r \in Runs PROVE RunInv(r)'
  <2>1. RunInv(r) /\ stage' = stage /\ place' = place /\ tries' = tries
    BY <1>1 DEF IndInv
  <2>. QED
    BY <2>1, OtherRun
<1>. QED
  BY <1>1, <1>2 DEF IndInv

\* Every step keeps the invariant.
LEMMA NextKeeps == IndInv /\ [Next]_vars => IndInv'
<1>. SUFFICES ASSUME IndInv, [Next]_vars PROVE IndInv'
  OBVIOUS
<1>1. CASE Pool
  BY <1>1, PoolKeeps
<1>2. CASE \E c \in Calls : CallStep(c) \/ TimeOut(c)
  BY <1>2, CallStepKeeps, TimeOutKeeps
<1>3. CASE \E r \in Runs : Begin(r) \/ Synthesise(r) \/ Abort(r)
  BY <1>3, BeginKeeps, SynthesiseKeeps, AbortKeeps
<1>4. CASE UNCHANGED vars
  <2>1. UNCHANGED <<stage, result, place, tries, reply, queue, working>>
    BY <1>4 DEF vars
  <2>2. TypeOK'
    BY <2>1 DEF IndInv, TypeOK
  <2>3. ASSUME NEW d \in Calls PROVE CallInv(d)'
    <3>1. CallInv(d) /\ Len(tries[d]) \in Nat
      BY DEF IndInv, TypeOK
    <3>. QED
      BY <2>1, <3>1, Frame
  <2>4. ASSUME NEW r \in Runs PROVE RunInv(r)'
    <3>1. RunInv(r)
      BY DEF IndInv
    <3>. QED
      BY <2>1, <3>1, OtherRun
  <2>. QED
    BY <2>2, <2>3, <2>4 DEF IndInv
<1>. QED
  BY <1>1, <1>2, <1>3, <1>4 DEF Next

\* The invariant is one of the specification.
THEOREM Invariance == Spec => []IndInv
<1>1. Init => IndInv
  BY InitInv
<1>2. IndInv /\ [Next]_vars => IndInv'
  BY NextKeeps
<1>. QED
  BY <1>1, <1>2, PTL DEF Spec

\* Every variable keeps to its type; in particular the pool only ever holds
\* jobs of attempts that call_with_retry may make.
THEOREM TypeCorrect == Spec => []TypeOK
<1>1. IndInv => TypeOK
  BY DEF IndInv
<1>. QED
  BY <1>1, Invariance, PTL

\* No thread takes up work that nobody awaits, and one that is left with such
\* work has an attempt that timed out or a call that was cancelled.
THEOREM ThreadsAreAccounted == Spec => []ThreadsAccounted
<1>1. IndInv => ThreadsAccounted
  <2>. SUFFICES ASSUME IndInv PROVE ThreadsAccounted
    OBVIOUS
  <2>1. ASSUME NEW j \in queue \cup working
        PROVE  /\ j = <<j[1], j[2]>> /\ j[2] \in Nat
               /\ PoolOf(j[1]) /\ Current(j[1]) = <<j[1], Len(tries[j[1]]) + 1>>
    BY JobPairs DEF IndInv, TypeOK, CallInv, Current
  <2>2. ASSUME NEW j \in queue
        PROVE  place[j[1]] = "awaiting" /\ j = Current(j[1])
    BY <2>1 DEF PoolOf
  <2>3. ASSUME NEW j \in working
        PROVE  \/ j[2] \in TimedOut(j[1])
               \/ j = Current(j[1]) /\ place[j[1]] \in {"awaiting", "cancelled"}
    BY <2>1 DEF PoolOf
  <2>. QED
    BY <2>2, <2>3 DEF ThreadsAccounted
<1>. QED
  BY <1>1, Invariance, PTL

\* An awaited attempt is queued, on a thread or answered, and only one of
\* these, whatever times out, is retried or is cancelled around it.
THEOREM NoAnswersLost == Spec => []NoAnswerLost
<1>1. IndInv => NoAnswerLost
  BY DEF IndInv, CallInv, AnswerHeld, NoAnswerLost
<1>. QED
  BY <1>1, Invariance, PTL

\* The LLM is never called before every page has its outcome, nor for a run
\* none of whose pages has text in it.
THEOREM LLMIsGrounded == Spec => []LLMGrounded
<1>1. IndInv => LLMGrounded
  BY DEF IndInv, RunInv, LLMGrounded
<1>. QED
  BY <1>1, Invariance, PTL

\* An attempt follows only a timeout or a retryable error, and such a failure
\* is final only when the attempts are used up.
THEOREM RetriesAreJustified == Spec => []RetriesJustified
<1>1. IndInv => RetriesJustified
  BY DEF IndInv, CallInv, TriesFit, RetriesJustified
<1>. QED
  BY <1>1, Invariance, PTL
-----------------------------------------------------------------------------
(***************************************************************************)
(* A run that is over is quiet, unless one of its pages broke it.          *)
(***************************************************************************)

\* QuietAfterEnd for one run.
Quiet(r) ==
  stage[r] = "over" =>
    \A c \in Calls : c[1] = r /\ place[c] \in Active => c[2] # LLM /\ BrokenByPage(r)

\* What ends no run, settles for good, and starts nothing for a run that is over
\* but what was going on there, keeps the run quiet.
LEMMA QuietKept ==
  ASSUME NEW r \in Runs, Quiet(r), result'[r] = result[r],
         stage'[r] = "over" => stage[r] = "over",
         \A c \in Calls : c[1] = r /\ place[c] = "settled" =>
           place'[c] = place[c] /\ tries'[c] = tries[c],
         \A c \in Calls : c[1] = r /\ stage[r] = "over" /\ place'[c] \in Active =>
           place[c] \in Active
  PROVE  Quiet(r)'
<1>. SUFFICES ASSUME stage'[r] = "over", NEW c \in Calls, c[1] = r, place'[c] \in Active
              PROVE  c[2] # LLM /\ BrokenByPage(r)'
  BY DEF Quiet, Active
<1>1. c[2] # LLM /\ BrokenByPage(r)
  BY DEF Quiet
<1>2. PICK d \in PagesOf(r) : place[d] = "settled" /\ LastTry(d) = "malformed"
  BY <1>1 DEF BrokenByPage
<1>3. d \in Calls /\ d[1] = r
  BY CallPairs
<1>4. place'[d] = "settled" /\ LastTry(d)' = "malformed"
  BY <1>2, <1>3 DEF LastTry
<1>5. PagesOf(r)' = PagesOf(r)
  BY DEF PagesOf
<1>6. result'[r] = "internal_error"
  BY <1>1 DEF BrokenByPage
<1>. QED
  BY <1>1, <1>4, <1>5, <1>6 DEF BrokenByPage

\* The end of an attempt ends its run quietly, or as a page that broke it.
LEMMA AttemptQuiet ==
  ASSUME IndInv, NEW c \in Calls, NEW v \in Replies \cup {"malformed"},
         AttemptEnds(c, v), NEW r \in Runs, Quiet(r)
  PROVE  Quiet(r)'
<1>. DEFINE ends == ~TriesAgain(c, v) /\ stage[c[1]] # "over"
                    /\ (c[2] = LLM \/ v = "malformed")
<1>1. /\ TypeOK /\ place[c] = "awaiting" /\ c[1] \in Runs /\ RunInv(c[1])
      /\ tries[c] \in Seq(Replies \cup {"malformed"})
  BY CallPairs DEF IndInv, TypeOK, AttemptEnds
<1>2. /\ place'[c] = IF TriesAgain(c, v) THEN "sleeping" ELSE "settled"
      /\ \A d \in Calls : d # c => place'[d] = place[d] /\ tries'[d] = tries[d]
      /\ stage' = IF ends THEN [stage EXCEPT ![c[1]] = "over"] ELSE stage
      /\ result' = IF ends THEN [result EXCEPT ![c[1]] = LLMResult(v)] ELSE result
  BY <1>1 DEF AttemptEnds, Settles, TypeOK
<1>3. \A d \in Calls : place[d] = "settled" => place'[d] = place[d] /\ tries'[d] = tries[d]
  BY <1>1, <1>2
<1>4. \A d \in Calls : place'[d] \in Active => place[d] \in Active
  BY <1>1, <1>2 DEF Active
<1>5. CASE ~ends \/ r # c[1]
  <2>1. result'[r] = result[r] /\ stage'[r] = stage[r]
    BY <1>1, <1>2, <1>5 DEF TypeOK
  <2>. QED
    BY <1>3, <1>4, <2>1, QuietKept
<1>6. CASE ends /\ r = c[1] /\ c[2] = LLM
  <2>1. c = <<r, LLM>> /\ place'[c] = "settled"
    BY <1>2, <1>6, CallPairs
  <2>2. \A d \in Calls : d[1] = r => d = c \/ place[d] = "settled"
    BY <1>1, <1>6, <2>1, CallPairs DEF RunInv
  <2>3. \A d \in Calls : d[1] = r => place'[d] \notin Active
    BY <1>3, <2>1, <2>2 DEF Active
  <2>. QED
    BY <2>3 DEF Quiet, Active
<1>7. CASE ends /\ r = c[1] /\ c[2] # LLM
  <2>1. v = "malformed" /\ place'[c] = "settled"
    BY <1>2, <1>7
  <2>2. c \in PagesOf(r) /\ <<r, LLM>> \in Calls
    BY <1>7, CallPairs
  <2>3. result'[r] = "internal_error"
    BY <1>1, <1>2, <1>7, <2>1 DEF TypeOK, LLMResult
  <2>4. LastTry(c)' = "malformed"
    <3>1. tries'[c] = Append(tries[c], v)
      BY <1>1 DEF AttemptEnds, TypeOK
    <3>. QED
      BY <1>1, <2>1, <3>1, AppendTry DEF LastTry
  <2>5. BrokenByPage(r)'
    BY <2>1, <2>2, <2>3, <2>4 DEF BrokenByPage, PagesOf
  <2>6. place[<<r, LLM>>] = "absent"
    BY <1>1, <1>7, <2>2 DEF RunInv
  <2>7. ASSUME NEW d \in Calls, d[1] = r, place'[d] \in Active PROVE d[2] # LLM
    <3>1. d = <<r, LLM>> => place[d] \notin Active
      BY <2>6 DEF Active
    <3>. QED
      BY <1>4, <2>7, <3>1, CallPairs
  <2>. QED
    BY <2>5, <2>7 DEF Quiet, Active
<1>. QED
  BY <1>5, <1>6, <1>7

\* Every step leaves every run quiet that is over.
LEMMA QuietKeeps ==
  ASSUME IndInv, [Next]_vars, NEW r \in Runs, Quiet(r)
  PROVE  Quiet(r)'
<1>0. TypeOK /\ RunInv(r) /\ <<r, LLM>> \in Calls /\ <<r, LLM>>[1] = r
  BY CallPairs DEF IndInv
<1>1. CASE Pool \/ UNCHANGED vars
  <2>1. UNCHANGED <<stage, result, place, tries>>
    BY <1>1 DEF Pool, Take, Answer, vars
  <2>. QED
    BY <2>1, QuietKept
<1>2. ASSUME NEW c \in Calls, ScrapeOne(c) \/ Retry(c) PROVE Quiet(r)'
  <2>1. /\ UNCHANGED <<stage, result, tries>>
        /\ place[c] \in {"waiting", "sleeping"}
        /\ place' = [place EXCEPT ![c] = "awaiting"]
    BY <1>2 DEF ScrapeOne, Retry, Submit
  <2>2. \A d \in Calls : d # c => place'[d] = place[d]
    BY <1>0, <2>1 DEF TypeOK
  <2>. QED
    BY <2>1, <2>2, QuietKept DEF Active
<1>3. ASSUME NEW c \in Calls, Deliver(c) \/ TimeOut(c) PROVE Quiet(r)'
  <2>1. PICK v \in Replies \cup {"malformed"} : AttemptEnds(c, v)
    BY <1>0, <1>3 DEF Deliver, TimeOut, TypeOK, Replies
  <2>. QED
    BY <2>1, AttemptQuiet
<1>4. ASSUME NEW q \in Runs, Begin(q) PROVE Quiet(r)'
  <2>1. /\ stage[q] = "absent" /\ stage' = [stage EXCEPT ![q] = "scraping"]
        /\ place' = [c \in Calls |-> IF c \in PagesOf(q) THEN "waiting" ELSE place[c]]
        /\ UNCHANGED <<result, tries>>
    BY <1>4 DEF Begin
  <2>2. CASE r = q
    BY <1>0, <2>1, <2>2 DEF TypeOK, Quiet
  <2>3. CASE r # q
    <3>1. stage'[r] = stage[r]
      BY <1>0, <2>1, <2>3 DEF TypeOK
    <3>2. \A d \in Calls : d[1] = r => place'[d] = place[d]
      BY <2>1, <2>3, CallPairs
    <3>. QED
      BY <2>1, <3>1, <3>2, QuietKept
  <2>. QED
    BY <2>2, <2>3
<1>5. ASSUME NEW q \in Runs, Synthesise(q) PROVE Quiet(r)'
  <2>1. /\ stage[q] = "scraping" /\ UNCHANGED tries
        /\ \A c \in PagesOf(q) : place[c] = "settled"
    BY <1>5 DEF Synthesise, ScrapeDone
  <2>2. RunInv(q) /\ place[<<q, LLM>>] = "absent"
    BY <2>1 DEF IndInv, RunInv
  <2>3. CASE r = q
    <3>1. CASE Usable(q) = {}
      <4>1. UNCHANGED place
        BY <1>5, <3>1 DEF Synthesise
      <4>2. \A d \in Calls : d[1] = q => place[d] \notin Active
        BY <2>1, <2>2, CallPairs DEF Active
      <4>. QED
        BY <2>3, <4>1, <4>2 DEF Quiet, Active
    <3>2. CASE Usable(q) # {}
      <4>1. stage' = [stage EXCEPT ![q] = "synthesising"]
        BY <1>5, <3>2 DEF Synthesise
      <4>. QED
        BY <1>0, <2>3, <4>1 DEF TypeOK, Quiet
    <3>. QED
      BY <3>1, <3>2
  <2>4. CASE r # q
    <3>1. stage'[r] = stage[r] /\ result'[r] = result[r]
      BY <1>0, <1>5, <2>4 DEF Synthesise, TypeOK
    <3>2. \A d \in Calls : d[1] = r => place'[d] = place[d]
      BY <1>0, <1>5, <2>4, CallPairs DEF Synthesise, Submit, TypeOK
    <3>. QED
      BY <2>1, <3>1, <3>2, QuietKept
  <2>. QED
    BY <2>3, <2>4
<1>6. ASSUME NEW q \in Runs, Abort(q) PROVE Quiet(r)'
  <2>1. /\ stage' = [stage EXCEPT ![q] = "over"]
        /\ result' = [result EXCEPT ![q] = "cancelled"]
        /\ place' = [c \in Calls |-> IF c \in Cancelled(q) THEN "cancelled" ELSE place[c]]
        /\ UNCHANGED tries
    BY <1>6 DEF Abort
  <2>2. CASE r = q
    <3>1. \A d \in Calls : d[1] = r => place'[d] \notin Active
      BY <2>1, <2>2 DEF Cancelled, Active
    <3>. QED
      BY <3>1 DEF Quiet, Active
  <2>3. CASE r # q
    <3>1. stage'[r] = stage[r] /\ result'[r] = result[r]
      BY <1>0, <2>1, <2>3 DEF TypeOK
    <3>2. \A d \in Calls : d[1] = r => place'[d] = place[d]
      BY <2>1, <2>3 DEF Cancelled
    <3>. QED
      BY <2>1, <3>1, <3>2, QuietKept
  <2>. QED
    BY <2>2, <2>3
<1>. QED
  BY <1>1, <1>2, <1>3, <1>4, <1>5, <1>6 DEF Next, CallStep

\* A run that is over has no call that still scrapes, retries or pays, by whatever
\* end but one: a page that raises out of gather() leaves other pages at work.
THEOREM EndsAreQuiet == Spec => []QuietAfterEnd
<1> DEFINE All == \A r \in Runs : Quiet(r)
<1>1. Init => All
  BY DEF Init, Quiet
<1>2. IndInv /\ All /\ [Next]_vars => All'
  BY QuietKeeps
<1>3. All => QuietAfterEnd
  BY CallPairs DEF Quiet, QuietAfterEnd
<1>. QED
  BY <1>1, <1>2, <1>3, Invariance, PTL DEF Spec
-----------------------------------------------------------------------------
(***************************************************************************)
(* The code a client reads.                                                *)
(***************************************************************************)

\* ResultExplained for one run.
Explained(r) ==
  LET llm == <<r, LLM>>
      LLMEnded(V) == place[llm] = "settled" /\ LastTry(llm) \in V
  IN  /\ (stage[r] = "over") = (result[r] # "none")
      /\ result[r] = "all_sources_failed" =>
           /\ place[llm] = "absent"
           /\ \A c \in PagesOf(r) : place[c] = "settled" /\ ~PageOk(c)
      /\ result[r] = "ok" => LLMEnded({"ok"})
      /\ result[r] = "upstream_timeout" => LLMEnded({"timeout"})
      /\ result[r] = "llm_error" => LLMEnded({"transient", "permanent"})
      /\ result[r] = "empty_brief" => LLMEnded({"empty"})
      /\ result[r] = "internal_error" => LLMEnded({"bug"}) \/ BrokenByPage(r)

\* Of the calls only those of the scraper get what cannot be read.
Readable == \A c \in Calls : c[2] = LLM => reply[c] # "malformed"

\* No step brings the LLM's task such an answer.
LEMMA ReadableKept ==
  ASSUME IndInv, Readable, [Next]_vars
  PROVE  Readable'
<1>1. TypeOK
  BY DEF IndInv
<1>2. SUFFICES ASSUME NEW c \in Calls, c[2] = LLM PROVE reply'[c] # "malformed"
  BY DEF Readable
<1>3. reply[c] # "malformed"
  BY <1>2 DEF Readable
<1>4. CASE \E j \in working : \E v \in RepliesTo(j[1]) : Answer(j, v)
  <2>1. PICK j \in working : \E v \in RepliesTo(j[1]) : Answer(j, v)
    BY <1>4
  <2>2. PICK v \in RepliesTo(j[1]) : Answer(j, v)
    BY <2>1
  <2>3. reply' = reply \/ reply' = [reply EXCEPT ![j[1]] = v]
    BY <2>2 DEF Answer
  <2>4. c = j[1] => v # "malformed"
    BY <1>2, <2>2, PipelineAssumption DEF RepliesTo, Replies
  <2>. QED
    BY <1>1, <1>3, <2>3, <2>4 DEF TypeOK
<1>5. CASE \E d \in Calls : Deliver(d) \/ TimeOut(d)
  <2>1. PICK d \in Calls : reply' = [reply EXCEPT ![d] = "none"]
    BY <1>5 DEF Deliver, TimeOut, AttemptEnds
  <2>. QED
    BY <1>1, <1>3, <2>1 DEF TypeOK
<1>6. CASE \E q \in Runs : Abort(q)
  <2>1. reply'[c] \in {reply[c], "none"}
    BY <1>1, <1>6 DEF Abort, TypeOK
  <2>. QED
    BY <1>3, <2>1
<1>7. CASE \/ \E j \in queue : Take(j)
           \/ \E d \in Calls : ScrapeOne(d) \/ Retry(d)
           \/ \E q \in Runs : Begin(q) \/ Synthesise(q)
           \/ UNCHANGED vars
  <2>1. reply' = reply
    BY <1>7 DEF Take, ScrapeOne, Retry, Submit, Begin, Synthesise, vars
  <2>. QED
    BY <1>3, <2>1
<1>. QED
  BY <1>4, <1>5, <1>6, <1>7 DEF Next, Pool, CallStep

\* What keeps a run's result keeps its explanation, for settled calls stay.
LEMMA ExplanationKept ==
  ASSUME NEW r \in Runs, Explained(r), result'[r] = result[r],
         (stage'[r] = "over") = (stage[r] = "over"),
         \A c \in Calls : c[1] = r /\ place[c] = "settled" =>
           place'[c] = place[c] /\ tries'[c] = tries[c],
         place[<<r, LLM>>] = "absent" /\ result[r] = "all_sources_failed" =>
           place'[<<r, LLM>>] = "absent"
  PROVE  Explained(r)'
<1>. DEFINE llm == <<r, LLM>>
<1>1. llm \in Calls /\ llm[1] = r /\ \A c \in PagesOf(r) : c \in Calls /\ c[1] = r
  BY CallPairs
<1>2. ASSUME NEW c \in Calls, c[1] = r, place[c] = "settled"
      PROVE  place'[c] = "settled" /\ LastTry(c)' = LastTry(c)
             /\ (PageOk(c)' <=> PageOk(c))
  BY <1>2 DEF LastTry, PageOk
<1>3. place[llm] = "settled" => place'[llm] = "settled" /\ LastTry(llm)' = LastTry(llm)
  BY <1>1, <1>2
<1>4. ASSUME result[r] = "all_sources_failed"
      PROVE  /\ place'[llm] = "absent"
             /\ \A c \in PagesOf(r) : place'[c] = "settled" /\ ~PageOk(c)'
  <2>1. place[llm] = "absent" /\ \A c \in PagesOf(r) : place[c] = "settled" /\ ~PageOk(c)
    BY <1>4 DEF Explained
  <2>. QED
    BY <1>1, <1>2, <1>4, <2>1
<1>5. PagesOf(r)' = PagesOf(r)
  BY DEF PagesOf
<1>. HIDE DEF llm
<1>6. /\ (stage[r] = "over") = (result[r] # "none")
      /\ result[r] = "ok" => place[llm] = "settled" /\ LastTry(llm) \in {"ok"}
      /\ result[r] = "upstream_timeout" =>
           place[llm] = "settled" /\ LastTry(llm) \in {"timeout"}
      /\ result[r] = "llm_error" =>
           place[llm] = "settled" /\ LastTry(llm) \in {"transient", "permanent"}
      /\ result[r] = "empty_brief" =>
           place[llm] = "settled" /\ LastTry(llm) \in {"empty"}
      /\ result[r] = "internal_error" =>
           \/ place[llm] = "settled" /\ LastTry(llm) \in {"bug"}
           \/ BrokenByPage(r)
  BY DEF Explained, llm
<1>7. /\ (stage'[r] = "over") = (result'[r] # "none")
      /\ result'[r] = "ok" => place'[llm] = "settled" /\ LastTry(llm)' \in {"ok"}
      /\ result'[r] = "upstream_timeout" =>
           place'[llm] = "settled" /\ LastTry(llm)' \in {"timeout"}
      /\ result'[r] = "llm_error" =>
           place'[llm] = "settled" /\ LastTry(llm)' \in {"transient", "permanent"}
      /\ result'[r] = "empty_brief" =>
           place'[llm] = "settled" /\ LastTry(llm)' \in {"empty"}
      /\ result'[r] = "internal_error" =>
           \/ place'[llm] = "settled" /\ LastTry(llm)' \in {"bug"}
           \/ BrokenByPage(r)'
  <2>1. ASSUME BrokenByPage(r) PROVE BrokenByPage(r)'
    <3>1. PICK d \in PagesOf(r) : place[d] = "settled" /\ LastTry(d) = "malformed"
      BY <2>1 DEF BrokenByPage
    <3>2. place'[d] = "settled" /\ LastTry(d)' = "malformed"
      BY <1>1, <1>2, <3>1
    <3>. QED
      BY <1>5, <2>1, <3>2 DEF BrokenByPage
  <2>. QED
    BY <1>3, <1>6, <2>1
<1>. QED
  BY <1>4, <1>5, <1>7 DEF Explained, llm

\* The end of an attempt ends a run with the code of its LLM call, or with
\* internal_error when a page cannot be read.
LEMMA AttemptExplained ==
  ASSUME IndInv, NEW c \in Calls, NEW v \in Replies \cup {"malformed"},
         AttemptEnds(c, v), NEW r \in Runs, Explained(r),
         c[2] = LLM => v # "malformed"
  PROVE  Explained(r)'
<1>. DEFINE ends == ~TriesAgain(c, v) /\ stage[c[1]] # "over"
                    /\ (c[2] = LLM \/ v = "malformed")
<1>1. /\ TypeOK /\ place[c] = "awaiting" /\ c[1] \in Runs
      /\ tries[c] \in Seq(Replies \cup {"malformed"})
  BY CallPairs DEF IndInv, TypeOK, AttemptEnds
<1>2. /\ place'[c] = IF TriesAgain(c, v) THEN "sleeping" ELSE "settled"
      /\ \A d \in Calls : d # c => place'[d] = place[d] /\ tries'[d] = tries[d]
      /\ stage' = IF ends THEN [stage EXCEPT ![c[1]] = "over"] ELSE stage
      /\ result' = IF ends THEN [result EXCEPT ![c[1]] = LLMResult(v)] ELSE result
  BY <1>1 DEF AttemptEnds, Settles, TypeOK
<1>3. \A d \in Calls : place[d] \in {"settled", "absent"} =>
        place'[d] = place[d] /\ tries'[d] = tries[d]
  BY <1>1, <1>2
<1>4. CASE ~ends \/ r # c[1]
  <2>1. result'[r] = result[r] /\ stage'[r] = stage[r]
    BY <1>1, <1>2, <1>4 DEF TypeOK
  <2>2. <<r, LLM>> \in Calls
    BY CallPairs
  <2>. QED
    BY <1>3, <2>1, <2>2, ExplanationKept
<1>5. CASE ends /\ r = c[1]
  <2>1. stage'[r] = "over" /\ result'[r] = LLMResult(v) /\ place'[c] = "settled"
    BY <1>1, <1>2, <1>5 DEF TypeOK
  <2>2. LLMResult(v) \notin {"none", "all_sources_failed"}
    BY DEF LLMResult
  <2>3. LastTry(c)' = v
    <3>1. tries'[c] = Append(tries[c], v)
      BY <1>1 DEF AttemptEnds, TypeOK
    <3>. QED
      BY <1>1, <3>1, AppendTry DEF LastTry
  <2>4. CASE c[2] = LLM
    <3>1. c = <<r, LLM>>
      BY <1>5, <2>4, CallPairs
    <3>2. /\ LLMResult(v) = "ok" => v = "ok"
          /\ LLMResult(v) = "upstream_timeout" => v = "timeout"
          /\ LLMResult(v) = "llm_error" => v \in {"transient", "permanent"}
          /\ LLMResult(v) = "empty_brief" => v = "empty"
          /\ LLMResult(v) = "internal_error" => v = "bug"
      BY <2>4 DEF LLMResult, Replies
    <3>. QED
      BY <2>1, <2>2, <2>3, <3>1, <3>2 DEF Explained
  <2>5. CASE v = "malformed"
    <3>1. result'[r] = "internal_error"
      BY <2>1, <2>5 DEF LLMResult
    <3>2. c \in PagesOf(r)
      BY <1>5, <2>5, CallPairs
    <3>3. BrokenByPage(r)'
      BY <2>1, <2>3, <2>5, <3>1, <3>2 DEF BrokenByPage, PagesOf
    <3>. QED
      BY <2>1, <3>1, <3>3 DEF Explained
  <2>. QED
    BY <1>5, <2>4, <2>5
<1>. QED
  BY <1>4, <1>5

\* Every step keeps every run explained.
LEMMA ExplainedKeeps ==
  ASSUME IndInv, Readable, [Next]_vars, NEW r \in Runs, Explained(r)
  PROVE  Explained(r)'
<1>0. TypeOK /\ RunInv(r) /\ <<r, LLM>> \in Calls /\ <<r, LLM>>[1] = r
  BY CallPairs DEF IndInv
<1>1. CASE Pool \/ UNCHANGED vars
  <2>1. UNCHANGED <<stage, result, place, tries>>
    BY <1>1 DEF Pool, Take, Answer, vars
  <2>. QED
    BY <2>1, ExplanationKept
<1>2. ASSUME NEW c \in Calls, ScrapeOne(c) \/ Retry(c) PROVE Explained(r)'
  <2>1. /\ UNCHANGED <<stage, result, tries>>
        /\ place[c] \in {"waiting", "sleeping"}
        /\ place' = [place EXCEPT ![c] = "awaiting"]
    BY <1>2 DEF ScrapeOne, Retry, Submit
  <2>2. \A d \in Calls : place[d] \in {"settled", "absent"} => place'[d] = place[d]
    BY <1>0, <2>1 DEF TypeOK
  <2>. QED
    BY <1>0, <2>1, <2>2, ExplanationKept
<1>3. ASSUME NEW c \in Calls, Deliver(c) \/ TimeOut(c) PROVE Explained(r)'
  <2>1. PICK v \in Replies \cup {"malformed"} :
             AttemptEnds(c, v) /\ (c[2] = LLM => v # "malformed")
    <3>1. CASE Deliver(c)
      <4>1. reply[c] \in Replies \cup {"malformed"} /\ AttemptEnds(c, reply[c])
        BY <1>0, <3>1 DEF Deliver, TypeOK
      <4>. QED
        BY <4>1 DEF Readable
    <3>2. CASE TimeOut(c)
      <4>1. AttemptEnds(c, "timeout")
        BY <3>2 DEF TimeOut
      <4>. QED
        BY <4>1 DEF Replies
    <3>. QED
      BY <1>3, <3>1, <3>2
  <2>. QED
    BY <2>1, AttemptExplained
<1>4. ASSUME NEW q \in Runs, Begin(q) PROVE Explained(r)'
  <2>1. /\ stage[q] = "absent" /\ stage' = [stage EXCEPT ![q] = "scraping"]
        /\ place' = [c \in Calls |-> IF c \in PagesOf(q) THEN "waiting" ELSE place[c]]
        /\ UNCHANGED <<result, tries>>
    BY <1>4 DEF Begin
  <2>2. \A c \in Calls : c[1] = q => place[c] = "absent"
    BY <2>1 DEF IndInv, RunInv
  <2>3. (stage'[r] = "over") = (stage[r] = "over")
    BY <1>0, <2>1 DEF TypeOK
  <2>4. \A c \in Calls : place[c] = "settled" => place'[c] = place[c]
    BY <2>1, <2>2, CallPairs
  <2>5. place'[<<r, LLM>>] = place[<<r, LLM>>]
    BY <1>0, <2>1 DEF PagesOf, Pages, LLM
  <2>. QED
    BY <2>1, <2>3, <2>4, <2>5, ExplanationKept
<1>5. ASSUME NEW q \in Runs, Synthesise(q) PROVE Explained(r)'
  <2>1. /\ stage[q] = "scraping" /\ tries' = tries
        /\ place[<<q, LLM>>] = "absent"
        /\ \A c \in PagesOf(q) : place[c] = "settled"
    BY <1>5 DEF Synthesise, ScrapeDone, IndInv, RunInv
  <2>2. CASE Usable(q) = {}
    <3>1. /\ stage' = [stage EXCEPT ![q] = "over"] /\ place' = place
          /\ result' = [result EXCEPT ![q] = "all_sources_failed"]
      BY <1>5, <2>2 DEF Synthesise
    <3>2. CASE r # q
      <4>1. result'[r] = result[r] /\ stage'[r] = stage[r]
        BY <1>0, <3>1, <3>2 DEF TypeOK
      <4>. QED
        BY <2>1, <3>1, <4>1, ExplanationKept
    <3>3. CASE r = q
      <4>1. stage'[r] = "over" /\ result'[r] = "all_sources_failed"
        BY <1>0, <3>1, <3>3 DEF TypeOK
      <4>2. \A c \in PagesOf(r) : place'[c] = "settled" /\ ~PageOk(c)'
        BY <2>1, <2>2, <3>1, <3>3 DEF Usable, PageOk, LastTry
      <4>3. PagesOf(r)' = PagesOf(r)
        BY DEF PagesOf
      <4>. QED
        BY <2>1, <3>1, <3>3, <4>1, <4>2, <4>3 DEF Explained
    <3>. QED
      BY <3>2, <3>3
  <2>3. CASE Usable(q) # {}
    <3>1. /\ stage' = [stage EXCEPT ![q] = "synthesising"] /\ result' = result
          /\ place' = [place EXCEPT ![<<q, LLM>>] = "awaiting"]
      BY <1>5, <2>3 DEF Synthesise, Submit
    <3>2. (stage'[r] = "over") = (stage[r] = "over")
      BY <1>0, <2>1, <3>1 DEF TypeOK
    <3>3. \A c \in Calls : place[c] = "settled" => place'[c] = place[c]
      BY <1>0, <2>1, <3>1 DEF TypeOK
    <3>4. result[r] = "all_sources_failed" => r # q
      BY <2>1 DEF Explained
    <3>5. r # q => place'[<<r, LLM>>] = place[<<r, LLM>>]
      BY <1>0, <3>1 DEF TypeOK
    <3>. QED
      BY <2>1, <3>1, <3>2, <3>3, <3>4, <3>5, ExplanationKept
  <2>. QED
    BY <2>2, <2>3
<1>6. ASSUME NEW q \in Runs, Abort(q) PROVE Explained(r)'
  <2>1. /\ stage[q] \in {"scraping", "synthesising"} /\ tries' = tries
        /\ stage' = [stage EXCEPT ![q] = "over"]
        /\ result' = [result EXCEPT ![q] = "cancelled"]
        /\ place' = [c \in Calls |-> IF c \in Cancelled(q) THEN "cancelled" ELSE place[c]]
    BY <1>6 DEF Abort
  <2>2. \A c \in Calls : place[c] \in {"settled", "absent"} => place'[c] = place[c]
    BY <2>1 DEF Cancelled, Active
  <2>3. CASE r # q
    <3>1. result'[r] = result[r] /\ stage'[r] = stage[r]
      BY <1>0, <2>1, <2>3 DEF TypeOK
    <3>. QED
      BY <1>0, <2>1, <2>2, <3>1, ExplanationKept
  <2>4. CASE r = q
    <3>1. stage'[r] = "over" /\ result'[r] = "cancelled"
      BY <1>0, <2>1, <2>4 DEF TypeOK
    <3>. QED
      BY <3>1 DEF Explained
  <2>. QED
    BY <2>3, <2>4
<1>. QED
  BY <1>1, <1>2, <1>3, <1>4, <1>5, <1>6 DEF Next, CallStep

\* The error code a client reads says what happened to the pages and to the
\* LLM call of its run, whatever was retried, timed out or came in too late.
THEOREM ResultsAreExplained == Spec => []ResultExplained
<1> DEFINE All == Readable /\ \A r \in Runs : Explained(r)
<1>1. Init => All
  BY DEF Init, Explained, Readable
<1>2. IndInv /\ All /\ [Next]_vars => All'
  BY ExplainedKeeps, ReadableKept
<1>3. All => ResultExplained
  BY DEF Explained, ResultExplained
<1>. QED
  BY <1>1, <1>2, <1>3, Invariance, PTL DEF Spec

-----------------------------------------------------------------------------
(***************************************************************************)
(* The page semaphore.                                                     *)
(***************************************************************************)

\* The pages that hold a slot of the semaphore, or left a thread at work when
\* they were cancelled.
Holding(r) ==
  {c \in PagesOf(r) : \/ place[c] \in {"awaiting", "sleeping"}
                      \/ place[c] = "cancelled" /\ Current(c) \in working}

\* The semaphore's bound outlives the run: once a page was cancelled no page
\* of its run is waiting any more.
SemaphoreInv(r) ==
  /\ Cardinality(Holding(r)) <= PageSlots
  /\ \A c, d \in PagesOf(r) : place[c] = "cancelled" => place[d] # "waiting"

\* A run has finitely many pages.
LEMMA FinitePages ==
  ASSUME NEW r \in Runs, NEW P \in SUBSET PagesOf(r)
  PROVE  IsFiniteSet(P) /\ Cardinality(P) \in Nat
<1>1. IsFiniteSet(Pages)
  BY PipelineAssumption, FS_Interval DEF Pages
<1>. DEFINE f == [i \in Pages |-> <<r, i>>]
<1>2. f \in Surjection(Pages, PagesOf(r))
  BY DEF Surjection, PagesOf
<1>3. IsFiniteSet(PagesOf(r))
  BY <1>1, <1>2, FS_Surjection
<1>. QED
  BY <1>3, FS_Subset, FS_CardinalityType

\* There is a slot at least.
LEMMA SomeSlot == PageSlots \in Nat /\ PageSlots >= 1
BY PipelineAssumption DEF PageSlots, AtLeastOne

\* Fewer pages at the semaphore are within the bound.
LEMMA FewerHold ==
  ASSUME NEW r \in Runs, SemaphoreInv(r),
         \A c \in PagesOf(r) : c \in Holding(r)' => c \in Holding(r),
         \A c \in PagesOf(r) : place'[c] = "waiting" => place[c] = "waiting",
         \A c \in PagesOf(r) : place'[c] = "cancelled" => place[c] = "cancelled"
  PROVE  SemaphoreInv(r)'
<1>1. PagesOf(r)' = PagesOf(r) /\ PageSlots' = PageSlots
  BY DEF PagesOf, PageSlots
<1>2. Holding(r)' \in SUBSET Holding(r) /\ Holding(r) \in SUBSET PagesOf(r)
  BY <1>1 DEF Holding
<1>3. /\ Cardinality(Holding(r)') <= Cardinality(Holding(r))
      /\ Cardinality(Holding(r)') \in Nat /\ Cardinality(Holding(r)) \in Nat
  <2>1. Holding(r)' \in SUBSET PagesOf(r)
    BY <1>2
  <2>. QED
    BY <1>2, <2>1, FinitePages, FS_Subset
<1>. QED
  BY <1>1, <1>3, SomeSlot DEF SemaphoreInv

\* Steps of a call that leaves its page at the semaphore, or lets it go.
LEMMA HoldsNoMore ==
  ASSUME TypeOK, NEW c \in Calls, place[c] \in {"awaiting", "sleeping"},
         \A d \in Calls : d # c => place'[d] = place[d] /\ tries'[d] = tries[d],
         place'[c] \in {"awaiting", "sleeping", "settled"},
         working' = working,
         NEW r \in Runs, SemaphoreInv(r)
  PROVE  SemaphoreInv(r)'
<1>1. PagesOf(r)' = PagesOf(r) /\ PagesOf(r) \subseteq Calls
  BY CallPairs DEF PagesOf
<1>2. \A d \in PagesOf(r) : d \in Holding(r)' => d \in Holding(r)
  BY <1>1 DEF Holding, Current
<1>. QED
  BY <1>1, <1>2, FewerHold

\* Every step keeps every run within its semaphore.
LEMMA SemaphoreKeeps ==
  ASSUME IndInv, [Next]_vars, NEW r \in Runs, SemaphoreInv(r)
  PROVE  SemaphoreInv(r)'
<1>0. /\ TypeOK /\ RunInv(r) /\ PagesOf(r) \subseteq Calls
      /\ \A c \in PagesOf(r) : c[1] = r /\ CallInv(c)
      /\ PagesOf(r)' = PagesOf(r)
  BY CallPairs DEF IndInv, PagesOf
<1>1. CASE Pool
  <2>1. UNCHANGED <<place, tries>>
    BY <1>1 DEF Pool, Take, Answer
  <2>2. ASSUME NEW c \in PagesOf(r), c \in Holding(r)' PROVE c \in Holding(r)
    <3>1. CASE place[c] = "cancelled"
      <4>1. Current(c) \in working' /\ Current(c)' = Current(c)
        BY <2>1, <2>2, <3>1 DEF Holding, Current
      <4>2. Current(c) \notin queue
        BY <1>0, <3>1 DEF CallInv, PoolOf, Current, TypeOK
      <4>3. Current(c) \in working
        BY <1>1, <4>1, <4>2 DEF Pool, Take, Answer
      <4>. QED
        BY <3>1, <4>3 DEF Holding
    <3>2. CASE place[c] # "cancelled"
      BY <2>1, <2>2, <3>2 DEF Holding
    <3>. QED
      BY <3>1, <3>2
  <2>. QED
    BY <2>1, <2>2, FewerHold
<1>2. ASSUME NEW c \in Calls, Retry(c) PROVE SemaphoreInv(r)'
  BY <1>0, <1>2, HoldsNoMore DEF Retry, Submit, TypeOK
<1>3. ASSUME NEW c \in Calls, Deliver(c) \/ TimeOut(c) PROVE SemaphoreInv(r)'
  <2>1. PICK v : AttemptEnds(c, v)
    BY <1>3 DEF Deliver, TimeOut
  <2>2. working' = working /\ place[c] = "awaiting"
    BY <1>3, <2>1 DEF Deliver, TimeOut, AttemptEnds
  <2>3. /\ place'[c] \in {"sleeping", "settled"}
        /\ \A d \in Calls : d # c => place'[d] = place[d] /\ tries'[d] = tries[d]
    BY <1>0, <2>1 DEF AttemptEnds, Settles, TypeOK
  <2>. QED
    BY <1>0, <2>2, <2>3, HoldsNoMore
<1>4. ASSUME NEW c \in Calls, ScrapeOne(c) PROVE SemaphoreInv(r)'
  <2>1. /\ place[c] = "waiting" /\ place' = [place EXCEPT ![c] = "awaiting"]
        /\ Cardinality(Scraping(c[1])) < PageSlots
        /\ UNCHANGED <<tries, working>>
    BY <1>4 DEF ScrapeOne, Submit
  <2>2. CASE c \notin PagesOf(r)
    <3>1. \A d \in PagesOf(r) : place'[d] = place[d]
      BY <1>0, <2>1, <2>2 DEF TypeOK
    <3>. QED
      BY <1>0, <2>1, <3>1, FewerHold DEF Holding, Current
  <2>3. CASE c \in PagesOf(r)
    <3>1. /\ place'[c] = "awaiting" /\ c[1] = r
          /\ \A d \in PagesOf(r) : d # c => place'[d] = place[d]
      BY <1>0, <2>1, <2>3 DEF TypeOK
    <3>2. \A d \in PagesOf(r) : place[d] # "cancelled" /\ place'[d] # "cancelled"
      BY <2>1, <2>3, <3>1 DEF SemaphoreInv
    <3>3. Holding(r)' = Scraping(r) \cup {c} /\ c \notin Scraping(r)
      BY <1>0, <2>1, <2>3, <3>1, <3>2 DEF Holding, Scraping
    <3>4. Scraping(r) \in SUBSET PagesOf(r)
      BY DEF Scraping
    <3>5. Cardinality(Holding(r)') = Cardinality(Scraping(r)) + 1
      BY <3>3, <3>4, FinitePages, FS_AddElement
    <3>6. Cardinality(Scraping(r)) \in Nat /\ PageSlots' = PageSlots
      BY <3>4, FinitePages DEF PageSlots
    <3>. QED
      BY <1>0, <2>1, <3>1, <3>2, <3>5, <3>6, SomeSlot DEF SemaphoreInv
  <2>. QED
    BY <2>2, <2>3
<1>5. ASSUME NEW q \in Runs, Begin(q) PROVE SemaphoreInv(r)'
  <2>1. /\ stage[q] = "absent" /\ UNCHANGED <<tries, working>>
        /\ place' = [c \in Calls |-> IF c \in PagesOf(q) THEN "waiting" ELSE place[c]]
    BY <1>5 DEF Begin
  <2>2. CASE r # q
    <3>1. \A d \in PagesOf(r) : place'[d] = place[d]
      BY <1>0, <2>1, <2>2, CallPairs
    <3>. QED
      BY <1>0, <2>1, <3>1, FewerHold DEF Holding, Current
  <2>3. CASE r = q
    <3>1. \A d \in PagesOf(r) : place'[d] = "waiting"
      BY <1>0, <2>1, <2>3
    <3>2. Holding(r)' = {}
      BY <1>0, <3>1 DEF Holding
    <3>3. Cardinality({}) = 0 /\ PageSlots' = PageSlots
      BY FS_EmptySet DEF PageSlots
    <3>. QED
      BY <1>0, <3>1, <3>2, <3>3, SomeSlot DEF SemaphoreInv
  <2>. QED
    BY <2>2, <2>3
<1>6. ASSUME NEW q \in Runs, Synthesise(q) PROVE SemaphoreInv(r)'
  <2>1. UNCHANGED <<tries, working>> /\ \A d \in PagesOf(r) : place'[d] = place[d]
    BY <1>0, <1>6, CallPairs DEF Synthesise, Submit, TypeOK
  <2>. QED
    BY <1>0, <2>1, FewerHold DEF Holding, Current
<1>7. ASSUME NEW q \in Runs, Abort(q) PROVE SemaphoreInv(r)'
  <2>1. /\ UNCHANGED <<tries, working>>
        /\ place' = [c \in Calls |-> IF c \in Cancelled(q) THEN "cancelled" ELSE place[c]]
    BY <1>7 DEF Abort
  <2>2. ASSUME NEW d \in PagesOf(r), d \in Holding(r)' PROVE d \in Holding(r)
    <3>1. CASE place[d] = "waiting"
      <4>1. Current(d) \in working /\ Len(tries[d]) = 0 /\ Len(tries[d]) \in Nat
        BY <1>0, <2>1, <2>2, <3>1 DEF Holding, Current, CallInv, TriesFit, TypeOK
      <4>2. Len(tries[d]) + 1 \notin TimedOut(d)
        BY <4>1 DEF TimedOut
      <4>. QED
        BY <1>0, <3>1, <4>1, <4>2 DEF CallInv, PoolOf, Current
    <3>2. CASE place[d] # "waiting"
      BY <1>0, <2>1, <2>2, <3>2 DEF Holding, Current, Cancelled, Active
    <3>. QED
      BY <3>1, <3>2
  <2>3. CASE r # q
    <3>1. \A d \in PagesOf(r) : place'[d] = place[d]
      BY <1>0, <2>1, <2>3 DEF Cancelled
    <3>. QED
      BY <2>2, <3>1, FewerHold
  <2>4. CASE r = q
    <3>1. \A d \in PagesOf(r) : place'[d] # "waiting"
      BY <1>0, <2>1, <2>4 DEF Cancelled, Active
    <3>2. Holding(r)' \in SUBSET Holding(r) /\ Holding(r) \in SUBSET PagesOf(r)
      BY <1>0, <2>2 DEF Holding
    <3>3. /\ Cardinality(Holding(r)') <= Cardinality(Holding(r))
          /\ Cardinality(Holding(r)') \in Nat /\ Cardinality(Holding(r)) \in Nat
      <4>1. Holding(r)' \in SUBSET PagesOf(r)
        BY <3>2
      <4>. QED
        BY <3>2, <4>1, FinitePages, FS_Subset
    <3>4. PageSlots' = PageSlots
      BY DEF PageSlots
    <3>. QED
      BY <1>0, <3>1, <3>3, <3>4, SomeSlot DEF SemaphoreInv
  <2>. QED
    BY <2>3, <2>4
<1>8. CASE UNCHANGED vars
  BY <1>0, <1>8, FewerHold DEF vars, Holding, Current
<1>. QED
  BY <1>1, <1>2, <1>3, <1>4, <1>5, <1>6, <1>7, <1>8 DEF Next, CallStep

\* The jobs counted by ScrapesBounded belong each to another holding page.
LEMMA JobsHold ==
  ASSUME IndInv, NEW r \in Runs, SemaphoreInv(r)
  PROVE  Cardinality({j \in queue \cup working :
                        j[1] \in PagesOf(r) /\ j[2] \notin TimedOut(j[1])})
           <= PageSlots
<1>. DEFINE J == {j \in queue \cup working :
                    j[1] \in PagesOf(r) /\ j[2] \notin TimedOut(j[1])}
            f == [j \in J |-> j[1]]
<1>1. ASSUME NEW j \in J
      PROVE  j = Current(j[1]) /\ j[1] \in Holding(r)
  <2>1. /\ j = <<j[1], j[2]>> /\ j[2] \in Nat /\ j[1] \in PagesOf(r)
        /\ PoolOf(j[1]) /\ j[2] \notin TimedOut(j[1])
    BY JobPairs, CallPairs DEF IndInv, TypeOK, CallInv
  <2>. QED
    BY <2>1 DEF PoolOf, Current, Holding
<1>2. f \in Injection(J, Holding(r))
  <2>1. f \in [J -> Holding(r)]
    BY <1>1
  <2>2. ASSUME NEW i \in J, NEW j \in J, f[i] = f[j] PROVE i = j
    BY <1>1, <2>2
  <2>. QED
    BY <2>1, <2>2 DEF Injection, IsInjective
<1>3. Holding(r) \in SUBSET PagesOf(r)
  BY DEF Holding
<1>4. /\ IsFiniteSet(Holding(r)) /\ Cardinality(Holding(r)) \in Nat
  BY <1>3, FinitePages
<1>5. IsFiniteSet(J) /\ Cardinality(J) <= Cardinality(Holding(r))
  BY <1>2, <1>4, FS_Injection
<1>6. Cardinality(J) \in Nat
  BY <1>5, FS_CardinalityType
<1>. QED
  BY <1>4, <1>5, <1>6, SomeSlot DEF SemaphoreInv

\* Through retries, backoffs and cancellation the pages of a run have no more
\* jobs in the pool than page_concurrency allows, attempts that timed out on a
\* thread apart.
THEOREM ScrapesAreBounded == Spec => []ScrapesBounded
<1>1. Init => \A r \in Runs : SemaphoreInv(r)
  <2>. SUFFICES ASSUME Init, NEW r \in Runs PROVE SemaphoreInv(r)
    OBVIOUS
  <2>1. \A c \in PagesOf(r) : place[c] = "absent"
    BY CallPairs DEF Init
  <2>2. Holding(r) = {}
    BY <2>1 DEF Holding
  <2>. QED
    BY <2>1, <2>2, FS_EmptySet, SomeSlot DEF SemaphoreInv
<1>2. IndInv /\ (\A r \in Runs : SemaphoreInv(r)) /\ [Next]_vars =>
        (\A r \in Runs : SemaphoreInv(r))'
  BY SemaphoreKeeps
<1>3. IndInv /\ (\A r \in Runs : SemaphoreInv(r)) => ScrapesBounded
  BY JobsHold DEF ScrapesBounded
<1>. QED
  BY <1>1, <1>2, <1>3, Invariance, PTL DEF Spec
=============================================================================

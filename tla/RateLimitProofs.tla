-------------------------- MODULE RateLimitProofs --------------------------
(***************************************************************************)
(* Theorems about RateLimit, for every rate, burst and set of clients.     *)
(*                                                                         *)
(* GrantsBounded is not inductive: it does not say what a client may still *)
(* draw.  Account adds the tokens in the bucket to what was drawn since a  *)
(* tick; together they never exceed a full bucket and the refill up to the *)
(* last check.                                                             *)
(*                                                                         *)
(* RetryAfterHonest rests on what a client was told (Told) still being     *)
(* what its bucket asks for, and on bounds for its two roundings.          *)
(***************************************************************************)
EXTENDS RateLimit, TLAPS

\* The account of one client: nothing drawn without a bucket, nothing drawn
\* after the last check, and the balance at every tick up to that check.
Balanced(k) ==
  /\ updated[k] = -1 => \A t \in Times : since[k][t] = 0
  /\ \A t \in Times : t > updated[k] => since[k][t] = 0
  /\ \A t \in 0 .. updated[k] :
       since[k][t] * Unit + tokens[k] <= Full + Refill * (updated[k] - t)

Account == \A k \in Clients : Balanced(k)

\* The inductive invariant.
IndInv == TypeOK /\ Account

\* The units of a full bucket, and products of naturals.
LEMMA Units ==
  /\ Full \in Nat /\ Unit <= Full
  /\ \A d \in Nat : Refill * d \in Nat
<1>1. /\ Burst \in Nat /\ Burst >= 1
      /\ Unit \in Nat /\ Unit >= 1
      /\ Refill \in Nat /\ Refill >= 1
  BY RateAssumption
<1>2. \A a, b \in Nat : a * b \in Nat
  OBVIOUS
<1>3. Full \in Nat
  BY <1>1, <1>2 DEF Full
<1>4. Full = Unit + (Burst - 1) * Unit
  BY <1>1 DEF Full
<1>5. (Burst - 1) * Unit \in Nat
  BY <1>1, <1>2
<1>. QED
  BY <1>1, <1>2, <1>3, <1>4, <1>5

\* Refill over a stretch of time is the sum over its parts.
LEMMA RefillAdds ==
  ASSUME NEW a \in Int, NEW b \in Int, NEW c \in Int
  PROVE  Refill * (a - c) = Refill * (a - b) + Refill * (b - c)
BY RateAssumption

\* No bucket was last checked in the future.
LEMMA CheckedBefore ==
  ASSUME TypeOK, NEW k \in Clients
  PROVE  now \in Nat /\ updated[k] \in Int /\ updated[k] <= now
<1>1. now \in Nat /\ updated[k] \in {-1} \cup (0 .. now)
  BY RateAssumption DEF TypeOK, Times
<1>. QED
  BY <1>1

\* What check() finds: a full bucket at most, and at most what was there and
\* what was refilled since.
LEMMA RefilledBounds ==
  ASSUME TypeOK, NEW k \in Clients
  PROVE  /\ Refilled(k) \in 0 .. Full
         /\ updated[k] # -1 =>
              Refilled(k) <= tokens[k] + Refill * (now - updated[k])
<1>1. CASE updated[k] = -1
  BY <1>1, Units DEF Refilled
<1>2. CASE updated[k] # -1
  <2>1. now - updated[k] \in Nat /\ tokens[k] \in 0 .. Full
    BY <1>2 DEF TypeOK, Times
  <2>2. Refill * (now - updated[k]) \in Nat
    BY <2>1, Units
  <2>. DEFINE gain == Refill * (now - updated[k])
  <2>3. Refilled(k) = Least(Full, tokens[k] + gain)
    BY <1>2 DEF Refilled
  <2>. HIDE DEF gain
  <2>4. gain \in Nat
    BY <2>2 DEF gain
  <2>5. Refilled(k) \in 0 .. Full /\ Refilled(k) <= tokens[k] + gain
    BY <2>1, <2>3, <2>4, Units DEF Least
  <2>. QED
    BY <2>5 DEF gain
<1>. QED
  BY <1>1, <1>2

\* What was drawn, with what check() finds, is still covered now.
LEMMA StillCovered ==
  ASSUME IndInv, NEW k \in Clients, NEW t \in 0 .. now
  PROVE  since[k][t] * Unit + Refilled(k) <= Full + Refill * (now - t)
<1>1. /\ now \in Nat /\ now <= Horizon /\ t \in Nat /\ t <= now /\ t \in Times
      /\ since[k][t] \in Nat /\ tokens[k] \in Nat
      /\ updated[k] \in {-1} \cup (0 .. now)
      /\ Unit \in Nat /\ Refill * (now - t) \in Nat
  BY Units, RateAssumption DEF IndInv, TypeOK, Times, Full
<1>2. CASE t > updated[k]
  <2>1. since[k][t] = 0
    BY <1>1, <1>2 DEF IndInv, Account, Balanced
  <2>2. since[k][t] * Unit = 0
    BY <1>1, <2>1
  <2>. QED
    BY <1>1, <2>2, RefilledBounds, Units DEF IndInv
<1>3. CASE ~(t > updated[k])
  <2>1. updated[k] \in 0 .. now /\ t \in 0 .. updated[k]
    BY <1>1, <1>3
  <2>2. since[k][t] * Unit + tokens[k] <= Full + Refill * (updated[k] - t)
    BY <2>1 DEF IndInv, Account, Balanced
  <2>3. Refilled(k) \in Nat /\ Refilled(k) <= tokens[k] + Refill * (now - updated[k])
    BY <2>1, RefilledBounds DEF IndInv
  <2>4. Refill * (now - t) = Refill * (now - updated[k]) + Refill * (updated[k] - t)
    <3>1. now \in Int /\ updated[k] \in Int /\ t \in Int
      BY <1>1, <2>1
    <3>. QED
      BY <3>1, RefillAdds
  <2>5. Refill * (now - updated[k]) \in Nat /\ Refill * (updated[k] - t) \in Nat
    BY <1>1, <2>1, Units
  <2>6. since[k][t] * Unit \in Nat
    BY <1>1
  <2>. QED
    BY <1>1, <2>2, <2>3, <2>4, <2>5, <2>6, Units
<1>. QED
  BY <1>2, <1>3

\* A check that lets k in keeps the account of k.
LEMMA AllowBalances ==
  ASSUME IndInv, NEW k \in Clients, Allow(k)
  PROVE  TypeOK' /\ Balanced(k)'
<1>1. /\ Refilled(k) \in 0 .. Full /\ Refilled(k) >= Unit /\ now \in Times
      /\ Unit \in Nat /\ Full \in Nat
  BY RefilledBounds, Units, RateAssumption DEF Allow, Enough, IndInv, TypeOK
<1>2. /\ tokens' \in [Clients -> 0 .. Full] /\ tokens'[k] = Refilled(k) - Unit
      /\ updated' \in [Clients -> {-1} \cup (0 .. now)] /\ updated'[k] = now
  BY <1>1 DEF Allow, IndInv, TypeOK, Times
<1>3. /\ since' \in [Clients -> [Times -> Nat]]
      /\ \A t \in Times : since'[k][t] = IF t <= now THEN since[k][t] + 1
                                         ELSE since[k][t]
  BY DEF Allow, IndInv, TypeOK
<1>4. TypeOK'
  BY <1>1, <1>2, <1>3 DEF Allow, IndInv, TypeOK
<1>5. ASSUME NEW t \in Times, t > now PROVE since'[k][t] = 0
  <2>1. now \in Nat /\ updated[k] \in Int /\ updated[k] <= now /\ t \in Int
    BY CheckedBefore DEF IndInv, Times
  <2>2. since[k][t] = 0
    BY <1>5, <2>1 DEF IndInv, Account, Balanced
  <2>3. ~(t <= now)
    BY <1>5, <2>1
  <2>. QED
    BY <1>3, <2>2, <2>3
<1>6. ASSUME NEW t \in 0 .. now
      PROVE  since'[k][t] * Unit + tokens'[k] <= Full + Refill * (now - t)
  <2>1. since[k][t] * Unit + Refilled(k) <= Full + Refill * (now - t)
    BY <1>6, StillCovered
  <2>2. t \in Times /\ since[k][t] \in Nat /\ since'[k][t] = since[k][t] + 1
    <3>1. t \in Times /\ t <= now
      BY <1>1, <1>6, RateAssumption DEF Times
    <3>2. since[k][t] \in Nat
      BY <3>1 DEF IndInv, TypeOK
    <3>. QED
      BY <1>3, <3>1, <3>2
  <2>3. (since[k][t] + 1) * Unit = since[k][t] * Unit + Unit
    BY <1>1, <2>2
  <2>4. since[k][t] * Unit \in Nat /\ Refill * (now - t) \in Nat
    BY <1>1, <1>6, <2>2, Units DEF Times
  <2>. QED
    BY <1>1, <1>2, <2>1, <2>2, <2>3, <2>4
<1>7. now' = now /\ updated'[k] # -1
  BY <1>1, <1>2 DEF Allow, Times
<1>. QED
  BY <1>2, <1>4, <1>5, <1>6, <1>7 DEF Balanced

\* So does a check that turns k away.
LEMMA RefuseBalances ==
  ASSUME IndInv, NEW k \in Clients, Refuse(k)
  PROVE  TypeOK' /\ Balanced(k)'
<1>1. Refilled(k) \in 0 .. Full /\ now \in Times /\ Full \in Nat
  BY RefilledBounds, Units DEF IndInv, TypeOK
<1>2. /\ tokens' \in [Clients -> 0 .. Full] /\ tokens'[k] = Refilled(k)
      /\ updated' \in [Clients -> {-1} \cup (0 .. now)] /\ updated'[k] = now
  BY <1>1 DEF Refuse, IndInv, TypeOK, Times
<1>3. RetryAfter(Refilled(k)) \in Nat
  <2>. DEFINE rate == Refill * Second
              h    == (200 * (Unit - Refilled(k)) + rate) \div (2 * rate)
  <2>1. h \div 100 \in Int => RetryAfter(Refilled(k)) \in Nat
    BY DEF RetryAfter
  <2>2. rate \in Nat /\ rate > 0
    BY RateAssumption
  <2>3. h \in Int
    <3>. HIDE DEF rate
    <3>1. Unit - Refilled(k) \in Int
      BY <1>1, RateAssumption
    <3>2. 2 * rate \in Nat /\ 2 * rate > 0 /\ 200 * (Unit - Refilled(k)) + rate \in Int
      BY <2>2, <3>1
    <3>. QED
      BY <3>2
  <2>. HIDE DEF h
  <2>4. h \div 100 \in Int
    BY <2>3
  <2>. QED
    BY <2>1, <2>4
<1>4. TypeOK'
  BY <1>1, <1>2, <1>3 DEF Refuse, IndInv, TypeOK
<1>5. \A t \in Times : t > now => since'[k][t] = 0
  <2>1. \A t \in Times : t > now => t > updated[k]
    BY CheckedBefore DEF IndInv, Times
  <2>. QED
    BY <2>1 DEF Refuse, IndInv, Account, Balanced
<1>6. \A t \in 0 .. now :
        since'[k][t] * Unit + tokens'[k] <= Full + Refill * (now - t)
  BY <1>2, StillCovered DEF Refuse
<1>7. now' = now /\ updated'[k] # -1
  BY <1>1, <1>2 DEF Refuse, Times
<1>. QED
  BY <1>2, <1>4, <1>5, <1>6, <1>7 DEF Balanced

\* A check of k leaves every other account alone.
LEMMA OthersUntouched ==
  ASSUME IndInv, NEW k \in Clients, Allow(k) \/ Refuse(k),
         NEW q \in Clients, q # k
  PROVE  Balanced(q)'
<1>1. /\ tokens'[q] = tokens[q] /\ updated'[q] = updated[q]
      /\ since'[q] = since[q]
  BY DEF Allow, Refuse, IndInv, TypeOK
<1>. QED
  BY <1>1 DEF IndInv, Account, Balanced

\* IndInv is an invariant.
THEOREM Invariance == Spec => []IndInv
<1>1. Init => IndInv
  <2>. SUFFICES ASSUME Init PROVE IndInv
    OBVIOUS
  <2>1. TypeOK
    BY Units, RateAssumption DEF Init, TypeOK, Times
  <2>2. ASSUME NEW k \in Clients PROVE Balanced(k)
    <3>1. 0 .. updated[k] = {} /\ \A t \in Times : since[k][t] = 0
      BY DEF Init
    <3>. QED
      BY <3>1 DEF Balanced
  <2>. QED
    BY <2>1, <2>2 DEF IndInv, Account
<1>2. IndInv /\ [Next]_vars => IndInv'
  <2>. SUFFICES ASSUME IndInv, [Next]_vars PROVE IndInv'
    OBVIOUS
  <2>1. ASSUME NEW k \in Clients, Allow(k) \/ Refuse(k) PROVE IndInv'
    <3>1. TypeOK' /\ Balanced(k)'
      BY <2>1, AllowBalances, RefuseBalances
    <3>2. \A q \in Clients : q # k => Balanced(q)'
      BY <2>1, OthersUntouched
    <3>. QED
      BY <3>1, <3>2 DEF IndInv, Account
  <2>2. ASSUME Tick PROVE IndInv'
    <3>1. TypeOK'
      BY <2>2, RateAssumption DEF Tick, IndInv, TypeOK, Times
    <3>2. ASSUME NEW k \in Clients PROVE Balanced(k)'
      BY <2>2 DEF Tick, IndInv, Account, Balanced
    <3>. QED
      BY <3>1, <3>2 DEF IndInv, Account
  <2>3. CASE UNCHANGED vars
    BY <2>3 DEF vars, IndInv, TypeOK, Account, Balanced
  <2>. QED
    BY <2>1, <2>2, <2>3 DEF Next
<1>. QED
  BY <1>1, <1>2, PTL DEF Spec

\* The variables keep their types: no bucket is overdrawn or overfull.
THEOREM TypeCorrect == Spec => []TypeOK
BY Invariance, PTL DEF IndInv

\* No stretch of time sees more runs of a client than a full bucket and its
\* refill pay for.
THEOREM GrantsAreBounded == Spec => []GrantsBounded
<1>1. IndInv => GrantsBounded
  <2>. SUFFICES ASSUME IndInv, NEW k \in Clients, NEW t \in 0 .. now
                PROVE  since[k][t] * Unit <= Full + Refill * (now - t)
    BY DEF GrantsBounded
  <2>1. since[k][t] * Unit + Refilled(k) <= Full + Refill * (now - t)
    BY StillCovered
  <2>2. Refilled(k) \in Nat
    BY RefilledBounds DEF IndInv
  <2>3. since[k][t] \in Nat /\ Unit \in Nat /\ now - t \in Nat
    BY RateAssumption DEF IndInv, TypeOK, Times
  <2>4. since[k][t] * Unit \in Nat /\ Refill * (now - t) \in Nat /\ Full \in Nat
    BY <2>3, Units
  <2>. QED
    BY <2>1, <2>2, <2>4
<1>. QED
  BY <1>1, Invariance, PTL

-----------------------------------------------------------------------------
\* Integer division rounds down.
LEMMA DivBounds ==
  ASSUME NEW a \in Nat, NEW b \in Nat \ {0}
  PROVE  a \div b \in Nat /\ b * (a \div b) <= a /\ a < b * (a \div b) + b
OBVIOUS

\* A client is told how long its bucket takes to hold a token, to within a second.
LEMMA RetryAfterIs ==
  ASSUME NEW u \in Nat, u < Unit
  PROVE  LET s    == RetryAfter(u)
             rate == Refill * Second
         IN  /\ s \in Nat \ {0}
             /\ Unit - u < rate * (s + 1)
             /\ rate * (s - 1) < Unit - u
<1> DEFINE rate == Refill * Second
           m == Unit - u
           h == (200 * m + rate) \div (2 * rate)
           seconds == h \div 100
           s == IF seconds > 1 THEN seconds ELSE 1
<1>1. RetryAfter(u) = s
  BY DEF RetryAfter
<1>2. rate \in Nat \ {0}
  BY RateAssumption
<1>3. m \in Nat \ {0}
  BY RateAssumption
<1> HIDE DEF rate, m
<1>4. h \in Nat /\ (2 * rate) * h <= 200 * m + rate /\ 200 * m + rate < (2 * rate) * h + 2 * rate
  <2>1. 200 * m + rate \in Nat /\ 2 * rate \in Nat \ {0}
    BY <1>2, <1>3
  <2> QED
    BY <2>1, DivBounds
<1> HIDE DEF h
<1>5. seconds \in Nat /\ 100 * seconds <= h /\ h < 100 * seconds + 100
  BY <1>4
<1> HIDE DEF seconds
<1>6. s \in Nat \ {0} /\ h <= 100 * s + 99 /\ (s = 1 \/ 100 * s <= h)
  BY <1>4, <1>5
<1> HIDE DEF s
<1> DEFINE p == rate * s
           x == rate * h
<1>7. p \in Nat /\ x \in Nat /\ (2 * rate) * h = 2 * x
  BY <1>2, <1>4, <1>6
<1>8. x <= 100 * p + 99 * rate
  <2>1. rate * (100 * s + 99) = 100 * p + 99 * rate
    BY <1>2, <1>6
  <2>2. rate * h <= rate * (100 * s + 99)
    BY <1>2, <1>4, <1>6
  <2> QED
    BY <2>1, <2>2
<1>9. s = 1 \/ 100 * p <= x
  <2>1. CASE 100 * s <= h
    <3>1. rate * (100 * s) <= rate * h
      BY <1>2, <1>4, <1>6, <2>1
    <3>2. rate * (100 * s) = 100 * p
      BY <1>2, <1>6
    <3> QED
      BY <3>1, <3>2
  <2> QED
    BY <1>6, <2>1
<1>10. rate * (s + 1) = p + rate /\ rate * (s - 1) = p - rate
  BY <1>2, <1>6
<1>11. s = 1 => p = rate
  BY <1>2
<1> HIDE DEF p, x
<1>12. m < p + rate
  BY <1>2, <1>3, <1>4, <1>7, <1>8
<1>13. p - rate < m
  BY <1>2, <1>3, <1>4, <1>7, <1>9, <1>11
<1> QED
  BY <1>1, <1>6, <1>10, <1>12, <1>13 DEF rate, m

\* A client that was turned away has less than a token, and was told when to
\* come back.
Told ==
  \A k \in Clients : told[k] > 0 =>
    updated[k] # -1 /\ tokens[k] < Unit /\ told[k] = RetryAfter(tokens[k])

\* What a client was told holds for as long as it keeps quiet.
LEMMA ToldKept == IndInv /\ Told /\ [Next]_vars => Told'
<1> SUFFICES ASSUME IndInv, Told, [Next]_vars PROVE Told'
  OBVIOUS
<1> SUFFICES ASSUME NEW k \in Clients, told'[k] > 0
             PROVE  updated'[k] # -1 /\ tokens'[k] < Unit /\ told'[k] = RetryAfter(tokens'[k])
  BY DEF Told
<1>1. ASSUME NEW q \in Clients, Allow(q) PROVE
        q # k /\ told'[k] = told[k] /\ tokens'[k] = tokens[k] /\ updated'[k] = updated[k]
  BY <1>1 DEF Allow, IndInv, TypeOK
<1>2. ASSUME NEW q \in Clients, Refuse(q), q # k PROVE
        told'[k] = told[k] /\ tokens'[k] = tokens[k] /\ updated'[k] = updated[k]
  BY <1>2 DEF Refuse, IndInv, TypeOK
<1>3. CASE Refuse(k)
  <2>1. Refilled(k) \in 0 .. Full /\ now \in Nat /\ Unit \in Nat /\ Full \in Nat
    BY RefilledBounds, CheckedBefore, Units, RateAssumption DEF IndInv
  <2>2. Refilled(k) < Unit
    BY <1>3, <2>1 DEF Refuse, Enough
  <2>3. /\ tokens'[k] = Refilled(k) /\ updated'[k] = now
        /\ told'[k] = RetryAfter(Refilled(k))
    BY <1>3 DEF Refuse, IndInv, TypeOK
  <2> QED
    BY <2>1, <2>2, <2>3
<1>4. CASE Tick \/ UNCHANGED vars
  BY <1>4 DEF Tick, vars, Told
<1> QED
  BY <1>1, <1>2, <1>3, <1>4 DEF Next, Told

\* The Retry-After of every refusal is right to within a second, for every rate
\* and burst (check, create_run).
THEOREM RetryAfterIsHonest == Spec => []RetryAfterHonest
<1>1. IndInv /\ Told => RetryAfterHonest
  <2> SUFFICES ASSUME IndInv, Told, NEW k \in Clients, told[k] > 0
               PROVE  /\ now - updated[k] >= (told[k] + 1) * Second => Enough(k)
                      /\ now - updated[k] <= (told[k] - 1) * Second => ~Enough(k)
    BY DEF RetryAfterHonest
  <2> DEFINE s    == told[k]
             u    == tokens[k]
             e    == now - updated[k]
             rate == Refill * Second
             gain == Refill * e
  <2>1. /\ updated[k] # -1 /\ u \in Nat /\ u < Unit /\ s = RetryAfter(u)
        /\ Full \in Nat /\ Unit \in Nat /\ Unit <= Full
        /\ Refill \in Nat \ {0} /\ Second \in Nat \ {0}
    BY Units, RateAssumption DEF Told, IndInv, TypeOK
  <2>2. e \in Nat
    <3>1. now \in Nat /\ updated[k] \in 0 .. now
      BY <2>1, CheckedBefore DEF IndInv, TypeOK
    <3> QED
      BY <3>1
  <2>3. s \in Nat \ {0} /\ Unit - u < rate * (s + 1) /\ rate * (s - 1) < Unit - u
    BY <2>1, RetryAfterIs
  <2>4. Refilled(k) = Least(Full, u + gain)
    BY <2>1 DEF Refilled
  <2> HIDE DEF s, u, e
  <2>5. gain \in Nat /\ rate \in Nat
    BY <2>1, <2>2
  <2>6. rate * (s + 1) = Refill * ((s + 1) * Second) /\ rate * (s - 1) = Refill * ((s - 1) * Second)
    BY <2>1, <2>3
  <2>7. ASSUME e >= (s + 1) * Second PROVE Enough(k)
    <3>1. (s + 1) * Second \in Nat
      BY <2>1, <2>3
    <3>2. gain >= Refill * ((s + 1) * Second)
      BY <2>1, <2>2, <2>7, <3>1
    <3> HIDE DEF gain, rate
    <3>3. u + gain >= Unit
      BY <2>1, <2>3, <2>5, <2>6, <3>1, <3>2
    <3> QED
      BY <2>1, <2>4, <2>5, <3>3 DEF Enough, Least
  <2>8. ASSUME e <= (s - 1) * Second PROVE ~Enough(k)
    <3>1. (s - 1) * Second \in Nat
      BY <2>1, <2>3
    <3>2. gain <= Refill * ((s - 1) * Second)
      BY <2>1, <2>2, <2>8, <3>1
    <3> HIDE DEF gain, rate
    <3>3. u + gain < Unit
      BY <2>1, <2>3, <2>5, <2>6, <3>1, <3>2
    <3> QED
      BY <2>1, <2>4, <2>5, <3>3 DEF Enough, Least
  <2> QED
    BY <2>7, <2>8 DEF s, e
<1>2. Init => Told
  BY DEF Init, Told
<1> QED
  BY <1>1, <1>2, ToldKept, Invariance, PTL DEF Spec
=============================================================================

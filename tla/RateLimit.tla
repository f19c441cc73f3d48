----------------------------- MODULE RateLimit -----------------------------
(***************************************************************************)
(* services/ratelimit.py and its use in api/routes.py: a token bucket for  *)
(* each client of POST /runs.                                              *)
(*                                                                         *)
(* The clock counts ticks, Second of them to a second.  A token is worth   *)
(* Unit units and a bucket gains Refill units in a tick, so that the       *)
(* floating-point rates of the code become integers; the rounding of the   *)
(* doubles themselves is left out.                                         *)
(***************************************************************************)
EXTENDS Integers

CONSTANTS
  Clients,   \* values of client_key()
  Burst,     \* max(1, config.rate_limit_burst)
  Unit,      \* units to a token
  Refill,    \* units a bucket gains in a tick
  Second,    \* ticks to a second
  Horizon    \* the last tick looked at

ASSUME RateAssumption ==
  /\ Burst   \in Nat \ {0}
  /\ Unit    \in Nat \ {0}
  /\ Refill  \in Nat \ {0}
  /\ Second  \in Nat \ {0}
  /\ Horizon \in Nat

VARIABLES
  now,      \* time.monotonic()
  tokens,   \* bucket.tokens, in units
  updated,  \* bucket.updated_at, -1 while there is no bucket
  told,     \* the Retry-After of the client's last answer, 0 if it was let in
  since     \* history: runs a client started at or after a tick

vars == <<now, tokens, updated, told, since>>

Times == 0 .. Horizon
Full  == Burst * Unit

TypeOK ==
  /\ now     \in Times
  /\ tokens  \in [Clients -> 0 .. Full]
  /\ updated \in [Clients -> {-1} \cup (0 .. now)]
  /\ told    \in [Clients -> Nat]
  /\ since   \in [Clients -> [Times -> Nat]]

Init ==
  /\ now     = 0
  /\ tokens  = [k \in Clients |-> Full]
  /\ updated = [k \in Clients |-> -1]
  /\ told    = [k \in Clients |-> 0]
  /\ since   = [k \in Clients |-> [t \in Times |-> 0]]

Least(a, b) == IF a < b THEN a ELSE b

\* Mutated form of Refilled: an idle bucket saves up without limit.
RefilledUnclamped(k) ==
  IF updated[k] = -1 THEN Full ELSE tokens[k] + Refill * (now - updated[k])

\* What is in the bucket of k after check() brought it up to date.
Refilled(k) ==
  IF updated[k] = -1 THEN Full
  ELSE Least(Full, tokens[k] + Refill * (now - updated[k]))

\* Mutated form of Enough: any remainder will do.
EnoughAny(k) == Refilled(k) > 0

Enough(k) == Refilled(k) >= Unit

\* Mutated form of RetryAfter: what is in the bucket already is not counted.
RetryAfterEmpty(u) ==
  IF Unit \div (Refill * Second) > 1 THEN Unit \div (Refill * Second) ELSE 1

\* max(1, int(round(missing / rate, 2))) seconds, for u units in the bucket.
RetryAfter(u) ==
  LET rate       == Refill * Second
      hundredths == (200 * (Unit - u) + rate) \div (2 * rate)
      seconds    == hundredths \div 100
  IN  IF seconds > 1 THEN seconds ELSE 1

\* check() finds a token: the request goes on to create_run.
Allow(k) ==
  /\ Enough(k)
  /\ tokens'  = [tokens EXCEPT ![k] = Refilled(k) - Unit]
  /\ updated' = [updated EXCEPT ![k] = now]
  /\ told'    = [told EXCEPT ![k] = 0]
  /\ since'   = [since EXCEPT ![k] = [t \in Times |-> IF t <= now THEN @[t] + 1
                                                      ELSE @[t]]]
  /\ UNCHANGED now

\* check() finds none: 429 with a Retry-After header.
Refuse(k) ==
  /\ ~Enough(k)
  /\ tokens'  = [tokens EXCEPT ![k] = Refilled(k)]
  /\ updated' = [updated EXCEPT ![k] = now]
  /\ told'    = [told EXCEPT ![k] = RetryAfter(Refilled(k))]
  /\ UNCHANGED <<now, since>>

Tick ==
  /\ now < Horizon
  /\ now' = now + 1
  /\ UNCHANGED <<tokens, updated, told, since>>

Next == Tick \/ \E k \in Clients : Allow(k) \/ Refuse(k)

Spec == Init /\ [][Next]_vars

-----------------------------------------------------------------------------
(***************************************************************************)
(* Properties.                                                             *)
(***************************************************************************)

\* In any stretch of time that reaches up to now a client starts no more runs
\* than a full bucket and the refill of that stretch pay for, however its
\* requests, refusals and idle times are spread.
GrantsBounded ==
  \A k \in Clients : \A t \in 0 .. now :
    since[k][t] * Unit <= Full + Refill * (now - t)

\* The Retry-After of a refusal is right to within a second: a client that
\* keeps quiet for one second longer than it was told is let in, and one that
\* comes back a second sooner than told is refused.
RetryAfterHonest ==
  \A k \in Clients : told[k] > 0 =>
    /\ now - updated[k] >= (told[k] + 1) * Second => Enough(k)
    /\ now - updated[k] <= (told[k] - 1) * Second => ~Enough(k)
=============================================================================

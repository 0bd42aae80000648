----------------------------- MODULE RateLimit ------------------------------
(***************************************************************************)
(* The token bucket of core/rate_limit.py: the Lua script as an operator   *)
(* on the Redis hash of one bucket, and what sequences of calls make of    *)
(* it.  Time is counted in ticks and refills in whole tokens per tick.     *)
(* Each caller reads its own clock before the script runs, so that the     *)
(* times of consecutive calls may go back.                                 *)
(***************************************************************************)
EXTENDS Integers, SequencesExt

Limit == [capacity: Nat \ {0}, refill: Nat \ {0}]

\* No key in Redis: a full bucket.  The hash expires once it would be full.
NoBucket == [tokens |-> -1, ts |-> 0]

\* Mutant: the time of the last call is not kept.
RefilledSinceStart(bucket, limit, now) ==
  IF bucket = NoBucket THEN limit.capacity
  ELSE Min({limit.capacity, bucket.tokens + now * limit.refill})

\* Whatever limit filled the bucket, it is read with the capacity and the
\* refill of the limit of this call.
Refilled(bucket, limit, now) ==
  IF bucket = NoBucket THEN limit.capacity
  ELSE Min({limit.capacity, bucket.tokens + Max({0, now - bucket.ts}) * limit.refill})

\* Mutant: a peek needs nothing.
NeededForCost(cost) == cost

\* A call of cost 0 only asks whether there is a token.
Needed(cost) == IF cost = 0 THEN 1 ELSE cost

Allowed(bucket, limit, cost, now) == Refilled(bucket, limit, now) >= Needed(cost)

\* The bucket after the call.
Checked(bucket, limit, cost, now) ==
  [tokens |-> Refilled(bucket, limit, now) - (IF Allowed(bucket, limit, cost, now) THEN cost ELSE 0),
   ts |-> now]

\* retry_after of a call that is not allowed.
RetryAfter(bucket, limit, cost, now) ==
  LET short == Needed(cost) - Refilled(bucket, limit, now) IN
  (short + limit.refill - 1) \div limit.refill

----------------------------------------------------------------------------

\* enforce, called with the calls [limit, cost, now] one after the other: the
\* bucket before each, and at the end.
BucketsOf(calls) ==
  LET bucket[i \in 1..(Len(calls) + 1)] ==
        IF i = 1 THEN NoBucket
        ELSE LET c == calls[i - 1] IN Checked(bucket[i - 1], c.limit, c.cost, c.now)
  IN bucket

AllowedCalls(calls) ==
  {i \in DOMAIN calls : LET c == calls[i] IN Allowed(BucketsOf(calls)[i], c.limit, c.cost, c.now)}

\* How far the clocks have moved forward in all.
Forward(calls) ==
  LET moved[i \in 1..Len(calls)] ==
        IF i = 1 THEN 0 ELSE moved[i - 1] + Max({0, calls[i].now - calls[i - 1].now})
  IN moved[Len(calls)]

\* The password part of POST /login: an attempt peeks, has bcrypt compare the
\* password, and is charged only then, when it is wrong.  steps are those of
\* several requests with wrong ones, in the order they reach Redis; an attempt
\* that is refused has no charge.  pending counts the passwords being compared.
Attempted(s, step, limit) ==
  IF step.kind = "peek"
  THEN [bucket |-> Checked(s.bucket, limit, 0, step.now), tried |-> s.tried,
        pending |-> s.pending + (IF Allowed(s.bucket, limit, 0, step.now) THEN 1 ELSE 0)]
  ELSE [bucket |-> Checked(s.bucket, limit, 1, step.now), tried |-> s.tried + 1,
        pending |-> s.pending - 1]

\* What is known before each step, and at the end.
Guessing(steps, limit) ==
  LET state[i \in 1..(Len(steps) + 1)] ==
        IF i = 1 THEN [bucket |-> NoBucket, tried |-> 0, pending |-> 0]
        ELSE Attempted(state[i - 1], steps[i - 1], limit)
  IN state
=============================================================================

------------------------------ MODULE Pricing -------------------------------
(***************************************************************************)
(* services/pricing.py and pricing_state.py as operators.  The factor and  *)
(* the ceiling are in hundredths and a multiplier is a fraction: the       *)
(* arithmetic is exact, which the code's binary floats are as long as the  *)
(* number of seats is a power of two and the knobs are multiples of 1/4.   *)
(***************************************************************************)
EXTENDS Integers, FiniteSetsExt

NoIncrease == 0   \* None of seats_until_increase, which is at least 1 otherwise

Smaller(a, b) == Min({a, b})

\* multiplier_for
Multiplier(sold, total, factor, surge) ==
  IF total <= 0 THEN [num |-> 100, den |-> 100]
  ELSE [num |-> Smaller(surge * total, 100 * total + Smaller(sold, total) * factor),
        den |-> 100 * total]

\* Python's round of n / d: to the even neighbour when both are as near.
Rounded(n, d) ==
  LET q == n \div d  twice == 2 * (n % d) IN
  IF twice > d \/ (twice = d /\ q % 2 = 1) THEN q + 1 ELSE q

RoundTo == 10

\* apply
Applied(base, mult) == RoundTo * Rounded(base * mult.num, RoundTo * mult.den)

\* current_price, for an event with those knobs and that many sales.
PriceAfter(base, e, sold) ==
  IF e.enabled THEN Applied(base, Multiplier(sold, e.total, e.factor, e.surge)) ELSE base

\* Mutant: the last seat is not tried.
IncreaseBeforeLast(base, e, sold) ==
  LET first[k \in 1..(e.total - sold)] ==
        IF k = e.total - sold THEN NoIncrease
        ELSE IF PriceAfter(base, e, sold + k) > PriceAfter(base, e, sold) THEN k ELSE first[k + 1]
  IN IF ~e.enabled \/ e.total <= 0 \/ sold >= e.total THEN NoIncrease ELSE first[1]

\* _seats_until_increase: the loop over the seats that are left.
UntilIncrease(base, e, sold) ==
  LET first[k \in 1..(e.total - sold)] ==
        IF PriceAfter(base, e, sold + k) > PriceAfter(base, e, sold) THEN k
        ELSE IF k = e.total - sold THEN NoIncrease ELSE first[k + 1]
  IN IF ~e.enabled \/ e.total <= 0 \/ sold >= e.total THEN NoIncrease ELSE first[1]

\* pricing_state: the estimate is made for the cheapest seat of the event, and
\* for one of DefaultSample where that is free.
DefaultSample == 1000
PricingState(bases, e, sold) ==
  LET cheapest == Min(bases)
      sample == IF cheapest = 0 THEN DefaultSample ELSE cheapest IN
  [sold |-> sold, total |-> e.total, until |-> UntilIncrease(sample, e, sold)]

\* price_now: a held seat keeps its price; 0 is a price, -1 is none.
NoPrice == -1
PriceNow(held, base, e, sold) == IF held # NoPrice THEN held ELSE PriceAfter(base, e, sold)
=============================================================================

-------------------------- MODULE CatalogueProofs ---------------------------
(***************************************************************************)
(* Theorems about Catalogue, for every input its assumption allows: each   *)
(* call's answer is what the code computes, and what the code computes by  *)
(* a loop is followed along the loop.  The induction this takes is the     *)
(* least-number principle: of the steps where a statement fails there      *)
(* would be a first, and it holds there because it did one step before.    *)
(***************************************************************************)
EXTENDS Catalogue, WellFoundedInduction, FiniteSetTheorems, TLAPS

\* A non-empty set of natural numbers has a least element.
LEMMA LeastNatural ==
  ASSUME NEW T, T \subseteq Nat, T # {}
  PROVE  \E x \in T : \A y \in T : x <= y
<1> DEFINE R == OpToRel(<, Nat)
<1>1. IsWellFoundedOn(R, Nat)
  BY NatLessThanWellFounded
<1>3. \A x, y \in Nat : y < x => <<y, x>> \in R
  BY DEF OpToRel
<1> HIDE DEF R
<1>2. PICK x \in T : \A y \in T : ~(<<y, x>> \in R)
  BY <1>1, WFMin
<1>4. \A y \in T : y \in Nat /\ x \in Nat /\ ~(y < x)
  BY <1>2, <1>3
<1> QED
  BY <1>4

\* Where a search for the first of n places that fit ends.
IsFirst(u, n, k, j) ==
  \/ j = 0 /\ \A i \in k..n : ~u[i]
  \/ j \in k..n /\ u[j] /\ \A i \in k..(j - 1) : ~u[i]

LEMMA FirstIsThere ==
  ASSUME NEW n \in Nat, NEW u, NEW k \in 1..n
  PROVE  \E j : IsFirst(u, n, k, j)
<1> DEFINE T == {i \in k..n : u[i]}
<1>1. CASE T = {}
  BY <1>1 DEF IsFirst
<1>2. CASE T # {}
  <2>1. PICK j \in T : \A i \in T : j <= i
    <3>1. T \subseteq Nat
      OBVIOUS
    <3> HIDE DEF T
    <3> QED
      BY <1>2, <3>1, LeastNatural
  <2> QED
    BY <2>1 DEF IsFirst
<1> QED
  BY <1>1, <1>2

LEMMA FirstIsOne ==
  ASSUME NEW n \in Nat, NEW u, NEW k \in 1..n, NEW j, NEW i,
         IsFirst(u, n, k, j), IsFirst(u, n, k, i)
  PROVE  i = j
<1>1. CASE i = 0 \/ j = 0
  BY <1>1 DEF IsFirst
<1>2. CASE i # 0 /\ j # 0
  <2>1. i \in k..n /\ j \in k..n /\ ~(i \in k..(j - 1)) /\ ~(j \in k..(i - 1))
    BY <1>2 DEF IsFirst
  <2> QED
    BY <2>1
<1> QED
  BY <1>1, <1>2

\* One step of the loop that searches from k on.
LEMMA FirstFromNext ==
  ASSUME NEW n \in Nat, NEW u, NEW k \in 1..n, NEW j, k < n => IsFirst(u, n, k + 1, j)
  PROVE  IsFirst(u, n, k, IF u[k] THEN k ELSE IF k = n THEN 0 ELSE j)
<1>1. CASE u[k]
  BY <1>1 DEF IsFirst
<1>2. CASE ~u[k] /\ k = n
  BY <1>2 DEF IsFirst
<1>3. CASE ~u[k] /\ k # n
  <2>1. k < n /\ k + 1 \in 1..n /\ \A i \in k..n : i = k \/ i \in (k + 1)..n
    BY <1>3
  <2>2. CASE j = 0 /\ \A i \in (k + 1)..n : ~u[i]
    BY <1>3, <2>1, <2>2 DEF IsFirst
  <2>3. CASE j \in (k + 1)..n /\ u[j] /\ \A i \in (k + 1)..(j - 1) : ~u[i]
    <3>1. j \in k..n /\ \A i \in k..(j - 1) : i = k \/ i \in (k + 1)..(j - 1)
      BY <2>3
    <3> QED
      BY <1>3, <2>3, <3>1 DEF IsFirst
  <2> QED
    BY <2>1, <2>2, <2>3 DEF IsFirst
<1> QED
  BY <1>1, <1>2, <1>3

\* The loop of _seats_until_increase as a recursive function.
IsLoop(f, u, n) == f = [k \in 1..n |-> IF u[k] THEN k ELSE IF k = n THEN 0 ELSE f[k + 1]]

LEMMA LoopExists ==
  ASSUME NEW n \in Nat, NEW u
  PROVE  \E f : IsLoop(f, u, n)
<1> DEFINE f == [k \in 1..n |-> CHOOSE j : IsFirst(u, n, k, j)]
<1>1. \A k \in 1..n : IsFirst(u, n, k, f[k])
  BY FirstIsThere
<1>2. ASSUME NEW k \in 1..n
      PROVE  f[k] = IF u[k] THEN k ELSE IF k = n THEN 0 ELSE f[k + 1]
  <2>1. k < n => IsFirst(u, n, k + 1, f[k + 1])
    BY <1>1
  <2> QED
    BY <1>1, <2>1, FirstFromNext, FirstIsOne
<1>3. IsLoop(f, u, n)
  <2>1. f = [k \in 1..n |-> f[k]]
    OBVIOUS
  <2> HIDE DEF f
  <2> QED
    BY <1>2, <2>1 DEF IsLoop
<1> QED
  BY <1>3

LEMMA LoopFinds ==
  ASSUME NEW n \in Nat, NEW u, NEW f, IsLoop(f, u, n), NEW k \in 1..n
  PROVE  IsFirst(u, n, k, f[k])
<1> DEFINE T == {m \in 0..(n - 1) : ~IsFirst(u, n, n - m, f[n - m])}
<1>1. ASSUME T # {} PROVE FALSE
  <2>1. PICK m \in T : \A i \in T : m <= i
    <3>1. T \subseteq Nat
      OBVIOUS
    <3> HIDE DEF T
    <3> QED
      BY <1>1, <3>1, LeastNatural
  <2>2. n - m \in 1..n /\ (n - m < n => m - 1 \in 0..(n - 1) /\ n - (m - 1) = (n - m) + 1)
    OBVIOUS
  <2>3. n - m < n => IsFirst(u, n, (n - m) + 1, f[(n - m) + 1])
    BY <2>1, <2>2
  <2>4. f[n - m] = IF u[n - m] THEN n - m ELSE IF n - m = n THEN 0 ELSE f[(n - m) + 1]
    BY <2>2 DEF IsLoop
  <2>5. IsFirst(u, n, n - m, f[n - m])
    BY <2>2, <2>3, <2>4, FirstFromNext
  <2> QED
    BY <2>5
<1>2. n - k \in 0..(n - 1) /\ n - (n - k) = k
  OBVIOUS
<1> QED
  BY <1>1, <1>2

----------------------------------------------------------------------------
(* The calls                                                               *)

Served(kind, calls, value) ==
  call.of = kind => call \in calls /\ answer \in {NoAnswer, value}

PriceServed ==
  Served("price", PriceCalls,
         [now |-> PriceNow(NoPrice, call.base, call.event, call.sold),
          state |-> PricingState({call.base}, call.event, call.sold)])
ForecastServed ==
  Served("forecast", ForecastCalls,
         Estimate(call.times, call.total, call.booked, call.starts, call.now))
LimitServed == Served("limit", LimitCalls, AllowedCalls(call.calls))
GuessServed == Served("guess", GuessCalls, Guessing(call.steps, call.limit)[Len(call.steps) + 1])

LayoutServed ==
  Served("layout", LayoutCalls, IF Valid(call.layout) THEN Expand(call.layout) ELSE <<>>)
TiersServed ==
  LET layout == FromTiers(call.tiers, call.perRow, call.labels) IN
  Served("tiers", TierCalls,
         IF RowsWanted(call.tiers) <= Len(call.labels) /\ Valid(layout) THEN Expand(layout) ELSE <<>>)

SearchServed ==
  LET filters == Resolve(call.explicit, call.query, call.ai, call.default).filters IN
  Served("search", SearchCalls,
         [filters |-> filters, groups |-> Find(call.seats, filters, call.layout)])

\* A call gets the answer of its computation.
CatalogueInv ==
  /\ PriceServed /\ LayoutServed /\ TiersServed /\ SearchServed
  /\ ForecastServed /\ LimitServed /\ GuessServed

LEMMA CatalogueStarts == CatalogueInit => CatalogueInv
<1> SUFFICES ASSUME CatalogueInit PROVE CatalogueInv
  OBVIOUS
<1>1. /\ \A c \in PriceCalls : c.of = "price"
      /\ \A c \in LayoutCalls : c.of = "layout"
      /\ \A c \in TierCalls : c.of = "tiers"
      /\ \A c \in SearchCalls : c.of = "search"
      /\ \A c \in ForecastCalls : c.of = "forecast"
      /\ \A c \in LimitCalls : c.of = "limit"
      /\ \A c \in GuessCalls : c.of = "guess"
  BY CatalogueAssumption DEF CatalogueAssumption
<1>2. /\ call.of = "price" => call \in PriceCalls
      /\ call.of = "forecast" => call \in ForecastCalls
      /\ call.of = "limit" => call \in LimitCalls
      /\ call.of = "guess" => call \in GuessCalls
  BY <1>1 DEF CatalogueInit
<1>3. /\ call.of = "layout" => call \in LayoutCalls
      /\ call.of = "tiers" => call \in TierCalls
      /\ call.of = "search" => call \in SearchCalls
  BY <1>1 DEF CatalogueInit
<1> QED
  BY <1>2, <1>3 DEF CatalogueInit, CatalogueInv, PriceServed, LayoutServed, TiersServed,
                    SearchServed, ForecastServed, LimitServed, GuessServed, Served

LEMMA CatalogueGoesOn == CatalogueInv /\ [CatalogueNext]_vars => CatalogueInv'
<1> SUFFICES ASSUME CatalogueInv, [CatalogueNext]_vars PROVE CatalogueInv'
  OBVIOUS
<1> USE DEF CatalogueInv, PriceServed, LayoutServed, TiersServed, SearchServed, ForecastServed,
            LimitServed, GuessServed, Served
<1>1. CASE UNCHANGED vars
  BY <1>1 DEF vars
<1>2. CASE ShowPrice
  BY <1>2 DEF ShowPrice, Answer
<1>7. CASE CreateEvent
  BY <1>7 DEF CreateEvent, Answer
<1>8. CASE CreateEventFromTiers
  BY <1>8 DEF CreateEventFromTiers, Answer
<1>3. CASE SearchSeats
  BY <1>3 DEF SearchSeats, Answer
<1>4. CASE ForecastEvent
  BY <1>4 DEF ForecastEvent, Answer
<1>5. CASE Throttle
  BY <1>5 DEF Throttle, Answer
<1>6. CASE Guess
  BY <1>6 DEF Guess, Answer
<1> QED
  BY <1>1, <1>2, <1>3, <1>4, <1>5, <1>6, <1>7, <1>8 DEF CatalogueNext

LEMMA CatalogueServes == CatalogueSpec => []CatalogueInv
BY CatalogueStarts, CatalogueGoesOn, PTL DEF CatalogueSpec

----------------------------------------------------------------------------
(* Prices                                                                  *)

LEMMA Division ==
  ASSUME NEW n \in Int, NEW d \in Nat \ {0}
  PROVE  /\ n \div d \in Int /\ (n % d) \in 0..(d - 1)
         /\ n = d * (n \div d) + (n % d)
OBVIOUS

\* Rounding moves by half a unit at most.
LEMMA RoundedNear ==
  ASSUME NEW n \in Int, NEW d \in Nat \ {0}
  PROVE  /\ Rounded(n, d) \in Int
         /\ 2 * n - d <= 2 * (d * Rounded(n, d))
         /\ 2 * (d * Rounded(n, d)) <= 2 * n + d
<1> DEFINE q == n \div d  r == n % d
<1>1. q \in Int /\ r \in 0..(d - 1) /\ n = d * q + r
  BY Division
<1>2. Rounded(n, d) = IF 2 * r > d \/ (2 * r = d /\ q % 2 = 1) THEN q + 1 ELSE q
  BY DEF Rounded
<1> HIDE DEF q, r
<1>3. d * (q + 1) = d * q + d /\ d * q \in Int
  BY <1>1
<1> QED
  BY <1>1, <1>2, <1>3

LEMMA RoundedMonotone ==
  ASSUME NEW n \in Int, NEW m \in Int, NEW d \in Nat \ {0}, n <= m
  PROVE  Rounded(n, d) <= Rounded(m, d)
<1> DEFINE q == n \div d  r == n % d  p == m \div d  s == m % d
<1>1. q \in Int /\ r \in 0..(d - 1) /\ n = d * q + r
  BY Division
<1>2. p \in Int /\ s \in 0..(d - 1) /\ m = d * p + s
  BY Division
<1>3. /\ Rounded(n, d) = IF 2 * r > d \/ (2 * r = d /\ q % 2 = 1) THEN q + 1 ELSE q
      /\ Rounded(m, d) = IF 2 * s > d \/ (2 * s = d /\ p % 2 = 1) THEN p + 1 ELSE p
  BY DEF Rounded
<1> HIDE DEF q, r, p, s
<1>4. q <= p
  <2> SUFFICES ASSUME q >= p + 1 PROVE FALSE
    BY <1>1, <1>2
  <2>1. d * q >= d * (p + 1) /\ d * (p + 1) = d * p + d
    BY <1>1, <1>2
  <2> QED
    BY <1>1, <1>2, <2>1
<1>5. CASE q = p
  BY <1>1, <1>2, <1>3, <1>5
<1>6. CASE q < p
  BY <1>1, <1>2, <1>3, <1>6
<1> QED
  BY <1>1, <1>2, <1>4, <1>5, <1>6

LEMMA SmallerOfTwo ==
  ASSUME NEW a \in Int, NEW b \in Int
  PROVE  Smaller(a, b) = IF a <= b THEN a ELSE b
BY DEF Smaller, Min

\* The multiplier is between 1 and the ceiling, and rises with the sales.
LEMMA MultiplierRises ==
  ASSUME NEW e \in PricedEvent, NEW sold \in Nat, NEW more \in Nat, sold <= more
  PROVE  LET mult(n) == Multiplier(n, e.total, e.factor, e.surge) IN
         /\ mult(sold).num \in Nat /\ mult(sold).den \in Nat \ {0}
         /\ mult(sold).num >= mult(sold).den
         /\ 100 * mult(sold).num <= e.surge * mult(sold).den
         /\ mult(more).den = mult(sold).den /\ mult(sold).num <= mult(more).num
<1> DEFINE t == e.total  f == e.factor  g == e.surge
<1>1. t \in Nat /\ f \in Nat /\ g \in Nat /\ g >= 100
  BY DEF PricedEvent
<1>2. CASE t = 0
  BY <1>1, <1>2 DEF Multiplier
<1>3. CASE t > 0
  <2> DEFINE a == Smaller(sold, t)  b == Smaller(more, t)
  <2>1. a \in Nat /\ b \in Nat /\ a <= b
    BY <1>1, SmallerOfTwo
  <2> HIDE DEF a, b
  <2>2. g * t \in Nat /\ g * t >= 100 * t /\ a * f \in Nat /\ b * f \in Nat /\ a * f <= b * f
    <3> HIDE DEF t, f, g
    <3>1. g * t \in Nat /\ a * f \in Nat /\ b * f \in Nat
      BY <1>1, <2>1
    <3>2. g * t >= 100 * t
      BY <1>1
    <3>3. a * f <= b * f
      BY <1>1, <2>1
    <3> QED
      BY <3>1, <3>2, <3>3
  <2>3. /\ Multiplier(sold, t, f, g) = [num |-> Smaller(g * t, 100 * t + a * f), den |-> 100 * t]
        /\ Multiplier(more, t, f, g) = [num |-> Smaller(g * t, 100 * t + b * f), den |-> 100 * t]
    BY <1>1, <1>3 DEF Multiplier, a, b
  <2>4. /\ Smaller(g * t, 100 * t + a * f) = IF g * t <= 100 * t + a * f THEN g * t ELSE 100 * t + a * f
        /\ Smaller(g * t, 100 * t + b * f) = IF g * t <= 100 * t + b * f THEN g * t ELSE 100 * t + b * f
    BY <1>1, <2>2, SmallerOfTwo
  <2>5. g * (100 * t) = 100 * (g * t)
    BY <1>1
  <2> QED
    BY <1>1, <1>3, <2>2, <2>3, <2>4, <2>5
<1> QED
  BY <1>1, <1>2, <1>3

LEMMA AppliedPrices ==
  ASSUME NEW base \in Nat, NEW m, NEW n, NEW d \in Nat \ {0}, NEW g \in Nat,
         m = [num |-> n, den |-> d], n \in Nat, n >= d, 100 * n <= g * d
  PROVE  /\ Applied(base, m) \in Int
         /\ Applied(base, m) >= base - RoundTo \div 2
         /\ 100 * Applied(base, m) <= base * g + 100 * (RoundTo \div 2)
<1> DEFINE r == Rounded(base * n, 10 * d)
<1>1. RoundTo = 10 /\ RoundTo \div 2 = 5
  BY DEF RoundTo
<1>2. Applied(base, m) = 10 * r
  BY <1>1 DEF Applied
<1>3. base * n \in Int /\ 10 * d \in Nat \ {0}
  OBVIOUS
<1>4. /\ r \in Int /\ 2 * (base * n) - 10 * d <= 2 * ((10 * d) * r)
      /\ 2 * ((10 * d) * r) <= 2 * (base * n) + 10 * d
  BY <1>3, RoundedNear
<1> HIDE DEF r
<1>5. (10 * d) * r = d * (10 * r)
  BY <1>4
<1>6. base * n >= base * d /\ 100 * (base * n) <= base * (g * d)
  <2>1. base * (100 * n) <= base * (g * d)
    OBVIOUS
  <2>2. base * (100 * n) = 100 * (base * n)
    OBVIOUS
  <2> QED
    BY <2>1, <2>2
<1>7. 10 * r >= base - 5
  <2> SUFFICES ASSUME 10 * r <= base - 6 PROVE FALSE
    BY <1>4
  <2>1. d * (10 * r) <= d * (base - 6) /\ d * (base - 6) = base * d - 6 * d
    BY <1>4
  <2> QED
    BY <1>4, <1>5, <1>6, <2>1
<1>8. 100 * (10 * r) <= base * g + 500
  <2> SUFFICES ASSUME 100 * (10 * r) >= base * g + 501 PROVE FALSE
    BY <1>4
  <2>1. d * (100 * (10 * r)) >= d * (base * g + 501)
    BY <1>4
  <2>2. d * (base * g + 501) = base * (g * d) + 501 * d /\ d * (100 * (10 * r)) = 100 * (d * (10 * r))
    BY <1>4
  <2> QED
    BY <1>4, <1>5, <1>6, <2>1, <2>2
<1> QED
  BY <1>1, <1>2, <1>4, <1>7, <1>8

LEMMA PricesRise ==
  ASSUME NEW base \in Nat, NEW e \in PricedEvent,
         NEW sold \in Nat, NEW more \in Nat, sold <= more
  PROVE  /\ PriceAfter(base, e, sold) \in Int
         /\ PriceAfter(base, e, sold) <= PriceAfter(base, e, more)
         /\ PriceAfter(base, e, sold) >= base - RoundTo \div 2
         /\ 100 * PriceAfter(base, e, sold) <= base * e.surge + 100 * (RoundTo \div 2)
<1> DEFINE m == Multiplier(sold, e.total, e.factor, e.surge)
           k == Multiplier(more, e.total, e.factor, e.surge)
<1>1. CASE e.enabled
  <2>1. /\ m.num \in Nat /\ m.den \in Nat \ {0} /\ m.num >= m.den
        /\ 100 * m.num <= e.surge * m.den /\ k.den = m.den /\ m.num <= k.num /\ k.num \in Nat
    BY MultiplierRises
  <2>2. e.surge \in Nat /\ m = [num |-> m.num, den |-> m.den]
    BY DEF PricedEvent, Multiplier
  <2>3. PriceAfter(base, e, sold) = Applied(base, m) /\ PriceAfter(base, e, more) = Applied(base, k)
    BY <1>1 DEF PriceAfter
  <2> HIDE DEF m, k
  <2>4. /\ Applied(base, m) \in Int
        /\ Applied(base, m) >= base - RoundTo \div 2
        /\ 100 * Applied(base, m) <= base * e.surge + 100 * (RoundTo \div 2)
    BY <2>1, <2>2, AppliedPrices
  <2>5. Applied(base, m) <= Applied(base, k)
    <3>1. base * m.num \in Int /\ base * k.num \in Int /\ base * m.num <= base * k.num
          /\ 10 * m.den \in Nat \ {0}
      BY <2>1
    <3>2. Rounded(base * m.num, 10 * m.den) <= Rounded(base * k.num, 10 * m.den)
      BY <3>1, RoundedMonotone
    <3>3. Rounded(base * m.num, 10 * m.den) \in Int /\ Rounded(base * k.num, 10 * m.den) \in Int
      BY <3>1, RoundedNear
    <3> QED
      BY <2>1, <3>2, <3>3 DEF Applied, RoundTo
  <2> QED
    BY <2>3, <2>4, <2>5
<1>2. CASE ~e.enabled
  <2>1. PriceAfter(base, e, sold) = base /\ PriceAfter(base, e, more) = base
    BY <1>2 DEF PriceAfter
  <2>2. e.surge \in Nat /\ e.surge >= 100
    BY DEF PricedEvent
  <2>3. 100 * base <= base * e.surge
    BY <2>2
  <2> QED
    BY <2>1, <2>2, <2>3 DEF RoundTo
<1> QED
  BY <1>1, <1>2

\* Where the first of n values that are no less than now rises above it.
LEMMA FirstRises ==
  ASSUME NEW n \in Nat, NEW now \in Int, NEW w \in [1..n -> Int], NEW u, NEW j, n > 0,
         \A k \in 1..n : now <= w[k] /\ (u[k] <=> w[k] > now), IsFirst(u, n, 1, j)
  PROVE  IF j = 0 THEN \A k \in 1..n : w[k] = now
         ELSE j \in 1..n /\ w[j] > now /\ \A k \in 1..(j - 1) : k \in 1..n /\ w[k] = now
<1>1. CASE j = 0
  <2>1. \A k \in 1..n : ~u[k]
    BY <1>1 DEF IsFirst
  <2> QED
    BY <1>1, <2>1
<1>2. CASE j # 0
  <2>1. j \in 1..n /\ u[j] /\ \A k \in 1..(j - 1) : ~u[k]
    BY <1>2 DEF IsFirst
  <2>2. \A k \in 1..(j - 1) : k \in 1..n
    BY <2>1
  <2> QED
    BY <1>2, <2>1, <2>2
<1> QED
  BY <1>1, <1>2

\* The number of seats until the price increases is exact.
LEMMA UntilIsExact ==
  ASSUME NEW base \in Nat, NEW e \in PricedEvent, NEW sold \in Nat, sold <= e.total
  PROVE  LET until == UntilIncrease(base, e, sold)
             now == PriceAfter(base, e, sold)
             later(k) == PriceAfter(base, e, sold + k)
             rest == e.total - sold IN
         IF until = NoIncrease THEN \A k \in 1..rest : later(k) = now
         ELSE /\ until \in 1..rest /\ later(until) > now
              /\ \A k \in 1..(until - 1) : later(k) = now
<1> DEFINE now == PriceAfter(base, e, sold)
           later(k) == PriceAfter(base, e, sold + k)
           rest == e.total - sold
           u == [k \in 1..rest |-> later(k) > now]
<1>1. e.total \in Nat /\ rest \in Nat /\ e.enabled \in BOOLEAN
  BY DEF PricedEvent
<1>2. \A k \in 1..rest : later(k) \in Int /\ now \in Int /\ now <= later(k)
  BY <1>1, PricesRise
<1>3. CASE ~e.enabled
  <2>1. \A k \in 1..rest : later(k) = now
    BY <1>3 DEF PriceAfter
  <2>2. UntilIncrease(base, e, sold) = NoIncrease
    BY <1>3 DEF UntilIncrease
  <2> QED
    BY <2>1, <2>2
<1>4. CASE rest = 0
  <2>1. UntilIncrease(base, e, sold) = NoIncrease
    BY <1>1, <1>4 DEF UntilIncrease
  <2> QED
    BY <1>4, <2>1
<1>5. CASE e.enabled /\ rest > 0
  <2> DEFINE first[k \in 1..rest] ==
               IF later(k) > now THEN k ELSE IF k = rest THEN NoIncrease ELSE first[k + 1]
  <2>1. UntilIncrease(base, e, sold) = first[1]
    BY <1>1, <1>5 DEF UntilIncrease
  <2>2. first = CHOOSE f : IsLoop(f, u, rest)
    BY DEF IsLoop, NoIncrease
  <2> HIDE DEF first
  <2>3. IsLoop(first, u, rest)
    BY <1>1, <2>2, LoopExists
  <2>4. IsFirst(u, rest, 1, first[1])
    BY <1>1, <1>5, <2>3, LoopFinds
  <2> DEFINE w == [k \in 1..rest |-> later(k)]
  <2> HIDE DEF now, later
  <2>5. /\ rest \in Nat /\ rest > 0 /\ now \in Int /\ w \in [1..rest -> Int]
        /\ \A k \in 1..rest : w[k] = later(k) /\ now <= w[k] /\ (u[k] <=> w[k] > now)
    <3>1. 1 \in 1..rest
      BY <1>1, <1>5
    <3> HIDE DEF rest
    <3> QED
      BY <1>1, <1>2, <1>5, <3>1
  <2> HIDE DEF u, w, rest
  <2>6. IF first[1] = 0 THEN \A k \in 1..rest : w[k] = now
        ELSE /\ first[1] \in 1..rest /\ w[first[1]] > now
             /\ \A k \in 1..(first[1] - 1) : k \in 1..rest /\ w[k] = now
    BY <2>4, <2>5, FirstRises
  <2> QED
    BY <2>1, <2>5, <2>6 DEF NoIncrease, later, now, rest
<1> QED
  BY <1>1, <1>3, <1>4, <1>5


\* A free seat stays free.
LEMMA NothingStaysNothing ==
  ASSUME NEW e \in PricedEvent, NEW sold \in Nat
  PROVE  PriceAfter(0, e, sold) = 0
<1> DEFINE m == Multiplier(sold, e.total, e.factor, e.surge)
<1>1. m.num \in Nat /\ m.den \in Nat \ {0}
  BY MultiplierRises
<1> HIDE DEF m
<1> DEFINE d == 10 * m.den  r == Rounded(0, d)
<1>2. d \in Nat \ {0} /\ 0 * m.num = 0
  BY <1>1
<1> HIDE DEF d
<1>3. r \in Int /\ 2 * 0 - d <= 2 * (d * r) /\ 2 * (d * r) <= 2 * 0 + d
  BY <1>2, RoundedNear
<1> HIDE DEF r
<1>4. r = 0
  <2>1. CASE r >= 1
    <3>1. d * r >= d
      BY <1>2, <1>3, <2>1
    <3>2. d * r \in Int
      BY <1>2, <1>3
    <3> QED
      BY <1>2, <1>3, <3>1, <3>2
  <2>2. CASE r <= -1
    <3>1. d * r <= -d
      BY <1>2, <1>3, <2>2
    <3>2. d * r \in Int
      BY <1>2, <1>3
    <3> QED
      BY <1>2, <1>3, <3>1, <3>2
  <2> QED
    BY <1>3, <2>1, <2>2
<1>5. Applied(0, m) = 0
  BY <1>2, <1>4 DEF Applied, RoundTo, d, r
<1> QED
  BY <1>5 DEF PriceAfter, m

\* "Prices rise as inventory depletes", up to the ceiling; "N seats left at
\* this price" is exact for every seat that has a price, and a free seat stays
\* free: for every event and number of seats sold (pricing.py).
THEOREM PricesFollowDemand == CatalogueSpec => []PriceFollowsDemand
<1>1. PriceServed => PriceFollowsDemand
  <2> SUFFICES ASSUME PriceServed, Answered("price") PROVE PriceFollowsDemand
    BY DEF PriceFollowsDemand
  <2> DEFINE base == call.base  e == call.event  sold == call.sold
             sample == IF base = 0 THEN DefaultSample ELSE base
  <2>1. /\ base \in Nat /\ e \in PricedEvent /\ sold \in Nat /\ sold <= e.total
        /\ answer = [now |-> PriceNow(NoPrice, base, e, sold), state |-> PricingState({base}, e, sold)]
    BY CatalogueAssumption DEF PriceServed, Served, Answered, CatalogueAssumption
  <2>2. Min({base}) = base
    BY <2>1 DEF Min
  <2>3. /\ answer.now = PriceAfter(base, e, sold)
        /\ answer.state.until = UntilIncrease(sample, e, sold)
    BY <2>1, <2>2 DEF PriceNow, PricingState
  <2> HIDE DEF base, e, sold, sample
  <2>4. /\ PriceAfter(base, e, sold) <= PriceAfter(base, e, sold + 1)
        /\ PriceAfter(base, e, sold) >= base - RoundTo \div 2
        /\ 100 * PriceAfter(base, e, sold) <= base * e.surge + 100 * (RoundTo \div 2)
    BY <2>1, PricesRise
  <2> DEFINE until == UntilIncrease(sample, e, sold)
             now == PriceAfter(base, e, sold)
             later(k) == PriceAfter(base, e, sold + k)
             rest == e.total - sold
  <2>5. IF base = 0 \/ until = NoIncrease THEN \A k \in 1..rest : later(k) = now
        ELSE /\ until \in 1..rest /\ later(until) > now
             /\ \A k \in 1..(until - 1) : later(k) = now
    <3>1. CASE base = 0
      <4>1. \A k \in 1..rest : sold + k \in Nat
        BY <2>1
      <4>2. \A k \in 1..rest : later(k) = now
        BY <2>1, <3>1, <4>1, NothingStaysNothing
      <4> QED
        BY <3>1, <4>2
    <3>2. CASE base # 0
      <4>1. sample = base
        BY <3>2 DEF sample
      <4> QED
        BY <2>1, <3>2, <4>1, UntilIsExact
    <3> QED
      BY <3>1, <3>2
  <2>6. /\ now <= later(1) /\ now >= base - RoundTo \div 2
        /\ 100 * now <= base * e.surge + 100 * (RoundTo \div 2)
    BY <2>4
  <2>7. answer.now = now /\ answer.state.until = until
    BY <2>3
  <2> HIDE DEF until, now
  <2> QED
    BY <2>5, <2>6, <2>7 DEF PriceFollowsDemand, base, e, sold
<1> QED
  BY <1>1, CatalogueServes, PTL DEF CatalogueInv

----------------------------------------------------------------------------
(* The forecast                                                            *)

LEMMA LargerOfTwo ==
  ASSUME NEW a \in Int, NEW b \in Int
  PROVE  Max({a, b}) = IF a >= b THEN a ELSE b
BY DEF Max

LEMMA SmallestOfTwo ==
  ASSUME NEW a \in Int, NEW b \in Int
  PROVE  Min({a, b}) = IF a <= b THEN a ELSE b
BY DEF Min

LEMMA LeastOfMore ==
  ASSUME NEW s, NEW m \in Nat, \A j \in 1..m : s[j] \in Int,
         NEW i \in 1..(m - 1), \A j \in 1..(m - 1) : s[i] <= s[j]
  PROVE  \E k \in 1..m : \A j \in 1..m : s[k] <= s[j]
<1>1. i \in 1..m /\ m \in 1..m /\ \A j \in 1..m : j = m \/ j \in 1..(m - 1)
  OBVIOUS
<1>2. CASE s[i] <= s[m]
  BY <1>1, <1>2
<1>3. CASE ~(s[i] <= s[m])
  <2>1. \A j \in 1..m : s[m] <= s[j]
    BY <1>1, <1>3
  <2> QED
    BY <1>1, <2>1
<1> QED
  BY <1>2, <1>3

\* Some number of a sequence is the least.
LEMMA LeastOfSequence ==
  ASSUME NEW s \in Seq(Int), s # <<>>
  PROVE  \E i \in DOMAIN s : \A j \in DOMAIN s : s[i] <= s[j]
<1> DEFINE n == Len(s)
           Has(m) == \E i \in 1..m : \A j \in 1..m : s[i] <= s[j]
           T == {m \in 1..n : ~Has(m)}
<1>1. n \in Nat \ {0} /\ DOMAIN s = 1..n /\ \A i \in 1..n : s[i] \in Int
  OBVIOUS
<1> HIDE DEF n
<1>2. ASSUME T # {} PROVE FALSE
  <2>1. PICK m \in T : \A k \in T : m <= k
    <3>1. T \subseteq Nat
      BY <1>1
    <3> HIDE DEF T
    <3> QED
      BY <1>2, <3>1, LeastNatural
  <2>2. CASE m = 1
    <3>1. 1..1 = {1} /\ s[1] \in Int
      BY <1>1
    <3> QED
      BY <2>2, <3>1
  <2>3. CASE m # 1
    <3>1. m - 1 \in 1..n /\ m \in 1..n /\ 1..m = 1..(m - 1) \cup {m}
      BY <1>1, <2>3
    <3>2. PICK i \in 1..(m - 1) : \A j \in 1..(m - 1) : s[i] <= s[j]
      BY <2>1, <3>1
    <3>3. Has(m)
      <4>1. \A j \in 1..m : s[j] \in Int
        BY <1>1, <3>1
      <4>2. m \in Nat
        BY <1>1, <3>1
      <4> HIDE DEF T
      <4> QED
        BY <3>2, <4>1, <4>2, LeastOfMore
    <3> QED
      BY <2>1, <3>3
  <2> QED
    BY <2>2, <2>3
<1>4. Has(n)
  <2> SUFFICES ASSUME ~Has(n) PROVE FALSE
    OBVIOUS
  <2>1. n \in 1..n
    BY <1>1
  <2>2. n \in T
    BY <2>1
  <2> HIDE DEF T, Has
  <2> QED
    BY <1>2, <2>2
<1> QED
  BY <1>1, <1>4

LEMMA LeastTime ==
  ASSUME NEW times \in Seq(Int), times # <<>>
  PROVE  LET first == Min({times[i] : i \in DOMAIN times}) IN
         first \in Int /\ \A i \in DOMAIN times : first <= times[i]
<1> DEFINE S == {times[i] : i \in DOMAIN times}
<1>1. PICK i \in DOMAIN times : \A j \in DOMAIN times : times[i] <= times[j]
  BY LeastOfSequence
<1>2. times[i] \in S /\ (\A y \in S : times[i] <= y) /\ S \subseteq Int
  BY <1>1
<1>3. \A j \in DOMAIN times : times[j] \in S
  OBVIOUS
<1> HIDE DEF S
<1>4. Min(S) \in S /\ \A y \in S : Min(S) <= y
  BY <1>2 DEF Min
<1> QED
  BY <1>2, <1>3, <1>4 DEF S

\* The pace is a number of bookings per hour, and that of the last two days if
\* enough was sold in them.
LEMMA PaceOfRecent ==
  ASSUME NEW times \in Seq(Int), NEW now \in Int, MinBookings \in Nat \ {0},
         RecentWindow \in Nat \ {0}, Cardinality(DOMAIN times) >= MinBookings
  PROVE  LET rate == Pace(times, now)
             recent == {i \in DOMAIN times : now - times[i] <= RecentWindow} IN
         /\ rate = [num |-> rate.num, den |-> rate.den]
         /\ rate.num \in Nat \ {0} /\ rate.den \in Nat \ {0}
         /\ recent # DOMAIN times /\ Cardinality(recent) >= MinBookings =>
              rate = [num |-> Cardinality(recent), den |-> RecentWindow]
<1> DEFINE ids == DOMAIN times
           first == Min({times[i] : i \in ids})
           recent == {i \in ids : now - times[i] <= RecentWindow}
<1>1. Cardinality(recent) \in Nat /\ Cardinality(ids) \in Nat /\ times # <<>>
  <2>1. IsFiniteSet(ids) /\ recent \subseteq ids
    BY FS_Interval
  <2>2. IsFiniteSet(recent)
    BY <2>1, FS_Subset
  <2>3. ASSUME times = <<>> PROVE FALSE
    <3>1. ids = {}
      BY <2>3
    <3> QED
      BY <3>1, FS_EmptySet
  <2> HIDE DEF recent, ids
  <2> QED
    BY <2>1, <2>2, <2>3, FS_CardinalityType
<1>2. first \in Int /\ \A i \in ids : first <= times[i]
  BY <1>1, LeastTime
<1>3. Pace(times, now) = IF Cardinality(recent) >= MinBookings
                         THEN Rate(Cardinality(recent), Max({first, now - RecentWindow}), now)
                         ELSE Rate(Cardinality(ids), first, now)
  BY DEF Pace
<1>4. ASSUME NEW c \in Nat \ {0}, NEW start \in Int
      PROVE  /\ Rate(c, start, now) = [num |-> c, den |-> Rate(c, start, now).den]
             /\ Rate(c, start, now).den \in Nat \ {0}
             /\ now - start >= 1 => Rate(c, start, now).den = now - start
  BY LargerOfTwo DEF Rate
<1>5. Max({first, now - RecentWindow}) \in Int
  BY <1>2, LargerOfTwo
<1>6. recent # ids => Max({first, now - RecentWindow}) = now - RecentWindow
  <2> SUFFICES ASSUME NEW i \in ids, ~(now - times[i] <= RecentWindow)
               PROVE  Max({first, now - RecentWindow}) = now - RecentWindow
    OBVIOUS
  <2>1. times[i] \in Int
    OBVIOUS
  <2> HIDE DEF first
  <2>2. first < now - RecentWindow
    BY <1>2, <2>1
  <2> QED
    BY <1>2, <2>2, LargerOfTwo
<1> HIDE DEF first, recent, ids
<1>7. CASE Cardinality(recent) >= MinBookings
  <2>1. Cardinality(recent) \in Nat \ {0}
    BY <1>1, <1>7
  <2> DEFINE start == Max({first, now - RecentWindow})
  <2>2. Pace(times, now) = Rate(Cardinality(recent), start, now)
    BY <1>3, <1>7
  <2>3. recent # ids => start = now - RecentWindow /\ now - start = RecentWindow
    BY <1>6
  <2>4. start \in Int
    BY <1>5
  <2> HIDE DEF start
  <2> DEFINE c == Cardinality(recent)  rate == Rate(c, start, now)
  <2>5. rate = [num |-> c, den |-> rate.den] /\ rate.den \in Nat \ {0}
        /\ (now - start >= 1 => rate.den = now - start)
    BY <1>4, <2>1, <2>4
  <2>6. recent # ids => rate.den = RecentWindow
    <3> HIDE DEF rate
    <3> QED
      BY <2>3, <2>5
  <2>7. Pace(times, now) = rate /\ c \in Nat \ {0}
    BY <2>1, <2>2
  <2> HIDE DEF rate, c
  <2>8. Pace(times, now) = [num |-> c, den |-> rate.den] /\ Pace(times, now).num = c
        /\ Pace(times, now).den = rate.den
    BY <2>5, <2>7
  <2> QED
    BY <2>5, <2>6, <2>7, <2>8 DEF c, recent, ids
<1>8. CASE ~(Cardinality(recent) >= MinBookings)
  <2>1. Cardinality(ids) \in Nat \ {0}
    BY <1>1 DEF ids
  <2> QED
    BY <1>2, <1>3, <1>4, <1>8, <2>1 DEF recent, ids
<1> QED
  BY <1>7, <1>8

\* The percentage is that of sold seats of all, up to half a tenth.
PercentOf(percent, sold, all) ==
  /\ sold < all
  /\ 2 * (1000 * sold) - all <= 2 * (all * percent)
  /\ 2 * (all * percent) <= 2 * (1000 * sold) + all

SoldBy(booked, rate, hours) == booked * rate.den + rate.num * Max({hours, 0})

\* A projected date is before the event and reached at the pace; a percentage
\* is of what is not all sold by then, up to half a tenth.
LEMMA EstimateFollows ==
  ASSUME NEW times \in Seq(Int), NEW total \in Nat, NEW booked \in Nat, NEW starts \in Int,
         NEW now \in Int, MinBookings \in Nat \ {0}, RecentWindow \in Nat \ {0},
         NEW e, e = Estimate(times, total, booked, starts, now), e # NoForecast
  PROVE  /\ Cardinality(DOMAIN times) >= MinBookings
         /\ e.rate = Pace(times, now)
         /\ IF e.soldOut
            THEN /\ e.at.num = 0 \/ e.at.num <= (starts - now) * e.at.den
                 /\ booked * e.rate.den * e.at.den + e.rate.num * e.at.num
                    >= total * e.rate.den * e.at.den
            ELSE PercentOf(e.percent, SoldBy(booked, e.rate, starts - now), total * e.rate.den)
<1> DEFINE rate == Pace(times, now)  n == rate.num  d == rate.den
           remaining == Max({total - booked, 0})
           sellout == [num |-> remaining * d, den |-> n]
<1>1. ~(Cardinality(DOMAIN times) < MinBookings) /\ ~(total <= 0)
  BY DEF Estimate
<1>2. Cardinality(DOMAIN times) >= MinBookings /\ total > 0
  <2>1. DOMAIN times = 1..Len(times) /\ Len(times) \in Nat
    OBVIOUS
  <2>2. Cardinality(DOMAIN times) \in Nat
    BY <2>1, FS_Interval, FS_CardinalityType
  <2> QED
    BY <1>1, <2>2
<1>3. n \in Nat \ {0} /\ d \in Nat \ {0}
  BY <1>2, PaceOfRecent
<1>4. remaining \in Nat /\ remaining = IF total >= booked THEN total - booked ELSE 0
  BY LargerOfTwo
<1>5. e = IF remaining = 0
          THEN [rate |-> rate, soldOut |-> TRUE, at |-> [num |-> 0, den |-> 1],
                percent |-> 1000]
          ELSE IF remaining * d <= (starts - now) * n
          THEN [rate |-> rate, soldOut |-> TRUE, at |-> sellout, percent |-> NoPercent]
          ELSE [rate |-> rate, soldOut |-> FALSE, at |-> [num |-> 0, den |-> 1],
                percent |-> Projected(booked, total, rate, starts - now)]
  BY <1>1 DEF Estimate
<1> HIDE DEF rate, n, d, remaining
<1>6. CASE remaining = 0
  <2>1. booked >= total
    BY <1>4, <1>6
  <2>2. booked * d >= total * d
    BY <1>3, <2>1
  <2>3. booked * d * 1 + n * 0 >= total * d * 1
    BY <1>3, <2>2
  <2> QED
    BY <1>2, <1>5, <1>6, <2>3 DEF rate, n, d
<1>7. CASE remaining # 0 /\ remaining * d <= (starts - now) * n
  <2>1. booked + remaining = total
    BY <1>4, <1>7
  <2>2. booked * d * n + n * (remaining * d) >= total * d * n
    <3>1. booked * d * n + n * (remaining * d) = (booked + remaining) * d * n
      BY <1>3, <1>4
    <3> QED
      BY <1>3, <2>1, <3>1
  <2>3. e.rate = rate /\ e.soldOut /\ e.at.num = remaining * d /\ e.at.den = n
    BY <1>5, <1>7
  <2> QED
    BY <1>2, <1>7, <2>2, <2>3 DEF rate, n, d
<1>8. CASE remaining # 0 /\ ~(remaining * d <= (starts - now) * n)
  <2> DEFINE hours == Max({starts - now, 0})
             sold == booked * d + n * hours
  <2>1. hours \in Nat /\ hours = IF starts - now >= 0 THEN starts - now ELSE 0
    BY LargerOfTwo
  <2> HIDE DEF hours
  <2>2. sold \in Nat /\ total * d \in Nat /\ total * d > 0 /\ n * hours \in Nat
    BY <1>2, <1>3, <2>1
  <2>3. booked + remaining = total /\ remaining > 0
    BY <1>4, <1>8
  <2>4. n * hours < remaining * d
    <3>1. CASE starts - now >= 0
      <4>1. (starts - now) * n = n * hours
        BY <1>3, <2>1, <3>1
      <4>2. remaining * d \in Int /\ n * hours \in Int
        BY <1>3, <1>4, <2>1
      <4> QED
        BY <1>8, <4>1, <4>2
    <3>2. CASE starts - now < 0
      <4>1. hours = 0 /\ n * hours = 0
        BY <1>3, <2>1, <3>2
      <4>2. remaining * d > 0
        BY <1>3, <1>4, <2>3
      <4> QED
        BY <4>1, <4>2
    <3> QED
      BY <3>1, <3>2
  <2>5. total * d = booked * d + remaining * d
    BY <1>3, <1>4, <2>3
  <2>6. sold < total * d
    BY <1>3, <1>4, <2>2, <2>4, <2>5
  <2>7. Min({sold, total * d}) = sold
    BY <2>2, <2>6, SmallestOfTwo
  <2>8. Projected(booked, total, rate, starts - now) = Rounded(1000 * sold, total * d)
    BY <2>7 DEF Projected, hours, n, d
  <2> DEFINE all == total * d  tenths == 1000 * sold  p == Rounded(tenths, all)
  <2>9. tenths \in Int /\ all \in Nat \ {0}
    BY <2>2
  <2> HIDE DEF sold, all, tenths
  <2>10. 2 * tenths - all <= 2 * (all * p) /\ 2 * (all * p) <= 2 * tenths + all
    BY <2>9, RoundedNear
  <2>11. e.rate = rate /\ ~e.soldOut /\ e.percent = p
    BY <1>5, <1>8, <2>8 DEF all, tenths
  <2>12. PercentOf(p, sold, all)
    <3> HIDE DEF p
    <3> QED
      BY <2>6, <2>10 DEF PercentOf, all, tenths
  <2>13. SoldBy(booked, rate, starts - now) = sold
    BY DEF SoldBy, sold, hours, n, d
  <2> HIDE DEF p
  <2> QED
    BY <1>2, <2>11, <2>12, <2>13 DEF rate, d, all
<1> QED
  BY <1>6, <1>7, <1>8

\* A launch-day spike does not set the pace, a date is one the pace reaches
\* before the event, and without one the percentage is what it sells by then up
\* to half a tenth: for every list of bookings (estimate_sellout).
THEOREM ForecastKeepsPace == CatalogueSpec => []ForecastFollowsPace
<1>1. ForecastServed => ForecastFollowsPace
  <2> SUFFICES ASSUME ForecastServed, Answered("forecast"), answer # NoForecast
               PROVE  ForecastFollowsPace
    BY DEF ForecastFollowsPace
  <2> DEFINE recent == {i \in DOMAIN call.times : call.now - call.times[i] <= RecentWindow}
  <2>1. /\ call.times \in Seq(Int) /\ call.total \in Nat /\ call.booked \in Nat
        /\ call.starts \in Int /\ call.now \in Int
        /\ MinBookings \in Nat \ {0} /\ RecentWindow \in Nat \ {0}
        /\ answer = Estimate(call.times, call.total, call.booked, call.starts, call.now)
    BY CatalogueAssumption DEF ForecastServed, Served, Answered, CatalogueAssumption
  <2>2. /\ Cardinality(DOMAIN call.times) >= MinBookings /\ answer.rate = Pace(call.times, call.now)
        /\ IF answer.soldOut
           THEN /\ answer.at.num = 0 \/ answer.at.num <= (call.starts - call.now) * answer.at.den
                /\ call.booked * answer.rate.den * answer.at.den + answer.rate.num * answer.at.num
                   >= call.total * answer.rate.den * answer.at.den
           ELSE PercentOf(answer.percent, SoldBy(call.booked, answer.rate, call.starts - call.now),
                          call.total * answer.rate.den)
    BY <2>1, EstimateFollows
  <2>3. recent # DOMAIN call.times /\ Cardinality(recent) >= MinBookings =>
          answer.rate = [num |-> Cardinality(recent), den |-> RecentWindow]
    BY <2>1, <2>2, PaceOfRecent
  <2>4. Cardinality(recent) \in Nat
    <3>1. DOMAIN call.times = 1..Len(call.times) /\ Len(call.times) \in Nat
          /\ recent \subseteq DOMAIN call.times
      BY <2>1
    <3>2. IsFiniteSet(DOMAIN call.times)
      BY <3>1, FS_Interval
    <3> HIDE DEF recent
    <3> QED
      BY <3>1, <3>2, FS_Subset, FS_CardinalityType
  <2>5. recent # DOMAIN call.times /\ Cardinality(recent) >= MinBookings =>
          answer.rate.num * RecentWindow = Cardinality(recent) * answer.rate.den
    <3> DEFINE c == Cardinality(recent)
    <3> HIDE DEF recent, c
    <3>1. ASSUME recent # DOMAIN call.times, c >= MinBookings
          PROVE  answer.rate.num = c /\ answer.rate.den = RecentWindow
      BY <2>3, <3>1 DEF c
    <3>2. c \in Nat
      BY <2>4 DEF c
    <3> QED
      BY <2>1, <3>1, <3>2 DEF c
  <2> QED
    BY <2>2, <2>5 DEF ForecastFollowsPace, PercentOf, SoldBy
<1> QED
  BY <1>1, CatalogueServes, PTL DEF CatalogueInv

\* A recursive function over 1..n whose value follows from the one before.
IsIteration(f, x, step, n) ==
  f = [i \in 1..n |-> IF i = 1 THEN x ELSE step[i][f[i - 1]]]

LEMMA IterationExists ==
  ASSUME NEW x, NEW step, NEW n \in Nat \ {0}
  PROVE  \E f : IsIteration(f, x, step, n)
<1> DEFINE Has(m) == \E f : IsIteration(f, x, step, m)
           T == {m \in Nat \ {0} : ~Has(m)}
<1>1. Has(1)
  <2> DEFINE f == [i \in 1..1 |-> x]
  <2>1. f = [i \in 1..1 |-> IF i = 1 THEN x ELSE step[i][f[i - 1]]]
    OBVIOUS
  <2> QED
    BY <2>1 DEF IsIteration
<1>2. ASSUME NEW m \in Nat \ {0}, Has(m) PROVE Has(m + 1)
  <2>1. PICK g : IsIteration(g, x, step, m)
    BY <1>2
  <2> DEFINE f == [i \in 1..(m + 1) |-> IF i = m + 1 THEN step[i][g[m]] ELSE g[i]]
  <2>2. ASSUME NEW i \in 1..(m + 1)
        PROVE  f[i] = IF i = 1 THEN x ELSE step[i][f[i - 1]]
    <3>1. CASE i = m + 1
      <4>1. m \in 1..(m + 1) /\ m # m + 1 /\ i # 1 /\ i - 1 = m
        BY <3>1
      <4>2. f[i] = step[i][g[m]] /\ f[m] = g[m]
        BY <3>1, <4>1
      <4> HIDE DEF f
      <4> QED
        BY <4>1, <4>2
    <3>2. CASE i \in 1..m
      <4>1. i # m + 1 /\ (i # 1 => i - 1 \in 1..(m + 1) /\ i - 1 # m + 1)
        BY <3>2
      <4>2. f[i] = g[i] /\ (i # 1 => f[i - 1] = g[i - 1])
        BY <4>1
      <4>3. g[i] = IF i = 1 THEN x ELSE step[i][g[i - 1]]
        BY <2>1, <3>2 DEF IsIteration
      <4> HIDE DEF f
      <4> QED
        BY <4>2, <4>3
    <3> QED
      BY <3>1, <3>2
  <2>3. f = [i \in 1..(m + 1) |-> f[i]]
    OBVIOUS
  <2> HIDE DEF f
  <2>4. f = [i \in 1..(m + 1) |-> IF i = 1 THEN x ELSE step[i][f[i - 1]]]
    BY <2>2, <2>3
  <2> QED
    BY <2>4 DEF IsIteration
<1> HIDE DEF Has
<1>3. ASSUME T # {} PROVE FALSE
  <2>1. PICK m \in T : \A k \in T : m <= k
    <3>1. T \subseteq Nat
      OBVIOUS
    <3> HIDE DEF T
    <3> QED
      BY <1>3, <3>1, LeastNatural
  <2>2. m = 1 \/ (m - 1 \in Nat \ {0} /\ m - 1 \notin T /\ (m - 1) + 1 = m)
    BY <2>1
  <2> QED
    BY <1>1, <1>2, <2>2
<1> QED
  BY <1>3 DEF Has

LEMMA IterationType ==
  ASSUME NEW S, NEW x \in S, NEW n \in Nat \ {0}, NEW step \in [1..n -> [S -> S]], NEW f,
         IsIteration(f, x, step, n)
  PROVE  f \in [1..n -> S]
<1> DEFINE T == {i \in 1..n : f[i] \notin S}
<1>1. \A i \in 1..n : f[i] = IF i = 1 THEN x ELSE step[i][f[i - 1]]
  BY DEF IsIteration
<1>2. ASSUME T # {} PROVE FALSE
  <2>1. PICK m \in T : \A k \in T : m <= k
    <3>1. T \subseteq Nat
      OBVIOUS
    <3> HIDE DEF T
    <3> QED
      BY <1>2, <3>1, LeastNatural
  <2>2. m \in 1..n /\ (m # 1 => m - 1 \in 1..n /\ ~(m <= m - 1))
    OBVIOUS
  <2>3. m # 1 => f[m - 1] \in S
    BY <2>1, <2>2
  <2>4. f[m] \in S
    BY <1>1, <2>2, <2>3
  <2> QED
    BY <2>4
<1> QED
  BY <1>2 DEF IsIteration

----------------------------------------------------------------------------
(* The token bucket                                                        *)

\* One token for a call, as enforce asks for.
Call == [limit: Limit, cost: {1}, now: Int]
Bucket == [tokens: Int, ts: Int]

\* The recursive functions of BucketsOf and Forward.
IsBuckets(f, calls, n) ==
  f = [i \in 1..n |-> IF i = 1 THEN NoBucket
                      ELSE Checked(f[i - 1], calls[i - 1].limit, calls[i - 1].cost, calls[i - 1].now)]
IsMoved(f, calls, n) ==
  f = [i \in 1..n |-> IF i = 1 THEN 0
                      ELSE f[i - 1] + Max({0, calls[i].now - calls[i - 1].now})]

LEMMA CheckedType ==
  ASSUME NEW bucket \in Bucket, NEW limit \in Limit, NEW cost \in Nat, NEW now \in Int
  PROVE  /\ Refilled(bucket, limit, now) \in Int
         /\ Checked(bucket, limit, cost, now) \in Bucket
<1>1. limit.capacity \in Nat /\ limit.refill \in Nat /\ bucket.tokens \in Int /\ bucket.ts \in Int
  BY DEF Bucket, Limit
<1>2. Max({0, now - bucket.ts}) \in Int
  BY <1>1, LargerOfTwo
<1> DEFINE back == Max({0, now - bucket.ts}) * limit.refill
<1>3. back \in Int
  BY <1>1, <1>2
<1>5. Refilled(bucket, limit, now) = IF bucket = NoBucket THEN limit.capacity
                                     ELSE Min({limit.capacity, bucket.tokens + back})
  BY DEF Refilled
<1> HIDE DEF back
<1>4. Refilled(bucket, limit, now) \in Int
  BY <1>1, <1>3, <1>5, SmallestOfTwo
<1> QED
  BY <1>4 DEF Checked, Bucket

LEMMA BucketsExist ==
  ASSUME NEW n \in Nat \ {0}, NEW calls, \A i \in 1..(n - 1) : calls[i] \in Call
  PROVE  \E f : IsBuckets(f, calls, n)
<1> DEFINE next(x, i) == Checked(x, calls[i - 1].limit, calls[i - 1].cost, calls[i - 1].now)
           step == [i \in 1..n |-> [x \in Bucket |-> IF i = 1 THEN NoBucket ELSE next(x, i)]]
<1>1. NoBucket \in Bucket
  BY DEF NoBucket, Bucket
<1>2. ASSUME NEW i \in 1..n, NEW x \in Bucket, i # 1 PROVE next(x, i) \in Bucket
  <2>1. i - 1 \in 1..(n - 1)
    BY <1>2
  <2> QED
    BY <2>1, CheckedType DEF Call
<1>3. step \in [1..n -> [Bucket -> Bucket]]
  BY <1>1, <1>2
<1>4. \A i \in 1..n : \A x \in Bucket : i # 1 => step[i][x] = next(x, i)
  OBVIOUS
<1> HIDE DEF step, next
<1>5. PICK f : IsIteration(f, NoBucket, step, n)
  BY IterationExists
<1>6. f \in [1..n -> Bucket]
  BY <1>1, <1>3, <1>5, IterationType
<1>7. \A i \in 1..n : f[i] = IF i = 1 THEN NoBucket ELSE next(f[i - 1], i)
  <2> SUFFICES ASSUME NEW i \in 1..n
               PROVE  f[i] = IF i = 1 THEN NoBucket ELSE next(f[i - 1], i)
    OBVIOUS
  <2>1. f[i] = IF i = 1 THEN NoBucket ELSE step[i][f[i - 1]]
    BY <1>5 DEF IsIteration
  <2>2. i # 1 => i - 1 \in 1..n
    OBVIOUS
  <2> QED
    BY <1>4, <1>6, <2>1, <2>2
<1>8. f = [i \in 1..n |-> IF i = 1 THEN NoBucket ELSE next(f[i - 1], i)]
  BY <1>6, <1>7
<1> QED
  BY <1>8 DEF IsBuckets, next

LEMMA MovedExists ==
  ASSUME NEW n \in Nat \ {0}, NEW calls, \A i \in 1..n : calls[i].now \in Int
  PROVE  \E f : IsMoved(f, calls, n)
<1> DEFINE gap(i) == Max({0, calls[i].now - calls[i - 1].now})
           step == [i \in 1..n |-> [x \in Int |-> IF i = 1 THEN 0 ELSE x + gap(i)]]
<1>2. ASSUME NEW i \in 1..n, i # 1 PROVE gap(i) \in Int
  <2>1. i - 1 \in 1..n
    BY <1>2
  <2> QED
    BY <2>1, LargerOfTwo
<1> HIDE DEF gap
<1>3. step \in [1..n -> [Int -> Int]]
  BY <1>2
<1>4. \A i \in 1..n : \A x \in Int : i # 1 => step[i][x] = x + gap(i)
  OBVIOUS
<1> HIDE DEF step
<1>5. PICK f : IsIteration(f, 0, step, n)
  BY IterationExists
<1>6. f \in [1..n -> Int]
  <2>1. 0 \in Int
    OBVIOUS
  <2> QED
    BY <1>3, <1>5, <2>1, IterationType, Zenon
<1>7. \A i \in 1..n : f[i] = IF i = 1 THEN 0 ELSE f[i - 1] + gap(i)
  <2> SUFFICES ASSUME NEW i \in 1..n
               PROVE  f[i] = IF i = 1 THEN 0 ELSE f[i - 1] + gap(i)
    OBVIOUS
  <2>1. f[i] = IF i = 1 THEN 0 ELSE step[i][f[i - 1]]
    BY <1>5 DEF IsIteration
  <2>2. i # 1 => i - 1 \in 1..n
    OBVIOUS
  <2> QED
    BY <1>4, <1>6, <2>1, <2>2
<1>8. f = [i \in 1..n |-> IF i = 1 THEN 0 ELSE f[i - 1] + gap(i)]
  BY <1>6, <1>7
<1> QED
  BY <1>8 DEF IsMoved, gap

\* What one call does to a bucket.
Effect(bucket, c, after, allowed) ==
  LET r == Refilled(bucket, c.limit, c.now) IN
  /\ r \in Nat /\ r <= c.limit.capacity
  /\ bucket # NoBucket => r <= bucket.tokens + Max({0, c.now - bucket.ts}) * c.limit.refill
  /\ allowed <=> r >= 1
  /\ after.ts = c.now /\ after.tokens = IF allowed THEN r - 1 ELSE r
  /\ after \in [tokens: Nat, ts: Int]

LEMMA OneCall ==
  ASSUME NEW bucket, NEW c \in Call, bucket = NoBucket \/ bucket \in [tokens: Nat, ts: Int]
  PROVE  Effect(bucket, c, Checked(bucket, c.limit, c.cost, c.now),
                Allowed(bucket, c.limit, c.cost, c.now))
<1>1. /\ c.limit.capacity \in Nat \ {0} /\ c.limit.refill \in Nat \ {0} /\ c.cost = 1
      /\ c.now \in Int
  BY DEF Call, Limit
<1> DEFINE gap == Max({0, c.now - bucket.ts})
           back == gap * c.limit.refill
           r == Refilled(bucket, c.limit, c.now)
<1>2. bucket # NoBucket => bucket.tokens \in Nat /\ back \in Nat
  <2> SUFFICES ASSUME bucket \in [tokens: Nat, ts: Int] PROVE bucket.tokens \in Nat /\ back \in Nat
    OBVIOUS
  <2>1. bucket.tokens \in Nat /\ bucket.ts \in Int
    OBVIOUS
  <2>2. gap \in Nat
    BY <1>1, <2>1, LargerOfTwo
  <2> HIDE DEF gap
  <2> QED
    BY <1>1, <2>1, <2>2
<1>3. r = IF bucket = NoBucket THEN c.limit.capacity
          ELSE Min({c.limit.capacity, bucket.tokens + back})
  BY DEF Refilled
<1> HIDE DEF back, r
<1>4. /\ r \in Nat /\ r <= c.limit.capacity
      /\ bucket # NoBucket => r <= bucket.tokens + back
  BY <1>1, <1>2, <1>3, SmallestOfTwo
<1>5. Allowed(bucket, c.limit, c.cost, c.now) <=> r >= 1
  BY <1>1 DEF Allowed, Needed, r
<1>6. Checked(bucket, c.limit, c.cost, c.now) =
        [tokens |-> r - (IF Allowed(bucket, c.limit, c.cost, c.now) THEN 1 ELSE 0), ts |-> c.now]
  BY <1>1 DEF Checked, r
<1>7. /\ Checked(bucket, c.limit, c.cost, c.now).ts = c.now
      /\ Checked(bucket, c.limit, c.cost, c.now).tokens
         = IF Allowed(bucket, c.limit, c.cost, c.now) THEN r - 1 ELSE r
      /\ Checked(bucket, c.limit, c.cost, c.now) \in [tokens: Nat, ts: Int]
  BY <1>1, <1>4, <1>5, <1>6
<1> QED
  BY <1>4, <1>5, <1>7 DEF r, back, Effect

\* A sequence of calls, their buckets, how far the clocks moved, and bounds of
\* the limits.
IsRun(calls, n, bucket, moved, cap, ref) ==
  /\ n \in Nat \ {0} /\ \A i \in 1..n : calls[i] \in Call
  /\ cap \in Nat /\ ref \in Nat
  /\ \A i \in 1..n : calls[i].limit.capacity <= cap /\ calls[i].limit.refill <= ref
  /\ IsBuckets(bucket, calls, n + 1) /\ IsMoved(moved, calls, n)

Passes(calls, bucket, i) ==
  Allowed(bucket[i], calls[i].limit, calls[i].cost, calls[i].now)

\* What was spent and what is left after i calls.
Accounts(calls, bucket, moved, cap, ref, i) ==
  /\ bucket[i + 1] \in [tokens: Nat, ts: Int] /\ bucket[i + 1].ts = calls[i].now
  /\ moved[i] \in Nat
  /\ IsFiniteSet({k \in 1..i : Passes(calls, bucket, k)})
  /\ Cardinality({k \in 1..i : Passes(calls, bucket, k)}) + bucket[i + 1].tokens
     <= cap + ref * moved[i]

LEMMA AccountsStart ==
  ASSUME NEW calls, NEW n, NEW bucket, NEW moved, NEW cap, NEW ref,
         IsRun(calls, n, bucket, moved, cap, ref)
  PROVE  Accounts(calls, bucket, moved, cap, ref, 1)
<1> DEFINE c == calls[1]  A == {k \in 1..1 : Passes(calls, bucket, k)}
<1>1. /\ c \in Call /\ c.limit.capacity <= cap /\ cap \in Nat /\ ref \in Nat /\ n \in Nat \ {0}
  BY DEF IsRun
<1>2. bucket[1] = NoBucket /\ bucket[2] = Checked(bucket[1], c.limit, c.cost, c.now) /\ moved[1] = 0
  <2>1. 1 \in 1..(n + 1) /\ 2 \in 1..(n + 1) /\ 1 \in 1..n /\ 2 - 1 = 1
    BY <1>1
  <2> QED
    BY <2>1 DEF IsRun, IsBuckets, IsMoved
<1>3. /\ Refilled(bucket[1], c.limit, c.now) \in Nat
      /\ Refilled(bucket[1], c.limit, c.now) <= c.limit.capacity
      /\ Passes(calls, bucket, 1) <=> Refilled(bucket[1], c.limit, c.now) >= 1
      /\ bucket[2].ts = c.now /\ bucket[2] \in [tokens: Nat, ts: Int]
      /\ bucket[2].tokens = IF Passes(calls, bucket, 1) THEN Refilled(bucket[1], c.limit, c.now) - 1
                            ELSE Refilled(bucket[1], c.limit, c.now)
  <2>1. Passes(calls, bucket, 1) <=> Allowed(bucket[1], c.limit, c.cost, c.now)
    BY DEF Passes
  <2>2. c \in Call /\ bucket[1] = NoBucket
    BY <1>1, <1>2
  <2> HIDE DEF c
  <2>3. Effect(bucket[1], c, Checked(bucket[1], c.limit, c.cost, c.now),
               Allowed(bucket[1], c.limit, c.cost, c.now))
    BY <2>2, OneCall
  <2> QED
    BY <1>2, <2>1, <2>3 DEF Effect
<1>4. A = IF Passes(calls, bucket, 1) THEN {1} ELSE {}
  OBVIOUS
<1>5. /\ IsFiniteSet(A) /\ Cardinality(A) = IF Passes(calls, bucket, 1) THEN 1 ELSE 0
  <2>1. IsFiniteSet({1}) /\ Cardinality({1}) = 1 /\ IsFiniteSet({}) /\ Cardinality({}) = 0
    BY FS_EmptySet, FS_Singleton
  <2> HIDE DEF A
  <2> QED
    BY <1>4, <2>1
<1>6. c.limit.capacity \in Nat
  BY <1>1 DEF Call, Limit
<1> HIDE DEF A
<1>7. Cardinality(A) + bucket[2].tokens <= cap + ref * moved[1]
  BY <1>1, <1>2, <1>3, <1>5, <1>6
<1> QED
  BY <1>2, <1>3, <1>5, <1>7 DEF Accounts, A

LEMMA AccountsGoOn ==
  ASSUME NEW calls, NEW n, NEW bucket, NEW moved, NEW cap, NEW ref,
         IsRun(calls, n, bucket, moved, cap, ref),
         NEW i \in 1..(n - 1), Accounts(calls, bucket, moved, cap, ref, i)
  PROVE  Accounts(calls, bucket, moved, cap, ref, i + 1)
<1> DEFINE c == calls[i + 1]
           b == bucket[i + 1]
           A == {k \in 1..i : Passes(calls, bucket, k)}
           B == {k \in 1..(i + 1) : Passes(calls, bucket, k)}
           gap == Max({0, c.now - b.ts})
           r == Refilled(b, c.limit, c.now)
           p == Passes(calls, bucket, i + 1)
<1>1. /\ c \in Call /\ c.limit.refill <= ref /\ cap \in Nat /\ ref \in Nat /\ n \in Nat \ {0}
      /\ i \in 1..n /\ i + 1 \in 1..n /\ calls[i].now \in Int
  <2>1. n \in Nat \ {0} /\ i \in 1..n /\ i + 1 \in 1..n
    BY DEF IsRun
  <2>2. c \in Call /\ calls[i] \in Call /\ c.limit.refill <= ref
    BY <2>1 DEF IsRun
  <2> QED
    BY <2>1, <2>2 DEF IsRun, Call
<1>2. /\ bucket[i + 2] = Checked(b, c.limit, c.cost, c.now)
      /\ moved[i + 1] = moved[i] + gap
  <2>1. /\ i + 2 \in 1..(n + 1) /\ i + 2 # 1 /\ (i + 2) - 1 = i + 1
        /\ i + 1 # 1 /\ (i + 1) - 1 = i
    BY <1>1
  <2>2. bucket[i + 2] = Checked(b, c.limit, c.cost, c.now)
    BY <2>1 DEF IsRun, IsBuckets
  <2>3. moved[i + 1] = moved[i] + Max({0, c.now - calls[i].now})
    BY <1>1, <2>1 DEF IsRun, IsMoved
  <2> QED
    BY <2>2, <2>3 DEF Accounts
<1>3. /\ b \in [tokens: Nat, ts: Int] /\ moved[i] \in Nat /\ IsFiniteSet(A)
      /\ Cardinality(A) + b.tokens <= cap + ref * moved[i]
  BY DEF Accounts
<1>4. gap \in Nat /\ c.now \in Int /\ c.limit.refill \in Nat
  <2>1. c.now \in Int /\ b.ts \in Int /\ c.limit.refill \in Nat
    BY <1>1, <1>3 DEF Call, Limit
  <2> QED
    BY <2>1, LargerOfTwo
<1>5. b # NoBucket
  BY <1>3 DEF NoBucket
<1>6. p <=> Allowed(b, c.limit, c.cost, c.now)
  BY DEF Passes
<1> HIDE DEF b, c, p, gap
<1>7. /\ r \in Nat /\ r <= b.tokens + gap * c.limit.refill
      /\ bucket[i + 2].ts = c.now /\ bucket[i + 2] \in [tokens: Nat, ts: Int]
      /\ bucket[i + 2].tokens = IF p THEN r - 1 ELSE r
      /\ p => r >= 1
  <2>1. c \in Call /\ b \in [tokens: Nat, ts: Int] /\ b # NoBucket
    BY <1>1, <1>3, <1>5
  <2>2. Effect(b, c, Checked(b, c.limit, c.cost, c.now), Allowed(b, c.limit, c.cost, c.now))
    BY <2>1, OneCall
  <2> QED
    BY <1>2, <1>6, <2>1, <2>2 DEF Effect, gap
<1> HIDE DEF r
<1>8. B = IF p THEN A \cup {i + 1} ELSE A
  BY DEF p
<1>9. /\ IsFiniteSet(B) /\ Cardinality(A) \in Nat
      /\ Cardinality(B) = IF p THEN Cardinality(A) + 1 ELSE Cardinality(A)
  <2>1. i + 1 \notin A
    OBVIOUS
  <2> HIDE DEF A, B
  <2> QED
    BY <1>3, <1>8, <2>1, FS_AddElement, FS_CardinalityType
<1> HIDE DEF A, B
<1>10. Cardinality(B) + bucket[i + 2].tokens <= cap + ref * moved[i + 1]
  <2>1. Cardinality(B) + bucket[i + 2].tokens = Cardinality(A) + r
    BY <1>7, <1>9
  <2>2. gap * c.limit.refill <= ref * gap
    BY <1>1, <1>4
  <2>3. ref * (moved[i] + gap) = ref * moved[i] + ref * gap
    BY <1>1, <1>3, <1>4
  <2>4. /\ gap * c.limit.refill \in Nat /\ ref * gap \in Nat /\ ref * moved[i] \in Nat
        /\ b.tokens \in Nat
    BY <1>1, <1>3, <1>4
  <2> QED
    BY <1>1, <1>2, <1>3, <1>7, <1>9, <2>1, <2>2, <2>3, <2>4
<1>11. moved[i + 1] \in Nat /\ (i + 1) + 1 = i + 2
  BY <1>2, <1>3, <1>4
<1> QED
  BY <1>7, <1>9, <1>10, <1>11 DEF Accounts, B, c

LEMMA AccountsAlways ==
  ASSUME NEW calls, NEW n, NEW bucket, NEW moved, NEW cap, NEW ref,
         IsRun(calls, n, bucket, moved, cap, ref), NEW i \in 1..n
  PROVE  Accounts(calls, bucket, moved, cap, ref, i)
<1> DEFINE Ok(k) == Accounts(calls, bucket, moved, cap, ref, k)
           T == {k \in 1..n : ~Ok(k)}
<1>1. n \in Nat \ {0}
  BY DEF IsRun
<1>2. Ok(1)
  BY AccountsStart
<1>3. \A k \in 1..(n - 1) : Ok(k) => Ok(k + 1)
  BY AccountsGoOn
<1> HIDE DEF Ok
<1>4. ASSUME T # {} PROVE FALSE
  <2>1. PICK m \in T : \A k \in T : m <= k
    <3>1. T \subseteq Nat
      BY <1>1
    <3> HIDE DEF T
    <3> QED
      BY <1>4, <3>1, LeastNatural
  <2>2. m \in 1..n /\ ~Ok(m) /\ m # 1
    BY <1>2
  <2>3. m - 1 \in 1..(n - 1) /\ m - 1 \in 1..n /\ (m - 1) + 1 = m /\ ~(m <= m - 1)
    BY <1>1, <2>2
  <2>4. Ok(m - 1)
    BY <2>1, <2>3
  <2> QED
    BY <1>3, <2>2, <2>3, <2>4
<1> QED
  BY <1>4 DEF Ok

\* Some number of a sequence is the greatest.
LEMMA LargestOf ==
  ASSUME NEW s \in Seq(Int), s # <<>>, NEW S, S = {s[i] : i \in DOMAIN s}
  PROVE  Max(S) \in S /\ \A y \in S : y <= Max(S)
<1> DEFINE t == [i \in 1..Len(s) |-> 0 - s[i]]
<1>1. t \in Seq(Int) /\ t # <<>> /\ DOMAIN t = DOMAIN s
  OBVIOUS
<1>2. \A i \in DOMAIN s : t[i] = 0 - s[i] /\ s[i] \in Int
  OBVIOUS
<1> HIDE DEF t
<1>3. PICK i \in DOMAIN t : \A j \in DOMAIN t : t[i] <= t[j]
  BY <1>1, LeastOfSequence
<1>4. \A j \in DOMAIN s : s[j] <= s[i]
  BY <1>1, <1>2, <1>3
<1>5. s[i] \in S /\ S \subseteq Int /\ \A y \in S : s[i] >= y
  BY <1>1, <1>2, <1>4
<1>6. Max(S) \in S /\ \A y \in S : Max(S) >= y
  BY <1>5 DEF Max
<1> QED
  BY <1>5, <1>6

\* A call that was refused is allowed after RetryAfter.
LEMMA RetryIsAllowed ==
  ASSUME NEW bucket, NEW c \in Call, bucket = NoBucket \/ bucket \in [tokens: Nat, ts: Int],
         ~Allowed(bucket, c.limit, c.cost, c.now)
  PROVE  Allowed(Checked(bucket, c.limit, c.cost, c.now), c.limit, c.cost,
                 c.now + RetryAfter(bucket, c.limit, c.cost, c.now))
<1> DEFINE r == Refilled(bucket, c.limit, c.now)
           after == Checked(bucket, c.limit, c.cost, c.now)
           wait == RetryAfter(bucket, c.limit, c.cost, c.now)
<1>1. /\ c.limit.capacity \in Nat \ {0} /\ c.limit.refill \in Nat \ {0} /\ c.cost = 1
      /\ c.now \in Int
  BY DEF Call, Limit
<1>2. Effect(bucket, c, after, Allowed(bucket, c.limit, c.cost, c.now))
  BY OneCall
<1>3. r = 0
  BY <1>2 DEF Effect
<1>4. after = [tokens |-> 0, ts |-> c.now]
  BY <1>3 DEF Checked
<1>5. wait = 1
  <2>1. wait = c.limit.refill \div c.limit.refill
    BY <1>1, <1>3 DEF RetryAfter, Needed
  <2> QED
    BY <1>1, <2>1
<1> HIDE DEF r, after, wait
<1>6. after # NoBucket /\ after.tokens = 0 /\ after.ts = c.now
  BY <1>4 DEF NoBucket
<1>7. Max({0, (c.now + 1) - c.now}) = 1
  BY <1>1, LargerOfTwo
<1>8. Refilled(after, c.limit, c.now + 1) = Min({c.limit.capacity, c.limit.refill})
  <2>1. Refilled(after, c.limit, c.now + 1)
        = Min({c.limit.capacity, after.tokens + Max({0, (c.now + 1) - after.ts}) * c.limit.refill})
    BY <1>6 DEF Refilled
  <2>2. Max({0, (c.now + 1) - after.ts}) = 1
    BY <1>6, <1>7
  <2>3. after.tokens + 1 * c.limit.refill = c.limit.refill
    BY <1>1, <1>6
  <2> QED
    BY <2>1, <2>2, <2>3
<1>9. Refilled(after, c.limit, c.now + 1) >= 1
  BY <1>1, <1>8, SmallestOfTwo
<1>10. Allowed(after, c.limit, c.cost, c.now + wait)
  BY <1>1, <1>5, <1>9 DEF Allowed, Needed
<1> QED
  BY <1>10 DEF after, wait

\* In any order of the callers' clocks, and with several limits on one bucket, no
\* more calls are allowed than the burst and the refill; and Retry-After is
\* enough (rate_limit.py).
THEOREM BucketsKeepTheirRate == CatalogueSpec => []BucketKeepsItsRate
<1>1. LimitServed => BucketKeepsItsRate
  <2> SUFFICES ASSUME LimitServed, Answered("limit") PROVE BucketKeepsItsRate
    BY DEF BucketKeepsItsRate
  <2> DEFINE calls == call.calls
             n == Len(calls)
             limits == {calls[i].limit : i \in DOMAIN calls}
             bucket == BucketsOf(calls)
             cap == Max({l.capacity : l \in limits})
             ref == Max({l.refill : l \in limits})
  <2>1. calls \in Seq(Call) /\ calls # <<>> /\ answer = AllowedCalls(calls)
    BY CatalogueAssumption DEF LimitServed, Served, Answered, CatalogueAssumption, Call
  <2> HIDE DEF calls
  <2>2. n \in Nat \ {0} /\ DOMAIN calls = 1..n /\ \A i \in 1..n : calls[i] \in Call
    BY <2>1
  <2>3. /\ cap \in Nat /\ \A i \in 1..n : calls[i].limit.capacity <= cap
        /\ ref \in Nat /\ \A i \in 1..n : calls[i].limit.refill <= ref
    <3> DEFINE s == [i \in 1..n |-> calls[i].limit.capacity]
               t == [i \in 1..n |-> calls[i].limit.refill]
    <3>1. \A i \in 1..n : calls[i].limit.capacity \in Nat /\ calls[i].limit.refill \in Nat
      BY <2>2 DEF Call, Limit
    <3>2. /\ s \in Seq(Int) /\ s # <<>> /\ DOMAIN s = 1..n
          /\ t \in Seq(Int) /\ t # <<>> /\ DOMAIN t = 1..n
      BY <2>2, <3>1
    <3>3. /\ {l.capacity : l \in limits} = {s[i] : i \in DOMAIN s}
          /\ {l.refill : l \in limits} = {t[i] : i \in DOMAIN t}
      BY <2>2
    <3>4. /\ \A i \in 1..n : s[i] = calls[i].limit.capacity /\ s[i] \in {s[j] : j \in DOMAIN s}
          /\ \A i \in 1..n : t[i] = calls[i].limit.refill /\ t[i] \in {t[j] : j \in DOMAIN t}
          /\ {s[j] : j \in DOMAIN s} \subseteq Nat /\ {t[j] : j \in DOMAIN t} \subseteq Nat
      BY <3>1
    <3> HIDE DEF s, t, limits
    <3>5. /\ cap \in {s[i] : i \in DOMAIN s} /\ \A y \in {s[i] : i \in DOMAIN s} : y <= cap
      BY <3>2, <3>3, LargestOf
    <3>6. /\ ref \in {t[i] : i \in DOMAIN t} /\ \A y \in {t[i] : i \in DOMAIN t} : y <= ref
      BY <3>2, <3>3, LargestOf
    <3> HIDE DEF cap, ref
    <3> QED
      BY <3>4, <3>5, <3>6
  <2>4. IsBuckets(bucket, calls, n + 1)
    <3>1. bucket = CHOOSE f : IsBuckets(f, calls, n + 1)
      BY DEF BucketsOf, IsBuckets
    <3>2. n + 1 \in Nat \ {0} /\ (n + 1) - 1 = n
      BY <2>2
    <3> HIDE DEF bucket, n
    <3> QED
      BY <2>2, <3>1, <3>2, BucketsExist
  <2>5. PICK moved : IsMoved(moved, calls, n) /\ Forward(calls) = moved[n]
    <3> DEFINE moved == CHOOSE f : IsMoved(f, calls, n)
    <3>1. Forward(calls) = moved[n]
      BY DEF Forward, IsMoved
    <3>2. \A i \in 1..n : calls[i].now \in Int
      BY <2>2 DEF Call
    <3> HIDE DEF n
    <3>3. IsMoved(moved, calls, n)
      BY <2>2, <3>2, MovedExists
    <3> QED
      BY <3>1, <3>3
  <2> HIDE DEF n, bucket, cap, ref, limits
  <2>6. IsRun(calls, n, bucket, moved, cap, ref)
    BY <2>2, <2>3, <2>4, <2>5 DEF IsRun
  <2>7. answer = {i \in 1..n : Passes(calls, bucket, i)}
    BY <2>1, <2>2 DEF AllowedCalls, Passes, bucket
  <2>8. Cardinality(answer) <= cap + ref * Forward(calls)
    <3>1. n \in 1..n
      BY <2>2
    <3>2. Accounts(calls, bucket, moved, cap, ref, n)
      BY <2>6, <3>1, AccountsAlways
    <3>3. /\ bucket[n + 1].tokens \in Nat /\ moved[n] \in Nat /\ Cardinality(answer) \in Nat
          /\ Cardinality(answer) + bucket[n + 1].tokens <= cap + ref * moved[n]
      BY <2>7, <3>2, FS_CardinalityType DEF Accounts
    <3>4. ref * moved[n] \in Nat
      BY <2>3, <3>3
    <3> QED
      BY <2>3, <2>5, <3>3, <3>4
  <2>9. ASSUME NEW i \in DOMAIN calls \ answer
        PROVE  LET c == calls[i] IN
               Allowed(bucket[i + 1], c.limit, c.cost,
                       c.now + RetryAfter(bucket[i], c.limit, c.cost, c.now))
    <3> DEFINE c == calls[i]
    <3>1. i \in 1..n /\ c \in Call /\ ~Allowed(bucket[i], c.limit, c.cost, c.now)
      BY <2>2, <2>7 DEF Passes
    <3>2. i + 1 \in 1..(n + 1) /\ i + 1 # 1 /\ (i + 1) - 1 = i
      BY <2>2, <3>1
    <3>3. bucket[i + 1] = Checked(bucket[i], c.limit, c.cost, c.now)
      BY <2>4, <3>2 DEF IsBuckets
    <3>4. bucket[i] = NoBucket \/ bucket[i] \in [tokens: Nat, ts: Int]
      <4>1. CASE i = 1
        BY <2>2, <2>4, <4>1 DEF IsBuckets
      <4>2. CASE i # 1
        <5>1. i - 1 \in 1..n /\ (i - 1) + 1 = i
          BY <2>2, <3>1, <4>2
        <5>2. Accounts(calls, bucket, moved, cap, ref, i - 1)
          BY <2>6, <5>1, AccountsAlways
        <5> QED
          BY <5>1, <5>2 DEF Accounts
      <4> QED
        BY <4>1, <4>2
    <3> HIDE DEF c
    <3> QED
      BY <3>1, <3>3, <3>4, RetryIsAllowed DEF c
  <2> QED
    BY <2>8, <2>9 DEF BucketKeepsItsRate, calls, bucket, cap, ref, limits
<1> QED
  BY <1>1, CatalogueServes, PTL DEF CatalogueInv

----------------------------------------------------------------------------
(* The guesses of login                                                    *)

Attempts == [bucket: Bucket, tried: Int, pending: Int]
NoAttempt == [bucket |-> NoBucket, tried |-> 0, pending |-> 0]

\* The recursive function of Guessing.
IsGuessing(f, steps, limit, n) ==
  f = [i \in 1..n |-> IF i = 1 THEN NoAttempt ELSE Attempted(f[i - 1], steps[i - 1], limit)]

LEMMA GuessingExists ==
  ASSUME NEW n \in Nat \ {0}, NEW limit \in Limit,
         NEW steps, \A i \in 1..(n - 1) : steps[i] \in GuessStep
  PROVE  \E f : IsGuessing(f, steps, limit, n)
<1> DEFINE next(s, i) == Attempted(s, steps[i - 1], limit)
           step == [i \in 1..n |-> [s \in Attempts |-> IF i = 1 THEN NoAttempt ELSE next(s, i)]]
<1>1. NoAttempt \in Attempts
  BY DEF NoAttempt, NoBucket, Bucket, Attempts
<1>2. ASSUME NEW i \in 1..n, NEW s \in Attempts, i # 1 PROVE next(s, i) \in Attempts
  <2>1. i - 1 \in 1..(n - 1)
    BY <1>2
  <2>2. steps[i - 1].now \in Int /\ s.bucket \in Bucket /\ s.tried \in Int /\ s.pending \in Int
    BY <2>1 DEF GuessStep, Attempts
  <2>3. \A cost \in {0, 1} : Checked(s.bucket, limit, cost, steps[i - 1].now) \in Bucket
    BY <2>2, CheckedType
  <2> QED
    BY <2>2, <2>3 DEF Attempted, Attempts
<1>3. step \in [1..n -> [Attempts -> Attempts]]
  BY <1>1, <1>2
<1>4. \A i \in 1..n : \A s \in Attempts : i # 1 => step[i][s] = next(s, i)
  OBVIOUS
<1> HIDE DEF step, next
<1>5. PICK f : IsIteration(f, NoAttempt, step, n)
  BY IterationExists
<1>6. f \in [1..n -> Attempts]
  BY <1>1, <1>3, <1>5, IterationType
<1>7. \A i \in 1..n : f[i] = IF i = 1 THEN NoAttempt ELSE next(f[i - 1], i)
  <2> SUFFICES ASSUME NEW i \in 1..n
               PROVE  f[i] = IF i = 1 THEN NoAttempt ELSE next(f[i - 1], i)
    OBVIOUS
  <2>1. f[i] = IF i = 1 THEN NoAttempt ELSE step[i][f[i - 1]]
    BY <1>5 DEF IsIteration
  <2>2. i # 1 => i - 1 \in 1..n
    OBVIOUS
  <2> QED
    BY <1>4, <1>6, <2>1, <2>2
<1>8. f = [i \in 1..n |-> IF i = 1 THEN NoAttempt ELSE next(f[i - 1], i)]
  BY <1>6, <1>7
<1> QED
  BY <1>8 DEF IsGuessing, next

\* What is left of a bucket, when no key means that it is full.
Left(bucket, limit) == IF bucket = NoBucket THEN limit.capacity ELSE bucket.tokens

\* The refill since the bucket's last call.
Back(bucket, now) == IF bucket = NoBucket THEN 0 ELSE Max({0, now - bucket.ts})

\* What a peek or a charge does to a bucket that t ticks have passed for.
Visit(bucket, limit, cost, now, after, allowed) ==
  \E r \in Nat :
    /\ r <= Left(bucket, limit) + limit.refill * Back(bucket, now)
    /\ allowed <=> r >= 1
    /\ after # NoBucket /\ after.ts = now /\ after.tokens = IF allowed THEN r - cost ELSE r

LEMMA OneVisit ==
  ASSUME NEW bucket, bucket = NoBucket \/ bucket \in [tokens: Nat, ts: Int],
         NEW limit \in Limit, NEW cost \in {0, 1}, NEW now \in Int
  PROVE  /\ Visit(bucket, limit, cost, now, Checked(bucket, limit, cost, now),
                  Allowed(bucket, limit, cost, now))
         /\ Checked(bucket, limit, cost, now) \in [tokens: Nat, ts: Int]
         /\ Left(bucket, limit) \in Nat /\ Back(bucket, now) \in Nat
<1> DEFINE c == [limit |-> limit, cost |-> 1, now |-> now]
           r == Refilled(bucket, limit, now)
           a == Allowed(bucket, limit, cost, now)
<1>1. c \in Call /\ limit.capacity \in Nat \ {0} /\ limit.refill \in Nat \ {0}
  BY DEF Call, Limit
<1>2. Effect(bucket, c, Checked(bucket, limit, 1, now), Allowed(bucket, limit, 1, now))
  BY <1>1, OneCall
<1>3. /\ r \in Nat /\ r <= limit.capacity
      /\ bucket # NoBucket => r <= bucket.tokens + Max({0, now - bucket.ts}) * limit.refill
  BY <1>2 DEF Effect
<1>4. a <=> r >= 1
  BY DEF Allowed, Needed
<1>5. Checked(bucket, limit, cost, now) = [tokens |-> r - (IF a THEN cost ELSE 0), ts |-> now]
  BY DEF Checked
<1>6. Left(bucket, limit) \in Nat /\ Back(bucket, now) \in Nat
  <2>1. CASE bucket = NoBucket
    BY <1>1, <2>1 DEF Left, Back
  <2>2. CASE bucket # NoBucket
    <3>1. bucket.tokens \in Nat /\ bucket.ts \in Int
      BY <2>2
    <3>2. Max({0, now - bucket.ts}) \in Nat
      BY <3>1, LargerOfTwo
    <3> QED
      BY <2>2, <3>1, <3>2 DEF Left, Back
  <2> QED
    BY <2>1, <2>2
<1>7. r <= Left(bucket, limit) + limit.refill * Back(bucket, now)
  <2>1. CASE bucket = NoBucket
    BY <1>1, <1>3, <2>1 DEF Left, Back
  <2>2. CASE bucket # NoBucket
    <3>1. Back(bucket, now) * limit.refill = limit.refill * Back(bucket, now)
      BY <1>1, <1>6
    <3> QED
      BY <1>3, <2>2, <3>1 DEF Left, Back
  <2> QED
    BY <2>1, <2>2
<1> HIDE DEF r, a
<1>8. /\ Checked(bucket, limit, cost, now) \in [tokens: Nat, ts: Int]
      /\ Checked(bucket, limit, cost, now).ts = now
      /\ Checked(bucket, limit, cost, now).tokens = IF a THEN r - cost ELSE r
  BY <1>3, <1>4, <1>5
<1>9. Checked(bucket, limit, cost, now) # NoBucket
  BY <1>8 DEF NoBucket
<1> QED
  BY <1>3, <1>4, <1>6, <1>7, <1>8, <1>9 DEF Visit, a

\* Passwords that may still be compared before time passes, with spare + 1 at
\* a time: one for each token, and those that were let through beside them.
Possible(tokens, pending, spare) == tokens + (IF tokens = 0 THEN pending ELSE spare)

LEMMA TimeRefills ==
  ASSUME NEW t \in Nat, NEW pending \in Nat, NEW spare \in Nat, pending <= spare + 1,
         NEW ticks \in Nat, NEW refill \in Nat \ {0}, NEW r \in Nat, r <= t + refill * ticks
  PROVE  Possible(r, pending, spare) <= Possible(t, pending, spare) + (1 + spare) * (refill * ticks)
<1> DEFINE g == refill * ticks
           sg == spare * g
<1>1. g \in Nat
  OBVIOUS
<1>2. (1 + spare) * g = g + sg
  BY <1>1
<1>3. sg \in Nat /\ (g >= 1 => sg >= spare)
  BY <1>1
<1>4. r <= t + g
  OBVIOUS
<1> HIDE DEF g, sg
<1>5. Possible(r, pending, spare) <= Possible(t, pending, spare) + g + sg
  BY <1>1, <1>3, <1>4 DEF Possible
<1>6. Possible(t, pending, spare) \in Nat
  BY DEF Possible
<1> QED
  BY <1>1, <1>2, <1>3, <1>5, <1>6 DEF g

\* A peek and a charge do not add to them, with what was tried.
LEMMA StepsSpend ==
  ASSUME NEW r \in Nat, NEW pending \in Nat, NEW spare \in Nat, pending <= spare + 1
  PROVE  /\ Possible(r, IF r >= 1 THEN pending + 1 ELSE pending, spare)
            <= Possible(r, pending, spare)
         /\ pending >= 1 =>
              Possible(IF r >= 1 THEN r - 1 ELSE r, pending - 1, spare) + 1
              <= Possible(r, pending, spare)
BY DEF Possible

\* What a step adds to what was tried and may still be tried.
Spends(s, step, limit, spare, after) ==
  /\ after.bucket \in [tokens: Nat, ts: Int] /\ after.bucket # NoBucket
  /\ after.bucket.ts = step.now /\ after.tried \in Nat
  /\ after.tried + Possible(after.bucket.tokens, after.pending, spare)
     <= s.tried + Possible(Left(s.bucket, limit), s.pending, spare)
        + (1 + spare) * (limit.refill * Back(s.bucket, step.now))

LEMMA AttemptSpends ==
  ASSUME NEW s, NEW step \in GuessStep, NEW limit \in Limit, NEW spare \in Nat,
         s.bucket = NoBucket \/ s.bucket \in [tokens: Nat, ts: Int],
         s.tried \in Nat, s.pending \in 0..(spare + 1),
         NEW after, after = Attempted(s, step, limit), after.pending \in 0..(spare + 1)
  PROVE  Spends(s, step, limit, spare, after)
<1> DEFINE cost == IF step.kind = "peek" THEN 0 ELSE 1
           b == Checked(s.bucket, limit, cost, step.now)
           a == Allowed(s.bucket, limit, cost, step.now)
           t == Left(s.bucket, limit)
           ticks == Back(s.bucket, step.now)
           more == (1 + spare) * (limit.refill * ticks)
<1>1. cost \in {0, 1} /\ step.now \in Int /\ limit.refill \in Nat \ {0}
  BY DEF GuessStep, Limit
<1> HIDE DEF cost
<1>2. /\ Visit(s.bucket, limit, cost, step.now, b, a)
      /\ b \in [tokens: Nat, ts: Int] /\ t \in Nat /\ ticks \in Nat
  BY <1>1, OneVisit
<1>3. /\ after.bucket = b
      /\ step.kind = "peek" => /\ after.tried = s.tried
                               /\ after.pending = IF a THEN s.pending + 1 ELSE s.pending
      /\ step.kind # "peek" => after.tried = s.tried + 1 /\ after.pending = s.pending - 1
  BY DEF Attempted, cost
<1> HIDE DEF a, b, t, ticks
<1>4. PICK r \in Nat : /\ r <= t + limit.refill * ticks
                       /\ a <=> r >= 1
                       /\ b # NoBucket /\ b.ts = step.now /\ b.tokens = IF a THEN r - cost ELSE r
  BY <1>2 DEF Visit, t, ticks
<1>5. Possible(r, s.pending, spare) <= Possible(t, s.pending, spare) + more
  <2>1. s.pending \in Nat /\ s.pending <= spare + 1
    OBVIOUS
  <2> QED
    BY <1>1, <1>2, <1>4, <2>1, TimeRefills
<1>6. more \in Nat /\ Possible(t, s.pending, spare) \in Nat /\ Possible(r, s.pending, spare) \in Nat
  <2>1. limit.refill * ticks \in Nat
    BY <1>1, <1>2
  <2>2. (1 + spare) * (limit.refill * ticks) \in Nat
    BY <2>1
  <2> QED
    BY <1>2, <2>2 DEF Possible
<1> HIDE DEF more
<1>7. after.tried \in Nat /\ after.tried + Possible(after.bucket.tokens, after.pending, spare)
                             <= s.tried + Possible(r, s.pending, spare)
  <2>1. CASE step.kind = "peek"
    <3>1. b.tokens = r /\ after.tried = s.tried
          /\ after.pending = IF r >= 1 THEN s.pending + 1 ELSE s.pending
      BY <1>3, <1>4, <2>1 DEF cost
    <3>2. Possible(r, after.pending, spare) <= Possible(r, s.pending, spare)
      BY <3>1, StepsSpend
    <3>3. Possible(r, after.pending, spare) \in Nat
      BY DEF Possible
    <3> QED
      BY <1>3, <1>6, <3>1, <3>2, <3>3
  <2>2. CASE step.kind # "peek"
    <3>1. b.tokens = (IF r >= 1 THEN r - 1 ELSE r) /\ after.tried = s.tried + 1
          /\ after.pending = s.pending - 1 /\ s.pending >= 1
      BY <1>3, <1>4, <2>2 DEF cost
    <3>2. Possible(b.tokens, after.pending, spare) + 1 <= Possible(r, s.pending, spare)
      BY <3>1, StepsSpend
    <3>3. Possible(b.tokens, after.pending, spare) \in Nat
      BY <3>1 DEF Possible
    <3> QED
      BY <1>3, <1>6, <3>1, <3>2, <3>3
  <2> QED
    BY <2>1, <2>2
<1>8. Possible(after.bucket.tokens, after.pending, spare) \in Nat
  BY <1>2, <1>3 DEF Possible
<1> QED
  BY <1>2, <1>3, <1>4, <1>5, <1>6, <1>7, <1>8 DEF more, t, ticks, Spends

\* A sequence of steps, what is known between them, and how far the clocks moved.
IsAttack(c, state, moved) ==
  LET n == Len(c.steps) IN
  /\ n \in Nat \ {0} /\ c.limit \in Limit /\ c.inFlight \in Nat \ {0}
  /\ \A i \in 1..n : c.steps[i] \in GuessStep
  /\ IsGuessing(state, c.steps, c.limit, n + 1) /\ IsMoved(moved, c.steps, n)
  /\ \A i \in 1..(n + 1) : state[i].pending \in 0..c.inFlight

\* What was and may be tried after i steps.
Compared(c, state, moved, i) ==
  LET s == state[i + 1]  spare == c.inFlight - 1 IN
  /\ s.bucket \in [tokens: Nat, ts: Int] /\ s.bucket # NoBucket
  /\ s.bucket.ts = c.steps[i].now
  /\ s.tried \in Nat /\ moved[i] \in Nat
  /\ s.tried + Possible(s.bucket.tokens, s.pending, spare)
     <= c.limit.capacity + spare + (1 + spare) * (c.limit.refill * moved[i])

LEMMA ComparedStarts ==
  ASSUME NEW c, NEW state, NEW moved, IsAttack(c, state, moved)
  PROVE  Compared(c, state, moved, 1)
<1> DEFINE spare == c.inFlight - 1  limit == c.limit  step == c.steps[1]  s == state[1]
<1>1. /\ spare \in Nat /\ c.inFlight = spare + 1 /\ limit \in Limit /\ step \in GuessStep
      /\ limit.capacity \in Nat \ {0} /\ limit.refill \in Nat \ {0}
      /\ 1 \in 1..Len(c.steps) /\ 1 \in 1..(Len(c.steps) + 1) /\ 2 \in 1..(Len(c.steps) + 1)
  BY DEF IsAttack, Limit
<1>2. s = NoAttempt /\ state[2] = Attempted(s, step, limit) /\ moved[1] = 0
  <2>1. 2 # 1 /\ 2 - 1 = 1
    OBVIOUS
  <2> QED
    BY <1>1, <2>1 DEF IsAttack, IsGuessing, IsMoved
<1>3. /\ s.bucket = NoBucket /\ s.tried = 0 /\ s.pending = 0
      /\ state[2].pending \in 0..(spare + 1)
  BY <1>1, <1>2 DEF NoAttempt, IsAttack
<1> HIDE DEF spare, limit, step, s
<1>4. Left(s.bucket, limit) = limit.capacity /\ Back(s.bucket, step.now) = 0
  BY <1>3 DEF Left, Back
<1>5. /\ state[2].bucket \in [tokens: Nat, ts: Int] /\ state[2].bucket # NoBucket
      /\ state[2].bucket.ts = step.now /\ state[2].tried \in Nat
      /\ state[2].tried + Possible(state[2].bucket.tokens, state[2].pending, spare)
         <= s.tried + Possible(Left(s.bucket, limit), s.pending, spare)
            + (1 + spare) * (limit.refill * Back(s.bucket, step.now))
  <2>1. s.tried \in Nat /\ s.pending \in 0..(spare + 1)
    BY <1>1, <1>3
  <2>2. Spends(s, step, limit, spare, state[2])
    BY <1>1, <1>2, <1>3, <2>1, AttemptSpends
  <2> QED
    BY <2>2 DEF Spends
<1>6. s.tried + Possible(limit.capacity, s.pending, spare) = limit.capacity + spare
  BY <1>1, <1>3 DEF Possible
<1>7. state[2].tried + Possible(state[2].bucket.tokens, state[2].pending, spare)
      <= limit.capacity + spare + (1 + spare) * (limit.refill * moved[1])
  BY <1>2, <1>4, <1>5, <1>6
<1>8. 1 + 1 = 2 /\ moved[1] \in Nat
  BY <1>2
<1> QED
  BY <1>5, <1>7, <1>8 DEF Compared, spare, limit, step

LEMMA ComparedGoesOn ==
  ASSUME NEW c, NEW state, NEW moved, IsAttack(c, state, moved),
         NEW i \in 1..(Len(c.steps) - 1), Compared(c, state, moved, i)
  PROVE  Compared(c, state, moved, i + 1)
<1> DEFINE spare == c.inFlight - 1  limit == c.limit  step == c.steps[i + 1]
           s == state[i + 1]  after == state[i + 2]
           ticks == Max({0, step.now - c.steps[i].now})
<1>1. /\ spare \in Nat /\ c.inFlight = spare + 1 /\ limit \in Limit /\ step \in GuessStep
      /\ limit.capacity \in Nat \ {0} /\ limit.refill \in Nat \ {0}
      /\ i + 1 \in 1..Len(c.steps) /\ i \in 1..Len(c.steps)
      /\ i + 1 \in 1..(Len(c.steps) + 1) /\ i + 2 \in 1..(Len(c.steps) + 1)
      /\ c.steps[i] \in GuessStep
  <2>1. /\ Len(c.steps) \in Nat \ {0} /\ i + 1 \in 1..Len(c.steps) /\ i \in 1..Len(c.steps)
        /\ i + 1 \in 1..(Len(c.steps) + 1) /\ i + 2 \in 1..(Len(c.steps) + 1)
    BY DEF IsAttack
  <2>2. /\ limit \in Limit /\ step \in GuessStep /\ c.steps[i] \in GuessStep
        /\ c.inFlight \in Nat \ {0}
    BY <2>1 DEF IsAttack
  <2>3. limit.capacity \in Nat \ {0} /\ limit.refill \in Nat \ {0}
    BY <2>2 DEF Limit
  <2>4. spare \in Nat /\ c.inFlight = spare + 1
    BY <2>2
  <2> QED
    BY <2>1, <2>2, <2>3, <2>4
<1>2. after = Attempted(s, step, limit) /\ moved[i + 1] = moved[i] + ticks
  <2>1. i + 2 # 1 /\ (i + 2) - 1 = i + 1 /\ i + 1 # 1 /\ (i + 1) - 1 = i
    BY <1>1
  <2> QED
    BY <1>1, <2>1 DEF IsAttack, IsGuessing, IsMoved
<1>3. s.pending \in 0..(spare + 1) /\ after.pending \in 0..(spare + 1)
  BY <1>1 DEF IsAttack
<1>4. /\ s.bucket \in [tokens: Nat, ts: Int] /\ s.bucket # NoBucket
      /\ s.bucket.ts = c.steps[i].now
      /\ s.tried \in Nat /\ moved[i] \in Nat
  BY DEF Compared
<1>5. ticks \in Nat
  <2>1. step.now \in Int /\ c.steps[i].now \in Int
    BY <1>1 DEF GuessStep
  <2> QED
    BY <2>1, LargerOfTwo
<1>6. Left(s.bucket, limit) = s.bucket.tokens /\ Back(s.bucket, step.now) = ticks
  BY <1>4 DEF Left, Back
<1> HIDE DEF spare, limit, step, s, after, ticks
<1>7. /\ after.bucket \in [tokens: Nat, ts: Int] /\ after.bucket # NoBucket
      /\ after.bucket.ts = step.now /\ after.tried \in Nat
      /\ after.tried + Possible(after.bucket.tokens, after.pending, spare)
         <= s.tried + Possible(Left(s.bucket, limit), s.pending, spare)
            + (1 + spare) * (limit.refill * Back(s.bucket, step.now))
  <2>1. Spends(s, step, limit, spare, after)
    BY <1>1, <1>2, <1>3, <1>4, AttemptSpends
  <2> QED
    BY <2>1 DEF Spends
<1> DEFINE x == limit.refill * moved[i]  y == limit.refill * ticks
           mx == (1 + spare) * x  my == (1 + spare) * y
           p == Possible(s.bucket.tokens, s.pending, spare)
           q == Possible(after.bucket.tokens, after.pending, spare)
<1>8. spare \in Nat /\ limit.refill \in Nat /\ limit.capacity \in Nat /\ moved[i] \in Nat
  BY <1>1, <1>4
<1>9. limit.refill * moved[i + 1] = x + y /\ x \in Nat /\ y \in Nat
  BY <1>2, <1>5, <1>8
<1>10. p \in Nat /\ q \in Nat
  <2>1. /\ s.bucket.tokens \in Nat /\ after.bucket.tokens \in Nat
        /\ s.pending \in Nat /\ after.pending \in Nat
    BY <1>3, <1>4, <1>7
  <2> QED
    BY <1>8, <2>1 DEF Possible
<1>11. s.tried + p <= limit.capacity + spare + mx
  BY DEF Compared, s, spare, limit
<1>12. after.tried + q <= s.tried + p + my
  BY <1>6, <1>7
<1> HIDE DEF x, y
<1>13. (1 + spare) * (x + y) = mx + my /\ mx \in Nat /\ my \in Nat
  BY <1>8, <1>9
<1> HIDE DEF p, q, mx, my
<1>14. after.tried + q <= limit.capacity + spare + (mx + my)
  <2>1. /\ s.tried \in Nat /\ after.tried \in Nat /\ mx \in Nat /\ my \in Nat
        /\ limit.capacity \in Nat /\ spare \in Nat
    BY <1>4, <1>7, <1>8, <1>13
  <2> DEFINE u == s.tried  v == after.tried  k == limit.capacity
  <2>2. /\ u \in Nat /\ v \in Nat /\ k \in Nat
        /\ u + p <= k + spare + mx /\ v + q <= u + p + my
    BY <1>11, <1>12, <2>1
  <2> HIDE DEF u, v, k, spare
  <2>3. v + q <= k + spare + (mx + my)
    BY <1>10, <2>1, <2>2
  <2> QED
    BY <2>3 DEF u, v, k
<1>15. after.tried + q <= limit.capacity + spare + (1 + spare) * (limit.refill * moved[i + 1])
  BY <1>9, <1>13, <1>14
<1>16. (i + 1) + 1 = i + 2 /\ moved[i + 1] \in Nat
  BY <1>2, <1>5, <1>8
<1> QED
  BY <1>7, <1>15, <1>16 DEF Compared, spare, limit, step, after, q

LEMMA ComparedAlways ==
  ASSUME NEW c, NEW state, NEW moved, IsAttack(c, state, moved), NEW i \in 1..Len(c.steps)
  PROVE  Compared(c, state, moved, i)
<1> DEFINE Ok(k) == Compared(c, state, moved, k)
           n == Len(c.steps)
           T == {k \in 1..n : ~Ok(k)}
<1>1. n \in Nat \ {0}
  BY DEF IsAttack
<1>2. Ok(1)
  BY ComparedStarts
<1>3. \A k \in 1..(n - 1) : Ok(k) => Ok(k + 1)
  BY ComparedGoesOn
<1> HIDE DEF Ok, n
<1>4. ASSUME T # {} PROVE FALSE
  <2>1. PICK m \in T : \A k \in T : m <= k
    <3>1. T \subseteq Nat
      BY <1>1
    <3> HIDE DEF T
    <3> QED
      BY <1>4, <3>1, LeastNatural
  <2>2. m \in 1..n /\ ~Ok(m) /\ m # 1
    BY <1>2
  <2>3. m - 1 \in 1..(n - 1) /\ m - 1 \in 1..n /\ (m - 1) + 1 = m /\ ~(m <= m - 1)
    BY <1>1, <2>2
  <2>4. Ok(m - 1)
    BY <2>1, <2>3
  <2> QED
    BY <1>3, <2>2, <2>3, <2>4
<1> QED
  BY <1>4 DEF Ok, n

\* Although a peek takes no token, the wrong passwords that are compared are
\* no more than the burst and the refill, and as many more for each token as
\* are compared at a time (login).
THEOREM GuessesStayBounded == CatalogueSpec => []GuessesAreBounded
<1>1. GuessServed => GuessesAreBounded
  <2> SUFFICES ASSUME GuessServed, Answered("guess") PROVE GuessesAreBounded
    BY DEF GuessesAreBounded
  <2> DEFINE steps == call.steps
             n == Len(steps)
             state == Guessing(steps, call.limit)
             spare == call.inFlight - 1
             cap == call.limit.capacity
             ref == call.limit.refill
  <2>1. /\ call.steps \in Seq(GuessStep) /\ call.steps # <<>> /\ call.limit \in Limit
        /\ call.inFlight \in Nat \ {0} /\ Orderly(call) /\ answer = state[n + 1]
    BY CatalogueAssumption DEF GuessServed, Served, Answered, CatalogueAssumption
  <2>2. n \in Nat \ {0} /\ \A i \in 1..n : steps[i] \in GuessStep
    BY <2>1
  <2>3. IsGuessing(state, steps, call.limit, n + 1)
    <3>1. state = CHOOSE f : IsGuessing(f, steps, call.limit, n + 1)
      BY DEF Guessing, IsGuessing, NoAttempt
    <3>2. n + 1 \in Nat \ {0} /\ (n + 1) - 1 = n
      BY <2>2
    <3> HIDE DEF state, n, steps
    <3> QED
      BY <2>1, <2>2, <3>1, <3>2, GuessingExists
  <2>4. PICK moved : IsMoved(moved, steps, n) /\ Forward(steps) = moved[n]
    <3> DEFINE moved == CHOOSE f : IsMoved(f, steps, n)
    <3>1. Forward(steps) = moved[n]
      BY DEF Forward, IsMoved
    <3>2. \A i \in 1..n : steps[i].now \in Int
      BY <2>2 DEF GuessStep
    <3> HIDE DEF n, steps
    <3>3. IsMoved(moved, steps, n)
      BY <2>2, <3>2, MovedExists
    <3> QED
      BY <3>1, <3>3
  <2>5. DOMAIN state = 1..(n + 1)
    BY <2>3 DEF IsGuessing
  <2>6. \A i \in 1..(n + 1) : state[i].pending \in 0..call.inFlight
    BY <2>1, <2>5 DEF Orderly
  <2>7. IsAttack(call, state, moved)
    BY <2>1, <2>2, <2>3, <2>4, <2>6 DEF IsAttack
  <2>8. Compared(call, state, moved, n)
    BY <2>2, <2>7, ComparedAlways
  <2>9. /\ answer.tried \in Nat /\ moved[n] \in Nat /\ spare \in Nat /\ call.inFlight - 1 = spare
        /\ cap \in Nat /\ ref \in Nat
        /\ answer.tried + Possible(answer.bucket.tokens, answer.pending, spare)
           <= cap + spare + (1 + spare) * (ref * moved[n])
        /\ Possible(answer.bucket.tokens, answer.pending, spare) \in Nat
    <3>1. n + 1 \in 1..(n + 1)
      BY <2>2
    <3>2. answer.pending \in Nat /\ spare \in Nat /\ cap \in Nat /\ ref \in Nat
      BY <2>1, <2>6, <3>1 DEF Limit
    <3>3. /\ answer.bucket.tokens \in Nat /\ answer.tried \in Nat /\ moved[n] \in Nat
          /\ answer.tried + Possible(answer.bucket.tokens, answer.pending, spare)
             <= cap + spare + (1 + spare) * (ref * moved[n])
      BY <2>1, <2>8 DEF Compared
    <3>4. Possible(answer.bucket.tokens, answer.pending, spare) \in Nat
      BY <3>2, <3>3 DEF Possible
    <3> QED
      BY <3>2, <3>3, <3>4
  <2>10. answer.tried <= (cap + ref * moved[n]) + spare * ((cap + ref * moved[n]) - cap + 1)
    <3> DEFINE g == ref * moved[n]
    <3>1. g \in Nat
      BY <2>9
    <3> HIDE DEF spare, cap, ref
    <3>2. answer.tried <= cap + spare + (1 + spare) * g
      <4>1. (1 + spare) * g \in Nat
        BY <2>9, <3>1
      <4> QED
        BY <2>9, <4>1
    <3> HIDE DEF g
    <3>3. (1 + spare) * g = g + spare * g /\ spare * g \in Nat
      BY <2>9, <3>1
    <3>4. (cap + g) - cap + 1 = g + 1 /\ spare * (g + 1) = spare * g + spare
      BY <2>9, <3>1
    <3> QED
      BY <2>9, <3>1, <3>2, <3>3, <3>4 DEF g
  <2> QED
    BY <2>4, <2>10 DEF GuessesAreBounded
<1> QED
  BY <1>1, CatalogueServes, PTL DEF CatalogueInv

----------------------------------------------------------------------------
(* Sequences one after the other                                           *)

\* The sums of the first numbers, up to the first n of them.
IsSums(f, v, n) == f = [i \in 1..(n + 1) |-> IF i = 1 THEN 0 ELSE f[i - 1] + v[i - 1]]

LEMMA SumsExist ==
  ASSUME NEW n \in Nat, NEW v, \A i \in 1..n : v[i] \in Nat
  PROVE  \E f : IsSums(f, v, n)
<1> DEFINE step == [i \in 1..(n + 1) |-> [x \in Nat |-> IF i = 1 THEN 0 ELSE x + v[i - 1]]]
<1>1. \A i \in 1..(n + 1) : i # 1 => i - 1 \in 1..n /\ v[i - 1] \in Nat
  OBVIOUS
<1>2. step \in [1..(n + 1) -> [Nat -> Nat]]
  BY <1>1
<1>3. \A i \in 1..(n + 1) : \A x \in Nat : i # 1 => step[i][x] = x + v[i - 1]
  OBVIOUS
<1> HIDE DEF step
<1>4. n + 1 \in Nat \ {0} /\ 0 \in Nat
  OBVIOUS
<1>5. PICK f : IsIteration(f, 0, step, n + 1)
  BY <1>4, IterationExists
<1>6. f \in [1..(n + 1) -> Nat]
  BY <1>2, <1>4, <1>5, IterationType, Zenon
<1>7. ASSUME NEW i \in 1..(n + 1)
      PROVE  f[i] = IF i = 1 THEN 0 ELSE f[i - 1] + v[i - 1]
  <2>1. f[i] = IF i = 1 THEN 0 ELSE step[i][f[i - 1]]
    BY <1>5 DEF IsIteration
  <2>2. i # 1 => i - 1 \in 1..(n + 1)
    OBVIOUS
  <2> QED
    BY <1>3, <1>6, <2>1, <2>2
<1> QED
  BY <1>6, <1>7 DEF IsSums

\* Every statement that holds of 1 and passes on from i to i + 1 holds up to n.
LEMMA UpTo ==
  ASSUME NEW n \in Nat \ {0}, NEW U, 1 \in U, \A i \in 1..(n - 1) : i \in U => i + 1 \in U
  PROVE  1..n \subseteq U
<1> DEFINE T == {i \in 1..n : i \notin U}
<1>1. ASSUME T # {} PROVE FALSE
  <2>1. PICK m \in T : \A k \in T : m <= k
    <3>1. T \subseteq Nat
      OBVIOUS
    <3> HIDE DEF T
    <3> QED
      BY <1>1, <3>1, LeastNatural
  <2>2. m \in 1..n /\ m # 1 /\ m - 1 \in 1..(n - 1) /\ (m - 1) + 1 = m /\ ~(m <= m - 1)
    BY <2>1
  <2>3. m - 1 \in U
    BY <2>1, <2>2
  <2> QED
    BY <2>1, <2>2, <2>3
<1> QED
  BY <1>1

LEMMA SumsGrow ==
  ASSUME NEW n \in Nat, NEW v, \A i \in 1..n : v[i] \in Nat, NEW f, IsSums(f, v, n)
  PROVE  /\ f[1] = 0 /\ \A i \in 1..(n + 1) : f[i] \in Nat
         /\ \A i \in 1..n : f[i + 1] = f[i] + v[i]
         /\ \A j \in 1..(n + 1) : \A i \in 1..j : f[i] <= f[j]
<1>1. f[1] = 0
  BY DEF IsSums
<1>2. \A i \in 1..n : f[i + 1] = f[i] + v[i]
  <2> SUFFICES ASSUME NEW i \in 1..n PROVE f[i + 1] = f[i] + v[i]
    OBVIOUS
  <2>1. i + 1 \in 1..(n + 1) /\ i + 1 # 1 /\ (i + 1) - 1 = i
    OBVIOUS
  <2> QED
    BY <2>1 DEF IsSums
<1> DEFINE U == {j \in 1..(n + 1) : \A i \in 1..j : f[i] \in Nat /\ f[i] <= f[j]}
<1>3. 1 \in U
  BY <1>1
<1>4. ASSUME NEW i \in 1..((n + 1) - 1), i \in U PROVE i + 1 \in U
  <2>1. /\ i \in 1..n /\ i + 1 \in 1..(n + 1) /\ v[i] \in Nat /\ f[i + 1] = f[i] + v[i]
        /\ \A k \in 1..i : f[k] \in Nat /\ f[k] <= f[i]
    BY <1>2, <1>4
  <2>2. f[i] \in Nat /\ f[i + 1] \in Nat
    BY <2>1
  <2>3. ASSUME NEW k \in 1..(i + 1) PROVE f[k] \in Nat /\ f[k] <= f[i + 1]
    <3>1. CASE k = i + 1
      BY <2>2, <3>1
    <3>2. CASE k \in 1..i
      BY <2>1, <2>2, <3>2
    <3> QED
      BY <3>1, <3>2
  <2> QED
    BY <2>1, <2>3
<1> HIDE DEF U
<1>5. 1..(n + 1) \subseteq U
  BY <1>3, <1>4, UpTo
<1> QED
  BY <1>1, <1>2, <1>5 DEF U

\* The recursive function of FlattenSeq.
IsFlat(f, ss, n) == f = [i \in 1..n |-> IF i = 1 THEN ss[i] ELSE f[i - 1] \o ss[i]]

LEMMA FlatExists ==
  ASSUME NEW E, NEW n \in Nat \ {0}, NEW ss, \A i \in 1..n : ss[i] \in Seq(E)
  PROVE  \E f : IsFlat(f, ss, n) /\ f \in [1..n -> Seq(E)]
<1> DEFINE S == Seq(E)
           step == [i \in 1..n |-> [x \in S |-> x \o ss[i]]]
<1>1. step \in [1..n -> [S -> S]] /\ ss[1] \in S
  <2>1. \A i \in 1..n : \A x \in S : x \o ss[i] \in S
    OBVIOUS
  <2> HIDE DEF S
  <2> QED
    BY <2>1 DEF S
<1>2. \A i \in 1..n : \A x \in S : step[i][x] = x \o ss[i]
  OBVIOUS
<1> HIDE DEF step, S
<1>3. PICK f : IsIteration(f, ss[1], step, n)
  BY IterationExists
<1>4. f \in [1..n -> S]
  BY <1>1, <1>3, IterationType
<1>5. ASSUME NEW i \in 1..n
      PROVE  f[i] = IF i = 1 THEN ss[i] ELSE f[i - 1] \o ss[i]
  <2>1. f[i] = IF i = 1 THEN ss[1] ELSE step[i][f[i - 1]]
    BY <1>3 DEF IsIteration
  <2>2. i # 1 => i - 1 \in 1..n
    OBVIOUS
  <2> QED
    BY <1>2, <1>4, <2>1, <2>2
<1>6. IsFlat(f, ss, n)
  BY <1>4, <1>5 DEF IsFlat
<1> QED
  BY <1>4, <1>6 DEF S

\* Where the elements of the first m sequences are.
Laid(flat, ss, off, m) ==
  /\ Len(flat) = off[m + 1]
  /\ \A i \in 1..m : \A k \in 1..Len(ss[i]) :
       off[i] + k \in 1..Len(flat) /\ flat[off[i] + k] = ss[i][k]
  /\ \A p \in 1..Len(flat) : \E i \in 1..m : \E k \in 1..Len(ss[i]) : p = off[i] + k

LEMMA LaidNext ==
  ASSUME NEW E, NEW flat \in Seq(E), NEW ss, NEW m \in Nat \ {0}, NEW off,
         \A i \in 1..(m + 1) : off[i] \in Nat /\ ss[i] \in Seq(E),
         off[m + 2] = off[m + 1] + Len(ss[m + 1]), Laid(flat, ss, off, m)
  PROVE  Laid(flat \o ss[m + 1], ss, off, m + 1)
<1> DEFINE s == ss[m + 1]  long == flat \o s
<1>1. s \in Seq(E) /\ m + 1 \in 1..(m + 1) /\ (m + 1) + 1 = m + 2
  OBVIOUS
<1>2. /\ Len(flat) = off[m + 1] /\ Len(long) = off[m + 1] + Len(s)
      /\ \A p \in 1..Len(flat) : long[p] = flat[p]
      /\ \A k \in 1..Len(s) : long[off[m + 1] + k] = s[k]
  <2>1. Len(flat) = off[m + 1]
    BY DEF Laid
  <2>2. /\ Len(long) = Len(flat) + Len(s) /\ Len(flat) \in Nat /\ Len(s) \in Nat
        /\ \A p \in 1..(Len(flat) + Len(s)) :
             long[p] = IF p <= Len(flat) THEN flat[p] ELSE s[p - Len(flat)]
    BY <1>1
  <2> HIDE DEF long, s
  <2>3. \A p \in 1..Len(flat) : long[p] = flat[p]
    BY <2>2
  <2>4. ASSUME NEW k \in 1..Len(s) PROVE long[Len(flat) + k] = s[k]
    <3>1. /\ Len(flat) + k \in 1..(Len(flat) + Len(s)) /\ ~(Len(flat) + k <= Len(flat))
          /\ (Len(flat) + k) - Len(flat) = k
      BY <2>2
    <3> QED
      BY <2>2, <3>1
  <2> QED
    BY <2>1, <2>2, <2>3, <2>4
<1>3. Len(flat) \in Nat /\ Len(s) \in Nat /\ off[m + 1] \in Nat
  BY <1>1
<1>7. \A i \in 1..(m + 1) : i \in 1..m \/ i = m + 1
  OBVIOUS
<1> HIDE DEF long
<1>4. ASSUME NEW i \in 1..(m + 1), NEW k \in 1..Len(ss[i])
      PROVE  off[i] + k \in 1..Len(long) /\ long[off[i] + k] = ss[i][k]
  <2>1. CASE i \in 1..m
    <3>1. off[i] + k \in 1..Len(flat) /\ flat[off[i] + k] = ss[i][k]
      BY <2>1 DEF Laid
    <3> QED
      BY <1>2, <1>3, <3>1
  <2>2. CASE i = m + 1
    BY <1>2, <1>3, <2>2
  <2> QED
    BY <1>7, <2>1, <2>2
<1>5. ASSUME NEW p \in 1..Len(long)
      PROVE  \E i \in 1..(m + 1) : \E k \in 1..Len(ss[i]) : p = off[i] + k
  <2>1. CASE p \in 1..Len(flat)
    <3>1. PICK i \in 1..m : \E k \in 1..Len(ss[i]) : p = off[i] + k
      BY <2>1 DEF Laid
    <3>2. i \in 1..(m + 1)
      OBVIOUS
    <3> QED
      BY <3>1, <3>2
  <2>2. CASE p \notin 1..Len(flat)
    <3>1. p - off[m + 1] \in 1..Len(ss[m + 1]) /\ p = off[m + 1] + (p - off[m + 1])
      BY <1>2, <1>3, <2>2
    <3> QED
      BY <1>1, <3>1
  <2> QED
    BY <2>1, <2>2
<1>6. Len(long) = off[(m + 1) + 1]
  BY <1>1, <1>2
<1> QED
  BY <1>4, <1>5, <1>6 DEF Laid, long

LEMMA FlattenPlaces ==
  ASSUME NEW E, NEW n \in Nat \ {0}, NEW ss, ss = [i \in 1..n |-> ss[i]],
         \A i \in 1..n : ss[i] \in Seq(E), NEW off, IsSums(off, [i \in 1..n |-> Len(ss[i])], n)
  PROVE  FlattenSeq(ss) \in Seq(E) /\ Laid(FlattenSeq(ss), ss, off, n)
<1> DEFINE f == CHOOSE f : IsFlat(f, ss, n)
           v == [i \in 1..n |-> Len(ss[i])]
<1>1. Len(ss) = n
  OBVIOUS
<1>2. FlattenSeq(ss) = f[n]
  BY <1>1 DEF FlattenSeq, IsFlat
<1>3. IsFlat(f, ss, n) /\ f \in [1..n -> Seq(E)]
  <2>1. PICK g : IsFlat(g, ss, n) /\ g \in [1..n -> Seq(E)]
    BY FlatExists
  <2>2. IsFlat(f, ss, n)
    BY <2>1
  <2> HIDE DEF f
  <2> DEFINE U == {i \in 1..n : f[i] = g[i]}
  <2>3. /\ \A i \in 1..n : f[i] = IF i = 1 THEN ss[i] ELSE f[i - 1] \o ss[i]
        /\ \A i \in 1..n : g[i] = IF i = 1 THEN ss[i] ELSE g[i - 1] \o ss[i]
    BY <2>1, <2>2 DEF IsFlat
  <2>4. 1 \in U
    BY <2>3
  <2>5. ASSUME NEW i \in 1..(n - 1), i \in U PROVE i + 1 \in U
    <3>1. i + 1 \in 1..n /\ i + 1 # 1 /\ (i + 1) - 1 = i
      OBVIOUS
    <3> QED
      BY <2>3, <2>5, <3>1
  <2> HIDE DEF U
  <2>6. 1..n \subseteq U
    BY <2>4, <2>5, UpTo
  <2>7. \A i \in 1..n : f[i] = g[i]
    BY <2>6 DEF U
  <2>8. f = [i \in 1..n |-> f[i]]
    BY <2>2 DEF IsFlat
  <2> QED
    BY <2>1, <2>2, <2>7, <2>8
<1> HIDE DEF f
<1>4. /\ f[1] = ss[1] /\ \A i \in 1..(n - 1) : f[i + 1] = f[i] \o ss[i + 1]
  <2>1. \A i \in 1..n : f[i] = IF i = 1 THEN ss[i] ELSE f[i - 1] \o ss[i]
    BY <1>3 DEF IsFlat
  <2>2. ASSUME NEW i \in 1..(n - 1) PROVE f[i + 1] = f[i] \o ss[i + 1]
    <3>1. i + 1 \in 1..n /\ i + 1 # 1 /\ (i + 1) - 1 = i
      OBVIOUS
    <3> QED
      BY <2>1, <3>1
  <2>3. 1 \in 1..n
    OBVIOUS
  <2> QED
    BY <2>1, <2>2, <2>3
<1>5. /\ off[1] = 0 /\ \A i \in 1..(n + 1) : off[i] \in Nat
      /\ \A i \in 1..n : off[i + 1] = off[i] + Len(ss[i])
  <2>1. \A i \in 1..n : v[i] \in Nat /\ v[i] = Len(ss[i])
    OBVIOUS
  <2> HIDE DEF v
  <2> QED
    BY <2>1, SumsGrow DEF v
<1> DEFINE U == {m \in 1..n : Laid(f[m], ss, off, m)}
<1>6. 1 \in U
  <2>1. 1 \in 1..n /\ ss[1] \in Seq(E) /\ off[1 + 1] = Len(ss[1]) /\ Len(ss[1]) \in Nat
    BY <1>5
  <2>2. Laid(ss[1], ss, off, 1)
    BY <1>5, <2>1 DEF Laid
  <2> QED
    BY <1>4, <2>2
<1>7. ASSUME NEW m \in 1..(n - 1), m \in U PROVE m + 1 \in U
  <2>1. /\ m \in Nat \ {0} /\ m + 1 \in 1..n /\ m \in 1..n /\ (m + 1) + 1 = m + 2
        /\ \A i \in 1..(m + 1) : i \in 1..n /\ i \in 1..(n + 1)
    OBVIOUS
  <2>2. /\ f[m] \in Seq(E) /\ Laid(f[m], ss, off, m)
        /\ \A i \in 1..(m + 1) : off[i] \in Nat /\ ss[i] \in Seq(E)
        /\ off[m + 2] = off[m + 1] + Len(ss[m + 1])
    BY <1>3, <1>5, <1>7, <2>1
  <2>3. Laid(f[m] \o ss[m + 1], ss, off, m + 1)
    BY <2>1, <2>2, LaidNext
  <2> QED
    BY <1>4, <2>1, <2>3
<1> HIDE DEF U
<1>8. 1..n \subseteq U
  BY <1>6, <1>7, UpTo
<1>9. n \in 1..n
  OBVIOUS
<1> QED
  BY <1>2, <1>3, <1>8, <1>9 DEF U

----------------------------------------------------------------------------
(* The seats of a layout                                                   *)

\* The n sections of a layout.
IsLayout(layout, n) ==
  /\ n \in Nat \ {0} /\ layout = [i \in 1..n |-> layout[i]]
  /\ \A i \in 1..n : layout[i].rows \in Seq(Row)

Entry(layout, i, j) == [section |-> layout[i], row |-> layout[i].rows[j]]

\* Where the rows of the sections are among all rows.
RowsAt(rows, layout, off, n) ==
  /\ Len(rows) = off[n + 1] /\ Len(rows) \in Nat /\ rows = [q \in 1..Len(rows) |-> rows[q]]
  /\ \A i \in 1..n : \A j \in 1..Len(layout[i].rows) :
       off[i] + j \in 1..Len(rows) /\ rows[off[i] + j] = Entry(layout, i, j)
  /\ \A q \in 1..Len(rows) : \E i \in 1..n : \E j \in 1..Len(layout[i].rows) : q = off[i] + j

LEMMA RowsArePlaced ==
  ASSUME NEW n, NEW layout, IsLayout(layout, n),
         NEW off, IsSums(off, [i \in 1..n |-> Len(layout[i].rows)], n)
  PROVE  RowsAt(RowsOf(layout), layout, off, n)
<1> DEFINE ss == [i \in 1..n |-> [j \in 1..Len(layout[i].rows) |-> Entry(layout, i, j)]]
           E == {Entry(layout, i, j) : i \in 1..n, j \in Nat}
<1>1. n \in Nat \ {0} /\ DOMAIN layout = 1..n
  BY DEF IsLayout
<1>2. \A i \in 1..n : /\ Len(layout[i].rows) \in Nat
                      /\ DOMAIN layout[i].rows = 1..Len(layout[i].rows)
  BY DEF IsLayout
<1>3. RowsOf(layout) = FlattenSeq(ss)
  BY <1>1, <1>2 DEF RowsOf, Entry
<1>4. \A i \in 1..n : /\ ss[i] \in Seq(E) /\ Len(ss[i]) = Len(layout[i].rows)
                      /\ \A j \in 1..Len(layout[i].rows) : ss[i][j] = Entry(layout, i, j)
  <2> SUFFICES ASSUME NEW i \in 1..n
               PROVE  /\ ss[i] \in Seq(E) /\ Len(ss[i]) = Len(layout[i].rows)
                      /\ \A j \in 1..Len(layout[i].rows) : ss[i][j] = Entry(layout, i, j)
    OBVIOUS
  <2>1. ss[i] = [j \in 1..Len(layout[i].rows) |-> Entry(layout, i, j)]
    OBVIOUS
  <2>2. \A j \in 1..Len(layout[i].rows) : Entry(layout, i, j) \in E
    BY <1>2
  <2>3. Len(layout[i].rows) \in Nat
    BY <1>2
  <2> HIDE DEF ss, E
  <2> QED
    BY <2>1, <2>2, <2>3
<1>5. ss = [i \in 1..n |-> ss[i]]
  OBVIOUS
<1> HIDE DEF ss, E
<1>6. [i \in 1..n |-> Len(ss[i])] = [i \in 1..n |-> Len(layout[i].rows)]
  BY <1>4
<1>7. FlattenSeq(ss) \in Seq(E) /\ Laid(FlattenSeq(ss), ss, off, n)
  BY <1>1, <1>4, <1>5, <1>6, FlattenPlaces
<1> QED
  BY <1>3, <1>4, <1>7 DEF RowsAt, Laid

\* A planned seat of a row.
Planned(entry, k) ==
  [section |-> entry.section.name, row |-> entry.row.label.text, number |-> k,
   price |-> entry.section.price]

\* Where the seats of the rows are among all seats.
SeatsAt(seats, rows, off) ==
  /\ Len(seats) = off[Len(rows) + 1] /\ Len(seats) \in Nat /\ DOMAIN seats = 1..Len(seats)
  /\ \A q \in 1..Len(rows) : \A k \in 1..rows[q].row.seats :
       off[q] + k \in 1..Len(seats) /\ seats[off[q] + k] = Planned(rows[q], k)
  /\ \A p \in 1..Len(seats) :
       \E q \in 1..Len(rows) : \E k \in 1..rows[q].row.seats : p = off[q] + k

LEMMA SeatsArePlaced ==
  ASSUME NEW layout, NEW rows, rows = RowsOf(layout),
         Len(rows) \in Nat \ {0}, rows = [q \in 1..Len(rows) |-> rows[q]],
         \A q \in 1..Len(rows) : rows[q].row.seats \in Nat,
         NEW off, IsSums(off, [q \in 1..Len(rows) |-> rows[q].row.seats], Len(rows))
  PROVE  SeatsAt(Expand(layout), rows, off)
<1> DEFINE n == Len(rows)
           ss == [q \in 1..n |-> [k \in 1..rows[q].row.seats |-> Planned(rows[q], k)]]
           E == {Planned(rows[q], k) : q \in 1..n, k \in Nat}
<1>1. n \in Nat \ {0} /\ DOMAIN rows = 1..n
  OBVIOUS
<1>2. Expand(layout) = FlattenSeq(ss)
  BY <1>1 DEF Expand, Planned
<1>3. \A q \in 1..n : /\ ss[q] \in Seq(E) /\ Len(ss[q]) = rows[q].row.seats
                      /\ \A k \in 1..rows[q].row.seats : ss[q][k] = Planned(rows[q], k)
  <2> SUFFICES ASSUME NEW q \in 1..n
               PROVE  /\ ss[q] \in Seq(E) /\ Len(ss[q]) = rows[q].row.seats
                      /\ \A k \in 1..rows[q].row.seats : ss[q][k] = Planned(rows[q], k)
    OBVIOUS
  <2>1. ss[q] = [k \in 1..rows[q].row.seats |-> Planned(rows[q], k)]
    OBVIOUS
  <2>2. \A k \in 1..rows[q].row.seats : Planned(rows[q], k) \in E
    OBVIOUS
  <2> DEFINE s == ss[q]  m == rows[q].row.seats
  <2>3. m \in Nat
    OBVIOUS
  <2>4. s = [k \in 1..m |-> Planned(rows[q], k)] /\ \A k \in 1..m : Planned(rows[q], k) \in E
    BY <2>1, <2>2
  <2> HIDE DEF s, m, ss, E
  <2>5. s \in Seq(E) /\ Len(s) = m /\ \A k \in 1..m : s[k] = Planned(rows[q], k)
    BY <2>3, <2>4
  <2> QED
    BY <2>5 DEF s, m
<1>4. ss = [q \in 1..n |-> ss[q]]
  OBVIOUS
<1>5. IsSums(off, [q \in 1..n |-> rows[q].row.seats], n)
  OBVIOUS
<1> HIDE DEF ss, E, n
<1>6. [q \in 1..n |-> Len(ss[q])] = [q \in 1..n |-> rows[q].row.seats]
  BY <1>3
<1>7. FlattenSeq(ss) \in Seq(E) /\ Laid(FlattenSeq(ss), ss, off, n)
  BY <1>1, <1>3, <1>4, <1>5, <1>6, FlattenPlaces
<1>8. DOMAIN FlattenSeq(ss) = 1..Len(FlattenSeq(ss)) /\ Len(FlattenSeq(ss)) \in Nat
  BY <1>7
<1> DEFINE flat == FlattenSeq(ss)
<1>9. Len(flat) = off[n + 1]
  BY <1>7 DEF Laid
<1>10. ASSUME NEW q \in 1..n, NEW k \in 1..rows[q].row.seats
       PROVE  off[q] + k \in 1..Len(flat) /\ flat[off[q] + k] = Planned(rows[q], k)
  <2>1. k \in 1..Len(ss[q]) /\ ss[q][k] = Planned(rows[q], k)
    BY <1>3
  <2> QED
    BY <1>7, <2>1 DEF Laid
<1>11. ASSUME NEW p \in 1..Len(flat)
       PROVE  \E q \in 1..n : \E k \in 1..rows[q].row.seats : p = off[q] + k
  <2>1. PICK q \in 1..n : \E k \in 1..Len(ss[q]) : p = off[q] + k
    BY <1>7 DEF Laid
  <2> QED
    BY <1>3, <2>1
<1> HIDE DEF flat
<1> QED
  BY <1>2, <1>8, <1>9, <1>10, <1>11 DEF SeatsAt, flat, n

\* Seats of rows whose labels differ.
LEMMA PlacedSeatsDiffer ==
  ASSUME NEW seats, NEW rows, NEW off, SeatsAt(seats, rows, off),
         \A q, r \in 1..Len(rows) : q # r => rows[q].row.label.text # rows[r].row.label.text,
         NEW i \in DOMAIN seats, NEW j \in DOMAIN seats, i # j
  PROVE  <<seats[i].row, seats[i].number>> # <<seats[j].row, seats[j].number>>
<1>1. i \in 1..Len(seats) /\ j \in 1..Len(seats)
  BY DEF SeatsAt
<1>2. PICK q \in 1..Len(rows) : \E k \in 1..rows[q].row.seats : i = off[q] + k
  BY <1>1 DEF SeatsAt
<1>3. PICK k \in 1..rows[q].row.seats : i = off[q] + k
  BY <1>2
<1>4. PICK r \in 1..Len(rows) : \E m \in 1..rows[r].row.seats : j = off[r] + m
  BY <1>1 DEF SeatsAt
<1>5. PICK m \in 1..rows[r].row.seats : j = off[r] + m
  BY <1>4
<1>6. seats[i] = Planned(rows[q], k) /\ seats[j] = Planned(rows[r], m)
  BY <1>3, <1>5 DEF SeatsAt
<1>7. q # r \/ k # m
  BY <1>3, <1>5
<1> QED
  BY <1>6, <1>7 DEF Planned

----------------------------------------------------------------------------
(* The seats of price tiers                                                *)

Even(n, c) == [i \in 1..n |-> c]

LEMMA EvenSums ==
  ASSUME NEW n \in Nat, NEW c \in Nat, NEW f, IsSums(f, Even(n, c), n)
  PROVE  \A i \in 1..(n + 1) : f[i] = (i - 1) * c
<1> DEFINE U == {i \in 1..(n + 1) : f[i] = (i - 1) * c}
<1>1. f[1] = 0 /\ \A i \in 1..n : f[i + 1] = f[i] + c
  <2> DEFINE v == Even(n, c)
  <2>1. \A i \in 1..n : v[i] \in Nat /\ v[i] = c
    BY DEF Even
  <2> HIDE DEF v
  <2> QED
    <3>1. IsSums(f, v, n)
      BY DEF v
    <3>2. /\ f[1] = 0
          /\ \A i \in 1..n : f[i + 1] = f[i] + v[i]
      BY <2>1, <3>1, SumsGrow
    <3> QED
      BY <2>1, <3>2
<1>2. 1 \in U
  BY <1>1
<1>3. ASSUME NEW i \in 1..((n + 1) - 1), i \in U PROVE i + 1 \in U
  <2>1. i \in 1..n /\ i + 1 \in 1..(n + 1) /\ (i + 1) - 1 = i
    OBVIOUS
  <2>2. f[i + 1] = (i - 1) * c + c
    BY <1>1, <1>3, <2>1
  <2>3. (i - 1) * c + c = i * c
    OBVIOUS
  <2> QED
    BY <2>1, <2>2, <2>3
<1> HIDE DEF U
<1>4. 1..(n + 1) \subseteq U
  BY <1>2, <1>3, UpTo
<1> QED
  BY <1>4 DEF U

LEMMA EvenRows ==
  ASSUME NEW rows, Len(rows) \in Nat, NEW c \in Nat,
         \A q \in 1..Len(rows) : rows[q].row.seats = c,
         NEW f, IsSums(f, [q \in 1..Len(rows) |-> rows[q].row.seats], Len(rows))
  PROVE  \A q \in 1..(Len(rows) + 1) : f[q] = (q - 1) * c
<1>1. [q \in 1..Len(rows) |-> rows[q].row.seats] = Even(Len(rows), c)
  BY DEF Even
<1>2. IsSums(f, Even(Len(rows), c), Len(rows))
  BY <1>1
<1>3. Len(rows) \in Nat /\ c \in Nat
  OBVIOUS
<1>4. QED
  BY ONLY <1>2, <1>3, EvenSums

Rows(tiers) == [i \in 1..Len(tiers) |-> tiers[i].rows]

LEMMA RowIndexSums ==
  ASSUME NEW tiers, Len(tiers) \in Nat, \A i \in 1..Len(tiers) : tiers[i].rows \in Nat
  PROVE  IsSums(RowIndex(tiers), Rows(tiers), Len(tiers))
<1> DEFINE n == Len(tiers)
           Is(f) == f = [i \in 1..(n + 1) |-> IF i = 1 THEN 0 ELSE f[i - 1] + tiers[i - 1].rows]
<1>1. PICK f : IsSums(f, Rows(tiers), n)
  <2>1. \A i \in 1..n : Rows(tiers)[i] \in Nat
    BY DEF Rows
  <2> QED
    BY <2>1, SumsExist
<1>2. \A i \in 1..(n + 1) : i # 1 => Rows(tiers)[i - 1] = tiers[i - 1].rows
  BY DEF Rows
<1>3. \A f0 : Is(f0) <=> IsSums(f0, Rows(tiers), n)
  <2> SUFFICES ASSUME NEW g PROVE Is(g) <=> IsSums(g, Rows(tiers), n)
    OBVIOUS
  <2>1. [i \in 1..(n + 1) |-> IF i = 1 THEN 0 ELSE g[i - 1] + tiers[i - 1].rows]
        = [i \in 1..(n + 1) |-> IF i = 1 THEN 0 ELSE g[i - 1] + Rows(tiers)[i - 1]]
    BY <1>2
  <2> QED
    BY <2>1 DEF IsSums
<1>4. RowIndex(tiers) = CHOOSE f0 : Is(f0)
  BY DEF RowIndex
<1> HIDE DEF Is
<1>5. Is(RowIndex(tiers))
  BY <1>1, <1>3, <1>4
<1> QED
  BY <1>3, <1>5

LEMMA TotalIsSum ==
  ASSUME NEW layout, NEW rows, rows = RowsOf(layout), Len(rows) \in Nat,
         \A q \in 1..Len(rows) : rows[q].row.seats \in Nat
  PROVE  \E f : /\ IsSums(f, [q \in 1..Len(rows) |-> rows[q].row.seats], Len(rows))
                /\ TotalSeats(layout) = f[Len(rows) + 1]
<1> DEFINE n == Len(rows)
           v == [q \in 1..n |-> rows[q].row.seats]
           Is(f) == f = [i \in 1..(n + 1) |-> IF i = 1 THEN 0 ELSE f[i - 1] + rows[i - 1].row.seats]
           total == CHOOSE f : Is(f)
<1>1. PICK f : IsSums(f, v, n)
  <2>1. \A i \in 1..n : v[i] \in Nat
    OBVIOUS
  <2> HIDE DEF v
  <2> QED
    BY <2>1, SumsExist
<1>2. \A i \in 1..(n + 1) : i # 1 => v[i - 1] = rows[i - 1].row.seats
  OBVIOUS
<1>6. TotalSeats(layout) = total[n + 1]
  BY DEF TotalSeats
<1> HIDE DEF v
<1>3. \A f0 : Is(f0) <=> IsSums(f0, v, n)
  <2> SUFFICES ASSUME NEW g PROVE Is(g) <=> IsSums(g, v, n)
    OBVIOUS
  <2>1. [i \in 1..(n + 1) |-> IF i = 1 THEN 0 ELSE g[i - 1] + rows[i - 1].row.seats]
        = [i \in 1..(n + 1) |-> IF i = 1 THEN 0 ELSE g[i - 1] + v[i - 1]]
    BY <1>2
  <2> QED
    BY <2>1 DEF IsSums
<1> HIDE DEF Is
<1>5. Is(total)
  BY <1>1, <1>3
<1> HIDE DEF total
<1>7. IsSums(total, v, n)
  BY <1>3, <1>5
<1> QED
  BY <1>6, <1>7 DEF v

\* Price tiers as EventCreate lets them through, at least one, with no more
\* rows than letters.
IsTiered(tiers, perRow, labels, n) ==
  /\ n \in Nat \ {0} /\ n <= MaxSections /\ tiers = [i \in 1..n |-> tiers[i]]
  /\ \A i \in 1..n : tiers[i].rows \in 1..MaxRows /\ tiers[i].price \in 0..MaxPrice
  /\ perRow \in 1..MaxRowSeats
  /\ labels \in Seq(Text) /\ Len(labels) * perRow <= MaxSeats
  /\ \A i, j \in DOMAIN labels : i # j => labels[i] # labels[j]
  /\ RowsWanted(tiers) <= Len(labels)

\* The rows that from_price_tiers makes of them: each tier has the next letters.
TierRow(layout, index, rows, perRow, labels, i, j) ==
  LET q == index[i] + j  row == layout[i].rows[j] IN
  /\ q \in 1..Len(rows) /\ q \in 1..Len(labels)
  /\ row.label.text = labels[q] /\ row.seats = perRow /\ row.aisles = {}
  /\ rows[q].section = layout[i] /\ rows[q].row = row

TiersLaid(layout, index, rows, tiers, perRow, labels, n) ==
  /\ IsSums(index, Rows(tiers), n) /\ IsLayout(layout, n) /\ RowsAt(rows, layout, index, n)
  /\ \A i \in 1..n : /\ layout[i].name = i /\ layout[i].price = tiers[i].price
                     /\ Len(layout[i].rows) = tiers[i].rows
  /\ \A i \in 1..n : \A j \in 1..tiers[i].rows : TierRow(layout, index, rows, perRow, labels, i, j)

LEMMA TierRows ==
  ASSUME NEW tiers, NEW perRow, NEW labels, NEW n, IsTiered(tiers, perRow, labels, n)
  PROVE  TiersLaid(FromTiers(tiers, perRow, labels), RowIndex(tiers),
                   RowsOf(FromTiers(tiers, perRow, labels)), tiers, perRow, labels, n)
<1> DEFINE layout == FromTiers(tiers, perRow, labels)
           index == RowIndex(tiers)
           rows == RowsOf(layout)
           row(i, j) == [label |-> Plain(labels[index[i] + j]), seats |-> perRow, aisles |-> {}]
<1>1. /\ n \in Nat \ {0} /\ Len(tiers) = n /\ DOMAIN tiers = 1..n
      /\ \A i \in 1..n : tiers[i].rows \in Nat
  BY DEF IsTiered
<1>2. IsSums(index, Rows(tiers), n)
  BY <1>1, RowIndexSums
<1>3. /\ \A i \in 1..(n + 1) : index[i] \in Nat
      /\ \A i \in 1..n : index[i + 1] = index[i] + tiers[i].rows
      /\ \A i \in 1..(n + 1) : index[i] <= index[n + 1]
  <2>1. \A i \in 1..n : Rows(tiers)[i] \in Nat /\ Rows(tiers)[i] = tiers[i].rows
    BY <1>1 DEF Rows
  <2>2. n + 1 \in 1..(n + 1)
    BY <1>1
  <2> QED
    BY <1>1, <1>2, <2>1, <2>2, SumsGrow
<1>4. /\ layout = [i \in 1..n |-> layout[i]]
      /\ \A i \in 1..n : /\ layout[i].name = i /\ layout[i].price = tiers[i].price
                         /\ layout[i].rows = [j \in 1..tiers[i].rows |-> row(i, j)]
  BY <1>1 DEF FromTiers
<1> HIDE DEF layout, index
<1>5. \A i \in 1..n : \A j \in 1..tiers[i].rows : index[i] + j \in 1..Len(labels)
  <2> SUFFICES ASSUME NEW i \in 1..n, NEW j \in 1..tiers[i].rows PROVE index[i] + j \in 1..Len(labels)
    OBVIOUS
  <2>1. i \in 1..(n + 1) /\ i + 1 \in 1..(n + 1) /\ tiers[i].rows \in Nat
    BY <1>1
  <2>2. index[n + 1] <= Len(labels) /\ Len(labels) \in Nat
    BY <1>1 DEF IsTiered, RowsWanted, index
  <2> QED
    BY <1>1, <1>3, <2>1, <2>2
<1>6. \A i \in 1..n : /\ layout[i].rows \in Seq(Row) /\ Len(layout[i].rows) = tiers[i].rows
                      /\ \A j \in 1..tiers[i].rows : layout[i].rows[j] = row(i, j)
  <2> SUFFICES ASSUME NEW i \in 1..n
               PROVE  /\ layout[i].rows \in Seq(Row) /\ Len(layout[i].rows) = tiers[i].rows
                      /\ \A j \in 1..tiers[i].rows : layout[i].rows[j] = row(i, j)
    OBVIOUS
  <2>1. ASSUME NEW j \in 1..tiers[i].rows PROVE row(i, j) \in Row
    <3>1. labels[index[i] + j] \in Text
      BY <1>5 DEF IsTiered
    <3>2. Plain(labels[index[i] + j]) \in Label
      BY <3>1 DEF Label, Plain
    <3>3. perRow \in Int /\ {} \in SUBSET Int
      BY DEF IsTiered
    <3> QED
      BY <3>2, <3>3 DEF Row
  <2>2. layout[i].rows = [j \in 1..tiers[i].rows |-> row(i, j)] /\ tiers[i].rows \in Nat
    BY <1>1, <1>4
  <2> HIDE DEF row
  <2> QED
    BY <2>1, <2>2
<1>7. IsLayout(layout, n)
  BY <1>1, <1>4, <1>6 DEF IsLayout
<1>8. [i \in 1..n |-> Len(layout[i].rows)] = Rows(tiers)
  BY <1>1, <1>6 DEF Rows
<1>9. RowsAt(rows, layout, index, n)
  BY <1>2, <1>7, <1>8, RowsArePlaced
<1>10. \A i \in 1..n : \A j \in 1..tiers[i].rows :
         /\ index[i] + j \in 1..Len(rows)
         /\ rows[index[i] + j] = [section |-> layout[i], row |-> layout[i].rows[j]]
  BY <1>6, <1>9 DEF RowsAt, Entry
<1>11. \A i \in 1..n : layout[i].name = i /\ layout[i].price = tiers[i].price
  BY <1>4
<1>12. ASSUME NEW i \in 1..n, NEW j \in 1..tiers[i].rows
       PROVE  TierRow(layout, index, rows, perRow, labels, i, j)
  <2>1. layout[i].rows[j] = row(i, j) /\ index[i] + j \in 1..Len(labels)
    BY <1>5, <1>6
  <2>2. /\ layout[i].rows[j].label.text = labels[index[i] + j]
        /\ layout[i].rows[j].seats = perRow /\ layout[i].rows[j].aisles = {}
    BY <2>1 DEF Plain
  <2>3. /\ index[i] + j \in 1..Len(rows)
        /\ rows[index[i] + j].section = layout[i] /\ rows[index[i] + j].row = layout[i].rows[j]
    <3>1. rows[index[i] + j] = [section |-> layout[i], row |-> layout[i].rows[j]]
      BY <1>10
    <3> HIDE DEF rows
    <3> QED
      BY <1>10, <3>1
  <2> QED
    BY <2>1, <2>2, <2>3 DEF TierRow
<1> QED
  BY <1>2, <1>6, <1>7, <1>9, <1>11, <1>12 DEF layout, index, TiersLaid

\* They are valid, and their rows have the letters in order.
LEMMA TiersAreValid ==
  ASSUME NEW tiers, NEW perRow, NEW labels, NEW n, IsTiered(tiers, perRow, labels, n),
         NEW layout, NEW index, NEW rows, rows = RowsOf(layout),
         TiersLaid(layout, index, rows, tiers, perRow, labels, n)
  PROVE  /\ Valid(layout) /\ Len(rows) = index[n + 1]
         /\ \A q \in 1..Len(rows) : rows[q].row.seats = perRow /\ rows[q].row.label.text = labels[q]
<1>1. /\ n \in Nat \ {0} /\ n <= MaxSections /\ perRow \in 1..MaxRowSeats
      /\ DOMAIN layout = 1..n /\ Len(layout) = n
      /\ Len(rows) \in Nat /\ Len(rows) = index[n + 1]
  BY DEF IsTiered, TiersLaid, IsLayout, RowsAt
<1>2. ASSUME NEW q \in 1..Len(rows)
      PROVE  rows[q].row.seats = perRow /\ rows[q].row.label.text = labels[q] /\ q \in 1..Len(labels)
  <2>1. PICK i \in 1..n : \E j \in 1..Len(layout[i].rows) : q = index[i] + j
    BY DEF TiersLaid, RowsAt
  <2>2. PICK j \in 1..tiers[i].rows : q = index[i] + j
    BY <2>1 DEF TiersLaid
  <2>3. TierRow(layout, index, rows, perRow, labels, i, j)
    BY DEF TiersLaid
  <2> QED
    BY <2>2, <2>3 DEF TierRow
<1>3. LabelsDiffer(layout)
  <2>1. DOMAIN rows = 1..Len(rows)
    BY DEF TiersLaid, RowsAt
  <2>2. DOMAIN labels = 1..Len(labels)
    BY DEF IsTiered
  <2> QED
    BY <1>2, <2>1, <2>2 DEF LabelsDiffer, IsTiered
<1>4. ASSUME NEW i \in 1..n PROVE SectionIsValid(layout[i])
  <2>1. /\ layout[i].price \in 0..MaxPrice /\ Len(layout[i].rows) \in 1..MaxRows
        /\ Len(layout[i].rows) = tiers[i].rows
    BY DEF IsTiered, TiersLaid
  <2>2. DOMAIN layout[i].rows = 1..Len(layout[i].rows)
    BY DEF TiersLaid, IsLayout
  <2>3. \A j \in 1..tiers[i].rows : layout[i].rows[j].seats = perRow /\ layout[i].rows[j].aisles = {}
    <3>1. \A j \in 1..tiers[i].rows : TierRow(layout, index, rows, perRow, labels, i, j)
      BY DEF TiersLaid
    <3> QED
      BY <3>1 DEF TierRow
  <2> QED
    BY <1>1, <2>1, <2>2, <2>3 DEF SectionIsValid, RowIsValid
<1>5. TotalSeats(layout) <= MaxSeats
  <2> DEFINE v == [q \in 1..Len(rows) |-> rows[q].row.seats]
  <2>1. perRow \in Nat /\ \A q \in 1..Len(rows) : v[q] = perRow /\ rows[q].row.seats \in Nat
    BY <1>1, <1>2
  <2>2. PICK f : IsSums(f, v, Len(rows)) /\ TotalSeats(layout) = f[Len(rows) + 1]
    BY <1>1, <2>1, TotalIsSum
  <2>3. \A q \in 1..(Len(rows) + 1) : f[q] = (q - 1) * perRow
    <3>1. IsSums(f, [q \in 1..Len(rows) |-> rows[q].row.seats], Len(rows))
      BY <2>2
    <3>2. /\ Len(rows) \in Nat /\ perRow \in Nat
          /\ \A q \in 1..Len(rows) : rows[q].row.seats = perRow
      BY <1>1, <1>2, <2>1
    <3>3. QED
      BY ONLY <3>1, <3>2, EvenRows
  <2>4. TotalSeats(layout) = Len(rows) * perRow
    <3>1. Len(rows) + 1 \in 1..(Len(rows) + 1) /\ (Len(rows) + 1) - 1 = Len(rows)
      BY <1>1
    <3> QED
      BY <2>2, <2>3, <3>1
  <2>5. Len(rows) <= Len(labels) /\ Len(labels) \in Nat /\ Len(labels) * perRow <= MaxSeats
    <3>2. CASE Len(rows) = 0
      BY <3>2 DEF IsTiered
    <3>3. CASE Len(rows) # 0
      <4>1. Len(rows) \in 1..Len(rows)
        BY <1>1, <3>3
      <4>2. Len(rows) \in 1..Len(labels)
        BY <1>2, <4>1
      <4> QED
        BY <4>2 DEF IsTiered
    <3> QED
      BY <3>2, <3>3
  <2>6. Len(rows) * perRow <= Len(labels) * perRow
    BY <1>1, <2>1, <2>5
  <2>7. Len(rows) * perRow \in Nat /\ Len(labels) * perRow \in Nat
    BY <1>1, <2>1, <2>5
  <2> QED
    BY <2>4, <2>5, <2>6, <2>7, LayoutAssumption DEF LayoutAssumption
<1>6. \A i, j \in DOMAIN layout : i # j => layout[i].name # layout[j].name
  BY <1>1 DEF TiersLaid
<1> QED
  BY <1>1, <1>2, <1>3, <1>4, <1>5, <1>6, LayoutAssumption DEF Valid, LayoutAssumption

\* In an even layout the seats of the rows a to b - 1 lie between two others.
LEMMA Blocks ==
  ASSUME NEW c \in Nat, NEW q \in Nat, NEW k \in 1..c, NEW a \in Nat, NEW b \in Nat
  PROVE  q * c + k \in (a * c + 1)..(b * c) <=> q \in a..(b - 1)
<1>1. q * c \in Nat /\ a * c \in Nat /\ b * c \in Nat
  OBVIOUS
<1>2. ASSUME q < a PROVE q * c + k <= a * c
  <2>1. (q + 1) * c <= a * c
    BY <1>2
  <2>2. (q + 1) * c = q * c + c
    OBVIOUS
  <2> QED
    BY <1>1, <2>1, <2>2
<1>3. ASSUME q >= a PROVE q * c + k >= a * c + 1
  <2>1. q * c >= a * c
    BY <1>3
  <2> QED
    BY <1>1, <2>1
<1>4. ASSUME q < b PROVE q * c + k <= b * c
  <2>1. (q + 1) * c <= b * c
    BY <1>4
  <2>2. (q + 1) * c = q * c + c
    OBVIOUS
  <2> QED
    BY <1>1, <2>1, <2>2
<1>5. ASSUME q >= b PROVE q * c + k > b * c
  <2>1. q * c >= b * c
    BY <1>5
  <2> QED
    BY <1>1, <2>1
<1> QED
  BY <1>1, <1>2, <1>3, <1>4, <1>5

\* All the seats of tier m are there, at its price.
LEMMA TierSeats ==
  ASSUME NEW tiers, NEW perRow, NEW labels, NEW n, IsTiered(tiers, perRow, labels, n),
         NEW layout, NEW index, NEW rows, rows = RowsOf(layout), Len(rows) \in Nat \ {0},
         TiersLaid(layout, index, rows, tiers, perRow, labels, n),
         \A q \in 1..Len(rows) : rows[q].row.seats = perRow,
         NEW seats, seats = Expand(layout), NEW m \in 1..n
  PROVE  Cardinality({k \in DOMAIN seats : seats[k].section = m /\ seats[k].price = tiers[m].price})
         = tiers[m].rows * perRow
<1> DEFINE v == [q \in 1..Len(rows) |-> rows[q].row.seats]
           mine == {k \in DOMAIN seats : seats[k].section = m /\ seats[k].price = tiers[m].price}
           a == index[m]  b == index[m + 1]
<1>1. /\ n \in Nat \ {0} /\ perRow \in Nat
      /\ rows = [q \in 1..Len(rows) |-> rows[q]] /\ Len(rows) = index[n + 1]
  BY DEF IsTiered, TiersLaid, RowsAt
<1>2. \A i \in 1..n : tiers[i].rows \in Nat
  BY DEF IsTiered
<1>3. PICK off : IsSums(off, v, Len(rows))
  <2>1. \A q \in 1..Len(rows) : v[q] \in Nat
    BY <1>1
  <2> HIDE DEF v
  <2> QED
    BY <2>1, SumsExist
<1>4. SeatsAt(seats, rows, off)
  BY <1>1, <1>3, SeatsArePlaced
<1>5. \A q \in 1..(Len(rows) + 1) : off[q] = (q - 1) * perRow
  <2>1. IsSums(off, [q \in 1..Len(rows) |-> rows[q].row.seats], Len(rows))
    BY <1>3
  <2>2. /\ Len(rows) \in Nat /\ perRow \in Nat
        /\ \A q \in 1..Len(rows) : rows[q].row.seats = perRow
    BY <1>1
  <2>3. QED
    BY ONLY <2>1, <2>2, EvenRows
<1>6. /\ \A i \in 1..(n + 1) : index[i] \in Nat
      /\ \A i \in 1..n : index[i + 1] = index[i] + tiers[i].rows
      /\ \A i \in 1..(n + 1) : index[i] <= index[n + 1]
      /\ \A j \in 1..(n + 1) : \A i \in 1..j : index[i] <= index[j]
  <2>1. \A i \in 1..n : Rows(tiers)[i] \in Nat /\ Rows(tiers)[i] = tiers[i].rows
    BY <1>1, <1>2 DEF Rows, IsTiered
  <2>2. n + 1 \in 1..(n + 1) /\ IsSums(index, Rows(tiers), n)
    BY <1>1 DEF TiersLaid
  <2> QED
    BY <1>1, <2>1, <2>2, SumsGrow
<1>7. a \in Nat /\ b \in Nat /\ b = a + tiers[m].rows /\ b <= Len(rows) /\ tiers[m].rows \in Nat
  <2>1. m \in 1..(n + 1) /\ m + 1 \in 1..(n + 1)
    BY <1>1
  <2> QED
    BY <1>1, <1>2, <1>6, <2>1
\* A row belongs to tier m when it lies between the tier's first and last.
<1>8. ASSUME NEW q \in 1..Len(rows)
      PROVE  rows[q].section.name = m <=> q - 1 \in a..(b - 1)
  <2>1. PICK i \in 1..n : \E j \in 1..Len(layout[i].rows) : q = index[i] + j
    BY DEF TiersLaid, RowsAt
  <2>2. PICK j \in 1..tiers[i].rows : q = index[i] + j
    BY <2>1 DEF TiersLaid
  <2>3. rows[q].section.name = i
    <3>1. TierRow(layout, index, rows, perRow, labels, i, j) /\ layout[i].name = i
      BY DEF TiersLaid
    <3> QED
      BY <2>2, <3>1 DEF TierRow
  <2>4. CASE i = m
    <3>1. q = a + j /\ j \in 1..tiers[m].rows
      BY <2>2, <2>4
    <3> DEFINE w == tiers[m].rows
    <3>2. j \in 1..w /\ q = a + j /\ a \in Nat /\ b \in Nat /\ w \in Nat /\ b = a + w
      BY <1>7, <3>1
    <3> HIDE DEF a, b, w
    <3>3. q - 1 \in a..(b - 1)
      BY <3>2
    <3> QED
      BY <2>3, <2>4, <3>3
  <2>5. CASE i < m
    <3>1. i \in 1..n /\ i + 1 \in 1..m /\ m \in 1..(n + 1) /\ i \in 1..(n + 1)
      BY <1>1, <2>5
    <3>2. index[i + 1] <= a /\ index[i + 1] = index[i] + tiers[i].rows
      BY <1>6, <3>1
    <3>3. q <= a
      BY <1>2, <1>6, <1>7, <2>2, <3>1, <3>2
    <3> QED
      BY <1>7, <2>3, <2>5, <3>3
  <2>6. CASE i > m
    <3>1. m + 1 \in 1..i /\ i \in 1..(n + 1)
      BY <1>1, <2>6
    <3>2. b <= index[i] /\ index[i] \in Nat
      BY <1>6, <3>1
    <3>3. q > b
      BY <1>2, <1>7, <2>2, <3>2
    <3> QED
      BY <1>7, <2>3, <2>6, <3>3
  <2> QED
    BY <2>4, <2>5, <2>6
<1>9. ASSUME NEW q \in 1..Len(rows), rows[q].section.name = m
      PROVE  rows[q].section.price = tiers[m].price
  <2>1. PICK i \in 1..n : \E j \in 1..Len(layout[i].rows) : q = index[i] + j
    BY DEF TiersLaid, RowsAt
  <2>2. PICK j \in 1..tiers[i].rows : q = index[i] + j
    BY <2>1 DEF TiersLaid
  <2>3. /\ TierRow(layout, index, rows, perRow, labels, i, j)
        /\ layout[i].name = i /\ layout[i].price = tiers[i].price
    BY DEF TiersLaid
  <2> QED
    BY <1>9, <2>2, <2>3 DEF TierRow
<1> HIDE DEF a, b, v
<1>10. ASSUME NEW p \in 1..Len(seats)
       PROVE  p \in mine <=> p \in (a * perRow + 1)..(b * perRow)
  <2>1. PICK q \in 1..Len(rows) : \E k \in 1..rows[q].row.seats : p = off[q] + k
    BY <1>4 DEF SeatsAt
  <2>2. PICK k \in 1..perRow : p = off[q] + k
    BY <2>1
  <2>3. p = (q - 1) * perRow + k
    <3>1. q \in 1..(Len(rows) + 1)
      BY <1>1
    <3> QED
      BY <1>5, <2>2, <3>1
  <2>4. seats[p] = Planned(rows[q], k) /\ p \in DOMAIN seats
    BY <1>4, <2>2 DEF SeatsAt
  <2>5. p \in mine <=> rows[q].section.name = m
    BY <1>9, <2>4 DEF Planned
  <2>6. q - 1 \in Nat
    OBVIOUS
  <2>7. p \in (a * perRow + 1)..(b * perRow) <=> q - 1 \in a..(b - 1)
    BY <1>1, <1>7, <2>3, <2>6, Blocks
  <2> QED
    BY <1>8, <2>5, <2>7
<1>11. DOMAIN seats = 1..Len(seats) /\ Len(seats) = Len(rows) * perRow
  <2>1. Len(rows) + 1 \in 1..(Len(rows) + 1) /\ (Len(rows) + 1) - 1 = Len(rows)
    BY <1>1
  <2> QED
    BY <1>4, <1>5, <2>1 DEF SeatsAt
<1>12. /\ a * perRow \in Nat /\ b * perRow \in Nat /\ b * perRow <= Len(rows) * perRow
       /\ b * perRow = a * perRow + tiers[m].rows * perRow /\ tiers[m].rows * perRow \in Nat
  <2> DEFINE l == Len(rows)  w == tiers[m].rows
  <2>1. /\ a \in Nat /\ b \in Nat /\ w \in Nat /\ l \in Nat /\ perRow \in Nat
        /\ b = a + w /\ b <= l
    BY <1>1, <1>7
  <2> HIDE DEF l, w
  <2>2. b * perRow <= l * perRow
    BY <2>1
  <2>3. (a + w) * perRow = a * perRow + w * perRow
    BY <2>1
  <2>4. a * perRow \in Nat /\ b * perRow \in Nat /\ w * perRow \in Nat
    BY <2>1
  <2> QED
    BY <2>1, <2>2, <2>3, <2>4 DEF l, w
<1>13. mine \subseteq 1..Len(seats)
  BY <1>11
<1> HIDE DEF mine
<1>14. mine = (a * perRow + 1)..(b * perRow)
  <2>1. (a * perRow + 1)..(b * perRow) \subseteq 1..Len(seats)
    BY <1>11, <1>12
  <2> QED
    BY <1>10, <1>13, <2>1
<1>15. Cardinality(mine) = tiers[m].rows * perRow
  <2> DEFINE x == a * perRow + 1  y == b * perRow
  <2>1. /\ x \in Int /\ y \in Int /\ (x > y => tiers[m].rows * perRow = 0)
        /\ y - x + 1 = tiers[m].rows * perRow
    BY <1>12
  <2> HIDE DEF x, y
  <2>2. Cardinality(x..y) = IF x > y THEN 0 ELSE y - x + 1
    BY <2>1, FS_Interval
  <2>3. Cardinality(x..y) = tiers[m].rows * perRow
    BY <2>1, <2>2
  <2> QED
    BY <1>14, <2>3 DEF x, y
<1> QED
  BY <1>15 DEF mine

\* No two seats of a valid layout have one label and number.
LEMMA ValidSeatsDiffer ==
  ASSUME NEW layout, NEW n, IsLayout(layout, n), Valid(layout)
  PROVE  LET seats == Expand(layout) IN
         \A i, j \in DOMAIN seats :
           i # j => <<seats[i].row, seats[i].number>> # <<seats[j].row, seats[j].number>>
<1> DEFINE rows == RowsOf(layout)  seats == Expand(layout)
           v == [q \in 1..Len(rows) |-> rows[q].row.seats]
           u == [i \in 1..n |-> Len(layout[i].rows)]
<1>1. /\ n \in Nat \ {0} /\ DOMAIN layout = 1..n
      /\ \A i \in 1..n : DOMAIN layout[i].rows = 1..Len(layout[i].rows) /\ Len(layout[i].rows) \in Nat
  BY DEF IsLayout
<1>2. PICK off : IsSums(off, u, n)
  <2>1. \A i \in 1..n : u[i] \in Nat
    BY <1>1
  <2> HIDE DEF u
  <2> QED
    BY <1>1, <2>1, SumsExist
<1>3. RowsAt(rows, layout, off, n)
  BY <1>2, RowsArePlaced
<1>4. \A q \in 1..Len(rows) : rows[q].row.seats \in Nat
  <2> SUFFICES ASSUME NEW q \in 1..Len(rows) PROVE rows[q].row.seats \in Nat
    OBVIOUS
  <2>1. PICK i \in 1..n : \E j \in 1..Len(layout[i].rows) : q = off[i] + j
    BY <1>3 DEF RowsAt
  <2>2. PICK j \in 1..Len(layout[i].rows) : q = off[i] + j
    BY <2>1
  <2>3. rows[q] = Entry(layout, i, j)
    BY <1>3, <2>2 DEF RowsAt
  <2>4. RowIsValid(layout[i].rows[j])
    BY <1>1 DEF Valid, SectionIsValid
  <2> QED
    BY <2>3, <2>4, LayoutAssumption DEF Entry, RowIsValid, LayoutAssumption
<1>5. Len(rows) \in Nat \ {0} /\ rows = [q \in 1..Len(rows) |-> rows[q]]
  <2>1. 1 \in 1..n /\ 1 \in 1..Len(layout[1].rows)
    <3>1. 1 \in 1..n
      BY <1>1
    <3>2. Len(layout[1].rows) \in 1..MaxRows
      BY <1>1, <3>1 DEF Valid, SectionIsValid
    <3> QED
      BY <3>1, <3>2, LayoutAssumption DEF LayoutAssumption
  <2>2. off[1] + 1 \in 1..Len(rows) /\ Len(rows) \in Nat
    BY <1>3, <2>1 DEF RowsAt
  <2>3. rows = [q \in 1..Len(rows) |-> rows[q]]
    BY <1>3 DEF RowsAt
  <2> QED
    BY <2>2, <2>3
<1>6. \A q, r \in 1..Len(rows) : q # r => rows[q].row.label.text # rows[r].row.label.text
  <2>1. LabelsDiffer(layout)
    BY DEF Valid
  <2>2. DOMAIN rows = 1..Len(rows)
    BY <1>5
  <2> QED
    BY <2>1, <2>2 DEF LabelsDiffer
<1> HIDE DEF rows
<1>7. PICK places : IsSums(places, v, Len(rows))
  <2>1. \A q \in 1..Len(rows) : v[q] \in Nat
    BY <1>4
  <2> HIDE DEF v
  <2> QED
    BY <1>5, <2>1, SumsExist
<1>8. SeatsAt(seats, rows, places)
  BY <1>4, <1>5, <1>7, SeatsArePlaced DEF rows
<1> QED
  BY <1>6, <1>8, PlacedSeatsDiffer

\* The seats of a created event: no two have one label and number, and price
\* tiers within the limits that have no more rows than there are letters give
\* all seats of every tier at its price (layout.py, from_price_tiers and expand).
THEOREM SeatsAsPlanned == CatalogueSpec => []SeatsAreAsPlanned
<1>1. LayoutServed /\ TiersServed => SeatsAreAsPlanned
  <2> SUFFICES ASSUME LayoutServed, TiersServed PROVE SeatsAreAsPlanned
    OBVIOUS
  <2> DEFINE Differ(seats) ==
               \A i, j \in DOMAIN seats :
                 i # j => <<seats[i].row, seats[i].number>> # <<seats[j].row, seats[j].number>>
  <2>1. Differ(<<>>)
    OBVIOUS
  <2>2. ASSUME Answered("layout") PROVE Differ(answer)
    <3> DEFINE layout == call.layout
    <3>1. layout \in Seq(Section) /\ answer = IF Valid(layout) THEN Expand(layout) ELSE <<>>
      BY <2>2, CatalogueAssumption DEF LayoutServed, Served, Answered, CatalogueAssumption
    <3> HIDE DEF layout
    <3>2. CASE Valid(layout)
      <4>1. IsLayout(layout, Len(layout))
        <5>1. Len(layout) \in Nat \ {0} /\ layout = [i \in 1..Len(layout) |-> layout[i]]
          <6>1. Len(layout) \in Nat /\ layout = [i \in 1..Len(layout) |-> layout[i]]
            BY <3>1
          <6>2. Len(layout) \in 1..MaxSections
            BY <3>2 DEF Valid
          <6> QED
            BY <6>1, <6>2
        <5>2. \A i \in 1..Len(layout) : layout[i].rows \in Seq(Row)
          <6>1. \A i \in 1..Len(layout) : layout[i] \in Section
            BY <3>1
          <6> QED
            BY <6>1 DEF Section
        <5> QED
          BY <5>1, <5>2 DEF IsLayout
      <4> QED
        BY <3>1, <3>2, <4>1, ValidSeatsDiffer
    <3> QED
      BY <2>1, <3>1, <3>2
  <2>3. ASSUME Answered("tiers")
        PROVE  /\ Differ(answer)
               /\ RowsWanted(call.tiers) <= Len(call.labels) =>
                    \A i \in DOMAIN call.tiers :
                      Cardinality({k \in DOMAIN answer : /\ answer[k].section = i
                                                         /\ answer[k].price = call.tiers[i].price})
                      = call.tiers[i].rows * call.perRow
    <3> DEFINE tiers == call.tiers  perRow == call.perRow  labels == call.labels
               layout == FromTiers(tiers, perRow, labels)
               n == Len(tiers)
    <3>1. /\ tiers \in Seq([rows: 1..MaxRows, price: 0..MaxPrice]) /\ perRow \in 1..MaxRowSeats
          /\ labels \in Seq(Text) /\ Lettered(call)
          /\ answer = IF RowsWanted(tiers) <= Len(labels) /\ Valid(layout) THEN Expand(layout) ELSE <<>>
      BY <2>3, CatalogueAssumption DEF TiersServed, Served, Answered, CatalogueAssumption
    <3>2. /\ n <= MaxSections /\ Len(labels) * perRow <= MaxSeats
          /\ \A i, j \in DOMAIN labels : i # j => labels[i] # labels[j]
      BY <3>1 DEF Lettered
    <3> HIDE DEF tiers, perRow, labels
    <3>3. /\ n \in Nat /\ DOMAIN tiers = 1..n /\ tiers = [i \in 1..n |-> tiers[i]]
          /\ \A i \in 1..n : tiers[i].rows \in 1..MaxRows /\ tiers[i].price \in 0..MaxPrice
      <4>1. n \in Nat /\ DOMAIN tiers = 1..n /\ tiers = [i \in 1..n |-> tiers[i]]
        BY <3>1
      <4>2. \A i \in 1..n : tiers[i] \in [rows: 1..MaxRows, price: 0..MaxPrice]
        <5> DEFINE S == [rows: 1..MaxRows, price: 0..MaxPrice]
        <5>1. tiers \in Seq(S)
          BY <3>1
        <5> HIDE DEF S
        <5>2. \A i \in 1..Len(tiers) : tiers[i] \in S
          BY <5>1
        <5> QED
          BY <5>2 DEF S
      <4> HIDE DEF n
      <4> QED
        BY <4>1, <4>2
    <3>4. CASE n = 0
      <4>1. DOMAIN tiers = {}
        BY <3>3, <3>4
      <4>2. Len(layout) = 0
        BY <4>1 DEF FromTiers
      <4>3. answer = <<>>
        BY <3>1, <4>2, LayoutAssumption DEF Valid, LayoutAssumption
      <4> HIDE DEF layout, n
      <4> QED
        BY <2>1, <4>1, <4>3 DEF tiers
    <3>5. CASE n # 0 /\ ~(RowsWanted(tiers) <= Len(labels))
      <4> HIDE DEF layout, n
      <4> QED
        BY <2>1, <3>1, <3>5 DEF tiers, labels
    <3>6. CASE n # 0 /\ RowsWanted(tiers) <= Len(labels)
      <4> HIDE DEF n
      <4>1. IsTiered(tiers, perRow, labels, n)
        <5>1. n \in Nat \ {0}
          BY <3>3, <3>6
        <5> QED
          BY <3>1, <3>2, <3>3, <3>6, <5>1 DEF IsTiered
      <4> DEFINE index == RowIndex(tiers)  rows == RowsOf(layout)
      <4>2. TiersLaid(layout, index, rows, tiers, perRow, labels, n)
        BY <4>1, TierRows
      <4> HIDE DEF layout, index
      <4>3. /\ Valid(layout) /\ Len(rows) = index[n + 1]
            /\ \A q \in 1..Len(rows) : rows[q].row.seats = perRow
        BY <4>1, <4>2, TiersAreValid
      <4>4. answer = Expand(layout)
        BY <3>1, <3>6, <4>3
      <4>5. IsLayout(layout, n)
        BY <4>2 DEF TiersLaid
      <4>6. Differ(answer)
        BY <4>3, <4>4, <4>5, ValidSeatsDiffer
      <4>7. Len(rows) \in Nat \ {0}
        <5>1. 1 \in 1..n /\ tiers[1].rows \in 1..MaxRows
          BY <3>3, <3>6
        <5>2. 1 \in 1..tiers[1].rows
          BY <5>1, LayoutAssumption DEF LayoutAssumption
        <5>3. TierRow(layout, index, rows, perRow, labels, 1, 1)
          BY <4>2, <5>1, <5>2 DEF TiersLaid
        <5>4. index[1] + 1 \in 1..Len(rows)
          BY <5>3 DEF TierRow
        <5>5. Len(rows) \in Nat
          BY <4>2 DEF TiersLaid, RowsAt
        <5> QED
          BY <5>4, <5>5
      <4>8. \A i \in 1..n :
              Cardinality({k \in DOMAIN answer : /\ answer[k].section = i
                                                 /\ answer[k].price = tiers[i].price})
              = tiers[i].rows * perRow
        BY <4>1, <4>2, <4>3, <4>4, <4>7, TierSeats
      <4> QED
        BY <3>3, <4>6, <4>8 DEF tiers, perRow
    <3> QED
      BY <3>4, <3>5, <3>6
  <2> QED
    BY <2>2, <2>3 DEF SeatsAreAsPlanned
<1> QED
  BY <1>1, CatalogueServes, PTL DEF CatalogueInv

----------------------------------------------------------------------------
(* The seat search                                                         *)

\* t has the elements of the first m of s at the places in S; at says which.
Picks(t, at, s, S, m) ==
  /\ Len(t) \in Nat /\ t = [j \in 1..Len(t) |-> t[j]]
  /\ \A j \in 1..Len(t) : at[j] \in 1..m /\ at[j] \in S /\ t[j] = s[at[j]]
  /\ \A j, k \in 1..Len(t) : j < k => at[j] < at[k]
  /\ \A i \in 1..m : i \in S => \E j \in 1..Len(t) : at[j] = i

LEMMA PicksNext ==
  ASSUME NEW E, NEW t \in Seq(E), NEW at, NEW s, NEW S, NEW m \in Nat, Picks(t, at, s, S, m),
         s[m + 1] \in E
  PROVE  \E b : Picks(IF m + 1 \in S THEN Append(t, s[m + 1]) ELSE t, b, s, S, m + 1)
<1>1. CASE m + 1 \notin S
  <2>1. \A i \in 1..(m + 1) : i \in S => i \in 1..m
    BY <1>1
  <2>2. \A i \in 1..m : i \in 1..(m + 1)
    OBVIOUS
  <2>3. Picks(t, at, s, S, m + 1)
    BY <2>1, <2>2 DEF Picks
  <2> QED
    BY <1>1, <2>3
<1>2. CASE m + 1 \in S
  <2> DEFINE n == Len(t)
             u == Append(t, s[m + 1])
             b == [j \in 1..(n + 1) |-> IF j = n + 1 THEN m + 1 ELSE at[j]]
  <2>1. n \in Nat
    OBVIOUS
  <2>2. /\ Len(u) = n + 1 /\ u[n + 1] = s[m + 1] /\ \A j \in 1..n : u[j] = t[j]
        /\ u = [j \in 1..(n + 1) |-> u[j]]
    OBVIOUS
  <2>3. /\ \A j \in 1..n : at[j] \in 1..m /\ at[j] \in S /\ t[j] = s[at[j]]
        /\ \A j, k \in 1..n : j < k => at[j] < at[k]
        /\ \A i \in 1..m : i \in S => \E j \in 1..n : at[j] = i
    BY DEF Picks
  <2>4. b[n + 1] = m + 1 /\ \A j \in 1..n : b[j] = at[j]
    BY <2>1
  <2> HIDE DEF n, u, b
  <2>5. \A j \in 1..(n + 1) : j = n + 1 \/ j \in 1..n
    BY <2>1
  <2>6. \A j \in 1..(n + 1) : b[j] \in 1..(m + 1) /\ b[j] \in S /\ u[j] = s[b[j]]
    <3> SUFFICES ASSUME NEW j \in 1..(n + 1)
                 PROVE  b[j] \in 1..(m + 1) /\ b[j] \in S /\ u[j] = s[b[j]]
      OBVIOUS
    <3>1. CASE j = n + 1
      BY <1>2, <2>2, <2>4, <3>1
    <3>2. CASE j \in 1..n
      <4>1. at[j] \in 1..m /\ at[j] \in S /\ t[j] = s[at[j]] /\ b[j] = at[j] /\ u[j] = t[j]
        BY <2>2, <2>3, <2>4, <3>2
      <4> QED
        BY <4>1
    <3> QED
      BY <2>5, <3>1, <3>2
  <2>7. \A j, k \in 1..(n + 1) : j < k => b[j] < b[k]
    <3> SUFFICES ASSUME NEW j \in 1..(n + 1), NEW k \in 1..(n + 1), j < k PROVE b[j] < b[k]
      OBVIOUS
    <3>1. j \in 1..n
      BY <2>1
    <3>2. at[j] \in 1..m /\ b[j] = at[j]
      BY <2>3, <2>4, <3>1
    <3>3. CASE k = n + 1
      BY <2>4, <3>2, <3>3
    <3>4. CASE k \in 1..n
      BY <2>3, <2>4, <3>1, <3>4
    <3> QED
      BY <2>5, <3>3, <3>4
  <2>8. \A i \in 1..(m + 1) : i \in S => \E j \in 1..(n + 1) : b[j] = i
    <3> SUFFICES ASSUME NEW i \in 1..(m + 1), i \in S PROVE \E j \in 1..(n + 1) : b[j] = i
      OBVIOUS
    <3>1. CASE i = m + 1
      <4>1. n + 1 \in 1..(n + 1)
        BY <2>1
      <4> QED
        BY <2>4, <3>1, <4>1
    <3>2. CASE i \in 1..m
      <4>1. PICK j \in 1..n : at[j] = i
        BY <2>3, <3>2
      <4>2. j \in 1..(n + 1)
        BY <2>1
      <4> QED
        BY <2>4, <4>1, <4>2
    <3> QED
      BY <3>1, <3>2
  <2>9. n + 1 \in Nat
    BY <2>1
  <2>10. Picks(u, b, s, S, m + 1)
    BY <2>2, <2>6, <2>7, <2>8, <2>9 DEF Picks
  <2> QED
    BY <1>2, <2>10 DEF u
<1> QED
  BY <1>1, <1>2

LEMMA OnlyPicks ==
  ASSUME NEW E, NEW s \in Seq(E), NEW S
  PROVE  Only(s, S) \in Seq(E) /\ \E at : Picks(Only(s, S), at, s, S, Len(s))
<1> DEFINE n == Len(s)
           Q == Seq(E)
           Is(f) == f = [i \in 1..(n + 1) |->
                           IF i = 1 THEN <<>>
                           ELSE IF i - 1 \in S THEN Append(f[i - 1], s[i - 1]) ELSE f[i - 1]]
           kept == CHOOSE f : Is(f)
           step == [i \in 1..(n + 1) |->
                      [x \in Q |-> IF i - 1 \in S /\ i # 1 THEN Append(x, s[i - 1]) ELSE x]]
<1>1. n \in Nat /\ \A i \in 1..n : s[i] \in E
  OBVIOUS
<1>2. Only(s, S) = kept[n + 1]
  BY DEF Only
<1> HIDE DEF n
<1>3. \A i \in 1..(n + 1) : i # 1 => i - 1 \in 1..n /\ i - 1 \in 1..(n + 1)
  BY <1>1
<1>4. step \in [1..(n + 1) -> [Q -> Q]] /\ <<>> \in Q
  <2>1. \A i \in 1..(n + 1) : \A x \in Q : i # 1 => Append(x, s[i - 1]) \in Q
    BY <1>1, <1>3
  <2>2. <<>> \in Q
    OBVIOUS
  <2> HIDE DEF Q
  <2> QED
    BY <2>1, <2>2
<1>5. \A i \in 1..(n + 1) : \A x \in Q :
        step[i][x] = IF i - 1 \in S /\ i # 1 THEN Append(x, s[i - 1]) ELSE x
  OBVIOUS
<1> HIDE DEF step, Q
<1>6. \E f : Is(f)
  <2>1. n + 1 \in Nat \ {0}
    BY <1>1
  <2>2. PICK f : IsIteration(f, <<>>, step, n + 1)
    BY <2>1, IterationExists
  <2>3. f \in [1..(n + 1) -> Q]
    BY <1>4, <2>1, <2>2, IterationType
  <2>4. ASSUME NEW i \in 1..(n + 1)
        PROVE  f[i] = IF i = 1 THEN <<>>
                      ELSE IF i - 1 \in S THEN Append(f[i - 1], s[i - 1]) ELSE f[i - 1]
    <3>1. f[i] = IF i = 1 THEN <<>> ELSE step[i][f[i - 1]]
      BY <2>2 DEF IsIteration
    <3> QED
      BY <1>3, <1>5, <2>3, <3>1
  <2> QED
    BY <2>3, <2>4
<1>7. Is(kept)
  BY <1>6
<1> HIDE DEF kept
<1>8. \A i \in 1..(n + 1) :
        kept[i] = IF i = 1 THEN <<>>
                  ELSE IF i - 1 \in S THEN Append(kept[i - 1], s[i - 1]) ELSE kept[i - 1]
  BY <1>7
<1> HIDE DEF Is
<1> DEFINE U == {i \in 1..(n + 1) : kept[i] \in Q /\ \E at : Picks(kept[i], at, s, S, i - 1)}
<1>9. 1 \in U
  <2>1. 1 \in 1..(n + 1) /\ kept[1] = <<>>
    BY <1>1, <1>8
  <2> DEFINE at == <<>>
  <2>2. Picks(<<>>, at, s, S, 1 - 1)
    BY DEF Picks
  <2> QED
    BY <1>4, <2>1, <2>2
<1>10. ASSUME NEW i \in 1..((n + 1) - 1), i \in U PROVE i + 1 \in U
  <2>1. /\ i \in 1..n /\ i + 1 \in 1..(n + 1) /\ i + 1 # 1 /\ (i + 1) - 1 = i
        /\ i - 1 \in Nat /\ (i - 1) + 1 = i
    BY <1>1
  <2>2. kept[i + 1] = IF i \in S THEN Append(kept[i], s[i]) ELSE kept[i]
    BY <1>8, <2>1
  <2>3. PICK at : Picks(kept[i], at, s, S, i - 1)
    BY <1>10
  <2>4. kept[i] \in Seq(E) /\ s[i] \in E
    BY <1>1, <1>10, <2>1 DEF Q
  <2>5. \E b : Picks(IF i \in S THEN Append(kept[i], s[i]) ELSE kept[i], b, s, S, i)
    BY <2>1, <2>3, <2>4, PicksNext
  <2>6. kept[i + 1] \in Q
    BY <2>2, <2>4 DEF Q
  <2> QED
    BY <2>1, <2>2, <2>5, <2>6
<1> HIDE DEF U
<1>11. 1..(n + 1) \subseteq U
  <2>1. n + 1 \in Nat \ {0}
    BY <1>1
  <2> QED
    BY <1>9, <1>10, <2>1, UpTo
<1>12. n + 1 \in 1..(n + 1) /\ (n + 1) - 1 = n
  BY <1>1
<1> QED
  BY <1>2, <1>11, <1>12 DEF U, Q, n

\* Nothing parts the q seats that end with seat i.
Joined(t, q, aisles, i) ==
  i >= q /\ \A k \in (i - q + 2)..i : ~Broken(t[k - 1], t[k], aisles)

\* The length of _runs' run is at least q when the last q seats are joined.
LEMMA RunsAreJoined ==
  ASSUME NEW t, Len(t) \in Nat, NEW q \in Nat \ {0}, NEW aisles
  PROVE  Runs(t, q, aisles) = {SubSeq(t, i - q + 1, i) : i \in {i \in 1..Len(t) : Joined(t, q, aisles, i)}}
<1> DEFINE n == Len(t)
           Is(f) == f = [i \in 1..n |->
                           IF i = 1 THEN 1
                           ELSE IF Broken(t[i - 1], t[i], aisles) THEN 1 ELSE f[i - 1] + 1]
           length == CHOOSE f : Is(f)
           step == [i \in 1..n |->
                      [x \in Nat |-> IF i # 1 /\ Broken(t[i - 1], t[i], aisles) THEN 1 ELSE x + 1]]
<1>1. Runs(t, q, aisles) = {SubSeq(t, i - q + 1, i) : i \in {i \in 1..n : length[i] >= q}}
  BY DEF Runs
<1> HIDE DEF n
<1>2. n \in Nat
  BY DEF n
<1>3. CASE n = 0
  <2>1. Runs(t, q, aisles) = {}
    BY <1>1, <1>3
  <2> QED
    BY <1>3, <2>1 DEF n
<1>4. CASE n \in Nat \ {0}
  <2>1. \A i \in 1..n : i # 1 => i - 1 \in 1..n
    BY <1>4
  <2>2. step \in [1..n -> [Nat -> Nat]]
    OBVIOUS
  <2>3. \A i \in 1..n : \A x \in Nat :
          step[i][x] = IF i # 1 /\ Broken(t[i - 1], t[i], aisles) THEN 1 ELSE x + 1
    OBVIOUS
  <2> HIDE DEF step
  <2>4. \E f : Is(f)
    <3>1. PICK f : IsIteration(f, 1, step, n)
      BY <1>4, IterationExists
    <3>2. f \in [1..n -> Nat]
      <4>1. 1 \in Nat
        OBVIOUS
      <4> QED
        BY <1>4, <2>2, <3>1, <4>1, IterationType
    <3>3. ASSUME NEW i \in 1..n
          PROVE  f[i] = IF i = 1 THEN 1
                        ELSE IF Broken(t[i - 1], t[i], aisles) THEN 1 ELSE f[i - 1] + 1
      <4>1. f[i] = IF i = 1 THEN 1 ELSE step[i][f[i - 1]]
        BY <3>1 DEF IsIteration
      <4> QED
        BY <2>1, <2>3, <3>2, <4>1
    <3> QED
      BY <3>2, <3>3
  <2>5. Is(length)
    BY <2>4
  <2> HIDE DEF length
  <2>6. \A i \in 1..n :
          length[i] = IF i = 1 THEN 1
                      ELSE IF Broken(t[i - 1], t[i], aisles) THEN 1 ELSE length[i - 1] + 1
    BY <2>5
  <2> HIDE DEF Is
  <2> DEFINE Long(i) == \A p \in Nat \ {0} : length[i] >= p <=> Joined(t, p, aisles, i)
             U == {i \in 1..n : length[i] \in Nat /\ Long(i)}
  <2>7. 1 \in U
    <3>1. 1 \in 1..n /\ length[1] = 1
      BY <1>4, <2>6
    <3> QED
      BY <3>1 DEF Joined
  <2>8. ASSUME NEW i \in 1..(n - 1), i \in U PROVE i + 1 \in U
    <3>1. i + 1 \in 1..n /\ i + 1 # 1 /\ (i + 1) - 1 = i /\ i \in Nat \ {0}
      BY <1>4
    <3>2. length[i + 1] = IF Broken(t[i], t[i + 1], aisles) THEN 1 ELSE length[i] + 1
      BY <2>6, <3>1
    <3>3. length[i] \in Nat /\ length[i + 1] \in Nat
      BY <2>8, <3>2
    <3>4. ASSUME NEW p \in Nat \ {0}
          PROVE  length[i + 1] >= p <=> Joined(t, p, aisles, i + 1)
      <4>1. CASE p = 1
        BY <2>8, <3>1, <3>2, <4>1 DEF Joined
      <4>2. CASE p # 1 /\ Broken(t[i], t[i + 1], aisles)
        <5>1. i + 1 >= p => i + 1 \in (i + 1 - p + 2)..(i + 1)
          BY <3>1, <4>2
        <5> QED
          BY <3>1, <3>2, <4>2, <5>1 DEF Joined
      <4>3. CASE p # 1 /\ ~Broken(t[i], t[i + 1], aisles)
        <5>1. p - 1 \in Nat \ {0} /\ i - (p - 1) + 2 = i + 1 - p + 2
          BY <3>1, <4>3
        <5>2. length[i] >= p - 1 <=> Joined(t, p - 1, aisles, i)
          BY <2>8, <5>1
        <5>3. length[i + 1] >= p <=> length[i] >= p - 1
          BY <3>2, <3>3, <4>3
        <5>4. i + 1 >= p <=> i >= p - 1
          BY <3>1
        <5>5. (\A k \in (i + 1 - p + 2)..(i + 1) : ~Broken(t[k - 1], t[k], aisles))
              <=> (\A k \in (i - (p - 1) + 2)..i : ~Broken(t[k - 1], t[k], aisles))
          <6>1. \A k \in (i + 1 - p + 2)..(i + 1) : k = i + 1 \/ k \in (i + 1 - p + 2)..i
            BY <3>1
          <6>2. \A k \in (i + 1 - p + 2)..i : k \in (i + 1 - p + 2)..(i + 1)
            BY <3>1
          <6> QED
            BY <3>1, <4>3, <5>1, <6>1, <6>2
        <5> QED
          BY <5>2, <5>3, <5>4, <5>5 DEF Joined
      <4> QED
        BY <4>1, <4>2, <4>3
    <3> QED
      BY <3>1, <3>3, <3>4
  <2> HIDE DEF U
  <2>9. 1..n \subseteq U
    BY <1>4, <2>7, <2>8, UpTo
  <2>10. \A i \in 1..n : length[i] >= q <=> Joined(t, q, aisles, i)
    BY <2>9 DEF U
  <2> QED
    BY <1>1, <2>10 DEF n
<1> QED
  BY <1>2, <1>3, <1>4

LEMMA Window ==
  ASSUME NEW E, NEW t \in Seq(E), NEW q \in Nat \ {0}, NEW i \in 1..Len(t), i >= q
  PROVE  LET g == SubSeq(t, i - q + 1, i) IN
         g \in Seq(E) /\ Len(g) = q /\ \A k \in 1..q : g[k] = t[i - q + k]
<1> DEFINE g == SubSeq(t, i - q + 1, i)
<1>1. /\ i \in Nat /\ Len(t) \in Nat /\ i - q + 1 \in 1..(Len(t) + 1) /\ i \in (i - q + 1 - 1)..Len(t)
      /\ i - (i - q + 1) + 1 = q
  OBVIOUS
<1>2. g \in Seq(E) /\ Len(g) = q
  BY <1>1
<1>3. \A k \in 1..q : g[k] = t[i - q + k]
  <2> SUFFICES ASSUME NEW k \in 1..q PROVE g[k] = t[i - q + k]
    OBVIOUS
  <2>1. g[k] = t[(i - q + 1) + k - 1] /\ (i - q + 1) + k - 1 = i - q + k
    BY <1>1
  <2> QED
    BY <2>1
<1> QED
  BY <1>2, <1>3

\* The places of the usable seats of a row, and these seats.
Usables(seats, f) == {i \in DOMAIN seats : Usable(seats[i], f)}
Mine(seats, f, row) == {i \in Usables(seats, f) : seats[i].row = row}
InRow(seats, f, row) == Only(seats, Mine(seats, f, row))
RowsUsed(seats, f) == {seats[i].row : i \in Usables(seats, f)}

Size(f) == IF f.together THEN Clamped(f.quantity) ELSE 1

\* The group g ends with seat i of a row.
GroupEnds(g, seats, f, layout, row, i) ==
  LET t == InRow(seats, f, row) IN
  /\ row \in RowsUsed(seats, f) /\ i \in 1..Len(t)
  /\ Joined(t, Size(f), AislesFor(layout, row), i) /\ g = SubSeq(t, i - Size(f) + 1, i)

LEMMA GroupsEnd ==
  ASSUME NEW seats \in Seq(SearchedSeat), NEW f \in Filters, Clamped(f.quantity) \in Nat \ {0},
         NEW layout, NEW g
  PROVE  g \in Groups(seats, f, layout)
         <=> \E row \in RowsUsed(seats, f) : \E i \in 1..Len(InRow(seats, f, row)) :
               GroupEnds(g, seats, f, layout, row, i)
<1> DEFINE found(row) == IF Clamped(f.quantity) = 1 \/ ~f.together
                         THEN {<<s>> : s \in ToSet(InRow(seats, f, row))}
                         ELSE Runs(InRow(seats, f, row), Clamped(f.quantity), AislesFor(layout, row))
<1>1. g \in Groups(seats, f, layout) <=> \E row \in RowsUsed(seats, f) : g \in found(row)
  BY DEF Groups, RowsUsed, InRow, Mine, Usables
<1>2. ASSUME NEW row \in RowsUsed(seats, f)
      PROVE  g \in found(row) <=> \E i \in 1..Len(InRow(seats, f, row)) :
                                    GroupEnds(g, seats, f, layout, row, i)
  <2> DEFINE t == InRow(seats, f, row)  aisles == AislesFor(layout, row)
  <2>1. t \in Seq(SearchedSeat)
    BY OnlyPicks DEF InRow
  <2> HIDE DEF t, aisles
  <2>2. CASE Clamped(f.quantity) = 1 \/ ~f.together
    <3>1. Size(f) = 1
      BY <2>2 DEF Size
    <3>2. \A i \in 1..Len(t) : Joined(t, 1, aisles, i) /\ SubSeq(t, i - 1 + 1, i) = <<t[i]>>
      <4> SUFFICES ASSUME NEW i \in 1..Len(t)
                   PROVE  Joined(t, 1, aisles, i) /\ SubSeq(t, i - 1 + 1, i) = <<t[i]>>
        OBVIOUS
      <4>1. Len(t) \in Nat
        BY <2>1
      <4>2. i >= 1 /\ ~ \E k \in (i - 1 + 2)..i : TRUE
        BY <4>1
      <4>3. Joined(t, 1, aisles, i)
        BY <4>2 DEF Joined
      <4> DEFINE g1 == SubSeq(t, i - 1 + 1, i)
      <4>4. g1 \in Seq(SearchedSeat) /\ Len(g1) = 1 /\ g1[1] = t[i]
        <5>1. 1 \in Nat \ {0} /\ i - 1 + 1 = i /\ 1 \in 1..1
          BY <4>1
        <5> QED
          BY <2>1, <4>2, <5>1, Window
      <4> HIDE DEF g1
      <4>5. g1 = <<t[i]>>
        BY <4>4
      <4> QED
        BY <4>3, <4>5 DEF g1
    <3>3. DOMAIN t = 1..Len(t)
      BY <2>1
    <3>4. found(row) = {<<t[i]>> : i \in 1..Len(t)}
      BY <2>2, <3>3 DEF ToSet, t
    <3> HIDE DEF found
    <3> QED
      BY <3>1, <3>2, <3>4 DEF GroupEnds, t, aisles
  <2>3. CASE ~(Clamped(f.quantity) = 1 \/ ~f.together)
    <3> DEFINE q == Clamped(f.quantity)
    <3>1. Size(f) = q /\ q \in Nat \ {0}
      BY <2>3 DEF Size, Filters
    <3>2. found(row) = Runs(t, q, aisles)
      BY <2>3 DEF t, aisles
    <3> HIDE DEF found, q
    <3>3. Len(t) \in Nat
      BY <2>1
    <3>4. found(row) = {SubSeq(t, i - q + 1, i) : i \in {i \in 1..Len(t) : Joined(t, q, aisles, i)}}
      BY <3>1, <3>2, <3>3, RunsAreJoined
    <3> QED
      BY <3>1, <3>4 DEF GroupEnds, t, aisles
  <2> QED
    BY <2>2, <2>3
<1> QED
  BY <1>1, <1>2

\* The seats of a row are usable seats of that row, in the order of their numbers.
LEMMA RowSeats ==
  ASSUME NEW seats \in Seq(SearchedSeat), InOrder(seats), NEW f, NEW row
  PROVE  LET t == InRow(seats, f, row) IN
         /\ t \in Seq(SearchedSeat)
         /\ \A j \in 1..Len(t) : /\ t[j].row = row /\ Usable(t[j], f)
                                 /\ \E p \in 1..Len(seats) : seats[p] = t[j]
         /\ \A j, k \in 1..Len(t) : j < k => t[j].number < t[k].number
<1> DEFINE t == InRow(seats, f, row)  S == Mine(seats, f, row)
<1>1. t \in Seq(SearchedSeat) /\ \E at : Picks(t, at, seats, S, Len(seats))
  BY OnlyPicks DEF InRow
<1>2. PICK at : Picks(t, at, seats, S, Len(seats))
  BY <1>1
<1>3. \A p \in S : p \in DOMAIN seats /\ Usable(seats[p], f) /\ seats[p].row = row
  BY DEF Mine, Usables
<1> HIDE DEF t, S
<1>4. \A j \in 1..Len(t) : at[j] \in 1..Len(seats) /\ at[j] \in S /\ t[j] = seats[at[j]]
  BY <1>2 DEF Picks
<1>5. \A j \in 1..Len(t) : /\ t[j].row = row /\ Usable(t[j], f)
                           /\ \E p \in 1..Len(seats) : seats[p] = t[j]
  BY <1>3, <1>4
<1>6. ASSUME NEW j \in 1..Len(t), NEW k \in 1..Len(t), j < k PROVE t[j].number < t[k].number
  <2>1. at[j] < at[k]
    BY <1>2, <1>6 DEF Picks
  <2>2. at[j] \in DOMAIN seats /\ at[k] \in DOMAIN seats
    BY <1>3, <1>4
  <2>3. \/ seats[at[j]].row < seats[at[k]].row
        \/ seats[at[j]].row = seats[at[k]].row /\ seats[at[j]].number < seats[at[k]].number
    BY <2>1, <2>2 DEF InOrder
  <2>4. seats[at[j]].row = row /\ seats[at[k]].row = row /\ row \in Nat
    <3>1. at[j] \in 1..Len(seats) /\ seats[at[j]] \in SearchedSeat
      BY <1>4
    <3>2. seats[at[j]].row \in Nat
      BY <3>1 DEF SearchedSeat
    <3> QED
      BY <1>3, <1>4, <3>2
  <2> QED
    BY <1>4, <2>3, <2>4
<1> QED
  BY <1>1, <1>5, <1>6 DEF t

LEMMA SizeType ==
  ASSUME NEW f \in Filters, Clamped(f.quantity) \in Nat \ {0}
  PROVE  Size(f) \in Nat \ {0}
BY DEF Size, Filters

\* A group has as many seats as it should, all usable and in its row, and
\* nothing parts them.
LEMMA GroupSeats ==
  ASSUME NEW seats \in Seq(SearchedSeat), InOrder(seats), NEW f, Size(f) \in Nat \ {0},
         NEW layout, NEW g, NEW row, NEW i, GroupEnds(g, seats, f, layout, row, i)
  PROVE  /\ g \in Seq(SearchedSeat) /\ Len(g) = Size(f)
         /\ \A k \in 1..Size(f) : /\ g[k].row = row /\ Usable(g[k], f)
                                  /\ \E p \in 1..Len(seats) : seats[p] = g[k]
         /\ \A k \in 2..Size(f) : ~Broken(g[k - 1], g[k], AislesFor(layout, row))
<1> DEFINE t == InRow(seats, f, row)  q == Size(f)  aisles == AislesFor(layout, row)
<1>1. /\ t \in Seq(SearchedSeat)
      /\ \A j \in 1..Len(t) : /\ t[j].row = row /\ Usable(t[j], f)
                              /\ \E p \in 1..Len(seats) : seats[p] = t[j]
  BY RowSeats
<1>2. i \in 1..Len(t) /\ Joined(t, q, aisles, i) /\ g = SubSeq(t, i - q + 1, i) /\ q \in Nat \ {0}
  BY DEF GroupEnds
<1> HIDE DEF t, q, aisles
<1>3. i >= q /\ i \in Nat /\ Len(t) \in Nat
  BY <1>1, <1>2 DEF Joined
<1>4. g \in Seq(SearchedSeat) /\ Len(g) = q /\ \A k \in 1..q : g[k] = t[i - q + k]
  BY <1>1, <1>2, <1>3, Window
<1>5. \A k \in 1..q : i - q + k \in 1..Len(t)
  BY <1>2, <1>3
<1>6. ASSUME NEW k \in 2..q PROVE ~Broken(g[k - 1], g[k], aisles)
  <2>1. /\ k \in 1..q /\ k - 1 \in 1..q /\ i - q + k \in (i - q + 2)..i
        /\ (i - q + k) - 1 = i - q + (k - 1)
    BY <1>2, <1>3
  <2>2. ~Broken(t[(i - q + k) - 1], t[i - q + k], aisles)
    BY <1>2, <2>1 DEF Joined
  <2>3. g[k] = t[i - q + k] /\ g[k - 1] = t[(i - q + k) - 1]
    BY <1>4, <2>1
  <2> QED
    BY <2>2, <2>3
<1> QED
  BY <1>1, <1>4, <1>5, <1>6 DEF q, aisles

\* Groups of one row that begin with one number are the same.
LEMMA GroupsDiffer ==
  ASSUME NEW seats \in Seq(SearchedSeat), InOrder(seats), NEW f, Size(f) \in Nat \ {0},
         NEW layout, NEW g, NEW row, NEW i, GroupEnds(g, seats, f, layout, row, i),
         NEW h, NEW other, NEW j, GroupEnds(h, seats, f, layout, other, j),
         g[1].row = h[1].row, g[1].number = h[1].number
  PROVE  g = h
<1> DEFINE t == InRow(seats, f, row)  q == Size(f)
<1>1. g[1].row = row /\ h[1].row = other
  <2>1. 1 \in 1..Size(f)
    OBVIOUS
  <2> QED
    BY <2>1, GroupSeats
<1>2. row = other
  BY <1>1
<1>3. /\ i \in 1..Len(t) /\ g = SubSeq(t, i - q + 1, i) /\ i >= q
      /\ j \in 1..Len(t) /\ h = SubSeq(t, j - q + 1, j) /\ j >= q
  BY <1>2 DEF GroupEnds, Joined
<1>4. /\ t \in Seq(SearchedSeat) /\ Len(t) \in Nat
      /\ \A k, m \in 1..Len(t) : k < m => t[k].number < t[m].number
  BY RowSeats
<1>5. q \in Nat \ {0}
  OBVIOUS
<1> HIDE DEF t, q
<1>6. g[1] = t[i - q + 1] /\ h[1] = t[j - q + 1]
  <2>1. 1 \in 1..q
    BY <1>5
  <2>2. (\A k \in 1..q : g[k] = t[i - q + k]) /\ (\A k \in 1..q : h[k] = t[j - q + k])
    BY <1>3, <1>4, <1>5, Window
  <2> QED
    BY <2>1, <2>2
<1>7. i - q + 1 \in 1..Len(t) /\ j - q + 1 \in 1..Len(t)
  <2> DEFINE n == Len(t)
  <2>1. n \in Nat /\ q \in Nat \ {0} /\ i \in 1..n /\ j \in 1..n /\ i >= q /\ j >= q
    BY <1>3, <1>4, <1>5
  <2> HIDE DEF n
  <2>2. i - q + 1 \in 1..n /\ j - q + 1 \in 1..n
    BY <2>1
  <2> QED
    BY <2>2 DEF n
<1>8. ~(i - q + 1 < j - q + 1) /\ ~(j - q + 1 < i - q + 1)
  <2>1. t[i - q + 1] \in SearchedSeat /\ t[j - q + 1] \in SearchedSeat
    BY <1>4, <1>7
  <2>2. t[i - q + 1].number \in Nat /\ t[i - q + 1].number = t[j - q + 1].number
    BY <1>6, <2>1 DEF SearchedSeat
  <2> QED
    BY <1>4, <1>7, <2>2
<1>9. i = j
  BY <1>3, <1>4, <1>5, <1>8
<1> QED
  BY <1>3, <1>9

\* There are finitely many groups: no two begin with the same seat.
LEMMA GroupsAreFinite ==
  ASSUME NEW seats \in Seq(SearchedSeat), InOrder(seats), NEW f \in Filters,
         Clamped(f.quantity) \in Nat \ {0}, NEW layout
  PROVE  IsFiniteSet(Groups(seats, f, layout))
<1> DEFINE all == Groups(seats, f, layout)
           T == 1..Len(seats)
           place == [g \in all |-> CHOOSE p \in T : seats[p] = g[1]]
<1>1. Size(f) \in Nat \ {0} /\ 1 \in 1..Size(f) /\ Len(seats) \in Nat
  BY SizeType
<1>2. ASSUME NEW g \in all
      PROVE  \E row, i : GroupEnds(g, seats, f, layout, row, i)
  BY <1>2, GroupsEnd
<1>3. ASSUME NEW g \in all PROVE \E p \in T : seats[p] = g[1]
  <2>1. PICK row, i : GroupEnds(g, seats, f, layout, row, i)
    BY <1>2
  <2> QED
    BY <1>1, <2>1, GroupSeats
<1>4. place \in [all -> T] /\ \A g \in all : seats[place[g]] = g[1]
  BY <1>3
<1>5. ASSUME NEW g \in all, NEW h \in all, place[g] = place[h] PROVE g = h
  <2>1. g[1] = h[1]
    BY <1>4, <1>5
  <2>2. PICK row, i : GroupEnds(g, seats, f, layout, row, i)
    BY <1>2
  <2>3. PICK other, j : GroupEnds(h, seats, f, layout, other, j)
    BY <1>2
  <2> QED
    BY <1>1, <2>1, <2>2, <2>3, GroupsDiffer
<1> HIDE DEF all, place
<1>6. place \in Injection(all, T)
  <2>1. \A g, h \in all : place[g] = place[h] => g = h
    BY <1>5
  <2> QED
    BY <1>4, <2>1 DEF Injection, IsInjective
<1>7. IsFiniteSet(T)
  BY <1>1, FS_Interval
<1> QED
  BY <1>6, <1>7, FS_Injection DEF all

LEMMA CostType ==
  ASSUME NEW g \in Seq(SearchedSeat)
  PROVE  Cost(g) \in Nat
<1> DEFINE n == Len(g)
           v == [i \in 1..n |-> g[i].price]
           Is(f) == f = [i \in 1..(n + 1) |-> IF i = 1 THEN 0 ELSE f[i - 1] + g[i - 1].price]
           sum == CHOOSE f : Is(f)
<1>1. n \in Nat /\ \A i \in 1..n : g[i].price \in Nat
  <2>1. \A i \in 1..n : g[i] \in SearchedSeat
    OBVIOUS
  <2> QED
    BY <2>1 DEF SearchedSeat
<1>2. Cost(g) = sum[n + 1]
  BY DEF Cost
<1> HIDE DEF n
<1>3. \A i \in 1..n : v[i] \in Nat
  BY <1>1
<1>4. \A i \in 1..(n + 1) : i # 1 => v[i - 1] = g[i - 1].price
  BY <1>1
<1> HIDE DEF v
<1>5. PICK f : IsSums(f, v, n)
  BY <1>1, <1>3, SumsExist
<1>6. \A f0 : Is(f0) <=> IsSums(f0, v, n)
  <2> SUFFICES ASSUME NEW h PROVE Is(h) <=> IsSums(h, v, n)
    OBVIOUS
  <2>1. [i \in 1..(n + 1) |-> IF i = 1 THEN 0 ELSE h[i - 1] + g[i - 1].price]
        = [i \in 1..(n + 1) |-> IF i = 1 THEN 0 ELSE h[i - 1] + v[i - 1]]
    BY <1>4
  <2> QED
    BY <2>1 DEF IsSums
<1> HIDE DEF Is
<1>7. Is(sum)
  BY <1>5, <1>6
<1> HIDE DEF sum
<1>8. IsSums(sum, v, n)
  BY <1>6, <1>7
<1>9. \A i \in 1..(n + 1) : sum[i] \in Nat
  BY <1>1, <1>3, <1>8, SumsGrow
<1>10. n + 1 \in 1..(n + 1)
  BY <1>1
<1> QED
  BY <1>2, <1>9, <1>10

\* The keys of the sorts, one after the other.
ByRow(f) == f.prefer \in {"front", "back"}
Rank(f, g) == IF f.prefer = "back" THEN - g[1].row ELSE g[1].row
First(f, g) == IF ByRow(f) THEN Rank(f, g) ELSE Cost(g)
Second(f, g) == IF ByRow(f) THEN Cost(g) ELSE g[1].row

LEMMA BeforeCompares ==
  ASSUME NEW f, NEW a, NEW b,
         First(f, a) \in Int, Second(f, a) \in Int, a[1].number \in Int,
         First(f, b) \in Int, Second(f, b) \in Int, b[1].number \in Int
  PROVE  Before(f, a, b)
         <=> \/ First(f, a) < First(f, b)
             \/ First(f, a) = First(f, b) /\ Second(f, a) < Second(f, b)
             \/ First(f, a) = First(f, b) /\ Second(f, a) = Second(f, b) /\ a[1].number < b[1].number
<1> DEFINE rank(g) == IF f.prefer = "back" THEN - g[1].row ELSE g[1].row
           key(g) == IF f.prefer \in {"front", "back"} THEN <<rank(g), Cost(g), g[1].number>>
                     ELSE <<Cost(g), g[1].row, g[1].number>>
<1>1. Before(f, a, b)
      <=> \E i \in 1..3 : key(a)[i] < key(b)[i] /\ \A j \in 1..(i - 1) : key(a)[j] = key(b)[j]
  BY DEF Before
<1>2. ASSUME NEW g
      PROVE  key(g)[1] = First(f, g) /\ key(g)[2] = Second(f, g) /\ key(g)[3] = g[1].number
  BY DEF First, Second, Rank, ByRow
<1> HIDE DEF key
<1> DEFINE less(i) == key(a)[i] < key(b)[i]
           same(i) == key(a)[i] = key(b)[i]
<1> DEFINE C(i) == less(i) /\ \A j \in 1..(i - 1) : same(j)
<1>3. Before(f, a, b) <=> C(1) \/ C(2) \/ C(3)
  <2>1. 1..3 = {1, 2, 3}
    OBVIOUS
  <2>2. Before(f, a, b) <=> \E i \in 1..3 : C(i)
    BY <1>1
  <2> HIDE DEF C
  <2> QED
    BY <2>1, <2>2
<1> HIDE DEF less, same
<1>4. C(1) <=> less(1)
  OBVIOUS
<1>5. C(2) <=> less(2) /\ same(1)
  <2>1. 1..(2 - 1) = {1}
    OBVIOUS
  <2> QED
    BY <2>1
<1>6. C(3) <=> less(3) /\ same(1) /\ same(2)
  <2>1. 1..(3 - 1) = {1, 2}
    OBVIOUS
  <2> QED
    BY <2>1
<1> HIDE DEF C
<1>7. /\ less(1) <=> First(f, a) < First(f, b)
      /\ less(2) <=> Second(f, a) < Second(f, b)
      /\ less(3) <=> a[1].number < b[1].number
      /\ same(1) <=> First(f, a) = First(f, b)
      /\ same(2) <=> Second(f, a) = Second(f, b)
  BY <1>2 DEF less, same
<1> QED
  BY <1>3, <1>4, <1>5, <1>6, <1>7

\* The q places from i on, of m, are all in S.
Span(S, m, q, i) == i \in 1..m /\ i + q - 1 <= m /\ \A k \in 1..q : i + k - 1 \in S

\* The q seats of s from i on are in t, one after the other.
Aligned(t, s, q, i) ==
  \E e \in 1..Len(t) : e >= q /\ \A k \in 1..q : t[e - q + k] = s[i + k - 1]

\* The places of a row's usable seats, when they include q places in a row.
LEMMA PlacesInARow ==
  ASSUME NEW t, NEW at, NEW s, NEW S, NEW m \in Nat, Picks(t, at, s, S, m),
         NEW q \in Nat \ {0}, NEW i, Span(S, m, q, i)
  PROVE  Aligned(t, s, q, i)
<1> i \in 1..m /\ i + q - 1 <= m /\ \A k \in 1..q : i + k - 1 \in S
  BY DEF Span
<1> DEFINE n == Len(t)
<1>1. /\ n \in Nat
      /\ \A j \in 1..n : at[j] \in 1..m /\ t[j] = s[at[j]]
      /\ \A j, k \in 1..n : j < k => at[j] < at[k]
      /\ \A p \in 1..m : p \in S => \E j \in 1..n : at[j] = p
  BY DEF Picks
<1> HIDE DEF n
<1>2. PICK j \in 1..n : at[j] = i
  <2>1. i \in S
    <3>1. 1 \in 1..q /\ i + 1 - 1 = i
      OBVIOUS
    <3> QED
      BY <3>1
  <2> QED
    BY <1>1, <2>1
<1> DEFINE U == {k \in 1..q : j + k - 1 \in 1..n /\ at[j + k - 1] = i + k - 1}
<1>3. 1 \in U
  BY <1>1, <1>2
<1>4. ASSUME NEW k \in 1..(q - 1), k \in U PROVE k + 1 \in U
  <2>1. k \in 1..q /\ k + 1 \in 1..q /\ i + (k + 1) - 1 \in 1..m
    OBVIOUS
  <2>2. PICK p \in 1..n : at[p] = i + (k + 1) - 1
    BY <1>1, <2>1
  <2>3. j + k - 1 \in 1..n /\ at[j + k - 1] = i + k - 1
    BY <1>4
  <2>4. p > j + k - 1
    <3>1. CASE p = j + k - 1
      BY <2>2, <2>3, <3>1
    <3>2. CASE p < j + k - 1
      <4>1. at[p] < at[j + k - 1]
        BY <1>1, <2>3, <3>2
      <4> QED
        BY <2>2, <2>3, <4>1
    <3> QED
      BY <1>1, <1>2, <3>1, <3>2
  <2>5. CASE p = j + k
    <3>1. j + (k + 1) - 1 = p
      BY <1>1, <2>5
    <3> QED
      BY <2>1, <2>2, <3>1
  <2>6. CASE p > j + k
    <3>1. j + k \in 1..n /\ j + k - 1 < j + k /\ j + k < p
      BY <1>1, <1>2, <2>2, <2>6
    <3>2. at[j + k - 1] < at[j + k] /\ at[j + k] < at[p] /\ at[j + k] \in Nat
      BY <1>1, <2>3, <3>1
    <3> QED
      BY <2>2, <2>3, <3>2
  <2> QED
    BY <1>1, <1>2, <2>4, <2>5, <2>6
<1> HIDE DEF U
<1>5. 1..q \subseteq U
  BY <1>3, <1>4, UpTo
<1> DEFINE e == j + q - 1
<1>6. e \in 1..n /\ e >= q
  <2>1. q \in U
    BY <1>5
  <2> QED
    BY <1>1, <1>2, <2>1 DEF U
<1>7. ASSUME NEW k \in 1..q PROVE t[e - q + k] = s[i + k - 1]
  <2>1. j + k - 1 \in 1..n /\ at[j + k - 1] = i + k - 1
    BY <1>5 DEF U
  <2>2. e - q + k = j + k - 1
    BY <1>1, <1>2
  <2> QED
    BY <1>1, <2>1, <2>2
<1> HIDE DEF e
<1> QED
  BY <1>6, <1>7 DEF n, Aligned

LEMMA Stretch ==
  ASSUME NEW E, NEW s \in Seq(E), NEW q \in Nat \ {0}, NEW i \in 1..Len(s), i + q - 1 <= Len(s)
  PROVE  LET g == SubSeq(s, i, i + q - 1) IN
         g \in Seq(E) /\ Len(g) = q /\ DOMAIN g = 1..q /\ \A k \in 1..q : g[k] = s[i + k - 1]
<1> DEFINE b == i + q - 1
<1>1. b \in 1..Len(s) /\ b >= q /\ b - q + 1 = i /\ \A k \in 1..q : b - q + k = i + k - 1
  OBVIOUS
<1> HIDE DEF b
<1>2. LET w == SubSeq(s, b - q + 1, b) IN
      w \in Seq(E) /\ Len(w) = q /\ \A k \in 1..q : w[k] = s[b - q + k]
  BY <1>1, Window
<1> DEFINE w == SubSeq(s, i, b)
<1>3. w \in Seq(E) /\ Len(w) = q /\ \A k \in 1..q : w[k] = s[i + k - 1]
  BY <1>1, <1>2
<1>4. DOMAIN w = 1..q
  BY <1>3
<1> QED
  BY <1>3, <1>4 DEF b

\* Seats that are next to each other in the query are next to each other in
\* their row, and a group if nothing parts them.
LEMMA NeighboursAreAGroup ==
  ASSUME NEW seats \in Seq(SearchedSeat), NEW f \in Filters, Clamped(f.quantity) \in Nat \ {0},
         NEW layout, NEW row, NEW i \in 1..Len(seats), i + Size(f) - 1 <= Len(seats),
         \A k \in 1..Size(f) : /\ i + k - 1 \in DOMAIN seats
                               /\ Usable(seats[i + k - 1], f) /\ seats[i + k - 1].row = row,
         \A k \in 2..Size(f) : ~Broken(seats[i + k - 2], seats[i + k - 1], AislesFor(layout, row))
  PROVE  SubSeq(seats, i, i + Size(f) - 1) \in Groups(seats, f, layout)
<1> DEFINE t == InRow(seats, f, row)  S == Mine(seats, f, row)  m == Len(seats)
           q == Size(f)  aisles == AislesFor(layout, row)  g == SubSeq(seats, i, i + q - 1)
<1>1. t \in Seq(SearchedSeat) /\ \E at : Picks(t, at, seats, S, m)
  BY OnlyPicks DEF InRow
<1>2. PICK at : Picks(t, at, seats, S, m)
  BY <1>1
<1>3. \A k \in 1..q : i + k - 1 \in S
  BY DEF Mine, Usables
<1>4. row \in RowsUsed(seats, f)
  <2>1. 1 \in 1..q /\ i + 1 - 1 = i
    BY SizeType
  <2>2. i \in Usables(seats, f) /\ seats[i].row = row
    BY <2>1 DEF Usables
  <2> QED
    BY <2>2 DEF RowsUsed
<1>5. q \in Nat \ {0} /\ m \in Nat
  BY SizeType
<1> HIDE DEF t, S, aisles
<1>6. Aligned(t, seats, q, i)
  <2>1. i \in 1..m /\ i + q - 1 <= m /\ q \in Nat \ {0} /\ m \in Nat
    BY <1>5
  <2>2. Span(S, m, q, i)
    BY <1>3, <2>1 DEF Span
  <2>3. Picks(t, at, seats, S, m)
    BY <1>2
  <2> HIDE DEF q, m, g
  <2> QED
    BY <2>1, <2>2, <2>3, PlacesInARow
<1>7. PICK e \in 1..Len(t) : e >= q /\ \A k \in 1..q : t[e - q + k] = seats[i + k - 1]
  BY <1>6 DEF Aligned
<1> DEFINE h == SubSeq(t, e - q + 1, e)
<1>8. h \in Seq(SearchedSeat) /\ Len(h) = q /\ \A k \in 1..q : h[k] = t[e - q + k]
  <2> HIDE DEF q
  <2> QED
    BY <1>1, <1>5, <1>7, Window
<1>9. g \in Seq(SearchedSeat) /\ Len(g) = q /\ \A k \in 1..q : g[k] = seats[i + k - 1]
  BY <1>5, Stretch
<1>10. g = h
  <2> HIDE DEF g, h, q
  <2>1. \A k \in 1..q : g[k] = h[k]
    BY <1>7, <1>8, <1>9
  <2> QED
    BY <1>8, <1>9, <2>1
<1>11. Joined(t, q, aisles, e)
  <2> SUFFICES ASSUME NEW k \in (e - q + 2)..e PROVE ~Broken(t[k - 1], t[k], aisles)
    BY <1>7 DEF Joined
  <2> DEFINE p == k - e + q
  <2>1. /\ p \in 2..q /\ p \in 1..q /\ p - 1 \in 1..q /\ e - q + p = k
        /\ e - q + (p - 1) = k - 1 /\ i + (p - 1) - 1 = i + p - 2
    <3> HIDE DEF q
    <3>1. q \in Nat \ {0} /\ e \in Int /\ k \in (e - q + 2)..e /\ i \in Int
      BY <1>1, <1>5, <1>7
    <3>2. p \in 2..q /\ p - 1 \in 1..q
      BY <3>1
    <3> QED
      BY <3>1, <3>2
  <2> HIDE DEF p
  <2>2. t[k] = seats[i + p - 1] /\ t[k - 1] = seats[i + p - 2]
    BY <1>7, <2>1
  <2>3. ~Broken(seats[i + p - 2], seats[i + p - 1], aisles)
    BY <2>1 DEF aisles
  <2> QED
    BY <2>2, <2>3
<1>12. GroupEnds(g, seats, f, layout, row, e)
  BY <1>4, <1>7, <1>10, <1>11 DEF GroupEnds, t, aisles
<1> QED
  BY <1>4, <1>7, <1>12, GroupsEnd DEF t

\* R orders A: no element is before itself, and of two one is before the other.
Orders(R, A) ==
  /\ \A x \in A : <<x, x>> \notin R
  /\ \A x, y, z \in A : <<x, y>> \in R /\ <<y, z>> \in R => <<x, z>> \in R
  /\ \A x, y \in A : x = y \/ <<x, y>> \in R \/ <<y, x>> \in R

Below(R, A, x) == {y \in A : <<y, x>> \in R}
Place(R, A) == [x \in A |-> Cardinality(Below(R, A, x))]

\* The number of the elements before an element is its place.
LEMMA PlacesInOrder ==
  ASSUME NEW A, IsFiniteSet(A), NEW R, Orders(R, A)
  PROVE  /\ \A x \in A : Place(R, A)[x] \in 0..(Cardinality(A) - 1)
         /\ \A x, y \in A : <<x, y>> \in R => Place(R, A)[x] < Place(R, A)[y]
         /\ \A x, y \in A : Place(R, A)[x] = Place(R, A)[y] => x = y
         /\ \A n \in 0..(Cardinality(A) - 1) : \E x \in A : Place(R, A)[x] = n
<1> DEFINE p == Place(R, A)  N == Cardinality(A)
<1>1. N \in Nat
  BY FS_CardinalityType
<1>2. ASSUME NEW x \in A
      PROVE  /\ Below(R, A, x) \subseteq A \ {x} /\ p[x] = Cardinality(Below(R, A, x))
             /\ IsFiniteSet(Below(R, A, x)) /\ p[x] \in 0..(N - 1)
  <2>1. Below(R, A, x) \subseteq A \ {x} /\ p[x] = Cardinality(Below(R, A, x))
    BY DEF Below, Place, Orders
  <2>2. IsFiniteSet(A \ {x}) /\ Cardinality(A \ {x}) = N - 1
    BY FS_RemoveElement
  <2>3. /\ IsFiniteSet(Below(R, A, x)) /\ Cardinality(Below(R, A, x)) <= N - 1
    BY <2>1, <2>2, FS_Subset
  <2>4. Cardinality(Below(R, A, x)) \in Nat
    BY <2>3, FS_CardinalityType
  <2> QED
    BY <1>1, <2>1, <2>3, <2>4
<1>3. ASSUME NEW x \in A, NEW y \in A, <<x, y>> \in R PROVE p[x] < p[y]
  <2>1. Below(R, A, x) \subseteq Below(R, A, y)
    BY <1>3 DEF Below, Orders
  <2>2. x \in Below(R, A, y) /\ x \notin Below(R, A, x)
    BY <1>3 DEF Below, Orders
  <2>3. p[x] <= p[y] /\ p[x] # p[y]
    BY <1>2, <2>1, <2>2, FS_Subset
  <2> QED
    BY <1>1, <1>2, <2>3
<1> HIDE DEF p, N
<1>4. ASSUME NEW x \in A, NEW y \in A, p[x] = p[y] PROVE x = y
  <2>1. p[x] \in Int
    BY <1>2
  <2>2. ~(<<x, y>> \in R) /\ ~(<<y, x>> \in R)
    BY <1>3, <1>4, <2>1
  <2> QED
    BY <2>2 DEF Orders
<1>5. \A n \in 0..(N - 1) : \E x \in A : p[x] = n
  <2> DEFINE T == 0..(N - 1)
  <2>1. p \in [A -> T]
    <3>1. p = [x \in A |-> p[x]]
      BY DEF p, Place
    <3> QED
      BY <1>2, <3>1
  <2>2. p \in Injection(A, T)
    <3>1. \A x, y \in A : p[x] = p[y] => x = y
      BY <1>4
    <3> QED
      BY <2>1, <3>1 DEF Injection, IsInjective
  <2>3. IsFiniteSet(T) /\ Cardinality(T) = N
    <3>1. 0 \in Int /\ N - 1 \in Int /\ (IF 0 > N - 1 THEN 0 ELSE (N - 1) - 0 + 1) = N
      BY <1>1
    <3> QED
      BY <3>1, FS_Interval
  <2> HIDE DEF T
  <2>4. p \in Surjection(A, T)
    BY <2>2, <2>3, FS_Injection DEF N
  <2> QED
    BY <2>4 DEF Surjection, T
<1> QED
  BY <1>2, <1>3, <1>4, <1>5 DEF p, N

\* The order of the groups.
Sorted(f, all) == {r \in all \X all : Before(f, r[1], r[2])}

LEMMA GroupsAreOrdered ==
  ASSUME NEW seats \in Seq(SearchedSeat), InOrder(seats), NEW f \in Filters,
         Clamped(f.quantity) \in Nat \ {0}, NEW layout
  PROVE  Orders(Sorted(f, Groups(seats, f, layout)), Groups(seats, f, layout))
<1> DEFINE all == Groups(seats, f, layout)
<1>1. Size(f) \in Nat \ {0} /\ 1 \in 1..Size(f)
  BY SizeType
<1>2. ASSUME NEW g \in all PROVE \E row, i : GroupEnds(g, seats, f, layout, row, i)
  BY <1>2, GroupsEnd
<1>3. ASSUME NEW g \in all
      PROVE  First(f, g) \in Int /\ Second(f, g) \in Int /\ g[1].number \in Int /\ g[1].row \in Int
  <2>1. PICK row, i : GroupEnds(g, seats, f, layout, row, i)
    BY <1>2
  <2>2. g \in Seq(SearchedSeat) /\ Len(g) = Size(f)
    BY <1>1, <2>1, GroupSeats
  <2>3. Cost(g) \in Int
    BY <2>2, CostType
  <2>4. g[1].row \in Int /\ g[1].number \in Int
    <3>1. g[1] \in SearchedSeat
      BY <1>1, <2>2
    <3> QED
      BY <3>1 DEF SearchedSeat
  <2> QED
    BY <2>3, <2>4 DEF First, Second, Rank
<1>4. ASSUME NEW g \in all, NEW h \in all, First(f, g) = First(f, h), Second(f, g) = Second(f, h),
             g[1].number = h[1].number
      PROVE  g = h
  <2>1. g[1].row = h[1].row
    <3>1. CASE ByRow(f)
      <4>1. Rank(f, g) = Rank(f, h)
        BY <1>4, <3>1 DEF First
      <4> QED
        BY <1>3, <4>1 DEF Rank
    <3>2. CASE ~ByRow(f)
      BY <1>4, <3>2 DEF Second
    <3> QED
      BY <3>1, <3>2
  <2>2. PICK row, i : GroupEnds(g, seats, f, layout, row, i)
    BY <1>2
  <2>3. PICK other, j : GroupEnds(h, seats, f, layout, other, j)
    BY <1>2
  <2> QED
    BY <1>1, <1>4, <2>1, <2>2, <2>3, GroupsDiffer
<1>5. ASSUME NEW a \in all, NEW b \in all
      PROVE  <<a, b>> \in Sorted(f, all)
             <=> \/ First(f, a) < First(f, b)
                 \/ First(f, a) = First(f, b) /\ Second(f, a) < Second(f, b)
                 \/ First(f, a) = First(f, b) /\ Second(f, a) = Second(f, b) /\ a[1].number < b[1].number
  <2>1. <<a, b>> \in Sorted(f, all) <=> Before(f, a, b)
    BY DEF Sorted
  <2> QED
    BY <1>3, <2>1, BeforeCompares
<1> HIDE DEF all
<1>6. \A x \in all : <<x, x>> \notin Sorted(f, all)
  BY <1>3, <1>5
<1>7. ASSUME NEW x \in all, NEW y \in all, NEW z \in all,
             <<x, y>> \in Sorted(f, all), <<y, z>> \in Sorted(f, all)
      PROVE  <<x, z>> \in Sorted(f, all)
  BY <1>3, <1>5, <1>7
<1>8. ASSUME NEW x \in all, NEW y \in all
      PROVE  x = y \/ <<x, y>> \in Sorted(f, all) \/ <<y, x>> \in Sorted(f, all)
  BY <1>3, <1>4, <1>5
<1> QED
  BY <1>6, <1>7, <1>8 DEF Orders, all

LEMMA RowsAreRows ==
  ASSUME NEW layout \in Seq(Section)
  PROVE  \A e \in ToSet(RowsOf(layout)) : e.row \in Row
<1> DEFINE n == Len(layout)  E == [section: Section, row: Row]
           ss == [i \in 1..n |->
                    [j \in DOMAIN layout[i].rows |-> [section |-> layout[i], row |-> layout[i].rows[j]]]]
<1>1. n \in Nat /\ DOMAIN layout = 1..n
  OBVIOUS
<1>2. RowsOf(layout) = FlattenSeq(ss) /\ Len(ss) = n
  BY <1>1 DEF RowsOf
<1>3. CASE n = 0
  <2>1. FlattenSeq(ss) = <<>>
    BY <1>2, <1>3 DEF FlattenSeq
  <2> QED
    BY <1>2, <2>1 DEF ToSet
<1>4. CASE n # 0
  <2>1. ASSUME NEW i \in 1..n PROVE ss[i] \in Seq(E) /\ Len(ss[i]) \in Nat
    <3>1. layout[i] \in Section
      OBVIOUS
    <3>2. layout[i].rows \in Seq(Row)
      BY <3>1 DEF Section
    <3> DEFINE r == layout[i].rows  S == Section
    <3>3. r \in Seq(Row) /\ layout[i] \in S /\ Len(r) \in Nat /\ DOMAIN r = 1..Len(r)
      BY <3>1, <3>2
    <3>4. ss[i] = [j \in 1..Len(r) |-> [section |-> layout[i], row |-> r[j]]]
      BY <3>3
    <3> HIDE DEF r, ss, S
    <3>5. \A j \in 1..Len(r) : [section |-> layout[i], row |-> r[j]] \in E
      BY <3>3 DEF S
    <3> HIDE DEF E
    <3> QED
      BY <3>3, <3>4, <3>5
  <2> DEFINE v == [i \in 1..n |-> Len(ss[i])]
  <2>2. ss = [i \in 1..n |-> ss[i]]
    OBVIOUS
  <2> HIDE DEF n, ss, E
  <2>3. \A i \in 1..n : v[i] \in Nat
    BY <2>1
  <2> HIDE DEF v
  <2>4. PICK off : IsSums(off, v, n)
    BY <1>1, <2>3, SumsExist
  <2>5. FlattenSeq(ss) \in Seq(E)
    <3>1. n \in Nat \ {0}
      BY <1>1, <1>4
    <3>2. \A i \in 1..n : ss[i] \in Seq(E)
      BY <2>1
    <3> QED
      BY <2>2, <2>4, <3>1, <3>2, FlattenPlaces DEF v
  <2>6. \A e \in ToSet(FlattenSeq(ss)) : e \in E
    BY <2>5 DEF ToSet
  <2> QED
    BY <1>2, <2>6 DEF E
<1> QED
  BY <1>3, <1>4

\* The list that find returns, of all groups.
IsBest(best, all, f, limit) ==
  /\ Len(best) \in Nat /\ DOMAIN best = 1..Len(best)
  /\ \A n \in DOMAIN best : best[n] \in all
  /\ \A g \in all : \/ \E n \in DOMAIN best : best[n] = g
                    \/ Len(best) = limit /\ \A n \in DOMAIN best : Before(f, best[n], g)

LEMMA FindsTheBest ==
  ASSUME NEW seats \in Seq(SearchedSeat), InOrder(seats), NEW f \in Filters,
         Clamped(f.quantity) \in Nat \ {0}, NEW layout, SearchLimit \in Nat
  PROVE  IsBest(Find(seats, f, layout), Groups(seats, f, layout), f, SearchLimit)
<1> DEFINE all == Groups(seats, f, layout)  R == Sorted(f, all)  p == Place(R, all)
           N == Cardinality(all)  M == Min({N, SearchLimit})
           best == [n \in 1..M |->
                      CHOOSE g \in all : Cardinality({h \in all : Before(f, h, g)}) = n - 1]
<1>1. Find(seats, f, layout) = best
  BY DEF Find
<1>2. IsFiniteSet(all) /\ N \in Nat
  BY GroupsAreFinite, FS_CardinalityType
<1>3. Orders(R, all)
  BY GroupsAreOrdered
<1>4. ASSUME NEW g \in all
      PROVE  p[g] = Cardinality({h \in all : Before(f, h, g)})
  <2>1. Below(R, all, g) = {h \in all : Before(f, h, g)}
    BY <1>4 DEF Below, Sorted
  <2> QED
    BY <1>4, <2>1 DEF Place
<1>5. \A x, y \in all : <<x, y>> \in R => Before(f, x, y)
  BY DEF Sorted
<1> HIDE DEF all, R
<1>6. /\ \A x \in all : p[x] \in 0..(N - 1)
      /\ \A x, y \in all : <<x, y>> \in R => p[x] < p[y]
      /\ \A x, y \in all : p[x] = p[y] => x = y
      /\ \A n \in 0..(N - 1) : \E x \in all : p[x] = n
  BY <1>2, <1>3, PlacesInOrder
<1>7. M = (IF N <= SearchLimit THEN N ELSE SearchLimit) /\ M \in Nat
  BY <1>2, SmallestOfTwo
<1> HIDE DEF p, N, M
<1>8. Len(best) = M /\ DOMAIN best = 1..M
  BY <1>7
<1>9. ASSUME NEW n \in 1..M PROVE best[n] \in all /\ p[best[n]] = n - 1
  <2>1. n - 1 \in 0..(N - 1)
    BY <1>2, <1>7
  <2>2. PICK x \in all : p[x] = n - 1
    BY <1>6, <2>1
  <2>3. \E g \in all : Cardinality({h \in all : Before(f, h, g)}) = n - 1
    BY <1>4, <2>2
  <2>4. best[n] = CHOOSE g \in all : Cardinality({h \in all : Before(f, h, g)}) = n - 1
    OBVIOUS
  <2> HIDE DEF best
  <2>5. best[n] \in all /\ Cardinality({h \in all : Before(f, h, best[n])}) = n - 1
    BY <2>3, <2>4
  <2> QED
    BY <1>4, <2>5
<1> HIDE DEF best
<1>10. ASSUME NEW g \in all
       PROVE  \/ \E n \in 1..M : best[n] = g
              \/ M = SearchLimit /\ \A n \in 1..M : Before(f, best[n], g)
  <2>1. p[g] \in 0..(N - 1)
    BY <1>6
  <2>2. CASE p[g] < M
    <3>1. p[g] + 1 \in 1..M /\ (p[g] + 1) - 1 = p[g]
      BY <1>7, <2>1, <2>2
    <3>2. best[p[g] + 1] = g
      <4>1. best[p[g] + 1] \in all /\ p[best[p[g] + 1]] = p[g]
        BY <1>9, <3>1
      <4> QED
        BY <1>6, <4>1
    <3> QED
      BY <3>1, <3>2
  <2>3. CASE ~(p[g] < M)
    <3>1. M = SearchLimit
      BY <1>2, <1>7, <2>1, <2>3
    <3>2. ASSUME NEW n \in 1..M PROVE Before(f, best[n], g)
      <4>1. best[n] \in all /\ p[best[n]] = n - 1 /\ p[best[n]] < p[g]
        BY <1>7, <1>9, <2>1, <2>3
      <4>2. best[n] # g /\ ~(<<g, best[n]>> \in R)
        BY <1>6, <2>1, <4>1
      <4> QED
        BY <1>3, <1>5, <4>1, <4>2 DEF Orders
    <3> QED
      BY <3>1, <3>2
  <2> QED
    BY <2>2, <2>3
<1> QED
  BY <1>1, <1>7, <1>8, <1>9, <1>10 DEF IsBest, all

LEMMA FoundSitTogether ==
  ASSUME NEW seats \in Seq(SearchedSeat), InOrder(seats), NEW f \in Filters,
         Clamped(f.quantity) \in Nat \ {0}, call.layout \in Seq(Section),
         NEW g \in Groups(seats, f, call.layout)
  PROVE  SitTogether(g)
<1>1. Size(f) \in Nat \ {0} /\ 1 \in 1..Size(f)
  BY SizeType
<1>2. PICK row, i : GroupEnds(g, seats, f, call.layout, row, i)
  BY GroupsEnd
<1> DEFINE q == Size(f)  aisles == AislesFor(call.layout, row)
<1>3. /\ g \in Seq(SearchedSeat) /\ Len(g) = q
      /\ \A k \in 1..q : g[k].row = row /\ Usable(g[k], f)
      /\ \A k \in 2..q : ~Broken(g[k - 1], g[k], aisles)
  BY <1>1, <1>2, GroupSeats
<1>4. ASSUME NEW e \in RowOf([row |-> row]), ~e.label.padded PROVE e.aisles \subseteq aisles
  <2>1. PICK r \in ToSet(RowsOf(call.layout)) : r.row = e /\ r.row.label.text = row
    BY <1>4 DEF RowOf
  <2>2. r.row \in Row
    BY RowsAreRows
  <2>3. r.row.label = Plain(row)
    <3>1. r.row.label \in Label
      BY <2>2 DEF Row
    <3>2. r.row.label = [text |-> r.row.label.text, padded |-> r.row.label.padded]
      BY <3>1 DEF Label
    <3> QED
      BY <1>4, <2>1, <3>1, <3>2 DEF Plain, Label
  <2> QED
    BY <2>1, <2>3 DEF AislesFor
<1> HIDE DEF q, aisles
<1>5. ASSUME NEW k \in DOMAIN g
      PROVE  /\ g[k].free
             /\ k > 1 => /\ g[k].row = g[1].row /\ g[k].number = g[k - 1].number + 1
                         /\ \A e \in RowOf(g[k]) : ~e.label.padded => g[k - 1].number \notin e.aisles
  <2>1. k \in 1..q
    BY <1>3
  <2>2. g[k].free /\ g[k].row = row /\ g[1].row = row
    BY <1>1, <1>3, <2>1 DEF Usable, q
  <2>3. ASSUME k > 1
        PROVE  /\ g[k].number = g[k - 1].number + 1
               /\ \A e \in RowOf(g[k]) : ~e.label.padded => g[k - 1].number \notin e.aisles
    <3>1. k \in 2..q
      BY <1>1, <2>1, <2>3 DEF q
    <3>2. g[k].number = g[k - 1].number + 1 /\ g[k - 1].number \notin aisles
      BY <1>3, <3>1 DEF Broken
    <3>3. RowOf(g[k]) = RowOf([row |-> row])
      BY <2>2 DEF RowOf
    <3> QED
      BY <1>4, <3>2, <3>3
  <2> QED
    BY <2>2, <2>3
<1> QED
  BY <1>5 DEF SitTogether

\* What SearchIsExact asks of a run of seats that is not to be left out.
Stands(group, f, size) ==
  /\ \A k \in DOMAIN group : Usable(group[k], f)
  /\ \A k \in 2..size : /\ group[k].row = group[1].row
                        /\ group[k].number = group[k - 1].number + 1
                        /\ \A row \in RowOf(group[1]) : group[k - 1].number \notin row.aisles

LEMMA StandingSeatsAreFound ==
  ASSUME NEW seats \in Seq(SearchedSeat), InOrder(seats), NEW f \in Filters, f.together,
         Clamped(f.quantity) \in Nat \ {0}, NEW i \in 1..(Len(seats) - Clamped(f.quantity) + 1),
         Stands(SubSeq(seats, i, i + Clamped(f.quantity) - 1), f, Clamped(f.quantity))
  PROVE  SubSeq(seats, i, i + Clamped(f.quantity) - 1) \in Groups(seats, f, call.layout)
<1> DEFINE q == Clamped(f.quantity)  g == SubSeq(seats, i, i + q - 1)
           row == seats[i].row  aisles == AislesFor(call.layout, row)  m == Len(seats)
<1>1. Size(f) = q /\ q \in Nat \ {0} /\ m \in Nat /\ DOMAIN seats = 1..m
  BY DEF Size
<1>2. i \in 1..m /\ i + q - 1 <= m /\ \A k \in 1..q : i + k - 1 \in 1..m
  <2> HIDE DEF q, m
  <2>1. i \in 1..(m - q + 1)
    BY DEF q, m
  <2> QED
    BY <1>1, <2>1
<1>3. Len(g) = q /\ DOMAIN g = 1..q /\ \A k \in 1..q : g[k] = seats[i + k - 1]
  <2> HIDE DEF q
  <2> QED
    BY <1>1, <1>2, Stretch
<1>4. Stands(g, f, q)
  OBVIOUS
<1> HIDE DEF q, g, m
<1>5. 1 \in 1..q /\ g[1] = seats[i] /\ i + 1 - 1 = i
  BY <1>1, <1>2, <1>3
<1>6. ASSUME NEW k \in 1..q
      PROVE  i + k - 1 \in DOMAIN seats /\ Usable(seats[i + k - 1], f) /\ seats[i + k - 1].row = row
  <2>1. g[k].row = g[1].row
    <3>1. k = 1 \/ k \in 2..q
      BY <1>1
    <3> QED
      BY <1>4, <3>1 DEF Stands
  <2> QED
    BY <1>1, <1>2, <1>3, <1>4, <1>5, <2>1 DEF Stands
<1>7. ASSUME NEW k \in 2..q PROVE ~Broken(seats[i + k - 2], seats[i + k - 1], aisles)
  <2>1. k \in 1..q /\ k - 1 \in 1..q /\ i + (k - 1) - 1 = i + k - 2
    BY <1>1, <1>2
  <2>2. g[k] = seats[i + k - 1] /\ g[k - 1] = seats[i + k - 2]
    BY <1>3, <2>1
  <2>3. /\ g[k].number = g[k - 1].number + 1
        /\ \A e \in RowOf(g[1]) : g[k - 1].number \notin e.aisles
    BY <1>4 DEF Stands
  <2>4. g[k - 1].number \notin aisles
    <3> SUFFICES ASSUME g[k - 1].number \in aisles PROVE FALSE
      OBVIOUS
    <3>1. PICK e \in ToSet(RowsOf(call.layout)) :
            e.row.label = Plain(row) /\ g[k - 1].number \in e.row.aisles
      BY DEF AislesFor
    <3>2. e.row.label.text = g[1].row
      BY <1>5, <3>1 DEF Plain
    <3>3. e.row \in RowOf(g[1])
      BY <3>2 DEF RowOf
    <3> QED
      BY <2>3, <3>1, <3>3
  <2> QED
    BY <2>2, <2>3, <2>4 DEF Broken
<1> QED
  BY <1>1, <1>2, <1>6, <1>7, NeighboursAreAGroup DEF g, q, m

\* Every group of the search sits together, and no run of seats that does is
\* left out unless better ones fill the list (_runs, find).
THEOREM SearchFinds == CatalogueSpec => []SearchIsExact
<1>1. SearchServed => SearchIsExact
  <2> SUFFICES ASSUME SearchServed, call.of = "search", answer # NoAnswer PROVE SearchIsExact
    BY DEF SearchIsExact, Answered
  <2> DEFINE f == Resolve(call.explicit, call.query, call.ai, call.default).filters
             seats == call.seats  size == Clamped(f.quantity)
             best == Find(seats, f, call.layout)  all == Groups(seats, f, call.layout)
  <2>1. call \in SearchCalls /\ answer = [filters |-> f, groups |-> best]
    BY DEF SearchServed, Served
  <2>2. /\ call.explicit \in Filters \cup {NoFilters} /\ call.ai.parsed \in Filters \cup {NoFilters}
        /\ call.default \in Filters /\ seats \in Seq(SearchedSeat) /\ InOrder(seats)
        /\ call.layout \in Seq(Section)
    <3> DEFINE F == Filters  S == Seq(SearchedSeat)  L == Seq(Section)
    <3>1. /\ call \in [of: {"search"}, explicit: F \cup {NoFilters}, query: BOOLEAN,
                       ai: [enabled: BOOLEAN, parsed: F \cup {NoFilters}, accepted: BOOLEAN],
                       default: F, seats: S, layout: L]
          /\ InOrder(call.seats)
      BY <2>1, CatalogueAssumption DEF CatalogueAssumption
    <3> HIDE DEF F, S, L
    <3> QED
      BY <3>1 DEF F, S, L
  <2>3. f \in Filters
    BY <2>2 DEF Resolve
  <2> HIDE DEF f
  <2>4. size \in Nat \ {0} /\ SearchLimit \in Nat
    <3>1. f.quantity \in Int /\ MaxQuantity \in Nat \ {0} /\ SearchLimit \in Nat
      BY <2>3, CatalogueAssumption DEF Filters, CatalogueAssumption
    <3>2. Min({f.quantity, MaxQuantity}) \in Int
      BY <3>1, SmallestOfTwo
    <3> QED
      BY <3>1, <3>2, LargerOfTwo DEF Clamped
  <2>5. IsBest(best, all, f, SearchLimit)
    BY <2>2, <2>3, <2>4, FindsTheBest
  <2>6. \A n \in DOMAIN best : SitTogether(best[n])
    BY <2>2, <2>3, <2>4, <2>5, FoundSitTogether DEF IsBest
  <2>7. ASSUME f.together, NEW i \in 1..(Len(seats) - size + 1),
               Stands(SubSeq(seats, i, i + size - 1), f, size)
        PROVE  LET g == SubSeq(seats, i, i + size - 1) IN
               \/ \E n \in DOMAIN best : best[n] = g
               \/ Len(best) = SearchLimit /\ \A n \in DOMAIN best : Before(f, best[n], g)
    <3>1. SubSeq(seats, i, i + size - 1) \in all
      BY <2>2, <2>3, <2>4, <2>7, StandingSeatsAreFound
    <3> QED
      BY <2>5, <3>1 DEF IsBest
  <2>8. answer.filters = f /\ answer.groups = best
    BY <2>1
  <2> HIDE DEF best, all
  <2> QED
    BY <2>6, <2>7, <2>8 DEF SearchIsExact, Stands
<1> QED
  BY <1>1, CatalogueServes, PTL DEF CatalogueInv
=============================================================================

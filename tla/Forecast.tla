------------------------------ MODULE Forecast ------------------------------
(***************************************************************************)
(* services/forecast.py as operators.  Time is in hours; rates and dates   *)
(* are fractions, which the code's floats and dates come near.             *)
(***************************************************************************)
EXTENDS Pricing  \* Rounded

CONSTANTS
  MinBookings,  \* MIN_BOOKINGS
  RecentWindow, \* RECENT_WINDOW, 48 hours
  NoForecast    \* None

\* _rate_per_day, per hour: over an hour at least.
Rate(count, start, now) == [num |-> count, den |-> Max({now - start, 1})]

\* Mutant: the recent bookings are spread over the whole sale.
PaceSinceFirst(times, now) ==
  LET ids == DOMAIN times  first == Min({times[i] : i \in ids})
      recent == {i \in ids : now - times[i] <= RecentWindow} IN
  IF Cardinality(recent) >= MinBookings THEN Rate(Cardinality(recent), first, now)
  ELSE Rate(Cardinality(ids), first, now)

\* The pace of the last two days if enough was sold in them, and else of all.
Pace(times, now) ==
  LET ids == DOMAIN times  first == Min({times[i] : i \in ids})
      recent == {i \in ids : now - times[i] <= RecentWindow} IN
  IF Cardinality(recent) >= MinBookings
  THEN Rate(Cardinality(recent), Max({first, now - RecentWindow}), now)
  ELSE Rate(Cardinality(ids), first, now)

NoPercent == -1   \* None of projected_percent_sold

\* What will be sold when the event starts, in tenths of a percent of the seats.
Projected(booked, total, rate, hours) ==
  LET sold == Min({booked * rate.den + rate.num * Max({hours, 0}), total * rate.den}) IN
  Rounded(1000 * sold, total * rate.den)

\* estimate_sellout.  sellout is in hours from now.
Estimate(times, total, booked, starts, now) ==
  LET rate == Pace(times, now)
      remaining == Max({total - booked, 0})
      sellout == [num |-> remaining * rate.den, den |-> rate.num] IN
  IF Cardinality(DOMAIN times) < MinBookings \/ total <= 0 THEN NoForecast
  ELSE IF remaining = 0
       THEN [rate |-> rate, soldOut |-> TRUE, at |-> [num |-> 0, den |-> 1], percent |-> 1000]
  ELSE IF sellout.num <= (starts - now) * sellout.den
       THEN [rate |-> rate, soldOut |-> TRUE, at |-> sellout, percent |-> NoPercent]
  ELSE [rate |-> rate, soldOut |-> FALSE, at |-> [num |-> 0, den |-> 1],
        percent |-> Projected(booked, total, rate, starts - now)]
=============================================================================

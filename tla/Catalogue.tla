------------------------------ MODULE Catalogue -----------------------------
(***************************************************************************)
(* The pure computations around the seats: prices, layouts, seat search,   *)
(* the sales forecast and the token bucket.  A behaviour is one call: its  *)
(* input is picked, and a step computes the answer.                        *)
(***************************************************************************)
EXTENDS Pricing, SeatSearch, Forecast, RateLimit

CONSTANTS
  PriceCalls,    \* [of, base, event, sold]
  LayoutCalls,   \* [of, layout]
  TierCalls,     \* [of, tiers, perRow, labels]
  SearchCalls,   \* [of, explicit, query, ai, default, seats, layout]
  ForecastCalls, \* [of, times, total, booked, starts, now]
  LimitCalls,    \* [of, calls]
  GuessCalls,    \* [of, steps, limit, inFlight]
  NoAnswer

\* EventCreate: a price and a demand factor are no less than 0, the ceiling is
\* no less than 1; and the seats sold are seats of the event.
PricedEvent == [enabled: BOOLEAN, total: Nat, factor: Nat, surge: {n \in Nat : n >= 100}]

\* As many tiers as there may be sections, and so few letters (26) and seats in
\* a row (50) that their seats are not too many.
Lettered(c) ==
  /\ Len(c.tiers) <= MaxSections /\ Len(c.labels) * c.perRow <= MaxSeats
  /\ \A i, j \in DOMAIN c.labels : i # j => c.labels[i] # c.labels[j]

\* Seats as the search's query orders them, by row and number, with their prices now.
SearchedSeat == [row: Nat, number: Nat, section: Text, free: BOOLEAN, price: Nat]
InOrder(seats) ==
  \A i, j \in DOMAIN seats : i < j =>
    \/ seats[i].row < seats[j].row
    \/ seats[i].row = seats[j].row /\ seats[i].number < seats[j].number

\* SeatFilters. Any quantity, since find clamps it.
Filters == [quantity: Int, together: BOOLEAN, min: Int, max: Int, section: Text \cup {Unset},
            prefer: {"none", "front", "middle", "back"}]

\* Only a password that was compared is charged, and the threads of the pool
\* limit how many are being compared at a time.
GuessStep == [kind: {"peek", "charge"}, now: Int]
Orderly(c) ==
  LET state == Guessing(c.steps, c.limit) IN
  \A i \in DOMAIN state : state[i].pending \in 0..c.inFlight

ASSUME CatalogueAssumption ==
  /\ PriceCalls \subseteq {c \in [of: {"price"}, base: Nat, event: PricedEvent, sold: Nat] :
                             c.sold <= c.event.total}
  /\ LayoutCalls \subseteq [of: {"layout"}, layout: Seq(Section)]
  /\ TierCalls \subseteq {c \in [of: {"tiers"}, tiers: Seq([rows: 1..MaxRows, price: 0..MaxPrice]),
                                perRow: 1..MaxRowSeats, labels: Seq(Text)] : Lettered(c)}
  /\ MaxQuantity \in Nat \ {0} /\ SearchLimit \in Nat
  /\ SearchCalls \subseteq {c \in [of: {"search"}, explicit: Filters \cup {NoFilters}, query: BOOLEAN,
                                   ai: [enabled: BOOLEAN, parsed: Filters \cup {NoFilters},
                                        accepted: BOOLEAN],
                                   default: Filters, seats: Seq(SearchedSeat), layout: Seq(Section)] :
                              InOrder(c.seats)}
  /\ ForecastCalls \subseteq [of: {"forecast"}, times: Seq(Int), total: Nat, booked: Nat,
                              starts: Int, now: Int]
  /\ MinBookings \in Nat \ {0} /\ RecentWindow \in Nat \ {0}
  /\ LimitCalls \subseteq [of: {"limit"}, calls: Seq([limit: Limit, cost: {1}, now: Int]) \ {<<>>}]
  /\ GuessCalls \subseteq {c \in [of: {"guess"}, steps: Seq(GuessStep) \ {<<>>}, limit: Limit,
                                 inFlight: Nat \ {0}] : Orderly(c)}

VARIABLES call, answer
vars == <<call, answer>>

CatalogueInit ==
  /\ answer = NoAnswer
  /\ \/ call \in PriceCalls \/ call \in LayoutCalls \/ call \in TierCalls
     \/ call \in SearchCalls \/ call \in ForecastCalls
     \/ call \in LimitCalls \/ call \in GuessCalls

Answer(kind, value) == call.of = kind /\ answer = NoAnswer /\ answer' = value /\ UNCHANGED call

\* GET /events/{id}: what the event page shows of the prices.
ShowPrice ==
  Answer("price", [now |-> PriceNow(NoPrice, call.base, call.event, call.sold),
                   state |-> PricingState({call.base}, call.event, call.sold)])

\* POST /organizer/events: the seats that are inserted, with a layout or tiers.
CreateEvent == Answer("layout", IF Valid(call.layout) THEN Expand(call.layout) ELSE <<>>)

CreateEventFromTiers ==
  LET layout == FromTiers(call.tiers, call.perRow, call.labels) IN
  Answer("tiers", IF RowsWanted(call.tiers) <= Len(call.labels) /\ Valid(layout)
                  THEN Expand(layout) ELSE <<>>)

\* POST /events/{id}/seats/search
SearchSeats ==
  LET filters == Resolve(call.explicit, call.query, call.ai, call.default).filters IN
  Answer("search", [filters |-> filters, groups |-> Find(call.seats, filters, call.layout)])

\* GET /organizer/events/{id}/forecast
ForecastEvent ==
  Answer("forecast", Estimate(call.times, call.total, call.booked, call.starts, call.now))

Throttle == Answer("limit", AllowedCalls(call.calls))

Guess == Answer("guess", Guessing(call.steps, call.limit)[Len(call.steps) + 1])

CatalogueNext ==
  \/ ShowPrice \/ CreateEvent \/ CreateEventFromTiers \/ SearchSeats
  \/ ForecastEvent \/ Throttle \/ Guess

CatalogueSpec == CatalogueInit /\ [][CatalogueNext]_vars

----------------------------------------------------------------------------
(* Properties                                                              *)

Answered(kind) == call.of = kind /\ answer # NoAnswer

\* "Prices rise as inventory depletes": the next sale never makes a seat
\* cheaper, and the price stays between the base and the ceiling, up to the
\* rounding (pricing.py).  "N seats left at this price" is exact if the seat it
\* is computed for has a price: that is the same until so many more are sold
\* and higher then, and without a number it stays the same to the last seat
\* (_seats_until_increase).  A free seat stays free, whatever the number says.
PriceFollowsDemand ==
  Answered("price") =>
    LET base == call.base  e == call.event  until == answer.state.until
        rest == e.total - call.sold
        later(k) == PriceAfter(base, e, call.sold + k) IN
    /\ answer.now <= later(1)
    /\ answer.now >= base - RoundTo \div 2
    /\ 100 * answer.now <= base * e.surge + 100 * (RoundTo \div 2)
    /\ IF base = 0 \/ until = NoIncrease THEN \A k \in 1..rest : later(k) = answer.now
       ELSE /\ until \in 1..rest /\ later(until) > answer.now
            /\ \A k \in 1..(until - 1) : later(k) = answer.now

\* The seats of a new event satisfy the UNIQUE(event_id, row_label,
\* seat_number) of the seats table, which a validated layout is to guarantee
\* ("would hit an IntegrityError mid-insert", layout.py); and price tiers
\* within the limits of EventCreate that have no more rows than there are
\* letters always give an event, with all seats of every tier at its price.
SeatsAreAsPlanned ==
  /\ Answered("layout") \/ Answered("tiers") =>
       \A i, j \in DOMAIN answer :
         i # j => <<answer[i].row, answer[i].number>> # <<answer[j].row, answer[j].number>>
  /\ Answered("tiers") /\ RowsWanted(call.tiers) <= Len(call.labels) =>
       \A i \in DOMAIN call.tiers :
         Cardinality({k \in DOMAIN answer : answer[k].section = i /\ answer[k].price = call.tiers[i].price})
         = call.tiers[i].rows * call.perRow

\* The layout row a seat stands in.
RowOf(seat) == {e.row : e \in {e \in ToSet(RowsOf(call.layout)) : e.row.label.text = seat.row}}

\* The seats of the group are free, next to each other and on one side of
\* every aisle of their row, for labels without blanks around them.
SitTogether(group) ==
  \A i \in DOMAIN group :
    /\ group[i].free
    /\ i > 1 => /\ group[i].row = group[1].row
                /\ group[i].number = group[i - 1].number + 1
                /\ \A row \in RowOf(group[i]) :
                     ~row.label.padded => group[i - 1].number \notin row.aisles

\* "Seats 5 and 6 with a walkway between them aren't together": every answer
\* sits together; and nothing is left out that does: every run of free seats
\* of the right size and prices that no aisle parts is an answer, or comes
\* after all answers when the limit cuts the list off (_runs, find).
SearchIsExact ==
  Answered("search") =>
    LET f == answer.filters  seats == call.seats  size == Clamped(f.quantity)
        from(i) == SubSeq(seats, i, i + size - 1) IN
    /\ \A g \in DOMAIN answer.groups : SitTogether(answer.groups[g])
    /\ f.together =>
         \A i \in 1..(Len(seats) - size + 1) :
           /\ \A k \in DOMAIN from(i) : Usable(from(i)[k], f)
           /\ \A k \in 2..size : /\ from(i)[k].row = from(i)[1].row
                                 /\ from(i)[k].number = from(i)[k - 1].number + 1
                                 /\ \A row \in RowOf(from(i)[1]) : from(i)[k - 1].number \notin row.aisles
           => \/ \E g \in DOMAIN answer.groups : answer.groups[g] = from(i)
              \/ /\ Len(answer.groups) = SearchLimit
                 /\ \A g \in DOMAIN answer.groups : Before(f, answer.groups[g], from(i))

\* "A launch-day spike shouldn't set the pace": once enough was sold in the
\* last two days, what was sold before does not matter.  A projected date is
\* reached at that pace before the event; without one that pace leaves seats,
\* and the percentage is what it sells by the event up to half a tenth, so that
\* 100.0 means that less than one seat in 2000 is left (estimate_sellout).
ForecastFollowsPace ==
  Answered("forecast") /\ answer # NoForecast =>
    LET recent == {i \in DOMAIN call.times : call.now - call.times[i] <= RecentWindow}
        all == call.total * answer.rate.den
        sold == call.booked * answer.rate.den + answer.rate.num * Max({call.starts - call.now, 0}) IN
    /\ recent # DOMAIN call.times /\ Cardinality(recent) >= MinBookings =>
         answer.rate.num * RecentWindow = Cardinality(recent) * answer.rate.den
    /\ IF answer.soldOut
       THEN /\ answer.at.num = 0 \/ answer.at.num <= (call.starts - call.now) * answer.at.den
            /\ call.booked * answer.rate.den * answer.at.den + answer.rate.num * answer.at.num
               >= call.total * answer.rate.den * answer.at.den
       ELSE /\ sold < all
            /\ 2 * (1000 * sold) - all <= 2 * (all * answer.percent)
            /\ 2 * (all * answer.percent) <= 2 * (1000 * sold) + all

\* The calls that are allowed: the burst and the refill of the time that has
\* passed, in whatever order the callers' clocks were read, also when calls
\* with different limits share the bucket; and a client that waits as long as
\* it is told, and alone, is allowed then ("Retry-After ... well-behaved
\* clients read it", enforce).
BucketKeepsItsRate ==
  Answered("limit") =>
    LET limits == {call.calls[i].limit : i \in DOMAIN call.calls}
        bucket == BucketsOf(call.calls) IN
    /\ Cardinality(answer) <= Max({l.capacity : l \in limits})
                              + Max({l.refill : l \in limits}) * Forward(call.calls)
    /\ \A i \in DOMAIN call.calls \ answer :
         LET c == call.calls[i] IN
         Allowed(bucket[i + 1], c.limit, c.cost,
                 c.now + RetryAfter(bucket[i], c.limit, c.cost, c.now))

\* The wrong passwords that are compared: the burst and the refill, and for
\* every token of them as many more as are being compared at a time, since
\* the peek does not take the token (login).
GuessesAreBounded ==
  Answered("guess") =>
    LET tokens == call.limit.capacity + call.limit.refill * Forward(call.steps) IN
    answer.tried <= tokens + (call.inFlight - 1) * (tokens - call.limit.capacity + 1)
=============================================================================

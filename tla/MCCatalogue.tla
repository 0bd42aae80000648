----------------------------- MODULE MCCatalogue ----------------------------
(* Inputs of Catalogue for TLC. *)
EXTENDS Catalogue, TLC

\* Eight seats and quarters: the code's floats are exact.
MCEvents == [enabled: BOOLEAN, total: {0, 1, 4, 8}, factor: {0, 25, 50, 200}, surge: {100, 125, 200, 300}]
MCPriceCalls ==
  {c \in [of: {"price"}, base: {0, 4, 10, 45, 100, 250}, event: MCEvents, sold: 0..8] :
     c.sold <= c.event.total}

MCLabels == {[text |-> t, padded |-> p] : t \in {1, 2}, p \in BOOLEAN}
MCRows == [label: MCLabels, seats: {1, 4, 5}, aisles: {{}, {1}, {3}}]
MCSections == [name: {1, 2}, price: {10, 20},
               rows: {<<a>> : a \in MCRows} \cup {<<a, b>> : a \in MCRows, b \in {r \in MCRows : r.aisles = {}}}]
MCLayouts == {<<s>> : s \in MCSections}
             \cup {<<s, t>> : s \in {s \in MCSections : Len(s.rows) = 1},
                              t \in {t \in MCSections : Len(t.rows) = 1}}
MCLayoutCalls == [of: {"layout"}, layout: MCLayouts]

MCTierCalls ==
  [of: {"tiers"}, tiers: UNION {[1..n -> [rows: 1..2, price: {10, 20}]] : n \in 0..3},
   perRow: 1..2, labels: {<<1, 2, 3>>}]

\* Two rows of four seats, the second one dearer.
MCSeat(row, n, free) ==
  [row |-> row, number |-> n, section |-> row, price |-> 10 * row, free |-> free]
MCSeats(taken) ==
  [i \in 1..8 |-> MCSeat(IF i <= 4 THEN 1 ELSE 2, IF i <= 4 THEN i ELSE i - 4, i \notin taken)]
MCVenue(aisles, padded) ==
  <<[name |-> 1, price |-> 10,
     rows |-> <<[label |-> [text |-> 1, padded |-> padded], seats |-> 4, aisles |-> aisles]>>],
    [name |-> 2, price |-> 20,
     rows |-> <<[label |-> Plain(2), seats |-> 4, aisles |-> {2}]>>]>>
MCFilters ==
  [quantity: 1..3, together: BOOLEAN, min: {Unset}, max: {Unset, 10},
   section: {Unset, 2}, prefer: {"none", "back"}]
MCDefault == [quantity |-> 1, together |-> TRUE, min |-> Unset, max |-> Unset,
              section |-> Unset, prefer |-> "none"]
MCNoAi == [enabled |-> FALSE, parsed |-> NoFilters, accepted |-> FALSE]
MCSearchCalls ==
  {[of |-> "search", explicit |-> f, query |-> FALSE, ai |-> MCNoAi, default |-> MCDefault,
    seats |-> MCSeats(taken), layout |-> MCVenue(aisles, padded)] :
     f \in MCFilters, taken \in {t \in SUBSET (1..8) : Cardinality(t) <= 2},
     aisles \in {{}, {1, 3}}, padded \in BOOLEAN}
  \cup
  {[of |-> "search", explicit |-> NoFilters, query |-> q, default |-> MCDefault,
    ai |-> [enabled |-> e, parsed |-> p, accepted |-> a],
    seats |-> MCSeats({}), layout |-> MCVenue({}, FALSE)] :
     q \in BOOLEAN, e \in BOOLEAN, a \in BOOLEAN, p \in {NoFilters, [MCDefault EXCEPT !.quantity = 2]}}

MCForecastCalls ==
  UNION {[of: {"forecast"}, times: {t \in [1..n -> 0..9] : \A i \in 2..n : t[i - 1] <= t[i]},
          total: {0, 4, 20}, booked: {n}, starts: {5, 12, 40}, now: {9}] : n \in 1..5}
  \* Short of everything by one seat in 4221: 100.0 without a date.
  \cup {[of |-> "forecast", times |-> <<0, 1, 2, 3, 4>>, total |-> 21, booked |-> 5,
         starts |-> 844, now |-> 201]}

MCLimits == {[capacity |-> 3, refill |-> 2], [capacity |-> 1, refill |-> 1]}
MCLimitCalls ==
  [of: {"limit"}, calls: [1..5 -> [limit: MCLimits, cost: {1}, now: 0..2]]]

\* Up to two passwords are compared at a time.
MCSteps == {s \in [1..7 -> [kind: {"peek", "charge"}, now: 0..1]] : \A i \in 2..7 : s[i - 1].now <= s[i].now}
MCGuessCalls ==
  {c \in [of: {"guess"}, steps: MCSteps,
          limit: {[capacity |-> 2, refill |-> 1], [capacity |-> 1, refill |-> 1]}, inFlight: {2}] : Orderly(c)}
=============================================================================

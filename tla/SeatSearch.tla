----------------------------- MODULE SeatSearch -----------------------------
(***************************************************************************)
(* services/seat_search.py and the choice of filters in routers/search.py. *)
(* A seat is [row, number, section, free, price]; rows are numbered from   *)
(* the stage, as their letters are.                                        *)
(***************************************************************************)
EXTENDS Layout

CONSTANTS
  MaxQuantity,  \* quantity is clamped to it
  SearchLimit,  \* limit, 12
  NoFilters     \* no filters in the request, or None from parse_query

\* One filter that is not set.
Unset == -1

\* _resolve_filters: explicit filters win; the model's answer is used when the
\* query could be interpreted and SeatFilters accepts it.
Resolve(explicit, query, ai, default) ==
  IF explicit # NoFilters THEN [filters |-> explicit, interpreted |-> FALSE]
  ELSE IF query /\ ai.enabled /\ ai.parsed # NoFilters /\ ai.accepted
       THEN [filters |-> ai.parsed, interpreted |-> TRUE]
       ELSE [filters |-> default, interpreted |-> FALSE]

\* _aisle_positions, looked up for a row.  The key is the label of the layout
\* with its blanks, the seat's is without.
AislesFor(layout, row) ==
  UNION {e.row.aisles : e \in {e \in ToSet(RowsOf(layout)) : e.row.label = Plain(row)}}

Broken(prev, seat, aisles) == seat.number # prev.number + 1 \/ prev.number \in aisles

\* Mutant: a run starts anew after every group it yields.
RunsApart(seats, quantity, aisles) ==
  LET length[i \in 1..Len(seats)] ==
        IF i = 1 THEN 1
        ELSE IF Broken(seats[i - 1], seats[i], aisles) \/ length[i - 1] = quantity THEN 1
        ELSE length[i - 1] + 1
  IN {SubSeq(seats, i - quantity + 1, i) : i \in {i \in 1..Len(seats) : length[i] >= quantity}}

\* _runs: the loop over the free seats of a row.  run is as long as length[i]
\* when seat i was appended, and ends with it.
Runs(seats, quantity, aisles) ==
  LET length[i \in 1..Len(seats)] ==
        IF i = 1 THEN 1
        ELSE IF Broken(seats[i - 1], seats[i], aisles) THEN 1 ELSE length[i - 1] + 1
  IN {SubSeq(seats, i - quantity + 1, i) : i \in {i \in 1..Len(seats) : length[i] >= quantity}}

Clamped(quantity) == Max({1, Min({quantity, MaxQuantity})})

Usable(seat, f) ==
  /\ seat.free
  /\ f.min # Unset => seat.price >= f.min
  /\ f.max # Unset => seat.price <= f.max
  /\ f.section # Unset => seat.section = f.section

Cost(group) ==
  LET sum[i \in 1..(Len(group) + 1)] == IF i = 1 THEN 0 ELSE sum[i - 1] + group[i - 1].price
  IN sum[Len(group) + 1]

\* The keys of the two sorts; the rest of a key is the order of the rows
\* before the sort, which is stable.
Before(f, a, b) ==
  LET rank(g) == IF f.prefer = "back" THEN - g[1].row ELSE g[1].row
      key(g) == IF f.prefer \in {"front", "back"} THEN <<rank(g), Cost(g), g[1].number>>
                ELSE <<Cost(g), g[1].row, g[1].number>>
  IN \E i \in 1..3 : key(a)[i] < key(b)[i] /\ \A j \in 1..(i - 1) : key(a)[j] = key(b)[j]

\* The seats at the places in S, in their order.
Only(seats, S) ==
  LET kept[i \in 1..(Len(seats) + 1)] ==
        IF i = 1 THEN <<>>
        ELSE IF i - 1 \in S THEN Append(kept[i - 1], seats[i - 1]) ELSE kept[i - 1]
  IN kept[Len(seats) + 1]

\* The groups of all rows, before they are sorted.  by_row has the usable seats
\* of a row in the order of the query, which is the one of their numbers.
Groups(seats, f, layout) ==
  LET quantity == Clamped(f.quantity)
      usable == {i \in DOMAIN seats : Usable(seats[i], f)}
      rows == {seats[i].row : i \in usable}
      inRow(row) == Only(seats, {i \in usable : seats[i].row = row})
      found(row) == IF quantity = 1 \/ ~f.together
                    THEN {<<s>> : s \in ToSet(inRow(row))}
                    ELSE Runs(inRow(row), quantity, AislesFor(layout, row))
  IN UNION {found(row) : row \in rows}

\* find: the best of them, each at the place that the number of better ones
\* gives it.
Find(seats, f, layout) ==
  LET all == Groups(seats, f, layout) IN
  [n \in 1..Min({Cardinality(all), SearchLimit}) |->
     CHOOSE g \in all : Cardinality({h \in all : Before(f, h, g)}) = n - 1]
=============================================================================

--------------------------- MODULE MCSeatBooking ---------------------------
(* Instances of SeatBooking for TLC.                                       *)
EXTENDS SeatBooking, TLC

\* Demand pricing: every sale raises the price.
RisingPrice(n) == 1 + n

\* Users, requests and seats are interchangeable in the safety properties.
Symmetry == Permutations(User) \cup Permutations(Req) \cup Permutations(Seat)
=============================================================================

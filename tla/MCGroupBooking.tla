--------------------------- MODULE MCGroupBooking ---------------------------
(* Instances of GroupBooking for TLC.                                      *)
EXTENDS GroupBooking, TLC

CONSTANTS s1, s2

\* No demand pricing: amounts do not matter here.
FlatPrice(n) == 1

\* A direct booking is named by itself, a share's by <<group, seat>>.
AllBookings == Rival \cup (Group \X Seat)

\* One request for both seats.
Both == {<<s1, s2>>}

\* Workers are interchangeable in the safety properties.
Symmetry == Permutations(Worker)
=============================================================================

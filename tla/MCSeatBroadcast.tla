--------------------------- MODULE MCSeatBroadcast --------------------------
(* Instance of SeatBroadcast for TLC. *)
EXTENDS SeatBroadcast, TLC

CONSTANTS c1, c2, w1, w2, h1, h2, s1

Symmetry ==
  Permutations(Watching) \cup Permutations(Client \ Watching)
    \cup Permutations(Worker) \cup Permutations(Handler)
=============================================================================

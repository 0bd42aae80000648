----------------------------- MODULE MCSessions -----------------------------
(* Instance of Sessions for TLC. *)
EXTENDS Sessions, TLC

CONSTANTS b1, b2, w1, w2

Symmetry == Permutations(Browser) \cup Permutations(Worker)
=============================================================================

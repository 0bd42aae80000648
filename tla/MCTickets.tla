----------------------------- MODULE MCTickets ------------------------------
(* Instance of Tickets for TLC. *)
EXTENDS Tickets

CONSTANTS b1, b2, w1, w2, c1
=============================================================================

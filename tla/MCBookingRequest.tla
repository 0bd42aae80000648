-------------------------- MODULE MCBookingRequest --------------------------
(* Instance of BookingRequest for TLC: two requests of one attempt, and a third
   that repeats it, that reuses its key for another seat, or that is somebody
   else's for the same seat. *)
EXTENDS BookingRequest

CONSTANTS r1, r2, r3, key1, s1, s2

Attempt == [key |-> key1, payload |-> s1]
Thirds == {Attempt, [key |-> key1, payload |-> s2], [key |-> NoKey, payload |-> s1]}
MCWorkloads == {[r \in Req |-> IF r = r3 THEN third ELSE Attempt] : third \in Thirds}
=============================================================================

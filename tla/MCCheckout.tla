----------------------------- MODULE MCCheckout -----------------------------
(* Instances of Checkout for TLC.                                          *)
EXTENDS Checkout, TLC

\* Demand pricing: every sale raises the price.
RisingPrice(n) == 1 + n

\* A direct booking is named by its request, a paid one by <<invocation, payment>>.
AllBookings == Req \cup (PayReq \X PayReq)

\* Users, invocations and seats are interchangeable in the safety properties.
Symmetry == Permutations(User) \cup Permutations(Req)
              \cup Permutations(PayReq) \cup Permutations(Seat)
=============================================================================

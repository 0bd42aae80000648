------------------------------ MODULE SeatSale ------------------------------
(***************************************************************************)
(* What selling seats promises, whatever handlers, locks and rows do: a    *)
(* seat is sold to one booking at a time, the terms of a booking are       *)
(* written once, and a booking that lost its seat never gets one again.    *)
(***************************************************************************)
CONSTANTS User, Seat, BookingId, None, Amount

VARIABLES
  holder,   \* the booking a seat is sold to
  ledger    \* the terms each booking was made on

vars == <<holder, ledger>>

Terms == [user: User, seat: Seat, amount: Amount]
Blank == [user |-> None, seat |-> None, amount |-> 0]

SaleInit ==
  /\ holder = [s \in Seat |-> None]
  /\ ledger = [b \in BookingId |-> Blank]

\* The terms are whatever the seller writes down.
Sell(b) ==
  LET terms == ledger'[b] IN
  /\ ledger[b] = Blank /\ terms \in Terms
  /\ holder[terms.seat] = None
  /\ holder' = [holder EXCEPT ![terms.seat] = b]
  /\ ledger' = [ledger EXCEPT ![b] = terms]

Cancel(s) ==
  /\ holder[s] # None
  /\ holder' = [holder EXCEPT ![s] = None]
  /\ UNCHANGED ledger

SaleNext == (\E b \in BookingId : Sell(b)) \/ (\E s \in Seat : Cancel(s))

SaleSpec == SaleInit /\ [][SaleNext]_vars
=============================================================================

----------------------------- MODULE SeatStore -----------------------------
(***************************************************************************)
(* The state every SeatPulse handler shares: the seats and bookings tables *)
(* of Postgres and the seat locks of Redis, with the statements the        *)
(* handlers issue on them.  A committed transaction is one step.  Time is  *)
(* relative: a timer holds the ticks it has left, so an expiry needs no    *)
(* clock.                                                                  *)
(***************************************************************************)
EXTENDS Integers, FiniteSets

CONSTANTS
  User,         \* users.id
  Seat,         \* seats.id, the seats of one event
  BookingId,    \* names for the bookings handlers may insert
  None,         \* SQL NULL, and a missing Redis key
  LockTTL,      \* SEAT_LOCK_TTL, in ticks
  PaymentTTL,   \* PAYMENT_TTL_SECONDS, in ticks
  PriceAt(_)    \* current_price after so many confirmed bookings of the event

ASSUME StoreAssumption ==
  /\ None \notin User /\ None \notin Seat /\ None \notin BookingId
  /\ None \notin Int
  /\ LockTTL \in Nat \ {0} /\ PaymentTTL \in Nat \ {0}
  /\ IsFiniteSet(BookingId)
  /\ \A n \in 0..Cardinality(BookingId) : PriceAt(n) \in Nat

VARIABLES
  seats,        \* the seats table
  locks,        \* seat:<id>:lock, the owner's user id and the key's TTL
  bookings      \* the bookings table

storeVars == <<seats, locks, bookings>>

----------------------------------------------------------------------------
(* Rows.                                                                   *)

SeatStatus == {"available", "locked", "payment_pending", "booked", "group_held"}
Lockable == {"available", "locked"}
Held == {"locked", "payment_pending"}

SeatRow == [status: SeatStatus, version: Nat, locked_by: User \cup {None},
            locked_until: Nat \cup {None}, held_price: Nat \cup {None}]

FreshSeat == [status |-> "available", version |-> 0, locked_by |-> None,
              locked_until |-> None, held_price |-> None]

Lock == [owner: User \cup {None}, ttl: Nat]
Unlocked == [owner |-> None, ttl |-> 0]

BookingRow == [user: User \cup {None}, seat: Seat \cup {None},
               status: {"none", "confirmed", "cancelled"}, amount: Nat]
NoBooking == [user |-> None, seat |-> None, status |-> "none", amount |-> 0]

StoreTypeOK ==
  /\ seats \in [Seat -> SeatRow]
  /\ locks \in [Seat -> Lock]
  /\ bookings \in [BookingId -> BookingRow]

StoreInit ==
  /\ seats = [s \in Seat |-> FreshSeat]
  /\ locks = [s \in Seat |-> Unlocked]
  /\ bookings = [b \in BookingId |-> NoBooking]

----------------------------------------------------------------------------
(* Queries.                                                                *)

Confirmed(s) ==
  {b \in BookingId : bookings[b].seat = s /\ bookings[b].status = "confirmed"}
Sold == {b \in BookingId : bookings[b].status = "confirmed"}

\* pricing_state counts the confirmed bookings when it runs.
CurrentPrice == PriceAt(Cardinality(Sold))

\* Mutant: the held price is taken whether there is one or not.
PriceNowHeldOnly(row) == row.held_price

\* price_now on a seat row read earlier.
PriceNow(row) == IF row.held_price # None THEN row.held_price ELSE CurrentPrice

\* Seats whose hold has lapsed in the database.
Lapsed == {s \in Seat : seats[s].status \in Held /\ seats[s].locked_until = 0}

\* A row as an earlier SELECT returned it.  Of locked_until only NULL-ness is
\* ever looked at again, so its distance is dropped.
Snapshot(s) ==
  [seats[s] EXCEPT !.locked_until = IF @ = None THEN None ELSE 0]

----------------------------------------------------------------------------
(* Redis commands.                                                         *)

\* Mutant: SET NX without EX.
AcquireForEver(s, u, ttl) ==
  /\ locks[s].owner = None
  /\ locks' = [locks EXCEPT ![s] = [owner |-> u, ttl |-> 0]]

\* SET seat:<s>:lock <u> NX EX <ttl>, when it succeeds.
Acquire(s, u, ttl) ==
  /\ locks[s].owner = None
  /\ locks' = [locks EXCEPT ![s] = [owner |-> u, ttl |-> ttl]]

\* Mutant: a plain DEL.
ReleaseUnchecked(s, u) == locks' = [locks EXCEPT ![s] = Unlocked]

\* The Lua release: DEL only when the value is the caller's user id.
Release(s, u) ==
  locks' = IF locks[s].owner = u THEN [locks EXCEPT ![s] = Unlocked] ELSE locks

----------------------------------------------------------------------------
(* UPDATE seats: what each statement leaves in a row.                      *)

\* Mutant: the version is not bumped.
FreedRowSameVersion(row) ==
  [row EXCEPT !.status = "available", !.locked_by = None,
              !.locked_until = None, !.held_price = None]

FreedRow(row) ==
  [row EXCEPT !.status = "available", !.version = @ + 1, !.locked_by = None,
              !.locked_until = None, !.held_price = None]

LockedRow(row, u, price) ==
  [row EXCEPT !.status = "locked", !.version = @ + 1, !.locked_by = u,
              !.locked_until = LockTTL, !.held_price = price]

\* Mutant: only the hold columns are reset.
CancelledRowStillBooked(row) ==
  [row EXCEPT !.version = @ + 1, !.locked_by = None, !.locked_until = None]

\* cancel_booking frees the seat but leaves held_price as it was.
CancelledRow(row) ==
  [row EXCEPT !.status = "available", !.version = @ + 1, !.locked_by = None,
              !.locked_until = None]

\* _CLAIM_VALUES
BookedRow(row) ==
  [row EXCEPT !.status = "booked", !.version = @ + 1, !.locked_by = None,
              !.locked_until = None, !.held_price = None]

SetRow(s, row) == seats' = [seats EXCEPT ![s] = row]

\* Mutant: no partial unique index.
NoUniqueIndex(s) == TRUE

\* INSERT of a confirmed booking that uq_one_confirmed_booking_per_seat admits.
IndexAdmits(s) == Confirmed(s) = {}

InsertBooking(b, u, s, amount) ==
  bookings' = [bookings EXCEPT
                ![b] = [user |-> u, seat |-> s, status |-> "confirmed", amount |-> amount]]

----------------------------------------------------------------------------
(* Time: Redis drops a key whose TTL is over; a hold in the database only  *)
(* becomes old, nobody tells Postgres.                                     *)

Aged(t) == IF t \in {None, 0} THEN t ELSE t - 1

AgeStore ==
  /\ locks' = [s \in Seat |-> IF locks[s].ttl = 1 THEN Unlocked
                              ELSE [locks[s] EXCEPT !.ttl = Aged(@)]]
  /\ seats' = [s \in Seat |-> [seats[s] EXCEPT !.locked_until = Aged(@)]]
  /\ UNCHANGED bookings

TimerRuns ==
  \E s \in Seat : locks[s].owner # None \/ seats[s].locked_until \notin {None, 0}

----------------------------------------------------------------------------
(* The sale of seats as the bookings table records it.                     *)

Holder == [s \in Seat |-> IF Confirmed(s) = {} THEN None
                          ELSE CHOOSE b \in Confirmed(s) : TRUE]

Ledger == [b \in BookingId |-> [user |-> bookings[b].user, seat |-> bookings[b].seat,
                                amount |-> bookings[b].amount]]

Prices == {PriceAt(n) : n \in 0..Cardinality(BookingId)}

Sale == INSTANCE SeatSale WITH Amount <- Prices, holder <- Holder, ledger <- Ledger

\* The bookings table is a ledger of sales: whatever the handlers interleave,
\* a seat is sold to one booking at a time, the user, seat and amount of a
\* booking never change, and a cancelled booking is never confirmed again.
ImplementsSeatSale == Sale!SaleSpec

----------------------------------------------------------------------------
(* Properties of the shared state, stated over every module that uses it.  *)

\* At most one confirmed booking per seat, the promise of the partial unique
\* index and of verify_integrity's first check, although handlers insert
\* from stale reads.
OneConfirmedBookingPerSeat ==
  \A b, c \in BookingId :
    bookings[b].status = "confirmed" /\ bookings[c].status = "confirmed"
      /\ bookings[b].seat = bookings[c].seat => b = c

\* verify_integrity's check that no seat is shown as booked without a
\* confirmed booking behind it: a sale must never block a seat nobody owns.
BookedSeatHasBooking ==
  \A s \in Seat : seats[s].status = "booked" => Confirmed(s) # {}

\* verify_integrity's check 4: no confirmed booking without a booked seat,
\* that is, a sold seat is never on sale again.
ConfirmedBookingHasBookedSeat ==
  \A b \in BookingId :
    bookings[b].status = "confirmed" => seats[bookings[b].seat].status = "booked"
=============================================================================

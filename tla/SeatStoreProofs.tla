-------------------------- MODULE SeatStoreProofs --------------------------
(***************************************************************************)
(* What the statements of SeatStore return and preserve, for the proofs    *)
(* about the modules that are built on it.                                 *)
(***************************************************************************)
EXTENDS SeatStore, FiniteSetTheorems, TLAPS

\* Counting the confirmed bookings gives one of the event's prices.
LEMMA PriceInPrices ==
  /\ CurrentPrice \in Prices
  /\ Prices \subseteq Nat
<1>1. Sold \in SUBSET BookingId
  BY DEF Sold
<1>2. Cardinality(Sold) \in 0..Cardinality(BookingId)
  BY <1>1, StoreAssumption, FS_Subset, FS_CardinalityType DEF StoreAssumption
<1>3. CurrentPrice \in Prices
  BY <1>2 DEF CurrentPrice, Prices
<1>4. Prices \subseteq Nat
  BY StoreAssumption DEF StoreAssumption, Prices
<1> QED
  BY <1>3, <1>4

\* What price_now answers for a row.
LEMMA PriceNowInPrices ==
  ASSUME NEW row, row.held_price \in Prices \cup {None}
  PROVE  PriceNow(row) \in Prices
  BY PriceInPrices DEF PriceNow

\* Assigning one column of a row.
LEMMA ColumnUpdates ==
  ASSUME NEW row \in SeatRow
  PROVE  /\ \A x \in SeatStatus : [row EXCEPT !.status = x] \in SeatRow
         /\ [row EXCEPT !.version = @ + 1] \in SeatRow
         /\ \A x \in Nat : [row EXCEPT !.version = x] \in SeatRow
         /\ \A x \in User \cup {None} : [row EXCEPT !.locked_by = x] \in SeatRow
         /\ \A x \in Nat \cup {None} : [row EXCEPT !.locked_until = x] \in SeatRow
         /\ \A x \in Nat \cup {None} : [row EXCEPT !.held_price = x] \in SeatRow
  BY DEF SeatRow

\* The four columns every UPDATE of a hold writes.
HoldWritten(row, status, version, user, deadline) ==
  [row EXCEPT !.status = status, !.version = version, !.locked_by = user,
              !.locked_until = deadline]

LEMMA HoldWrittenType ==
  ASSUME NEW row \in SeatRow, NEW status \in SeatStatus, NEW version \in Nat,
         NEW user \in User \cup {None}, NEW deadline \in Nat \cup {None}
  PROVE  HoldWritten(row, status, version, user, deadline) \in SeatRow
<1> DEFINE r1 == [row EXCEPT !.status = status]
           r2 == [r1 EXCEPT !.version = version]
           r3 == [r2 EXCEPT !.locked_by = user]
           r4 == [r3 EXCEPT !.locked_until = deadline]
<1>1. HoldWritten(row, status, version, user, deadline) = r4
  BY DEF HoldWritten
<1>2. r1 \in SeatRow
  BY ColumnUpdates
<1> HIDE DEF r1
<1>3. r2 \in SeatRow
  BY <1>2, ColumnUpdates
<1> HIDE DEF r2
<1>4. r3 \in SeatRow
  BY <1>3, ColumnUpdates
<1> HIDE DEF r3
<1>5. r4 \in SeatRow
  BY <1>4, ColumnUpdates
<1> QED
  BY <1>1, <1>5

\* Every UPDATE of the seats table leaves a row of the table.
LEMMA RowUpdates ==
  ASSUME NEW row \in SeatRow
  PROVE  /\ FreedRow(row) \in SeatRow
         /\ \A u \in User, p \in Nat : LockedRow(row, u, p) \in SeatRow
         /\ CancelledRow(row) \in SeatRow
         /\ BookedRow(row) \in SeatRow
<1> DEFINE H(st, u, t) == HoldWritten(row, st, row.version + 1, u, t)
<1>0. row.version + 1 \in Nat
  BY DEF SeatRow
<1>1. \A st \in SeatStatus, u \in User \cup {None}, t \in Nat \cup {None} :
        H(st, u, t) \in SeatRow
  BY <1>0, HoldWrittenType
<1>2. FreedRow(row) = [H("available", None, None) EXCEPT !.held_price = None]
  BY DEF FreedRow, HoldWritten
<1>3. \A u, p : LockedRow(row, u, p) = [H("locked", u, LockTTL) EXCEPT !.held_price = p]
  BY DEF LockedRow, HoldWritten
<1>4. CancelledRow(row) = H("available", None, None)
  BY DEF CancelledRow, HoldWritten
<1>5. BookedRow(row) = [H("booked", None, None) EXCEPT !.held_price = None]
  BY DEF BookedRow, HoldWritten
<1> HIDE DEF H
<1>6. H("available", None, None) \in SeatRow /\ H("booked", None, None) \in SeatRow
  BY <1>1 DEF SeatStatus
<1>7. \A u \in User : H("locked", u, LockTTL) \in SeatRow
  BY <1>1, StoreAssumption DEF SeatStatus, StoreAssumption
<1>9. FreedRow(row) \in SeatRow /\ BookedRow(row) \in SeatRow
  <2> DEFINE free == H("available", None, None)
             sold == H("booked", None, None)
  <2>1. free \in SeatRow /\ sold \in SeatRow
    BY <1>6
  <2>2. FreedRow(row) = [free EXCEPT !.held_price = None]
    BY <1>2
  <2>3. BookedRow(row) = [sold EXCEPT !.held_price = None]
    BY <1>5
  <2> HIDE DEF free, sold
  <2>4. [free EXCEPT !.held_price = None] \in SeatRow
    BY <2>1, ColumnUpdates
  <2>5. [sold EXCEPT !.held_price = None] \in SeatRow
    BY <2>1, ColumnUpdates
  <2> QED
    BY <2>2, <2>3, <2>4, <2>5
<1>10. ASSUME NEW u \in User, NEW p \in Nat
       PROVE  LockedRow(row, u, p) \in SeatRow
  <2> DEFINE h == H("locked", u, LockTTL)
  <2>1. LockedRow(row, u, p) = [h EXCEPT !.held_price = p]
    BY <1>3
  <2>2. h \in SeatRow
    BY <1>7
  <2> HIDE DEF h
  <2> QED
    BY <2>1, <2>2, ColumnUpdates
<1> QED
  BY <1>4, <1>6, <1>9, <1>10

\* What an UPDATE does to the version, the status and the price of a row.
LEMMA UpdatesMoveVersion ==
  ASSUME NEW row \in SeatRow
  PROVE  /\ FreedRow(row).version = row.version + 1
         /\ FreedRow(row).status = "available"
         /\ CancelledRow(row).version = row.version + 1
         /\ CancelledRow(row).status = "available"
         /\ BookedRow(row).version = row.version + 1
         /\ \A u, p : /\ LockedRow(row, u, p).version = row.version + 1
                      /\ LockedRow(row, u, p).status = "locked"
  BY DEF SeatRow, FreedRow, CancelledRow, BookedRow, LockedRow

LEMMA SnapshotIsRow ==
  ASSUME StoreTypeOK, NEW s \in Seat
  PROVE  Snapshot(s) \in SeatRow
  BY DEF Snapshot, StoreTypeOK, SeatRow

LEMMA RedisType ==
  ASSUME StoreTypeOK, NEW s \in Seat, NEW u \in User
  PROVE  /\ Acquire(s, u, LockTTL) => locks' \in [Seat -> Lock]
         /\ Release(s, u) => locks' \in [Seat -> Lock]
  BY StoreAssumption
  DEF StoreAssumption, Acquire, Release, StoreTypeOK, Lock, Unlocked

LEMMA SetRowType ==
  ASSUME StoreTypeOK, NEW s \in Seat, NEW row \in SeatRow, SetRow(s, row)
  PROVE  /\ seats' \in [Seat -> SeatRow]
         /\ seats'[s] = row
         /\ \A t \in Seat : t # s => seats'[t] = seats[t]
  BY DEF StoreTypeOK, SetRow

LEMMA InsertType ==
  ASSUME StoreTypeOK, NEW b \in BookingId, NEW u \in User, NEW s \in Seat, NEW amount \in Nat,
         InsertBooking(b, u, s, amount)
  PROVE  /\ bookings' \in [BookingId -> BookingRow]
         /\ bookings'[b] = [user |-> u, seat |-> s, status |-> "confirmed", amount |-> amount]
         /\ \A c \in BookingId : c # b => bookings'[c] = bookings[c]
<1> DEFINE row == [user |-> u, seat |-> s, status |-> "confirmed", amount |-> amount]
<1>1. row \in BookingRow
  BY DEF BookingRow
<1>2. bookings' = [bookings EXCEPT ![b] = row]
  BY DEF InsertBooking
<1> HIDE DEF row
<1>3. /\ bookings' \in [BookingId -> BookingRow] /\ bookings'[b] = row
      /\ \A c \in BookingId : c # b => bookings'[c] = bookings[c]
  BY <1>1, <1>2 DEF StoreTypeOK
<1> QED
  BY <1>3 DEF row

LEMMA CancelType ==
  ASSUME StoreTypeOK, NEW b \in BookingId,
         bookings' = [bookings EXCEPT ![b].status = "cancelled"]
  PROVE  /\ bookings' \in [BookingId -> BookingRow]
         /\ bookings'[b].status = "cancelled"
         /\ \A c \in BookingId : /\ bookings'[c].user = bookings[c].user
                                 /\ bookings'[c].seat = bookings[c].seat
                                 /\ bookings'[c].amount = bookings[c].amount
                                 /\ c # b => bookings'[c] = bookings[c]
<1> DEFINE row == [bookings[b] EXCEPT !.status = "cancelled"]
<1>1. bookings' = [bookings EXCEPT ![b] = row]
  OBVIOUS
<1>2. row \in BookingRow
  BY DEF StoreTypeOK, BookingRow
<1>3. /\ row.status = "cancelled" /\ row.user = bookings[b].user
      /\ row.seat = bookings[b].seat /\ row.amount = bookings[b].amount
  BY DEF StoreTypeOK, BookingRow
<1> HIDE DEF row
<1> QED
  BY <1>1, <1>2, <1>3 DEF StoreTypeOK

LEMMA TickKeeps ==
  ASSUME StoreTypeOK, AgeStore
  PROVE  /\ StoreTypeOK'
         /\ bookings' = bookings
         /\ \A s \in Seat :
              /\ seats'[s] = [seats[s] EXCEPT !.locked_until = Aged(@)]
              /\ seats'[s].status = seats[s].status
              /\ seats'[s].version = seats[s].version
              /\ seats'[s].held_price = seats[s].held_price
<1>1. \A t \in Nat : Aged(t) \in Nat
  BY DEF Aged
<1>2. \A t \in Nat \cup {None} : Aged(t) \in Nat \cup {None}
  BY <1>1 DEF Aged
<1>3. ASSUME NEW s \in Seat
      PROVE  /\ seats'[s] = [seats[s] EXCEPT !.locked_until = Aged(@)]
             /\ seats'[s] \in SeatRow
             /\ seats'[s].status = seats[s].status
             /\ seats'[s].version = seats[s].version
             /\ seats'[s].held_price = seats[s].held_price
             /\ locks'[s] \in Lock
  <2>1. seats'[s] = [seats[s] EXCEPT !.locked_until = Aged(@)]
    BY DEF AgeStore
  <2>2. seats[s] \in SeatRow /\ Aged(seats[s].locked_until) \in Nat \cup {None}
    BY <1>2 DEF StoreTypeOK, SeatRow
  <2>3. seats'[s] \in SeatRow
    BY <2>1, <2>2, ColumnUpdates
  <2>4. /\ seats'[s].status = seats[s].status
        /\ seats'[s].version = seats[s].version
        /\ seats'[s].held_price = seats[s].held_price
    BY <2>1, <2>2 DEF SeatRow
  <2>5. locks'[s] = Unlocked \/ locks'[s] = [locks[s] EXCEPT !.ttl = Aged(@)]
    BY DEF AgeStore
  <2>6. locks[s] \in Lock /\ Aged(locks[s].ttl) \in Nat
    BY <1>1 DEF StoreTypeOK, Lock
  <2>7. locks'[s] \in Lock
    BY <2>5, <2>6 DEF Lock, Unlocked
  <2> QED
    BY <2>1, <2>3, <2>4, <2>7
<1>4. /\ seats' \in [Seat -> SeatRow] /\ locks' \in [Seat -> Lock]
      /\ bookings' = bookings
  BY <1>3 DEF AgeStore
<1> QED
  BY <1>3, <1>4 DEF StoreTypeOK
=============================================================================

--------------------------- MODULE CheckoutProofs ---------------------------
(***************************************************************************)
(* Theorems about SeatBooking and about Checkout, which adds the payments  *)
(* to the same store: for any users, seats, requests, invocations of the   *)
(* payment handlers, workloads, providers, times to live and prices.       *)
(* SeatBooking comes first: the facts about its store, its requests and    *)
(* the abstract sale are used again when payments act on them.             *)
(***************************************************************************)
EXTENDS Checkout, SeatStoreProofs, FiniteSetTheorems, TLAPS

----------------------------------------------------------------------------
(* The statements the handlers issue.                                      *)

\* The pessimistic claim's UPDATE leaves a row of the table.
LEMMA PessimisticUpdates ==
  ASSUME NEW row \in SeatRow, NEW seen \in SeatRow
  PROVE  PessimisticRow(row, seen) \in SeatRow
<1> DEFINE clear(old, new) == IF old = None THEN new ELSE None
           h == HoldWritten(row, "booked", seen.version + 1,
                            clear(seen.locked_by, row.locked_by),
                            clear(seen.locked_until, row.locked_until))
           x == clear(seen.held_price, row.held_price)
<1>1. PessimisticRow(row, seen) = [h EXCEPT !.held_price = x]
  BY DEF PessimisticRow, HoldWritten
<1>2. /\ clear(seen.locked_by, row.locked_by) \in User \cup {None}
      /\ clear(seen.locked_until, row.locked_until) \in Nat \cup {None}
      /\ x \in Nat \cup {None}
      /\ seen.version + 1 \in Nat
  BY DEF SeatRow
<1> HIDE DEF clear, x
<1>3. h \in SeatRow
  BY <1>2, HoldWrittenType DEF SeatStatus
<1> HIDE DEF h
<1> QED
  BY <1>1, <1>2, <1>3, ColumnUpdates

LEMMA IdleType == FreshSeat \in SeatRow /\ Idle \in Request
  BY DEF FreshSeat, SeatRow, SeatStatus, Idle, Request, Label

----------------------------------------------------------------------------
(* What a step does to the requests.                                       *)

\* Only request r moves.
OnlyMoves(r) == \A q \in Req : q # r => req'[q] = req[q]

\* What r has read stays as it was.
KeepsReads(r) ==
  /\ req'[r].user = req[r].user /\ req'[r].seat = req[r].seat
  /\ req'[r].seen = req[r].seen /\ req'[r].target = req[r].target

\* Assigning one field of a request.
LEMMA FieldUpdates ==
  ASSUME NEW q \in Request
  PROVE  /\ \A x \in Label : [q EXCEPT !.pc = x] \in Request
         /\ \A x \in User \cup {None} : [q EXCEPT !.user = x] \in Request
         /\ \A x \in Seat \cup {None} : [q EXCEPT !.seat = x] \in Request
         /\ \A x \in SeatRow : [q EXCEPT !.seen = x] \in Request
         /\ \A x \in Nat : [q EXCEPT !.price = x] \in Request
         /\ \A x \in BOOLEAN : [q EXCEPT !.took = x] \in Request
         /\ \A x \in BookingId \cup {None} : [q EXCEPT !.target = x] \in Request
         /\ \A x \in SUBSET Seat : [q EXCEPT !.expired = x] \in Request
  BY DEF Request

LEMMA GoMoves ==
  ASSUME req \in [Req -> Request], NEW r \in Req, NEW label \in Label, Go(r, label)
  PROVE  /\ req' \in [Req -> Request]
         /\ req'[r].pc = label /\ KeepsReads(r)
         /\ req'[r].price = req[r].price /\ req'[r].took = req[r].took
         /\ OnlyMoves(r)
<1> DEFINE q == [req[r] EXCEPT !.pc = label]
<1>1. req' = [req EXCEPT ![r] = q]
  BY DEF Go
<1>2. q \in Request
  BY FieldUpdates
<1>3. /\ q.pc = label /\ q.user = req[r].user /\ q.seat = req[r].seat
      /\ q.seen = req[r].seen /\ q.target = req[r].target
      /\ q.price = req[r].price /\ q.took = req[r].took
  BY DEF Request
<1> HIDE DEF q
<1> QED
  BY <1>1, <1>2, <1>3 DEF OnlyMoves, KeepsReads

LEMMA GoWithPriceMoves ==
  ASSUME req \in [Req -> Request], NEW r \in Req, NEW label \in Label, NEW p \in Nat,
         req' = [req EXCEPT ![r].pc = label, ![r].price = p]
  PROVE  /\ req' \in [Req -> Request]
         /\ req'[r].pc = label /\ KeepsReads(r) /\ req'[r].price = p
         /\ OnlyMoves(r)
<1> DEFINE q1 == [req[r] EXCEPT !.pc = label]
           q == [q1 EXCEPT !.price = p]
<1>1. req' = [req EXCEPT ![r] = q]
  OBVIOUS
<1>2. /\ q1 \in Request
      /\ q1.pc = label /\ q1.user = req[r].user /\ q1.seat = req[r].seat
      /\ q1.seen = req[r].seen /\ q1.target = req[r].target
  BY FieldUpdates DEF Request
<1> HIDE DEF q1
<1>3. /\ q \in Request
      /\ q.pc = label /\ q.user = req[r].user /\ q.seat = req[r].seat
      /\ q.seen = req[r].seen /\ q.target = req[r].target /\ q.price = p
  BY <1>2, FieldUpdates DEF Request
<1> HIDE DEF q
<1> QED
  BY <1>1, <1>3 DEF OnlyMoves, KeepsReads

LEMMA GoWithTookMoves ==
  ASSUME req \in [Req -> Request], NEW r \in Req, NEW label \in Label, NEW t \in BOOLEAN,
         req' = [req EXCEPT ![r].pc = label, ![r].took = t]
  PROVE  /\ req' \in [Req -> Request]
         /\ req'[r].pc = label /\ KeepsReads(r)
         /\ OnlyMoves(r)
<1> DEFINE q1 == [req[r] EXCEPT !.pc = label]
           q == [q1 EXCEPT !.took = t]
<1>1. req' = [req EXCEPT ![r] = q]
  OBVIOUS
<1>2. /\ q1 \in Request
      /\ q1.pc = label /\ q1.user = req[r].user /\ q1.seat = req[r].seat
      /\ q1.seen = req[r].seen /\ q1.target = req[r].target
  BY FieldUpdates DEF Request
<1> HIDE DEF q1
<1>3. /\ q \in Request
      /\ q.pc = label /\ q.user = req[r].user /\ q.seat = req[r].seat
      /\ q.seen = req[r].seen /\ q.target = req[r].target
  BY <1>2, FieldUpdates DEF Request
<1> HIDE DEF q
<1> QED
  BY <1>1, <1>3 DEF OnlyMoves, KeepsReads

LEMMA FinishMoves ==
  ASSUME req \in [Req -> Request], NEW r \in Req, Finish(r)
  PROVE  /\ req' \in [Req -> Request]
         /\ req'[r] = [Idle EXCEPT !.pc = "done"]
         /\ req'[r].pc = "done"
         /\ OnlyMoves(r)
<1> DEFINE q == [Idle EXCEPT !.pc = "done"]
<1>1. req' = [req EXCEPT ![r] = q]
  BY DEF Finish
<1>2. q \in Request /\ q.pc = "done"
  BY IdleType, FieldUpdates DEF Label, Idle
<1> HIDE DEF q
<1>3. /\ req' \in [Req -> Request] /\ req'[r] = q /\ OnlyMoves(r)
  BY <1>1, <1>2 DEF OnlyMoves
<1> QED
  BY <1>2, <1>3 DEF q

LEMMA BeginMoves ==
  ASSUME StoreTypeOK, req \in [Req -> Request], NEW r \in Req, NEW op,
         NEW label \in Label, NEW u \in User, NEW s \in Seat, Begin(r, op, label, u, s)
  PROVE  /\ req' \in [Req -> Request]
         /\ req[r].pc = "idle"
         /\ req'[r].pc = label /\ req'[r].user = u /\ req'[r].seat = s
         /\ req'[r].seen = Snapshot(s)
         /\ OnlyMoves(r)
<1> DEFINE q1 == [Idle EXCEPT !.pc = label]
           q2 == [q1 EXCEPT !.user = u]
           q3 == [q2 EXCEPT !.seat = s]
           q == [q3 EXCEPT !.seen = Snapshot(s)]
<1>1. req' = [req EXCEPT ![r] = q] /\ req[r].pc = "idle"
  BY DEF Begin, At
<1>2. q1 \in Request /\ q1.pc = label
  BY IdleType, FieldUpdates DEF Idle
<1> HIDE DEF q1
<1>3. q2 \in Request /\ q2.pc = label /\ q2.user = u
  BY <1>2, FieldUpdates DEF Request
<1> HIDE DEF q2
<1>4. q3 \in Request /\ q3.pc = label /\ q3.user = u /\ q3.seat = s
  BY <1>3, FieldUpdates DEF Request
<1> HIDE DEF q3
<1>5. q \in Request
  BY <1>4, SnapshotIsRow, FieldUpdates
<1>6. q.pc = label /\ q.user = u /\ q.seat = s /\ q.seen = Snapshot(s)
  BY <1>4 DEF Request
<1> HIDE DEF q
<1> QED
  BY <1>1, <1>5, <1>6 DEF OnlyMoves

----------------------------------------------------------------------------
(* The inductive invariant.                                                *)

\* Labels at which a request works for a user on a seat.
AtWork == Label \ {"idle", "done", "list_update"}

\* A request at work names its user and its seat; a cancellation has found a
\* booking of that seat; and the booking named after a request is not in the
\* table before the request has committed it.
RequestInv(r) ==
  /\ req[r].pc \in AtWork => req[r].user \in User /\ req[r].seat \in Seat
  /\ At(r, "cancel_update") =>
       /\ req[r].target \in BookingId
       /\ bookings[req[r].target].seat = req[r].seat
       /\ bookings[req[r].target].status # "none"
  /\ req[r].pc \notin {"done", "book_release"} => bookings[r].status = "none"

\* A booking in the table is somebody's and for some seat.
LedgerInv ==
  \A b \in BookingId :
    bookings[b].status # "none" => bookings[b].user \in User /\ bookings[b].seat \in Seat

BookingInv ==
  /\ BookingTypeOK
  /\ LedgerInv
  /\ \A r \in Req : RequestInv(r)

\* Only r may insert a booking, its own; the others stay where they are.
LedgerKept(r) ==
  /\ \A b \in BookingId : bookings[b].status # "none" =>
       bookings'[b].status # "none" /\ bookings'[b].seat = bookings[b].seat
  /\ \A b \in BookingId : b # r /\ bookings[b].status = "none" => bookings'[b].status = "none"

LEMMA FinishOK ==
  ASSUME BookingTypeOK, NEW r \in Req, Finish(r)
  PROVE  req' \in [Req -> Request] /\ OnlyMoves(r) /\ RequestInv(r)'
<1>1. req' \in [Req -> Request] /\ req'[r].pc = "done" /\ OnlyMoves(r)
  BY FinishMoves DEF BookingTypeOK
<1> QED
  BY <1>1 DEF RequestInv, AtWork, At

\* A request that goes on with what it has read.
LEMMA AdvanceOK ==
  ASSUME BookingTypeOK, NEW r \in Req, RequestInv(r), req[r].pc \in AtWork \ {"book_release"},
         NEW label \in AtWork \ {"cancel_update", "book_release"},
         req'[r].pc = label, KeepsReads(r), bookings' = bookings
  PROVE  RequestInv(r)'
<1>1. req[r].user \in User /\ req[r].seat \in Seat /\ bookings[r].status = "none"
  BY DEF RequestInv, AtWork
<1> QED
  BY <1>1 DEF RequestInv, AtWork, At, KeepsReads

LEMMA GoOK ==
  ASSUME BookingTypeOK, NEW r \in Req, RequestInv(r), req[r].pc \in AtWork \ {"book_release"},
         NEW label \in AtWork \ {"cancel_update", "book_release"}, Go(r, label),
         bookings' = bookings
  PROVE  req' \in [Req -> Request] /\ OnlyMoves(r) /\ RequestInv(r)'
<1>1. label \in Label
  BY DEF AtWork
<1>2. /\ req' \in [Req -> Request] /\ req'[r].pc = label
      /\ KeepsReads(r) /\ OnlyMoves(r)
  BY <1>1, GoMoves DEF BookingTypeOK
<1> QED
  BY <1>2, AdvanceOK

LEMMA BeginOK ==
  ASSUME BookingTypeOK, NEW r \in Req, RequestInv(r), NEW op,
         NEW label \in AtWork \ {"cancel_update", "book_release"},
         NEW u \in User, NEW s \in Seat, Begin(r, op, label, u, s), bookings' = bookings
  PROVE  req' \in [Req -> Request] /\ OnlyMoves(r) /\ RequestInv(r)'
<1>1. label \in Label
  BY DEF AtWork
<1>2. /\ req' \in [Req -> Request] /\ req[r].pc = "idle"
      /\ req'[r].pc = label /\ req'[r].user = u /\ req'[r].seat = s /\ OnlyMoves(r)
  BY <1>1, BeginMoves DEF BookingTypeOK
<1>3. bookings[r].status = "none"
  BY <1>2 DEF RequestInv
<1> QED
  BY <1>2, <1>3 DEF RequestInv, AtWork, At

\* What every step of a handler does to the tables and to the requests.
StepOK(r) == BookingTypeOK' /\ OnlyMoves(r) /\ LedgerKept(r) /\ RequestInv(r)'

LEMMA ReadOnlyOK ==
  ASSUME BookingTypeOK, NEW r \in Req, seats' \in [Seat -> SeatRow],
         locks' \in [Seat -> Lock], bookings' = bookings,
         req' \in [Req -> Request], OnlyMoves(r), RequestInv(r)'
  PROVE  StepOK(r)
  BY DEF StepOK, BookingTypeOK, StoreTypeOK, LedgerKept

\* The steps of lock_seat and unlock_seat.
LEMMA HoldStep ==
  ASSUME BookingInv, NEW r \in Req,
         \/ \E u \in User, s \in Seat : LockRead(r, u, s) \/ UnlockRelease(r, u, s)
         \/ LockSet(r) \/ LockQuote(r) \/ LockUpdate(r) \/ LockUndo(r) \/ UnlockUpdate(r)
  PROVE  StepOK(r)
<1> USE DEF BookingInv
<1>0. /\ BookingTypeOK /\ StoreTypeOK /\ RequestInv(r)
      /\ seats \in [Seat -> SeatRow] /\ locks \in [Seat -> Lock]
      /\ req \in [Req -> Request]
  BY DEF BookingTypeOK, StoreTypeOK
<1>1. ASSUME NEW u \in User, NEW s \in Seat, LockRead(r, u, s)
      PROVE  StepOK(r)
  <2>1. Begin(r, "lock", "lock_set", u, s) /\ UNCHANGED storeVars
    BY <1>1 DEF LockRead
  <2>2. "lock_set" \in AtWork \ {"cancel_update", "book_release"}
    BY DEF AtWork, Label
  <2>3. req' \in [Req -> Request] /\ OnlyMoves(r) /\ RequestInv(r)'
    BY <1>0, <2>1, <2>2, BeginOK DEF storeVars
  <2> QED
    BY <1>0, <2>1, <2>3, ReadOnlyOK DEF storeVars
<1>2. ASSUME NEW u \in User, NEW s \in Seat, UnlockRelease(r, u, s)
      PROVE  StepOK(r)
  <2>1. /\ Release(s, u) /\ Begin(r, "unlock", "unlock_update", u, s)
        /\ UNCHANGED <<seats, bookings>>
    BY <1>2 DEF UnlockRelease
  <2>2. "unlock_update" \in AtWork \ {"cancel_update", "book_release"}
    BY DEF AtWork, Label
  <2>3. req' \in [Req -> Request] /\ OnlyMoves(r) /\ RequestInv(r)'
    BY <1>0, <2>1, <2>2, BeginOK
  <2>4. locks' \in [Seat -> Lock]
    BY <1>0, <2>1, RedisType
  <2> QED
    BY <1>0, <2>1, <2>3, <2>4, ReadOnlyOK
<1>3. CASE LockSet(r)
  <2>1. /\ req[r].pc = "lock_set" /\ UNCHANGED <<seats, bookings>>
    BY <1>3 DEF LockSet, At
  <2>2. req[r].user \in User /\ req[r].seat \in Seat
    BY <1>0, <2>1 DEF RequestInv, AtWork, Label
  <2>3. /\ "lock_set" \in AtWork \ {"book_release"}
        /\ "lock_quote" \in AtWork \ {"cancel_update", "book_release"}
    BY DEF AtWork, Label
  <2>4. CASE Acquire(req[r].seat, req[r].user, LockTTL) /\ Go(r, "lock_quote")
    <3>1. locks' \in [Seat -> Lock]
      BY <1>0, <2>2, <2>4, RedisType
    <3>2. req' \in [Req -> Request] /\ OnlyMoves(r) /\ RequestInv(r)'
      BY <1>0, <2>1, <2>3, <2>4, GoOK
    <3> QED
      BY <1>0, <2>1, <3>1, <3>2, ReadOnlyOK
  <2>5. CASE Finish(r) /\ UNCHANGED locks
    <3>1. req' \in [Req -> Request] /\ OnlyMoves(r) /\ RequestInv(r)'
      BY <1>0, <2>5, FinishOK
    <3> QED
      BY <1>0, <2>1, <2>5, <3>1, ReadOnlyOK
  <2> QED
    BY <1>3, <2>4, <2>5 DEF LockSet
<1>4. CASE LockQuote(r)
  <2>1. /\ req[r].pc = "lock_quote" /\ UNCHANGED storeVars
        /\ req' = [req EXCEPT ![r].pc = "lock_update", ![r].price = CurrentPrice]
    BY <1>4 DEF LockQuote, At
  <2>2. /\ "lock_quote" \in AtWork \ {"book_release"}
        /\ "lock_update" \in AtWork \ {"cancel_update", "book_release"}
        /\ "lock_update" \in Label
    BY DEF AtWork, Label
  <2>3. CurrentPrice \in Nat
    BY PriceInPrices
  <2>4. /\ req' \in [Req -> Request] /\ OnlyMoves(r)
        /\ req'[r].pc = "lock_update" /\ KeepsReads(r)
    BY <1>0, <2>1, <2>2, <2>3, GoWithPriceMoves
  <2>5. RequestInv(r)'
    BY <1>0, <2>1, <2>2, <2>4, AdvanceOK DEF storeVars
  <2> QED
    BY <1>0, <2>1, <2>4, <2>5, ReadOnlyOK DEF storeVars
<1>5. CASE LockUpdate(r)
  <2> DEFINE s == req[r].seat
  <2>1. req[r].pc = "lock_update" /\ UNCHANGED <<locks, bookings>>
    BY <1>5 DEF LockUpdate, At
  <2>2. req[r].user \in User /\ s \in Seat /\ req[r].price \in Nat
    BY <1>0, <2>1 DEF RequestInv, AtWork, Label, Request
  <2>3. /\ "lock_update" \in AtWork \ {"book_release"}
        /\ "lock_undo" \in AtWork \ {"cancel_update", "book_release"}
    BY DEF AtWork, Label
  <2>4. CASE SetRow(s, LockedRow(seats[s], req[r].user, req[r].price)) /\ Finish(r)
    <3>1. seats' \in [Seat -> SeatRow]
      BY <1>0, <2>2, <2>4, RowUpdates, SetRowType
    <3>2. req' \in [Req -> Request] /\ OnlyMoves(r) /\ RequestInv(r)'
      BY <1>0, <2>4, FinishOK
    <3> QED
      BY <1>0, <2>1, <3>1, <3>2, ReadOnlyOK
  <2>5. CASE Go(r, "lock_undo") /\ UNCHANGED seats
    <3>1. req' \in [Req -> Request] /\ OnlyMoves(r) /\ RequestInv(r)'
      BY <1>0, <2>1, <2>3, <2>5, GoOK
    <3> QED
      BY <1>0, <2>1, <2>5, <3>1, ReadOnlyOK
  <2> QED
    BY <1>5, <2>4, <2>5 DEF LockUpdate
<1>6. CASE LockUndo(r)
  <2>1. /\ req[r].pc = "lock_undo" /\ Release(req[r].seat, req[r].user) /\ Finish(r)
        /\ UNCHANGED <<seats, bookings>>
    BY <1>6 DEF LockUndo, At
  <2>2. req[r].user \in User /\ req[r].seat \in Seat
    BY <1>0, <2>1 DEF RequestInv, AtWork, Label
  <2>3. locks' \in [Seat -> Lock]
    BY <1>0, <2>1, <2>2, RedisType
  <2>4. req' \in [Req -> Request] /\ OnlyMoves(r) /\ RequestInv(r)'
    BY <1>0, <2>1, FinishOK
  <2> QED
    BY <1>0, <2>1, <2>3, <2>4, ReadOnlyOK
<1>7. CASE UnlockUpdate(r)
  <2> DEFINE s == req[r].seat
  <2>1. /\ req[r].pc = "unlock_update" /\ Finish(r) /\ UNCHANGED <<locks, bookings>>
        /\ SetRow(s, FreedRow(seats[s])) \/ UNCHANGED seats
    BY <1>7 DEF UnlockUpdate, At
  <2>2. s \in Seat
    BY <1>0, <2>1 DEF RequestInv, AtWork, Label
  <2>3. seats' \in [Seat -> SeatRow]
    BY <1>0, <2>1, <2>2, RowUpdates, SetRowType
  <2>4. req' \in [Req -> Request] /\ OnlyMoves(r) /\ RequestInv(r)'
    BY <1>0, <2>1, FinishOK
  <2> QED
    BY <1>0, <2>1, <2>3, <2>4, ReadOnlyOK
<1> QED
  BY <1>1, <1>2, <1>3, <1>4, <1>5, <1>6, <1>7

\* The status check of _perform_booking.
LEMMA BookCheckedOK ==
  ASSUME BookingTypeOK, NEW r \in Req, RequestInv(r),
         req[r].pc \in {"book_owner", "book_set"}, NEW took \in BOOLEAN, BookChecked(r, took),
         bookings' = bookings
  PROVE  req' \in [Req -> Request] /\ OnlyMoves(r) /\ RequestInv(r)'
<1>1. /\ req[r].pc \in AtWork \ {"book_release"} /\ req \in [Req -> Request]
      /\ "book_price" \in Label
      /\ "book_price" \in AtWork \ {"cancel_update", "book_release"}
      /\ "book_undo" \in AtWork \ {"cancel_update", "book_release"}
  BY DEF AtWork, Label, BookingTypeOK
<1>2. CASE req' = [req EXCEPT ![r].pc = "book_price", ![r].took = took]
  <2>1. /\ req' \in [Req -> Request] /\ req'[r].pc = "book_price"
        /\ KeepsReads(r) /\ OnlyMoves(r)
    BY <1>1, <1>2, GoWithTookMoves
  <2> QED
    BY <1>1, <2>1, AdvanceOK
<1>3. CASE Go(r, "book_undo")
  BY <1>1, <1>3, GoOK
<1>4. CASE Finish(r)
  BY <1>4, FinishOK
<1> QED
  BY <1>2, <1>3, <1>4 DEF BookChecked

\* The steps of _perform_booking.
LEMMA BookStep ==
  ASSUME BookingInv, NEW r \in Req,
         \/ \E u \in User, s \in Seat : BookRead(r, u, s)
         \/ BookOwner(r) \/ BookSet(r) \/ BookPrice(r) \/ BookCommit(r) \/ BookRelease(r)
  PROVE  StepOK(r)
<1> USE DEF BookingInv
<1>0. /\ BookingTypeOK /\ StoreTypeOK /\ RequestInv(r)
      /\ seats \in [Seat -> SeatRow] /\ locks \in [Seat -> Lock]
      /\ bookings \in [BookingId -> BookingRow]
      /\ req \in [Req -> Request]
  BY DEF BookingTypeOK, StoreTypeOK
<1>1. ASSUME NEW u \in User, NEW s \in Seat, BookRead(r, u, s)
      PROVE  StepOK(r)
  <2>1. Begin(r, "book", "book_owner", u, s) /\ UNCHANGED storeVars
    BY <1>1 DEF BookRead
  <2>2. "book_owner" \in AtWork \ {"cancel_update", "book_release"}
    BY DEF AtWork, Label
  <2>3. req' \in [Req -> Request] /\ OnlyMoves(r) /\ RequestInv(r)'
    BY <1>0, <2>1, <2>2, BeginOK DEF storeVars
  <2> QED
    BY <1>0, <2>1, <2>3, ReadOnlyOK DEF storeVars
<1>2. CASE BookOwner(r)
  <2>1. req[r].pc = "book_owner" /\ UNCHANGED storeVars
    BY <1>2 DEF BookOwner, At
  <2>2. /\ "book_owner" \in AtWork \ {"book_release"}
        /\ "book_set" \in AtWork \ {"cancel_update", "book_release"}
    BY DEF AtWork, Label
  <2>3. BookChecked(r, FALSE) \/ Go(r, "book_set") \/ Finish(r)
    BY <1>2 DEF BookOwner
  <2>4. req' \in [Req -> Request] /\ OnlyMoves(r) /\ RequestInv(r)'
    BY <1>0, <2>1, <2>2, <2>3, BookCheckedOK, GoOK, FinishOK DEF storeVars
  <2> QED
    BY <1>0, <2>1, <2>4, ReadOnlyOK DEF storeVars
<1>3. CASE BookSet(r)
  <2>1. req[r].pc = "book_set" /\ UNCHANGED <<seats, bookings>>
    BY <1>3 DEF BookSet, At
  <2>2. req[r].user \in User /\ req[r].seat \in Seat
    BY <1>0, <2>1 DEF RequestInv, AtWork, Label
  <2>3. CASE Acquire(req[r].seat, req[r].user, LockTTL) /\ BookChecked(r, TRUE)
    <3>1. locks' \in [Seat -> Lock]
      BY <1>0, <2>2, <2>3, RedisType
    <3>2. req' \in [Req -> Request] /\ OnlyMoves(r) /\ RequestInv(r)'
      BY <1>0, <2>1, <2>3, BookCheckedOK
    <3> QED
      BY <1>0, <2>1, <3>1, <3>2, ReadOnlyOK
  <2>4. CASE Finish(r) /\ UNCHANGED locks
    <3>1. req' \in [Req -> Request] /\ OnlyMoves(r) /\ RequestInv(r)'
      BY <1>0, <2>4, FinishOK
    <3> QED
      BY <1>0, <2>1, <2>4, <3>1, ReadOnlyOK
  <2> QED
    BY <1>3, <2>3, <2>4 DEF BookSet
<1>4. CASE BookPrice(r)
  <2> DEFINE p == PriceNow(req[r].seen)
  <2>1. /\ req[r].pc = "book_price" /\ UNCHANGED storeVars
        /\ req' = [req EXCEPT ![r].pc = "book_commit", ![r].price = p]
    BY <1>4 DEF BookPrice, At
  <2>2. /\ "book_price" \in AtWork \ {"book_release"}
        /\ "book_commit" \in AtWork \ {"cancel_update", "book_release"}
        /\ "book_commit" \in Label
    BY DEF AtWork, Label
  <2>3. p \in Nat
    <3>1. req[r].seen.held_price \in Nat \cup {None}
      BY <1>0 DEF Request, SeatRow
    <3> QED
      BY <3>1, PriceInPrices DEF PriceNow
  <2> HIDE DEF p
  <2>4. /\ req' \in [Req -> Request] /\ OnlyMoves(r)
        /\ req'[r].pc = "book_commit" /\ KeepsReads(r)
    BY <1>0, <2>1, <2>2, <2>3, GoWithPriceMoves
  <2>5. RequestInv(r)'
    BY <1>0, <2>1, <2>2, <2>4, AdvanceOK DEF storeVars
  <2> QED
    BY <1>0, <2>1, <2>4, <2>5, ReadOnlyOK DEF storeVars
<1>5. CASE BookCommit(r)
  <2> DEFINE s == req[r].seat
  <2>1. req[r].pc = "book_commit" /\ UNCHANGED locks
    BY <1>5 DEF BookCommit, At
  <2>2. /\ req[r].user \in User /\ s \in Seat /\ req[r].price \in Nat /\ r \in BookingId
        /\ bookings[r].status = "none"
    BY <1>0, <2>1, BookingAssumption DEF RequestInv, AtWork, Label, Request, BookingAssumption
  <2>3. /\ "book_commit" \in AtWork \ {"book_release"}
        /\ "book_undo" \in AtWork \ {"cancel_update", "book_release"}
        /\ "book_release" \in Label
    BY DEF AtWork, Label
  <2>4. CASE /\ SetRow(s, ClaimedRow(r))
             /\ InsertBooking(r, req[r].user, s, req[r].price)
             /\ Go(r, "book_release")
    <3>1. ClaimedRow(r) \in SeatRow
      <4>1. seats[s] \in SeatRow /\ req[r].seen \in SeatRow
        BY <1>0, <2>2 DEF Request
      <4> QED
        BY <4>1, RowUpdates, PessimisticUpdates DEF ClaimedRow
    <3>2. seats' \in [Seat -> SeatRow]
      BY <1>0, <2>2, <2>4, <3>1, SetRowType
    <3>3. /\ bookings' \in [BookingId -> BookingRow]
          /\ \A c \in BookingId : c # r => bookings'[c] = bookings[c]
      BY <1>0, <2>2, <2>4, InsertType
    <3>4. /\ req' \in [Req -> Request] /\ req'[r].pc = "book_release"
          /\ KeepsReads(r) /\ OnlyMoves(r)
      BY <1>0, <2>3, <2>4, GoMoves
    <3>5. RequestInv(r)'
      BY <2>2, <3>4 DEF RequestInv, KeepsReads, At
    <3>6. LedgerKept(r)
      BY <2>2, <3>3 DEF LedgerKept
    <3> QED
      BY <1>0, <2>1, <3>2, <3>3, <3>4, <3>5, <3>6 DEF StepOK, BookingTypeOK, StoreTypeOK
  <2>5. CASE (Go(r, "book_undo") \/ Finish(r)) /\ UNCHANGED <<seats, bookings>>
    <3>1. req' \in [Req -> Request] /\ OnlyMoves(r) /\ RequestInv(r)'
      BY <1>0, <2>1, <2>3, <2>5, GoOK, FinishOK
    <3> QED
      BY <1>0, <2>1, <2>5, <3>1, ReadOnlyOK
  <2> QED
    BY <1>5, <2>4, <2>5 DEF BookCommit
<1>6. CASE BookRelease(r)
  <2>1. /\ req[r].pc \in {"book_release", "book_undo"}
        /\ Release(req[r].seat, req[r].user) /\ Finish(r) /\ UNCHANGED <<seats, bookings>>
    BY <1>6 DEF BookRelease, At
  <2>2. req[r].user \in User /\ req[r].seat \in Seat
    BY <1>0, <2>1 DEF RequestInv, AtWork, Label
  <2>3. locks' \in [Seat -> Lock]
    BY <1>0, <2>1, <2>2, RedisType
  <2>4. req' \in [Req -> Request] /\ OnlyMoves(r) /\ RequestInv(r)'
    BY <1>0, <2>1, FinishOK
  <2> QED
    BY <1>0, <2>1, <2>3, <2>4, ReadOnlyOK
<1> QED
  BY <1>1, <1>2, <1>3, <1>4, <1>5, <1>6

\* The steps of cancel_booking and of the sweep, and the death of a handler.
LEMMA OtherStep ==
  ASSUME BookingInv, NEW r \in Req,
         \/ \E b \in BookingId : CancelRead(r, b)
         \/ CancelUpdate(r) \/ ListRead(r) \/ ListUpdate(r) \/ Crash(r)
  PROVE  StepOK(r)
<1> USE DEF BookingInv
<1>0. /\ BookingTypeOK /\ StoreTypeOK /\ RequestInv(r) /\ LedgerInv
      /\ seats \in [Seat -> SeatRow] /\ locks \in [Seat -> Lock]
      /\ bookings \in [BookingId -> BookingRow]
      /\ req \in [Req -> Request]
  BY DEF BookingTypeOK, StoreTypeOK
<1>1. ASSUME NEW b \in BookingId, CancelRead(r, b)
      PROVE  StepOK(r)
  <2> DEFINE u == bookings[b].user
             s == bookings[b].seat
             q1 == [Idle EXCEPT !.pc = "cancel_update"]
             q2 == [q1 EXCEPT !.user = u]
             q3 == [q2 EXCEPT !.seat = s]
             q == [q3 EXCEPT !.target = b]
  <2>1. /\ req[r].pc = "idle" /\ bookings[b].status = "confirmed" /\ UNCHANGED storeVars
        /\ req' = [req EXCEPT ![r] = q]
    BY <1>1 DEF CancelRead, At
  <2>2. u \in User /\ s \in Seat
    BY <1>0, <2>1 DEF LedgerInv
  <2> HIDE DEF u
  <2>3. s = bookings[b].seat
    OBVIOUS
  <2> HIDE DEF s
  <2>4. q1 \in Request /\ q1.pc = "cancel_update"
    BY IdleType, FieldUpdates DEF Idle, Label
  <2> HIDE DEF q1
  <2>5. q2 \in Request /\ q2.pc = "cancel_update" /\ q2.user = u
    BY <2>2, <2>4, FieldUpdates DEF Request
  <2> HIDE DEF q2
  <2>6. q3 \in Request /\ q3.pc = "cancel_update" /\ q3.user = u /\ q3.seat = s
    BY <2>2, <2>5, FieldUpdates DEF Request
  <2> HIDE DEF q3
  <2>7. /\ q \in Request /\ q.pc = "cancel_update" /\ q.user = u /\ q.seat = s
        /\ q.target = b
    BY <2>6, FieldUpdates DEF Request
  <2> HIDE DEF q
  <2>8. req' \in [Req -> Request] /\ OnlyMoves(r) /\ req'[r] = q
    BY <1>0, <2>1, <2>7 DEF OnlyMoves
  <2>9. bookings[r].status = "none"
    BY <1>0, <2>1 DEF RequestInv
  <2>10. RequestInv(r)'
    BY <2>1, <2>2, <2>3, <2>7, <2>8, <2>9 DEF RequestInv, storeVars, At
  <2> QED
    BY <1>0, <2>1, <2>8, <2>10, ReadOnlyOK DEF storeVars
<1>2. CASE CancelUpdate(r)
  <2> DEFINE s == req[r].seat
             b == req[r].target
  <2>1. /\ req[r].pc = "cancel_update" /\ UNCHANGED locks /\ Finish(r)
        /\ SetRow(s, CancelledRow(seats[s]))
        /\ bookings' = [bookings EXCEPT ![b].status = "cancelled"]
    BY <1>2 DEF CancelUpdate, At
  <2>2. s \in Seat /\ b \in BookingId /\ bookings[b].status # "none"
    BY <1>0, <2>1 DEF RequestInv, AtWork, Label, At
  <2>3. seats' \in [Seat -> SeatRow]
    BY <1>0, <2>1, <2>2, RowUpdates, SetRowType
  <2>4. /\ bookings' \in [BookingId -> BookingRow] /\ LedgerKept(r)
    <3>1. /\ bookings' \in [BookingId -> BookingRow]
          /\ bookings'[b].status = "cancelled"
          /\ \A c \in BookingId : /\ bookings'[c].seat = bookings[c].seat
                                  /\ c # b => bookings'[c] = bookings[c]
      BY <1>0, <2>1, <2>2, CancelType
    <3> HIDE DEF b
    <3>2. ASSUME NEW c \in BookingId, bookings[c].status # "none"
          PROVE  bookings'[c].status # "none" /\ bookings'[c].seat = bookings[c].seat
      BY <2>2, <3>1, <3>2
    <3>3. ASSUME NEW c \in BookingId, bookings[c].status = "none"
          PROVE  bookings'[c].status = "none"
      BY <2>2, <3>1, <3>3
    <3> QED
      BY <3>1, <3>2, <3>3 DEF LedgerKept
  <2>5. req' \in [Req -> Request] /\ OnlyMoves(r) /\ RequestInv(r)'
    BY <1>0, <2>1, FinishOK
  <2> QED
    BY <1>0, <2>1, <2>3, <2>4, <2>5 DEF StepOK, BookingTypeOK, StoreTypeOK
<1>3. CASE ListRead(r)
  <2> DEFINE q1 == [Idle EXCEPT !.pc = "list_update"]
             q == [q1 EXCEPT !.expired = Lapsed]
  <2>1. req[r].pc = "idle" /\ UNCHANGED storeVars /\ req' = [req EXCEPT ![r] = q]
    BY <1>3 DEF ListRead, At
  <2>2. q1 \in Request /\ q1.pc = "list_update"
    BY IdleType, FieldUpdates DEF Idle, Label
  <2> HIDE DEF q1
  <2>3. Lapsed \in SUBSET Seat
    BY DEF Lapsed
  <2>4. q \in Request /\ q.pc = "list_update"
    BY <2>2, <2>3, FieldUpdates DEF Request
  <2> HIDE DEF q
  <2>5. req' \in [Req -> Request] /\ OnlyMoves(r) /\ req'[r] = q
    BY <1>0, <2>1, <2>4 DEF OnlyMoves
  <2>6. RequestInv(r)'
    BY <1>0, <2>1, <2>4, <2>5 DEF RequestInv, storeVars, At, AtWork
  <2> QED
    BY <1>0, <2>1, <2>5, <2>6, ReadOnlyOK DEF storeVars
<1>4. CASE ListUpdate(r)
  <2>1. /\ Finish(r) /\ UNCHANGED <<locks, bookings>>
        /\ seats' = [s \in Seat |-> IF s \in req[r].expired THEN FreedRow(seats[s]) ELSE seats[s]]
    BY <1>4 DEF ListUpdate
  <2>2. \A s \in Seat : FreedRow(seats[s]) \in SeatRow
    BY <1>0, RowUpdates
  <2>3. seats' \in [Seat -> SeatRow]
    BY <1>0, <2>1, <2>2
  <2>4. req' \in [Req -> Request] /\ OnlyMoves(r) /\ RequestInv(r)'
    BY <1>0, <2>1, FinishOK
  <2> QED
    BY <1>0, <2>1, <2>3, <2>4, ReadOnlyOK
<1>5. CASE Crash(r)
  <2>1. Finish(r) /\ UNCHANGED storeVars
    BY <1>5 DEF Crash
  <2>2. req' \in [Req -> Request] /\ OnlyMoves(r) /\ RequestInv(r)'
    BY <1>0, <2>1, FinishOK
  <2> QED
    BY <1>0, <2>1, <2>2, ReadOnlyOK DEF storeVars
<1> QED
  BY <1>1, <1>2, <1>3, <1>4, <1>5

LEMMA RequestStepOK ==
  ASSUME BookingInv, NEW r \in Req, RequestStep(r)
  PROVE  StepOK(r)
  BY HoldStep, BookStep, OtherStep DEF RequestStep

\* Time only shortens timers.
\* The other requests keep what holds of them: the booking they cancel stays
\* where it is, and nobody inserts a booking of their name.
LEMMA OthersKept ==
  ASSUME BookingInv, NEW r \in Req, StepOK(r), NEW q \in Req, q # r,
         req[r].pc \notin {"done", "book_release"}
  PROVE  RequestInv(q)'
<1>1. /\ RequestInv(q) /\ req'[q] = req[q] /\ LedgerKept(r)
      /\ q \in BookingId /\ bookings[r].status = "none"
  BY BookingAssumption DEF BookingInv, StepOK, OnlyMoves, RequestInv, BookingAssumption
<1> QED
  BY <1>1 DEF RequestInv, LedgerKept, At

LEMMA InitInv == BookingInit => BookingInv
<1> SUFFICES ASSUME BookingInit PROVE BookingInv
  OBVIOUS
<1>1. /\ FreshSeat \in SeatRow /\ Unlocked \in Lock /\ NoBooking \in BookingRow
      /\ Idle \in Request
  BY IdleType DEF Unlocked, Lock, NoBooking, BookingRow
<1>2. BookingTypeOK
  BY <1>1 DEF BookingInit, StoreInit, BookingTypeOK, StoreTypeOK
<1>3. \A b \in BookingId : bookings[b].status = "none"
  BY DEF BookingInit, StoreInit, NoBooking
<1>4. \A r \in Req : req[r].pc = "idle"
  BY DEF BookingInit, Idle
<1>5. \A r \in Req : RequestInv(r)
  BY <1>3, <1>4, BookingAssumption DEF RequestInv, AtWork, At, BookingAssumption
<1> QED
  BY <1>2, <1>3, <1>5 DEF BookingInv, LedgerInv

\* Only the claim and the cancellation write the bookings table.
LEMMA WhoWritesBookings ==
  ASSUME NEW r \in Req, RequestStep(r)
  PROVE  bookings' = bookings \/ BookCommit(r) \/ CancelUpdate(r)
  BY DEF RequestStep, storeVars, LockRead, UnlockRelease, BookRead, CancelRead, LockSet,
         LockQuote, LockUpdate, LockUndo, UnlockUpdate, BookOwner, BookSet, BookPrice,
         BookRelease, ListRead, ListUpdate, Crash

\* The claim that wins: its request, its seat and its booking.
LEMMA CommitInserts ==
  ASSUME BookingInv, NEW r \in Req, BookCommit(r), bookings' # bookings
  PROVE  LET s == req[r].seat IN
         /\ s \in Seat /\ req[r].user \in User /\ r \in BookingId
         /\ bookings[r].status = "none"
         /\ ClaimWon(r) /\ IndexAdmits(s)
         /\ seats'[s] = ClaimedRow(r)
         /\ \A t \in Seat : t # s => seats'[t] = seats[t]
         /\ bookings'[r] = [user |-> req[r].user, seat |-> s, status |-> "confirmed",
                            amount |-> req[r].price]
         /\ \A c \in BookingId : c # r => bookings'[c] = bookings[c]
<1> DEFINE s == req[r].seat
<1>1. /\ StoreTypeOK /\ RequestInv(r) /\ req[r].pc = "book_commit"
      /\ seats \in [Seat -> SeatRow] /\ req \in [Req -> Request]
  BY DEF BookingInv, BookingTypeOK, StoreTypeOK, BookCommit, At
<1>2. /\ ClaimWon(r) /\ IndexAdmits(s) /\ SetRow(s, ClaimedRow(r))
      /\ InsertBooking(r, req[r].user, s, req[r].price)
  BY DEF BookCommit
<1>3. /\ s \in Seat /\ req[r].user \in User /\ req[r].price \in Nat /\ r \in BookingId
      /\ bookings[r].status = "none"
  BY <1>1, BookingAssumption DEF RequestInv, AtWork, Label, Request, BookingAssumption
<1>4. ClaimedRow(r) \in SeatRow
  <2>1. seats[s] \in SeatRow /\ req[r].seen \in SeatRow
    BY <1>1, <1>3 DEF Request
  <2> QED
    BY <2>1, RowUpdates, PessimisticUpdates DEF ClaimedRow
<1>5. seats'[s] = ClaimedRow(r) /\ \A t \in Seat : t # s => seats'[t] = seats[t]
  BY <1>1, <1>2, <1>3, <1>4, SetRowType
<1>6. /\ bookings'[r] = [user |-> req[r].user, seat |-> s, status |-> "confirmed",
                         amount |-> req[r].price]
      /\ \A c \in BookingId : c # r => bookings'[c] = bookings[c]
  BY <1>1, <1>2, <1>3, InsertType
<1> QED
  BY <1>2, <1>3, <1>5, <1>6

\* The cancellation: its seat and its booking.
LEMMA CancelWrites ==
  ASSUME BookingInv, NEW r \in Req, CancelUpdate(r)
  PROVE  LET s == req[r].seat
             b == req[r].target
         IN
         /\ s \in Seat /\ b \in BookingId /\ bookings[b].seat = s
         /\ bookings[b].status # "none"
         /\ seats'[s] = CancelledRow(seats[s])
         /\ \A t \in Seat : t # s => seats'[t] = seats[t]
         /\ bookings'[b].status = "cancelled"
         /\ \A c \in BookingId : bookings'[c].user = bookings[c].user
         /\ \A c \in BookingId : bookings'[c].seat = bookings[c].seat
         /\ \A c \in BookingId : bookings'[c].amount = bookings[c].amount
         /\ \A c \in BookingId : c # b => bookings'[c] = bookings[c]
<1> DEFINE s == req[r].seat
           b == req[r].target
<1>1. StoreTypeOK /\ RequestInv(r) /\ req[r].pc = "cancel_update" /\ seats \in [Seat -> SeatRow]
  BY DEF BookingInv, BookingTypeOK, StoreTypeOK, CancelUpdate, At
<1>2. /\ SetRow(s, CancelledRow(seats[s]))
      /\ bookings' = [bookings EXCEPT ![b].status = "cancelled"]
  BY DEF CancelUpdate
<1>3. /\ s \in Seat /\ b \in BookingId /\ bookings[b].seat = s
      /\ bookings[b].status # "none"
  BY <1>1 DEF RequestInv, AtWork, Label, At
<1>4. CancelledRow(seats[s]) \in SeatRow
  BY <1>1, <1>3, RowUpdates
<1>5. /\ seats'[s] = CancelledRow(seats[s])
      /\ \A t \in Seat : t # s => seats'[t] = seats[t]
  BY <1>1, <1>2, <1>3, <1>4, SetRowType
<1>6. /\ bookings'[b].status = "cancelled"
      /\ \A c \in BookingId : bookings'[c].user = bookings[c].user
      /\ \A c \in BookingId : bookings'[c].seat = bookings[c].seat
      /\ \A c \in BookingId : bookings'[c].amount = bookings[c].amount
      /\ \A c \in BookingId : c # b => bookings'[c] = bookings[c]
  BY <1>1, <1>2, <1>3, CancelType
<1> QED
  BY <1>3, <1>5, <1>6

\* The inductive invariant is kept by every step.
LEMMA NextInv == BookingInv /\ [BookingNext]_bookingVars => BookingInv'
<1> SUFFICES ASSUME BookingInv, [BookingNext]_bookingVars
             PROVE  BookingInv'
  OBVIOUS
<1>1. ASSUME NEW r \in Req, RequestStep(r)
      PROVE  BookingInv'
  <2>1. /\ StepOK(r) /\ BookingTypeOK' /\ RequestInv(r)'
    BY <1>1, RequestStepOK DEF StepOK
  <2>2. CASE bookings' = bookings
    <3>1. LedgerInv'
      BY <2>2 DEF BookingInv, LedgerInv
    <3>2. ASSUME NEW q \in Req, q # r
          PROVE  RequestInv(q)'
      BY <2>1, <2>2, <3>2 DEF BookingInv, StepOK, OnlyMoves, RequestInv, At
    <3> QED
      BY <2>1, <3>1, <3>2 DEF BookingInv
  <2>3. CASE BookCommit(r) /\ bookings' # bookings
    <3>1. LedgerInv'
      <4>1. /\ req[r].seat \in Seat /\ req[r].user \in User
            /\ bookings'[r] = [user |-> req[r].user, seat |-> req[r].seat,
                               status |-> "confirmed", amount |-> req[r].price]
            /\ \A c \in BookingId : c # r => bookings'[c] = bookings[c]
        BY <2>3, CommitInserts
      <4>2. bookings'[r].user \in User /\ bookings'[r].seat \in Seat
        BY <4>1
      <4> QED
        BY <4>1, <4>2 DEF BookingInv, LedgerInv
    <3>2. req[r].pc = "book_commit"
      BY <2>3 DEF BookCommit, At
    <3>3. \A q \in Req : q # r => RequestInv(q)'
      BY <2>1, <3>2, OthersKept
    <3> QED
      BY <2>1, <3>1, <3>3 DEF BookingInv
  <2>4. CASE CancelUpdate(r)
    <3>1. LedgerInv'
      BY <2>4, CancelWrites DEF BookingInv, LedgerInv
    <3>2. req[r].pc = "cancel_update"
      BY <2>4 DEF CancelUpdate, At
    <3>3. \A q \in Req : q # r => RequestInv(q)'
      BY <2>1, <3>2, OthersKept
    <3> QED
      BY <2>1, <3>1, <3>3 DEF BookingInv
  <2> QED
    BY <1>1, <2>2, <2>3, <2>4, WhoWritesBookings
<1>2. CASE Tick
  <2>1. StoreTypeOK' /\ bookings' = bookings /\ req' = req
    BY <1>2, TickKeeps DEF Tick, BookingInv, BookingTypeOK
  <2> QED
    BY <2>1 DEF BookingInv, BookingTypeOK, LedgerInv, RequestInv, At
<1>3. CASE UNCHANGED bookingVars
  BY <1>3 DEF bookingVars, BookingInv, BookingTypeOK, StoreTypeOK, LedgerInv, RequestInv, At
<1> QED
  BY <1>1, <1>2, <1>3 DEF BookingNext

LEMMA InvHolds == BookingSpec => []BookingInv
  BY InitInv, NextInv, PTL DEF BookingSpec

----------------------------------------------------------------------------
(* Theorems.                                                               *)

\* The tables, the Redis locks and what every handler remembers stay well
\* typed, in every interleaving of any number of handlers with crashes and
\* the passing of time.
THEOREM TypeCorrectness == BookingSpec => []BookingTypeOK
<1>1. BookingInv => BookingTypeOK
  BY DEF BookingInv
<1> QED
  BY <1>1, InvHolds, PTL

\* The strengthening of the seat's side: the two facts of verify_integrity
\* that hold together with the invariant above.
SaleInv == BookingInv /\ OneConfirmedBookingPerSeat /\ BookedSeatHasBooking

LEMMA SaleInit == BookingInit => SaleInv
<1> SUFFICES ASSUME BookingInit PROVE SaleInv
  OBVIOUS
<1>1. \A b \in BookingId : bookings[b].status = "none"
  BY DEF BookingInit, StoreInit, NoBooking
<1>2. \A s \in Seat : seats[s].status = "available"
  BY DEF BookingInit, StoreInit, FreshSeat
<1> QED
  BY <1>1, <1>2, InitInv DEF SaleInv, OneConfirmedBookingPerSeat, BookedSeatHasBooking

\* A step that leaves the bookings table alone makes no seat booked.
LEMMA NoSaleWithoutBooking ==
  ASSUME BookingInv, NEW r \in Req, RequestStep(r), bookings' = bookings,
         NEW s \in Seat, seats'[s].status = "booked"
  PROVE  seats[s].status = "booked"
<1>1. /\ seats \in [Seat -> SeatRow] /\ RequestInv(r) /\ StoreTypeOK
      /\ req \in [Req -> Request]
  BY DEF BookingInv, BookingTypeOK, StoreTypeOK
<1>2. CASE seats' = seats
  BY <1>2
<1>3. CASE LockUpdate(r) \/ UnlockUpdate(r)
  <2> DEFINE t == req[r].seat
  <2>1. t \in Seat /\ req[r].user \in User /\ req[r].price \in Nat
    BY <1>1, <1>3 DEF LockUpdate, UnlockUpdate, At, RequestInv, AtWork, Label, Request
  <2>2. \/ seats' = seats
        \/ SetRow(t, LockedRow(seats[t], req[r].user, req[r].price))
        \/ SetRow(t, FreedRow(seats[t]))
    BY <1>3 DEF LockUpdate, UnlockUpdate
  <2>3. /\ LockedRow(seats[t], req[r].user, req[r].price).status = "locked"
        /\ FreedRow(seats[t]).status = "available"
    BY <1>1, <2>1, UpdatesMoveVersion
  <2> HIDE DEF t
  <2>4. seats' = seats \/ \E row : seats' = [seats EXCEPT ![t] = row] /\ row.status # "booked"
    BY <2>2, <2>3 DEF SetRow
  <2> QED
    BY <1>1, <2>1, <2>4
<1>4. CASE ListUpdate(r)
  <2>1. seats'[s] = FreedRow(seats[s]) \/ seats'[s] = seats[s]
    BY <1>4 DEF ListUpdate
  <2>2. FreedRow(seats[s]).status = "available"
    BY <1>1, UpdatesMoveVersion
  <2> QED
    BY <2>1, <2>2
<1>5. CASE CancelUpdate(r)
  <2>1. /\ req[r].seat \in Seat
        /\ seats'[req[r].seat] = CancelledRow(seats[req[r].seat])
        /\ s # req[r].seat => seats'[s] = seats[s]
    BY <1>5, CancelWrites
  <2>2. CancelledRow(seats[req[r].seat]).status = "available"
    BY <1>1, <2>1, UpdatesMoveVersion
  <2> QED
    BY <2>1, <2>2
<1>6. CASE BookCommit(r)
  <2>1. seats' = seats \/ InsertBooking(r, req[r].user, req[r].seat, req[r].price)
    BY <1>6 DEF BookCommit
  <2>2. CASE InsertBooking(r, req[r].user, req[r].seat, req[r].price)
    <3>1. /\ req[r].user \in User /\ req[r].seat \in Seat /\ req[r].price \in Nat
          /\ r \in BookingId /\ bookings[r].status = "none"
      BY <1>1, <1>6, BookingAssumption
      DEF BookCommit, At, RequestInv, AtWork, Label, Request, BookingAssumption
    <3>2. bookings'[r] = [user |-> req[r].user, seat |-> req[r].seat, status |-> "confirmed",
                          amount |-> req[r].price]
      BY <1>1, <2>2, <3>1, InsertType
    <3>3. bookings'[r].status = "confirmed"
      BY <3>2
    <3> QED
      BY <3>1, <3>3
  <2> QED
    BY <1>2, <2>1, <2>2
<1> QED
  BY <1>2, <1>3, <1>4, <1>5, <1>6 DEF RequestStep, storeVars, LockRead, UnlockRelease, BookRead, CancelRead, LockSet,
         LockQuote, LockUndo, BookOwner, BookSet, BookPrice, BookRelease, ListRead, Crash

LEMMA SaleNext == SaleInv /\ [BookingNext]_bookingVars => SaleInv'
<1> SUFFICES ASSUME SaleInv, [BookingNext]_bookingVars
             PROVE  OneConfirmedBookingPerSeat' /\ BookedSeatHasBooking'
  BY NextInv DEF SaleInv
<1>0. BookingInv /\ OneConfirmedBookingPerSeat /\ BookedSeatHasBooking
  BY DEF SaleInv
<1>1. ASSUME NEW r \in Req, RequestStep(r), bookings' = bookings
      PROVE  OneConfirmedBookingPerSeat' /\ BookedSeatHasBooking'
  <2>1. OneConfirmedBookingPerSeat'
    BY <1>0, <1>1 DEF OneConfirmedBookingPerSeat
  <2>2. BookedSeatHasBooking'
    BY <1>0, <1>1, NoSaleWithoutBooking DEF BookedSeatHasBooking, Confirmed
  <2> QED
    BY <2>1, <2>2
<1>2. ASSUME NEW r \in Req, BookCommit(r), bookings' # bookings
      PROVE  OneConfirmedBookingPerSeat' /\ BookedSeatHasBooking'
  <2> DEFINE s == req[r].seat
  <2>1. /\ s \in Seat /\ r \in BookingId /\ IndexAdmits(s)
        /\ bookings[r].status = "none"
        /\ bookings'[r] = [user |-> req[r].user, seat |-> s, status |-> "confirmed",
                           amount |-> req[r].price]
        /\ \A t \in Seat : t # s => seats'[t] = seats[t]
        /\ \A c \in BookingId : c # r => bookings'[c] = bookings[c]
    BY <1>0, <1>2, CommitInserts
  <2>2. bookings'[r].status = "confirmed" /\ bookings'[r].seat = s
    BY <2>1
  <2> HIDE DEF s
  <2>3. \A c \in BookingId : bookings[c].seat = s => bookings[c].status # "confirmed"
    BY <2>1 DEF IndexAdmits, Confirmed
  <2>4. OneConfirmedBookingPerSeat'
    BY <1>0, <2>1, <2>2, <2>3 DEF OneConfirmedBookingPerSeat
  <2>5. ASSUME NEW t \in Seat, seats'[t].status = "booked"
        PROVE  \E c \in BookingId : bookings'[c].seat = t /\ bookings'[c].status = "confirmed"
    <3>1. CASE t = s
      BY <2>1, <2>2, <3>1
    <3>2. CASE t # s
      <4>1. PICK c \in BookingId : bookings[c].seat = t /\ bookings[c].status = "confirmed"
        BY <1>0, <2>1, <2>5, <3>2 DEF BookedSeatHasBooking, Confirmed
      <4>2. c # r
        BY <2>1, <4>1
      <4> QED
        BY <2>1, <4>1, <4>2
    <3> QED
      BY <3>1, <3>2
  <2>6. BookedSeatHasBooking'
    BY <2>5 DEF BookedSeatHasBooking, Confirmed
  <2> QED
    BY <2>4, <2>6
<1>3. ASSUME NEW r \in Req, CancelUpdate(r)
      PROVE  OneConfirmedBookingPerSeat' /\ BookedSeatHasBooking'
  <2> DEFINE s == req[r].seat
             b == req[r].target
  <2>1. /\ s \in Seat /\ b \in BookingId /\ bookings[b].seat = s
        /\ seats'[s] = CancelledRow(seats[s])
        /\ \A t \in Seat : t # s => seats'[t] = seats[t]
        /\ bookings'[b].status = "cancelled"
        /\ \A c \in BookingId : bookings'[c].seat = bookings[c].seat
        /\ \A c \in BookingId : c # b => bookings'[c] = bookings[c]
    BY <1>0, <1>3, CancelWrites
  <2>2. seats'[s].status = "available"
    <3>1. seats[s] \in SeatRow
      BY <1>0, <2>1 DEF BookingInv, BookingTypeOK, StoreTypeOK
    <3> QED
      BY <2>1, <3>1, UpdatesMoveVersion
  <2> HIDE DEF s, b
  <2>3. OneConfirmedBookingPerSeat'
    BY <1>0, <2>1 DEF OneConfirmedBookingPerSeat
  <2>4. ASSUME NEW t \in Seat, seats'[t].status = "booked"
        PROVE  \E c \in BookingId : bookings'[c].seat = t /\ bookings'[c].status = "confirmed"
    <3>1. t # s
      BY <2>2, <2>4
    <3>2. PICK c \in BookingId : bookings[c].seat = t /\ bookings[c].status = "confirmed"
      BY <1>0, <2>1, <2>4, <3>1 DEF BookedSeatHasBooking, Confirmed
    <3>3. c # b
      BY <2>1, <3>1, <3>2
    <3> QED
      BY <2>1, <3>2, <3>3
  <2>5. BookedSeatHasBooking'
    BY <2>4 DEF BookedSeatHasBooking, Confirmed
  <2> QED
    BY <2>3, <2>5
<1>4. CASE Tick
  <2>1. /\ bookings' = bookings
        /\ \A s \in Seat : seats'[s].status = seats[s].status
    BY <1>0, <1>4, TickKeeps DEF Tick, BookingInv, BookingTypeOK
  <2> QED
    BY <1>0, <2>1 DEF OneConfirmedBookingPerSeat, BookedSeatHasBooking, Confirmed
<1>5. CASE UNCHANGED bookingVars
  BY <1>0, <1>5 DEF bookingVars, OneConfirmedBookingPerSeat, BookedSeatHasBooking, Confirmed
<1> QED
  BY <1>1, <1>2, <1>3, <1>4, <1>5, WhoWritesBookings DEF BookingNext

LEMMA SaleInvHolds == BookingSpec => []SaleInv
  BY SaleInit, SaleNext, PTL DEF BookingSpec

\* A seat is sold to one booking at a time, whichever claim strategy runs
\* and with or without the Redis lock: the partial unique index decides at
\* the commit of every claim.
THEOREM NoDoubleSale == BookingSpec => []OneConfirmedBookingPerSeat
<1>1. SaleInv => OneConfirmedBookingPerSeat
  BY DEF SaleInv
<1> QED
  BY <1>1, SaleInvHolds, PTL

\* A seat shown as booked always has its confirmed booking: the claim writes
\* both in one transaction, and a cancellation that acts on an old read of
\* its booking frees the row together with it.
THEOREM BookedMeansSold == BookingSpec => []BookedSeatHasBooking
<1>1. SaleInv => BookedSeatHasBooking
  BY DEF SaleInv
<1> QED
  BY <1>1, SaleInvHolds, PTL

----------------------------------------------------------------------------
(* Who takes a booked row back.                                            *)

\* The handlers that write rows, and the status a claim leaves.
LEMMA WhoWritesRows ==
  ASSUME NEW r \in Req, RequestStep(r), seats' # seats
  PROVE  LockUpdate(r) \/ UnlockUpdate(r) \/ BookCommit(r) \/ CancelUpdate(r) \/ ListUpdate(r)
  BY DEF RequestStep, storeVars, LockRead, UnlockRelease, BookRead, CancelRead, LockSet,
         LockQuote, LockUndo, BookOwner, BookSet, BookPrice, BookRelease, ListRead, Crash

LEMMA ClaimBooks ==
  ASSUME NEW r \in Req, seats[req[r].seat] \in SeatRow
  PROVE  ClaimedRow(r).status = "booked"
  BY DEF ClaimedRow, PessimisticRow, BookedRow, SeatRow

LEMMA LeavesBooked ==
  ASSUME BookingInv, [BookingNext]_bookingVars, NEW s \in Seat,
         seats[s].status = "booked", seats'[s].status # "booked"
  PROVE  \E r \in Req : req'[r] # req[r] /\ req[r].pc \in {"cancel_update", "list_update"}
<1>1. seats \in [Seat -> SeatRow] /\ req \in [Req -> Request] /\ StoreTypeOK
  BY DEF BookingInv, BookingTypeOK, StoreTypeOK
<1>2. PICK r \in Req : RequestStep(r)
  <2>1. ~Tick
    BY <1>1, TickKeeps DEF Tick
  <2> QED
    BY <2>1 DEF BookingNext, bookingVars
<1>3. ~LockUpdate(r) /\ ~UnlockUpdate(r)
  BY <1>1 DEF LockUpdate, UnlockUpdate, SetRow, Lockable
<1>4. ~BookCommit(r)
  <2> SUFFICES ASSUME BookCommit(r) PROVE FALSE
    OBVIOUS
  <2>1. req[r].seat \in Seat
    BY DEF BookCommit, At, BookingInv, RequestInv, AtWork, Label
  <2>2. PICK row : row = ClaimedRow(r) /\ row.status = "booked"
    BY <1>1, <2>1, ClaimBooks
  <2>3. seats' = seats \/ seats' = [seats EXCEPT ![req[r].seat] = row]
    BY <2>2 DEF BookCommit, SetRow
  <2> QED
    BY <1>1, <2>1, <2>2, <2>3
<1>5. req[r].pc \in {"cancel_update", "list_update"} /\ Finish(r)
  BY <1>2, <1>3, <1>4, WhoWritesRows DEF CancelUpdate, ListUpdate, At
<1>6. req'[r].pc = "done"
  BY <1>1, <1>5, FinishMoves
<1> QED
  BY <1>5, <1>6

\* A hold, or the release of one, that acts on an old read never takes a
\* booked row back, nor does a claim of either strategy: only a cancellation
\* or the sweep of expired holds does.
THEOREM StaleHoldsTakeNothing == BookingSpec => BookedLeftOnlyByCancelOrSweep
<1>1. BookingInv /\ [BookingNext]_bookingVars =>
        [\A s \in Seat : seats[s].status = "booked" /\ seats'[s].status # "booked" =>
           \E r \in Req : /\ req'[r] # req[r]
                          /\ req[r].pc \in {"cancel_update", "list_update"}]_bookingVars
  BY LeavesBooked
<1> QED
  BY <1>1, InvHolds, PTL DEF BookingSpec, BookedLeftOnlyByCancelOrSweep

----------------------------------------------------------------------------
(* Optimistic locking.                                                     *)

\* The row of seat s has moved its version, or only its deadline.
RowMoves(s) ==
  \/ seats'[s].version > seats[s].version
  \/ seats'[s] = [seats[s] EXCEPT !.locked_until = seats'[s].locked_until]

LEMMA SameRowMoves ==
  ASSUME NEW s \in Seat, seats \in [Seat -> SeatRow], seats'[s] = seats[s]
  PROVE  RowMoves(s)
<1>1. seats[s] \in SeatRow
  OBVIOUS
<1>2. seats[s] = [seats[s] EXCEPT !.locked_until = seats[s].locked_until]
  BY <1>1 DEF SeatRow
<1> QED
  BY <1>2 DEF RowMoves

LEMMA StepMovesVersion ==
  ASSUME Strategy = "optimistic", BookingInv, [BookingNext]_bookingVars, NEW s \in Seat
  PROVE  RowMoves(s)
<1>1. /\ seats \in [Seat -> SeatRow] /\ seats[s] \in SeatRow /\ seats[s].version \in Nat
      /\ StoreTypeOK
  BY DEF BookingInv, BookingTypeOK, StoreTypeOK, SeatRow
<1>2. CASE seats' = seats
  BY <1>1, <1>2, SameRowMoves
<1>3. ASSUME NEW r \in Req, LockUpdate(r) \/ UnlockUpdate(r)
      PROVE  RowMoves(s)
  <2> DEFINE t == req[r].seat
  <2>1. t \in Seat
    BY <1>3 DEF LockUpdate, UnlockUpdate, At, BookingInv, RequestInv, AtWork, Label
  <2>2. \/ seats' = seats
        \/ seats' = [seats EXCEPT ![t] = LockedRow(seats[t], req[r].user, req[r].price)]
        \/ seats' = [seats EXCEPT ![t] = FreedRow(seats[t])]
    BY <1>3 DEF LockUpdate, UnlockUpdate, SetRow
  <2> HIDE DEF t
  <2>3. CASE t = s
    <3>1. /\ LockedRow(seats[t], req[r].user, req[r].price).version = seats[t].version + 1
          /\ FreedRow(seats[t]).version = seats[t].version + 1
      BY <1>1, <2>3, UpdatesMoveVersion
    <3>2. seats' = seats \/ seats'[s].version = seats[s].version + 1
      BY <1>1, <2>1, <2>2, <2>3, <3>1
    <3> QED
      BY <1>1, <1>2, <3>2 DEF RowMoves
  <2>4. CASE t # s
    BY <1>1, <2>1, <2>2, <2>4, SameRowMoves
  <2> QED
    BY <2>3, <2>4
<1>4. ASSUME NEW r \in Req, ListUpdate(r)
      PROVE  RowMoves(s)
  <2>1. seats'[s] = FreedRow(seats[s]) \/ seats'[s] = seats[s]
    BY <1>4 DEF ListUpdate
  <2>2. FreedRow(seats[s]).version = seats[s].version + 1
    BY <1>1, UpdatesMoveVersion
  <2>3. CASE seats'[s] = FreedRow(seats[s])
    BY <1>1, <2>2, <2>3 DEF RowMoves
  <2> QED
    BY <1>1, <2>1, <2>3, SameRowMoves
<1>5. ASSUME NEW r \in Req, CancelUpdate(r)
      PROVE  RowMoves(s)
  <2>1. /\ seats'[req[r].seat] = CancelledRow(seats[req[r].seat])
        /\ s # req[r].seat => seats'[s] = seats[s]
    BY <1>5, CancelWrites
  <2>2. CancelledRow(seats[s]).version = seats[s].version + 1
    BY <1>1, UpdatesMoveVersion
  <2>3. CASE s = req[r].seat
    <3>1. seats'[s].version = seats[s].version + 1
      BY <2>1, <2>2, <2>3
    <3> QED
      BY <1>1, <3>1 DEF RowMoves
  <2> QED
    BY <1>1, <2>1, <2>3, SameRowMoves
<1>6. ASSUME NEW r \in Req, BookCommit(r)
      PROVE  RowMoves(s)
  <2>1. seats' = seats \/ seats' = [seats EXCEPT ![req[r].seat] = ClaimedRow(r)]
    BY <1>6 DEF BookCommit, SetRow
  <2>2. ClaimedRow(r) = BookedRow(seats[req[r].seat])
    BY DEF ClaimedRow
  <2>3. BookedRow(seats[s]).version = seats[s].version + 1
    BY <1>1, UpdatesMoveVersion
  <2>4. CASE seats' # seats /\ s = req[r].seat
    <3>1. seats'[s].version = seats[s].version + 1
      BY <1>1, <2>1, <2>2, <2>3, <2>4
    <3> QED
      BY <1>1, <3>1 DEF RowMoves
  <2>5. CASE seats' = seats \/ s # req[r].seat
    <3>1. seats'[s] = seats[s]
      BY <1>1, <2>1, <2>5
    <3> QED
      BY <1>1, <3>1, SameRowMoves
  <2> QED
    BY <2>4, <2>5
<1>7. CASE Tick
  <2>1. seats'[s] = [seats[s] EXCEPT !.locked_until = Aged(@)]
    BY <1>1, <1>7, TickKeeps DEF Tick
  <2>2. seats'[s].locked_until = Aged(seats[s].locked_until)
    BY <1>1, <2>1 DEF SeatRow
  <2> QED
    BY <2>1, <2>2 DEF RowMoves
<1>8. ASSUME NEW r \in Req, RequestStep(r)
      PROVE  RowMoves(s)
  BY <1>2, <1>3, <1>4, <1>5, <1>6, <1>8
  DEF RequestStep, storeVars, LockRead, UnlockRelease, BookRead, CancelRead, LockSet,
      LockQuote, LockUndo, BookOwner, BookSet, BookPrice, BookRelease, ListRead, Crash
<1> QED
  BY <1>2, <1>7, <1>8 DEF BookingNext, bookingVars

\* With optimistic claims every committed change of a row moves its version
\* on, whichever handler made it: a claim that compares versions misses no
\* change.  (The pessimistic claim does not do so.)
THEOREM VersionMoves ==
  ASSUME Strategy = "optimistic"
  PROVE  BookingSpec => ChangedRowMovesVersion
<1>1. BookingInv /\ [BookingNext]_bookingVars =>
        [\A s \in Seat :
           \/ seats'[s].version > seats[s].version
           \/ seats'[s] = [seats[s] EXCEPT !.locked_until = seats'[s].locked_until]]_bookingVars
  BY StepMovesVersion DEF RowMoves
<1> QED
  BY <1>1, InvHolds, PTL DEF BookingSpec, ChangedRowMovesVersion

\* Labels between reading the row and the claim.
Deciding == {"book_owner", "book_set", "book_price", "book_commit"}

\* A request that is still to claim has read a version the row has had: while
\* the version is the same, so is the price, and what it will pay is that.
SeenInv(r) ==
  req[r].pc \in Deciding =>
    LET row == seats[req[r].seat] IN
    /\ req[r].seen.version <= row.version
    /\ req[r].seen.version = row.version => req[r].seen.held_price = row.held_price
    /\ At(r, "book_commit") => req[r].seen.held_price \in {None, req[r].price}

PriceInv == BookingInv /\ \A r \in Req : SeenInv(r)

\* What RowMoves says of versions and prices.
LEMMA RowMovesPrice ==
  ASSUME NEW s \in Seat, seats \in [Seat -> SeatRow], seats' \in [Seat -> SeatRow], RowMoves(s)
  PROVE  /\ seats[s].version \in Nat /\ seats'[s].version \in Nat
         /\ seats'[s].version >= seats[s].version
         /\ seats'[s].version = seats[s].version => seats'[s].held_price = seats[s].held_price
<1>1. seats[s] \in SeatRow /\ seats'[s] \in SeatRow
  OBVIOUS
<1>2. CASE seats'[s].version > seats[s].version
  BY <1>1, <1>2 DEF SeatRow
<1>3. CASE seats'[s] = [seats[s] EXCEPT !.locked_until = seats'[s].locked_until]
  <2> DEFINE x == seats'[s].locked_until
  <2>1. seats'[s] = [seats[s] EXCEPT !.locked_until = x]
    BY <1>3
  <2> HIDE DEF x
  <2>2. /\ seats'[s].version = seats[s].version
        /\ seats'[s].held_price = seats[s].held_price
    BY <1>1, <2>1 DEF SeatRow
  <2> QED
    BY <1>1, <2>2 DEF SeatRow
<1> QED
  BY <1>2, <1>3 DEF RowMoves

\* Which steps leave a request before its claim.
LEMMA WhoDecides ==
  ASSUME BookingInv, NEW r \in Req, RequestStep(r), req'[r].pc \in Deciding
  PROVE  \/ \E u \in User, s \in Seat : BookRead(r, u, s)
         \/ BookOwner(r) \/ BookSet(r) \/ BookPrice(r)
<1>1. req \in [Req -> Request] /\ StoreTypeOK
  BY DEF BookingInv, BookingTypeOK
<1>2. /\ ~Finish(r)
      /\ ~Go(r, "lock_quote") /\ ~Go(r, "lock_undo")
      /\ ~Go(r, "book_release") /\ ~Go(r, "book_undo")
  BY <1>1, FinishMoves, GoMoves DEF Deciding, Label
<1>3. \A u \in User, s \in Seat : ~LockRead(r, u, s) /\ ~UnlockRelease(r, u, s)
  <2>1. "lock_set" \in Label /\ "unlock_update" \in Label
    BY DEF Label
  <2>2. ASSUME NEW u \in User, NEW s \in Seat, LockRead(r, u, s) \/ UnlockRelease(r, u, s)
        PROVE  FALSE
    <3>1. Begin(r, "lock", "lock_set", u, s) \/ Begin(r, "unlock", "unlock_update", u, s)
      BY <2>2 DEF LockRead, UnlockRelease
    <3>2. req'[r].pc = "lock_set" \/ req'[r].pc = "unlock_update"
      BY <1>1, <2>1, <3>1, BeginMoves
    <3> QED
      BY <3>2 DEF Deciding
  <2> QED
    BY <2>2
<1>4. ~LockQuote(r)
  <2> SUFFICES ASSUME LockQuote(r) PROVE FALSE
    OBVIOUS
  <2>1. /\ "lock_update" \in Label /\ CurrentPrice \in Nat
        /\ req' = [req EXCEPT ![r].pc = "lock_update", ![r].price = CurrentPrice]
    BY PriceInPrices DEF LockQuote, Label
  <2>2. req'[r].pc = "lock_update"
    BY <1>1, <2>1, GoWithPriceMoves
  <2> QED
    BY <2>2 DEF Deciding
<1>5. \A b \in BookingId : ~CancelRead(r, b)
  <2> SUFFICES ASSUME NEW b \in BookingId, CancelRead(r, b) PROVE FALSE
    OBVIOUS
  <2>1. req'[r] = [Idle EXCEPT !.pc = "cancel_update", !.user = bookings[b].user,
                               !.seat = bookings[b].seat, !.target = b]
    BY <1>1 DEF CancelRead
  <2>2. req'[r].pc = "cancel_update"
    BY <2>1 DEF Idle
  <2> QED
    BY <2>2 DEF Deciding
<1>6. ~ListRead(r)
  <2> SUFFICES ASSUME ListRead(r) PROVE FALSE
    OBVIOUS
  <2>1. req'[r] = [Idle EXCEPT !.pc = "list_update", !.expired = Lapsed]
    BY <1>1 DEF ListRead
  <2>2. req'[r].pc = "list_update"
    BY <2>1 DEF Idle
  <2> QED
    BY <2>2 DEF Deciding
<1> QED
  BY <1>2, <1>3, <1>4, <1>5, <1>6
  DEF RequestStep, LockSet, LockUpdate, LockUndo, UnlockUpdate, BookCommit, BookRelease,
      CancelUpdate, ListUpdate, Crash

\* The mover's own part of the invariant.
LEMMA MoverSeen ==
  ASSUME PriceInv, NEW r \in Req, RequestStep(r)
  PROVE  SeenInv(r)'
<1>1. /\ BookingInv /\ SeenInv(r) /\ req \in [Req -> Request] /\ StoreTypeOK
      /\ seats \in [Seat -> SeatRow] /\ req[r].seen \in SeatRow
  BY DEF PriceInv, BookingInv, BookingTypeOK, StoreTypeOK, Request
<1>2. CASE req'[r].pc \notin Deciding
  BY <1>2 DEF SeenInv
<1>3. ASSUME NEW u \in User, NEW s \in Seat, BookRead(r, u, s)
      PROVE  SeenInv(r)'
  <2>1. /\ Begin(r, "book", "book_owner", u, s) /\ seats' = seats
        /\ "book_owner" \in Label
    BY <1>3 DEF BookRead, storeVars, Label
  <2>2. /\ req'[r].pc = "book_owner" /\ req'[r].seat = s /\ req'[r].seen = Snapshot(s)
    BY <1>1, <2>1, BeginMoves
  <2>3. /\ Snapshot(s).version = seats[s].version
        /\ Snapshot(s).held_price = seats[s].held_price
        /\ seats[s].version \in Nat
    BY <1>1 DEF Snapshot, SeatRow
  <2> QED
    BY <2>1, <2>2, <2>3 DEF SeenInv, At
<1>4. CASE BookOwner(r) \/ BookSet(r)
  <2>1. /\ seats' = seats /\ req[r].pc \in Deciding
        /\ \/ Go(r, "book_set") \/ Go(r, "book_undo") \/ Finish(r)
           \/ \E t \in BOOLEAN : req' = [req EXCEPT ![r].pc = "book_price", ![r].took = t]
    BY <1>4 DEF BookOwner, BookSet, BookChecked, storeVars, At, Deciding
  <2>2. /\ "book_set" \in Label /\ "book_undo" \in Label /\ "book_price" \in Label
    BY DEF Label
  <2>3. \/ req'[r].pc \notin Deciding
        \/ KeepsReads(r) /\ req'[r].pc # "book_commit"
    BY <1>1, <2>1, <2>2, GoMoves, FinishMoves, GoWithTookMoves DEF Deciding
  <2> QED
    BY <1>1, <2>1, <2>3 DEF SeenInv, KeepsReads, At
<1>5. CASE BookPrice(r)
  <2> DEFINE p == PriceNow(req[r].seen)
  <2>1. /\ seats' = seats /\ req[r].pc \in Deciding
        /\ req' = [req EXCEPT ![r].pc = "book_commit", ![r].price = p]
        /\ "book_commit" \in Label
    BY <1>5 DEF BookPrice, storeVars, At, Deciding, Label
  <2>2. p \in Nat
    <3>1. req[r].seen.held_price \in Nat \cup {None}
      BY <1>1 DEF SeatRow
    <3> QED
      BY <3>1, PriceInPrices DEF PriceNow
  <2>3. req[r].seen.held_price \in {None, p}
    BY DEF PriceNow
  <2> HIDE DEF p
  <2>4. KeepsReads(r) /\ req'[r].price = p
    BY <1>1, <2>1, <2>2, GoWithPriceMoves
  <2> QED
    BY <1>1, <2>1, <2>3, <2>4 DEF SeenInv, KeepsReads, At
<1> QED
  BY <1>1, <1>2, <1>3, <1>4, <1>5, WhoDecides

\* A request that only waits: its row may have moved meanwhile.
LEMMA WaiterSeen ==
  ASSUME Strategy = "optimistic", PriceInv, [BookingNext]_bookingVars, NEW q \in Req,
         req'[q] = req[q]
  PROVE  SeenInv(q)'
<1>1. /\ BookingInv /\ SeenInv(q) /\ req \in [Req -> Request]
      /\ seats \in [Seat -> SeatRow]
  BY DEF PriceInv, BookingInv, BookingTypeOK, StoreTypeOK
<1>2. seats' \in [Seat -> SeatRow]
  BY <1>1, NextInv DEF BookingInv, BookingTypeOK, StoreTypeOK
<1>3. CASE req[q].pc \in Deciding
  <2> DEFINE s == req[q].seat
  <2>1. s \in Seat /\ req[q].seen.version \in Nat
    BY <1>1, <1>3 DEF BookingInv, RequestInv, Deciding, AtWork, Label, Request, SeatRow
  <2>2. RowMoves(s)
    BY <1>1, <2>1, StepMovesVersion
  <2>3. /\ seats[s].version \in Nat /\ seats'[s].version \in Nat
        /\ seats'[s].version >= seats[s].version
        /\ seats'[s].version = seats[s].version => seats'[s].held_price = seats[s].held_price
    BY <1>1, <1>2, <2>1, <2>2, RowMovesPrice
  <2>4. /\ req[q].seen.version <= seats[s].version
        /\ req[q].seen.version = seats[s].version => req[q].seen.held_price = seats[s].held_price
        /\ At(q, "book_commit") => req[q].seen.held_price \in {None, req[q].price}
    BY <1>1, <1>3 DEF SeenInv
  <2>5. /\ req[q].seen.version <= seats'[s].version
        /\ req[q].seen.version = seats'[s].version => req[q].seen.held_price = seats'[s].held_price
    BY <2>1, <2>3, <2>4
  <2> QED
    BY <2>4, <2>5 DEF SeenInv, At
<1>4. CASE req[q].pc \notin Deciding
  BY <1>4 DEF SeenInv
<1> QED
  BY <1>3, <1>4

LEMMA PriceInit == BookingInit => PriceInv
<1> SUFFICES ASSUME BookingInit PROVE PriceInv
  OBVIOUS
<1>1. \A r \in Req : req[r].pc = "idle"
  BY DEF BookingInit, Idle
<1> QED
  BY <1>1, InitInv DEF PriceInv, SeenInv, Deciding

LEMMA PriceNext ==
  ASSUME Strategy = "optimistic"
  PROVE  PriceInv /\ [BookingNext]_bookingVars => PriceInv'
<1> SUFFICES ASSUME PriceInv, [BookingNext]_bookingVars
             PROVE  PriceInv'
  OBVIOUS
<1>1. BookingInv /\ BookingInv'
  BY NextInv DEF PriceInv
<1>2. ASSUME NEW r \in Req, RequestStep(r), NEW q \in Req
      PROVE  SeenInv(q)'
  <2>1. CASE q = r
    BY <1>2, <2>1, MoverSeen
  <2>2. CASE q # r
    <3>1. req'[q] = req[q]
      BY <1>1, <1>2, <2>2, RequestStepOK DEF StepOK, OnlyMoves
    <3> QED
      BY <3>1, WaiterSeen
  <2> QED
    BY <2>1, <2>2
<1>3. ASSUME Tick \/ UNCHANGED bookingVars, NEW q \in Req
      PROVE  SeenInv(q)'
  <2>1. req'[q] = req[q]
    BY <1>3 DEF Tick, bookingVars
  <2> QED
    BY <2>1, WaiterSeen
<1> QED
  BY <1>1, <1>2, <1>3 DEF PriceInv, BookingNext

\* The price of a booking is that of the hold the row carries when the claim
\* commits, although it was computed steps earlier from a row that others
\* may have written since: the version in the claim's WHERE rules them out.
THEOREM PaidAtHeldPrice ==
  ASSUME Strategy = "optimistic"
  PROVE  BookingSpec => BookedAtHeldPrice
<1>1. ASSUME PriceInv, [BookingNext]_bookingVars, NEW r \in Req,
             bookings[r].status = "none", bookings'[r].status = "confirmed"
      PROVE  seats[bookings'[r].seat].held_price \in {None, bookings'[r].amount}
  <2>0. r \in BookingId
    BY BookingAssumption DEF BookingAssumption
  <2>1. BookingInv /\ r \in BookingId /\ StoreTypeOK
    BY <1>1, <2>0 DEF PriceInv, BookingInv, BookingTypeOK
  <2>2. bookings' # bookings
    BY <1>1
  <2>3. PICK q \in Req : RequestStep(q)
    <3>1. Tick => bookings' = bookings
      BY <2>1, TickKeeps DEF Tick
    <3> QED
      BY <1>1, <2>2, <3>1 DEF BookingNext, bookingVars
  <2>4. CASE BookCommit(q)
    <3> DEFINE s == req[q].seat
    <3>1. /\ ClaimWon(q)
          /\ bookings'[q] = [user |-> req[q].user, seat |-> s, status |-> "confirmed",
                             amount |-> req[q].price]
          /\ \A c \in BookingId : c # q => bookings'[c] = bookings[c]
      BY <2>1, <2>2, <2>4, CommitInserts
    <3>2. q = r
      BY <1>1, <2>1, <3>1
    <3>3. /\ seats[s].version = req[q].seen.version
      BY <3>1 DEF ClaimWon
    <3>4. /\ req[q].seen.version = seats[s].version => req[q].seen.held_price = seats[s].held_price
          /\ req[q].seen.held_price \in {None, req[q].price}
      BY <1>1, <2>4 DEF PriceInv, SeenInv, Deciding, BookCommit, At
    <3>5. bookings'[r].seat = s /\ bookings'[r].amount = req[q].price
      BY <3>1, <3>2
    <3> QED
      BY <3>3, <3>4, <3>5
  <2>5. CASE CancelUpdate(q)
    <3>1. \A c \in BookingId : bookings'[c].status = "cancelled" \/ bookings'[c] = bookings[c]
      BY <2>1, <2>5, CancelWrites
    <3> QED
      BY <1>1, <2>1, <3>1
  <2> QED
    BY <2>2, <2>3, <2>4, <2>5, WhoWritesBookings
<1>2. PriceInv /\ [BookingNext]_bookingVars =>
        [\A r \in Req : bookings[r].status = "none" /\ bookings'[r].status = "confirmed" =>
           seats[bookings'[r].seat].held_price \in {None, bookings'[r].amount}]_bookingVars
  BY <1>1
<1>3. BookingSpec => []PriceInv
  BY PriceInit, PriceNext, PTL DEF BookingSpec
<1> QED
  BY <1>2, <1>3, PTL DEF BookingSpec, BookedAtHeldPrice

----------------------------------------------------------------------------
(* The bookings table implements the sale of seats.                        *)

\* Every price in a row, in a request's copy of a row or quoted for a write
\* is one of the event's prices, and a name not in the table is unused.
HeldPriceInv == \A s \in Seat : seats[s].held_price \in Prices \cup {None}

QuoteInv(r) ==
  /\ req[r].seen.held_price \in Prices \cup {None}
  /\ req[r].pc \in {"lock_update", "book_commit"} => req[r].price \in Prices

UnusedInv == \A b \in BookingId : bookings[b].status = "none" => bookings[b] = NoBooking

RefinementInv == SaleInv /\ HeldPriceInv /\ (\A r \in Req : QuoteInv(r)) /\ UnusedInv

\* What an UPDATE leaves in held_price.
LEMMA UpdatesOfPrice ==
  ASSUME NEW row \in SeatRow
  PROVE  /\ FreedRow(row).held_price = None
         /\ CancelledRow(row).held_price = row.held_price
         /\ BookedRow(row).held_price = None
         /\ \A u, p : LockedRow(row, u, p).held_price = p
         /\ \A seen : PessimisticRow(row, seen).held_price \in {None, row.held_price}
  BY DEF SeatRow, FreedRow, CancelledRow, BookedRow, LockedRow, PessimisticRow

LEMMA RequestKeepsHeldPrices ==
  ASSUME RefinementInv, NEW r \in Req, RequestStep(r)
  PROVE  HeldPriceInv'
<1>1. /\ BookingInv /\ RequestInv(r) /\ QuoteInv(r) /\ HeldPriceInv
      /\ seats \in [Seat -> SeatRow] /\ req \in [Req -> Request] /\ StoreTypeOK
  BY DEF RefinementInv, SaleInv, BookingInv, BookingTypeOK, StoreTypeOK
<1>2. SUFFICES ASSUME NEW s \in Seat
               PROVE  seats'[s].held_price \in Prices \cup {None}
  BY DEF HeldPriceInv
<1>3. seats[s] \in SeatRow /\ seats[s].held_price \in Prices \cup {None}
  BY <1>1 DEF HeldPriceInv
<1>4. CASE seats' = seats
  BY <1>3, <1>4
<1>5. CASE LockUpdate(r) \/ UnlockUpdate(r)
  <2> DEFINE t == req[r].seat
             p == req[r].price
  <2>1. t \in Seat
    BY <1>1, <1>5 DEF LockUpdate, UnlockUpdate, At, RequestInv, AtWork, Label
  <2>2. \/ seats' = seats
        \/ /\ seats' = [seats EXCEPT ![t] = LockedRow(seats[t], req[r].user, p)]
           /\ p \in Prices
        \/ seats' = [seats EXCEPT ![t] = FreedRow(seats[t])]
    BY <1>1, <1>5 DEF LockUpdate, UnlockUpdate, SetRow, At, QuoteInv
  <2> HIDE DEF t, p
  <2>3. /\ LockedRow(seats[t], req[r].user, p).held_price = p
        /\ FreedRow(seats[t]).held_price = None
    BY <1>1, <2>1, UpdatesOfPrice
  <2> QED
    BY <1>1, <1>3, <2>1, <2>2, <2>3
<1>6. CASE ListUpdate(r)
  <2>1. seats'[s] = FreedRow(seats[s]) \/ seats'[s] = seats[s]
    BY <1>6 DEF ListUpdate
  <2>2. FreedRow(seats[s]).held_price = None
    BY <1>3, UpdatesOfPrice
  <2> QED
    BY <1>3, <2>1, <2>2
<1>7. CASE CancelUpdate(r)
  <2>1. seats'[s] = CancelledRow(seats[s]) \/ seats'[s] = seats[s]
    BY <1>1, <1>7, CancelWrites
  <2>2. CancelledRow(seats[s]).held_price = seats[s].held_price
    BY <1>3, UpdatesOfPrice
  <2> QED
    BY <1>3, <2>1, <2>2
<1>8. CASE BookCommit(r)
  <2> DEFINE t == req[r].seat
  <2>1. seats' = seats \/ seats' = [seats EXCEPT ![t] = ClaimedRow(r)]
    BY <1>8 DEF BookCommit, SetRow
  <2>2. \/ ClaimedRow(r) = BookedRow(seats[t])
        \/ ClaimedRow(r) = PessimisticRow(seats[t], req[r].seen)
    BY DEF ClaimedRow
  <2> HIDE DEF t
  <2>3. CASE s = t
    <3>1. /\ BookedRow(seats[t]).held_price = None
          /\ PessimisticRow(seats[t], req[r].seen).held_price \in {None, seats[t].held_price}
      BY <1>3, <2>3, UpdatesOfPrice
    <3>2. ClaimedRow(r).held_price \in {None, seats[s].held_price}
      BY <2>2, <2>3, <3>1
    <3>3. seats' = seats \/ seats'[s] = ClaimedRow(r)
      BY <1>1, <2>1, <2>3
    <3> QED
      BY <1>3, <1>4, <3>2, <3>3
  <2>4. CASE s # t
    <3>1. seats'[s] = seats[s]
      BY <1>1, <2>1, <2>4
    <3> QED
      BY <1>3, <3>1
  <2> QED
    BY <2>3, <2>4
<1> QED
  BY <1>4, <1>5, <1>6, <1>7, <1>8
  DEF RequestStep, storeVars, LockRead, UnlockRelease, BookRead, CancelRead, LockSet,
      LockQuote, LockUndo, BookOwner, BookSet, BookPrice, BookRelease, ListRead, Crash

LEMMA MoverQuotes ==
  ASSUME RefinementInv, NEW r \in Req, RequestStep(r)
  PROVE  QuoteInv(r)'
<1>1. /\ BookingInv /\ QuoteInv(r) /\ HeldPriceInv /\ StoreTypeOK
      /\ seats \in [Seat -> SeatRow] /\ req \in [Req -> Request]
  BY DEF RefinementInv, SaleInv, BookingInv, BookingTypeOK, StoreTypeOK
<1>2. CASE Finish(r)
  <2>1. req'[r] = [Idle EXCEPT !.pc = "done"]
    BY <1>1, <1>2, FinishMoves
  <2>2. req'[r].pc = "done" /\ req'[r].seen.held_price = None
    BY <2>1 DEF Idle, FreshSeat
  <2> QED
    BY <2>2 DEF QuoteInv
<1>3. ASSUME NEW label \in Label \ {"lock_update", "book_commit"}, Go(r, label)
      PROVE  QuoteInv(r)'
  <2>1. req'[r].pc = label /\ req'[r].seen = req[r].seen
    BY <1>1, <1>3, GoMoves DEF KeepsReads
  <2> QED
    BY <1>1, <2>1 DEF QuoteInv
<1>4. ASSUME NEW op, NEW label \in Label \ {"lock_update", "book_commit"},
             NEW u \in User, NEW s \in Seat, Begin(r, op, label, u, s)
      PROVE  QuoteInv(r)'
  <2>1. req'[r].pc = label /\ req'[r].seen = Snapshot(s)
    BY <1>1, <1>4, BeginMoves
  <2>2. Snapshot(s).held_price = seats[s].held_price
    BY <1>1 DEF Snapshot, SeatRow
  <2> QED
    BY <1>1, <2>1, <2>2 DEF QuoteInv, HeldPriceInv
<1>5. ASSUME NEW label \in Label, NEW p \in Prices,
             req' = [req EXCEPT ![r].pc = label, ![r].price = p]
      PROVE  QuoteInv(r)'
  <2>1. p \in Nat
    BY PriceInPrices
  <2>2. KeepsReads(r) /\ req'[r].price = p
    BY <1>1, <1>5, <2>1, GoWithPriceMoves
  <2>3. req'[r].seen = req[r].seen
    BY <2>2 DEF KeepsReads
  <2> QED
    BY <1>1, <2>2, <2>3 DEF QuoteInv
<1>6. ASSUME NEW t \in BOOLEAN, req' = [req EXCEPT ![r].pc = "book_price", ![r].took = t]
      PROVE  QuoteInv(r)'
  <2>1. "book_price" \in Label
    BY DEF Label
  <2>2. req'[r].pc = "book_price" /\ req'[r].seen = req[r].seen
    BY <1>1, <1>6, <2>1, GoWithTookMoves DEF KeepsReads
  <2> QED
    BY <1>1, <2>2 DEF QuoteInv
<1>7. CASE \E b \in BookingId : CancelRead(r, b)
  <2>1. PICK b \in BookingId :
          req' = [req EXCEPT ![r] = [Idle EXCEPT !.pc = "cancel_update",
                    !.user = bookings[b].user, !.seat = bookings[b].seat, !.target = b]]
    BY <1>7 DEF CancelRead
  <2>2. req'[r].pc = "cancel_update" /\ req'[r].seen.held_price = None
    BY <1>1, <2>1 DEF Idle, FreshSeat
  <2> QED
    BY <2>2 DEF QuoteInv
<1>8. CASE ListRead(r)
  <2>1. req' = [req EXCEPT ![r] = [Idle EXCEPT !.pc = "list_update", !.expired = Lapsed]]
    BY <1>8 DEF ListRead
  <2>2. req'[r].pc = "list_update" /\ req'[r].seen.held_price = None
    BY <1>1, <2>1 DEF Idle, FreshSeat
  <2> QED
    BY <2>2 DEF QuoteInv
<1>9. CASE LockQuote(r)
  BY <1>5, <1>9, PriceInPrices DEF LockQuote, Label
<1>10. CASE BookPrice(r)
  <2>1. PriceNow(req[r].seen) \in Prices
    BY <1>1, PriceNowInPrices DEF QuoteInv
  <2> QED
    BY <1>5, <1>10, <2>1 DEF BookPrice, Label
<1>11. CASE \E u \in User, s \in Seat : LockRead(r, u, s) \/ UnlockRelease(r, u, s) \/ BookRead(r, u, s)
  BY <1>4, <1>11 DEF LockRead, UnlockRelease, BookRead, Label
<1>12. CASE BookOwner(r) \/ BookSet(r)
  BY <1>2, <1>3, <1>6, <1>12 DEF BookOwner, BookSet, BookChecked, Label
<1>13. CASE LockSet(r) \/ LockUpdate(r) \/ LockUndo(r) \/ UnlockUpdate(r)
  BY <1>2, <1>3, <1>13 DEF LockSet, LockUpdate, LockUndo, UnlockUpdate, Label
<1>14. CASE BookCommit(r) \/ BookRelease(r) \/ CancelUpdate(r) \/ ListUpdate(r) \/ Crash(r)
  BY <1>2, <1>3, <1>14 DEF BookCommit, BookRelease, CancelUpdate, ListUpdate, Crash, Label
<1> QED
  BY <1>7, <1>8, <1>9, <1>10, <1>11, <1>12, <1>13, <1>14 DEF RequestStep

LEMMA RefinementInit == BookingInit => RefinementInv
<1> SUFFICES ASSUME BookingInit PROVE RefinementInv
  OBVIOUS
<1>1. \A s \in Seat : seats[s].held_price = None
  BY DEF BookingInit, StoreInit, FreshSeat
<1>2. \A r \in Req : req[r].pc = "idle" /\ req[r].seen.held_price = None
  BY DEF BookingInit, Idle, FreshSeat
<1>3. UnusedInv
  BY DEF UnusedInv, BookingInit, StoreInit
<1> QED
  BY <1>1, <1>2, <1>3, SaleInit DEF RefinementInv, HeldPriceInv, QuoteInv

LEMMA RefinementNext == RefinementInv /\ [BookingNext]_bookingVars => RefinementInv'
<1> SUFFICES ASSUME RefinementInv, [BookingNext]_bookingVars
             PROVE  HeldPriceInv' /\ (\A r \in Req : QuoteInv(r)') /\ UnusedInv'
  BY SaleNext DEF RefinementInv
<1>0. BookingInv /\ HeldPriceInv /\ UnusedInv /\ StoreTypeOK
  BY DEF RefinementInv, SaleInv, BookingInv, BookingTypeOK
<1>1. ASSUME NEW r \in Req, RequestStep(r)
      PROVE  HeldPriceInv' /\ (\A q \in Req : QuoteInv(q)') /\ UnusedInv'
  <2>1. HeldPriceInv' /\ QuoteInv(r)'
    BY <1>1, RequestKeepsHeldPrices, MoverQuotes
  <2>2. \A q \in Req : q # r => QuoteInv(q)'
    BY <1>0, <1>1, RequestStepOK DEF StepOK, OnlyMoves, RefinementInv, QuoteInv
  <2>3. CASE bookings' = bookings
    BY <1>0, <2>1, <2>2, <2>3 DEF UnusedInv
  <2>4. CASE BookCommit(r) /\ bookings' # bookings
    <3>1. /\ bookings'[r] = [user |-> req[r].user, seat |-> req[r].seat,
                             status |-> "confirmed", amount |-> req[r].price]
          /\ \A c \in BookingId : c # r => bookings'[c] = bookings[c]
      BY <1>0, <2>4, CommitInserts
    <3>2. bookings'[r].status = "confirmed"
      BY <3>1
    <3>3. UnusedInv'
      BY <1>0, <3>1, <3>2 DEF UnusedInv
    <3> QED
      BY <2>1, <2>2, <3>3
  <2>5. CASE CancelUpdate(r)
    <3>1. \A c \in BookingId : bookings'[c].status = "cancelled" \/ bookings'[c] = bookings[c]
      BY <1>0, <2>5, CancelWrites
    <3>2. UnusedInv'
      BY <1>0, <3>1 DEF UnusedInv
    <3> QED
      BY <2>1, <2>2, <3>2
  <2> QED
    BY <1>1, <2>3, <2>4, <2>5, WhoWritesBookings
<1>2. CASE Tick \/ UNCHANGED bookingVars
  <2>1. /\ bookings' = bookings /\ req' = req
        /\ \A s \in Seat : seats'[s].held_price = seats[s].held_price
    BY <1>0, <1>2, TickKeeps DEF Tick, bookingVars
  <2> QED
    BY <1>0, <2>1 DEF RefinementInv, HeldPriceInv, QuoteInv, UnusedInv
<1> QED
  BY <1>1, <1>2 DEF BookingNext

\* The booking TLC and the mapping pick from the confirmed ones of a seat.
AnyOf(S) == CHOOSE b \in S : TRUE

LEMMA HolderOf ==
  ASSUME NEW s \in Seat
  PROVE  Holder[s] = IF Confirmed(s) = {} THEN None ELSE AnyOf(Confirmed(s))
  BY DEF Holder, AnyOf

LEMMA HolderOfPrimed ==
  ASSUME NEW s \in Seat
  PROVE  Holder'[s] = IF Confirmed(s)' = {} THEN None ELSE AnyOf(Confirmed(s)')
  BY DEF Holder, AnyOf

\* A claim that wins is a sale of its seat.
LEMMA ClaimSells ==
  ASSUME RefinementInv, NEW r \in Req, BookCommit(r), bookings' # bookings
  PROVE  Sale!Sell(r)
<1>0. PICK s : s = req[r].seat
  OBVIOUS
<1> DEFINE row == [user |-> req[r].user, seat |-> s, status |-> "confirmed",
                   amount |-> req[r].price]
<1>1. BookingInv /\ UnusedInv /\ QuoteInv(r) /\ req[r].pc = "book_commit"
  BY DEF RefinementInv, SaleInv, BookCommit, At
<1>2. /\ s \in Seat /\ req[r].user \in User /\ r \in BookingId /\ req[r].price \in Prices
      /\ bookings[r] = NoBooking /\ IndexAdmits(s)
      /\ bookings'[r] = row
      /\ \A c \in BookingId : c # r => bookings'[c] = bookings[c]
  BY <1>0, <1>1, CommitInserts DEF UnusedInv, QuoteInv
<1>3. /\ row.user = req[r].user /\ row.seat = s /\ row.status = "confirmed"
      /\ row.amount = req[r].price
  OBVIOUS
<1> HIDE DEF row
<1>4. Ledger[r] = Sale!Blank
  BY <1>2 DEF Ledger, NoBooking, Sale!Blank
<1>5. Ledger'[r] = [user |-> req[r].user, seat |-> s, amount |-> req[r].price]
  BY <1>2, <1>3 DEF Ledger
<1>6. Ledger' = [Ledger EXCEPT ![r] = Ledger'[r]]
  BY <1>2 DEF Ledger
<1>7. Ledger'[r] \in Sale!Terms /\ Ledger'[r].seat = s
  BY <1>2, <1>5 DEF Sale!Terms
<1>8. Holder[s] = None
  BY <1>2, HolderOf DEF IndexAdmits
<1>9. Confirmed(s)' = {r}
  <2>1. \A c \in BookingId : bookings[c].seat = s => bookings[c].status # "confirmed"
    BY <1>2 DEF IndexAdmits, Confirmed
  <2> QED
    BY <1>2, <1>3, <2>1 DEF Confirmed
<1>10. AnyOf({r}) = r
  BY DEF AnyOf
<1>11. Holder'[s] = r
  BY <1>2, <1>9, <1>10, HolderOfPrimed
<1>12. ASSUME NEW t \in Seat, t # s
       PROVE  Holder'[t] = Holder[t]
  <2>1. Confirmed(t)' = Confirmed(t)
    <3>1. bookings[r].status # "confirmed"
      BY <1>2 DEF NoBooking
    <3> QED
      BY <1>2, <1>3, <1>12, <3>1 DEF Confirmed
  <2> QED
    BY <2>1, HolderOf, HolderOfPrimed
<1>13. Holder' = [Holder EXCEPT ![s] = r]
  <2>1. Holder = [t \in Seat |-> Holder[t]] /\ Holder' = [t \in Seat |-> Holder'[t]]
    BY DEF Holder
  <2> QED
    BY <1>2, <1>11, <1>12, <2>1
<1> QED
  BY <1>4, <1>6, <1>7, <1>8, <1>13 DEF Sale!Sell

\* A cancellation ends the sale of its seat, or was the second one of its
\* booking and changes nothing in the table.
LEMMA CancellationEnds ==
  ASSUME RefinementInv, NEW r \in Req, CancelUpdate(r), bookings' # bookings
  PROVE  \E s \in Seat : Sale!Cancel(s)
<1>0. PICK s, b : s = req[r].seat /\ b = req[r].target
  OBVIOUS
<1>1. BookingInv /\ OneConfirmedBookingPerSeat /\ bookings \in [BookingId -> BookingRow]
  BY DEF RefinementInv, SaleInv, BookingInv, BookingTypeOK, StoreTypeOK
<1>2. /\ s \in Seat /\ b \in BookingId /\ bookings[b].seat = s
      /\ bookings[b].status # "none"
      /\ bookings'[b].status = "cancelled"
      /\ \A c \in BookingId : bookings'[c].user = bookings[c].user
      /\ \A c \in BookingId : bookings'[c].seat = bookings[c].seat
      /\ \A c \in BookingId : bookings'[c].amount = bookings[c].amount
      /\ \A c \in BookingId : c # b => bookings'[c] = bookings[c]
  BY <1>0, <1>1, CancelWrites
<1>3. bookings' = [bookings EXCEPT ![b].status = "cancelled"]
  BY <1>0 DEF CancelUpdate
<1>4. bookings[b].status = "confirmed"
  <2> SUFFICES ASSUME bookings[b].status = "cancelled" PROVE FALSE
    BY <1>1, <1>2 DEF BookingRow
  <2>1. bookings[b] = [bookings[b] EXCEPT !.status = "cancelled"]
    BY <1>1, <1>2 DEF BookingRow
  <2> QED
    BY <1>1, <1>2, <1>3, <2>1
<1>5. Ledger' = Ledger
  BY <1>2 DEF Ledger
<1>6. Confirmed(s) = {b}
  BY <1>1, <1>2, <1>4 DEF Confirmed, OneConfirmedBookingPerSeat
<1>7. Holder[s] # None
  <2>1. AnyOf({b}) = b
    BY DEF AnyOf
  <2> QED
    BY <1>2, <1>6, <2>1, HolderOf, StoreAssumption DEF StoreAssumption
<1>8. Confirmed(s)' = {}
  <2>1. \A c \in BookingId : bookings[c].seat = s /\ bookings[c].status = "confirmed" => c = b
    BY <1>6 DEF Confirmed
  <2> QED
    BY <1>2, <2>1 DEF Confirmed
<1>9. Holder'[s] = None
  BY <1>2, <1>8, HolderOfPrimed
<1>10. ASSUME NEW t \in Seat, t # s
       PROVE  Holder'[t] = Holder[t]
  <2>1. Confirmed(t)' = Confirmed(t)
    BY <1>2, <1>10 DEF Confirmed
  <2> QED
    BY <2>1, HolderOf, HolderOfPrimed
<1>11. Holder' = [Holder EXCEPT ![s] = None]
  BY <1>2, <1>9, <1>10 DEF Holder
<1> QED
  BY <1>2, <1>5, <1>7, <1>11 DEF Sale!Cancel

\* Nothing is sold at the start.
LEMMA SaleStarts == BookingInit => Sale!SaleInit
<1> SUFFICES ASSUME BookingInit PROVE Sale!SaleInit
  OBVIOUS
<1>1. bookings = [b \in BookingId |-> NoBooking]
  BY DEF BookingInit, StoreInit
<1>2. \A s \in Seat : Confirmed(s) = {}
  BY <1>1 DEF Confirmed, NoBooking
<1>3. Holder = [s \in Seat |-> None]
  BY <1>2 DEF Holder
<1>4. Ledger = [b \in BookingId |-> Sale!Blank]
  BY <1>1 DEF Ledger, NoBooking, Sale!Blank
<1> QED
  BY <1>3, <1>4 DEF Sale!SaleInit

LEMMA StepSells == RefinementInv /\ [BookingNext]_bookingVars => [Sale!SaleNext]_(Sale!vars)
<1> SUFFICES ASSUME RefinementInv, [BookingNext]_bookingVars
             PROVE  [Sale!SaleNext]_(Sale!vars)
  OBVIOUS
<1>1. CASE bookings' = bookings
  <2>1. Holder' = Holder /\ Ledger' = Ledger
    BY <1>1 DEF Holder, Ledger, Confirmed
  <2> QED
    BY <2>1 DEF Sale!vars
<1>2. ASSUME NEW r \in Req, RequestStep(r), bookings' # bookings
      PROVE  Sale!SaleNext
  <2>1. r \in BookingId
    BY BookingAssumption DEF BookingAssumption
  <2>2. CASE BookCommit(r)
    BY <1>2, <2>1, <2>2, ClaimSells DEF Sale!SaleNext
  <2>3. CASE CancelUpdate(r)
    BY <1>2, <2>3, CancellationEnds DEF Sale!SaleNext
  <2> QED
    BY <1>2, <2>2, <2>3, WhoWritesBookings
<1>3. StoreTypeOK
  BY DEF RefinementInv, SaleInv, BookingInv, BookingTypeOK
<1>4. Tick \/ UNCHANGED bookingVars => bookings' = bookings
  BY <1>3, TickKeeps DEF Tick, bookingVars
<1> QED
  BY <1>1, <1>2, <1>4 DEF BookingNext

\* The bookings table is a ledger of sales, for every strategy and workload:
\* a claim that commits is a sale, a cancellation ends one, and no other step
\* of any handler touches what was sold to whom and for how much.
THEOREM BookingImplementsSale == BookingSpec => ImplementsSeatSale
<1>1. BookingSpec => []RefinementInv
  BY RefinementInit, RefinementNext, PTL DEF BookingSpec
<1> QED
  BY <1>1, SaleStarts, StepSells, PTL DEF BookingSpec, ImplementsSeatSale, Sale!SaleSpec

-----------------------------------------------------------------------------
(* Checkout: the payments, on what is known of the store they share.      *)

Paying == {"pay_owner", "pay_set", "pay_extend", "pay_existing", "pay_price", "pay_commit"}
Settling == {"query", "fulfil", "fulfil_lost", "fulfil_linked", "fail", "settle_release"}

\* What the gateway says of a session whose payment may succeed.
Good == IF Delayed THEN Completed ELSE {"paid"}

\* What an invocation knows of the payments: a checkout that its own does not
\* exist yet, and the price of its seat; a settlement whose payment it
\* settles, and that the rest of its batch exists.
KnowsPayment(w, job, pay) ==
  /\ job.pc \in {"idle"} \cup Paying => pay[w].status = "none"
  /\ job.pc \in Paying =>
       job.user \in User /\ job.seat \in Seat /\ job.seen.held_price \in Prices \cup {None}
  /\ job.pc = "pay_commit" => job.price \in Prices
  /\ job.pc \in Paying /\ job.payment # None => pay[job.payment].status # "none"
  /\ job.pc \in Settling =>
       /\ job.payment \in PayReq /\ pay[job.payment].status # "none"
       /\ job.user = pay[job.payment].user /\ job.seat = pay[job.payment].seat
       /\ job.payment \notin job.stale
  /\ job.pc \in Settling \cup {"next"} => \A p \in job.stale : pay[p].status # "none"

\* Whoever fulfils has heard of a completed session, if there are sessions.
KnowsSession(job, gw, prov) ==
  prov = "stripe" /\ job.pc \in {"fulfil", "fulfil_linked"} => gw[job.payment] \in Good

\* Payments for which an invocation may still insert a booking.
MayBook(job, p) ==
  \/ job.pc = "idle"
  \/ job.pc \in {"query", "fulfil"} /\ p = job.payment
  \/ job.pc \in Settling \cup {"next"} /\ p \in job.stale

BooksOnce(w, job, book) ==
  \A p \in PayReq : MayBook(job, p) => book[<<w, p>>].status = "none"

JobOK(w) ==
  /\ KnowsPayment(w, preq[w], payments)
  /\ KnowsSession(preq[w], gateway, provider)
  /\ BooksOnce(w, preq[w], bookings)

JobsInv == \A w \in PayReq : JobOK(w)

\* A payment that exists is somebody's, for some seat and at one of the
\* event's prices; a session needs a payment; and only delayed methods
\* complete a session before the money has moved.
PaymentOK(p) ==
  /\ payments[p].status = "none" => gateway[p] = "none"
  /\ payments[p].status # "none" =>
       payments[p].user \in User /\ payments[p].seat \in Seat /\ payments[p].amount \in Prices
  /\ ~Delayed => gateway[p] \notin {"processing", "declined"}

PaymentsInv == \A p \in PayReq : PaymentOK(p)

CheckoutInv ==
  /\ RefinementInv /\ CheckoutTypeOK
  /\ JobsInv /\ PaymentsInv
  /\ OnePendingPaymentPerSeat /\ SoldByPaymentWasCompleted

----------------------------------------------------------------------------
(* What the statements of the payment handlers keep of the store.          *)

\* The two statements write like the ones of SeatBooking, without the price.
LEMMA PaymentRows ==
  ASSUME NEW row \in SeatRow
  PROVE  /\ \A u \in User : LET r == PaymentPendingRow(row, u) IN
              r \in SeatRow /\ r.status = "payment_pending" /\ r.held_price = row.held_price
         /\ LET r == FailedRow(row) IN
              r \in SeatRow /\ r.status = "available" /\ r.held_price = row.held_price
         /\ LET r == FulfilledRow(row) IN
              r \in SeatRow /\ r.status = "booked" /\ r.held_price = row.held_price
<1>1. row.version + 1 \in Nat
  BY DEF SeatRow
<1>2. \A u \in User : PaymentPendingRow(row, u) = HoldWritten(row, "payment_pending", row.version + 1, u, PaymentTTL)
  BY DEF PaymentPendingRow, HoldWritten
<1>3. FailedRow(row) = HoldWritten(row, "available", row.version + 1, None, None)
  BY DEF FailedRow, HoldWritten
<1>4. FulfilledRow(row) = HoldWritten(row, "booked", row.version + 1, None, None)
  BY DEF FulfilledRow, HoldWritten
<1>5. \A st, v, u, t : LET r == HoldWritten(row, st, v, u, t) IN
        r.status = st /\ r.held_price = row.held_price
  BY DEF HoldWritten, SeatRow
<1>6. PaymentTTL \in Nat
  BY StoreAssumption DEF StoreAssumption
<1>7. \A u \in User : PaymentPendingRow(row, u) \in SeatRow
  BY <1>1, <1>2, <1>6, HoldWrittenType DEF SeatStatus
<1>8. FailedRow(row) \in SeatRow /\ FulfilledRow(row) \in SeatRow
  BY <1>1, <1>3, <1>4, HoldWrittenType DEF SeatStatus
<1> QED
  BY <1>2, <1>3, <1>4, <1>5, <1>7, <1>8

LEMMA PaymentLocks ==
  ASSUME StoreTypeOK, NEW s \in Seat, NEW u \in User
  PROVE  /\ Acquire(s, u, PaymentTTL) => locks' \in [Seat -> Lock]
         /\ [locks EXCEPT ![s].ttl = PaymentTTL] \in [Seat -> Lock]
  BY StoreAssumption DEF StoreAssumption, Acquire, StoreTypeOK, Lock

\* Only a Redis lock changes.
LEMMA LocksOnly ==
  ASSUME RefinementInv, UNCHANGED <<seats, bookings, req>>, locks' \in [Seat -> Lock]
  PROVE  RefinementInv'
<1>1. BookingTypeOK' /\ LedgerInv'
  BY DEF RefinementInv, SaleInv, BookingInv, BookingTypeOK, StoreTypeOK, LedgerInv
<1>2. \A r \in Req : RequestInv(r)' /\ QuoteInv(r)'
  BY DEF RefinementInv, SaleInv, BookingInv, RequestInv, QuoteInv, At
<1>3. OneConfirmedBookingPerSeat' /\ BookedSeatHasBooking'
  BY DEF RefinementInv, SaleInv, OneConfirmedBookingPerSeat, BookedSeatHasBooking, Confirmed
<1>4. HeldPriceInv' /\ UnusedInv'
  BY DEF RefinementInv, HeldPriceInv, UnusedInv
<1> QED
  BY <1>1, <1>2, <1>3, <1>4 DEF RefinementInv, SaleInv, BookingInv

\* One row changes, but is not sold and keeps its price.
LEMMA RowOnly ==
  ASSUME RefinementInv, UNCHANGED <<locks, bookings, req>>, NEW s \in Seat, NEW row \in SeatRow,
         SetRow(s, row), row.status # "booked", row.held_price = seats[s].held_price
  PROVE  RefinementInv'
<1>0. StoreTypeOK /\ BookingInv
  BY DEF RefinementInv, SaleInv, BookingInv, BookingTypeOK
<1>1. /\ seats' \in [Seat -> SeatRow] /\ seats'[s] = row
      /\ \A t \in Seat : t # s => seats'[t] = seats[t]
  BY <1>0, SetRowType
<1>2. BookingTypeOK' /\ LedgerInv'
  BY <1>1 DEF RefinementInv, SaleInv, BookingInv, BookingTypeOK, StoreTypeOK, LedgerInv
<1>3. \A r \in Req : RequestInv(r)' /\ QuoteInv(r)'
  BY DEF RefinementInv, SaleInv, BookingInv, RequestInv, QuoteInv, At
<1>4. OneConfirmedBookingPerSeat' /\ BookedSeatHasBooking'
  BY <1>1 DEF RefinementInv, SaleInv, OneConfirmedBookingPerSeat, BookedSeatHasBooking, Confirmed
<1>5. HeldPriceInv' /\ UnusedInv'
  BY <1>1 DEF RefinementInv, HeldPriceInv, UnusedInv
<1> QED
  BY <1>2, <1>3, <1>4, <1>5 DEF RefinementInv, SaleInv, BookingInv

\* A payment's booking is inserted and its row claimed: a sale.
LEMMA PaymentSells ==
  ASSUME RefinementInv, UNCHANGED <<locks, req>>, NEW s \in Seat, NEW u \in User,
         NEW amount \in Prices, NEW b \in BookingId \ Req, bookings[b].status = "none",
         IndexAdmits(s), SetRow(s, FulfilledRow(seats[s])), InsertBooking(b, u, s, amount)
  PROVE  RefinementInv' /\ Sale!Sell(b)
<1> DEFINE row == [user |-> u, seat |-> s, status |-> "confirmed", amount |-> amount]
           new == FulfilledRow(seats[s])
<1>0. StoreTypeOK /\ BookingInv /\ UnusedInv /\ seats[s] \in SeatRow /\ amount \in Nat
  BY PriceInPrices DEF RefinementInv, SaleInv, BookingInv, BookingTypeOK, StoreTypeOK
<1>1. new \in SeatRow /\ new.held_price = seats[s].held_price
  BY <1>0, PaymentRows
<1>2. /\ seats' \in [Seat -> SeatRow] /\ seats'[s] = new
      /\ \A t \in Seat : t # s => seats'[t] = seats[t]
  BY <1>0, <1>1, SetRowType
<1>3. /\ bookings' \in [BookingId -> BookingRow] /\ bookings'[b] = row
      /\ \A c \in BookingId : c # b => bookings'[c] = bookings[c]
  BY <1>0, InsertType
<1>4. row.user = u /\ row.seat = s /\ row.status = "confirmed" /\ row.amount = amount
  OBVIOUS
<1>5. bookings[b] = NoBooking
  BY <1>0 DEF UnusedInv
<1> HIDE DEF row, new
<1>6. RefinementInv'
  <2>1. BookingTypeOK' /\ LedgerInv'
    BY <1>0, <1>2, <1>3, <1>4 DEF BookingInv, BookingTypeOK, StoreTypeOK, LedgerInv
  <2>2. ASSUME NEW r \in Req
        PROVE  RequestInv(r)' /\ QuoteInv(r)'
    <3>1. RequestInv(r) /\ QuoteInv(r) /\ r \in BookingId /\ r # b
      BY BookingAssumption DEF BookingAssumption, RefinementInv, SaleInv, BookingInv
    <3>2. bookings'[r] = bookings[r]
      BY <1>3, <3>1
    <3>3. At(r, "cancel_update") =>
            req[r].target # b /\ bookings'[req[r].target] = bookings[req[r].target]
      BY <1>3, <1>5, <3>1 DEF RequestInv, NoBooking
    <3> QED
      BY <3>1, <3>2, <3>3 DEF RequestInv, QuoteInv, At
  <2>3. \A c \in BookingId : bookings[c].seat = s => bookings[c].status # "confirmed"
    BY DEF IndexAdmits, Confirmed
  <2>4. OneConfirmedBookingPerSeat'
    BY <1>3, <1>4, <2>3 DEF RefinementInv, SaleInv, OneConfirmedBookingPerSeat
  <2>5. ASSUME NEW t \in Seat, seats'[t].status = "booked"
        PROVE  \E c \in BookingId : bookings'[c].seat = t /\ bookings'[c].status = "confirmed"
    <3>1. CASE t = s
      BY <1>3, <1>4, <3>1
    <3>2. CASE t # s
      <4>1. PICK c \in BookingId : bookings[c].seat = t /\ bookings[c].status = "confirmed"
        BY <1>2, <2>5, <3>2 DEF RefinementInv, SaleInv, BookedSeatHasBooking, Confirmed
      <4>2. c # b
        BY <4>1
      <4> QED
        BY <1>3, <4>1, <4>2
    <3> QED
      BY <3>1, <3>2
  <2>6. BookedSeatHasBooking'
    BY <2>5 DEF BookedSeatHasBooking, Confirmed
  <2>7. HeldPriceInv' /\ UnusedInv'
    BY <1>1, <1>2, <1>3, <1>4 DEF RefinementInv, HeldPriceInv, UnusedInv
  <2> QED
    BY <2>1, <2>2, <2>4, <2>6, <2>7 DEF RefinementInv, SaleInv, BookingInv
<1>7. Sale!Sell(b)
  <2>1. Ledger[b] = Sale!Blank
    BY <1>5 DEF Ledger, NoBooking, Sale!Blank
  <2>2. Ledger'[b] = [user |-> u, seat |-> s, amount |-> amount]
    BY <1>3, <1>4 DEF Ledger
  <2>3. Ledger' = [Ledger EXCEPT ![b] = Ledger'[b]]
    BY <1>3 DEF Ledger
  <2>4. Ledger'[b] \in Sale!Terms /\ Ledger'[b].seat = s
    BY <2>2 DEF Sale!Terms
  <2>5. Holder[s] = None
    BY HolderOf DEF IndexAdmits
  <2>6. Confirmed(s)' = {b}
    <3>1. \A c \in BookingId : bookings[c].seat = s => bookings[c].status # "confirmed"
      BY DEF IndexAdmits, Confirmed
    <3> QED
      BY <1>3, <1>4, <3>1 DEF Confirmed
  <2>7. AnyOf({b}) = b
    BY DEF AnyOf
  <2>8. Holder'[s] = b
    BY <2>6, <2>7, HolderOfPrimed
  <2>9. ASSUME NEW t \in Seat, t # s
        PROVE  Holder'[t] = Holder[t]
    <3>1. Confirmed(t)' = Confirmed(t)
      <4>1. bookings[b].status # "confirmed"
        OBVIOUS
      <4> QED
        BY <1>3, <1>4, <2>9, <4>1 DEF Confirmed
    <3> QED
      BY <3>1, HolderOf, HolderOfPrimed
  <2>10. Holder' = [Holder EXCEPT ![s] = b]
    <3>1. Holder = [t \in Seat |-> Holder[t]] /\ Holder' = [t \in Seat |-> Holder'[t]]
      BY DEF Holder
    <3> QED
      BY <2>8, <2>9, <3>1
  <2> QED
    BY <2>1, <2>3, <2>4, <2>5, <2>10 DEF Sale!Sell
<1> QED
  BY <1>6, <1>7

----------------------------------------------------------------------------
(* What the invocations know, and what a step keeps of it.                 *)

\* A step of invocation w: payments stay and only w's own may be inserted,
\* completed sessions stay, and only w inserts bookings of its name.
Kept(w) ==
  /\ \A p \in PayReq : payments[p].status # "none" =>
       /\ payments'[p].status # "none"
       /\ payments'[p].user = payments[p].user /\ payments'[p].seat = payments[p].seat
  /\ \A p \in PayReq : p # w /\ payments[p].status = "none" => payments'[p].status = "none"
  /\ \A p \in PayReq : gateway[p] \in Good => gateway'[p] \in Good
  /\ \A v, p \in PayReq : v # w /\ bookings[<<v, p>>].status = "none" =>
                            bookings'[<<v, p>>].status = "none"
  /\ provider' = provider

LEMMA JobKept ==
  ASSUME CheckoutTypeOK, NEW w, Kept(w), NEW v \in PayReq, v # w, JobOK(v), preq'[v] = preq[v]
  PROVE  JobOK(v)'
<1> DEFINE job == preq[v]
<1>0. /\ job.payment \in PayReq \cup {None} /\ job.stale \subseteq PayReq
      /\ KnowsPayment(v, job, payments) /\ KnowsSession(job, gateway, provider)
      /\ BooksOnce(v, job, bookings)
  BY DEF CheckoutTypeOK, PayRequest, JobOK
<1> HIDE DEF job
<1>1. KnowsPayment(v, job, payments')
  BY <1>0 DEF KnowsPayment, Kept, Paying, Settling
<1>2. KnowsSession(job, gateway', provider')
  <2>1. job.pc \in {"fulfil", "fulfil_linked"} => job.payment \in PayReq
    BY <1>0 DEF KnowsPayment, Settling
  <2> QED
    BY <1>0, <2>1 DEF KnowsSession, Kept
<1>3. BooksOnce(v, job, bookings')
  BY <1>0 DEF BooksOnce, Kept
<1> QED
  BY <1>1, <1>2, <1>3 DEF JobOK, job

\* One invocation moves, the others keep what they know.
LEMMA JobsMove ==
  ASSUME CheckoutTypeOK, JobsInv, NEW w \in PayReq, Kept(w), NEW job \in PayRequest,
         preq' = [preq EXCEPT ![w] = job], KnowsPayment(w, job, payments'),
         KnowsSession(job, gateway', provider'), BooksOnce(w, job, bookings')
  PROVE  preq' \in [PayReq -> PayRequest] /\ JobsInv'
<1>1. preq \in [PayReq -> PayRequest]
  BY DEF CheckoutTypeOK
<1>2. preq'[w] = job /\ \A v \in PayReq : v # w => preq'[v] = preq[v]
  BY <1>1
<1>3. JobOK(w)'
  BY <1>2 DEF JobOK
<1>4. \A v \in PayReq : v # w => JobOK(v)'
  BY <1>2, JobKept DEF JobsInv
<1> QED
  BY <1>1, <1>3, <1>4 DEF JobsInv

\* Nobody among the payment handlers moves.
LEMMA JobsStay ==
  ASSUME CheckoutTypeOK, JobsInv, preq' = preq, NEW w, w \notin PayReq, Kept(w)
  PROVE  JobsInv'
  BY JobKept DEF JobsInv

LEMMA IdleJob ==
  /\ PayIdle \in PayRequest
  /\ [PayIdle EXCEPT !.pc = "done"] \in PayRequest
<1>1. FreshSeat \in SeatRow
  BY IdleType
<1> QED
  BY <1>1 DEF PayIdle, PayRequest, PayLabel

\* A handler that is done knows nothing.
LEMMA DoneOK ==
  ASSUME NEW w
  PROVE  LET job == [PayIdle EXCEPT !.pc = "done"] IN
         /\ \A pay : KnowsPayment(w, job, pay)
         /\ \A gw, prov : KnowsSession(job, gw, prov)
         /\ \A book : BooksOnce(w, job, book)
  BY DEF PayIdle, KnowsPayment, KnowsSession, BooksOnce, MayBook, Paying, Settling

LEMMA JobFinishes ==
  ASSUME CheckoutTypeOK, JobsInv, NEW w \in PayReq, Kept(w), PayFinish(w)
  PROVE  preq' \in [PayReq -> PayRequest] /\ JobsInv'
<1> DEFINE job == [PayIdle EXCEPT !.pc = "done"]
<1>1. preq' = [preq EXCEPT ![w] = job]
  BY DEF PayFinish
<1>2. /\ job \in PayRequest /\ KnowsPayment(w, job, payments')
      /\ KnowsSession(job, gateway', provider') /\ BooksOnce(w, job, bookings')
  BY IdleJob, DoneOK
<1> HIDE DEF job
<1> QED
  BY <1>1, <1>2, JobsMove

\* Changing the label of an invocation.
LEMMA Relabelled ==
  ASSUME NEW job \in PayRequest, NEW label \in PayLabel
  PROVE  LET new == [job EXCEPT !.pc = label] IN
         /\ new \in PayRequest /\ new.pc = label /\ new.user = job.user /\ new.seat = job.seat
         /\ new.seen = job.seen /\ new.price = job.price /\ new.payment = job.payment
         /\ new.stale = job.stale
  BY DEF PayRequest

\* A settlement goes on with the same payment, and one that may not insert a
\* booking any more with the rest of its batch.
LEMMA JobGoesOn ==
  ASSUME CheckoutTypeOK, JobsInv, NEW w \in PayReq, Kept(w), NEW label \in Settling,
         preq[w].pc \in Settling, PayGo(w, label),
         KnowsSession([preq[w] EXCEPT !.pc = label], gateway', provider'),
         \A p \in PayReq : MayBook([preq[w] EXCEPT !.pc = label], p) =>
                             bookings'[<<w, p>>].status = "none"
  PROVE  preq' \in [PayReq -> PayRequest] /\ JobsInv'
<1> DEFINE job == [preq[w] EXCEPT !.pc = label]
<1>0. /\ preq[w] \in PayRequest /\ KnowsPayment(w, preq[w], payments)
      /\ preq[w].stale \subseteq PayReq
  BY DEF CheckoutTypeOK, JobsInv, JobOK, PayRequest
<1>1. preq' = [preq EXCEPT ![w] = job]
  BY DEF PayGo
<1>2. /\ job \in PayRequest /\ job.pc = label /\ job.user = preq[w].user
      /\ job.seat = preq[w].seat /\ job.payment = preq[w].payment /\ job.stale = preq[w].stale
  <2>1. label \in PayLabel
    BY DEF Settling, PayLabel
  <2> QED
    BY <1>0, <2>1, Relabelled
<1>3. KnowsSession(job, gateway', provider') /\ BooksOnce(w, job, bookings')
  BY DEF BooksOnce
<1> HIDE DEF job
<1>4. KnowsPayment(w, job, payments')
  BY <1>0, <1>2 DEF KnowsPayment, Kept, Settling, Paying
<1> QED
  BY <1>1, <1>2, <1>3, <1>4, JobsMove

\* The handler of one payment returns: it ends, or its batch goes on.
LEMMA JobReturns ==
  ASSUME CheckoutTypeOK, JobsInv, NEW w \in PayReq, Kept(w), NEW reload \in BOOLEAN,
         preq[w].pc \in Settling, PayReturn(w, reload),
         \A p \in preq[w].stale : bookings'[<<w, p>>].status = "none"
  PROVE  preq' \in [PayReq -> PayRequest] /\ JobsInv'
<1> DEFINE flag == preq[w].reload \/ reload
           job == [preq[w] EXCEPT !.pc = "next", !.reload = flag]
<1>0. /\ preq[w] \in PayRequest /\ KnowsPayment(w, preq[w], payments)
      /\ preq[w].stale \subseteq PayReq /\ flag \in BOOLEAN
  BY DEF CheckoutTypeOK, JobsInv, JobOK, PayRequest
<1>1. PayFinish(w) \/ preq' = [preq EXCEPT ![w] = job]
  BY DEF PayReturn
<1> HIDE DEF flag
<1>2. job \in PayRequest /\ job.pc = "next" /\ job.stale = preq[w].stale
  BY <1>0 DEF PayRequest, PayLabel
<1> HIDE DEF job
<1>3. KnowsPayment(w, job, payments')
  BY <1>0, <1>2 DEF KnowsPayment, Kept, Settling, Paying
<1>4. KnowsSession(job, gateway', provider') /\ BooksOnce(w, job, bookings')
  BY <1>2 DEF KnowsSession, BooksOnce, MayBook, Settling
<1> QED
  BY <1>1, <1>2, <1>3, <1>4, JobsMove, JobFinishes

----------------------------------------------------------------------------
(* Steps that leave the tables of seats, bookings and payments alone.      *)

Quiet ==
  /\ UNCHANGED <<seats, bookings, req, payments, gateway, provider>>
  /\ locks' \in [Seat -> Lock]

LEMMA QuietKept ==
  ASSUME Quiet, NEW w
  PROVE  Kept(w)
  BY DEF Quiet, Kept

LEMMA QuietOK ==
  ASSUME CheckoutInv, Quiet, preq' \in [PayReq -> PayRequest], JobsInv'
  PROVE  CheckoutInv'
<1>1. RefinementInv'
  BY LocksOnly DEF CheckoutInv, Quiet
<1>2. CheckoutTypeOK'
  BY <1>1 DEF CheckoutInv, Quiet, CheckoutTypeOK, RefinementInv, SaleInv, BookingInv
<1>3. PaymentsInv' /\ OnePendingPaymentPerSeat' /\ SoldByPaymentWasCompleted'
  BY DEF CheckoutInv, Quiet, PaymentsInv, PaymentOK, OnePendingPaymentPerSeat,
         SoldByPaymentWasCompleted
<1> QED
  BY <1>1, <1>2, <1>3 DEF CheckoutInv

LEMMA QuietMove ==
  ASSUME CheckoutInv, Quiet, NEW w \in PayReq, NEW job \in PayRequest,
         preq' = [preq EXCEPT ![w] = job], KnowsPayment(w, job, payments),
         KnowsSession(job, gateway, provider), BooksOnce(w, job, bookings)
  PROVE  CheckoutInv'
<1>1. /\ Kept(w) /\ CheckoutTypeOK /\ JobsInv
      /\ payments' = payments /\ gateway' = gateway /\ provider' = provider /\ bookings' = bookings
  BY QuietKept DEF CheckoutInv, Quiet
<1>2. preq' \in [PayReq -> PayRequest] /\ JobsInv'
  BY <1>1, JobsMove
<1> QED
  BY <1>2, QuietOK

LEMMA QuietFinish ==
  ASSUME CheckoutInv, Quiet, NEW w \in PayReq, PayFinish(w)
  PROVE  CheckoutInv'
  BY QuietKept, JobFinishes, QuietOK DEF CheckoutInv

\* A checkout goes on.
LEMMA QuietPaying ==
  ASSUME CheckoutInv, Quiet, NEW w \in PayReq, preq[w].pc \in Paying,
         NEW label \in Paying \ {"pay_commit"}, PayGo(w, label)
  PROVE  CheckoutInv'
<1> DEFINE job == [preq[w] EXCEPT !.pc = label]
<1>0. preq[w] \in PayRequest /\ KnowsPayment(w, preq[w], payments) /\ label \in PayLabel
  BY DEF CheckoutInv, CheckoutTypeOK, JobsInv, JobOK, Paying, PayLabel
<1>1. preq' = [preq EXCEPT ![w] = job]
  BY DEF PayGo
<1>2. /\ job \in PayRequest /\ job.pc = label /\ job.user = preq[w].user /\ job.seat = preq[w].seat
      /\ job.seen = preq[w].seen /\ job.payment = preq[w].payment
  BY <1>0, Relabelled
<1> HIDE DEF job
<1>3. /\ KnowsPayment(w, job, payments) /\ KnowsSession(job, gateway, provider)
      /\ BooksOnce(w, job, bookings)
  BY <1>0, <1>2 DEF KnowsPayment, KnowsSession, BooksOnce, MayBook, Paying, Settling
<1> QED
  BY <1>1, <1>2, <1>3, QuietMove

LEMMA CheckoutReadOK ==
  ASSUME CheckoutInv, NEW w \in PayReq, NEW u \in User, NEW s \in Seat, CheckoutRead(w, u, s),
         UNCHANGED <<req, provider>>
  PROVE  CheckoutInv'
<1> DEFINE job == [PayIdle EXCEPT !.pc = "pay_owner", !.user = u, !.seat = s, !.seen = Snapshot(s)]
<1>0. /\ StoreTypeOK /\ JobOK(w) /\ seats[s].held_price \in Prices \cup {None}
      /\ seats[s] \in SeatRow
  BY DEF CheckoutInv, CheckoutTypeOK, BookingTypeOK, StoreTypeOK, JobsInv, RefinementInv, HeldPriceInv
<1>1. Snapshot(s) \in SeatRow /\ Snapshot(s).held_price = seats[s].held_price
  BY <1>0, SnapshotIsRow DEF Snapshot, SeatRow
<1>2. preq' = [preq EXCEPT ![w] = job] /\ preq[w].pc = "idle"
  BY DEF CheckoutRead, PayBegin, PayAt
<1>3. /\ job \in PayRequest /\ job.pc = "pay_owner" /\ job.user = u /\ job.seat = s
      /\ job.seen = Snapshot(s) /\ job.payment = None
  BY <1>1, IdleJob DEF PayIdle, PayRequest, PayLabel
<1> HIDE DEF job
<1>4. payments[w].status = "none"
  BY <1>0, <1>2 DEF JobOK, KnowsPayment
<1>5. /\ KnowsPayment(w, job, payments) /\ KnowsSession(job, gateway, provider)
      /\ BooksOnce(w, job, bookings)
  BY <1>0, <1>1, <1>3, <1>4 DEF KnowsPayment, KnowsSession, BooksOnce, MayBook, Paying, Settling
<1>6. Quiet
  BY <1>0 DEF CheckoutRead, Quiet, storeVars, StoreTypeOK
<1> QED
  BY <1>2, <1>3, <1>5, <1>6, QuietMove

LEMMA CheckoutOnOK ==
  ASSUME CheckoutInv, NEW w \in PayReq, UNCHANGED <<req, provider>>,
         \/ CheckoutOwner(w) \/ CheckoutSet(w) \/ CheckoutExtend(w)
         \/ CheckoutExisting(w) \/ CheckoutPrice(w)
  PROVE  CheckoutInv'
<1>0. /\ StoreTypeOK /\ preq[w] \in PayRequest /\ KnowsPayment(w, preq[w], payments)
  BY DEF CheckoutInv, CheckoutTypeOK, BookingTypeOK, JobsInv, JobOK
<1>1. preq[w].pc \in Paying /\ preq[w].user \in User /\ preq[w].seat \in Seat
  BY <1>0 DEF CheckoutOwner, CheckoutSet, CheckoutExtend, CheckoutExisting, CheckoutPrice, PayAt,
              Paying, KnowsPayment
<1>2. Quiet
  BY <1>0, <1>1, PaymentLocks
  DEF CheckoutOwner, CheckoutSet, CheckoutExtend, CheckoutExisting, CheckoutPrice, Quiet, storeVars,
      StoreTypeOK
<1>3. ASSUME NEW label \in Paying \ {"pay_commit"}, PayGo(w, label)
      PROVE  CheckoutInv'
  BY <1>1, <1>2, <1>3, QuietPaying
<1>4. CASE PayFinish(w)
  BY <1>2, <1>4, QuietFinish
<1>5. ASSUME NEW p \in PayReq, payments[p].status = "pending",
             preq' = [preq EXCEPT ![w].pc = "pay_price", ![w].payment = p]
      PROVE  CheckoutInv'
  <2> DEFINE job == [preq[w] EXCEPT !.pc = "pay_price", !.payment = p]
  <2>1. preq' = [preq EXCEPT ![w] = job]
    BY <1>5
  <2>2. /\ job \in PayRequest /\ job.pc = "pay_price" /\ job.user = preq[w].user
        /\ job.seat = preq[w].seat /\ job.seen = preq[w].seen /\ job.payment = p
    BY <1>0 DEF PayRequest, PayLabel
  <2> HIDE DEF job
  <2>3. /\ KnowsPayment(w, job, payments) /\ KnowsSession(job, gateway, provider)
        /\ BooksOnce(w, job, bookings)
    BY <1>0, <1>1, <1>5, <2>2 DEF KnowsPayment, KnowsSession, BooksOnce, MayBook, Paying, Settling
  <2> QED
    BY <1>2, <2>1, <2>2, <2>3, QuietMove
<1>6. CASE CheckoutPrice(w)
  <2>0. PICK price : price = PriceNow(preq[w].seen)
    OBVIOUS
  <2> DEFINE job == [preq[w] EXCEPT !.pc = "pay_commit", !.price = price]
  <2>1. preq' = [preq EXCEPT ![w] = job] /\ preq[w].pc = "pay_price"
    BY <1>6, <2>0 DEF CheckoutPrice, PayAt
  <2>2. price \in Prices /\ price \in Nat
    BY <1>0, <1>1, <2>0, PriceNowInPrices, PriceInPrices DEF KnowsPayment
  <2>3. /\ job \in PayRequest /\ job.pc = "pay_commit" /\ job.user = preq[w].user
        /\ job.seat = preq[w].seat /\ job.seen = preq[w].seen /\ job.payment = preq[w].payment
        /\ job.price = price
    BY <1>0, <2>2 DEF PayRequest, PayLabel
  <2> HIDE DEF job
  <2>4. /\ KnowsPayment(w, job, payments) /\ KnowsSession(job, gateway, provider)
        /\ BooksOnce(w, job, bookings)
    BY <1>0, <1>1, <2>2, <2>3
    DEF KnowsPayment, KnowsSession, BooksOnce, MayBook, Paying, Settling
  <2> QED
    BY <1>2, <2>1, <2>3, <2>4, QuietMove
<1>7. CASE CheckoutOwner(w) \/ CheckoutSet(w) \/ CheckoutExtend(w)
  <2>1. \/ PayFinish(w)
        \/ \E label \in {"pay_set", "pay_extend", "pay_existing"} : PayGo(w, label)
    BY <1>7 DEF CheckoutOwner, CheckoutSet, CheckoutExtend
  <2> QED
    BY <1>3, <1>4, <2>1 DEF Paying
<1>8. CASE CheckoutExisting(w)
  <2>1. CASE PayGo(w, "pay_price")
    BY <1>3, <2>1 DEF Paying
  <2>2. \/ PayGo(w, "pay_price") \/ PayFinish(w)
        \/ \E p \in Pending(preq[w].seat) :
             preq' = [preq EXCEPT ![w].pc = "pay_price", ![w].payment = p]
    BY <1>8 DEF CheckoutExisting
  <2> QED
    BY <1>4, <1>5, <2>1, <2>2 DEF Pending
<1> QED
  BY <1>6, <1>7, <1>8

----------------------------------------------------------------------------
(* Loading a payment, asking for it, and giving it back.                   *)

LEMMA SettleJob ==
  ASSUME CheckoutInv, NEW p \in PayReq, payments[p].status # "none",
         NEW label \in {"query", "fulfil", "fail"}
  PROVE  LET job == Settle(p, label) IN
         /\ job \in PayRequest /\ job.pc = label /\ job.payment = p /\ job.stale = {}
         /\ job.user = payments[p].user /\ job.seat = payments[p].seat
<1>1. payments[p].user \in User /\ payments[p].seat \in Seat
  BY DEF CheckoutInv, PaymentsInv, PaymentOK
<1> QED
  BY <1>1, IdleJob DEF Settle, PayIdle, PayRequest, PayLabel

\* Invocation w sets out to settle p, one it has not settled before.
Loads(w, p, job) ==
  /\ job.pc \in {"query", "fulfil", "fail"}
  /\ job.payment = p /\ payments[p].status # "none"
  /\ job.user = payments[p].user /\ job.seat = payments[p].seat
  /\ p \notin job.stale /\ \A q \in job.stale : payments[q].status # "none"
  /\ \/ preq[w].pc = "idle"
     \/ preq[w].pc = "next" /\ {p} \cup job.stale \subseteq preq[w].stale

LEMMA LoadOK ==
  ASSUME CheckoutInv, Quiet, NEW w \in PayReq, NEW p \in PayReq, NEW job \in PayRequest,
         preq' = [preq EXCEPT ![w] = job], Loads(w, p, job), KnowsSession(job, gateway, provider)
  PROVE  CheckoutInv'
<1> USE DEF Loads
<1>1. KnowsPayment(w, job, payments)
  BY DEF KnowsPayment, Paying, Settling
<1>2. BooksOnce(w, preq[w], bookings) /\ job.stale \subseteq PayReq
  BY DEF CheckoutInv, JobsInv, JobOK, PayRequest
<1>3. BooksOnce(w, job, bookings)
  BY <1>2 DEF BooksOnce, MayBook
<1> QED
  BY <1>1, <1>3, QuietMove

LEMMA SettleReadOK ==
  ASSUME CheckoutInv, NEW w \in PayReq, NEW p \in PayReq, UNCHANGED <<req, provider>>,
         \/ WebhookRead(w, p) \/ SimulateRead(w, p) \/ StatusRead(w, p) \/ ReconcileRead(w, p)
  PROVE  CheckoutInv'
<1>0. StoreTypeOK /\ PaymentOK(p) /\ payments \in [PayReq -> PaymentRow]
  BY DEF CheckoutInv, CheckoutTypeOK, BookingTypeOK, PaymentsInv
<1>1. Quiet
  BY <1>0 DEF WebhookRead, SimulateRead, StatusRead, ReconcileRead, Quiet, storeVars, StoreTypeOK
<1>2. ASSUME NEW label \in {"fulfil", "fail"}, NEW op, PayBegin(w, op, Settle(p, label)),
             payments[p].status # "none",
             label = "fulfil" /\ provider = "stripe" => gateway[p] \in Good
      PROVE  CheckoutInv'
  <2> DEFINE job == Settle(p, label)
  <2>1. preq' = [preq EXCEPT ![w] = job] /\ preq[w].pc = "idle"
    BY <1>2 DEF PayBegin, PayAt
  <2>2. /\ job \in PayRequest /\ job.pc = label /\ job.payment = p /\ job.stale = {}
        /\ job.user = payments[p].user /\ job.seat = payments[p].seat
    BY <1>2, SettleJob
  <2> HIDE DEF job
  <2>3. KnowsSession(job, gateway, provider)
    BY <1>2, <2>2 DEF KnowsSession
  <2>4. Loads(w, p, job)
    BY <1>2, <2>1, <2>2 DEF Loads
  <2> QED
    BY <1>1, <2>1, <2>2, <2>3, <2>4, LoadOK
<1>3. CASE WebhookRead(w, p)
  <2>1. gateway[p] \in Completed => gateway[p] \in Good
    BY <1>0 DEF PaymentOK, Completed, Good
  <2>2. gateway[p] \in Completed => payments[p].status # "none"
    BY <1>0 DEF PaymentOK, Completed
  <2> QED
    BY <1>2, <1>3, <2>1, <2>2 DEF WebhookRead
<1>4. CASE SimulateRead(w, p)
  BY <1>2, <1>4 DEF SimulateRead
<1>5. CASE StatusRead(w, p)
  BY <1>2, <1>5 DEF StatusRead
<1>6. CASE ReconcileRead(w, p)
  <2>0. PICK rest : /\ rest = {q \in PayReq : payments[q].status = "pending" /\ payments[q].expires_at = 0} \ {p}
                    /\ rest \subseteq PayReq
    OBVIOUS
  <2> DEFINE one == Settle(p, ReconcileLabel)
             job == [one EXCEPT !.stale = rest]
  <2>1. preq' = [preq EXCEPT ![w] = job] /\ preq[w].pc = "idle" /\ payments[p].status = "pending"
    BY <1>6, <2>0 DEF ReconcileRead, PayBegin, PayAt
  <2>2. ReconcileLabel \in {"query", "fail"}
    BY DEF ReconcileLabel
  <2>3. /\ one \in PayRequest /\ one.pc = ReconcileLabel /\ one.payment = p
        /\ one.user = payments[p].user /\ one.seat = payments[p].seat
    BY <2>1, <2>2, SettleJob
  <2> HIDE DEF one
  <2>4. /\ job \in PayRequest /\ job.pc = ReconcileLabel /\ job.payment = p /\ job.stale = rest
        /\ job.user = payments[p].user /\ job.seat = payments[p].seat
    BY <2>0, <2>3 DEF PayRequest
  <2> HIDE DEF job
  <2>5. KnowsSession(job, gateway, provider)
    BY <2>2, <2>4 DEF KnowsSession
  <2>6. Loads(w, p, job)
    BY <2>0, <2>1, <2>2, <2>4 DEF Loads
  <2> QED
    BY <1>1, <2>1, <2>4, <2>5, <2>6, LoadOK
<1> QED
  BY <1>3, <1>4, <1>5, <1>6

LEMMA ReconcileQueryOK ==
  ASSUME CheckoutInv, NEW w \in PayReq, UNCHANGED <<req, provider>>, ReconcileQuery(w)
  PROVE  CheckoutInv'
<1>0. /\ CheckoutTypeOK /\ JobsInv /\ StoreTypeOK /\ preq[w].pc = "query"
      /\ BooksOnce(w, preq[w], bookings) /\ preq[w] \in PayRequest
  BY DEF CheckoutInv, CheckoutTypeOK, BookingTypeOK, JobsInv, JobOK, ReconcileQuery, PayAt
<1>1. Quiet /\ Kept(w)
  <2>1. Quiet
    BY <1>0 DEF ReconcileQuery, Quiet, storeVars, StoreTypeOK
  <2> QED
    BY <2>1, QuietKept
<1>2. ASSUME NEW label \in {"fulfil", "fail"}, PayGo(w, label),
             label = "fulfil" => gateway[preq[w].payment] = "paid"
      PROVE  CheckoutInv'
  <2> DEFINE job == [preq[w] EXCEPT !.pc = label]
  <2>1. /\ job.pc = label /\ job.payment = preq[w].payment /\ job.stale = preq[w].stale
    BY <1>0, Relabelled DEF PayLabel
  <2>2. label \in Settling /\ preq[w].pc \in Settling
    BY <1>0 DEF Settling
  <2> HIDE DEF job
  <2>3. gateway' = gateway /\ provider' = provider /\ bookings' = bookings
    BY <1>1 DEF Quiet
  <2>4. KnowsSession(job, gateway', provider')
    BY <1>2, <2>1, <2>3 DEF KnowsSession, Good, Completed
  <2>5. \A p \in PayReq : MayBook(job, p) => bookings'[<<w, p>>].status = "none"
    BY <1>0, <2>1, <2>2, <2>3 DEF MayBook, BooksOnce, Settling
  <2>6. preq' \in [PayReq -> PayRequest] /\ JobsInv'
    BY <1>0, <1>1, <1>2, <2>2, <2>4, <2>5, JobGoesOn DEF job
  <2> QED
    BY <1>1, <2>6, QuietOK
<1>3. CASE PayReturn(w, FALSE)
  <2>1. \A p \in preq[w].stale : bookings'[<<w, p>>].status = "none"
    BY <1>0, <1>1 DEF Quiet, BooksOnce, MayBook, Settling, PayRequest
  <2>2. preq' \in [PayReq -> PayRequest] /\ JobsInv'
    BY <1>0, <1>1, <1>3, <2>1, JobReturns DEF Settling
  <2> QED
    BY <1>1, <2>2, QuietOK
<1> QED
  BY <1>2, <1>3 DEF ReconcileQuery

LEMMA ReconcileNextOK ==
  ASSUME CheckoutInv, NEW w \in PayReq, UNCHANGED <<req, provider>>, ReconcileNext(w)
  PROVE  CheckoutInv'
<1>0. /\ StoreTypeOK /\ preq[w].pc = "next" /\ preq[w] \in PayRequest
      /\ preq[w].stale \subseteq PayReq /\ preq[w].reload \in BOOLEAN
      /\ BooksOnce(w, preq[w], bookings) /\ KnowsPayment(w, preq[w], payments)
  BY DEF CheckoutInv, CheckoutTypeOK, BookingTypeOK, JobsInv, JobOK, ReconcileNext, PayAt, PayRequest
<1>1. Quiet
  BY <1>0 DEF ReconcileNext, Quiet, storeVars, StoreTypeOK
<1>2. PICK p \in preq[w].stale, live \in BOOLEAN :
        LET rest == [Settle(p, ReconcileLabel) EXCEPT
                      !.live = live, !.stale = preq[w].stale \ {p}, !.reload = preq[w].reload] IN
        \/ preq' = [preq EXCEPT ![w] = rest]
        \/ preq' = [preq EXCEPT ![w] = [PayIdle EXCEPT !.pc = "done"]]
        \/ preq' = [preq EXCEPT ![w] = [rest EXCEPT !.pc = "next"]]
  BY <1>0 DEF ReconcileNext
<1>5. PICK left : left = preq[w].stale \ {p} /\ left \subseteq PayReq
  BY <1>0
<1> DEFINE one == Settle(p, ReconcileLabel)
           rest == [one EXCEPT !.live = live, !.stale = left, !.reload = preq[w].reload]
           next == [rest EXCEPT !.pc = "next"]
<1>3. p \in PayReq /\ payments[p].status # "none" /\ ReconcileLabel \in {"query", "fail"}
  BY <1>0 DEF KnowsPayment, ReconcileLabel
<1>4. /\ one \in PayRequest /\ one.pc = ReconcileLabel /\ one.payment = p
      /\ one.user = payments[p].user /\ one.seat = payments[p].seat
  BY <1>3, SettleJob
<1> HIDE DEF one
<1>6. /\ rest \in PayRequest /\ rest.pc = ReconcileLabel /\ rest.payment = p
      /\ rest.user = payments[p].user /\ rest.seat = payments[p].seat /\ rest.stale = left
  BY <1>0, <1>4, <1>5 DEF PayRequest
<1>7. \/ preq' = [preq EXCEPT ![w] = rest] \/ PayFinish(w) \/ preq' = [preq EXCEPT ![w] = next]
  BY <1>2, <1>5 DEF PayFinish, one
<1> HIDE DEF rest
<1>8. CASE preq' = [preq EXCEPT ![w] = rest]
  <2>1. KnowsSession(rest, gateway, provider)
    BY <1>3, <1>6 DEF KnowsSession
  <2>2. \A q \in left : payments[q].status # "none"
    BY <1>0, <1>5 DEF KnowsPayment
  <2>3. Loads(w, p, rest)
    BY <1>0, <1>3, <1>5, <1>6, <2>2 DEF Loads
  <2> QED
    BY <1>1, <1>3, <1>6, <1>8, <2>1, <2>3, LoadOK
<1>9. CASE PayFinish(w)
  BY <1>1, <1>9, QuietFinish
<1>10. CASE preq' = [preq EXCEPT ![w] = next]
  <2>1. next \in PayRequest /\ next.pc = "next" /\ next.stale = left
    BY <1>6 DEF PayRequest, PayLabel
  <2> HIDE DEF next
  <2>2. /\ KnowsPayment(w, next, payments) /\ KnowsSession(next, gateway, provider)
        /\ BooksOnce(w, next, bookings)
    BY <1>0, <1>5, <2>1 DEF KnowsPayment, KnowsSession, BooksOnce, MayBook, Paying, Settling
  <2> QED
    BY <1>1, <1>10, <2>1, <2>2, QuietMove
<1> QED
  BY <1>7, <1>8, <1>9, <1>10

LEMMA GiveBackOK ==
  ASSUME CheckoutInv, NEW w \in PayReq, UNCHANGED <<req, provider>>,
         SettleRelease(w) \/ PayCrash(w)
  PROVE  CheckoutInv'
<1>0. /\ CheckoutTypeOK /\ JobsInv /\ StoreTypeOK /\ PaymentsInv
      /\ BooksOnce(w, preq[w], bookings) /\ KnowsPayment(w, preq[w], payments)
      /\ preq[w] \in PayRequest
  BY DEF CheckoutInv, CheckoutTypeOK, BookingTypeOK, JobsInv, JobOK
<1>1. CASE PayCrash(w)
  <2>1. Quiet /\ PayFinish(w)
    BY <1>0, <1>1 DEF PayCrash, Quiet, storeVars, StoreTypeOK
  <2> QED
    BY <2>1, QuietFinish
<1>2. CASE SettleRelease(w)
  <2>1. preq[w].pc = "settle_release"
    BY <1>2 DEF SettleRelease, PayAt
  <2>2. preq[w].user \in User /\ preq[w].seat \in Seat
    BY <1>0, <2>1 DEF KnowsPayment, Settling, PaymentsInv, PaymentOK
  <2>3. Quiet /\ Kept(w)
    <3>1. locks' \in [Seat -> Lock]
      BY <1>0, <1>2, <2>2, RedisType DEF SettleRelease
    <3>2. Quiet
      BY <1>2, <3>1 DEF SettleRelease, Quiet
    <3> QED
      BY <3>2, QuietKept
  <2>4. \A p \in preq[w].stale : bookings'[<<w, p>>].status = "none"
    BY <1>0, <2>1, <2>3 DEF Quiet, BooksOnce, MayBook, Settling, PayRequest
  <2>5. preq' \in [PayReq -> PayRequest] /\ JobsInv'
    BY <1>0, <1>2, <2>1, <2>3, <2>4, JobReturns DEF SettleRelease, Settling
  <2> QED
    BY <2>3, <2>5, QuietOK
<1> QED
  BY <1>1, <1>2

----------------------------------------------------------------------------
(* Steps that write payments.                                              *)

\* The commit of a checkout: the partial unique index on pending payments
\* decides, once the payment it replaces is out of the way.
LEMMA CheckoutCommitOK ==
  ASSUME CheckoutInv, NEW w \in PayReq, UNCHANGED <<req, provider>>, CheckoutCommit(w)
  PROVE  CheckoutInv'
<1>0. /\ CheckoutTypeOK /\ StoreTypeOK /\ JobsInv /\ PaymentsInv /\ RefinementInv
      /\ payments \in [PayReq -> PaymentRow]
      /\ gateway \in [PayReq -> {"none", "open", "expired"} \cup Completed]
      /\ OnePendingPaymentPerSeat /\ SoldByPaymentWasCompleted
      /\ KnowsPayment(w, preq[w], payments) /\ preq[w] \in PayRequest /\ preq[w].pc = "pay_commit"
  BY DEF CheckoutInv, CheckoutTypeOK, BookingTypeOK, JobsInv, JobOK, CheckoutCommit, PayAt
<1>1. PICK s, u, price, old : s = preq[w].seat /\ u = preq[w].user /\ price = preq[w].price
                              /\ old = preq[w].payment
  OBVIOUS
<1>2. /\ s \in Seat /\ u \in User /\ price \in Prices /\ price \in Nat
      /\ payments[w].status = "none" /\ gateway[w] = "none"
      /\ old \in PayReq \cup {None}
      /\ old # None => payments[old].status # "none" /\ old # w
  BY <1>0, <1>1, PriceInPrices DEF KnowsPayment, Paying, PaymentsInv, PaymentOK, PayRequest
<1>3. CASE UNCHANGED <<payments, gateway, seats>> /\ PayFinish(w)
  <2>1. Quiet
    BY <1>0, <1>3 DEF CheckoutCommit, Quiet, StoreTypeOK
  <2> QED
    BY <1>3, <2>1, QuietFinish
<1>4. CASE PendingAdmits(w) /\ gateway' = [gateway EXCEPT ![w] = "open"]
  <2> DEFINE new == [user |-> u, seat |-> s, amount |-> price, status |-> "pending",
                     booking |-> None, expires_at |-> PaymentTTL]
             gone == [payments[old] EXCEPT !.status = "expired"]
  <2>1. payments' = [p \in PayReq |-> IF p = w THEN new ELSE IF p = old THEN gone ELSE payments[p]]
    BY <1>1, <1>2, <1>4 DEF CheckoutCommit
  <2>2. /\ new \in PaymentRow /\ new.status = "pending" /\ new.seat = s /\ new.user = u
        /\ new.amount = price
    BY <1>2, StoreAssumption DEF StoreAssumption, PaymentRow
  <2>3. old # None => /\ gone \in PaymentRow /\ gone.status = "expired"
                      /\ gone.user = payments[old].user /\ gone.seat = payments[old].seat
                      /\ gone.amount = payments[old].amount
    BY <1>0, <1>2 DEF PaymentRow
  <2> HIDE DEF new, gone
  <2>4. /\ payments'[w] = new
        /\ \A p \in PayReq : p # w /\ p = old => payments'[p] = gone /\ old # None
        /\ \A p \in PayReq : p # w /\ p # old => payments'[p] = payments[p]
    BY <2>1, CheckoutAssumption DEF CheckoutAssumption
  <2>5. payments' \in [PayReq -> PaymentRow]
    BY <1>0, <2>1, <2>2, <2>3, <2>4
  <2>6. /\ gateway' \in [PayReq -> {"none", "open", "expired"} \cup Completed]
        /\ gateway'[w] = "open" /\ \A p \in PayReq : p # w => gateway'[p] = gateway[p]
    BY <1>0, <1>4
  <2>7. RefinementInv'
    <3>1. CASE seats[s].status \in Lockable
      <4>1. seats[s] \in SeatRow
        BY <1>0, <1>2 DEF StoreTypeOK
      <4>2. PICK row : row = PaymentPendingRow(seats[s], u)
        OBVIOUS
      <4>3. SetRow(s, row) /\ UNCHANGED <<locks, bookings, req>>
        BY <1>1, <1>2, <1>4, <3>1, <4>2 DEF CheckoutCommit
      <4>4. row \in SeatRow /\ row.status # "booked" /\ row.held_price = seats[s].held_price
        BY <1>2, <4>1, <4>2, PaymentRows
      <4> QED
        BY <1>0, <1>2, <4>3, <4>4, RowOnly
    <3>2. CASE seats[s].status \notin Lockable
      <4>1. UNCHANGED <<seats, bookings, req>> /\ locks' \in [Seat -> Lock]
        BY <1>0, <1>1, <1>4, <3>2 DEF CheckoutCommit, StoreTypeOK
      <4> QED
        BY <1>0, <4>1, LocksOnly
    <3> QED
      BY <3>1, <3>2
  <2>8. Kept(w)
    <3>1. gateway[w] \notin Good
      BY <1>2 DEF Good, Completed
    <3> QED
      BY <1>2, <2>3, <2>4, <2>6, <3>1 DEF Kept, CheckoutCommit
  <2>9. preq' \in [PayReq -> PayRequest] /\ JobsInv'
    BY <1>0, <2>8, JobFinishes DEF CheckoutCommit
  <2>10. PaymentsInv'
    BY <1>0, <1>2, <2>2, <2>3, <2>4, <2>6 DEF PaymentsInv, PaymentOK
  <2>11. OnePendingPaymentPerSeat'
    <3>1. \A p \in PayReq : payments[p].status = "pending" /\ payments[p].seat = s => p = old
      BY <1>1, <1>4 DEF PendingAdmits, Pending
    <3>2. \A p \in PayReq : payments'[p].status = "pending" /\ payments'[p].seat = s => p = w
      BY <2>3, <2>4, <3>1
    <3>3. \A p \in PayReq : payments'[p].status = "pending" /\ payments'[p].seat # s =>
            payments'[p] = payments[p]
      BY <2>2, <2>3, <2>4
    <3> QED
      BY <1>0, <3>2, <3>3 DEF OnePendingPaymentPerSeat
  <2>12. SoldByPaymentWasCompleted'
    BY <1>0, <2>2, <2>3, <2>4, <2>6 DEF SoldByPaymentWasCompleted
  <2>13. CheckoutTypeOK'
    BY <1>0, <2>5, <2>6, <2>7, <2>9 DEF CheckoutTypeOK, RefinementInv, SaleInv, BookingInv
  <2> QED
    BY <2>7, <2>9, <2>10, <2>11, <2>12, <2>13 DEF CheckoutInv
<1> QED
  BY <1>3, <1>4 DEF CheckoutCommit

\* The payment's row after its settlement.
Settled(p, st, b) == [payments[p] EXCEPT !.status = st, !.booking = b]

LEMMA SettledOK ==
  ASSUME CheckoutInv, RefinementInv', UNCHANGED <<gateway, provider>>, NEW p \in PayReq,
         NEW st \in {"succeeded", "failed"}, NEW b \in BookingId \cup {None},
         payments[p].status # "none", payments' = [payments EXCEPT ![p] = Settled(p, st, b)],
         st = "succeeded" /\ provider = "stripe" => gateway[p] \in Good,
         preq' \in [PayReq -> PayRequest], JobsInv'
  PROVE  CheckoutInv'
<1> DEFINE row == Settled(p, st, b)
<1>0. /\ payments \in [PayReq -> PaymentRow] /\ PaymentsInv /\ CheckoutTypeOK
      /\ OnePendingPaymentPerSeat /\ SoldByPaymentWasCompleted
  BY DEF CheckoutInv, CheckoutTypeOK
<1>1. /\ row \in PaymentRow /\ row.status = st /\ row.user = payments[p].user
      /\ row.seat = payments[p].seat /\ row.amount = payments[p].amount
  BY <1>0 DEF Settled, PaymentRow
<1> HIDE DEF row
<1>2. /\ payments' \in [PayReq -> PaymentRow] /\ payments'[p] = row
      /\ \A q \in PayReq : q # p => payments'[q] = payments[q]
  BY <1>0, <1>1 DEF row
<1>3. PaymentsInv' /\ OnePendingPaymentPerSeat'
  BY <1>0, <1>1, <1>2 DEF PaymentsInv, PaymentOK, OnePendingPaymentPerSeat
<1>4. SoldByPaymentWasCompleted'
  BY <1>0, <1>1, <1>2 DEF SoldByPaymentWasCompleted, Good
<1>5. CheckoutTypeOK'
  BY <1>0, <1>2 DEF CheckoutTypeOK, RefinementInv, SaleInv, BookingInv
<1> QED
  BY <1>3, <1>4, <1>5 DEF CheckoutInv

LEMMA SettledKept ==
  ASSUME CheckoutTypeOK, UNCHANGED <<gateway, provider>>, NEW w, NEW p \in PayReq,
         NEW st \in {"succeeded", "failed"}, NEW b \in BookingId \cup {None},
         payments[p].status # "none", payments' = [payments EXCEPT ![p] = Settled(p, st, b)],
         \A v, q \in PayReq : v # w => bookings'[<<v, q>>] = bookings[<<v, q>>]
  PROVE  Kept(w)
<1> DEFINE row == Settled(p, st, b)
<1>1. payments \in [PayReq -> PaymentRow]
  BY DEF CheckoutTypeOK
<1>2. row.status = st /\ row.user = payments[p].user /\ row.seat = payments[p].seat
  BY <1>1 DEF Settled, PaymentRow
<1> HIDE DEF row
<1>3. payments'[p] = row /\ \A q \in PayReq : q # p => payments'[q] = payments[q]
  BY <1>1 DEF row
<1> QED
  BY <1>2, <1>3 DEF Kept

\* A settlement that leaves the booking of its payment.
LEMMA SettledPlainly ==
  ASSUME CheckoutTypeOK, NEW p \in PayReq, NEW st,
         payments' = [payments EXCEPT ![p].status = st]
  PROVE  /\ payments[p].booking \in BookingId \cup {None}
         /\ payments' = [payments EXCEPT ![p] = Settled(p, st, payments[p].booking)]
<1>1. payments[p] \in PaymentRow
  BY DEF CheckoutTypeOK
<1>2. Settled(p, st, payments[p].booking) = [payments[p] EXCEPT !.status = st]
  BY <1>1 DEF Settled, PaymentRow
<1> QED
  BY <1>1, <1>2 DEF PaymentRow

LEMMA FailOK ==
  ASSUME CheckoutInv, NEW w \in PayReq, UNCHANGED <<req, provider>>, Fail(w)
  PROVE  CheckoutInv'
<1>0. /\ CheckoutTypeOK /\ StoreTypeOK /\ JobsInv /\ PaymentsInv /\ RefinementInv
      /\ preq[w].pc = "fail" /\ preq[w] \in PayRequest
      /\ KnowsPayment(w, preq[w], payments) /\ BooksOnce(w, preq[w], bookings)
  BY DEF CheckoutInv, CheckoutTypeOK, BookingTypeOK, JobsInv, JobOK, Fail, PayAt
<1>1. PICK p, s : p = preq[w].payment /\ s = preq[w].seat
  OBVIOUS
<1>2. p \in PayReq /\ payments[p].status # "none" /\ s \in Seat /\ preq[w].stale \subseteq PayReq
  BY <1>0, <1>1 DEF KnowsPayment, Settling, PaymentsInv, PaymentOK, PayRequest
<1>3. payments' = [payments EXCEPT ![p].status = "failed"] /\ UNCHANGED <<bookings, gateway>>
  BY <1>1 DEF Fail
<1>4. PICK b \in BookingId \cup {None} : payments' = [payments EXCEPT ![p] = Settled(p, "failed", b)]
  BY <1>0, <1>2, <1>3, SettledPlainly
<1>5. Kept(w)
  BY <1>0, <1>2, <1>3, <1>4, SettledKept
<1>6. RefinementInv'
  <2>1. CASE seats[s].status = "payment_pending"
    <3>1. seats[s] \in SeatRow
      BY <1>0, <1>2 DEF StoreTypeOK
    <3>2. PICK row : row = FailedRow(seats[s])
      OBVIOUS
    <3>3. SetRow(s, row) /\ UNCHANGED <<locks, bookings, req>>
      BY <1>1, <1>3, <2>1, <3>2 DEF Fail
    <3>4. row \in SeatRow /\ row.status # "booked" /\ row.held_price = seats[s].held_price
      BY <3>1, <3>2, PaymentRows
    <3> QED
      BY <1>0, <1>2, <3>3, <3>4, RowOnly
  <2>2. CASE seats[s].status # "payment_pending"
    <3>1. UNCHANGED <<seats, bookings, req>> /\ locks' \in [Seat -> Lock]
      BY <1>0, <1>1, <1>3, <2>2 DEF Fail, StoreTypeOK
    <3> QED
      BY <1>0, <3>1, LocksOnly
  <2> QED
    BY <2>1, <2>2
<1>7. preq' \in [PayReq -> PayRequest] /\ JobsInv'
  <2> DEFINE job == [preq[w] EXCEPT !.pc = "settle_release"]
  <2>1. job.pc = "settle_release" /\ job.payment = preq[w].payment /\ job.stale = preq[w].stale
    BY <1>0, Relabelled DEF PayLabel
  <2>2. PayGo(w, "settle_release")
    BY DEF Fail
  <2> HIDE DEF job
  <2>3. KnowsSession(job, gateway', provider')
    BY <2>1 DEF KnowsSession
  <2>4. \A q \in PayReq : MayBook(job, q) => bookings'[<<w, q>>].status = "none"
    BY <1>0, <1>3, <2>1 DEF MayBook, BooksOnce, Settling
  <2> QED
    BY <1>0, <1>5, <2>2, <2>3, <2>4, JobGoesOn DEF Settling, job
<1> QED
  BY <1>2, <1>3, <1>4, <1>6, <1>7, SettledOK

\* The seat was lost to someone else: the payment fails after all.
LEMMA FulfilLostOK ==
  ASSUME CheckoutInv, NEW w \in PayReq, UNCHANGED <<req, provider>>, FulfilLost(w)
  PROVE  CheckoutInv'
<1>0. /\ CheckoutTypeOK /\ StoreTypeOK /\ JobsInv /\ RefinementInv
      /\ preq[w].pc = "fulfil_lost" /\ KnowsPayment(w, preq[w], payments)
  BY DEF CheckoutInv, CheckoutTypeOK, BookingTypeOK, JobsInv, JobOK, FulfilLost, PayAt
<1>1. PICK p : p = preq[w].payment
  OBVIOUS
<1>2. p \in PayReq /\ payments[p].status # "none"
  BY <1>0, <1>1 DEF KnowsPayment, Settling
<1>3. /\ payments' = [payments EXCEPT ![p].status = "failed"]
      /\ UNCHANGED <<seats, locks, bookings, gateway>>
  BY <1>1 DEF FulfilLost, storeVars
<1>4. PICK b \in BookingId \cup {None} : payments' = [payments EXCEPT ![p] = Settled(p, "failed", b)]
  BY <1>0, <1>2, <1>3, SettledPlainly
<1>5. Kept(w)
  BY <1>0, <1>2, <1>3, <1>4, SettledKept
<1>6. RefinementInv'
  BY <1>0, <1>3, LocksOnly DEF StoreTypeOK
<1>7. preq' \in [PayReq -> PayRequest] /\ JobsInv'
  BY <1>0, <1>5, JobFinishes DEF FulfilLost
<1> QED
  BY <1>2, <1>3, <1>4, <1>6, <1>7, SettledOK

\* A confirmed booking of the seat is taken for the payment's, or none.
LEMMA FulfilLinkedOK ==
  ASSUME CheckoutInv, NEW w \in PayReq, UNCHANGED <<req, provider>>, FulfilLinked(w)
  PROVE  CheckoutInv'
<1>0. /\ CheckoutTypeOK /\ StoreTypeOK /\ JobsInv /\ RefinementInv /\ preq[w] \in PayRequest
      /\ preq[w].pc = "fulfil_linked" /\ KnowsPayment(w, preq[w], payments)
      /\ KnowsSession(preq[w], gateway, provider) /\ BooksOnce(w, preq[w], bookings)
  BY DEF CheckoutInv, CheckoutTypeOK, BookingTypeOK, JobsInv, JobOK, FulfilLinked, PayAt
<1>1. PICK p : p = preq[w].payment
  OBVIOUS
<1>2. /\ p \in PayReq /\ payments[p].status # "none"
      /\ provider = "stripe" => gateway[p] \in Good
  BY <1>0, <1>1 DEF KnowsPayment, KnowsSession, Settling
<1>3. /\ UNCHANGED <<seats, locks, bookings, gateway>>
  BY DEF FulfilLinked, storeVars
<1>4. PICK b \in BookingId \cup {None} :
        payments' = [payments EXCEPT ![p].status = "succeeded", ![p].booking = b]
  BY <1>1 DEF FulfilLinked, Confirmed
<1>5. payments' = [payments EXCEPT ![p] = Settled(p, "succeeded", b)]
  BY <1>4 DEF Settled
<1>6. Kept(w)
  BY <1>0, <1>2, <1>3, <1>5, SettledKept
<1>7. RefinementInv'
  BY <1>0, <1>3, LocksOnly DEF StoreTypeOK
<1>8. preq' \in [PayReq -> PayRequest] /\ JobsInv'
  <2>1. \A q \in preq[w].stale : bookings'[<<w, q>>].status = "none"
    BY <1>0, <1>3 DEF BooksOnce, MayBook, Settling, PayRequest
  <2> QED
    BY <1>0, <1>6, <2>1, JobReturns DEF FulfilLinked, Settling
<1> QED
  BY <1>2, <1>3, <1>5, <1>7, <1>8, SettledOK

\* The claim of the row, the booking and the payment commit together: a sale.
LEMMA FulfilOK ==
  ASSUME CheckoutInv, NEW w \in PayReq, UNCHANGED <<req, provider>>, Fulfil(w)
  PROVE  CheckoutInv' /\ (bookings' # bookings => \E b \in BookingId : Sale!Sell(b))
<1>0. /\ CheckoutTypeOK /\ StoreTypeOK /\ JobsInv /\ PaymentsInv /\ RefinementInv
      /\ preq[w] \in PayRequest /\ preq[w].pc = "fulfil" /\ KnowsPayment(w, preq[w], payments)
      /\ KnowsSession(preq[w], gateway, provider) /\ BooksOnce(w, preq[w], bookings)
      /\ locks' \in [Seat -> Lock] /\ UNCHANGED <<locks, gateway>>
  BY DEF CheckoutInv, CheckoutTypeOK, BookingTypeOK, StoreTypeOK, JobsInv, JobOK, Fulfil, PayAt
<1>1. PICK p, s, u, b : p = preq[w].payment /\ s = preq[w].seat /\ u = preq[w].user /\ b = <<w, p>>
  OBVIOUS
<1>2. /\ p \in PayReq /\ payments[p].status # "none" /\ u \in User /\ s \in Seat
      /\ payments[p].amount \in Prices /\ b \in BookingId \ Req
      /\ provider = "stripe" => gateway[p] \in Good
      /\ bookings[b].status = "none" /\ p \notin preq[w].stale /\ preq[w].stale \subseteq PayReq
  <2>1. p \in PayReq /\ payments[p].status # "none" /\ u = payments[p].user /\ s = payments[p].seat
        /\ p \notin preq[w].stale /\ preq[w].stale \subseteq PayReq
    BY <1>0, <1>1 DEF KnowsPayment, Settling, PayRequest
  <2>2. u \in User /\ s \in Seat /\ payments[p].amount \in Prices
    BY <1>0, <2>1 DEF PaymentsInv, PaymentOK
  <2>3. b \in BookingId \ Req
    BY <1>1, <2>1, CheckoutAssumption DEF CheckoutAssumption
  <2>4. bookings[b].status = "none"
    BY <1>0, <1>1, <2>1 DEF BooksOnce, MayBook
  <2>5. provider = "stripe" => gateway[p] \in Good
    BY <1>0, <1>1 DEF KnowsSession
  <2> QED
    BY <2>1, <2>2, <2>3, <2>4, <2>5
<1>3. ASSUME NEW label \in {"fulfil_lost", "fulfil_linked"}, PayGo(w, label),
             UNCHANGED <<seats, bookings, payments>>
      PROVE  CheckoutInv'
  <2> DEFINE job == [preq[w] EXCEPT !.pc = label]
  <2>1. job.pc = label /\ job.payment = preq[w].payment /\ job.stale = preq[w].stale
    BY <1>0, Relabelled DEF PayLabel
  <2>2. Quiet /\ Kept(w)
    BY <1>0, <1>3, QuietKept DEF Quiet
  <2> HIDE DEF job
  <2>3. KnowsSession(job, gateway', provider')
    BY <1>0, <2>1 DEF KnowsSession
  <2>4. \A q \in PayReq : MayBook(job, q) => bookings'[<<w, q>>].status = "none"
    BY <1>0, <1>3, <2>1 DEF MayBook, BooksOnce, Settling
  <2>5. preq' \in [PayReq -> PayRequest] /\ JobsInv'
    BY <1>0, <1>3, <2>2, <2>3, <2>4, JobGoesOn DEF Settling, job
  <2> QED
    BY <2>2, <2>5, QuietOK
<1>4. ASSUME IndexAdmits(s), SetRow(s, FulfilledRow(seats[s])),
             InsertBooking(b, u, s, payments[p].amount),
             payments' = [payments EXCEPT ![p].status = "succeeded", ![p].booking = b],
             PayGo(w, "settle_release")
      PROVE  CheckoutInv' /\ Sale!Sell(b)
  <2>1. RefinementInv' /\ Sale!Sell(b)
    BY <1>0, <1>2, <1>4, PaymentSells
  <2>2. payments' = [payments EXCEPT ![p] = Settled(p, "succeeded", b)]
    BY <1>4 DEF Settled
  <2>3. \A c \in BookingId : c # b => bookings'[c] = bookings[c]
    BY <1>4 DEF InsertBooking
  <2>4. \A v, q \in PayReq : <<v, q>> \in BookingId /\ (<<v, q>> = b => v = w /\ q = p)
    BY <1>1, CheckoutAssumption DEF CheckoutAssumption
  <2>5. Kept(w)
    BY <1>0, <1>2, <2>2, <2>3, <2>4, SettledKept
  <2>6. preq' \in [PayReq -> PayRequest] /\ JobsInv'
    <3> DEFINE job == [preq[w] EXCEPT !.pc = "settle_release"]
    <3>1. job.pc = "settle_release" /\ job.payment = preq[w].payment /\ job.stale = preq[w].stale
      BY <1>0, Relabelled DEF PayLabel
    <3> HIDE DEF job
    <3>2. KnowsSession(job, gateway', provider')
      BY <3>1 DEF KnowsSession
    <3>3. \A q \in PayReq : MayBook(job, q) => q \in preq[w].stale
      BY <3>1 DEF MayBook
    <3>4. \A q \in preq[w].stale : bookings[<<w, q>>].status = "none" /\ bookings'[<<w, q>>] = bookings[<<w, q>>]
      BY <1>0, <1>2, <2>3, <2>4 DEF BooksOnce, MayBook, Settling
    <3>5. \A q \in PayReq : MayBook(job, q) => bookings'[<<w, q>>].status = "none"
      BY <3>3, <3>4
    <3> QED
      BY <1>0, <1>4, <2>5, <3>2, <3>5, JobGoesOn DEF Settling, job
  <2> QED
    BY <1>0, <1>2, <2>1, <2>2, <2>6, SettledOK
<1> QED
  BY <1>1, <1>2, <1>3, <1>4 DEF Fulfil

----------------------------------------------------------------------------
(* Steps of the others: the gateway, the clock, the holds and bookings.    *)

\* What the jobs know of the payments stays, whoever else moves.
LEMMA GatewayOK ==
  ASSUME CheckoutInv, UNCHANGED <<bookingVars, payments, preq, provider>>, NEW p \in PayReq,
         NEW outcome \in {"paid", "processing", "declined", "expired"},
         gateway' = [gateway EXCEPT ![p] = outcome],
         \/ gateway[p] = "open" /\ outcome # "declined" /\ (outcome = "processing" => Delayed)
         \/ gateway[p] = "processing" /\ outcome \in {"paid", "declined"}
  PROVE  CheckoutInv'
<1>0. /\ CheckoutTypeOK /\ StoreTypeOK /\ JobsInv /\ PaymentsInv /\ RefinementInv
      /\ OnePendingPaymentPerSeat /\ SoldByPaymentWasCompleted
      /\ gateway \in [PayReq -> {"none", "open", "expired"} \cup Completed]
  BY DEF CheckoutInv, CheckoutTypeOK, BookingTypeOK
<1>1. /\ gateway' \in [PayReq -> {"none", "open", "expired"} \cup Completed]
      /\ gateway'[p] = outcome /\ \A q \in PayReq : q # p => gateway'[q] = gateway[q]
  BY <1>0 DEF Completed
<1>2. gateway[p] \in Good => outcome \in Good /\ Delayed
  BY <1>0 DEF PaymentsInv, PaymentOK, Good, Completed
<1>3. \A q \in PayReq : gateway[q] \in Good => gateway'[q] \in Good
  BY <1>1, <1>2
<1>4. /\ UNCHANGED <<seats, locks, bookings, req>> /\ payments' = payments
      /\ preq' = preq /\ provider' = provider
  BY DEF bookingVars
<1>5. JobsInv'
  <2>1. Kept(None)
    BY <1>3, <1>4 DEF Kept
  <2> QED
    BY <1>0, <1>4, <2>1, JobsStay, CheckoutAssumption DEF CheckoutAssumption
<1>6. RefinementInv'
  BY <1>0, <1>4, LocksOnly DEF StoreTypeOK
<1>7. PaymentsInv'
  <2>1. gateway[p] # "none" /\ (outcome \in {"processing", "declined"} => Delayed)
    BY <1>0 DEF PaymentsInv, PaymentOK
  <2> QED
    BY <1>0, <1>1, <1>4, <2>1 DEF PaymentsInv, PaymentOK
<1>8. OnePendingPaymentPerSeat' /\ SoldByPaymentWasCompleted'
  BY <1>0, <1>3, <1>4 DEF OnePendingPaymentPerSeat, SoldByPaymentWasCompleted, Good
<1>9. CheckoutTypeOK'
  BY <1>0, <1>1, <1>4, <1>6 DEF CheckoutTypeOK, RefinementInv, SaleInv, BookingInv
<1> QED
  BY <1>5, <1>6, <1>7, <1>8, <1>9 DEF CheckoutInv

LEMMA SessionOK ==
  ASSUME CheckoutInv, NEW p \in PayReq, UNCHANGED provider,
         CustomerPays(p) \/ MoneyMoves(p) \/ SessionExpires(p)
  PROVE  CheckoutInv'
<1>1. CASE CustomerPays(p)
  BY <1>1, GatewayOK DEF CustomerPays
<1>2. CASE MoneyMoves(p)
  BY <1>2, GatewayOK DEF MoneyMoves
<1>3. CASE SessionExpires(p)
  BY <1>3, GatewayOK DEF SessionExpires
<1> QED
  BY <1>1, <1>2, <1>3

\* Time shortens the timers of the store and of the payments.
LEMMA PayTickOK ==
  ASSUME CheckoutInv, PayTick, UNCHANGED provider
  PROVE  CheckoutInv' /\ bookings' = bookings
<1>0. /\ CheckoutTypeOK /\ StoreTypeOK /\ JobsInv /\ PaymentsInv /\ RefinementInv
      /\ OnePendingPaymentPerSeat /\ SoldByPaymentWasCompleted
      /\ payments \in [PayReq -> PaymentRow]
  BY DEF CheckoutInv, CheckoutTypeOK, BookingTypeOK
<1>1. /\ StoreTypeOK' /\ bookings' = bookings /\ req' = req
      /\ gateway' = gateway /\ preq' = preq /\ provider' = provider
      /\ \A s \in Seat : /\ seats'[s].status = seats[s].status
                         /\ seats'[s].held_price = seats[s].held_price
  BY <1>0, TickKeeps DEF PayTick
<1>2. RefinementInv'
  <2>1. BookingTypeOK' /\ LedgerInv'
    BY <1>0, <1>1 DEF RefinementInv, SaleInv, BookingInv, BookingTypeOK, LedgerInv
  <2>2. \A r \in Req : RequestInv(r)' /\ QuoteInv(r)'
    BY <1>0, <1>1 DEF RefinementInv, SaleInv, BookingInv, RequestInv, QuoteInv, At
  <2>3. OneConfirmedBookingPerSeat' /\ BookedSeatHasBooking'
    BY <1>0, <1>1 DEF RefinementInv, SaleInv, OneConfirmedBookingPerSeat, BookedSeatHasBooking,
                      Confirmed
  <2>4. HeldPriceInv' /\ UnusedInv'
    BY <1>0, <1>1 DEF RefinementInv, HeldPriceInv, UnusedInv
  <2> QED
    BY <2>1, <2>2, <2>3, <2>4 DEF RefinementInv, SaleInv, BookingInv
<1>3. /\ payments' \in [PayReq -> PaymentRow]
      /\ \A p \in PayReq : /\ payments'[p].status = payments[p].status
                           /\ payments'[p].user = payments[p].user
                           /\ payments'[p].seat = payments[p].seat
                           /\ payments'[p].amount = payments[p].amount
  <2>1. \A t \in Nat : Aged(t) \in Nat
    BY DEF Aged
  <2>2. ASSUME NEW p \in PayReq
        PROVE  /\ payments'[p] \in PaymentRow /\ payments'[p].status = payments[p].status
               /\ payments'[p].user = payments[p].user /\ payments'[p].seat = payments[p].seat
               /\ payments'[p].amount = payments[p].amount
    <3>1. PICK t \in Nat : t = Aged(payments[p].expires_at)
      BY <1>0, <2>1 DEF PaymentRow
    <3>2. payments'[p] = [payments[p] EXCEPT !.expires_at = t]
      BY <3>1 DEF PayTick
    <3> QED
      BY <1>0, <3>2 DEF PaymentRow
  <2>3. payments' = [p \in PayReq |-> payments'[p]]
    BY DEF PayTick
  <2> QED
    BY <2>2, <2>3
<1>4. JobsInv'
  <2>1. Kept(None)
    BY <1>1, <1>3 DEF Kept
  <2> QED
    BY <1>0, <1>1, <2>1, JobsStay, CheckoutAssumption DEF CheckoutAssumption
<1>5. PaymentsInv' /\ OnePendingPaymentPerSeat' /\ SoldByPaymentWasCompleted'
  BY <1>0, <1>1, <1>3 DEF PaymentsInv, PaymentOK, OnePendingPaymentPerSeat,
                          SoldByPaymentWasCompleted
<1>6. CheckoutTypeOK'
  BY <1>0, <1>1, <1>2, <1>3 DEF CheckoutTypeOK, RefinementInv, SaleInv, BookingInv
<1> QED
  BY <1>1, <1>2, <1>4, <1>5, <1>6 DEF CheckoutInv

\* A step of a hold, a booking, a cancellation or the sweeper, or none.
LEMMA HandlersOK ==
  ASSUME CheckoutInv, UNCHANGED payVars,
         (\E r \in Req : RequestStep(r)) \/ UNCHANGED bookingVars
  PROVE  CheckoutInv'
<1>0. /\ CheckoutTypeOK /\ JobsInv /\ PaymentsInv /\ RefinementInv /\ BookingInv
      /\ OnePendingPaymentPerSeat /\ SoldByPaymentWasCompleted
  BY DEF CheckoutInv, RefinementInv, SaleInv
<1>1. RefinementInv'
  BY <1>0, RefinementNext DEF BookingNext
<1>2. payments' = payments /\ gateway' = gateway /\ preq' = preq /\ provider' = provider
  BY DEF payVars
<1>3. \A v, p \in PayReq : bookings[<<v, p>>].status = "none" => bookings'[<<v, p>>].status = "none"
  <2>1. \A v, p \in PayReq : <<v, p>> \in BookingId \ Req
    BY CheckoutAssumption DEF CheckoutAssumption
  <2>2. ASSUME NEW r \in Req, RequestStep(r)
        PROVE  \A b \in BookingId \ Req : bookings[b].status = "none" => bookings'[b].status = "none"
    BY <1>0, <2>2, RequestStepOK DEF StepOK, LedgerKept
  <2> QED
    BY <2>1, <2>2 DEF bookingVars
<1>4. JobsInv'
  <2>1. Kept(None)
    BY <1>2, <1>3 DEF Kept
  <2> QED
    BY <1>0, <1>2, <2>1, JobsStay, CheckoutAssumption DEF CheckoutAssumption
<1>5. PaymentsInv' /\ OnePendingPaymentPerSeat' /\ SoldByPaymentWasCompleted'
  BY <1>0, <1>2 DEF PaymentsInv, PaymentOK, OnePendingPaymentPerSeat, SoldByPaymentWasCompleted
<1>6. CheckoutTypeOK'
  BY <1>0, <1>1, <1>2 DEF CheckoutTypeOK, RefinementInv, SaleInv, BookingInv
<1> QED
  BY <1>1, <1>4, <1>5, <1>6 DEF CheckoutInv

----------------------------------------------------------------------------
(* The invariant.                                                          *)

LEMMA CheckoutStarts == CheckoutInit => CheckoutInv
<1> SUFFICES ASSUME CheckoutInit PROVE CheckoutInv
  OBVIOUS
<1>0. /\ RefinementInv /\ payments = [p \in PayReq |-> NoPayment]
      /\ gateway = [p \in PayReq |-> "none"] /\ preq = [w \in PayReq |-> PayIdle]
      /\ provider \in Providers /\ bookings = [b \in BookingId |-> NoBooking]
  BY RefinementInit DEF CheckoutInit, BookingInit, StoreInit
<1>1. NoPayment \in PaymentRow /\ NoPayment.status = "none"
  BY DEF NoPayment, PaymentRow
<1>2. \A p \in PayReq : payments[p].status = "none" /\ gateway[p] = "none"
  BY <1>0, <1>1
<1>3. CheckoutTypeOK
  BY <1>0, <1>1, IdleJob DEF CheckoutTypeOK, RefinementInv, SaleInv, BookingInv
<1>4. JobsInv
  <2>1. \A v, p \in PayReq : bookings[<<v, p>>].status = "none"
    BY <1>0, CheckoutAssumption DEF CheckoutAssumption, NoBooking
  <2>2. PayIdle.pc = "idle" /\ PayIdle.stale = {}
    BY DEF PayIdle
  <2> QED
    BY <1>0, <1>2, <2>1, <2>2
    DEF JobsInv, JobOK, KnowsPayment, KnowsSession, BooksOnce, Paying, Settling
<1>5. PaymentsInv /\ OnePendingPaymentPerSeat /\ SoldByPaymentWasCompleted
  BY <1>2 DEF PaymentsInv, PaymentOK, OnePendingPaymentPerSeat, SoldByPaymentWasCompleted
<1> QED
  BY <1>0, <1>3, <1>4, <1>5 DEF CheckoutInv

LEMMA PayStepOK ==
  ASSUME CheckoutInv, NEW w \in PayReq, PayStep(w), UNCHANGED <<req, provider>>
  PROVE  CheckoutInv'
<1>1. CASE \E u \in User, s \in Seat : CheckoutRead(w, u, s)
  BY <1>1, CheckoutReadOK
<1>2. CASE \/ CheckoutOwner(w) \/ CheckoutSet(w) \/ CheckoutExtend(w)
           \/ CheckoutExisting(w) \/ CheckoutPrice(w)
  BY <1>2, CheckoutOnOK
<1>3. CASE CheckoutCommit(w)
  BY <1>3, CheckoutCommitOK
<1>4. CASE \E p \in PayReq : \/ WebhookRead(w, p) \/ SimulateRead(w, p)
                             \/ StatusRead(w, p) \/ ReconcileRead(w, p)
  BY <1>4, SettleReadOK
<1>5. CASE ReconcileQuery(w) \/ ReconcileNext(w)
  BY <1>5, ReconcileQueryOK, ReconcileNextOK
<1>6. CASE Fulfil(w) \/ FulfilLost(w) \/ FulfilLinked(w) \/ Fail(w)
  BY <1>6, FulfilOK, FulfilLostOK, FulfilLinkedOK, FailOK
<1>7. CASE SettleRelease(w) \/ PayCrash(w)
  BY <1>7, GiveBackOK
<1> QED
  BY <1>1, <1>2, <1>3, <1>4, <1>5, <1>6, <1>7 DEF PayStep

LEMMA CheckoutGoesOn == CheckoutInv /\ [CheckoutNext]_vars => CheckoutInv'
<1> SUFFICES ASSUME CheckoutInv, [CheckoutNext]_vars PROVE CheckoutInv'
  OBVIOUS
<1>1. CASE \E r \in Req : RequestStep(r) /\ UNCHANGED payVars
  BY <1>1, HandlersOK
<1>2. CASE UNCHANGED vars
  BY <1>2, HandlersOK DEF vars
<1>3. CASE PayTick /\ UNCHANGED provider
  BY <1>3, PayTickOK
<1>4. CASE \E w \in PayReq : PayStep(w) /\ UNCHANGED <<req, provider>>
  BY <1>4, PayStepOK
<1>5. CASE /\ \E p \in PayReq : CustomerPays(p) \/ MoneyMoves(p) \/ SessionExpires(p)
           /\ UNCHANGED provider
  BY <1>5, SessionOK
<1> QED
  BY <1>1, <1>2, <1>3, <1>4, <1>5 DEF CheckoutNext

LEMMA CheckoutInvHolds == CheckoutSpec => []CheckoutInv
  BY CheckoutStarts, CheckoutGoesOn, PTL DEF CheckoutSpec

----------------------------------------------------------------------------
(* Theorems.                                                               *)

\* The payments, the gateway's sessions and what every payment handler
\* remembers stay well typed, and so does the store they share with the holds
\* and bookings, for any number of handlers, with crashes and late events.
THEOREM CheckoutTypeCorrect == CheckoutSpec => []CheckoutTypeOK
<1>1. CheckoutInv => CheckoutTypeOK
  BY DEF CheckoutInv
<1> QED
  BY <1>1, CheckoutInvHolds, PTL

\* start_checkout never puts a second payment in flight for a seat, although
\* it looks for one long before it inserts its own: the partial unique index
\* decides, and the payment it replaces has been found expired.
THEOREM OnePaymentInFlight == CheckoutSpec => []OnePendingPaymentPerSeat
<1>1. CheckoutInv => OnePendingPaymentPerSeat
  BY DEF CheckoutInv
<1> QED
  BY <1>1, CheckoutInvHolds, PTL

\* No payment succeeds whose customer did not go through with the session,
\* however often, late or out of order Stripe's events and answers arrive.
THEOREM SoldMeansCompleted == CheckoutSpec => []SoldByPaymentWasCompleted
<1>1. CheckoutInv => SoldByPaymentWasCompleted
  BY DEF CheckoutInv
<1> QED
  BY <1>1, CheckoutInvHolds, PTL

\* With payments, too, a seat is sold to one booking at a time, and the seat
\* map never shows a seat as booked that nobody has bought.
THEOREM CheckoutSellsOnce ==
  CheckoutSpec => [](OneConfirmedBookingPerSeat /\ BookedSeatHasBooking)
<1>1. CheckoutInv => OneConfirmedBookingPerSeat /\ BookedSeatHasBooking
  BY DEF CheckoutInv, RefinementInv, SaleInv
<1> QED
  BY <1>1, CheckoutInvHolds, PTL

\* Only _fulfil inserts a booking.
LEMMA WhoInserts ==
  ASSUME NEW w \in PayReq, PayStep(w), bookings' # bookings
  PROVE  Fulfil(w)
  BY DEF PayStep, storeVars, CheckoutRead, CheckoutOwner, CheckoutSet, CheckoutExtend,
         CheckoutExisting, CheckoutPrice, CheckoutCommit, WebhookRead, SimulateRead, StatusRead,
         ReconcileRead, ReconcileQuery, ReconcileNext, FulfilLost, FulfilLinked, Fail,
         SettleRelease, PayCrash

LEMMA CheckoutSells == CheckoutInv /\ [CheckoutNext]_vars => [Sale!SaleNext]_(Sale!vars)
<1> SUFFICES ASSUME CheckoutInv, [CheckoutNext]_vars PROVE [Sale!SaleNext]_(Sale!vars)
  OBVIOUS
<1>1. CASE bookings' = bookings
  <2>1. Holder' = Holder /\ Ledger' = Ledger
    BY <1>1 DEF Holder, Ledger, Confirmed
  <2> QED
    BY <2>1 DEF Sale!vars
<1>2. CASE \E r \in Req : RequestStep(r)
  BY <1>2, StepSells DEF CheckoutInv, BookingNext
<1>3. ASSUME NEW w \in PayReq, PayStep(w), UNCHANGED <<req, provider>>, bookings' # bookings
      PROVE  Sale!SaleNext
  BY <1>3, WhoInserts, FulfilOK DEF Sale!SaleNext
<1>4. CASE PayTick /\ UNCHANGED provider
  BY <1>1, <1>4, PayTickOK
<1>5. CASE \/ UNCHANGED vars
           \/ \E p \in PayReq : CustomerPays(p) \/ MoneyMoves(p) \/ SessionExpires(p)
  BY <1>1, <1>5 DEF vars, bookingVars, CustomerPays, MoneyMoves, SessionExpires
<1> QED
  BY <1>1, <1>2, <1>3, <1>4, <1>5 DEF CheckoutNext

\* Paying for seats implements the abstract sale as well, next to the direct
\* bookings and cancellations: what _fulfil commits is one sale of a free seat
\* under a name of its own, at the amount of the payment, whatever batch,
\* duplicate event or poll came to settle it.
THEOREM CheckoutImplementsSale == CheckoutSpec => ImplementsSeatSale
<1>1. CheckoutInit => Sale!SaleInit
  BY SaleStarts DEF CheckoutInit
<1> QED
  BY <1>1, CheckoutInvHolds, CheckoutSells, PTL DEF CheckoutSpec, ImplementsSeatSale, Sale!SaleSpec

----------------------------------------------------------------------------
(* The Redis locks.                                                        *)

LEMMA WhoWritesLocks ==
  ASSUME NEW r \in Req, RequestStep(r), locks' # locks
  PROVE  \/ LockSet(r) \/ BookSet(r) \/ LockUndo(r) \/ BookRelease(r)
         \/ \E u \in User, s \in Seat : UnlockRelease(r, u, s)
  BY DEF RequestStep, storeVars, LockRead, BookRead, CancelRead, LockQuote, LockUpdate,
         UnlockUpdate, BookOwner, BookPrice, BookCommit, CancelUpdate, ListRead, ListUpdate, Crash

LEMMA WhoPaysWritesLocks ==
  ASSUME NEW w \in PayReq, PayStep(w), locks' # locks
  PROVE  CheckoutSet(w) \/ CheckoutExtend(w) \/ SettleRelease(w)
  BY DEF PayStep, storeVars, CheckoutRead, CheckoutOwner, CheckoutExisting, CheckoutPrice,
         CheckoutCommit, WebhookRead, SimulateRead, StatusRead, ReconcileRead, ReconcileQuery,
         ReconcileNext, Fulfil, FulfilLost, FulfilLinked, Fail, PayCrash

\* SET NX takes no lock away, the Lua script only its caller's, and EXPIRE
\* leaves the owner alone.
LEMMA LosesLock ==
  ASSUME StoreTypeOK, NEW s \in Seat, NEW u \in User, locks[s].owner = u, locks'[s].owner # u
  PROVE  /\ \A t \in Seat, v \in User, ttl \in Nat : ~Acquire(t, v, ttl)
         /\ \A t \in Seat, v \in User : Release(t, v) => t = s /\ v = u
         /\ \A t \in Seat : locks' # [locks EXCEPT ![t].ttl = PaymentTTL]
<1>1. locks \in [Seat -> Lock] /\ u # None
  BY StoreAssumption DEF StoreAssumption, StoreTypeOK
<1>2. ASSUME NEW t \in Seat, NEW v \in User, NEW ttl \in Nat, Acquire(t, v, ttl)
      PROVE  FALSE
  BY <1>1, <1>2 DEF Acquire
<1>3. ASSUME NEW t \in Seat, NEW v \in User, Release(t, v)
      PROVE  t = s /\ v = u
  BY <1>1, <1>3 DEF Release
<1>4. ASSUME NEW t \in Seat, locks' = [locks EXCEPT ![t].ttl = PaymentTTL]
      PROVE  FALSE
  BY <1>1, <1>4 DEF Lock
<1> QED
  BY <1>2, <1>3, <1>4

LEMMA LockStep ==
  ASSUME CheckoutInv, [CheckoutNext]_vars, NEW s \in Seat, NEW u \in User,
         locks[s].owner = u, locks'[s].owner # u
  PROVE  \/ StepsFor(u, s)
         \/ \E w \in PayReq : preq'[w] # preq[w] /\ preq[w].user = u /\ preq[w].seat = s
         \/ req' = req /\ preq' = preq
<1>0. /\ StoreTypeOK /\ BookingInv /\ req \in [Req -> Request] /\ preq \in [PayReq -> PayRequest]
      /\ JobsInv /\ PaymentsInv /\ LockTTL \in Nat /\ PaymentTTL \in Nat
  BY StoreAssumption
  DEF StoreAssumption, CheckoutInv, CheckoutTypeOK, BookingTypeOK, RefinementInv, SaleInv
<1>1. ASSUME NEW r \in Req, RequestStep(r)
      PROVE  StepsFor(u, s)
  <2>1. req[r].pc \in AtWork => req[r].user \in User /\ req[r].seat \in Seat
    BY <1>0 DEF BookingInv, RequestInv
  <2>2. ~LockSet(r) /\ ~BookSet(r)
    BY <1>0, <2>1, LosesLock DEF LockSet, BookSet, At, AtWork, Label
  <2>3. CASE LockUndo(r) \/ BookRelease(r)
    <3>1. req[r].pc \in AtWork /\ req[r].pc # "done" /\ Release(req[r].seat, req[r].user) /\ Finish(r)
      BY <2>3 DEF LockUndo, BookRelease, At, AtWork, Label
    <3>2. req[r].seat = s /\ req[r].user = u
      BY <1>0, <2>1, <3>1, LosesLock
    <3>3. req'[r] # req[r]
      BY <1>0, <3>1, FinishMoves
    <3> QED
      BY <3>2, <3>3 DEF StepsFor
  <2>4. CASE \E v \in User, t \in Seat : UnlockRelease(r, v, t)
    <3>1. PICK v \in User, t \in Seat : UnlockRelease(r, v, t)
      BY <2>4
    <3>2. v = u /\ t = s
      BY <1>0, <3>1, LosesLock DEF UnlockRelease
    <3>3. Begin(r, "unlock", "unlock_update", u, s)
      BY <3>1, <3>2 DEF UnlockRelease
    <3>4. PICK label \in Label : Begin(r, "unlock", label, u, s) /\ label = "unlock_update"
      BY <3>3 DEF Label
    <3>5. /\ req[r].pc = "idle" /\ req'[r].pc = label
          /\ req'[r].user = u /\ req'[r].seat = s
      BY <1>0, <3>4, BeginMoves
    <3> QED
      BY <3>4, <3>5 DEF StepsFor
  <2> QED
    BY <1>1, <2>2, <2>3, <2>4, WhoWritesLocks
<1>2. ASSUME NEW w \in PayReq, PayStep(w)
      PROVE  preq'[w] # preq[w] /\ preq[w].user = u /\ preq[w].seat = s
  <2>1. KnowsPayment(w, preq[w], payments)
    BY <1>0 DEF JobsInv, JobOK
  <2>2. ~CheckoutSet(w)
    BY <1>0, <2>1, LosesLock DEF CheckoutSet, PayAt, KnowsPayment, Paying
  <2>3. ~CheckoutExtend(w)
    BY <1>0, <2>1, LosesLock DEF CheckoutExtend, PayAt, KnowsPayment, Paying
  <2>4. SettleRelease(w)
    BY <1>2, <2>2, <2>3, WhoPaysWritesLocks
  <2>5. preq[w].pc = "settle_release" /\ preq[w].user \in User /\ preq[w].seat \in Seat
    BY <1>0, <2>1, <2>4 DEF SettleRelease, PayAt, KnowsPayment, Settling, PaymentsInv, PaymentOK
  <2>6. preq[w].user = u /\ preq[w].seat = s
    BY <1>0, <2>4, <2>5, LosesLock DEF SettleRelease
  <2>7. preq'[w].pc # "settle_release"
    <3>1. PayReturn(w, TRUE)
      BY <2>4 DEF SettleRelease
    <3>2. CASE PayFinish(w)
      BY <1>0, <3>2 DEF PayFinish, PayIdle
    <3>3. ASSUME NEW flag, preq' = [preq EXCEPT ![w].pc = "next", ![w].reload = flag]
          PROVE  preq'[w].pc = "next"
      BY <1>0, <3>3 DEF PayRequest
    <3> QED
      BY <3>1, <3>2, <3>3 DEF PayReturn
  <2> QED
    BY <2>5, <2>6, <2>7
<1> QED
  BY <1>1, <1>2
  DEF CheckoutNext, PayTick, CustomerPays, MoneyMoves, SessionExpires, vars, bookingVars

\* A seat lock is lost only by its owner's own hold, booking or payment, or by
\* time: no release that runs late, of a lock that has lapsed and been taken
\* again, and no settlement of another user's payment takes it away.
THEOREM LocksAreTheirOwners == CheckoutSpec => LockLostOnlyByOwnPaymentOrTime
<1>1. CheckoutInv /\ [CheckoutNext]_vars =>
        \A s \in Seat, u \in User :
          locks[s].owner = u /\ locks'[s].owner # u =>
            \/ StepsFor(u, s)
            \/ \E w \in PayReq : preq'[w] # preq[w] /\ preq[w].user = u /\ preq[w].seat = s
            \/ req' = req /\ preq' = preq
  BY LockStep
<1> QED
  BY <1>1, CheckoutInvHolds, PTL DEF CheckoutSpec, LockLostOnlyByOwnPaymentOrTime
=============================================================================

---------------------------- MODULE SeatBooking ----------------------------
(***************************************************************************)
(* The seat hold and direct booking handlers of routers/seats.py and       *)
(* routers/bookings.py.  Every element of Req is one invocation of one     *)
(* handler; it runs its steps once, and between two of them any other      *)
(* invocation may run, time may pass, or the process may die.  A step is   *)
(* one committed transaction, one query or one Redis command; what a       *)
(* handler read stays in its request until it is used.                     *)
(***************************************************************************)
EXTENDS SeatStore

CONSTANTS
  Req,          \* handler invocations; a booking is named after its inserter
  Workload,     \* the operations clients call
  Strategy,     \* locking strategy of _perform_booking
  UseRedisLock  \* FALSE only in the locking benchmark

Operation == {"lock", "unlock", "book", "cancel", "list"}

ASSUME BookingAssumption ==
  /\ Req \subseteq BookingId
  /\ Workload \subseteq Operation
  /\ Strategy \in {"optimistic", "pessimistic"}
  /\ UseRedisLock \in BOOLEAN

VARIABLE req    \* per invocation: where it is and what it has read

bookingVars == <<seats, locks, bookings, req>>

Label == {"idle", "done",
          "lock_set", "lock_quote", "lock_update", "lock_undo", "unlock_update",
          "book_owner", "book_set", "book_price", "book_commit", "book_release",
          "book_undo", "cancel_update", "list_update"}

Request == [pc: Label, user: User \cup {None}, seat: Seat \cup {None},
            seen: SeatRow, price: Nat, took: BOOLEAN,
            target: BookingId \cup {None}, expired: SUBSET Seat]

Idle == [pc |-> "idle", user |-> None, seat |-> None, seen |-> FreshSeat,
         price |-> 0, took |-> FALSE, target |-> None, expired |-> {}]

BookingTypeOK == StoreTypeOK /\ req \in [Req -> Request]

BookingInit == StoreInit /\ req = [r \in Req |-> Idle]

----------------------------------------------------------------------------
(* Request bookkeeping.                                                    *)

At(r, label) == req[r].pc = label
Go(r, label) == req' = [req EXCEPT ![r].pc = label]
Finish(r) == req' = [req EXCEPT ![r] = [Idle EXCEPT !.pc = "done"]]

\* A request arrives and is authenticated as user u.
Begin(r, op, label, u, s) ==
  /\ op \in Workload
  /\ At(r, "idle")
  /\ req' = [req EXCEPT ![r] = [Idle EXCEPT !.pc = label, !.user = u, !.seat = s,
                                            !.seen = Snapshot(s)]]

----------------------------------------------------------------------------
(* POST /seats/{id}/lock                                                   *)

LockRead(r, u, s) ==
  /\ seats[s].status \in Lockable
  /\ Begin(r, "lock", "lock_set", u, s)
  /\ UNCHANGED storeVars

\* When SET NX fails the answer depends on the owner, the state does not.
LockSet(r) ==
  /\ At(r, "lock_set")
  /\ \/ Acquire(req[r].seat, req[r].user, LockTTL) /\ Go(r, "lock_quote")
     \/ locks[req[r].seat].owner # None /\ Finish(r) /\ UNCHANGED locks
  /\ UNCHANGED <<seats, bookings>>

LockQuote(r) ==
  /\ At(r, "lock_quote")
  /\ req' = [req EXCEPT ![r].pc = "lock_update", ![r].price = CurrentPrice]
  /\ UNCHANGED storeVars

\* Mutant: the UPDATE has no status in its WHERE.
LockUpdateUnguarded(r) ==
  LET s == req[r].seat IN
  /\ At(r, "lock_update")
  /\ SetRow(s, LockedRow(seats[s], req[r].user, req[r].price))
  /\ Finish(r)
  /\ UNCHANGED <<locks, bookings>>

LockUpdate(r) ==
  LET s == req[r].seat IN
  /\ At(r, "lock_update")
  /\ \/ /\ seats[s].status \in Lockable
        /\ SetRow(s, LockedRow(seats[s], req[r].user, req[r].price))
        /\ Finish(r)
     \/ /\ seats[s].status \notin Lockable
        /\ Go(r, "lock_undo")
        /\ UNCHANGED seats
  /\ UNCHANGED <<locks, bookings>>

LockUndo(r) ==
  /\ At(r, "lock_undo")
  /\ Release(req[r].seat, req[r].user)
  /\ Finish(r)
  /\ UNCHANGED <<seats, bookings>>

----------------------------------------------------------------------------
(* DELETE /seats/{id}/lock: Redis first, then the row.                     *)

UnlockRelease(r, u, s) ==
  /\ locks[s].owner = u
  /\ Release(s, u)
  /\ Begin(r, "unlock", "unlock_update", u, s)
  /\ UNCHANGED <<seats, bookings>>

UnlockUpdate(r) ==
  LET s == req[r].seat IN
  /\ At(r, "unlock_update")
  /\ IF seats[s].status = "locked" THEN SetRow(s, FreedRow(seats[s])) ELSE UNCHANGED seats
  /\ Finish(r)
  /\ UNCHANGED <<locks, bookings>>

----------------------------------------------------------------------------
(* POST /bookings                                                          *)

BookRead(r, u, s) ==
  /\ seats[s].status # "booked"
  /\ Begin(r, "book", "book_owner", u, s)
  /\ UNCHANGED storeVars

\* The status check that follows the lock looks at the row read at the start.
BookChecked(r, took) ==
  \/ /\ req[r].seen.status \in Lockable
     /\ req' = [req EXCEPT ![r].pc = "book_price", ![r].took = took]
  \/ req[r].seen.status \notin Lockable /\ took /\ Go(r, "book_undo")
  \/ req[r].seen.status \notin Lockable /\ ~took /\ Finish(r)

BookOwner(r) ==
  LET owner == locks[req[r].seat].owner IN
  /\ At(r, "book_owner")
  /\ \/ ~UseRedisLock /\ BookChecked(r, FALSE)
     \/ UseRedisLock /\ owner = None /\ Go(r, "book_set")
     \/ UseRedisLock /\ owner = req[r].user /\ BookChecked(r, FALSE)
     \/ UseRedisLock /\ owner \notin {None, req[r].user} /\ Finish(r)
  /\ UNCHANGED storeVars

BookSet(r) ==
  /\ At(r, "book_set")
  /\ \/ Acquire(req[r].seat, req[r].user, LockTTL) /\ BookChecked(r, TRUE)
     \/ locks[req[r].seat].owner # None /\ Finish(r) /\ UNCHANGED locks
  /\ UNCHANGED <<seats, bookings>>

BookPrice(r) ==
  /\ At(r, "book_price")
  /\ req' = [req EXCEPT ![r].pc = "book_commit", ![r].price = PriceNow(req[r].seen)]
  /\ UNCHANGED storeVars

\* claim_pessimistic waits for the row lock, but the session already holds
\* the seat object: the SELECT FOR UPDATE leaves its loaded attributes alone,
\* so the check passes on the old status and the flush writes the old version
\* plus one and only the columns that differ from what was loaded.
PessimisticRow(row, seen) ==
  LET cleared(old, new) == IF old = None THEN new ELSE None IN
  [row EXCEPT !.status = "booked", !.version = seen.version + 1,
              !.locked_by = cleared(seen.locked_by, @),
              !.locked_until = cleared(seen.locked_until, @),
              !.held_price = cleared(seen.held_price, @)]

\* Mutant: the claim does not compare versions.
ClaimWonAnyVersion(r) == seats[req[r].seat].status \in Lockable

ClaimWon(r) ==
  \/ Strategy = "pessimistic"
  \/ /\ seats[req[r].seat].version = req[r].seen.version
     /\ seats[req[r].seat].status \in Lockable

ClaimedRow(r) ==
  LET row == seats[req[r].seat] IN
  IF Strategy = "pessimistic" THEN PessimisticRow(row, req[r].seen) ELSE BookedRow(row)

\* The claim, the INSERT and the commit; a lost claim or the unique index
\* rolls all of it back.
BookCommit(r) ==
  LET s == req[r].seat IN
  /\ At(r, "book_commit")
  /\ \/ /\ ClaimWon(r) /\ IndexAdmits(s)
        /\ SetRow(s, ClaimedRow(r))
        /\ InsertBooking(r, req[r].user, s, req[r].price)
        /\ Go(r, "book_release")
     \/ /\ ~(ClaimWon(r) /\ IndexAdmits(s))
        /\ IF req[r].took THEN Go(r, "book_undo") ELSE Finish(r)
        /\ UNCHANGED <<seats, bookings>>
  /\ UNCHANGED locks

\* release_seat_lock, after the commit or on the way out of a failure.
BookRelease(r) ==
  /\ At(r, "book_release") \/ At(r, "book_undo")
  /\ Release(req[r].seat, req[r].user)
  /\ Finish(r)
  /\ UNCHANGED <<seats, bookings>>

----------------------------------------------------------------------------
(* DELETE /bookings/{id}                                                   *)

CancelRead(r, b) ==
  /\ bookings[b].status = "confirmed"
  /\ "cancel" \in Workload
  /\ At(r, "idle")
  /\ req' = [req EXCEPT ![r] = [Idle EXCEPT !.pc = "cancel_update",
               !.user = bookings[b].user, !.seat = bookings[b].seat, !.target = b]]
  /\ UNCHANGED storeVars

CancelUpdate(r) ==
  LET s == req[r].seat IN
  /\ At(r, "cancel_update")
  /\ bookings' = [bookings EXCEPT ![req[r].target].status = "cancelled"]
  /\ SetRow(s, CancelledRow(seats[s]))
  /\ Finish(r)
  /\ UNCHANGED locks

----------------------------------------------------------------------------
(* GET /events/{id}/seats begins with release_expired_locks.               *)

ListRead(r) ==
  /\ "list" \in Workload
  /\ At(r, "idle")
  /\ Lapsed # {}
  /\ req' = [req EXCEPT ![r] = [Idle EXCEPT !.pc = "list_update", !.expired = Lapsed]]
  /\ UNCHANGED storeVars

\* The UPDATE is by id: whatever the rows hold by now, they are freed.
ListUpdate(r) ==
  /\ At(r, "list_update")
  /\ seats' = [s \in Seat |-> IF s \in req[r].expired THEN FreedRow(seats[s]) ELSE seats[s]]
  /\ Finish(r)
  /\ UNCHANGED <<locks, bookings>>

----------------------------------------------------------------------------

\* The process running the handler dies, or a Redis call times out: the open
\* transaction is rolled back and nothing more is done.
Crash(r) ==
  /\ req[r].pc \notin {"idle", "done"}
  /\ Finish(r)
  /\ UNCHANGED storeVars

RequestStep(r) ==
  \/ \E u \in User, s \in Seat : LockRead(r, u, s) \/ UnlockRelease(r, u, s) \/ BookRead(r, u, s)
  \/ \E b \in BookingId : CancelRead(r, b)
  \/ LockSet(r) \/ LockQuote(r) \/ LockUpdate(r) \/ LockUndo(r)
  \/ UnlockUpdate(r)
  \/ BookOwner(r) \/ BookSet(r) \/ BookPrice(r) \/ BookCommit(r) \/ BookRelease(r)
  \/ CancelUpdate(r)
  \/ ListRead(r) \/ ListUpdate(r)
  \/ Crash(r)

Tick == TimerRuns /\ AgeStore /\ UNCHANGED req

BookingNext == Tick \/ \E r \in Req : RequestStep(r)

BookingSpec == BookingInit /\ [][BookingNext]_bookingVars

\* Only time is fair: a handler may stop at any step.
FairBookingSpec == BookingSpec /\ WF_bookingVars(Tick)

----------------------------------------------------------------------------
(* Properties.                                                             *)

\* A request at work on seat s for user u takes a step.
StepsFor(u, s) ==
  \E r \in Req : /\ req'[r] # req[r]
                 /\ <<u, s>> \in {<<req[r].user, req[r].seat>>, <<req'[r].user, req'[r].seat>>}

\* The comment in lock_seat ("without it, a stale read could overwrite a seat
\* that got booked in the meantime"): no hold and no release of a hold that
\* acted on an old read takes a booked row back; only a cancellation or the
\* sweep of expired holds does.
BookedLeftOnlyByCancelOrSweep ==
  [][\A s \in Seat : seats[s].status = "booked" /\ seats'[s].status # "booked" =>
       \E r \in Req : /\ req'[r] # req[r]
                      /\ req[r].pc \in {"cancel_update", "list_update"}]_bookingVars

\* Every committed change of a row moves its version on, whichever handler
\* made it: what optimistic locking rests on (models.py, "Incremented on
\* every successful update").
ChangedRowMovesVersion ==
  [][\A s \in Seat :
       \/ seats'[s].version > seats[s].version
       \/ seats'[s] = [seats[s] EXCEPT !.locked_until = seats'[s].locked_until]]_bookingVars

\* A booking costs what the row's price lock says when the claim commits,
\* although the price was read several steps earlier: a changed version
\* makes the claim lose.
BookedAtHeldPrice ==
  [][\A r \in Req : bookings[r].status = "none" /\ bookings'[r].status = "confirmed" =>
       seats[bookings'[r].seat].held_price \in {None, bookings'[r].amount}]_bookingVars

\* A lock left behind by a handler that died is given back by its TTL: no
\* seat stays locked in Redis for ever.
EveryLockEnds == \A s \in Seat : (locks[s].owner # None) ~> (locks[s].owner = None)
=============================================================================

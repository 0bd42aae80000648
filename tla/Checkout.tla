------------------------------ MODULE Checkout ------------------------------
(***************************************************************************)
(* Paying for a seat: routers/payments.py and the reconciliation job, on   *)
(* top of the holds and direct bookings of SeatBooking.  Every element of  *)
(* PayReq is one invocation of start_checkout, stripe_webhook, simulate,   *)
(* get_payment or reconcile.  A payment is named after the checkout that   *)
(* inserted it, and a booking after the invocation that fulfilled it and   *)
(* its payment, since one reconciliation fulfils several.                  *)
(***************************************************************************)
EXTENDS SeatBooking

CONSTANTS
  PayReq,        \* invocations of the payment handlers
  PayWorkload,   \* the payment handlers that are called
  Providers,     \* what settings.payment_provider may be
  Delayed        \* the Stripe account offers delayed payment methods

PayOperation == {"checkout", "webhook", "simulate", "status", "reconcile"}

ASSUME CheckoutAssumption ==
  /\ PayReq \X PayReq \subseteq BookingId /\ (PayReq \X PayReq) \cap Req = {}
  /\ None \notin PayReq
  /\ PayWorkload \subseteq PayOperation
  /\ Providers \subseteq {"stripe", "mock"}
  /\ Delayed \in BOOLEAN

VARIABLES
  payments,      \* the payments table
  gateway,       \* Stripe's own state of each checkout session
  preq,          \* per invocation: where it is and what it has read
  provider       \* settings.payment_provider

payVars == <<payments, gateway, preq, provider>>
vars == <<bookingVars, payVars>>

PaymentRow ==
  [user: User \cup {None}, seat: Seat \cup {None}, amount: Nat,
   status: {"none", "pending", "succeeded", "failed", "expired"},
   booking: BookingId \cup {None}, expires_at: Nat]
NoPayment == [user |-> None, seat |-> None, amount |-> 0, status |-> "none",
              booking |-> None, expires_at |-> 0]

PayLabel == {"idle", "done", "pay_owner", "pay_set", "pay_extend", "pay_existing",
             "pay_price", "pay_commit", "fulfil", "fulfil_lost", "fulfil_linked",
             "fail", "settle_release", "query", "next"}

PayRequest ==
  [pc: PayLabel, user: User \cup {None}, seat: Seat \cup {None}, seen: SeatRow,
   price: Nat, payment: PayReq \cup {None},
   live: BOOLEAN,        \* the payment was pending when it was loaded
   stale: SUBSET PayReq, \* rest of a reconciliation batch
   reload: BOOLEAN]      \* a commit has expired what the batch had loaded

PayIdle == [pc |-> "idle", user |-> None, seat |-> None, seen |-> FreshSeat,
            price |-> 0, payment |-> None, live |-> FALSE, stale |-> {}, reload |-> FALSE]

\* States of a session whose customer went through with it.
Completed == {"paid", "processing", "declined"}

CheckoutTypeOK ==
  /\ BookingTypeOK
  /\ payments \in [PayReq -> PaymentRow]
  /\ gateway \in [PayReq -> {"none", "open", "expired"} \cup Completed]
  /\ preq \in [PayReq -> PayRequest]
  /\ provider \in Providers

CheckoutInit ==
  /\ BookingInit
  /\ payments = [p \in PayReq |-> NoPayment]
  /\ gateway = [p \in PayReq |-> "none"]
  /\ preq = [w \in PayReq |-> PayIdle]
  /\ provider \in Providers

----------------------------------------------------------------------------

PayAt(w, label) == preq[w].pc = label
PayGo(w, label) == preq' = [preq EXCEPT ![w].pc = label]
PayFinish(w) == preq' = [preq EXCEPT ![w] = [PayIdle EXCEPT !.pc = "done"]]

\* The handler of one payment returns; reconcile goes on with its batch.
PayReturn(w, reload) ==
  IF preq[w].stale = {} THEN PayFinish(w)
  ELSE preq' = [preq EXCEPT ![w].pc = "next", ![w].reload = @ \/ reload]

PayBegin(w, op, request) ==
  /\ op \in PayWorkload
  /\ PayAt(w, "idle")
  /\ preq' = [preq EXCEPT ![w] = request]

Pending(s) == {p \in PayReq : payments[p].status = "pending" /\ payments[p].seat = s}

----------------------------------------------------------------------------
(* POST /payments/checkout                                                 *)

PaymentPendingRow(row, u) ==
  [row EXCEPT !.status = "payment_pending", !.version = @ + 1, !.locked_by = u,
              !.locked_until = PaymentTTL]

CheckoutRead(w, u, s) ==
  /\ seats[s].status # "booked"
  /\ PayBegin(w, "checkout", [PayIdle EXCEPT !.pc = "pay_owner", !.user = u, !.seat = s,
                                             !.seen = Snapshot(s)])
  /\ UNCHANGED <<storeVars, payments, gateway>>

CheckoutOwner(w) ==
  LET owner == locks[preq[w].seat].owner IN
  /\ PayAt(w, "pay_owner")
  /\ \/ owner = None /\ PayGo(w, "pay_set")
     \/ owner = preq[w].user /\ PayGo(w, "pay_extend")
     \/ owner \notin {None, preq[w].user} /\ PayFinish(w)
  /\ UNCHANGED <<storeVars, payments, gateway>>

CheckoutSet(w) ==
  /\ PayAt(w, "pay_set")
  /\ \/ Acquire(preq[w].seat, preq[w].user, PaymentTTL) /\ PayGo(w, "pay_existing")
     \/ locks[preq[w].seat].owner # None /\ PayFinish(w) /\ UNCHANGED locks
  /\ UNCHANGED <<seats, bookings, payments, gateway>>

\* EXPIRE extends whatever key is there by now, and does nothing without one.
CheckoutExtend(w) ==
  LET s == preq[w].seat IN
  /\ PayAt(w, "pay_extend")
  /\ locks' = IF locks[s].owner = None THEN locks ELSE [locks EXCEPT ![s].ttl = PaymentTTL]
  /\ PayGo(w, "pay_existing")
  /\ UNCHANGED <<seats, bookings, payments, gateway>>

\* Another user's pending payment is a 409, the caller's own one is returned
\* as it is, and an expired one is replaced at the commit.
CheckoutExisting(w) ==
  /\ PayAt(w, "pay_existing")
  /\ \/ Pending(preq[w].seat) = {} /\ PayGo(w, "pay_price")
     \/ \E p \in Pending(preq[w].seat) :
          IF payments[p].user = preq[w].user /\ payments[p].expires_at = 0
            THEN preq' = [preq EXCEPT ![w].pc = "pay_price", ![w].payment = p]
            ELSE PayFinish(w)
  /\ UNCHANGED <<storeVars, payments, gateway>>

CheckoutPrice(w) ==
  /\ PayAt(w, "pay_price")
  /\ preq' = [preq EXCEPT ![w].pc = "pay_commit", ![w].price = PriceNow(preq[w].seen)]
  /\ UNCHANGED <<storeVars, payments, gateway>>

\* Mutant: no partial unique index on pending payments.
NoPendingIndex(w) == TRUE

\* uq_one_pending_payment_per_seat, once the expired payment is out of the way.
PendingAdmits(w) == Pending(preq[w].seat) \subseteq {preq[w].payment}

\* The gateway session, the rows and the commit.  The UPDATE of the seat may
\* match no row; nobody looks.
CheckoutCommit(w) ==
  LET s == preq[w].seat
      new == [user |-> preq[w].user, seat |-> s, amount |-> preq[w].price,
              status |-> "pending", booking |-> None, expires_at |-> PaymentTTL]
  IN
  /\ PayAt(w, "pay_commit")
  /\ \/ /\ PendingAdmits(w)
        /\ payments' = [p \in PayReq |-> IF p = w THEN new
                          ELSE IF p = preq[w].payment
                               THEN [payments[p] EXCEPT !.status = "expired"]
                               ELSE payments[p]]
        /\ gateway' = [gateway EXCEPT ![w] = "open"]
        /\ IF seats[s].status \in Lockable
             THEN SetRow(s, PaymentPendingRow(seats[s], preq[w].user))
             ELSE UNCHANGED seats
     \/ ~PendingAdmits(w) /\ UNCHANGED <<payments, gateway, seats>>
  /\ PayFinish(w)
  /\ UNCHANGED <<locks, bookings>>

----------------------------------------------------------------------------
(* Stripe, as far as the code relies on it.  A session outlives the        *)
(* payment's own window: it is created for at least 1800 seconds.  A       *)
(* delayed method completes the session before the money has moved.        *)

CustomerPays(p) ==
  /\ provider = "stripe" /\ gateway[p] = "open"
  /\ \E outcome \in IF Delayed THEN {"paid", "processing"} ELSE {"paid"} :
       gateway' = [gateway EXCEPT ![p] = outcome]
  /\ UNCHANGED <<bookingVars, payments, preq>>

MoneyMoves(p) ==
  /\ gateway[p] = "processing"
  /\ \E outcome \in {"paid", "declined"} : gateway' = [gateway EXCEPT ![p] = outcome]
  /\ UNCHANGED <<bookingVars, payments, preq>>

SessionExpires(p) ==
  /\ provider = "stripe" /\ gateway[p] = "open" /\ payments[p].expires_at = 0
  /\ gateway' = [gateway EXCEPT ![p] = "expired"]
  /\ UNCHANGED <<bookingVars, payments, preq>>

----------------------------------------------------------------------------
(* Who settles a payment.                                                  *)

Settle(p, label) ==
  [PayIdle EXCEPT !.pc = label, !.payment = p, !.seat = payments[p].seat,
                  !.user = payments[p].user, !.live = payments[p].status = "pending"]

\* The early return of _fulfil.
Fulfilled(p) == payments[p].status = "succeeded" /\ payments[p].booking # None

\* Events may arrive any number of times, concurrently and late.  That the
\* session completed is taken for paid.
WebhookRead(w, p) ==
  /\ provider = "stripe"
  /\ \/ /\ gateway[p] \in Completed /\ ~Fulfilled(p)
        /\ PayBegin(w, "webhook", Settle(p, "fulfil"))
     \/ /\ gateway[p] \in {"expired", "declined"} /\ payments[p].status = "pending"
        /\ PayBegin(w, "webhook", Settle(p, "fail"))
  /\ UNCHANGED <<storeVars, payments, gateway>>

SimulateRead(w, p) ==
  /\ provider = "mock" /\ payments[p].status = "pending"
  /\ \/ payments[p].expires_at # 0 /\ PayBegin(w, "simulate", Settle(p, "fulfil"))
     \/ PayBegin(w, "simulate", Settle(p, "fail"))
  /\ UNCHANGED <<storeVars, payments, gateway>>

\* get_payment, the endpoint the frontend polls.
StatusRead(w, p) ==
  /\ payments[p].status = "pending" /\ payments[p].expires_at = 0
  /\ PayBegin(w, "status", Settle(p, "fail"))
  /\ UNCHANGED <<storeVars, payments, gateway>>

ReconcileLabel == IF provider = "stripe" THEN "query" ELSE "fail"

ReconcileRead(w, p) ==
  LET due == {q \in PayReq : payments[q].status = "pending" /\ payments[q].expires_at = 0} IN
  /\ p \in due
  /\ PayBegin(w, "reconcile", [Settle(p, ReconcileLabel) EXCEPT !.stale = due \ {p}])
  /\ UNCHANGED <<storeVars, payments, gateway>>

\* Mutant: any answer of Stripe but none counts as paid.
ReconcileQueryAnyAnswer(w) ==
  /\ PayAt(w, "query")
  /\ PayGo(w, "fulfil") \/ PayReturn(w, FALSE)
  /\ UNCHANGED <<storeVars, payments, gateway>>

\* The answer of Stripe, up to 15 seconds later: paid, not paid, or none.
ReconcileQuery(w) ==
  LET paid == gateway[preq[w].payment] = "paid" IN
  /\ PayAt(w, "query")
  /\ \/ paid /\ PayGo(w, "fulfil")
     \/ ~paid /\ preq[w].live /\ PayGo(w, "fail")
     \/ ~paid /\ ~preq[w].live /\ PayReturn(w, FALSE)
     \/ PayReturn(w, FALSE)
  /\ UNCHANGED <<storeVars, payments, gateway>>

\* Mutant: the answer about the first payment serves for the whole batch.
ReconcileNextSameAnswer(w) ==
  /\ PayAt(w, "next")
  /\ \E p \in preq[w].stale :
       preq' = [preq EXCEPT ![w] = [Settle(p, "fulfil") EXCEPT !.stale = preq[w].stale \ {p}]]
  /\ UNCHANGED <<storeVars, payments, gateway>>

\* The next payment of the batch: as the batch's SELECT returned it, or
\* loaded anew when a commit has expired it.
ReconcileNext(w) ==
  /\ PayAt(w, "next")
  /\ \E p \in preq[w].stale :
       LET live == ~preq[w].reload \/ payments[p].status = "pending"
           rest == [Settle(p, ReconcileLabel) EXCEPT
                     !.live = live, !.stale = preq[w].stale \ {p}, !.reload = preq[w].reload]
           skip == \/ provider = "stripe" /\ ~live /\ Fulfilled(p)
                   \/ provider = "mock" /\ ~live
       IN preq' = [preq EXCEPT ![w] =
            IF ~skip THEN rest
            ELSE IF rest.stale = {} THEN [PayIdle EXCEPT !.pc = "done"]
            ELSE [rest EXCEPT !.pc = "next"]]
  /\ UNCHANGED <<storeVars, payments, gateway>>

----------------------------------------------------------------------------
(* _fulfil                                                                 *)

Fulfillable == {"payment_pending", "locked", "available"}

\* held_price stays as it was.
FulfilledRow(row) ==
  [row EXCEPT !.status = "booked", !.version = @ + 1, !.locked_by = None,
              !.locked_until = None]

\* The UPDATE of the seat, the INSERT of the booking and the commit; without
\* a matching row or past the unique index the transaction is rolled back.
Fulfil(w) ==
  LET p == preq[w].payment
      s == preq[w].seat
  IN
  /\ PayAt(w, "fulfil")
  /\ \/ /\ seats[s].status \in Fulfillable /\ IndexAdmits(s)
        /\ SetRow(s, FulfilledRow(seats[s]))
        /\ InsertBooking(<<w, p>>, preq[w].user, s, payments[p].amount)
        /\ payments' = [payments EXCEPT ![p].status = "succeeded", ![p].booking = <<w, p>>]
        /\ PayGo(w, "settle_release")
     \/ /\ seats[s].status \notin Fulfillable
        /\ PayGo(w, "fulfil_lost")
        /\ UNCHANGED <<seats, bookings, payments>>
     \/ /\ seats[s].status \in Fulfillable /\ ~IndexAdmits(s)
        /\ PayGo(w, "fulfil_linked")
        /\ UNCHANGED <<seats, bookings, payments>>
  /\ UNCHANGED <<locks, gateway>>

\* "seat_taken_after_payment": written whatever the payment is by now, then
\* raised as a 409, which ends a reconciliation batch too.
FulfilLost(w) ==
  /\ PayAt(w, "fulfil_lost")
  /\ payments' = [payments EXCEPT ![preq[w].payment].status = "failed"]
  /\ PayFinish(w)
  /\ UNCHANGED <<storeVars, gateway>>

\* The confirmed booking of the seat, whoever made it, is taken for the
\* payment's; it may be gone again by now.
FulfilLinked(w) ==
  LET p == preq[w].payment
      found == Confirmed(preq[w].seat)
  IN
  /\ PayAt(w, "fulfil_linked")
  /\ \E b \in IF found = {} THEN {None} ELSE found :
       payments' = [payments EXCEPT ![p].status = "succeeded", ![p].booking = b]
  /\ PayReturn(w, TRUE)
  /\ UNCHANGED <<storeVars, gateway>>

----------------------------------------------------------------------------
(* _fail, past its check that the payment was pending when it was loaded.  *)

\* held_price stays as it was.
FailedRow(row) ==
  [row EXCEPT !.status = "available", !.version = @ + 1, !.locked_by = None,
              !.locked_until = None]

Fail(w) ==
  LET s == preq[w].seat IN
  /\ PayAt(w, "fail")
  /\ payments' = [payments EXCEPT ![preq[w].payment].status = "failed"]
  /\ IF seats[s].status = "payment_pending" THEN SetRow(s, FailedRow(seats[s]))
                                            ELSE UNCHANGED seats
  /\ PayGo(w, "settle_release")
  /\ UNCHANGED <<locks, bookings, gateway>>

\* release_seat_lock for the payer, after the commit of _fulfil or _fail.
SettleRelease(w) ==
  /\ PayAt(w, "settle_release")
  /\ Release(preq[w].seat, preq[w].user)
  /\ PayReturn(w, TRUE)
  /\ UNCHANGED <<seats, bookings, payments, gateway>>

----------------------------------------------------------------------------

\* The process dies, Redis or the gateway does not answer, or Postgres picks
\* this transaction as a deadlock victim: everything uncommitted is undone.
PayCrash(w) ==
  /\ preq[w].pc \notin {"idle", "done"}
  /\ PayFinish(w)
  /\ UNCHANGED <<storeVars, payments, gateway>>

PayStep(w) ==
  \/ \E u \in User, s \in Seat : CheckoutRead(w, u, s)
  \/ CheckoutOwner(w) \/ CheckoutSet(w) \/ CheckoutExtend(w)
  \/ CheckoutExisting(w) \/ CheckoutPrice(w) \/ CheckoutCommit(w)
  \/ \E p \in PayReq : \/ WebhookRead(w, p) \/ SimulateRead(w, p)
                       \/ StatusRead(w, p) \/ ReconcileRead(w, p)
  \/ ReconcileQuery(w) \/ ReconcileNext(w)
  \/ Fulfil(w) \/ FulfilLost(w) \/ FulfilLinked(w)
  \/ Fail(w) \/ SettleRelease(w)
  \/ PayCrash(w)

PayTick ==
  /\ TimerRuns \/ \E p \in PayReq : payments[p].expires_at # 0
  /\ AgeStore
  /\ payments' = [p \in PayReq |-> [payments[p] EXCEPT !.expires_at = Aged(@)]]
  /\ UNCHANGED <<req, gateway, preq>>

CheckoutNext ==
  \/ \E r \in Req : RequestStep(r) /\ UNCHANGED payVars
  \/ /\ \/ PayTick
        \/ \E w \in PayReq : PayStep(w) /\ UNCHANGED req
        \/ \E p \in PayReq : CustomerPays(p) \/ MoneyMoves(p) \/ SessionExpires(p)
     /\ UNCHANGED provider

CheckoutSpec == CheckoutInit /\ [][CheckoutNext]_vars

----------------------------------------------------------------------------
(* Properties.                                                             *)

\* At most one payment in flight per seat, although start_checkout looks for
\* one long before it inserts its own: two customers are never both sent to
\* the gateway for the same seat.
OnePendingPaymentPerSeat ==
  \A p, q \in PayReq :
    payments[p].status = "pending" /\ payments[q].status = "pending"
      /\ payments[p].seat = payments[q].seat => p = q

\* The dual write: a payment succeeds only when its customer went through
\* with the session, whatever was delivered twice, late or out of order.
\* Unless a delayed method was used, Stripe has the money then.
SoldByPaymentWasCompleted ==
  provider = "stripe" =>
    \A p \in PayReq : payments[p].status = "succeeded" =>
      gateway[p] \in IF Delayed THEN Completed ELSE {"paid"}

\* The owner check of the Lua script, with the payment handlers: a seat lock
\* goes away only by its owner's own request or payment, or by time.
LockLostOnlyByOwnPaymentOrTime ==
  [][\A s \in Seat, u \in User :
       locks[s].owner = u /\ locks'[s].owner # u =>
         \/ StepsFor(u, s)
         \/ \E w \in PayReq : preq'[w] # preq[w] /\ preq[w].user = u /\ preq[w].seat = s
         \/ req' = req /\ preq' = preq]_vars
=============================================================================

# SeatPulse in TLA+

A verification project for the SeatPulse booking system: TLA+ modules translated
from the handlers of `src/backend` (and from the parts of `src/frontend` that
decide what a browser shows), TLC runs on small instances, and theorems checked
by TLAPS for every value of the constants.

The system is about one seat and many people who want it. Its handlers each make
several round trips to Redis, Postgres, a payment gateway or a job queue, and
between any two of them every other handler may run, a timer may end, a message
may come twice, or the process may die. That is what the modules model.

## 1. What is modelled

| Module | Translates | What it is |
| --- | --- | --- |
| `SeatStore` | state shared by all handlers | the `seats` and `bookings` tables, the Redis seat locks, the statements issued on them, time; the sale as a mapping |
| `SeatBooking` | `routers/seats.py`, `routers/bookings.py`, `services/locking_strategies.py`, `services/pricing_state.py` | hold, release, book, cancel, the sweep of expired holds |
| `Checkout` | `routers/payments.py`, `services/payments.py`, `workers/reconcile_payments.py` | checkout, webhook, simulated and polled outcomes, reconciliation, and Stripe as the code relies on it |
| `SeatSale` | abstract | what selling seats promises |
| `GroupBooking` | `services/groups.py`, `routers/group_bookings.py`, the group branch of `routers/payments.py`, the expiry of `routers/cron.py` | groups, shares, their payments, confirmation, refunds, expiry |
| `GroupDeal` | abstract | "all or nothing" |
| `Tickets` | `workers/worker.py`, `job_queue.py`, `retry_pending_tickets.py`, `routers/cron.py`, `routers/checkin.py`, the ticket endpoints of `routers/bookings.py` | a ticket from the booking to the gate |
| `Admission` | `main.py`, `core/database.py`, `core/config.py` | slots, threads and connections of a process |
| `Idempotency` | `core/idempotency.py` | the entries of the keys |
| `BookingRequest` | `create_booking` in `routers/bookings.py` | a request's way through both of the above |
| `Sessions` | `core/auth.py`, `routers/auth.py`, the cookie side of `api.js` | refresh tokens and cookies |
| `SeatBroadcast` | `realtime/`, `hooks/useWebSocket.js`, `booking/BookingContext.jsx`, and in short `routers/seats.py` and `bookings.py` | how a browser's map and selection follow the table |
| `Pricing`, `Layout`, `SeatSearch`, `Forecast`, `RateLimit` | `services/pricing.py`, `pricing_state.py`, `layout.py`, `seat_search.py`, `forecast.py`, `core/rate_limit.py` | pure computations as operators |
| `Catalogue` | `routers/events.py`, `organizer.py`, `search.py`, `enforce` and the login's guessing limit | the endpoints that call them, one call per behaviour |
| `*Proofs` | | theorems, see section 3; `SeatStoreProofs` has the lemmas about the store's statements, `CheckoutProofs` the theorems about `SeatBooking` and `Checkout` |
| `MC*` | | instances for TLC: input sets, price functions, symmetry |

How they are composed:

* `Checkout` extends `SeatBooking`, which extends `SeatStore`: a direct booking
  and a payment for the same seat run against each other on one store.
* `GroupBooking` extends `SeatStore` too. The other customers take part in it with
  a direct booking as one step and a sweep as it is after its SELECT, since
  `SeatBooking` has their steps in detail.
* `SeatStore` instantiates `SeatSale` and `GroupBooking` instantiates `GroupDeal`,
  each with a refinement mapping, so that the abstract promise is a property of
  the detailed specification.
* `BookingRequest` extends `Admission` and `Idempotency` and has
  `_perform_booking` as one step with three outcomes.
* `SeatSearch` extends `Layout`, `Forecast` extends `Pricing` for Python's rounding;
  `Catalogue` extends the five pure modules.

### State

* `seats[s]`: one row per seat: `status`, `version`, `locked_by`,
  `locked_until`, `held_price` (`core/models.py`, class `Seat`).
* `locks[s]`: the value and the TTL of the Redis key `seat:<id>:lock`. The value
  is the *user id*, so two requests of one user are not told apart; that is in
  the code and is kept.
* `bookings[b]`: the `bookings` table. A booking is named after the invocation
  that inserts it (a share's after its group and seat), which makes "inserted at
  most once" a fact about names and never an assumption about behaviour.
* `req[r]`, `preq[w]`, `work[w]`, `runs[w]`, `handler[h]`: one record per
  invocation of a handler: the next step and everything the handler has read into
  Python variables. This is where staleness lives: the seat object of
  `_perform_booking` (`seen`), the price it will charge (`price`), the ids the
  sweep selected (`expired`), a payment or a share as it was loaded (`live`,
  `seen`), the token a ticket run will print (`token`), the keys a SCAN returned
  (`found`), the row a broadcast will publish (`seen`).
* `payments`, `groups`, `shares`, `rows` (the ticket columns): tables.
* `gateway[p]`: Stripe's own view of each session, external and modelled from how
  the code uses it. In `GroupBooking` it also knows whether an event was answered.
* `queue`, `disk`: the jobs in Redis and the token printed in each ticket's file.
* `slots`, `threads`, `conns`, `idem`: what the requests of a process hold, and
  the entries of the idempotency keys.
* `keys`, `jar`, `oauth`: the refresh tokens in Redis, each browser's cookie, the
  OAuth states under way.
* `row`, `booking`, `feed`, `socket`, `inbox`, `view`, `selected`, `fetches`: the tables,
  the channel per worker, and what each browser has, shows and awaits.
* `family`, `ended`, `revoked`, `raced`, `disturbed`, `overlapped`, `lapsed`,
  `missed`, `overtaken`, `belated`: history variables. Each names an exception of a property
  (two overlapping requests, a lost reply, ...), is set by the very step that
  causes it, and no step reads it, except where one decides what another one
  will say. `published` is one too: the row
  that the last message about each seat carried.

### Steps

One action is one committed transaction, one query, or one Redis command,
whatever lies between two points at which another process can be seen or can see
this one. A handler's SELECT is one step and its later UPDATE another, and between
them anything else may run. Statements of one transaction are collapsed into its
commit when no other statement of it can be observed earlier: `BookCommit` is the
claim, the INSERT and the COMMIT. Postgres makes the second writer of a row wait
and then re-evaluates its WHERE on the new row (READ COMMITTED), so the order of
the commits is the order of the steps. Deadlock victims, Redis timeouts and dying
processes are one action per module (`Crash`, `PayCrash`, `GroupCrash`,
`RunnerDies`, `Die`, `Dies`, `HandlerDies`): the open transaction is rolled back,
what was committed or sent to Redis stays, nothing more is done.

| Handler | Actions |
| --- | --- |
| `lock_seat` | `LockRead`, `LockSet`, `LockQuote`, `LockUpdate`, `LockUndo` |
| `unlock_seat` | `UnlockRelease`, `UnlockUpdate` |
| `_perform_booking` | `BookRead`, `BookOwner`, `BookSet`, `BookPrice`, `BookCommit`, `BookRelease` |
| `cancel_booking` | `CancelRead`, `CancelUpdate` |
| `release_expired_locks` (in `list_event_seats`) | `ListRead`, `ListUpdate`; `SweepUpdate` in `GroupBooking` |
| `start_checkout` | `CheckoutRead`, `CheckoutOwner`, `CheckoutSet`, `CheckoutExtend`, `CheckoutExisting`, `CheckoutPrice`, `CheckoutCommit` |
| `stripe_webhook` | `WebhookRead`, then `_fulfil` or `_fail` |
| `simulate_payment`, `get_payment` | `SimulateRead`, `StatusRead`, then `_fulfil` or `_fail` |
| `reconcile` | `ReconcileRead`, `ReconcileQuery`, `ReconcileNext`, and `_fulfil` or `_fail` for each payment of the batch |
| `_fulfil`, `_fail` | `Fulfil`, `FulfilLost`, `FulfilLinked`, `Fail`, `SettleRelease` |
| `create_group`, `claim_share`, `pay_share` | `CreateGroup`; `ClaimRead`, `ClaimUpdate`; `PayRead`, `PayCommit` |
| `mark_share_paid`, `_try_confirm` | `EventRead` or `OverdueRead`, `FulfilShare`, `MarkShare`, `Confirm`; `FailShare`, `FailRelease` |
| `break_group`, `expire_due_groups` | `CancelGroup`, `ExpireGroup` |
| `generate_ticket_sync` | `StartJob`, or `TickRead` and `TickNext`; `GenerateRead`, `SaveTicket`, `GenerateCommit`, `GenerateFails`, `MarkFailed` |
| `retry_pending_tickets` | `ScriptRead`, `ScriptEnqueue`, `ScriptCommit` |
| the ticket's download and retry | `AskRead`, `AskCommit` |
| `check_in` | `ScanRead`, `ScanUpdate` |
| `limit_concurrency`, `get_db`, `create_booking` | `Arrive`, `GetThread`, `Query`, `AuthDone`, `LimitDone`, `Begin`, `LookUp`, `Perform`, `FailLate`, `Store`, `GiveUp`, `Respond` |
| `login`, `google_login`, `google_callback` | `Login`, `GoogleLogin`, `GoogleCallback`, `GoogleFails`, `Issue` |
| `refresh`, `logout`, `logout_all` | `Refresh`, `Rotate`, `Issue`; `Logout`; `LogoutAll`, `Scan`, `Delete` |
| these handlers in `SeatBroadcast` | `Lock`, `LockAgain`; `Unlock`, `UnlockRow`; `Book`; `Cancel`; `Expire`, `ExpireRow`; `Refused` |
| `broadcast_seat_update` | `ReadRow`, `PublishSeat`, `PublishPricing`, `PublishFails` |
| a worker's subscriber, the sockets | `Forward`, `FeedBreaks`, `Resubscribe`, `Open`, `Drop` |
| the browser | `Hear`, `Answer`, `AnswerIgnored`, `CountdownEnds`, `ServerReads`, `FetchArrives`, `FetchFails`, `Arrives` |
| time | `Tick`, `PayTick`, `GroupTick`, `Expires` |

A guard that fails early returns and changes nothing; such an invocation is not
started in the model, since it cannot be told from one that never came.

### Abstractions

* *Time is relative.* Each timer holds the ticks it has left, a tick lowers all of
  them together, and a Redis key disappears when its TTL is over. A lapsed hold in
  Postgres only becomes old: `locked_until = 0`. This is finite without a clock
  bound and keeps every order of expiries. Refresh tokens and placeholders expire
  at any time instead: no order of their expiries matters.
* *Prices* in the seat modules are `PriceAt(n)`, the price after `n` confirmed
  bookings, which is what the code's price moves with: the confirmed bookings of the
  whole event. The properties need that it moves while handlers run; `Pricing` has the
  formula.
* `locked_until` of a row that was read earlier keeps only whether it is NULL
  (`Snapshot`): nothing looks at the value again.
* *Stripe* sessions move from open to paid or expired; with `Delayed = TRUE` a
  session may complete while the money is still on its way, and be declined later
  (`checkout.session.async_payment_failed`). Events come any number of times,
  concurrently and late.
* Webhook deliveries are handled one at a time within one worker process, but
  there are several workers, and the reconciliation is a process of its own:
  invocations of `_fulfil` and `_fail` interleave freely.
* A payment whose SUCCEEDED was written without a booking (`FulfilLinked` with
  nothing found) may be settled again; the ORM would then leave the unchanged
  status out of its UPDATE, the model writes it again.
* *Tokens* of tickets are random and hence unique: a new one is any that no row,
  file or run holds. A committing handler and its enqueue are one step: a process
  that dies between them is the enqueue that fails.
* *Mail and PDF* are not modelled; of the file only the token printed in it counts.
* *SCAN* returns every key that was there all the time and any subset of the
  others; that is what Redis guarantees, and all of it.
* *Registering* is a login. Passwords, roles and access tokens are left out.
* *The handlers in `SeatBroadcast`* are short, since `SeatBooking` has them step by step.
  The seat locks in Redis are left out: any of them may end at any time, so every
  request may find its lock free, its own, gone, or another's (`Lock`, `LockAgain`,
  both branches of `Unlock`, `Refused`). A hold, a booking and a cancellation are one
  step, their commit; a booking needs the unique index to admit it. A release
  (`Unlock`, `UnlockRow`) and the sweep (`Expire`, `ExpireRow`) are two: what was
  released or selected is freed later, *whoever holds the seat by then*, also while the
  request for that hold is still under way, and the sweep frees it whatever its status. The
  sweep takes one seat; one that takes several is several handlers. A request that
  changes nothing counts as one of the `MaxFaults`. Payments, groups and the limits on
  requests (429) are left out. A browser does one thing at a time (`Acting`): the page
  has flags for that while it locks or books, but none for `releaseHold` and `cancel`, so
  a user who clicks on while one of these is under way is not in the model. In
  `SeatBroadcast.cfg` the second browser only sends requests (`Watching`).
* *Fractions* instead of floats in `Pricing` and `Forecast`. Python's floats agree with
  those of `Pricing` where the inputs are multiples of a quarter and totals are powers of
  two, which is what `Catalogue` runs on, and come near those of `Forecast`; `Rounded` is
  Python's round to even, of the prices and of the forecast's percentage (in tenths).
* `RateLimit` counts *whole tokens*: a limit refills a number of them per tick, so the
  fractions of a token that the script keeps in Redis do not occur.

## 2. What each run shows

| Run | Instance | Question |
| --- | --- | --- |
| `SeatBooking` | 1 seat, 2 users, 4 invocations | hold, release, book, cancel and sweep against one another with crashes and expiries: no double sale, a sold row leaves `booked` only by a cancellation or the sweep, every change moves the version, the bookings table implements `SeatSale` |
| `SeatBookingPrices` | 2 seats, 2 users, 3 invocations, no symmetry | the second seat moves the price of the first while its booking is under way: a claim commits at the held price; and every Redis lock ends |
| `SeatBookingBenchmark` | pessimistic, no Redis, 4 invocations | the configuration of the locking benchmark: the unique index alone prevents the double sale |
| `Checkout` | 1 seat, 2 users, 3 payment invocations, 1 direct one | payments against direct requests: one pending payment per seat, a payment that succeeded belongs to a completed session, a booked seat has its booking, a lock is lost only by its owner or time, and the sale again |
| `CheckoutBatch` | 2 seats, 3 payment invocations, a cancellation or sweep; Stripe with delayed methods, or the mock gateway | a reconciliation that settles two payments in one batch settles each by its own session's state |
| `GroupBooking` | 2 seats, a group of two, 2 workers, 2 payments, a rival, a sweep | the last payment, the deadline, the creator's cancellation, duplicates, crashes and a rival at once: all or nothing; no paid share without a completed session; no seat held for a dead group; no answered event lost |
| `Tickets` | 1 booking, 2 runners, the script, 1 customer, 2 concurrent scans, both deployments, 2 faults | one entry per ticket; an issued token stays and its file scans; every confirmed booking gets its ticket |
| `BookingRequest` | 2 requests of one attempt and a third (a repetition, the same key for another seat, or somebody else's), 2 slots, 2 threads, 3 connections | nobody waits for a connection; a replay is the attempt's own booking; an attempt is not refused for its own booking; every request ends |
| `Sessions` | 2 browsers, 2 invocations, 3 tokens, 1 OAuth login | one token per login; what was logged out stays out, here and on all devices; a session survives its refreshes |
| `SeatBroadcast` | 2 users, one of them with a page, 2 workers, 2 handlers, 1 seat, 2 commits, 1 fault, 1 fetch at a time | when everything has arrived, the map shows the row; what messages told a browser last is what was published last, whichever worker serves it; and nobody goes on with a selected seat that is gone, though sweeps and late releases end a hold under its running request |
| `Catalogue` | some 68,000 calls | prices, layouts, tiers, seat search, forecast, buckets and guesses against reference definitions |

Each property of a passing run has a mutant in `PROJECT.json`: a plausible bug in
one definition under which TLC finds the property violated. The mutants are
operators marked `Mutant:` next to what they replace.

A property is checked by the run whose instance exercises it best, and not
again by every neighbour. `CheckoutTypeOK`, `GroupTypeOK`, `TicketTypeOK`,
`RequestTypeOK`, `SessionTypeOK` and `BroadcastTypeOK` say what the variables of
their modules are; all of them are theorems, and can be added to their module's run.

One run finds a disagreement between the code and what the repository says of it:

| Run | What the repository says | What the code does |
| --- | --- | --- |
| `SweepFreesSoldSeat` | "No confirmed booking exists without a booked seat" (`scripts/verify_integrity.py:84`) | `release_expired_locks` updates by the ids it selected earlier; a seat booked in between is put on sale again. The unique index then refuses every new booking of it, so it is shown as available and can never be bought |

### Known divergences without a run of their own

Most of these can be reached in the models, and the others were met in parts of the
source that are left out (event deletion, the gate's statistics, `startGroup`, the
race of two first callbacks, a Redis that is down). They are described here so that a
model's behaviour is not mistaken for a slip, and so that a property's exceptions
are understood. Where one breaks a property, the property leaves the case out by
a history variable named after it.

*Seats and bookings*

* **Cancelling twice.** Both requests pass `booking.status == BOOKING_CANCELLED`
  (`routers/bookings.py:275`) before either commits. The later UPDATE (line 281)
  is by seat id and frees the seat although it was sold again in between.
* **A late release clears the next hold.** `unlock_seat` gives the Redis lock back
  first and then clears any row that says `locked` (`routers/seats.py:255`): the
  hold, and the price, of whoever took it in between, although the quote "is locked
  at hold time" (`README.md:233`).
* **A lapsed hold's price.** The `held_price` of a hold that lapsed in Redis stays in
  the row until somebody lists the seats and prices the next booking
  (`routers/bookings.py:170`), although "The next attempt will use the current
  (potentially higher) price" (`routers/seats.py:70`). `_fail` keeps `held_price`
  too (`routers/payments.py:306`), although it is "cleared when the hold is
  released" (`core/models.py:242`), and so do `cancel_booking` and `_fulfil`.
* **Pessimistic claims may lower a version.** `SELECT ... FOR UPDATE` waits, but the
  session already holds the object and does not refresh it, so the re-check "now
  reliable" (`locking_strategies.py:95`) looks at the old status and the flush
  writes the old version plus one. Hence the assumption `Strategy = "optimistic"`
  in two theorems. Only the benchmark script uses the other strategy.

*Payments*

* **A duplicate event fails a success.** Of two concurrent deliveries the second
  finds the seat booked and writes FAILED over SUCCEEDED (`routers/payments.py:254`),
  although "Fulfilment is idempotent" (line 15). In the same way `reconcile` fails a
  payment that a webhook fulfilled while Stripe was asked
  (`workers/reconcile_payments.py:87`, against line 69).
* **One payment, two bookings.** A duplicate event that was loaded before the first
  one committed (`routers/payments.py:224`) books the seat again if the first
  booking was cancelled in between ("without creating a duplicate booking", line 16).
* **A late `_fail` frees the next payment's seat.** Its WHERE asks for
  `payment_pending` (`routers/payments.py:308`), which may be another payment's.
* **Charged after the hold.** The gateway session lives for at least 1800 seconds
  (`services/payments.py:94`) and the hold for 600; nothing checks the hold before
  the money moves, though `documents/walkthrough.md:44` says so. A payment that
  arrives too late ends in `seat_taken_after_payment`.
* **Completed is not paid.** `stripe_webhook` fulfils on `checkout.session.completed`
  (`routers/payments.py:350`) without looking at the session's payment status; with
  a delayed method the money may still fail, and the failure event is then dropped.
  `SoldByPaymentWasCompleted` says "paid" only for `Delayed = FALSE`.

*Groups*

* **A duplicate refunds a confirmed group.** `mark_share_paid` "Must be idempotent"
  (`services/groups.py:183`), but an event that loaded its share before the group was
  confirmed marks share and payment of the confirmed group as refunded.
* **A payment after a failure.** A share may be paid by a second session after its
  first one was failed; when the first is paid late the customer has paid twice, and
  a stale overdue `_fail` may write FAILED over a refunded payment.
* **Two shares, one user.** Two concurrent claims by one user both pass the check
  that the user has none (`routers/group_bookings.py:170`).
* **The mock gateway does not call again.** A process that dies between the commit
  of SUCCEEDED and `mark_share_paid` (`routers/payments.py:228`) is saved by Stripe's
  redelivery; nothing repeats a simulated payment.
* **Groups and single holds ignore each other.** `create_group` takes a seat another
  user has locked, since it looks at the row's status only; `start_checkout` on a
  held seat commits a pending payment that can never be fulfilled and that blocks
  `pay_share` by the unique index; `break_group` frees the hold of whatever group
  has the seat by now; a stale sweep frees a held seat. A payment that is inserted
  after its group broke waits for its own end.

*Tickets and the gate*

* **Overlapping runs.** Two runs for one booking draw different tokens, and the file
  of one may be issued with the row of the other, although the job is "IDEMPOTENT"
  (`workers/worker.py:62`); `_mark_failed` overwrites READY.
* **The retry script** enqueues before it commits, and its commit can put PENDING
  over READY (`workers/retry_pending_tickets.py:60`).
* **ARQ does not retry plain exceptions**, which `generate_ticket`'s docstring counts on.
* **A ticket is admitted after its booking was cancelled** when the cancellation
  falls between the scan's read and its update (`routers/checkin.py:129`).
* **More tickets than the tick's LIMIT.** Its SELECT has no ORDER BY, so the same rows
  may be returned forever (`routers/cron.py:52`).
* **The statistics of the gate** come from two queries and may show a negative rest.
* **Deleting an event** counts its confirmed bookings and then deletes in cascade
  (`routers/organizer.py:298`), "only if it has no confirmed bookings": one committed
  in between is deleted with it.

*Requests and sessions*

* **Idempotency.** An entry that vanishes between `SET NX` and `GET` lets the request
  proceed without a claim; `abort` deletes whatever entry is there; an exception after
  the commit gives the key back, and the retry is told that the seat is taken; so
  is one that comes after the claim's 60 seconds.
* **Pool and slots.** `README.md:325` deploys with `DB_POOL_SIZE=3` and an overflow of
  2 and leaves `MAX_CONCURRENT_REQUESTS` at 30, against the relation that
  `core/config.py:29` demands and `AdmissionAssumption` states.
* **One bucket for several limits.** The key has no endpoint in it, so limits of
  different capacity and refill share a bucket although there are "Per-endpoint
  budgets" (`core/rate_limit.py:104`). N guesses at once pass the peek of the login
  together (line 108 allows five). A clock that runs behind puts the timestamp back
  and refills again. Without Redis nothing is limited.
* **Refreshing.** The cookie that a refused refresh clears is not sent
  (`routers/auth.py:191`); two refreshes at once both succeed; a refresh that overlaps
  a logout leaves a live token; a login on a browser with a session leaves the old
  key; a request of the browser fails when its refresh is verified after another's.
* **Google.** Two first callbacks of one account race to an IntegrityError.

*Browsers*

* **No fetch on open.** A socket that (re)connects does not fetch what it missed.
* **Order of publications.** Two handlers of a seat may publish in the other order
  than they committed; a map fetched before a message may arrive after it and win; a
  fetched map does not clear the selection; a failed publish is swallowed.
* **A hold that is over before it is answered.** A stale sweep (`routers/seats.py:63`) or a
  late release (line 255) frees a seat between the commit of `lock_seat` and its answer,
  and the message that says so clears nothing, as the seat is not selected yet; then the
  answer selects it (`BookingContext.jsx:219`), and the map that is fetched afterwards
  clears nothing either, so the user goes on to book a seat that is not held.
  `SelectionIsHeld` leaves the user of such an answer out (`belated`), until the
  next one that finds the hold in place.
* **`startGroup`** takes seats that are not adjacent when there are gaps
  (`BookingContext.jsx:265`).

*Computations*

* **The forecast's pace** falls back to the all-time rate when fewer than
  `MIN_BOOKINGS` are recent, so it can jump up as sales dry up (against
  `services/forecast.py:29`).
* **An aisle's key is not stripped** as the label is, so a padded label loses its
  aisles (`services/seat_search.py:57`).
* **`seats_until_increase`** is exact for the cheapest seat only, and rounding to tens
  can price a five-rupee seat below its base.
* **A free event gets dearer, says the banner.** `pricing_state` takes a price of 1000
  when the cheapest seat costs nothing (`services/pricing_state.py:36`: 0 is falsy). So
  the page of a free event says that the price will increase after so many more
  seats, and it stays 0, although "every number here is real (surge %, sold/total, seats
  until next increase)" (`frontend/src/components/PricingBanner.jsx:4`).
  `PriceFollowsDemand` asks for an exact number only where the seat has a price, and of a
  free seat that it stays free.
* **100.0 % without a date.** The forecast's percentage is rounded to a tenth
  (`services/forecast.py:86`), so a pace that leaves less than one seat in 2000 is
  shown as everything, with no sell-out date.

### Bounds, and why they are enough

* *Invocations.* The conflicts above all need two or three: one that read, one
  that changed what it read, one that profits. Four on one seat also cover a
  sale, a cancellation and a second sale against one stale handler. In
  `Checkout` one payment needs two invocations (the checkout and a settlement),
  and a third is the duplicate or the rival.
* *Seats.* A handler works on one seat; two seats matter only where something
  crosses seats: the price, a reconciliation batch, a group.
* *Users.* Two: the owner check tells the owner from anyone else. `GroupBooking` has
  a creator and a member; the rival needs no name.
* *Timers.* `LockTTL = 1`, `PaymentTTL = 2` (1 in `GroupBooking`, with `GroupTTL = 2`:
  a share's payment may end before its group). What matters is the order of expiries
  relative to steps; any number of steps fits into one tick, and a tick may come
  at once.
* *Payments of groups.* `MaxPayments = 2` for two shares: one each, or one share paid
  twice.
* *Tickets.* One booking, with two runners that may both take it; `MaxTries = 2` lets a
  job die once and be tried again; `MaxFaults = 2` (a lost enqueue and a dead run)
  and `MaxScans = 2` (two gates). `TickLimit = 1` with one booking is the case in
  which the tick reaches every ticket.
* *Requests.* Two slots for three requests, so that one waits or gives up, and as
  many threads as slots; three connections, the least the assumption allows.
* *Sessions.* `MaxTokens = 3`: a login, a refresh, and another login or refresh that
  races; with `MaxOAuth = 1` one of them by Google. Two workers are two overlapping
  requests.
* *Broadcasts.* `MaxCommits = 2` on one seat (a change and the change back, or by
  another user), `MaxFaults = 1`, and one fetch per browser. A seat may begin held, selected
  or sold, so that the first commit can already end a hold. One page is followed
  (`Watching`): a page affects neither the server nor another page but by its user's
  requests, which a user without one sends too. Two pages that were told agree because
  each was told what was published last, which is what the run checks, with the page on
  either worker; the proofs are for any number of pages.
* *Computations.* `MaxSeats = 6`, `MaxRowSeats = 4`, `MaxRows = 2`, `MaxSections = 3`:
  rows with an aisle and a gap, sections that collide, tiers with more rows than
  one section has, three texts for names and labels (`Text`); inputs lie on both sides of each threshold, and totals are
  powers of two.
* *Versions* need no bound: an invocation runs once, so they are finite.
* *Symmetry.* Users, invocations and seats are permuted in the seat modules, workers in
  `GroupBooking`, browsers and workers in `Sessions`, those and handlers in
  `SeatBroadcast` (browsers among those with a page and among the others). No definition orders them, and the only `CHOOSE` in them is in the mapping
  `Holder`, over the confirmed bookings of a seat: where the index holds, that set has
  one element, which a permutation maps to the one of the permuted state. The
  refinements are safety formulas; the runs with a liveness property
  (`SeatBookingPrices`, `Tickets`, `BookingRequest`) use no symmetry.
* *Deadlock* is not checked by TLC's flag: invocations are single-shot, so each system
  comes to rest when all have run. That nobody waits for ever is
  `EveryRequestEnds`, the one place where the modelled code holds one resource and
  waits for another. Otherwise only Postgres makes handlers wait, and it resolves
  its own deadlocks by choosing a victim.

### Fairness

* `FairBookingSpec`: weak fairness of `Tick`: time goes on. No handler is assumed to
  make its next step, because a process may die at any point; that is why
  `EveryLockEnds` says something: it rests on the TTL in `SET NX EX` alone and its
  mutant is a `SET NX` without one. No statement of the kind "a booking is
  eventually made" is claimed: nothing in the code guarantees it.
* `FairTicketSpec`: each runner goes on with its job, or the next one
  (`RunnerNext`): ARQ's loop and the scheduler's repeated call of the tick; the
  scheduler starts the retry script again and again, which then reads every
  unfinished booking and does its steps. Faults are bounded by
  `MaxFaults`: with unbounded failures nothing can be promised.
* `FairRequestSpec`: a request that can go on does (`Proceed`): threads run, and the event
  loop serves its queues. Its customer may still give up at any time while it waits.

## 3. What is proved

For all values of the constants under the named assumptions; TLC evaluates each
assumption in the runs of the module that declares it.

| Module | Theorem | Statement |
| --- | --- | --- |
| `CheckoutProofs` | `TypeCorrectness` | `BookingSpec => []BookingTypeOK` |
| | `NoDoubleSale` | `BookingSpec => []OneConfirmedBookingPerSeat` |
| | `BookedMeansSold` | `BookingSpec => []BookedSeatHasBooking` |
| | `StaleHoldsTakeNothing` | `BookingSpec => BookedLeftOnlyByCancelOrSweep` |
| | `VersionMoves` | `Strategy = "optimistic"`: `BookingSpec => ChangedRowMovesVersion` |
| | `PaidAtHeldPrice` | `Strategy = "optimistic"`: `BookingSpec => BookedAtHeldPrice` |
| | `BookingImplementsSale` | `BookingSpec => ImplementsSeatSale` |
| | `CheckoutTypeCorrect` | `CheckoutSpec => []CheckoutTypeOK` |
| | `OnePaymentInFlight` | `CheckoutSpec => []OnePendingPaymentPerSeat` |
| | `SoldMeansCompleted` | `CheckoutSpec => []SoldByPaymentWasCompleted` |
| | `CheckoutSellsOnce` | `CheckoutSpec => [](OneConfirmedBookingPerSeat /\ BookedSeatHasBooking)` |
| | `CheckoutImplementsSale` | `CheckoutSpec => ImplementsSeatSale` |
| | `LocksAreTheirOwners` | `CheckoutSpec => LockLostOnlyByOwnPaymentOrTime` |
| `GroupBookingProofs` | `TypeCorrectness` | `GroupSpec => []GroupTypeOK` |
| | `NoDoubleSale` | `GroupSpec => []OneConfirmedBookingPerSeat` |
| | `PaidMeansCompleted` | `GroupSpec => []PaidShareWasCompleted` |
| | `HoldsEndWithGroup` | `GroupSpec => []GroupHoldHasGroup` |
| | `AnsweredMeansLanded` | `GroupSpec => []AnsweredPaymentLanded` |
| | `GroupImplementsDeal` | `GroupSpec => ImplementsGroupDeal` |
| `BookingRequestProofs` | `TypeCorrectness` | `RequestSpec => []RequestTypeOK` |
| | `ConnectionsSuffice` | `RequestSpec => []NobodyWaitsForConnection` |
| | `ReplaysAreOwn` | `RequestSpec => []ReplayIsOwnBooking` |
| | `RetriesMeetNoConflict` | `RequestSpec => []NoConflictWithItself` |
| `TicketsProofs` | `TypeCorrectness` | `TicketSpec => []TicketTypeOK` |
| | `TicketAdmitsOnce` | `TicketSpec => []AdmittedOnce` |
| | `IssuedTokensStay` | `TicketSpec => IssuedTokenStays` |
| | `FilesScan` | `TicketSpec => []ReadyFileScans` |
| `SessionsProofs` | `TypeCorrectness` | `SessionSpec => []SessionTypeOK` |
| | `LogoutAllRevokes` | `SessionSpec => []RevokedStaysRevoked` |
| | `OneToken` | `SessionSpec => []OneTokenPerLogin` |
| | `SessionSurvives` | `SessionSpec => []SessionSurvivesRefresh` |
| | `SignedOut` | `SessionSpec => []SignedOutStaysOut` |
| `SeatBroadcastProofs` | `TypeCorrectness` | `BroadcastSpec => []BroadcastTypeOK` |
| | `OneOrder` | `BroadcastSpec => []ToldTheLast` |
| | `BrowsersAlwaysAgree` | `BroadcastSpec => []BrowsersAgree` |
| | `Shown` | `BroadcastSpec => []ShowsTheRow` |
| | `Held` | `BroadcastSpec => []SelectionIsHeld` |
| `CatalogueProofs` | `PricesFollowDemand` | `CatalogueSpec => []PriceFollowsDemand` |
| | `SeatsAsPlanned` | `CatalogueSpec => []SeatsAreAsPlanned` |
| | `ForecastKeepsPace` | `CatalogueSpec => []ForecastFollowsPace` |
| | `BucketsKeepTheirRate` | `CatalogueSpec => []BucketKeepsItsRate` |
| | `GuessesStayBounded` | `CatalogueSpec => []GuessesAreBounded` |
| | `SearchFinds` | `CatalogueSpec => []SearchIsExact` |

The assumptions are `StoreAssumption` (NULL is none of the names and no number,
TTLs are positive, finitely many bookings, prices are natural numbers),
`BookingAssumption`, `GroupAssumption`, `CheckoutAssumption` (invocations name bookings, the workload
and strategy are legal), `AdmissionAssumption` (fewer slots than connections, and
the rest of what `core/config.py` demands), `RequestAssumption`,
`SessionAssumption`, `TicketAssumption` (names and bounds; bookings and runners are
finite sets), `BroadcastAssumption` (`None` is no name, the bounds are natural numbers),
`LayoutAssumption` (the limits of layouts are natural numbers) and `CatalogueAssumption`.
The last one says which calls there are, and for most of them only their types. Beyond
those it has what pydantic's schemas let through (`core/schemas.py`, `EventCreate`: a demand
factor of at least 0 and a ceiling of at least 1, no more tiers than sections, no more seats
in 26 rows than in an event); that an event has not sold more seats than it has; that every call of
`enforce` takes one token; that the threads of the pool limit how many passwords are
being compared; and that the seats given to the search come in the order of its query
(`routers/search.py` sorts by row and number, which are unique together). Seats, aisles, prices of sections and names in a layout are any values.

### The arguments

*Seats.*

* `BookingInv` strengthens the type invariant. The type alone is not inductive:
  that `CancelUpdate` writes a seat needs to know that its target is a booking of
  that seat. `RequestInv` says of each invocation what its label entitles it to (a
  user and a seat while at work; a booking that exists and is of its seat before
  a cancellation; and *no booking of its own name until it has committed one*),
  `LedgerInv` that a booking in the table has a user and a seat.
* `SaleInv` adds the two sale invariants. They need each other: the confirmed
  booking a `booked` row has is the only one, so cancelling it may free the row
  and leaves none behind.
* `StaleHoldsTakeNothing` looks at the five handlers that write rows (`WhoWritesRows`):
  holds and their releases test the status they overwrite, a claim leaves `booked`.
* `VersionMoves` follows from the types, one UPDATE at a time, and the fact that
  each handler writes one seat or, for the sweep, the expired ones.
* `PriceInv` is the optimistic-locking argument: what a handler read is no newer
  than the row, and *if the versions are still equal, so are the held prices*. It
  is preserved because every row change moves the version (`RowMoves`), and it is
  exactly what makes the version comparison in the claim enough.
* `RefinementInv` adds that held prices and quotes are prices of the event and
  that an unused booking name is blank. With it a winning claim is `Sell`
  (`ClaimSells`), a cancellation is `Cancel` or a stutter (`CancellationEnds`),
  and `WhoWritesBookings` shows that no other step touches the table.

*Checkout.* `CheckoutInv` stands on `RefinementInv`: the payment handlers write the same
tables, and the lemmas on the store's statements (`LocksOnly`, `RowOnly`,
`PaymentSells`) show once that a lock, an unsold row or a sale keeps it. `JobsInv` says what
each invocation knows: a checkout that its payment does not exist yet and the price of
its seat (`KnowsPayment`), whoever is about to fulfil that the session completed
(`KnowsSession`), and *for which payments it has not inserted a booking yet*
(`BooksOnce`, without which `Fulfil` could write the booking of its name twice, since one
reconciliation fulfils several payments). `PaymentsInv` ties payments to
sessions. A step of one invocation keeps what the others know because of `Kept`: existing
payments keep their user and seat, completed sessions stay completed, bookings are
inserted under the inserting invocation's name. In `CheckoutCommitOK` the unique
index decides `OnePendingPaymentPerSeat`, whatever `CheckoutExisting` saw. For the
refinement only `Fulfil` writes the bookings table (`WhoInserts`), and it is a `Sell`.
`LocksAreTheirOwners` needs from `CheckoutInv` only that a handler which releases a lock
names its own user and seat (`LosesLock`, `LockStep`).

*Groups.* `GroupInv` is the type invariant with what ties the tables together. `JobsInv`:
a worker's label says what it knows of its share, payment and session (a worker about
to mark or confirm has a completed session). `PaymentsInv`: a payment with a booking, or
whose event was answered, has a share that is paid or refunded. `SharesInv`: shares,
bookings and groups are in step (no share of a collecting group is refunded, none
of an ended one is paid, only a confirmed group has bookings). `GroupHoldHasGroup`
and `OneConfirmedBookingPerSeat` are inductive only beside them. Steps are either *quiet*
(they leave the groups' outcome alone) or *deciding* (a confirmation, a break, an expiry);
for the refinement `DealStep` maps each deciding step to a step of `GroupDeal` and the quiet
ones to a stutter.

*Requests.* `RequestInv` has three parts. `SlotsInv`: connections and threads are held by
requests in a slot, of which there are at most `MaxConcurrent`; by the cardinality of
a subset and `MaxConcurrent < Pool` a connection is left over. `FlowInv`: a result
stored under a key, and a result already read, describe a booking made for that key
and that body; this survives entries that expire, vanish or are deleted by
strangers, since none of them writes a result. `LookUpInv`: only a request with a
key looks one up. `RetriesMeetNoConflict` adds `ClaimInv` for each key not yet in
`lapsed`: one request at most claims it, its entry says `processing`, and a booking made
under it is about to be stored or has been. `AsideKeeps` settles the steps of no
concern to the key.

*Tickets.* `KnownInv` gives the types and that a run that reads a ticket always finds a
token nobody has: a booking holds two at most (row and file) and a run one, and the run that
reads holds none. `GateInv`: a booking has admitted one scan if its `checked_in_at` is set and
none otherwise; no other step of the module sets or clears that column. `IssueInv` is about
the save of the file before the commit of the row. A run for a booking whose runs never
overlapped prints alone (`PrintsAlone`): the token it prints is the row's or the row has
none, and once the file is saved it carries that token. So a commit replaces no token, and
a run that died after its save left a file that the next run writes anew before the
ticket is ready.

*Sessions.* `KnownInv` gives the types: only issued tokens are anywhere. `RevokedInv`: while
a logout-all deletes, every token that existed when it began and is still valid is
among those its SCAN found. `OneTokenInv`: a login whose requests never overlapped
(`OrderlyLogin`) has one valid token or one request that is about to issue it.
`HeldInv` says who has what: a login belongs to one browser, and a token on its way to a
jar is in no jar and with no other request. On it stand `SurvivesInv` (the cookie of a
browser that lost no reply is valid, or a request took it that will replace it) and `EndedInv`
(the valid token of an orderly login is in the jar or with the request under way; a login
that ended has neither).

*Seat broadcast.* `KnownInv` types the server, the wire, the clients and the history.

* A step either leaves the stream of messages about a seat to a client as it was
  (`Flows`: what was to be its last message still is, and has been shown once it is
  heard), is a publish of that seat or an arriving fetch, or the client loses something
  and its `missed` says so (`Loses`); the lemma `Stream` says that these are all. A message is appended to every
  subscription at once, so the last one for everybody is the one `published` last
  (`LastTold`), which is `ToldInv` and gives `ToldTheLast`. That any two browsers agree
  (`BrowsersAgree`) is its corollary.
* `RowsInv`: nobody, neither handler, message, fetch nor client, knows a row that is not
  the table's or older than it (`Was`).
* `CurrentInv`: for a client that missed nothing, a handler is about to publish the
  row as it is (`Pending`), or what is on its way ends with it (`Settles`). A publish of an
  older row is harmless while the newer one is pending; otherwise `NewerKnown` holds and the
  seat is `overtaken`. The same holds of the rows of each fetch that will heal a client:
  an arriving fetch must be of no older row than a message still coming (`OlderComing`).
* `HoldsInv`: a selected seat that a message spoke of last is shown as held by its user, or
  is shown by an older row than the table's. Nothing is assumed of how long a hold lasts: an
  answer selects a seat only if its hold is in place, and then the row shown is that row
  or an older one, or the client is `belated`; every commit makes what is shown older. Once
  all has arrived, the row shown is the table's (`CurrentInv`).

The proof is for every `MaxFetches`, and its attempt corrected a history variable: of two
fetches that the server had both answered before a message came, the first to arrive takes
the message back, and then the second must not count as making up for that (`Outdated`).
With one fetch per browser, as in the runs, that case does not occur.

*Catalogue.* `CatalogueInv` says of each kind of call that its answer is what the code
computes; the theorems are about what that is. Where the code loops, the definitions are
recursive functions. `LoopExists` and `IterationExists` show once that such functions
exist: each value depends on the one before it. What holds at every step is shown by the
least-number principle (`LeastNatural`, from the well-foundedness of the natural numbers):
among the steps where a statement fails there would be a first.

* *Prices.* Rounding to tens is monotone and moves a price by half of ten at most, the
  multiplier lies between one and the ceiling and grows with the seats sold. The loop of
  `_seats_until_increase` stops at the first number of seats with a higher price
  (`LoopFinds`), and with monotone prices none before it can differ. The loop runs over
  the prices of a seat of 1000 if the cheapest one is free; a free seat's price stays
  0 (`NothingStaysNothing`). This is about exact arithmetic, see section 1.
* *Forecast.* A list of bookings with enough recent ones sets the pace by them alone; the
  date is compared with the event by multiplying out; the percentage is the rounding of what
  the pace sells, which moves it by half a tenth at most (`RoundedNear`).
* *Buckets.* The account kept along the calls is: what was allowed, plus what is left in the
  bucket, is no more than the largest capacity plus the largest refill for the time by
  which the bucket's clock went forward. A clock that runs behind adds to that time when
  it is caught up with, which is why `Forward` counts it. `RetryAfter` is a rounded-up
  division, so after that wait a whole token is there.
* *Guesses.* The account is the wrong passwords so far plus those still `Possible` before the next
  refill: while the bucket has tokens, these and one for every thread but the last, and
  when it has none, the passwords that passed their peek already. Neither a peek nor a charge
  raises it, and a token that is refilled raises it by no more than the threads there are.
* *Seats.* `FlattenPlaces` says where the elements of a sequence of sequences end up in the
  flattened one: at the sum of the lengths before. Twice applied (`RowsArePlaced`,
  `SeatsArePlaced`) it gives the row and number of every seat. Rows with different labels
  then have different seats, and the seats of a tier are those between two multiples of the
  seats per row (`TierSeats`); tiers with enough letters always make a valid layout
  (`TiersAreValid`), so `expand` refuses none.
* *Search.* A run of `_runs` is at least `quantity` long exactly when nothing parts the last
  `quantity` seats (`RunsAreJoined`). The seats of a row keep the order of the query
  (`OnlyPicks`), so groups sit together, and seats that are next to each other in the query
  are so in their row, whose groups include them (`NeighboursAreAGroup`). Two groups never
  begin with the same seat (`GroupsDiffer`): there are finitely many, and the sort key orders
  them strictly (`GroupsAreOrdered`). The number of better groups is then one-to-one
  from the groups to their places in the list (`PlacesInOrder`), so whatever the limit cuts off
  comes after all that is shown.

### Model-checked only

The three liveness properties: they are out of the prover's reach, fairness and
`ENABLED` included. Every other property that a passing run checks is stated by a theorem.

## 4. Inventory of the system

| Component | State | Operations | What is hard | What makes it correct | Modelled |
| --- | --- | --- | --- | --- | --- |
| Seat holds (`routers/seats.py`, `core/redis_client.py`) | Redis key per seat, `seats` row | list with sweep, hold, release | two stores written one after the other; TTL against slow handlers | a lock is lost by its owner or time; old reads never take back a sale | yes |
| Direct booking (`routers/bookings.py`, `services/locking_strategies.py`) | `seats`, `bookings` | book, cancel | claim from a stale read, two strategies | one sale per seat; charged as quoted | yes |
| Checkout (`routers/payments.py`, `services/payments.py`, `workers/reconcile_payments.py`) | `payments`, the gateway's sessions | checkout, webhook, simulate, poll, reconcile | dual write with Stripe, duplicates, late answers | one payment in flight per seat; a sale by payment belongs to a completed session | yes |
| Group bookings (`services/groups.py`, `routers/group_bookings.py`) | `group_bookings`, `group_shares` | create, claim a share, pay, cancel, expire | confirm against expire on one row lock; ignores single holds | all seats or none; a share paid into a dead group is refunded | yes |
| Tickets (`workers/worker.py`, `workers/job_queue.py`, `workers/retry_pending_tickets.py`, `routers/cron.py`) | `ticket_status`, token, the ARQ queue, files | enqueue, generate, retry, download | at-least-once jobs, enqueue before commit | a confirmed booking gets its ticket; an issued ticket scans | yes |
| Check-in (`routers/checkin.py`) | `checked_in_at`, `check_ins` | scan | one conditional UPDATE against cancellations | a ticket admits once | yes |
| Idempotency keys (`core/idempotency.py`) | Redis claim and result | claim, store, abort | a claim that expires under its handler | a replay is the attempt's own booking | yes |
| Admission (`main.py`, `core/database.py`) | semaphore, threads, pool | enter, leave | pool smaller than the number of waiting requests | nobody waits for a connection for ever | yes |
| Rate limits (`core/rate_limit.py`) | token bucket in Redis | take, peek | clocks, buckets shared between limits | never more than capacity plus refill | yes |
| Sessions (`core/auth.py`, `routers/auth.py`, `api.js`) | refresh keys in Redis, cookies | login, refresh, logout, logout-all | check-then-revoke, scan against creation | one token per login; logout-all leaves none | yes |
| Seat broadcast (`realtime/`, `BookingContext.jsx`, `useWebSocket.js`) | sockets, channel, the client's map | publish after commit, apply | messages overtake each other; no version is compared | the map converges to the table | partly: without the numbers of a pricing message |
| Dynamic pricing (`services/pricing.py`) | none | price of a seat | clamping, rounding | monotone in demand, bounded | yes |
| Layout, seat search, forecast (`services/`) | none | parse and number rows, find adjacent seats, project | off-by-one at aisles and ends | results are adjacent, in one row, available | yes |
| Schema (`core/models.py`) | tables | | partial unique indexes | | partly: no users and events |
| Event administration (`routers/organizer.py`, `routers/events.py`) | `events`, `seats` | create, publish, update, delete | count then delete | no confirmed booking is deleted | partly: creation's seats, forecast |
| Admin, search endpoint, AI, poster, schemas | none shared | reads, external calls | | | no |
| Frontend pages, migrations, scripts, deployment, load tests | | | | | no |

Interactions: holds, direct bookings, checkout and groups share the `seats` rows
and the Redis locks and know of each other only through them. After a commit a
handler publishes a broadcast and enqueues a ticket job; neither is part of the
transaction, and neither feeds back into seats, bookings or payments. The
reconciliation, the tick and the ticket retry run in processes of their own.
Check-in reads what booking wrote. Every endpoint passes the admission first and
holds its slot, thread and connection together.

`PROJECT.json` lists the hazards at their lines with the properties about them.

### Not modelled

* *Administration, search listing, AI, posters, wire formats*: reads, external calls and
  formats without shared state.
* *Updating and deleting events, statistics, listings.* A deletion in cascade needs rows
  that disappear under every other module's names, for one check-then-act that is
  described above.
* *Registration, passwords, roles, signatures of tokens and webhooks*: a model would only
  say that a check refuses what it refuses.
* *PDFs, mail, the outbox*: output. Of a ticket's file the printed token is kept.
* *Pages, migrations, scripts, deployment, load tests*: presentation and one-off jobs.
* *A Redis that loses keys, a Postgres that loses commits*: the code has no answer to
  either, except that rate limits and broadcasts do without Redis.

## 5. What is left

* Event deletion, with rows that disappear.
* Groups with the other customers' handlers step by step instead of as one step.

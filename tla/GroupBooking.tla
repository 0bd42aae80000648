---------------------------- MODULE GroupBooking ----------------------------
(***************************************************************************)
(* Buying seats as a group: services/groups.py, routers/group_bookings.py, *)
(* the group branch of payments.py and the expiry of the cron tick.  A     *)
(* worker runs one invocation of a handler at a time.  A payment's gateway *)
(* session may complete or end at any time; its event is delivered until a *)
(* handler has answered it and may be delivered again at any time, which   *)
(* covers the mock gateway's simulate endpoint too.  Other customers take  *)
(* part with a direct booking and with a sweep of lapsed holds that is     *)
(* under way; SeatBooking has their handlers step by step.                 *)
(***************************************************************************)
EXTENDS SeatStore, Sequences

CONSTANTS
  Creator,     \* users who create groups
  Selection,   \* seat_ids they ask for, sequences without duplicates
  Swept,       \* seats a running sweep has found lapsed
  Rival,       \* names for direct bookings of other customers
  Worker,      \* concurrent invocations
  Group,       \* names for the groups that may be created
  MaxPayments, \* bound on the payments for shares
  GroupTTL     \* deadline_minutes, in ticks

ASSUME GroupAssumption ==
  /\ Creator \subseteq User /\ Swept \subseteq Seat /\ Rival \subseteq BookingId
  /\ \A sel \in Selection : sel # <<>> /\ sel \in [1..Len(sel) -> Seat]
  /\ Group \X Seat \subseteq BookingId /\ (Group \X Seat) \cap Rival = {}
  /\ MaxPayments \in Nat
  /\ GroupTTL \in Nat \ {0}
  /\ None \notin Group

\* Payment ids are serial.
Pay == 1..MaxPayments

VARIABLES
  groups,     \* the group_bookings table
  shares,     \* the group_shares table, one row per group and seat
  payments,   \* the payments table, those with a group_share_id
  gateway,    \* the gateway's own state of each checkout session
  work,       \* per worker: where it is and what it has read
  sweep       \* seats the sweep under way will free

tableVars == <<storeVars, groups, shares, payments>>
vars == <<tableVars, gateway, work, sweep>>

GroupRow == [status: {"none", "collecting", "confirmed", "expired", "cancelled"},
             expires_at: Nat]
NoGroup == [status |-> "none", expires_at |-> 0]

ShareRow == [status: {"none", "unpaid", "paid", "refunded"}, amount: Nat,
             claimed_by: User \cup {None}, payment: Pay \cup {None},
             booking: BookingId \cup {None}]
NoShare == [status |-> "none", amount |-> 0, claimed_by |-> None,
            payment |-> None, booking |-> None]

SharePayment == [status: {"none", "pending", "succeeded", "failed", "expired", "refunded"},
                 group: Group \cup {None}, seat: Seat \cup {None},
                 booking: BookingId \cup {None}, expires_at: Nat]
NoPayment == [status |-> "none", group |-> None, seat |-> None,
              booking |-> None, expires_at |-> 0]

WorkLabel == {"idle", "claim", "pay", "fulfil", "mark", "confirm", "fail", "fail_release"}

Job == [pc: WorkLabel, user: User \cup {None}, group: Group \cup {None},
        seat: Seat \cup {None}, payment: Pay \cup {None},
        seen: {"none", "unpaid", "paid", "refunded", "pending", "succeeded",
               "failed", "expired"}]   \* status of the row that was loaded

Free == [pc |-> "idle", user |-> None, group |-> None, seat |-> None,
         payment |-> None, seen |-> "none"]

\* Sessions the customer went through with; of "acked" the gateway has had
\* its event answered.
Completed == {"paid", "acked"}

GroupTypeOK ==
  /\ StoreTypeOK
  /\ groups \in [Group -> GroupRow]
  /\ shares \in [Group \X Seat -> ShareRow]
  /\ payments \in [Pay -> SharePayment]
  /\ gateway \in [Pay -> {"none", "open", "expired"} \cup Completed]
  /\ work \in [Worker -> Job]
  /\ sweep \subseteq Seat

GroupInit ==
  /\ seats = [s \in Seat |-> IF s \in Swept
                 THEN [FreshSeat EXCEPT !.status = "locked", !.version = 1, !.locked_until = 0]
                 ELSE FreshSeat]
  /\ locks = [s \in Seat |-> Unlocked]
  /\ bookings = [b \in BookingId |-> NoBooking]
  /\ sweep = Swept
  /\ groups = [g \in Group |-> NoGroup]
  /\ shares = [x \in Group \X Seat |-> NoShare]
  /\ payments = [p \in Pay |-> NoPayment]
  /\ gateway = [p \in Pay |-> "none"]
  /\ work = [w \in Worker |-> Free]

----------------------------------------------------------------------------

Doing(w, label) == work[w].pc = label
Move(w, label) == work' = [work EXCEPT ![w].pc = label]
Return(w) == work' = [work EXCEPT ![w] = Free]
Start(w, job) == Doing(w, "idle") /\ work' = [work EXCEPT ![w] = job]

Members(g) == {s \in Seat : shares[<<g, s>>].status # "none"}
Mine(g, u) == {s \in Members(g) : shares[<<g, s>>].claimed_by = u}

----------------------------------------------------------------------------
(* POST /groups                                                            *)

NewShare(s, u, first) ==
  [NoShare EXCEPT !.status = "unpaid", !.amount = PriceNow(seats[s]),
                  !.claimed_by = IF s = first THEN u ELSE None]

\* create_group: all seats or none, in one transaction.  A seat only has to
\* be available or in somebody's hold; whose hold, and the lock in Redis, are
\* not looked at.  The price, quoted just before, is frozen in the share.
CreateGroup(u, sel) ==
  LET S == {sel[i] : i \in DOMAIN sel} IN
  /\ \A s \in S : seats[s].status \in Lockable
  /\ \E g \in Group :
       /\ groups[g].status = "none"
       /\ groups' = [groups EXCEPT ![g] = [status |-> "collecting", expires_at |-> GroupTTL]]
       /\ shares' = [x \in Group \X Seat |->
                       IF x[1] = g /\ x[2] \in S THEN NewShare(x[2], u, Head(sel)) ELSE shares[x]]
  /\ seats' = [s \in Seat |-> IF s \in S
                 THEN [FreedRow(seats[s]) EXCEPT !.status = "group_held"] ELSE seats[s]]
  /\ UNCHANGED <<locks, bookings, payments, gateway, work>>

----------------------------------------------------------------------------
(* POST /groups/{token}/shares/{id}/claim                                  *)

ClaimRead(w, u, g, s) ==
  /\ groups[g].status = "collecting" /\ s \in Members(g)
  /\ Mine(g, u) = {}
  /\ Start(w, [Free EXCEPT !.pc = "claim", !.user = u, !.group = g, !.seat = s])
  /\ UNCHANGED <<tableVars, gateway>>

\* The conditional UPDATE: neither the group nor the user's other shares are
\* looked at again.
ClaimUpdate(w) ==
  LET x == <<work[w].group, work[w].seat>> IN
  /\ Doing(w, "claim")
  /\ shares' = IF shares[x].claimed_by = None
                 THEN [shares EXCEPT ![x].claimed_by = work[w].user] ELSE shares
  /\ Return(w)
  /\ UNCHANGED <<storeVars, groups, payments, gateway>>

----------------------------------------------------------------------------
(* POST /groups/{token}/shares/{id}/pay                                    *)

PendingOn(s) == {p \in Pay : payments[p].status = "pending" /\ payments[p].seat = s}

\* A live pending payment of the share is returned as it is.
PayRead(w, u, g, s) ==
  /\ groups[g].status = "collecting" /\ groups[g].expires_at # 0
  /\ shares[<<g, s>>].claimed_by = u /\ shares[<<g, s>>].status = "unpaid"
  /\ ~\E p \in PendingOn(s) : payments[p].group = g /\ payments[p].expires_at # 0
  /\ Start(w, [Free EXCEPT !.pc = "pay", !.user = u, !.group = g, !.seat = s])
  /\ UNCHANGED <<tableVars, gateway>>

\* The session and the INSERT.  The group is not looked at again; an expired
\* payment that is still pending makes the unique index refuse the row.  Past
\* the last id (a bound of the model) nothing is inserted either.
PayCommit(w) ==
  LET g == work[w].group
      s == work[w].seat
      left == groups[g].expires_at
  IN
  /\ Doing(w, "pay")
  /\ \/ /\ PendingOn(s) = {}
        /\ \E p \in Pay :
             /\ \A q \in Pay : payments[q].status = "none" <=> q >= p
             /\ payments' = [payments EXCEPT ![p] =
                  [status |-> "pending", group |-> g, seat |-> s,
                   booking |-> None, expires_at |-> IF left < PaymentTTL THEN left ELSE PaymentTTL]]
             /\ gateway' = [gateway EXCEPT ![p] = "open"]
     \/ /\ PendingOn(s) # {} \/ payments[MaxPayments].status # "none"
        /\ UNCHANGED <<payments, gateway>>
  /\ Return(w)
  /\ UNCHANGED <<storeVars, groups, shares>>

----------------------------------------------------------------------------
(* The gateway, as far as the code relies on it.                           *)

CustomerPays(p) ==
  /\ gateway[p] = "open"
  /\ gateway' = [gateway EXCEPT ![p] = "paid"]
  /\ UNCHANGED <<tableVars, work>>

SessionEnds(p) ==
  /\ gateway[p] = "open"
  /\ gateway' = [gateway EXCEPT ![p] = "expired"]
  /\ UNCHANGED <<tableVars, work>>

\* The payment is settled and its event answered: it need not come again.
Acknowledge(w) ==
  gateway' = [gateway EXCEPT ![work[w].payment] = IF @ = "paid" THEN "acked" ELSE @]

----------------------------------------------------------------------------
(* Who settles a share's payment.                                          *)

Load(w, p, label) ==
  Start(w, [Free EXCEPT !.pc = label, !.payment = p, !.group = payments[p].group,
                        !.seat = payments[p].seat, !.seen = payments[p].status])

\* Mutant: succeeded alone makes _fulfil return early.
DeliveredOnceSucceeded(p) == payments[p].status = "succeeded"

\* The early return of _fulfil needs a booking, which a share's payment only
\* gets when its group is confirmed.
Delivered(p) == payments[p].status = "succeeded" /\ payments[p].booking # None

EventRead(w, p) ==
  /\ \/ gateway[p] \in Completed /\ ~Delivered(p) /\ Load(w, p, "fulfil") /\ UNCHANGED gateway
     \/ /\ gateway[p] = "paid" /\ Delivered(p) /\ Doing(w, "idle")
        /\ gateway' = [gateway EXCEPT ![p] = "acked"] /\ UNCHANGED work
     \/ /\ gateway[p] = "expired" /\ payments[p].status = "pending"
        /\ Load(w, p, "fail") /\ UNCHANGED gateway
  /\ UNCHANGED tableVars

\* Mutant: reconciliation takes an overdue payment for paid.
OverdueReadAsPaid(w, p) ==
  /\ payments[p].status = "pending" /\ payments[p].expires_at = 0
  /\ Load(w, p, "fulfil")
  /\ UNCHANGED <<tableVars, gateway>>

\* get_payment fails an overdue payment unasked, reconcile asks the gateway.
OverdueRead(w, p) ==
  /\ payments[p].status = "pending" /\ payments[p].expires_at = 0
  /\ Load(w, p, "fail") \/ (gateway[p] \in Completed /\ Load(w, p, "fulfil"))
  /\ UNCHANGED <<tableVars, gateway>>

\* The group branch of _fulfil: the status is written unless it was loaded
\* as succeeded, and committed; then mark_share_paid loads the share, before
\* it has the group's row.
FulfilShare(w) ==
  LET p == work[w].payment IN
  /\ Doing(w, "fulfil")
  /\ payments' = IF work[w].seen = "succeeded" THEN payments
                 ELSE [payments EXCEPT ![p].status = "succeeded", ![p].expires_at = 0]
  /\ work' = [work EXCEPT ![w].pc = "mark",
                          ![w].seen = shares[<<work[w].group, work[w].seat>>].status]
  /\ UNCHANGED <<storeVars, groups, shares, gateway>>

\* Mutant: the group's status is not looked at under its row lock.
MarkShareUnchecked(w) ==
  LET p == work[w].payment
      x == <<work[w].group, work[w].seat>>
  IN
  /\ Doing(w, "mark")
  /\ shares' = IF work[w].seen = "unpaid"
                 THEN [shares EXCEPT ![x].status = "paid", ![x].payment = p]
                 ELSE shares
  /\ Move(w, "confirm")
  /\ UNCHANGED <<storeVars, groups, payments, gateway>>

\* Under FOR UPDATE the group is up to date, the share is as it was loaded.
MarkShare(w) ==
  LET p == work[w].payment
      g == work[w].group
      x == <<work[w].group, work[w].seat>>
  IN
  /\ Doing(w, "mark")
  /\ \/ /\ groups[g].status = "collecting"
        /\ shares' = IF work[w].seen = "unpaid"
                       THEN [shares EXCEPT ![x].status = "paid", ![x].payment = p]
                       ELSE shares
        /\ Move(w, "confirm")
        /\ UNCHANGED <<payments, gateway>>
     \/ /\ groups[g].status # "collecting"
        /\ shares' = [shares EXCEPT ![x].status = "refunded"]
        /\ payments' = [payments EXCEPT ![p].status = "refunded"]
        /\ Acknowledge(w) /\ Return(w)
  /\ UNCHANGED <<storeVars, groups>>

EverybodyPaid(g) == \A s \in Members(g) : shares[<<g, s>>].status # "unpaid"

\* _try_confirm: the decision, the bookings, the seats and the payments in
\* one transaction, which the unique index on bookings may refuse.
Confirm(w) ==
  LET g == work[w].group
      S == Members(g)
      won == EverybodyPaid(g) /\ groups[g].status = "collecting"
      paying == {shares[<<g, s>>].payment : s \in S} \ {None}
  IN
  /\ Doing(w, "confirm")
  /\ \/ /\ won /\ \A s \in S : IndexAdmits(s)
        /\ groups' = [groups EXCEPT ![g].status = "confirmed", ![g].expires_at = 0]
        /\ shares' = [x \in Group \X Seat |-> IF x[1] = g /\ x[2] \in S
                        THEN [shares[x] EXCEPT !.booking = x] ELSE shares[x]]
        /\ bookings' = [b \in BookingId |-> IF b \in {<<g, s>> : s \in S}
                          THEN [user |-> shares[b].claimed_by, seat |-> b[2],
                                status |-> "confirmed", amount |-> shares[b].amount]
                          ELSE bookings[b]]
        /\ seats' = [s \in Seat |-> IF s \in S
                       THEN [seats[s] EXCEPT !.status = "booked", !.version = @ + 1]
                       ELSE seats[s]]
        /\ payments' = [p \in Pay |-> IF p \in paying
                          THEN [payments[p] EXCEPT !.booking = <<g, payments[p].seat>>]
                          ELSE payments[p]]
        /\ Acknowledge(w)
     \/ /\ won /\ ~\A s \in S : IndexAdmits(s)
        /\ UNCHANGED <<groups, shares, bookings, seats, payments, gateway>>
     \/ /\ ~won /\ Acknowledge(w)
        /\ UNCHANGED <<groups, shares, bookings, seats, payments>>
  /\ Return(w)
  /\ UNCHANGED locks

\* _fail, past its check that the payment was loaded as pending.
FailShare(w) ==
  LET s == work[w].seat IN
  /\ Doing(w, "fail")
  /\ payments' = [payments EXCEPT ![work[w].payment].status = "failed",
                                ![work[w].payment].expires_at = 0]
  /\ IF seats[s].status = "payment_pending" THEN SetRow(s, CancelledRow(seats[s]))
                                            ELSE UNCHANGED seats
  /\ Move(w, "fail_release")
  /\ UNCHANGED <<locks, bookings, groups, shares, gateway>>

FailRelease(w) ==
  /\ Doing(w, "fail_release")
  /\ Release(work[w].seat, shares[<<work[w].group, work[w].seat>>].claimed_by)
  /\ Return(w)
  /\ UNCHANGED <<seats, bookings, groups, shares, payments, gateway>>

----------------------------------------------------------------------------
(* break_group: the creator's cancellation, and the expiry of the cron     *)
(* tick.  Both have read the group before, but a due group stays due and   *)
(* the UPDATE decides.                                                     *)

\* Mutant: the seats are left as they are.
BreakKeepsSeats(g, reason) ==
  /\ groups[g].status = "collecting"
  /\ groups' = [groups EXCEPT ![g].status = reason, ![g].expires_at = 0]
  /\ shares' = [x \in Group \X Seat |-> IF x[1] = g /\ shares[x].status = "paid"
                  THEN [shares[x] EXCEPT !.status = "refunded"] ELSE shares[x]]
  /\ payments' = [p \in Pay |-> IF payments[p].group = g /\ payments[p].status = "pending"
                    THEN [payments[p] EXCEPT !.status = "expired", !.expires_at = 0] ELSE payments[p]]
  /\ UNCHANGED seats

\* Paid shares are refunded, pending payments closed, and the seats freed
\* that are in the hold of a group.
Break(g, reason) ==
  LET refunded == {p \in Pay : \E s \in Members(g) :
                     shares[<<g, s>>].status = "paid" /\ shares[<<g, s>>].payment = p}
  IN
  /\ groups[g].status = "collecting"
  /\ groups' = [groups EXCEPT ![g].status = reason, ![g].expires_at = 0]
  /\ shares' = [x \in Group \X Seat |-> IF x[1] = g /\ shares[x].status = "paid"
                  THEN [shares[x] EXCEPT !.status = "refunded"] ELSE shares[x]]
  /\ payments' = [p \in Pay |->
       IF p \in refunded THEN [payments[p] EXCEPT !.status = "refunded"]
       ELSE IF payments[p].group = g /\ payments[p].status = "pending"
            THEN [payments[p] EXCEPT !.status = "expired", !.expires_at = 0]
            ELSE payments[p]]
  /\ seats' = [s \in Seat |-> IF s \in Members(g) /\ seats[s].status = "group_held"
                 THEN FreedRow(seats[s]) ELSE seats[s]]

CancelGroup(g) == Break(g, "cancelled") /\ UNCHANGED <<locks, bookings, gateway, work>>

\* expire_due_groups: every group is a transaction of its own.
ExpireGroup(g) ==
  /\ groups[g].expires_at = 0
  /\ Break(g, "expired")
  /\ UNCHANGED <<locks, bookings, gateway, work>>

----------------------------------------------------------------------------

\* The process dies, or the transaction is rolled back by Postgres.
GroupCrash(w) ==
  /\ ~Doing(w, "idle")
  /\ Return(w)
  /\ UNCHANGED <<tableVars, gateway>>

Arrive(w) ==
  \/ \E u \in User, g \in Group, s \in Seat : ClaimRead(w, u, g, s) \/ PayRead(w, u, g, s)
  \/ \E p \in Pay : EventRead(w, p) \/ OverdueRead(w, p)

Continue(w) ==
  \/ ClaimUpdate(w) \/ PayCommit(w)
  \/ FulfilShare(w) \/ MarkShare(w) \/ Confirm(w)
  \/ FailShare(w) \/ FailRelease(w)

\* release_expired_locks writes by id what it read as lapsed before.
SweepUpdate ==
  /\ sweep # {} /\ sweep' = {}
  /\ seats' = [s \in Seat |-> IF s \in sweep THEN FreedRow(seats[s]) ELSE seats[s]]
  /\ UNCHANGED <<locks, bookings, groups, shares, payments, gateway, work>>

\* _perform_booking as a whole.
RivalBooks(b, u, s) ==
  /\ bookings[b] = NoBooking
  /\ seats[s].status \in Lockable /\ locks[s].owner \in {None, u} /\ IndexAdmits(s)
  /\ SetRow(s, BookedRow(seats[s]))
  /\ InsertBooking(b, u, s, PriceNow(seats[s]))
  /\ Release(s, u)
  /\ UNCHANGED <<groups, shares, payments, gateway, work, sweep>>

GroupTick ==
  /\ \/ TimerRuns
     \/ \E g \in Group : groups[g].expires_at # 0
     \/ \E p \in Pay : payments[p].expires_at # 0
  /\ AgeStore
  /\ groups' = [g \in Group |-> [groups[g] EXCEPT !.expires_at = Aged(@)]]
  /\ payments' = [p \in Pay |-> [payments[p] EXCEPT !.expires_at = Aged(@)]]
  /\ UNCHANGED <<shares, gateway, work, sweep>>

GroupNext ==
  \/ GroupTick
  \/ SweepUpdate
  \/ \E b \in Rival, u \in User \ Creator, s \in Seat : RivalBooks(b, u, s)
  \/ /\ \/ \E u \in Creator, sel \in Selection : CreateGroup(u, sel)
        \/ \E g \in Group : CancelGroup(g) \/ ExpireGroup(g)
        \/ \E w \in Worker : Arrive(w) \/ Continue(w) \/ GroupCrash(w)
        \/ \E p \in Pay : CustomerPays(p) \/ SessionEnds(p)
     /\ UNCHANGED sweep

GroupSpec == GroupInit /\ [][GroupNext]_vars

----------------------------------------------------------------------------
(* Properties.                                                             *)

\* What the deals look like in the tables.
Deals == INSTANCE GroupDeal WITH
  outcome <- [g \in Group |->
    IF groups[g].status \in {"none", "collecting"} THEN groups[g].status
    ELSE IF groups[g].status = "confirmed" THEN "made" ELSE "broken"],
  members <- [g \in Group |-> Members(g)],
  paid <- [g \in Group |-> {s \in Members(g) : shares[<<g, s>>].status = "paid"}],
  booked <- [g \in Group |-> {s \in Members(g) : bookings[<<g, s>>].status # "none"}]

\* "The rule is all or nothing: dissolve the group, release the seats, refund
\* the three who paid" (services/groups.py): whatever the last payment, the
\* expiry job and the creator do at once, one of them decides, all seats are
\* booked or none, and a dissolved group keeps nobody's money.
ImplementsGroupDeal == Deals!DealSpec

\* A share counts as paid only by a session its customer completed, although
\* the share, the payment and the session are three records written apart.
PaidShareWasCompleted ==
  \A x \in Group \X Seat : shares[x].status = "paid" => gateway[shares[x].payment] \in Completed

\* A seat held for a group is a share of a group that still collects: only
\* the group's end gives such a seat back, it has no expiry of its own.
GroupHoldHasGroup ==
  \A s \in Seat : seats[s].status = "group_held" =>
    \E g \in Group : groups[g].status = "collecting" /\ s \in Members(g)

\* A payment that went through is not lost when the handler dies between the
\* commit of SUCCEEDED and mark_share_paid: its event is not answered, and so
\* delivered again, until the share is paid or refunded.
AnsweredPaymentLanded ==
  \A p \in Pay : gateway[p] = "acked" =>
    shares[<<payments[p].group, payments[p].seat>>].status \in {"paid", "refunded"}
=============================================================================

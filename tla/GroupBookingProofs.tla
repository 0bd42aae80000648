------------------------- MODULE GroupBookingProofs -------------------------
(***************************************************************************)
(* Theorems about GroupBooking, for any users, seats, groups, selections,  *)
(* workers, rivals, payments, times to live and prices.                    *)
(***************************************************************************)
EXTENDS GroupBooking, SeatStoreProofs, FiniteSetTheorems, TLAPS

Share == Group \X Seat
Due == {"paid", "refunded"}
Settling == {"fulfil", "mark", "confirm", "fail", "fail_release"}

\* The share a payment is for.
ShareOf(p) == <<payments[p].group, payments[p].seat>>

\* What an invocation knows, of the tables as it left them: a share it works
\* on, a payment for it, that the payment was completed, and that the share is
\* not unpaid any more.
JobOK(job, sh, pay, gw) ==
  /\ job.pc \in {"claim", "pay"} \cup Settling =>
       job.group \in Group /\ job.seat \in Seat /\ sh[<<job.group, job.seat>>].status # "none"
  /\ job.pc \in {"claim", "pay"} => job.user \in User
  /\ job.pc \in Settling =>
       /\ job.payment \in Pay /\ pay[job.payment].status # "none"
       /\ pay[job.payment].group = job.group /\ pay[job.payment].seat = job.seat
  /\ job.pc \in {"fulfil", "mark", "confirm"} => gw[job.payment] \in Completed
  /\ (job.pc = "mark" /\ job.seen # "unpaid") \/ job.pc = "confirm" =>
       sh[<<job.group, job.seat>>].status \in Due

JobsInv == \A w \in Worker : JobOK(work[w], shares, payments, gateway)

\* A payment that exists is for a share; once it has a booking or its event
\* was answered, that share is paid or refunded.
PaymentOK(p) ==
  /\ payments[p].status = "none" => gateway[p] = "none"
  /\ payments[p].status # "none" =>
       ShareOf(p) \in Share /\ shares[ShareOf(p)].status # "none"
  /\ payments[p].booking # None =>
       payments[p].status # "none" /\ shares[ShareOf(p)].status \in Due
  /\ gateway[p] = "acked" => shares[ShareOf(p)].status \in Due

PaymentsInv == \A p \in Pay : PaymentOK(p)

\* A share belongs to a group; its status, its payment and its booking are in
\* step with what became of the group.
ShareOK(g, s) ==
  LET row == shares[<<g, s>>] IN
  /\ row.status # "none" => groups[g].status # "none"
  /\ groups[g].status = "collecting" => row.status # "refunded"
  /\ groups[g].status \in {"expired", "cancelled"} => row.status # "paid"
  /\ bookings[<<g, s>>].status # "none" => groups[g].status = "confirmed"
  /\ row.payment # None =>
       payments[row.payment].status # "none" /\ ShareOf(row.payment) = <<g, s>>
  /\ row.status = "paid" => row.payment # None /\ gateway[row.payment] \in Completed

SharesInv == \A g \in Group, s \in Seat : ShareOK(g, s)

GroupInv ==
  /\ GroupTypeOK /\ JobsInv /\ PaymentsInv /\ SharesInv
  /\ GroupHoldHasGroup /\ OneConfirmedBookingPerSeat

----------------------------------------------------------------------------
(* Rows and what every step keeps of them.                                 *)

LEMMA ShareUpdates ==
  ASSUME NEW row \in ShareRow
  PROVE  /\ LET r == [row EXCEPT !.status = "refunded"] IN
            r \in ShareRow /\ r.status = "refunded" /\ r.payment = row.payment
         /\ \A p \in Pay : LET r == [row EXCEPT !.status = "paid", !.payment = p] IN
            r \in ShareRow /\ r.status = "paid" /\ r.payment = p
         /\ \A u \in User : LET r == [row EXCEPT !.claimed_by = u] IN
            r \in ShareRow /\ r.status = row.status /\ r.payment = row.payment
         /\ \A b \in BookingId : LET r == [row EXCEPT !.booking = b] IN
            r \in ShareRow /\ r.status = row.status /\ r.payment = row.payment
BY DEF ShareRow

LEMMA PaymentUpdates ==
  ASSUME NEW row \in SharePayment
  PROVE  /\ LET r == [row EXCEPT !.status = "refunded"] IN
            /\ r \in SharePayment /\ r.status = "refunded" /\ r.group = row.group
            /\ r.seat = row.seat /\ r.booking = row.booking
         /\ \A st \in {"succeeded", "failed", "expired"} :
            LET r == [row EXCEPT !.status = st, !.expires_at = 0] IN
            /\ r \in SharePayment /\ r.status = st /\ r.group = row.group
            /\ r.seat = row.seat /\ r.booking = row.booking
         /\ \A b \in BookingId : LET r == [row EXCEPT !.booking = b] IN
            /\ r \in SharePayment /\ r.status = row.status /\ r.group = row.group
            /\ r.seat = row.seat /\ r.booking = b
BY DEF SharePayment

\* The tables only grow, shares are paid and refunded for good, and so is a
\* completed session.
Kept ==
  /\ \A x \in Share : /\ shares[x].status # "none" => shares'[x].status # "none"
                      /\ shares[x].status \in Due => shares'[x].status \in Due
  /\ \A p \in Pay : payments[p].status # "none" =>
       /\ payments'[p].status # "none"
       /\ payments'[p].group = payments[p].group /\ payments'[p].seat = payments[p].seat
  /\ \A p \in Pay : gateway[p] \in Completed => gateway'[p] \in Completed

LEMMA JobKept ==
  ASSUME Kept, NEW job, JobOK(job, shares, payments, gateway)
  PROVE  JobOK(job, shares', payments', gateway')
BY DEF Kept, JobOK, Share, Settling

\* One invocation moves, the others keep what they know.
LEMMA JobsMove ==
  ASSUME work \in [Worker -> Job], JobsInv, Kept, NEW w \in Worker, NEW job \in Job,
         work' = [work EXCEPT ![w] = job], JobOK(job, shares', payments', gateway')
  PROVE  work' \in [Worker -> Job] /\ JobsInv'
<1>1. \A v \in Worker : work'[v] = IF v = w THEN job ELSE work[v]
  OBVIOUS
<1>2. ASSUME NEW v \in Worker PROVE JobOK(work'[v], shares', payments', gateway')
  BY <1>1, JobKept DEF JobsInv
<1> QED
  BY <1>2 DEF JobsInv

LEMMA JobsStay ==
  ASSUME JobsInv, Kept, work' = work
  PROVE  JobsInv'
BY JobKept DEF JobsInv

LEMMA FreeJob == Free \in Job /\ JobOK(Free, shares, payments, gateway)
BY DEF Free, Job, WorkLabel, JobOK, Settling

LEMMA JobReturns ==
  ASSUME work \in [Worker -> Job], JobsInv, Kept, NEW w \in Worker, Return(w)
  PROVE  work' \in [Worker -> Job] /\ JobsInv'
<1>1. Free \in Job /\ JobOK(Free, shares', payments', gateway')
  BY DEF Free, Job, WorkLabel, JobOK, Settling
<1> QED
  BY <1>1, JobsMove DEF Return

\* A step that decides nothing: no group, share or sale changes its state, a
\* session may be completed, and an event is answered whose share is settled.
Quiet ==
  /\ \A g \in Group : groups'[g].status = groups[g].status
  /\ \A x \in Share : /\ shares'[x].status = shares[x].status
                      /\ shares'[x].payment = shares[x].payment
  /\ \A p \in Pay :
       /\ payments'[p].status = "none" <=> payments[p].status = "none"
       /\ payments'[p].group = payments[p].group /\ payments'[p].seat = payments[p].seat
       /\ payments'[p].booking = payments[p].booking
       /\ gateway[p] = "none" => gateway'[p] = "none"
       /\ gateway[p] \in Completed => gateway'[p] \in Completed
       /\ gateway'[p] = "acked" => gateway[p] = "acked" \/ shares[ShareOf(p)].status \in Due
  /\ \A s \in Seat : seats'[s].status = "group_held" => seats[s].status = "group_held"
  /\ bookings' = bookings

LEMMA QuietKeeps == Quiet => Kept
BY DEF Quiet, Kept

LEMMA QuietOK ==
  ASSUME GroupInv, Quiet, GroupTypeOK', JobsInv'
  PROVE  GroupInv'
<1>0. /\ PaymentsInv /\ SharesInv /\ GroupHoldHasGroup /\ OneConfirmedBookingPerSeat
  BY DEF GroupInv
<1>1. ASSUME NEW p \in Pay PROVE PaymentOK(p)'
  <2>1. PaymentOK(p) /\ ShareOf(p)' = ShareOf(p)
    BY <1>0 DEF PaymentsInv, Quiet, ShareOf
  <2>2. payments[p].status # "none" =>
          ShareOf(p) \in Share /\ shares'[ShareOf(p)].status = shares[ShareOf(p)].status
    BY <2>1 DEF PaymentOK, Quiet
  <2>3. gateway'[p] = "acked" => payments[p].status # "none" /\ shares[ShareOf(p)].status \in Due
    BY <2>1 DEF PaymentOK, Quiet
  <2> HIDE DEF ShareOf
  <2> QED
    BY <2>1, <2>2, <2>3 DEF PaymentOK, Quiet
<1>2. ASSUME NEW g \in Group, NEW s \in Seat PROVE ShareOK(g, s)'
  <2>1. ShareOK(g, s) /\ <<g, s>> \in Share /\ shares[<<g, s>>].payment \in Pay \cup {None}
    BY <1>0 DEF SharesInv, GroupInv, GroupTypeOK, ShareRow, Share
  <2>2. \A p \in Pay : ShareOf(p)' = ShareOf(p)
    BY DEF Quiet, ShareOf
  <2> HIDE DEF ShareOf
  <2> QED
    BY <2>1, <2>2 DEF ShareOK, Quiet
<1>3. GroupHoldHasGroup'
  <2> SUFFICES ASSUME NEW s \in Seat, seats'[s].status = "group_held"
               PROVE  \E g \in Group : groups'[g].status = "collecting" /\ s \in Members(g)'
    BY DEF GroupHoldHasGroup
  <2>1. PICK g \in Group : groups[g].status = "collecting" /\ s \in Members(g)
    BY <1>0 DEF GroupHoldHasGroup, Quiet
  <2>2. s \in Members(g)'
    BY <2>1 DEF Members, Quiet, Share
  <2> QED
    BY <2>1, <2>2 DEF Quiet
<1>4. OneConfirmedBookingPerSeat'
  BY <1>0 DEF Quiet, OneConfirmedBookingPerSeat
<1> QED
  BY <1>1, <1>2, <1>3, <1>4 DEF GroupInv, PaymentsInv, SharesInv

----------------------------------------------------------------------------
(* Reading, claiming, paying at the gateway and giving up.                 *)

LEMMA ReadOK ==
  ASSUME GroupInv, NEW w \in Worker, Arrive(w), UNCHANGED sweep
  PROVE  GroupInv' /\ Quiet
<1> USE DEF tableVars, storeVars
<1>0. GroupTypeOK /\ JobsInv /\ PaymentsInv /\ work \in [Worker -> Job]
  BY DEF GroupInv, GroupTypeOK
<1>1. ASSUME NEW job \in Job, JobOK(job, shares, payments, gateway),
             work' = [work EXCEPT ![w] = job], UNCHANGED <<tableVars, gateway>>
      PROVE  GroupInv' /\ Quiet
  <2>1. Quiet
    BY <1>1 DEF Quiet
  <2>2. Kept /\ JobOK(job, shares', payments', gateway')
    BY <1>1, <2>1, QuietKeeps
  <2>3. work' \in [Worker -> Job] /\ JobsInv'
    BY <1>0, <1>1, <2>2, JobsMove
  <2>4. GroupTypeOK'
    BY <1>0, <1>1, <2>3 DEF GroupTypeOK, StoreTypeOK
  <2> QED
    BY <2>1, <2>3, <2>4, QuietOK
<1>2. ASSUME NEW u \in User, NEW g \in Group, NEW s \in Seat, NEW label \in {"claim", "pay"},
             shares[<<g, s>>].status # "none",
             Start(w, [Free EXCEPT !.pc = label, !.user = u, !.group = g, !.seat = s]),
             UNCHANGED <<tableVars, gateway>>
      PROVE  GroupInv' /\ Quiet
  <2> DEFINE job == [Free EXCEPT !.pc = label, !.user = u, !.group = g, !.seat = s]
  <2>1. job \in Job /\ JobOK(job, shares, payments, gateway)
    BY <1>2 DEF Free, Job, WorkLabel, JobOK, Settling
  <2>2. work' = [work EXCEPT ![w] = job]
    BY <1>2 DEF Start
  <2> HIDE DEF job
  <2> QED
    BY <1>1, <1>2, <2>1, <2>2
<1>3. ASSUME NEW p \in Pay, payments[p].status # "none", NEW label \in {"fulfil", "fail"},
             label = "fulfil" => gateway[p] \in Completed,
             Load(w, p, label), UNCHANGED <<tableVars, gateway>>
      PROVE  GroupInv' /\ Quiet
  <2> DEFINE job == [Free EXCEPT !.pc = label, !.payment = p, !.group = payments[p].group,
                                 !.seat = payments[p].seat, !.seen = payments[p].status]
  <2>1. PaymentOK(p) /\ payments[p] \in SharePayment
    BY <1>0 DEF PaymentsInv, GroupTypeOK
  <2>2. job \in Job
    BY <1>3, <2>1 DEF Free, Job, WorkLabel, SharePayment
  <2>3. JobOK(job, shares, payments, gateway)
    BY <1>3, <2>1 DEF Free, JobOK, Settling, PaymentOK, ShareOf, Share
  <2>4. work' = [work EXCEPT ![w] = job]
    BY <1>3 DEF Load, Start
  <2> HIDE DEF job
  <2> QED
    BY <1>1, <1>3, <2>2, <2>3, <2>4
<1>4. ASSUME NEW u \in User, NEW g \in Group, NEW s \in Seat, ClaimRead(w, u, g, s)
      PROVE  GroupInv' /\ Quiet
  BY <1>2, <1>4 DEF ClaimRead, Members
<1>5. ASSUME NEW u \in User, NEW g \in Group, NEW s \in Seat, PayRead(w, u, g, s)
      PROVE  GroupInv' /\ Quiet
  BY <1>2, <1>5 DEF PayRead
<1>6. ASSUME NEW p \in Pay, EventRead(w, p)
      PROVE  GroupInv' /\ Quiet
  <2>1. payments[p].status = "none" => gateway[p] = "none"
    BY <1>0 DEF PaymentsInv, PaymentOK
  <2>2. CASE gateway[p] \in Completed /\ Load(w, p, "fulfil") /\ UNCHANGED gateway
    BY <1>3, <1>6, <2>1, <2>2 DEF EventRead, Completed
  <2>3. CASE gateway[p] = "expired" /\ payments[p].status = "pending" /\ Load(w, p, "fail")
             /\ UNCHANGED gateway
    BY <1>3, <1>6, <2>3 DEF EventRead
  <2>4. CASE /\ gateway[p] = "paid" /\ Delivered(p)
             /\ gateway' = [gateway EXCEPT ![p] = "acked"] /\ UNCHANGED work
    <3>1. gateway \in [Pay -> {"none", "open", "expired"} \cup Completed]
      BY <1>0 DEF GroupTypeOK
    <3>2. shares[ShareOf(p)].status \in Due
      BY <1>0, <2>4 DEF Delivered, PaymentsInv, PaymentOK
    <3>3. UNCHANGED tableVars
      BY <1>6 DEF EventRead
    <3>4. Quiet
      BY <2>4, <3>1, <3>2, <3>3 DEF Quiet, Completed
    <3>5. JobsInv'
      BY <1>0, <2>4, <3>4, QuietKeeps, JobsStay
    <3>6. GroupTypeOK'
      BY <1>0, <2>4, <3>1, <3>3 DEF GroupTypeOK, StoreTypeOK, Completed
    <3> QED
      BY <3>4, <3>5, <3>6, QuietOK
  <2> QED
    BY <1>6, <2>2, <2>3, <2>4 DEF EventRead
<1>7. ASSUME NEW p \in Pay, OverdueRead(w, p)
      PROVE  GroupInv' /\ Quiet
  BY <1>3, <1>7 DEF OverdueRead
<1> QED
  BY <1>4, <1>5, <1>6, <1>7 DEF Arrive

LEMMA ClaimUpdateOK ==
  ASSUME GroupInv, NEW w \in Worker, ClaimUpdate(w), UNCHANGED sweep
  PROVE  GroupInv' /\ Quiet
<1> USE DEF storeVars
<1> DEFINE x == <<work[w].group, work[w].seat>>
<1>0. /\ GroupTypeOK /\ JobsInv /\ work \in [Worker -> Job]
      /\ shares \in [Share -> ShareRow]
  BY DEF GroupInv, GroupTypeOK, Share
<1>1. x \in Share /\ work[w].user \in User
  BY <1>0 DEF ClaimUpdate, Doing, JobsInv, JobOK, Share
<1>2. shares' = shares \/ shares' = [shares EXCEPT ![x] = [shares[x] EXCEPT !.claimed_by = work[w].user]]
  BY DEF ClaimUpdate
<1> HIDE DEF x
<1>3. /\ shares' \in [Share -> ShareRow]
      /\ \A y \in Share : shares'[y].status = shares[y].status /\ shares'[y].payment = shares[y].payment
  <2> DEFINE row == [shares[x] EXCEPT !.claimed_by = work[w].user]
  <2>1. row \in ShareRow /\ row.status = shares[x].status /\ row.payment = shares[x].payment
    <3>1. shares[x] \in ShareRow
      BY <1>0, <1>1
    <3> QED
      BY <1>1, <3>1, ShareUpdates
  <2>2. shares' = shares \/ shares' = [shares EXCEPT ![x] = row]
    BY <1>2
  <2> HIDE DEF row
  <2> QED
    BY <1>0, <1>1, <2>1, <2>2
<1>4. Quiet
  BY <1>3 DEF ClaimUpdate, Quiet
<1>5. work' \in [Worker -> Job] /\ JobsInv'
  BY <1>0, <1>4, QuietKeeps, JobReturns DEF ClaimUpdate
<1>6. GroupTypeOK'
  BY <1>0, <1>3, <1>5 DEF ClaimUpdate, GroupTypeOK, StoreTypeOK, Share
<1> QED
  BY <1>4, <1>5, <1>6, QuietOK

LEMMA SessionOK ==
  ASSUME GroupInv, NEW p \in Pay, CustomerPays(p) \/ SessionEnds(p), UNCHANGED sweep
  PROVE  GroupInv' /\ Quiet
<1> USE DEF tableVars, storeVars
<1>0. /\ GroupTypeOK /\ JobsInv
      /\ gateway \in [Pay -> {"none", "open", "expired"} \cup Completed]
  BY DEF GroupInv, GroupTypeOK
<1>1. Quiet
  BY <1>0 DEF CustomerPays, SessionEnds, Quiet, Completed
<1>2. JobsInv'
  BY <1>0, <1>1, QuietKeeps, JobsStay DEF CustomerPays, SessionEnds
<1>3. GroupTypeOK'
  BY <1>0 DEF CustomerPays, SessionEnds, GroupTypeOK, StoreTypeOK, Completed
<1> QED
  BY <1>1, <1>2, <1>3, QuietOK

\* Writing the status of a payment that exists.
LEMMA StatusWritten ==
  ASSUME payments \in [Pay -> SharePayment], NEW p \in Pay, payments[p].status # "none",
         NEW st \in {"succeeded", "failed", "expired"},
         payments' = [payments EXCEPT ![p].status = st, ![p].expires_at = 0]
  PROVE  /\ payments' \in [Pay -> SharePayment]
         /\ \A q \in Pay : /\ payments'[q].status = "none" <=> payments[q].status = "none"
                           /\ payments'[q].group = payments[q].group
                           /\ payments'[q].seat = payments[q].seat
                           /\ payments'[q].booking = payments[q].booking
<1> DEFINE row == [payments[p] EXCEPT !.status = st, !.expires_at = 0]
<1>1. payments' = [payments EXCEPT ![p] = row]
  OBVIOUS
<1>2. /\ row \in SharePayment /\ row.status = st /\ row.group = payments[p].group
      /\ row.seat = payments[p].seat /\ row.booking = payments[p].booking
  <2>1. payments[p] \in SharePayment
    OBVIOUS
  <2> QED
    BY <2>1, PaymentUpdates
<1> HIDE DEF row
<1> QED
  BY <1>1, <1>2

LEMMA FulfilShareOK ==
  ASSUME GroupInv, NEW w \in Worker, FulfilShare(w), UNCHANGED sweep
  PROVE  GroupInv' /\ Quiet
<1> USE DEF storeVars
<1> DEFINE p == work[w].payment
           x == <<work[w].group, work[w].seat>>
           job == [work[w] EXCEPT !.pc = "mark", !.seen = shares[x].status]
<1>0. /\ GroupTypeOK /\ JobsInv /\ SharesInv /\ work \in [Worker -> Job]
      /\ payments \in [Pay -> SharePayment] /\ shares \in [Share -> ShareRow]
  BY DEF GroupInv, GroupTypeOK, Share
<1>1. /\ JobOK(work[w], shares, payments, gateway) /\ work[w] \in Job /\ work[w].pc = "fulfil"
      /\ p \in Pay /\ payments[p].status # "none" /\ x \in Share
  BY <1>0 DEF FulfilShare, Doing, JobsInv, JobOK, Settling, Share
<1>2. payments' = payments \/ payments' = [payments EXCEPT ![p].status = "succeeded", ![p].expires_at = 0]
  BY DEF FulfilShare
<1>3. /\ payments' \in [Pay -> SharePayment]
      /\ \A q \in Pay : /\ payments'[q].status = "none" <=> payments[q].status = "none"
                        /\ payments'[q].group = payments[q].group
                        /\ payments'[q].seat = payments[q].seat
                        /\ payments'[q].booking = payments[q].booking
  BY <1>0, <1>1, <1>2, StatusWritten
<1>4. Quiet
  BY <1>3 DEF FulfilShare, Quiet
<1>5. job \in Job
  BY <1>0, <1>1 DEF Job, WorkLabel, ShareRow
<1>6. JobOK(job, shares', payments', gateway')
  <2>1. job.pc = "mark" /\ job.group = work[w].group /\ job.seat = work[w].seat
        /\ job.payment = work[w].payment /\ job.seen = shares[x].status
    BY <1>1 DEF Job
  <2>2. /\ work[w].group \in Group /\ work[w].seat \in Seat /\ shares[x].status # "none"
        /\ payments[p].group = work[w].group /\ payments[p].seat = work[w].seat
        /\ gateway[p] \in Completed
    BY <1>1 DEF JobOK, Settling
  <2>3. shares' = shares /\ gateway' = gateway
    BY DEF FulfilShare
  <2>4. shares[x].status \in {"unpaid"} \cup Due
    BY <1>0, <1>1, <2>2 DEF ShareRow, Due
  <2> HIDE DEF job
  <2> QED
    BY <1>1, <1>3, <2>1, <2>2, <2>3, <2>4 DEF JobOK, Settling
<1>7. work' = [work EXCEPT ![w] = job]
  BY DEF FulfilShare
<1> HIDE DEF job
<1>8. work' \in [Worker -> Job] /\ JobsInv'
  BY <1>0, <1>4, <1>5, <1>6, <1>7, QuietKeeps, JobsMove
<1>9. GroupTypeOK'
  BY <1>0, <1>3, <1>8 DEF FulfilShare, GroupTypeOK, StoreTypeOK
<1> QED
  BY <1>4, <1>8, <1>9, QuietOK

LEMMA FailShareOK ==
  ASSUME GroupInv, NEW w \in Worker, FailShare(w), UNCHANGED sweep
  PROVE  GroupInv' /\ Quiet
<1> DEFINE p == work[w].payment
           s == work[w].seat
           job == [work[w] EXCEPT !.pc = "fail_release"]
<1>0. /\ GroupTypeOK /\ JobsInv /\ work \in [Worker -> Job] /\ StoreTypeOK
      /\ payments \in [Pay -> SharePayment]
  BY DEF GroupInv, GroupTypeOK
<1>1. /\ JobOK(work[w], shares, payments, gateway) /\ work[w] \in Job /\ work[w].pc = "fail"
      /\ p \in Pay /\ payments[p].status # "none" /\ s \in Seat
  BY <1>0 DEF FailShare, Doing, JobsInv, JobOK, Settling
<1>2. /\ payments' \in [Pay -> SharePayment]
      /\ \A q \in Pay : /\ payments'[q].status = "none" <=> payments[q].status = "none"
                        /\ payments'[q].group = payments[q].group
                        /\ payments'[q].seat = payments[q].seat
                        /\ payments'[q].booking = payments[q].booking
  BY <1>0, <1>1, StatusWritten DEF FailShare
<1>3. /\ seats' \in [Seat -> SeatRow]
      /\ \A t \in Seat : seats'[t].status = "group_held" => seats[t].status = "group_held"
  <2>1. CASE seats' = seats
    BY <1>0, <2>1 DEF StoreTypeOK
  <2>2. CASE SetRow(s, CancelledRow(seats[s]))
    <3>1. seats[s] \in SeatRow
      BY <1>0, <1>1 DEF StoreTypeOK
    <3>2. CancelledRow(seats[s]) \in SeatRow /\ CancelledRow(seats[s]).status = "available"
      BY <3>1, RowUpdates, UpdatesMoveVersion
    <3> QED
      BY <1>0, <1>1, <2>2, <3>2, SetRowType
  <2> QED
    BY <2>1, <2>2 DEF FailShare
<1>4. Quiet
  BY <1>2, <1>3 DEF FailShare, Quiet
<1>5. job \in Job /\ JobOK(job, shares, payments, gateway)
  BY <1>1 DEF Job, WorkLabel, JobOK, Settling
<1>6. work' = [work EXCEPT ![w] = job]
  BY DEF FailShare, Move
<1> HIDE DEF job
<1>7. JobOK(job, shares', payments', gateway')
  BY <1>4, <1>5, QuietKeeps, JobKept
<1>8. work' \in [Worker -> Job] /\ JobsInv'
  BY <1>0, <1>4, <1>5, <1>6, <1>7, QuietKeeps, JobsMove
<1>9. GroupTypeOK'
  BY <1>0, <1>2, <1>3, <1>8 DEF FailShare, GroupTypeOK, StoreTypeOK
<1> QED
  BY <1>4, <1>8, <1>9, QuietOK

LEMMA ReturnOK ==
  ASSUME GroupInv, NEW w \in Worker, FailRelease(w) \/ GroupCrash(w), UNCHANGED sweep
  PROVE  GroupInv' /\ Quiet
<1> USE DEF tableVars, storeVars
<1>0. GroupTypeOK /\ JobsInv /\ work \in [Worker -> Job] /\ StoreTypeOK
  BY DEF GroupInv, GroupTypeOK
<1>1. /\ Return(w)
      /\ UNCHANGED <<seats, bookings, groups, shares, payments, gateway>>
  BY DEF FailRelease, GroupCrash
<1>2. locks' \in [Seat -> Lock]
  BY <1>0 DEF FailRelease, GroupCrash, Release, StoreTypeOK, Lock, Unlocked
<1>3. Quiet
  BY <1>1 DEF Quiet
<1>4. work' \in [Worker -> Job] /\ JobsInv'
  BY <1>0, <1>1, <1>3, QuietKeeps, JobReturns
<1>5. GroupTypeOK'
  BY <1>0, <1>1, <1>2, <1>4 DEF GroupTypeOK, StoreTypeOK
<1> QED
  BY <1>3, <1>4, <1>5, QuietOK

LEMMA SweepOK ==
  ASSUME GroupInv, SweepUpdate
  PROVE  GroupInv' /\ Quiet
<1>0. GroupTypeOK /\ JobsInv /\ StoreTypeOK
  BY DEF GroupInv, GroupTypeOK
<1>1. ASSUME NEW s \in Seat
      PROVE  /\ seats'[s] \in SeatRow
             /\ seats'[s].status = "group_held" => seats[s].status = "group_held"
  <2>1. seats[s] \in SeatRow
    BY <1>0 DEF StoreTypeOK
  <2>2. FreedRow(seats[s]) \in SeatRow /\ FreedRow(seats[s]).status = "available"
    BY <2>1, RowUpdates, UpdatesMoveVersion
  <2> QED
    BY <2>1, <2>2 DEF SweepUpdate
<1>2. seats' \in [Seat -> SeatRow]
  BY <1>1 DEF SweepUpdate
<1>3. Quiet
  BY <1>1 DEF SweepUpdate, Quiet
<1>4. JobsInv'
  BY <1>0, <1>3, QuietKeeps, JobsStay DEF SweepUpdate
<1>5. GroupTypeOK'
  BY <1>0, <1>2 DEF SweepUpdate, GroupTypeOK, StoreTypeOK
<1> QED
  BY <1>3, <1>4, <1>5, QuietOK

LEMMA GroupTickOK ==
  ASSUME GroupInv, GroupTick
  PROVE  GroupInv' /\ Quiet
<1>0. GroupTypeOK /\ JobsInv /\ StoreTypeOK
  BY DEF GroupInv, GroupTypeOK
<1>1. /\ StoreTypeOK' /\ bookings' = bookings
      /\ \A s \in Seat : seats'[s].status = seats[s].status
  BY <1>0, TickKeeps DEF GroupTick
<1>2. \A t \in Nat : Aged(t) \in Nat
  BY DEF Aged
<1>3. /\ groups' \in [Group -> GroupRow]
      /\ \A g \in Group : groups'[g].status = groups[g].status
  <2>1. ASSUME NEW g \in Group
        PROVE  groups'[g] \in GroupRow /\ groups'[g].status = groups[g].status
    BY <1>0, <1>2 DEF GroupTick, GroupTypeOK, GroupRow
  <2> QED
    BY <2>1 DEF GroupTick
<1>4. /\ payments' \in [Pay -> SharePayment]
      /\ \A p \in Pay : /\ payments'[p].status = payments[p].status
                        /\ payments'[p].group = payments[p].group
                        /\ payments'[p].seat = payments[p].seat
                        /\ payments'[p].booking = payments[p].booking
  <2>1. ASSUME NEW p \in Pay
        PROVE  /\ payments'[p] \in SharePayment
               /\ payments'[p].status = payments[p].status
               /\ payments'[p].group = payments[p].group
               /\ payments'[p].seat = payments[p].seat
               /\ payments'[p].booking = payments[p].booking
    BY <1>0, <1>2 DEF GroupTick, GroupTypeOK, SharePayment
  <2> QED
    BY <2>1 DEF GroupTick
<1>5. Quiet
  BY <1>1, <1>3, <1>4 DEF GroupTick, Quiet
<1>6. JobsInv'
  BY <1>0, <1>5, QuietKeeps, JobsStay DEF GroupTick
<1>7. GroupTypeOK'
  BY <1>0, <1>1, <1>3, <1>4 DEF GroupTick, GroupTypeOK
<1> QED
  BY <1>5, <1>6, <1>7, QuietOK

----------------------------------------------------------------------------
(* The steps that decide something.                                        *)

\* Payments under which no new one appears.
LEMMA PaymentsGrow ==
  ASSUME PaymentsInv, Kept,
         \A p \in Pay :
           /\ payments'[p].status = "none" => payments[p].status = "none"
           /\ gateway[p] = "none" => gateway'[p] = "none"
           /\ payments[p].status = "none" =>
                payments'[p].status = "none" /\ payments'[p].booking = payments[p].booking
           /\ gateway'[p] = "acked" =>
                gateway[p] = "acked" \/ shares'[ShareOf(p)].status \in Due
           /\ payments'[p].booking # None =>
                payments[p].booking # None \/ shares'[ShareOf(p)].status \in Due
  PROVE  PaymentsInv'
<1> SUFFICES ASSUME NEW p \in Pay PROVE PaymentOK(p)'
  BY DEF PaymentsInv
<1>1. PaymentOK(p)
  BY DEF PaymentsInv
<1>2. CASE payments[p].status = "none"
  BY <1>1, <1>2 DEF PaymentOK
<1>3. CASE payments[p].status # "none"
  <2>1. ShareOf(p)' = ShareOf(p) /\ ShareOf(p) \in Share
    BY <1>1, <1>3 DEF PaymentOK, Kept, ShareOf
  <2>2. /\ shares[ShareOf(p)].status \in Due => shares'[ShareOf(p)].status \in Due
        /\ shares'[ShareOf(p)].status # "none"
    BY <1>1, <1>3, <2>1 DEF PaymentOK, Kept
  <2> HIDE DEF ShareOf
  <2> QED
    BY <1>1, <1>3, <2>1, <2>2 DEF PaymentOK
<1> QED
  BY <1>2, <1>3

\* A share that is left alone, with its group and its booking.
LEMMA ShareStays ==
  ASSUME GroupTypeOK, SharesInv, Kept, NEW g \in Group, NEW s \in Seat,
         shares'[<<g, s>>].status = shares[<<g, s>>].status,
         shares'[<<g, s>>].payment = shares[<<g, s>>].payment,
         groups'[g].status = groups[g].status,
         bookings'[<<g, s>>].status = bookings[<<g, s>>].status
  PROVE  ShareOK(g, s)'
<1>1. ShareOK(g, s) /\ shares[<<g, s>>].payment \in Pay \cup {None}
  BY DEF SharesInv, GroupTypeOK, ShareRow
<1>2. \A p \in Pay : payments[p].status # "none" =>
        payments'[p].status # "none" /\ ShareOf(p)' = ShareOf(p)
  BY DEF Kept, ShareOf
<1> HIDE DEF ShareOf
<1> QED
  BY <1>1, <1>2 DEF ShareOK, Kept

LEMMA CreateGroupOK ==
  ASSUME GroupInv, NEW u \in Creator, NEW sel \in Selection, CreateGroup(u, sel), UNCHANGED sweep
  PROVE  /\ GroupInv'
         /\ \E g \in Group, S \in (SUBSET Seat) \ {{}} :
              /\ groups[g].status = "none"
              /\ groups'[g].status = "collecting"
              /\ \A h \in Group : h # g => groups'[h] = groups[h]
              /\ \A s \in S : shares'[<<g, s>>].status = "unpaid"
              /\ \A s \in Seat \ S : shares'[<<g, s>>] = shares[<<g, s>>]
              /\ \A h \in Group, s \in Seat : h # g => shares'[<<h, s>>] = shares[<<h, s>>]
              /\ bookings' = bookings
<1> DEFINE S == {sel[i] : i \in DOMAIN sel}
<1>0. /\ GroupTypeOK /\ JobsInv /\ PaymentsInv /\ SharesInv /\ GroupHoldHasGroup
      /\ OneConfirmedBookingPerSeat /\ StoreTypeOK
      /\ groups \in [Group -> GroupRow] /\ shares \in [Group \X Seat -> ShareRow]
      /\ payments \in [Pay -> SharePayment]
  BY DEF GroupInv, GroupTypeOK
<1>1. PICK g \in Group :
        /\ groups[g].status = "none"
        /\ groups' = [groups EXCEPT ![g] = [status |-> "collecting", expires_at |-> GroupTTL]]
        /\ shares' = [x \in Group \X Seat |->
                        IF x[1] = g /\ x[2] \in S THEN NewShare(x[2], u, Head(sel)) ELSE shares[x]]
  BY DEF CreateGroup
<1>2. /\ seats' = [s \in Seat |-> IF s \in S
                     THEN [FreedRow(seats[s]) EXCEPT !.status = "group_held"] ELSE seats[s]]
      /\ UNCHANGED <<locks, bookings, payments, gateway, work>>
  BY DEF CreateGroup
<1>3. S \in (SUBSET Seat) \ {{}}
  <2>1. sel # <<>> /\ sel \in [1..Len(sel) -> Seat] /\ u \in User
    BY GroupAssumption DEF GroupAssumption
  <2>2. S \subseteq Seat
    BY <2>1
  <2>3. 1 \in DOMAIN sel
    <3>1. sel \in Seq(Seat)
      BY <2>1
    <3> QED
      BY <2>1, <3>1
  <2>4. sel[1] \in S
    BY <2>3
  <2> HIDE DEF S
  <2> QED
    BY <2>2, <2>4
<1> HIDE DEF S
<1>4. ASSUME NEW s \in Seat
      PROVE  /\ NewShare(s, u, Head(sel)) \in ShareRow
             /\ NewShare(s, u, Head(sel)).status = "unpaid"
             /\ NewShare(s, u, Head(sel)).payment = None
  <2>1. seats[s].held_price \in Nat \cup {None}
    BY <1>0 DEF StoreTypeOK, SeatRow
  <2>2. PriceNow(seats[s]) \in Nat
    BY <2>1, PriceInPrices DEF PriceNow
  <2>3. u \in User
    BY GroupAssumption DEF GroupAssumption
  <2> QED
    BY <2>2, <2>3 DEF NewShare, NoShare, ShareRow
<1>5. /\ groups' \in [Group -> GroupRow] /\ groups'[g].status = "collecting"
      /\ \A h \in Group : h # g => groups'[h] = groups[h]
  BY <1>0, <1>1, GroupAssumption DEF GroupAssumption, GroupRow
<1>6. /\ shares' \in [Group \X Seat -> ShareRow]
      /\ \A s \in S : shares'[<<g, s>>].status = "unpaid" /\ shares'[<<g, s>>].payment = None
      /\ \A s \in Seat \ S : shares'[<<g, s>>] = shares[<<g, s>>]
      /\ \A h \in Group, s \in Seat : h # g => shares'[<<h, s>>] = shares[<<h, s>>]
  BY <1>0, <1>1, <1>3, <1>4
<1>7. ASSUME NEW s \in Seat
      PROVE  seats'[s] \in SeatRow /\ (s \in S => seats'[s].status = "group_held")
  <2>1. FreedRow(seats[s]) \in SeatRow /\ seats[s] \in SeatRow
    BY <1>0, RowUpdates DEF StoreTypeOK
  <2>2. [FreedRow(seats[s]) EXCEPT !.status = "group_held"] \in SeatRow
    BY <2>1, ColumnUpdates DEF SeatStatus
  <2>3. [FreedRow(seats[s]) EXCEPT !.status = "group_held"].status = "group_held"
    BY <2>1 DEF SeatRow
  <2> QED
    BY <1>2, <2>1, <2>2, <2>3
<1>8. \A s \in Seat : /\ shares[<<g, s>>].status = "none"
                      /\ bookings[<<g, s>>].status = "none"
  BY <1>0, <1>1 DEF SharesInv, ShareOK
<1>9. Kept
  <2>1. ASSUME NEW x \in Share
        PROVE  /\ shares[x].status # "none" => shares'[x].status # "none"
               /\ shares[x].status \in Due => shares'[x].status \in Due
    <3>1. PICK h \in Group, s \in Seat : x = <<h, s>>
      BY DEF Share
    <3> QED
      BY <1>6, <1>8, <3>1 DEF Due
  <2> QED
    BY <1>2, <2>1 DEF Kept
<1>10. GroupTypeOK'
  <2>1. seats' \in [Seat -> SeatRow]
    BY <1>2, <1>7
  <2> QED
    BY <1>0, <1>2, <1>5, <1>6, <2>1 DEF GroupTypeOK, StoreTypeOK
<1>11. JobsInv' /\ PaymentsInv'
  BY <1>0, <1>2, <1>9, JobsStay, PaymentsGrow
<1>12. SharesInv'
  <2> SUFFICES ASSUME NEW h \in Group, NEW s \in Seat PROVE ShareOK(h, s)'
    BY DEF SharesInv
  <2>1. CASE h # g
    BY <1>0, <1>2, <1>5, <1>6, <1>9, <2>1, ShareStays
  <2>2. CASE h = g
    <3>1. bookings'[<<g, s>>].status = "none"
      BY <1>2, <1>8
    <3>2. CASE s \in S
      BY <1>5, <1>6, <2>2, <3>1, <3>2 DEF ShareOK
    <3>3. CASE s \notin S
      <4>1. ShareOK(g, s) /\ shares'[<<g, s>>] = shares[<<g, s>>]
        BY <1>0, <1>6, <3>3 DEF SharesInv
      <4>2. \A p : ShareOf(p)' = ShareOf(p)
        BY <1>2 DEF ShareOf
      <4> HIDE DEF ShareOf
      <4> QED
        BY <1>2, <1>5, <1>8, <2>2, <3>1, <4>1, <4>2 DEF ShareOK
    <3> QED
      BY <3>2, <3>3
  <2> QED
    BY <2>1, <2>2
<1>13. GroupHoldHasGroup'
  <2> SUFFICES ASSUME NEW s \in Seat, seats'[s].status = "group_held"
               PROVE  \E h \in Group : groups'[h].status = "collecting" /\ s \in Members(h)'
    BY DEF GroupHoldHasGroup
  <2>1. CASE s \in S
    BY <1>5, <1>6, <2>1 DEF Members
  <2>2. CASE s \notin S
    <3>1. PICK h \in Group : groups[h].status = "collecting" /\ s \in Members(h)
      BY <1>0, <1>2, <2>2 DEF GroupHoldHasGroup
    <3>2. h # g
      BY <1>1, <3>1
    <3> QED
      BY <1>5, <1>6, <3>1, <3>2 DEF Members
  <2> QED
    BY <2>1, <2>2
<1>14. OneConfirmedBookingPerSeat'
  BY <1>0, <1>2 DEF OneConfirmedBookingPerSeat
<1> QED
  BY <1>1, <1>2, <1>3, <1>5, <1>6, <1>10, <1>11, <1>12, <1>13, <1>14 DEF GroupInv

LEMMA PayCommitOK ==
  ASSUME GroupInv, NEW w \in Worker, PayCommit(w), UNCHANGED sweep
  PROVE  GroupInv' /\ UNCHANGED <<groups, shares, bookings>>
<1> USE DEF storeVars
<1> DEFINE g == work[w].group
           s == work[w].seat
           left == groups[g].expires_at
           row == [status |-> "pending", group |-> g, seat |-> s, booking |-> None,
                   expires_at |-> IF left < PaymentTTL THEN left ELSE PaymentTTL]
<1>0. /\ GroupTypeOK /\ JobsInv /\ PaymentsInv /\ SharesInv /\ work \in [Worker -> Job]
      /\ GroupHoldHasGroup /\ OneConfirmedBookingPerSeat
      /\ payments \in [Pay -> SharePayment]
      /\ gateway \in [Pay -> {"none", "open", "expired"} \cup Completed]
  BY DEF GroupInv, GroupTypeOK
<1>1. /\ g \in Group /\ s \in Seat /\ shares[<<g, s>>].status # "none"
  BY <1>0 DEF PayCommit, Doing, JobsInv, JobOK
<1>2. row \in SharePayment
  <2>1. left \in Nat /\ PaymentTTL \in Nat
    BY <1>0, <1>1, StoreAssumption DEF StoreAssumption, GroupTypeOK, GroupRow
  <2> QED
    BY <1>1, <2>1 DEF SharePayment
<1>3. CASE payments' = payments /\ gateway' = gateway
  <2>1. Quiet
    BY <1>3 DEF PayCommit, Quiet
  <2>2. work' \in [Worker -> Job] /\ JobsInv'
    BY <1>0, <2>1, QuietKeeps, JobReturns DEF PayCommit
  <2>3. GroupTypeOK'
    BY <1>0, <1>3, <2>2 DEF PayCommit, GroupTypeOK, StoreTypeOK
  <2> QED
    BY <2>1, <2>2, <2>3, QuietOK DEF PayCommit
<1>4. ASSUME NEW p \in Pay, payments[p].status = "none",
             payments' = [payments EXCEPT ![p] = row],
             gateway' = [gateway EXCEPT ![p] = "open"]
      PROVE  GroupInv'
  <2> HIDE DEF row
  <2>1. payments' \in [Pay -> SharePayment]
    BY <1>0, <1>2, <1>4
  <2>2. /\ \A q \in Pay : q # p => payments'[q] = payments[q] /\ gateway'[q] = gateway[q]
        /\ payments'[p] = row /\ gateway'[p] = "open"
    BY <1>0, <1>4
  <2>3. row.status = "pending" /\ row.group = g /\ row.seat = s /\ row.booking = None
    BY DEF row
  <2>4. UNCHANGED <<groups, shares, seats, bookings, locks>>
    BY DEF PayCommit
  <2>5. gateway[p] = "none"
    BY <1>0, <1>4 DEF PaymentsInv, PaymentOK
  <2>6. Kept
    BY <1>4, <2>2, <2>4, <2>5 DEF Kept, Completed
  <2>7. work' \in [Worker -> Job] /\ JobsInv'
    BY <1>0, <2>6, JobReturns DEF PayCommit
  <2>8. GroupTypeOK'
    BY <1>0, <1>4, <2>1, <2>4, <2>7 DEF GroupTypeOK, StoreTypeOK, Completed
  <2>9. PaymentsInv'
    <3> SUFFICES ASSUME NEW q \in Pay PROVE PaymentOK(q)'
      BY DEF PaymentsInv
    <3>1. CASE q = p
      <4>1. ShareOf(p)' = <<g, s>>
        BY <2>2, <2>3 DEF ShareOf
      <4> HIDE DEF ShareOf
      <4> QED
        BY <1>1, <2>2, <2>3, <2>4, <3>1, <4>1 DEF PaymentOK, Share
    <3>2. CASE q # p
      <4>1. PaymentOK(q) /\ ShareOf(q)' = ShareOf(q)
        BY <1>0, <2>2, <3>2 DEF PaymentsInv, ShareOf
      <4> HIDE DEF ShareOf
      <4> QED
        BY <2>2, <2>4, <3>2, <4>1 DEF PaymentOK
    <3> QED
      BY <3>1, <3>2
  <2>10. SharesInv'
    BY <1>0, <2>4, <2>6, ShareStays DEF SharesInv
  <2>11. GroupHoldHasGroup' /\ OneConfirmedBookingPerSeat'
    BY <1>0, <2>4 DEF GroupHoldHasGroup, OneConfirmedBookingPerSeat, Members
  <2> QED
    BY <2>7, <2>8, <2>9, <2>10, <2>11 DEF GroupInv
<1>5. \/ payments' = payments /\ gateway' = gateway
      \/ \E p \in Pay : /\ payments[p].status = "none"
                        /\ payments' = [payments EXCEPT ![p] = row]
                        /\ gateway' = [gateway EXCEPT ![p] = "open"]
  <2>1. CASE UNCHANGED <<payments, gateway>>
    BY <2>1
  <2>2. CASE \E p \in Pay :
             /\ \A q \in Pay : payments[q].status = "none" <=> q >= p
             /\ payments' = [payments EXCEPT ![p] = row]
             /\ gateway' = [gateway EXCEPT ![p] = "open"]
    <3>1. \A p \in Pay : p >= p
      BY DEF Pay
    <3> HIDE DEF row
    <3> QED
      BY <2>2, <3>1
  <2> QED
    BY <2>1, <2>2 DEF PayCommit
<1> QED
  BY <1>3, <1>4, <1>5 DEF PayCommit

LEMMA MarkShareOK ==
  ASSUME GroupInv, NEW w \in Worker, MarkShare(w), UNCHANGED sweep
  PROVE  /\ GroupInv'
         /\ UNCHANGED <<groups, bookings>>
         /\ \E g \in Group, s \in Seat :
              /\ shares[<<g, s>>].status # "none" /\ groups[g].status # "none"
              /\ \A x \in Share : x # <<g, s>> => shares'[x] = shares[x]
              /\ IF groups[g].status = "collecting"
                 THEN \/ shares'[<<g, s>>] = shares[<<g, s>>]
                      \/ shares'[<<g, s>>].status = "paid"
                 ELSE shares'[<<g, s>>].status = "refunded"
<1> USE DEF storeVars
<1> DEFINE p == work[w].payment
           g == work[w].group
           s == work[w].seat
           x == <<g, s>>
<1>0. /\ GroupTypeOK /\ JobsInv /\ PaymentsInv /\ SharesInv /\ work \in [Worker -> Job]
      /\ GroupHoldHasGroup /\ OneConfirmedBookingPerSeat
      /\ payments \in [Pay -> SharePayment] /\ shares \in [Share -> ShareRow]
      /\ gateway \in [Pay -> {"none", "open", "expired"} \cup Completed]
  BY DEF GroupInv, GroupTypeOK, Share
<1>1. /\ work[w] \in Job /\ work[w].pc = "mark"
      /\ g \in Group /\ s \in Seat /\ shares[x].status # "none" /\ x \in Share
      /\ p \in Pay /\ payments[p].status # "none" /\ ShareOf(p) = x
      /\ gateway[p] \in Completed
      /\ work[w].seen # "unpaid" => shares[x].status \in Due
  BY <1>0 DEF MarkShare, Doing, JobsInv, JobOK, Settling, Share, ShareOf
<1>2. /\ groups' = groups /\ bookings' = bookings /\ seats' = seats /\ locks' = locks
  BY DEF MarkShare
<1>3. groups[g].status # "none" /\ shares[x] \in ShareRow /\ payments[p] \in SharePayment
  BY <1>0, <1>1 DEF SharesInv, ShareOK
<1>4. CASE groups[g].status = "collecting"
  <2> DEFINE row == [shares[x] EXCEPT !.status = "paid", !.payment = p]
             job == [work[w] EXCEPT !.pc = "confirm"]
  <2>1. row \in ShareRow /\ row.status = "paid" /\ row.payment = p
    BY <1>1, <1>3, ShareUpdates
  <2>2. /\ shares' = IF work[w].seen = "unpaid" THEN [shares EXCEPT ![x] = row] ELSE shares
        /\ work' = [work EXCEPT ![w] = job] /\ payments' = payments /\ gateway' = gateway
    BY <1>4 DEF MarkShare, Move
  <2>3. /\ job \in Job /\ job.pc = "confirm" /\ job.group = g /\ job.seat = s /\ job.payment = p
    BY <1>1 DEF Job, WorkLabel
  <2> HIDE DEF row, job, p, g, s, x
  <2>4. /\ shares' \in [Share -> ShareRow]
        /\ \A y \in Share : y # x => shares'[y] = shares[y]
        /\ shares'[x] = shares[x] \/ (shares'[x].status = "paid" /\ shares'[x].payment = p)
        /\ shares'[x].status \in Due
    BY <1>0, <1>1, <2>1, <2>2 DEF Due
  <2>5. Kept
    BY <2>2, <2>4 DEF Kept, Due
  <2>6. JobOK(job, shares', payments', gateway')
    BY <1>1, <2>2, <2>3, <2>4 DEF JobOK, Settling, x, ShareOf, Due
  <2>7. work' \in [Worker -> Job] /\ JobsInv'
    BY <1>0, <2>2, <2>3, <2>5, <2>6, JobsMove
  <2>8. GroupTypeOK'
    BY <1>0, <1>2, <2>2, <2>4, <2>7 DEF GroupTypeOK, StoreTypeOK, Share
  <2>9. PaymentsInv'
    BY <1>0, <2>2, <2>5, PaymentsGrow
  <2>10. SharesInv'
    <3> SUFFICES ASSUME NEW h \in Group, NEW t \in Seat PROVE ShareOK(h, t)'
      BY DEF SharesInv
    <3>1. <<h, t>> \in Share
      BY DEF Share
    <3>2. CASE shares'[<<h, t>>] = shares[<<h, t>>]
      BY <1>0, <1>2, <2>5, <3>2, ShareStays
    <3>3. CASE shares'[<<h, t>>] # shares[<<h, t>>]
      <4>1. <<h, t>> = x /\ h = g /\ t = s
        BY <2>4, <3>1, <3>3 DEF x
      <4>2. /\ shares'[<<h, t>>].status = "paid" /\ shares'[<<h, t>>].payment = p
            /\ payments'[p].group = h /\ payments'[p].seat = t
            /\ payments'[p].status # "none" /\ gateway'[p] \in Completed
        BY <1>1, <2>2, <2>4, <3>3, <4>1 DEF ShareOf, x
      <4>3. bookings'[<<h, t>>].status # "none" => groups'[h].status = "confirmed"
        BY <1>0, <1>2 DEF SharesInv, ShareOK
      <4>4. groups'[h].status = "collecting"
        BY <1>2, <1>4, <4>1
      <4>5. p # None
        BY <1>1, StoreAssumption DEF StoreAssumption, Pay
      <4> QED
        BY <4>2, <4>3, <4>4, <4>5 DEF ShareOK, ShareOf
    <3> QED
      BY <3>2, <3>3
  <2>11. GroupHoldHasGroup'
    BY <1>0, <1>2, <2>5 DEF GroupHoldHasGroup, Members, Kept, Share
  <2>12. OneConfirmedBookingPerSeat'
    BY <1>0, <1>2 DEF OneConfirmedBookingPerSeat
  <2> QED
    BY <1>1, <1>2, <1>3, <1>4, <2>4, <2>7, <2>8, <2>9, <2>10, <2>11, <2>12 DEF GroupInv, x
<1>5. CASE groups[g].status # "collecting"
  <2> DEFINE row == [shares[x] EXCEPT !.status = "refunded"]
             paid == [payments[p] EXCEPT !.status = "refunded"]
  <2>1. row \in ShareRow /\ row.status = "refunded" /\ row.payment = shares[x].payment
    BY <1>1, <1>3, ShareUpdates
  <2>2. /\ paid \in SharePayment /\ paid.status = "refunded" /\ paid.group = payments[p].group
        /\ paid.seat = payments[p].seat /\ paid.booking = payments[p].booking
    BY <1>3, PaymentUpdates
  <2>3. /\ shares' = [shares EXCEPT ![x] = row] /\ payments' = [payments EXCEPT ![p] = paid]
        /\ gateway' = [gateway EXCEPT ![p] = IF gateway[p] = "paid" THEN "acked" ELSE gateway[p]]
        /\ Return(w)
    BY <1>5 DEF MarkShare, Acknowledge
  <2> HIDE DEF row, paid, p, g, s, x
  <2>4. /\ shares' \in [Share -> ShareRow]
        /\ \A y \in Share : y # x => shares'[y] = shares[y]
        /\ shares'[x].status = "refunded" /\ shares'[x].payment = shares[x].payment
    BY <1>0, <1>1, <2>1, <2>3
  <2>5. /\ payments' \in [Pay -> SharePayment]
        /\ \A q \in Pay : /\ payments'[q].group = payments[q].group
                          /\ payments'[q].seat = payments[q].seat
                          /\ payments'[q].booking = payments[q].booking
                          /\ payments'[q].status = "none" <=> payments[q].status = "none"
    BY <1>0, <1>1, <2>2, <2>3
  <2>6. /\ gateway' \in [Pay -> {"none", "open", "expired"} \cup Completed]
        /\ \A q \in Pay : /\ q # p => gateway'[q] = gateway[q]
                          /\ gateway[q] \in Completed => gateway'[q] \in Completed
        /\ gateway'[p] \in Completed
    BY <1>0, <1>1, <2>3 DEF Completed
  <2>7. Kept
    BY <2>4, <2>5, <2>6 DEF Kept, Due
  <2>8. work' \in [Worker -> Job] /\ JobsInv'
    BY <1>0, <2>3, <2>7, JobReturns
  <2>9. GroupTypeOK'
    BY <1>0, <1>2, <2>4, <2>5, <2>6, <2>8 DEF GroupTypeOK, StoreTypeOK, Share
  <2>10. PaymentsInv'
    <3>1. ASSUME NEW q \in Pay
          PROVE  /\ gateway[q] = "none" => gateway'[q] = "none"
                 /\ gateway'[q] = "acked" =>
                      gateway[q] = "acked" \/ shares'[ShareOf(q)].status \in Due
      <4>1. CASE q = p
        BY <1>1, <2>4, <4>1 DEF Due, Completed
      <4>2. CASE q # p
        BY <2>6, <4>2
      <4> QED
        BY <4>1, <4>2
    <3> QED
      BY <1>0, <2>5, <2>7, <3>1, PaymentsGrow
  <2>11. SharesInv'
    <3> SUFFICES ASSUME NEW h \in Group, NEW t \in Seat PROVE ShareOK(h, t)'
      BY DEF SharesInv
    <3>1. CASE <<h, t>> # x
      BY <1>0, <1>2, <2>4, <2>7, <3>1, ShareStays DEF Share
    <3>2. CASE <<h, t>> = x
      <4>1. h = g /\ ShareOK(h, t) /\ shares[<<h, t>>].payment \in Pay \cup {None}
        BY <1>0, <1>1, <1>3, <3>2 DEF SharesInv, ShareRow, x
      <4>2. \A q \in Pay : ShareOf(q)' = ShareOf(q)
        BY <2>5 DEF ShareOf
      <4> HIDE DEF ShareOf
      <4> QED
        BY <1>2, <1>3, <1>5, <2>4, <2>5, <3>2, <4>1, <4>2 DEF ShareOK
    <3> QED
      BY <3>1, <3>2
  <2>12. GroupHoldHasGroup'
    BY <1>0, <1>2, <2>7 DEF GroupHoldHasGroup, Members, Kept, Share
  <2>13. OneConfirmedBookingPerSeat'
    BY <1>0, <1>2 DEF OneConfirmedBookingPerSeat
  <2> QED
    BY <1>1, <1>2, <1>3, <1>5, <2>4, <2>8, <2>9, <2>10, <2>11, <2>12, <2>13 DEF GroupInv, x
<1> QED
  BY <1>4, <1>5

LEMMA BreakOK ==
  ASSUME GroupInv, NEW g \in Group, CancelGroup(g) \/ ExpireGroup(g), UNCHANGED sweep
  PROVE  /\ GroupInv'
         /\ bookings' = bookings
         /\ groups[g].status = "collecting" /\ groups'[g].status \in {"expired", "cancelled"}
         /\ \A h \in Group : h # g => groups'[h] = groups[h]
         /\ \A h \in Group, s \in Seat :
              /\ h # g => shares'[<<h, s>>] = shares[<<h, s>>]
              /\ shares'[<<h, s>>].status = "none" <=> shares[<<h, s>>].status = "none"
              /\ shares'[<<g, s>>].status # "paid"
<1>0. /\ GroupTypeOK /\ JobsInv /\ PaymentsInv /\ SharesInv /\ StoreTypeOK
      /\ GroupHoldHasGroup /\ OneConfirmedBookingPerSeat
      /\ payments \in [Pay -> SharePayment] /\ shares \in [Group \X Seat -> ShareRow]
      /\ groups \in [Group -> GroupRow]
  BY DEF GroupInv, GroupTypeOK
<1>1. PICK reason \in {"expired", "cancelled"} : Break(g, reason)
  BY DEF CancelGroup, ExpireGroup
<1>2. UNCHANGED <<locks, bookings, gateway, work>>
  BY DEF CancelGroup, ExpireGroup
<1> DEFINE refunded == {p \in Pay : \E s \in Members(g) :
                          shares[<<g, s>>].status = "paid" /\ shares[<<g, s>>].payment = p}
<1>3. /\ groups[g].status = "collecting"
      /\ groups' = [groups EXCEPT ![g].status = reason, ![g].expires_at = 0]
      /\ shares' = [x \in Group \X Seat |-> IF x[1] = g /\ shares[x].status = "paid"
                      THEN [shares[x] EXCEPT !.status = "refunded"] ELSE shares[x]]
      /\ payments' = [p \in Pay |->
           IF p \in refunded THEN [payments[p] EXCEPT !.status = "refunded"]
           ELSE IF payments[p].group = g /\ payments[p].status = "pending"
                THEN [payments[p] EXCEPT !.status = "expired", !.expires_at = 0]
                ELSE payments[p]]
      /\ seats' = [s \in Seat |-> IF s \in Members(g) /\ seats[s].status = "group_held"
                     THEN FreedRow(seats[s]) ELSE seats[s]]
  BY <1>1 DEF Break
<1>4. ASSUME NEW p \in refunded PROVE payments[p].status # "none"
  <2>1. PICK s \in Members(g) : shares[<<g, s>>].status = "paid" /\ shares[<<g, s>>].payment = p
    OBVIOUS
  <2>2. s \in Seat /\ ShareOK(g, s)
    BY <1>0 DEF Members, SharesInv
  <2> QED
    BY <2>1, <2>2 DEF ShareOK
<1> HIDE DEF refunded
<1>5. /\ groups' \in [Group -> GroupRow] /\ groups'[g].status = reason
      /\ \A h \in Group : h # g => groups'[h] = groups[h]
  <2> DEFINE row == [groups[g] EXCEPT !.status = reason, !.expires_at = 0]
  <2>1. row \in GroupRow /\ row.status = reason
    BY <1>0 DEF GroupRow
  <2>2. groups' = [groups EXCEPT ![g] = row]
    BY <1>3
  <2> HIDE DEF row
  <2> QED
    BY <1>0, <2>1, <2>2
<1>6. ASSUME NEW h \in Group, NEW s \in Seat
      PROVE  /\ shares'[<<h, s>>] \in ShareRow
             /\ h # g => shares'[<<h, s>>] = shares[<<h, s>>]
             /\ shares'[<<h, s>>].payment = shares[<<h, s>>].payment
             /\ shares'[<<h, s>>].status = "none" <=> shares[<<h, s>>].status = "none"
             /\ shares[<<h, s>>].status \in Due => shares'[<<h, s>>].status \in Due
             /\ shares'[<<g, s>>].status # "paid"
  <2>1. ASSUME NEW k \in Group
        PROVE  shares'[<<k, s>>] = IF k = g /\ shares[<<k, s>>].status = "paid"
                 THEN [shares[<<k, s>>] EXCEPT !.status = "refunded"] ELSE shares[<<k, s>>]
    BY <1>3
  <2>2. \A k \in Group : shares[<<k, s>>] \in ShareRow
    BY <1>0
  <2>3. ASSUME NEW k \in Group
        PROVE  LET r == [shares[<<k, s>>] EXCEPT !.status = "refunded"] IN
               r \in ShareRow /\ r.status = "refunded" /\ r.payment = shares[<<k, s>>].payment
    BY <2>2, ShareUpdates
  <2> QED
    BY <2>1, <2>2, <2>3 DEF Due
<1>7. ASSUME NEW p \in Pay
      PROVE  /\ payments'[p] \in SharePayment
             /\ payments'[p].group = payments[p].group /\ payments'[p].seat = payments[p].seat
             /\ payments'[p].booking = payments[p].booking
             /\ payments'[p].status = "none" <=> payments[p].status = "none"
  <2>1. payments[p] \in SharePayment
    BY <1>0
  <2>2. \/ payments'[p] = payments[p]
        \/ p \in refunded /\ payments'[p] = [payments[p] EXCEPT !.status = "refunded"]
        \/ /\ payments[p].status = "pending"
           /\ payments'[p] = [payments[p] EXCEPT !.status = "expired", !.expires_at = 0]
    BY <1>3
  <2>3. CASE payments'[p] = payments[p]
    BY <2>1, <2>3
  <2>4. CASE p \in refunded /\ payments'[p] = [payments[p] EXCEPT !.status = "refunded"]
    <3> DEFINE row == [payments[p] EXCEPT !.status = "refunded"]
    <3>1. /\ row \in SharePayment /\ row.status = "refunded" /\ row.group = payments[p].group
          /\ row.seat = payments[p].seat /\ row.booking = payments[p].booking
      BY <2>1, PaymentUpdates
    <3>2. payments'[p] = row /\ payments[p].status # "none"
      BY <1>4, <2>4
    <3> HIDE DEF row
    <3> QED
      BY <3>1, <3>2
  <2>5. CASE /\ payments[p].status = "pending"
             /\ payments'[p] = [payments[p] EXCEPT !.status = "expired", !.expires_at = 0]
    <3> DEFINE row == [payments[p] EXCEPT !.status = "expired", !.expires_at = 0]
    <3>1. /\ row \in SharePayment /\ row.status = "expired" /\ row.group = payments[p].group
          /\ row.seat = payments[p].seat /\ row.booking = payments[p].booking
      BY <2>1, PaymentUpdates
    <3>2. payments'[p] = row /\ payments[p].status # "none"
      BY <2>5
    <3> HIDE DEF row
    <3> QED
      BY <3>1, <3>2
  <2> QED
    BY <2>2, <2>3, <2>4, <2>5
<1>8. ASSUME NEW s \in Seat
      PROVE  /\ seats'[s] \in SeatRow
             /\ seats'[s].status = "group_held" => seats[s].status = "group_held" /\ s \notin Members(g)
  <2>1. seats[s] \in SeatRow
    BY <1>0 DEF StoreTypeOK
  <2>2. FreedRow(seats[s]) \in SeatRow /\ FreedRow(seats[s]).status = "available"
    BY <2>1, RowUpdates, UpdatesMoveVersion
  <2> QED
    BY <1>3, <2>1, <2>2
<1>9. Kept
  <2>1. ASSUME NEW x \in Share
        PROVE  /\ shares[x].status # "none" => shares'[x].status # "none"
               /\ shares[x].status \in Due => shares'[x].status \in Due
    <3>1. PICK h \in Group, s \in Seat : x = <<h, s>>
      BY DEF Share
    <3> QED
      BY <1>6, <3>1
  <2> QED
    BY <1>2, <1>7, <2>1 DEF Kept
<1>10. JobsInv' /\ PaymentsInv'
  BY <1>0, <1>2, <1>7, <1>9, JobsStay, PaymentsGrow
<1>11. GroupTypeOK'
  <2>1. seats' \in [Seat -> SeatRow]
    BY <1>3, <1>8
  <2>2. payments' \in [Pay -> SharePayment]
    BY <1>3, <1>7
  <2>3. shares' \in [Group \X Seat -> ShareRow]
    <3>1. ASSUME NEW x \in Group \X Seat PROVE shares'[x] \in ShareRow
      <4>1. PICK h \in Group, s \in Seat : x = <<h, s>>
        OBVIOUS
      <4> QED
        BY <1>6, <4>1
    <3> QED
      BY <1>3, <3>1
  <2> QED
    BY <1>0, <1>2, <1>5, <2>1, <2>2, <2>3 DEF GroupTypeOK, StoreTypeOK
<1>12. SharesInv'
  <2> SUFFICES ASSUME NEW h \in Group, NEW s \in Seat PROVE ShareOK(h, s)'
    BY DEF SharesInv
  <2>1. CASE h # g
    BY <1>0, <1>2, <1>5, <1>6, <1>9, <2>1, ShareStays
  <2>2. CASE h = g
    <3>1. ShareOK(g, s) /\ shares[<<g, s>>].payment \in Pay \cup {None}
      BY <1>0 DEF SharesInv, ShareRow
    <3>2. /\ shares'[<<g, s>>].payment = shares[<<g, s>>].payment
          /\ shares[<<g, s>>].payment # None =>
               /\ payments[shares[<<g, s>>].payment].status # "none"
               /\ payments[shares[<<g, s>>].payment].group = g
               /\ payments[shares[<<g, s>>].payment].seat = s
      BY <1>6, <3>1 DEF ShareOK, ShareOf
    <3>3. shares[<<g, s>>].payment # None =>
            /\ payments'[shares[<<g, s>>].payment].status # "none"
            /\ payments'[shares[<<g, s>>].payment].group = g
            /\ payments'[shares[<<g, s>>].payment].seat = s
      BY <1>7, <3>1, <3>2
    <3>4. shares'[<<g, s>>].status # "paid" /\ groups'[g].status \in {"expired", "cancelled"}
      BY <1>5, <1>6
    <3>5. bookings'[<<g, s>>].status = "none"
      BY <1>2, <1>3, <3>1 DEF ShareOK
    <3> QED
      BY <2>2, <3>2, <3>3, <3>4, <3>5 DEF ShareOK, ShareOf
  <2> QED
    BY <2>1, <2>2
<1>13. GroupHoldHasGroup'
  <2> SUFFICES ASSUME NEW s \in Seat, seats'[s].status = "group_held"
               PROVE  \E h \in Group : groups'[h].status = "collecting" /\ s \in Members(h)'
    BY DEF GroupHoldHasGroup
  <2>1. PICK h \in Group : groups[h].status = "collecting" /\ s \in Members(h)
    BY <1>0, <1>8 DEF GroupHoldHasGroup
  <2>2. h # g
    BY <1>8, <2>1
  <2> QED
    BY <1>5, <1>6, <2>1, <2>2 DEF Members
<1>14. OneConfirmedBookingPerSeat'
  BY <1>0, <1>2 DEF OneConfirmedBookingPerSeat
<1> QED
  BY <1>2, <1>3, <1>5, <1>6, <1>10, <1>11, <1>12, <1>13, <1>14 DEF GroupInv

\* A group is confirmed: what every table has to show for it.
Confirms(w, g) ==
  /\ groups[g].status = "collecting"
  /\ \A s \in Members(g) : shares[<<g, s>>].status = "paid" /\ IndexAdmits(s)
  /\ groups' = [groups EXCEPT ![g].status = "confirmed", ![g].expires_at = 0]
  /\ shares' = [x \in Group \X Seat |-> IF x[1] = g /\ x[2] \in Members(g)
                  THEN [shares[x] EXCEPT !.booking = x] ELSE shares[x]]
  /\ bookings' = [b \in BookingId |-> IF b \in {<<g, s>> : s \in Members(g)}
                    THEN [user |-> shares[b].claimed_by, seat |-> b[2],
                          status |-> "confirmed", amount |-> shares[b].amount]
                    ELSE bookings[b]]
  /\ seats' = [s \in Seat |-> IF s \in Members(g)
                 THEN [seats[s] EXCEPT !.status = "booked", !.version = @ + 1]
                 ELSE seats[s]]
  /\ payments' = [p \in Pay |->
       IF p \in {shares[<<g, s>>].payment : s \in Members(g)} \ {None}
       THEN [payments[p] EXCEPT !.booking = <<g, payments[p].seat>>]
       ELSE payments[p]]
  /\ gateway' = [gateway EXCEPT ![work[w].payment] = IF @ = "paid" THEN "acked" ELSE @]

LEMMA ConfirmCases ==
  ASSUME GroupInv, NEW w \in Worker, Confirm(w)
  PROVE  \/ UNCHANGED <<groups, shares, bookings, seats, payments>>
         \/ \E g \in Group : Confirms(w, g)
<1> DEFINE g == work[w].group
<1>0. JobsInv /\ SharesInv /\ shares \in [Group \X Seat -> ShareRow]
  BY DEF GroupInv, GroupTypeOK
<1>1. g \in Group
  BY <1>0 DEF Confirm, Doing, JobsInv, JobOK, Settling
<1>2. CASE UNCHANGED <<groups, shares, bookings, seats, payments>>
  BY <1>2
<1>3. CASE ~UNCHANGED <<groups, shares, bookings, seats, payments>>
  <2>1. /\ EverybodyPaid(g) /\ groups[g].status = "collecting"
        /\ \A s \in Members(g) : IndexAdmits(s)
    BY <1>3 DEF Confirm
  <2>2. ASSUME NEW s \in Members(g) PROVE shares[<<g, s>>].status = "paid"
    <3>1. s \in Seat /\ shares[<<g, s>>].status \notin {"none", "unpaid"}
      BY <2>1 DEF EverybodyPaid, Members
    <3>2. ShareOK(g, s) /\ shares[<<g, s>>] \in ShareRow
      BY <1>0, <1>1, <3>1 DEF SharesInv
    <3> QED
      BY <2>1, <3>1, <3>2 DEF ShareOK, ShareRow
  <2>3. Confirms(w, g)
    BY <1>3, <2>1, <2>2 DEF Confirm, Confirms, Acknowledge
  <2> QED
    BY <1>1, <2>3
<1> QED
  BY <1>2, <1>3

LEMMA ConfirmOK ==
  ASSUME GroupInv, NEW w \in Worker, Confirm(w), UNCHANGED sweep
  PROVE  /\ GroupInv'
         /\ \/ UNCHANGED <<groups, shares, bookings>>
            \/ \E g \in Group :
                 /\ groups[g].status = "collecting" /\ groups'[g].status = "confirmed"
                 /\ \A h \in Group : h # g => groups'[h] = groups[h]
                 /\ \A s \in Members(g) : shares[<<g, s>>].status = "paid"
                 /\ \A x \in Share : shares'[x].status = shares[x].status
                 /\ \A s \in Members(g) : bookings'[<<g, s>>].status = "confirmed"
                 /\ \A h \in Group, s \in Seat :
                      h # g => bookings'[<<h, s>>] = bookings[<<h, s>>]
<1>0. /\ GroupTypeOK /\ JobsInv /\ PaymentsInv /\ SharesInv /\ StoreTypeOK
      /\ GroupHoldHasGroup /\ OneConfirmedBookingPerSeat /\ work \in [Worker -> Job]
      /\ payments \in [Pay -> SharePayment] /\ shares \in [Share -> ShareRow]
      /\ groups \in [Group -> GroupRow]
      /\ gateway \in [Pay -> {"none", "open", "expired"} \cup Completed]
      /\ bookings \in [BookingId -> BookingRow] /\ seats \in [Seat -> SeatRow]
  BY DEF GroupInv, GroupTypeOK, StoreTypeOK, Share
<1>1. /\ work[w].payment \in Pay /\ gateway[work[w].payment] \in Completed
      /\ ShareOf(work[w].payment) \in Share
      /\ shares[ShareOf(work[w].payment)].status \in Due
  BY <1>0 DEF Confirm, Doing, JobsInv, JobOK, Settling, ShareOf, Share
<1>2. Return(w) /\ locks' = locks
  BY DEF Confirm
<1>3. \/ gateway' = gateway
      \/ gateway' = [gateway EXCEPT ![work[w].payment] = IF @ = "paid" THEN "acked" ELSE @]
  BY DEF Confirm, Acknowledge
<1>4. /\ gateway' \in [Pay -> {"none", "open", "expired"} \cup Completed]
      /\ \A q \in Pay : /\ gateway[q] = "none" => gateway'[q] = "none"
                        /\ gateway[q] \in Completed => gateway'[q] \in Completed
                        /\ gateway'[q] = "acked" => gateway[q] = "acked" \/ q = work[w].payment
  BY <1>0, <1>1, <1>3 DEF Completed
<1>5. CASE UNCHANGED <<groups, shares, bookings, seats, payments>>
  <2>1. Quiet
    BY <1>1, <1>4, <1>5 DEF Quiet
  <2>2. work' \in [Worker -> Job] /\ JobsInv'
    BY <1>0, <1>2, <2>1, QuietKeeps, JobReturns
  <2>3. GroupTypeOK'
    BY <1>0, <1>2, <1>4, <1>5, <2>2 DEF GroupTypeOK, StoreTypeOK
  <2> QED
    BY <1>5, <2>1, <2>2, <2>3, QuietOK
<1>6. ASSUME NEW g \in Group, Confirms(w, g)
      PROVE  /\ GroupInv'
             /\ groups[g].status = "collecting" /\ groups'[g].status = "confirmed"
             /\ \A h \in Group : h # g => groups'[h] = groups[h]
             /\ \A s \in Members(g) : shares[<<g, s>>].status = "paid"
             /\ \A x \in Share : shares'[x].status = shares[x].status
             /\ \A s \in Members(g) : bookings'[<<g, s>>].status = "confirmed"
             /\ \A h \in Group, s \in Seat :
                  h # g => bookings'[<<h, s>>] = bookings[<<h, s>>]
  <2> DEFINE S == Members(g)
             new == {<<g, s>> : s \in S}
             paying == {shares[<<g, s>>].payment : s \in S} \ {None}
  <2>0. S \subseteq Seat /\ new \subseteq Share /\ Share \subseteq BookingId
    <3>1. S \subseteq Seat
      BY DEF Members
    <3>2. new \subseteq Share
      BY <3>1 DEF Share
    <3>3. Share \subseteq BookingId
      BY GroupAssumption DEF GroupAssumption, Share
    <3> QED
      BY <3>1, <3>2, <3>3
  <2>1. /\ groups[g].status = "collecting"
        /\ \A s \in S : shares[<<g, s>>].status = "paid" /\ IndexAdmits(s)
    BY <1>6 DEF Confirms
  <2>2. /\ groups' \in [Group -> GroupRow] /\ groups'[g].status = "confirmed"
        /\ \A h \in Group : h # g => groups'[h] = groups[h]
    <3> DEFINE row == [groups[g] EXCEPT !.status = "confirmed", !.expires_at = 0]
    <3>1. row \in GroupRow /\ row.status = "confirmed"
      BY <1>0 DEF GroupRow
    <3>2. groups' = [groups EXCEPT ![g] = row]
      BY <1>6 DEF Confirms
    <3> HIDE DEF row
    <3> QED
      BY <1>0, <3>1, <3>2
  <2>3. ASSUME NEW x \in Share
        PROVE  /\ shares'[x] \in ShareRow /\ shares'[x].status = shares[x].status
               /\ shares'[x].payment = shares[x].payment
    <3> DEFINE row == [shares[x] EXCEPT !.booking = x]
    <3>1. row \in ShareRow /\ row.status = shares[x].status /\ row.payment = shares[x].payment
      BY <1>0, <2>0, ShareUpdates
    <3>2. shares'[x] = shares[x] \/ shares'[x] = row
      BY <1>6 DEF Confirms, Share
    <3> HIDE DEF row
    <3> QED
      BY <1>0, <3>1, <3>2
  <2>4. shares' \in [Share -> ShareRow]
    BY <1>6, <2>3 DEF Confirms, Share
  <2>5. ASSUME NEW p \in paying
        PROVE  /\ p \in Pay /\ payments[p].status # "none"
               /\ ShareOf(p) \in new /\ shares[ShareOf(p)].status \in Due
    <3>1. PICK s \in S : shares[<<g, s>>].payment = p /\ p # None
      OBVIOUS
    <3>2. s \in Seat /\ ShareOK(g, s) /\ shares[<<g, s>>] \in ShareRow
      BY <1>0, <2>0, <3>1 DEF SharesInv, Share
    <3>3. p \in Pay
      BY <3>1, <3>2 DEF ShareRow
    <3>4. payments[p].status # "none" /\ ShareOf(p) = <<g, s>>
      BY <3>1, <3>2 DEF ShareOK
    <3> QED
      BY <2>1, <3>1, <3>3, <3>4 DEF Due
  <2>6. ASSUME NEW p \in Pay
        PROVE  /\ payments'[p] \in SharePayment
               /\ payments'[p].status = payments[p].status
               /\ payments'[p].group = payments[p].group /\ payments'[p].seat = payments[p].seat
               /\ payments'[p].booking = payments[p].booking \/ p \in paying
    <3>1. CASE p \notin paying
      BY <1>0, <1>6, <3>1 DEF Confirms
    <3>2. CASE p \in paying
      <4> DEFINE row == [payments[p] EXCEPT !.booking = <<g, payments[p].seat>>]
      <4>1. <<g, payments[p].seat>> \in BookingId
        BY <2>0, <2>5, <3>2 DEF ShareOf, Share
      <4>2. payments[p] \in SharePayment
        BY <1>0
      <4>3. /\ row \in SharePayment /\ row.status = payments[p].status
            /\ row.group = payments[p].group /\ row.seat = payments[p].seat
        BY <4>1, <4>2, PaymentUpdates
      <4>4. payments'[p] = row
        BY <1>6, <3>2 DEF Confirms
      <4> HIDE DEF row
      <4> QED
        BY <3>2, <4>3, <4>4
    <3> QED
      BY <3>1, <3>2
  <2>7. payments' \in [Pay -> SharePayment]
    BY <1>6, <2>6 DEF Confirms
  <2>8. ASSUME NEW t \in Seat
        PROVE  seats'[t] \in SeatRow /\ IF t \in S THEN seats'[t].status = "booked"
                                                 ELSE seats'[t] = seats[t]
    <3> DEFINE row == [seats[t] EXCEPT !.status = "booked", !.version = @ + 1]
    <3>1. row \in SeatRow /\ row.status = "booked"
      <4> DEFINE r1 == [seats[t] EXCEPT !.status = "booked"]
      <4>1. r1 \in SeatRow /\ r1.status = "booked" /\ r1.version = seats[t].version
        BY <1>0 DEF SeatRow, SeatStatus
      <4>2. row = [r1 EXCEPT !.version = @ + 1]
        BY <4>1
      <4> HIDE DEF r1, row
      <4> QED
        BY <4>1, <4>2 DEF SeatRow
    <3>2. seats'[t] = IF t \in S THEN row ELSE seats[t]
      BY <1>6 DEF Confirms
    <3> HIDE DEF row
    <3> QED
      BY <1>0, <3>1, <3>2
  <2>9. seats' \in [Seat -> SeatRow]
    BY <1>6, <2>8 DEF Confirms
  <2>10. /\ \A s \in S : /\ bookings'[<<g, s>>] \in BookingRow
                         /\ bookings'[<<g, s>>].status = "confirmed"
                         /\ bookings'[<<g, s>>].seat = s
         /\ \A b \in BookingId \ new : bookings'[b] = bookings[b]
         /\ bookings' \in [BookingId -> BookingRow]
    <3>1. \A b \in BookingId : bookings'[b] =
            IF b \in new THEN [user |-> shares[b].claimed_by, seat |-> b[2],
                               status |-> "confirmed", amount |-> shares[b].amount]
            ELSE bookings[b]
      BY <1>6 DEF Confirms
    <3>2. ASSUME NEW s \in S
          PROVE  /\ bookings'[<<g, s>>] \in BookingRow
                 /\ bookings'[<<g, s>>].status = "confirmed"
                 /\ bookings'[<<g, s>>].seat = s
      <4>1. <<g, s>> \in new /\ <<g, s>> \in BookingId /\ shares[<<g, s>>] \in ShareRow
        BY <1>0, <2>0
      <4>2. bookings'[<<g, s>>] = [user |-> shares[<<g, s>>].claimed_by, seat |-> s,
                                   status |-> "confirmed", amount |-> shares[<<g, s>>].amount]
        BY <3>1, <4>1
      <4>3. /\ shares[<<g, s>>].claimed_by \in User \cup {None}
            /\ shares[<<g, s>>].amount \in Nat
        BY <4>1 DEF ShareRow
      <4> QED
        BY <2>0, <4>2, <4>3 DEF BookingRow
    <3>3. ASSUME NEW b \in BookingId PROVE bookings'[b] \in BookingRow
      BY <1>0, <3>1, <3>2
    <3>4. bookings' \in [BookingId -> BookingRow]
      BY <1>6, <3>3 DEF Confirms
    <3> QED
      BY <3>1, <3>2, <3>4
  <2>11. \A h \in Group, s \in Seat : h # g => bookings'[<<h, s>>] = bookings[<<h, s>>]
    <3> SUFFICES ASSUME NEW h \in Group, NEW s \in Seat, h # g
                 PROVE  bookings'[<<h, s>>] = bookings[<<h, s>>]
      OBVIOUS
    <3>1. <<h, s>> \in BookingId \ new
      BY <2>0 DEF Share
    <3> QED
      BY <2>10, <3>1
  <2> HIDE DEF S, new, paying
  <2>12. Kept
    BY <1>4, <2>3, <2>6 DEF Kept
  <2>13. work' \in [Worker -> Job] /\ JobsInv'
    BY <1>0, <1>2, <2>12, JobReturns
  <2>14. GroupTypeOK'
    BY <1>0, <1>2, <1>4, <2>2, <2>4, <2>7, <2>9, <2>10, <2>13 DEF GroupTypeOK, StoreTypeOK, Share
  <2>15. PaymentsInv'
    <3>1. \A p \in paying : shares'[ShareOf(p)].status \in Due
      BY <2>0, <2>3, <2>5
    <3>2. shares'[ShareOf(work[w].payment)].status \in Due
      BY <1>1, <2>3
    <3>3. \A p \in paying : payments[p].status # "none"
      BY <2>5
    <3> QED
      BY <1>0, <1>4, <2>6, <2>12, <3>1, <3>2, <3>3, PaymentsGrow
  <2>16. SharesInv'
    <3> SUFFICES ASSUME NEW h \in Group, NEW t \in Seat PROVE ShareOK(h, t)'
      BY DEF SharesInv
    <3>0. <<h, t>> \in Share
      BY DEF Share
    <3>1. CASE h # g
      BY <1>0, <2>2, <2>3, <2>11, <2>12, <3>0, <3>1, ShareStays
    <3>2. CASE h = g
      <4>1. ShareOK(g, t) /\ shares[<<g, t>>].payment \in Pay \cup {None}
        BY <1>0, <3>0, <3>2 DEF SharesInv, ShareRow
      <4>2. /\ shares'[<<g, t>>].status = shares[<<g, t>>].status
            /\ shares'[<<g, t>>].payment = shares[<<g, t>>].payment
        BY <2>3, <3>0, <3>2
      <4>3. shares[<<g, t>>].payment # None =>
              /\ payments'[shares[<<g, t>>].payment].status # "none"
              /\ payments'[shares[<<g, t>>].payment].group = g
              /\ payments'[shares[<<g, t>>].payment].seat = t
        BY <2>6, <4>1 DEF ShareOK, ShareOf
      <4>4. shares[<<g, t>>].status = "paid" =>
              /\ shares[<<g, t>>].payment # None
              /\ gateway'[shares[<<g, t>>].payment] \in Completed
        BY <1>4, <4>1 DEF ShareOK
      <4> QED
        BY <2>2, <3>2, <4>2, <4>3, <4>4 DEF ShareOK, ShareOf
    <3> QED
      BY <3>1, <3>2
  <2>17. GroupHoldHasGroup'
    <3> SUFFICES ASSUME NEW t \in Seat, seats'[t].status = "group_held"
                 PROVE  \E h \in Group : groups'[h].status = "collecting" /\ t \in Members(h)'
      BY DEF GroupHoldHasGroup
    <3>1. t \notin S /\ seats[t].status = "group_held"
      BY <2>8
    <3>2. PICK h \in Group : groups[h].status = "collecting" /\ t \in Members(h)
      BY <1>0, <3>1 DEF GroupHoldHasGroup
    <3>3. h # g
      BY <3>1, <3>2 DEF S
    <3>4. t \in Members(h)'
      BY <2>3, <3>2 DEF Members, Share
    <3> QED
      BY <2>2, <3>2, <3>3, <3>4
  <2>18. OneConfirmedBookingPerSeat'
    <3> SUFFICES ASSUME NEW b \in BookingId, NEW c \in BookingId,
                        bookings'[b].status = "confirmed", bookings'[c].status = "confirmed",
                        bookings'[b].seat = bookings'[c].seat
                 PROVE  b = c
      BY DEF OneConfirmedBookingPerSeat
    <3>1. ASSUME NEW x \in new, NEW y \in BookingId \ new, bookings'[y].status = "confirmed"
          PROVE  bookings'[x].seat # bookings'[y].seat
      <4>1. PICK s \in S : x = <<g, s>>
        BY DEF new
      <4>2. bookings'[x].seat = s /\ bookings'[y] = bookings[y] /\ IndexAdmits(s)
        BY <2>1, <2>10, <4>1
      <4> QED
        BY <3>1, <4>2 DEF IndexAdmits, Confirmed
    <3>2. CASE b \in new /\ c \in new
      <4>1. PICK s \in S, t \in S : b = <<g, s>> /\ c = <<g, t>>
        BY <3>2 DEF new
      <4> QED
        BY <2>10, <4>1
    <3>3. CASE b \notin new /\ c \notin new
      BY <1>0, <2>10, <3>3 DEF OneConfirmedBookingPerSeat
    <3> QED
      BY <3>1, <3>2, <3>3
  <2>19. GroupInv'
    BY <2>13, <2>14, <2>15, <2>16, <2>17, <2>18 DEF GroupInv
  <2> QED
    BY <2>1, <2>2, <2>3, <2>10, <2>11, <2>19 DEF S
<1> QED
  BY <1>5, <1>6, ConfirmCases

LEMMA RivalOK ==
  ASSUME GroupInv, NEW b \in Rival, NEW u \in User, NEW s \in Seat, RivalBooks(b, u, s)
  PROVE  /\ GroupInv' /\ UNCHANGED <<groups, shares>>
         /\ \A x \in Share : bookings'[x] = bookings[x]
<1>0. /\ GroupTypeOK /\ JobsInv /\ PaymentsInv /\ SharesInv /\ StoreTypeOK
      /\ GroupHoldHasGroup /\ OneConfirmedBookingPerSeat
  BY DEF GroupInv, GroupTypeOK
<1>1. /\ IndexAdmits(s) /\ SetRow(s, BookedRow(seats[s]))
      /\ InsertBooking(b, u, s, PriceNow(seats[s])) /\ Release(s, u)
      /\ UNCHANGED <<groups, shares, payments, gateway, work, sweep>>
  BY DEF RivalBooks
<1>2. b \in BookingId /\ b \notin Share
  BY GroupAssumption DEF GroupAssumption, Share
<1>3. PriceNow(seats[s]) \in Nat /\ seats[s] \in SeatRow
  BY <1>0, PriceInPrices DEF PriceNow, StoreTypeOK, SeatRow
<1>4. BookedRow(seats[s]) \in SeatRow /\ BookedRow(seats[s]).status = "booked"
  BY <1>3, RowUpdates DEF BookedRow, SeatRow
<1>5. /\ seats' \in [Seat -> SeatRow]
      /\ \A t \in Seat : seats'[t].status = "group_held" => seats[t].status = "group_held"
  BY <1>0, <1>1, <1>4, SetRowType
<1>6. /\ bookings' \in [BookingId -> BookingRow]
      /\ bookings'[b].seat = s
      /\ \A c \in BookingId : c # b => bookings'[c] = bookings[c]
  <2>1. PICK amount \in Nat : InsertBooking(b, u, s, amount)
    BY <1>1, <1>3
  <2>2. /\ bookings' \in [BookingId -> BookingRow]
        /\ bookings'[b] = [user |-> u, seat |-> s, status |-> "confirmed", amount |-> amount]
        /\ \A c \in BookingId : c # b => bookings'[c] = bookings[c]
    BY <1>0, <1>2, <2>1, InsertType
  <2> QED
    BY <2>2
<1>7. locks' \in [Seat -> Lock]
  BY <1>0, <1>1, RedisType
<1>8. Kept
  BY <1>1 DEF Kept
<1>9. GroupTypeOK' /\ JobsInv'
  BY <1>0, <1>1, <1>5, <1>6, <1>7, <1>8, JobsStay DEF GroupTypeOK, StoreTypeOK
<1>10. PaymentsInv'
  BY <1>0, <1>1, <1>8, PaymentsGrow
<1>11. \A x \in Share : bookings'[x] = bookings[x]
  BY <1>2, <1>6, GroupAssumption DEF GroupAssumption, Share
<1>12. SharesInv'
  BY <1>0, <1>1, <1>8, <1>11, ShareStays DEF SharesInv, Share
<1>13. GroupHoldHasGroup'
  BY <1>0, <1>1, <1>5 DEF GroupHoldHasGroup, Members
<1>14. OneConfirmedBookingPerSeat'
  BY <1>0, <1>1, <1>2, <1>6 DEF OneConfirmedBookingPerSeat, IndexAdmits, Confirmed
<1> QED
  BY <1>1, <1>9, <1>10, <1>11, <1>12, <1>13, <1>14 DEF GroupInv

----------------------------------------------------------------------------
(* The invariant holds.                                                    *)

LEMMA GroupInitOK == GroupInit => GroupInv
<1> SUFFICES ASSUME GroupInit PROVE GroupInv
  OBVIOUS
<1>1. StoreTypeOK
  <2>1. ASSUME NEW s \in Seat
        PROVE  seats[s] \in SeatRow /\ seats[s].status # "group_held"
    BY <2>1 DEF GroupInit, FreshSeat, SeatRow, SeatStatus
  <2>2. Unlocked \in Lock /\ NoBooking \in BookingRow
    BY DEF Unlocked, Lock, NoBooking, BookingRow
  <2>3. seats \in [Seat -> SeatRow]
    BY <2>1 DEF GroupInit
  <2> QED
    BY <2>2, <2>3 DEF GroupInit, StoreTypeOK
<1>2. NoGroup \in GroupRow /\ NoShare \in ShareRow /\ NoPayment \in SharePayment /\ Free \in Job
  BY DEF NoGroup, GroupRow, NoShare, ShareRow, NoPayment, SharePayment, Free, Job, WorkLabel
<1>3. GroupTypeOK
  BY <1>1, <1>2, GroupAssumption DEF GroupAssumption, GroupInit, GroupTypeOK
<1>4. JobsInv
  BY FreeJob DEF GroupInit, JobsInv
<1>5. PaymentsInv
  BY DEF GroupInit, PaymentsInv, PaymentOK, NoPayment
<1>6. SharesInv
  <2>1. Group \X Seat \subseteq BookingId
    BY GroupAssumption DEF GroupAssumption
  <2> SUFFICES ASSUME NEW g \in Group, NEW s \in Seat PROVE ShareOK(g, s)
    BY DEF SharesInv
  <2>2. /\ shares[<<g, s>>] = NoShare /\ groups[g] = NoGroup /\ bookings[<<g, s>>] = NoBooking
    BY <2>1 DEF GroupInit
  <2> QED
    BY <2>2 DEF ShareOK, NoShare, NoGroup, NoBooking
<1>7. GroupHoldHasGroup
  BY DEF GroupInit, GroupHoldHasGroup, FreshSeat
<1>8. OneConfirmedBookingPerSeat
  BY DEF GroupInit, OneConfirmedBookingPerSeat, NoBooking
<1> QED
  BY <1>3, <1>4, <1>5, <1>6, <1>7, <1>8 DEF GroupInv

LEMMA StutterOK ==
  ASSUME GroupInv, UNCHANGED vars
  PROVE  GroupInv' /\ Quiet
<1> USE DEF vars, tableVars, storeVars
<1>1. Quiet
  BY DEF Quiet
<1>2. GroupTypeOK' /\ JobsInv'
  BY <1>1, QuietKeeps, JobsStay DEF GroupInv, GroupTypeOK, StoreTypeOK
<1> QED
  BY <1>1, <1>2, QuietOK

\* A step decides nothing, or is one of those that do.
LEMMA StepCases ==
  ASSUME GroupInv, [GroupNext]_vars
  PROVE  \/ GroupInv' /\ Quiet
         \/ /\ UNCHANGED sweep
            /\ \/ \E u \in Creator, sel \in Selection : CreateGroup(u, sel)
               \/ \E g \in Group : CancelGroup(g) \/ ExpireGroup(g)
               \/ \E w \in Worker : PayCommit(w) \/ MarkShare(w) \/ Confirm(w)
         \/ \E b \in Rival, u \in User, s \in Seat : RivalBooks(b, u, s)
<1>1. CASE GroupTick \/ SweepUpdate \/ UNCHANGED vars
  BY <1>1, GroupTickOK, SweepOK, StutterOK
<1>2. CASE \E b \in Rival, u \in User \ Creator, s \in Seat : RivalBooks(b, u, s)
  BY <1>2
<1>3. ASSUME UNCHANGED sweep, NEW w \in Worker, Arrive(w) \/ GroupCrash(w)
      PROVE  GroupInv' /\ Quiet
  BY <1>3, ReadOK, ReturnOK
<1>4. ASSUME UNCHANGED sweep, NEW w \in Worker, Continue(w)
      PROVE  (GroupInv' /\ Quiet) \/ PayCommit(w) \/ MarkShare(w) \/ Confirm(w)
  BY <1>4, ClaimUpdateOK, FulfilShareOK, FailShareOK, ReturnOK DEF Continue
<1>5. ASSUME UNCHANGED sweep, NEW p \in Pay, CustomerPays(p) \/ SessionEnds(p)
      PROVE  GroupInv' /\ Quiet
  BY <1>5, SessionOK
<1> QED
  BY <1>1, <1>2, <1>3, <1>4, <1>5 DEF GroupNext

LEMMA GroupNextOK == GroupInv /\ [GroupNext]_vars => GroupInv'
  BY StepCases, CreateGroupOK, BreakOK, PayCommitOK, MarkShareOK, ConfirmOK, RivalOK

LEMMA GroupInvHolds == GroupSpec => []GroupInv
  BY GroupInitOK, GroupNextOK, PTL DEF GroupSpec

\* Every table and every invocation keeps its type.
THEOREM TypeCorrectness == GroupSpec => []GroupTypeOK
<1>1. GroupInv => GroupTypeOK
  BY DEF GroupInv
<1> QED
  BY <1>1, GroupInvHolds, PTL

\* A seat is sold at most once, whether a group or a direct booking gets it:
\* the partial unique index stops a confirmation as a whole.
THEOREM NoDoubleSale == GroupSpec => []OneConfirmedBookingPerSeat
<1>1. GroupInv => OneConfirmedBookingPerSeat
  BY DEF GroupInv
<1> QED
  BY <1>1, GroupInvHolds, PTL

\* Nobody's share counts as paid without a completed session behind it.
THEOREM PaidMeansCompleted == GroupSpec => []PaidShareWasCompleted
<1>1. GroupInv => PaidShareWasCompleted
  <2> SUFFICES ASSUME GroupInv, NEW g \in Group, NEW s \in Seat, shares[<<g, s>>].status = "paid"
               PROVE  gateway[shares[<<g, s>>].payment] \in Completed
    BY DEF PaidShareWasCompleted
  <2>1. ShareOK(g, s)
    BY DEF GroupInv, SharesInv
  <2> QED
    BY <2>1 DEF ShareOK
<1> QED
  BY <1>1, GroupInvHolds, PTL

\* No seat stays in the hold of a group that is over.
THEOREM HoldsEndWithGroup == GroupSpec => []GroupHoldHasGroup
<1>1. GroupInv => GroupHoldHasGroup
  BY DEF GroupInv
<1> QED
  BY <1>1, GroupInvHolds, PTL

\* An event is only answered when its payment has arrived at the share: a
\* crash anywhere in the handler leaves it to be delivered again.
THEOREM AnsweredMeansLanded == GroupSpec => []AnsweredPaymentLanded
<1>1. GroupInv => AnsweredPaymentLanded
  BY DEF GroupInv, PaymentsInv, PaymentOK, ShareOf, Due, AnsweredPaymentLanded
<1> QED
  BY <1>1, GroupInvHolds, PTL

----------------------------------------------------------------------------
(* All or nothing.                                                         *)

Outcome(g) == IF groups[g].status \in {"none", "collecting"} THEN groups[g].status
              ELSE IF groups[g].status = "confirmed" THEN "made" ELSE "broken"
Paid(g) == {s \in Members(g) : shares[<<g, s>>].status = "paid"}
Booked(g) == {s \in Members(g) : bookings[<<g, s>>].status # "none"}

\* The deal of h looks as before.
SameDeal(h) ==
  /\ Outcome(h)' = Outcome(h) /\ Members(h)' = Members(h)
  /\ Paid(h)' = Paid(h) /\ Booked(h)' = Booked(h)

LEMMA SameDealOf ==
  ASSUME NEW h \in Group, groups'[h].status = groups[h].status,
         \A s \in Seat : /\ shares'[<<h, s>>].status = shares[<<h, s>>].status
                         /\ bookings'[<<h, s>>].status = bookings[<<h, s>>].status
  PROVE  SameDeal(h)
<1>1. Members(h)' = Members(h)
  BY DEF Members
<1>2. Members(h) \subseteq Seat
  BY DEF Members
<1>3. Paid(h)' = Paid(h) /\ Booked(h)' = Booked(h)
  BY <1>1, <1>2 DEF Paid, Booked
<1> QED
  BY <1>1, <1>3 DEF SameDeal, Outcome

\* What a step may do to the deal of g.
DealOf(g) ==
  \/ /\ Outcome(g) = "none" /\ Outcome(g)' = "collecting"
     /\ Members(g)' # {} /\ Paid(g)' = Paid(g) /\ Booked(g)' = Booked(g)
  \/ /\ Outcome(g) = "collecting" /\ Outcome(g)' = Outcome(g)
     /\ \E s \in Members(g) \ Paid(g) : Paid(g)' = Paid(g) \cup {s}
     /\ Members(g)' = Members(g) /\ Booked(g)' = Booked(g)
  \/ /\ Paid(g) = Members(g) /\ Outcome(g) = "collecting" /\ Outcome(g)' = "made"
     /\ Booked(g)' = Members(g) /\ Members(g)' = Members(g) /\ Paid(g)' = Paid(g)
  \/ /\ Outcome(g) = "collecting" /\ Outcome(g)' = "broken" /\ Paid(g)' = {}
     /\ Members(g)' = Members(g) /\ Booked(g)' = Booked(g)
  \/ /\ Outcome(g) = "made" /\ Outcome(g)' = Outcome(g)
     /\ Paid(g)' \subseteq Paid(g)
     /\ Members(g)' = Members(g) /\ Booked(g)' = Booked(g)

DealStep ==
  \/ \A g \in Group : SameDeal(g)
  \/ \E g \in Group : DealOf(g) /\ \A h \in Group : h # g => SameDeal(h)

LEMMA QuietDeal ==
  ASSUME Quiet PROVE DealStep
BY SameDealOf DEF Quiet, DealStep, Share

LEMMA CreateDeal ==
  ASSUME GroupInv, NEW u \in Creator, NEW sel \in Selection, CreateGroup(u, sel), UNCHANGED sweep
  PROVE  DealStep
<1>1. PICK g \in Group, S \in (SUBSET Seat) \ {{}} :
              /\ groups[g].status = "none"
              /\ groups'[g].status = "collecting"
              /\ \A h \in Group : h # g => groups'[h] = groups[h]
              /\ \A s \in S : shares'[<<g, s>>].status = "unpaid"
              /\ \A s \in Seat \ S : shares'[<<g, s>>] = shares[<<g, s>>]
              /\ \A h \in Group, s \in Seat : h # g => shares'[<<h, s>>] = shares[<<h, s>>]
              /\ bookings' = bookings
  BY CreateGroupOK
<1>2. \A s \in Seat : shares[<<g, s>>].status = "none" /\ bookings[<<g, s>>].status = "none"
  BY <1>1 DEF GroupInv, SharesInv, ShareOK
<1>3. Members(g) = {} /\ Members(g)' = S
  BY <1>1, <1>2 DEF Members
<1>4. Paid(g) = {} /\ Paid(g)' = {}
  BY <1>1, <1>3 DEF Paid
<1>5. Booked(g) = {} /\ Booked(g)' = {}
  BY <1>1, <1>2, <1>3 DEF Booked
<1>6. Outcome(g) = "none" /\ Outcome(g)' = "collecting"
  BY <1>1 DEF Outcome
<1>7. \A h \in Group : h # g => SameDeal(h)
  BY <1>1, SameDealOf
<1> QED
  BY <1>3, <1>4, <1>5, <1>6, <1>7 DEF DealStep, DealOf

LEMMA BreakDeal ==
  ASSUME GroupInv, NEW g \in Group, CancelGroup(g) \/ ExpireGroup(g), UNCHANGED sweep
  PROVE  DealStep
<1>1. /\ bookings' = bookings
      /\ groups[g].status = "collecting" /\ groups'[g].status \in {"expired", "cancelled"}
      /\ \A h \in Group : h # g => groups'[h] = groups[h]
      /\ \A h \in Group, s \in Seat :
              /\ h # g => shares'[<<h, s>>] = shares[<<h, s>>]
              /\ shares'[<<h, s>>].status = "none" <=> shares[<<h, s>>].status = "none"
              /\ shares'[<<g, s>>].status # "paid"
  BY BreakOK
<1>2. Members(g)' = Members(g)
  BY <1>1 DEF Members
<1>3. Paid(g)' = {} /\ Booked(g)' = Booked(g)
  BY <1>1, <1>2 DEF Paid, Booked, Members
<1>4. Outcome(g) = "collecting" /\ Outcome(g)' = "broken"
  BY <1>1 DEF Outcome
<1>5. \A h \in Group : h # g => SameDeal(h)
  BY <1>1, SameDealOf
<1> QED
  BY <1>2, <1>3, <1>4, <1>5 DEF DealStep, DealOf

LEMMA MarkDeal ==
  ASSUME GroupInv, NEW w \in Worker, MarkShare(w), UNCHANGED sweep
  PROVE  DealStep
<1>1. groups' = groups /\ bookings' = bookings
  BY MarkShareOK
<1>2. PICK g \in Group, s \in Seat :
              /\ shares[<<g, s>>].status # "none" /\ groups[g].status # "none"
              /\ \A x \in Share : x # <<g, s>> => shares'[x] = shares[x]
              /\ IF groups[g].status = "collecting"
                 THEN \/ shares'[<<g, s>>] = shares[<<g, s>>]
                      \/ shares'[<<g, s>>].status = "paid"
                 ELSE shares'[<<g, s>>].status = "refunded"
  BY MarkShareOK
<1>3. \A h \in Group : h # g => SameDeal(h)
  BY <1>1, <1>2, SameDealOf DEF Share
<1>4. \A t \in Seat : t # s => shares'[<<g, t>>] = shares[<<g, t>>]
  BY <1>2 DEF Share
<1>5. Members(g)' = Members(g) /\ s \in Members(g) /\ Members(g) \subseteq Seat
  BY <1>2, <1>4 DEF Members
<1>6. Booked(g)' = Booked(g) /\ Outcome(g)' = Outcome(g)
  BY <1>1, <1>5 DEF Booked, Outcome
<1>7. CASE shares'[<<g, s>>].status = shares[<<g, s>>].status
  <2>1. SameDeal(g)
    BY <1>1, <1>4, <1>7, SameDealOf
  <2> QED
    BY <1>3, <2>1 DEF DealStep
<1>8. CASE groups[g].status = "collecting" /\ shares'[<<g, s>>].status # shares[<<g, s>>].status
  <2>1. shares'[<<g, s>>].status = "paid" /\ shares[<<g, s>>].status # "paid"
    BY <1>2, <1>8
  <2>2. Paid(g)' = Paid(g) \cup {s} /\ s \notin Paid(g)
    BY <1>4, <1>5, <2>1 DEF Paid
  <2>3. Outcome(g) = "collecting"
    BY <1>8 DEF Outcome
  <2> QED
    BY <1>3, <1>5, <1>6, <2>2, <2>3 DEF DealStep, DealOf
<1>9. CASE groups[g].status # "collecting" /\ shares'[<<g, s>>].status # shares[<<g, s>>].status
  <2>1. Paid(g)' = Paid(g) \ {s}
    BY <1>2, <1>4, <1>5, <1>9 DEF Paid
  <2>2. CASE groups[g].status = "confirmed"
    BY <1>3, <1>5, <1>6, <2>1, <2>2 DEF DealStep, DealOf, Outcome
  <2>3. CASE groups[g].status # "confirmed"
    <3>1. groups[g].status \in {"expired", "cancelled"}
      BY <1>2, <1>9, <2>3 DEF GroupInv, GroupTypeOK, GroupRow
    <3>2. shares[<<g, s>>].status # "paid"
      BY <3>1 DEF GroupInv, SharesInv, ShareOK
    <3>3. Paid(g)' = Paid(g)
      BY <2>1, <3>2 DEF Paid
    <3>4. SameDeal(g)
      BY <1>5, <1>6, <3>3 DEF SameDeal
    <3> QED
      BY <1>3, <3>4 DEF DealStep
  <2> QED
    BY <2>2, <2>3
<1> QED
  BY <1>7, <1>8, <1>9

LEMMA ConfirmDeal ==
  ASSUME GroupInv, NEW w \in Worker, Confirm(w), UNCHANGED sweep
  PROVE  DealStep
<1>1. CASE UNCHANGED <<groups, shares, bookings>>
  BY <1>1, SameDealOf DEF DealStep
<1>2. ASSUME NEW g \in Group,
             groups[g].status = "collecting", groups'[g].status = "confirmed",
             \A h \in Group : h # g => groups'[h] = groups[h],
             \A s \in Members(g) : shares[<<g, s>>].status = "paid",
             \A x \in Share : shares'[x].status = shares[x].status,
             \A s \in Members(g) : bookings'[<<g, s>>].status = "confirmed",
             \A h \in Group, s \in Seat : h # g => bookings'[<<h, s>>] = bookings[<<h, s>>]
      PROVE  DealStep
  <2>1. Members(g)' = Members(g) /\ Members(g) \subseteq Seat
    BY <1>2 DEF Members, Share
  <2>2. Paid(g) = Members(g) /\ Paid(g)' = Members(g)
    BY <1>2, <2>1 DEF Paid, Share
  <2>3. Booked(g)' = Members(g)
    BY <1>2, <2>1 DEF Booked
  <2>4. Outcome(g) = "collecting" /\ Outcome(g)' = "made"
    BY <1>2 DEF Outcome
  <2>5. \A h \in Group : h # g => SameDeal(h)
    BY <1>2, SameDealOf DEF Share
  <2> QED
    BY <2>1, <2>2, <2>3, <2>4, <2>5 DEF DealStep, DealOf
<1> QED
  BY <1>1, <1>2, ConfirmOK

LEMMA DealSteps == GroupInv /\ [GroupNext]_vars => DealStep
<1>1. ASSUME GroupInv, NEW w \in Worker, PayCommit(w), UNCHANGED sweep
      PROVE  DealStep
  <2>1. UNCHANGED <<groups, shares, bookings>>
    BY <1>1, PayCommitOK
  <2> QED
    BY <2>1, SameDealOf DEF DealStep
<1>2. ASSUME GroupInv, NEW b \in Rival, NEW u \in User, NEW s \in Seat, RivalBooks(b, u, s)
      PROVE  DealStep
  <2>1. UNCHANGED <<groups, shares>> /\ \A x \in Share : bookings'[x] = bookings[x]
    BY <1>2, RivalOK
  <2> QED
    BY <2>1, SameDealOf DEF DealStep, Share
<1> QED
  BY <1>1, <1>2, StepCases, QuietDeal, CreateDeal, BreakDeal, MarkDeal, ConfirmDeal

\* "All or nothing": every step of every handler is one of the deal's, or none
\* of its business; whatever comes last before the deadline, the group's seats
\* are all booked, and paid, or none is and nobody's share stays paid.
THEOREM GroupImplementsDeal == GroupSpec => ImplementsGroupDeal
<1> DEFINE outcome == [g \in Group |-> Outcome(g)]
           members == [g \in Group |-> Members(g)]
           paid == [g \in Group |-> Paid(g)]
           booked == [g \in Group |-> Booked(g)]
<1>1. GroupInit => Deals!DealInit
  <2> SUFFICES ASSUME GroupInit PROVE Deals!DealInit
    OBVIOUS
  <2>1. \A g \in Group : Members(g) = {} /\ groups[g].status = "none"
    BY DEF GroupInit, Members, NoShare, NoGroup
  <2> QED
    BY <2>1 DEF Deals!DealInit
<1>2. DealStep => [Deals!DealNext]_Deals!dealVars
  <2>1. ASSUME \A g \in Group : SameDeal(g)
        PROVE  UNCHANGED Deals!dealVars
    BY <2>1 DEF SameDeal, Outcome, Paid, Booked, Deals!dealVars
  <2>2. ASSUME NEW g \in Group, DealOf(g), \A h \in Group : h # g => SameDeal(h)
        PROVE  Deals!DealNext
    <3> USE DEF SameDeal, Outcome, Paid, Booked
    <3>1. CASE /\ Outcome(g) = "none" /\ Outcome(g)' = "collecting"
               /\ Members(g)' # {} /\ Paid(g)' = Paid(g) /\ Booked(g)' = Booked(g)
      <4>1. Members(g)' \in (SUBSET Seat) \ {{}}
        BY <3>1 DEF Members
      <4>2. members' = [members EXCEPT ![g] = Members(g)']
        BY <2>2
      <4>3. outcome[g] = "none" /\ outcome' = [outcome EXCEPT ![g] = "collecting"]
        BY <2>2, <3>1
      <4>4. paid' = paid /\ booked' = booked
        BY <2>2, <3>1
      <4> QED
        BY <4>1, <4>2, <4>3, <4>4 DEF Deals!DealNext, Deals!Open, Deals!Decide
    <3>2. CASE /\ Outcome(g) = "collecting" /\ Outcome(g)' = Outcome(g)
               /\ \E s \in Members(g) \ Paid(g) : Paid(g)' = Paid(g) \cup {s}
               /\ Members(g)' = Members(g) /\ Booked(g)' = Booked(g)
      <4>1. PICK s \in Members(g) \ Paid(g) : Paid(g)' = Paid(g) \cup {s}
        BY <3>2
      <4>2. s \in members[g] \ paid[g] /\ paid' = [paid EXCEPT ![g] = @ \cup {s}]
        BY <2>2, <4>1
      <4>3. outcome[g] = "collecting" /\ outcome' = outcome
        BY <2>2, <3>2
      <4>4. members' = members /\ booked' = booked
        BY <2>2, <3>2
      <4> QED
        BY <4>2, <4>3, <4>4 DEF Deals!DealNext, Deals!Pay
    <3>3. CASE /\ Paid(g) = Members(g) /\ Outcome(g) = "collecting" /\ Outcome(g)' = "made"
               /\ Booked(g)' = Members(g) /\ Members(g)' = Members(g) /\ Paid(g)' = Paid(g)
      <4>1. paid[g] = members[g] /\ booked' = [booked EXCEPT ![g] = members[g]]
        BY <2>2, <3>3
      <4>2. outcome[g] = "collecting" /\ outcome' = [outcome EXCEPT ![g] = "made"]
        BY <2>2, <3>3
      <4>3. members' = members /\ paid' = paid
        BY <2>2, <3>3
      <4> QED
        BY <4>1, <4>2, <4>3 DEF Deals!DealNext, Deals!Make, Deals!Decide
    <3>4. CASE /\ Outcome(g) = "collecting" /\ Outcome(g)' = "broken" /\ Paid(g)' = {}
               /\ Members(g)' = Members(g) /\ Booked(g)' = Booked(g)
      <4>1. outcome[g] = "collecting" /\ outcome' = [outcome EXCEPT ![g] = "broken"]
        BY <2>2, <3>4
      <4>2. paid' = [paid EXCEPT ![g] = {}]
        BY <2>2, <3>4
      <4>3. members' = members /\ booked' = booked
        BY <2>2, <3>4
      <4> QED
        BY <4>1, <4>2, <4>3 DEF Deals!DealNext, Deals!Break, Deals!Decide
    <3>5. CASE /\ Outcome(g) = "made" /\ Outcome(g)' = Outcome(g)
               /\ Paid(g)' \subseteq Paid(g)
               /\ Members(g)' = Members(g) /\ Booked(g)' = Booked(g)
      <4>1. Paid(g)' \in SUBSET paid[g] /\ paid' = [paid EXCEPT ![g] = Paid(g)']
        BY <2>2, <3>5
      <4>2. outcome[g] = "made" /\ outcome' = outcome
        BY <2>2, <3>5
      <4>3. members' = members /\ booked' = booked
        BY <2>2, <3>5
      <4> QED
        BY <4>1, <4>2, <4>3 DEF Deals!DealNext, Deals!Afterwards
    <3> QED
      BY <2>2, <3>1, <3>2, <3>3, <3>4, <3>5 DEF DealOf
  <2> QED
    BY <2>1, <2>2 DEF DealStep
<1> QED
  BY <1>1, <1>2, DealSteps, GroupInvHolds, PTL DEF GroupSpec, ImplementsGroupDeal, Deals!DealSpec
=============================================================================

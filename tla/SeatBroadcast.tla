--------------------------- MODULE SeatBroadcast ----------------------------
(***************************************************************************)
(* How the seat map of a browser follows the seats table:                  *)
(* realtime/events_broadcast.py and websocket.py, hooks/useWebSocket.js    *)
(* and booking/BookingContext.jsx.  A handler commits a row, reads it back *)
(* and publishes it; Redis hands the message to every worker that is       *)
(* subscribed; a worker forwards it to the sockets connected to it.  The   *)
(* browser also fetches the whole map, and whatever arrives replaces what  *)
(* it shows.  The handlers are those of routers/seats.py and bookings.py   *)
(* in short (SeatBooking has them step by step): the locks in Redis are    *)
(* left out, since each of them may end at any time, and nothing here      *)
(* relies on a lock that lasts.                                            *)
(***************************************************************************)
EXTENDS Naturals, Sequences

CONSTANTS
  Client,      \* browsers, each of a user of its own
  Watching,    \* those whose page is followed; the others only send requests
  Worker,      \* API processes with a subscriber
  Handler,     \* concurrent handler invocations
  Seat,        \* the seats of the event shown
  None,
  MaxCommits,  \* bound on the commits per seat
  MaxFaults,   \* bound on lost sockets, messages, subscriptions and handlers,
               \* on requests in vain and on holds that run out
  MaxFetches   \* bound on a browser's fetches under way

ASSUME BroadcastAssumption ==
  /\ None \notin Client \cup Worker \cup Seat /\ Watching \subseteq Client
  /\ MaxCommits \in Nat /\ MaxFaults \in Nat /\ MaxFetches \in Nat

VARIABLES
  row,      \* per seat: its row
  booking,  \* per seat: whose booking of it is confirmed
  handler,  \* per handler: where it is and what it has read
  feed,     \* per worker: the messages of its subscription, or that it has none
  socket,   \* per client: the worker its socket is connected to
  inbox,    \* per client: the messages on its socket
  view,     \* per client and seat: the row it shows, and whether a message said so
  selected, \* per client: selectedSeat
  fetches,  \* per client: the fetches that are due or under way
  missed,   \* history, per client: whether it has missed anything, and a fetch healed it
  published,\* history, per seat: the row in the message about it published last
  overtaken,\* history: seats with an older row published after a newer one
  belated,  \* history: clients whose hold was over when they heard that they have it
  faults    \* history: what went wrong or was in vain so far

seatVars == <<row, booking>>
serverVars == <<seatVars, handler>>
wireVars == <<feed, socket, inbox>>
clientVars == <<view, selected, fetches>>
historyVars == <<missed, published, overtaken, belated, faults>>
vars == <<serverVars, wireVars, clientVars, historyVars>>

----------------------------------------------------------------------------

\* n counts the commits of the row; by is locked_by.
Row == [status: {"available", "locked", "booked"}, by: Client \cup {None}, n: 0..MaxCommits]
FreshRow == [status |-> "available", by |-> None, n |-> 0]

Message == [type: {"seat_update", "pricing_update"}, seat: Seat, row: Row]

Action == {"locked", "released", "expired", "booked", "cancelled"}

\* _SOLD_COUNT_CHANGED
SoldCountChanged == {"booked", "cancelled"}

Work == [pc: {"idle", "update", "read", "publish", "pricing", "answer"}, action: Action \cup {None},
         seat: Seat \cup {None}, by: Client \cup {None}, seen: Row]
Idle == [pc |-> "idle", action |-> None, seat |-> None, by |-> None, seen |-> FreshRow]

\* whole: history, nothing was missed since the server has read the rows.
Fetch == [read: BOOLEAN, rows: [Seat -> Row], whole: BOOLEAN]
Asked == [read |-> FALSE, rows |-> [s \in Seat |-> FreshRow], whole |-> TRUE]

BroadcastTypeOK ==
  /\ row \in [Seat -> Row] /\ booking \in [Seat -> Client \cup {None}] /\ handler \in [Handler -> Work]
  /\ \A w \in Worker : feed[w].up \in BOOLEAN /\ feed[w].messages \in Seq(Message)
  /\ socket \in [Client -> Worker \cup {None}]
  /\ \A c \in Client : /\ inbox[c] \in Seq(Message)
                       /\ socket[c] = None => inbox[c] = <<>>
                       /\ Len(fetches[c]) <= MaxFetches /\ fetches[c] \in Seq(Fetch)
  /\ view \in [Client -> [Seat -> [row: Row, told: BOOLEAN]]]
  /\ selected \in [Client -> Seat \cup {None}]
  /\ missed \in [Client -> {"never", "yes", "healed"}]
  /\ published \in [Seat -> Row] /\ overtaken \subseteq Seat
  /\ belated \subseteq Client /\ faults \in 0..MaxFaults

Mine(c, r) == r.status = "locked" /\ r.by = c

\* Everybody has loaded the page, some hold a seat, and no socket is open yet.
BroadcastInit ==
  /\ row \in [Seat -> {r \in Row : r.n = 0 /\ (r.status = "locked" <=> r.by # None)}]
  /\ booking \in [Seat -> Client \cup {None}]
  /\ \A s \in Seat : booking[s] # None <=> row[s].status = "booked"
  /\ selected \in [Client -> Seat \cup {None}]
  /\ \A c \in Client : selected[c] # None => Mine(c, row[selected[c]])
  /\ handler = [h \in Handler |-> Idle]
  /\ feed = [w \in Worker |-> [up |-> TRUE, messages |-> <<>>]]
  /\ socket = [c \in Client |-> None] /\ inbox = [c \in Client |-> <<>>]
  /\ view = [c \in Client |-> [s \in Seat |-> [row |-> row[s], told |-> FALSE]]]
  /\ fetches = [c \in Client |-> <<>>]
  /\ missed = [c \in Client |-> "never"] /\ published = row /\ overtaken = {} /\ belated = {} /\ faults = 0

----------------------------------------------------------------------------
(* The handlers.                                                           *)

At(h, label) == handler[h].pc = label
Go(h, label) == handler' = [handler EXCEPT ![h].pc = label]

\* A client does one thing at a time (the locking and booking flags).
Acting(c) == \E h \in Handler : ~At(h, "idle") /\ handler[h].by = c

Fault == faults < MaxFaults /\ faults' = faults + 1

Lockable(s) == row[s].status \in {"available", "locked"}

\* A request or a sweep that has written nothing yet.
Starts(h, label, action, s, c) ==
  /\ At(h, "idle")
  /\ handler' = [handler EXCEPT ![h] = [Idle EXCEPT !.pc = label, !.action = action,
                                                    !.seat = s, !.by = c]]
  /\ UNCHANGED <<seatVars, wireVars, clientVars, missed, published, overtaken, belated>>

\* The UPDATE and its commit.
Write(s, status, by) ==
  /\ row[s].n < MaxCommits
  /\ row' = [row EXCEPT ![s] = [status |-> status, by |-> by, n |-> @.n + 1]]

\* A request whose UPDATE is its first effect.
Commits(h, action, s, c, status, by) ==
  /\ At(h, "idle") /\ Write(s, status, by)
  /\ handler' = [handler EXCEPT ![h] = [pc |-> "read", action |-> action, seat |-> s,
                                        by |-> c, seen |-> row[s]]]
  /\ UNCHANGED <<wireVars, clientVars, historyVars>>

\* selectSeat, on a seat that is not selected.
Lock(h, s, c) ==
  /\ ~Acting(c) /\ selected[c] # s /\ Lockable(s)
  /\ Commits(h, "locked", s, c, "locked", c) /\ UNCHANGED booking

\* already_owned: the row is left as it is.
LockAgain(h, s, c) ==
  /\ ~Acting(c) /\ selected[c] # s /\ Lockable(s)
  /\ Fault /\ Starts(h, "answer", "locked", s, c)

\* releaseHold, and the release of a seat before another one is selected or
\* when the page is closed: the lock is released, or was not the client's.
Unlock(h, s, c) ==
  /\ ~Acting(c) /\ selected[c] = s
  /\ \/ Starts(h, "update", "released", s, c) /\ UNCHANGED faults
     \/ Fault /\ Starts(h, "answer", "released", s, c)

\* The row is freed whoever holds it by now, if it is held, and published.
UnlockRow(h) ==
  LET s == handler[h].seat IN
  /\ At(h, "update") /\ handler[h].action = "released" /\ Go(h, "read")
  /\ IF row[s].status = "locked" THEN Write(s, "available", None) /\ UNCHANGED faults
     ELSE Fault /\ UNCHANGED row
  /\ UNCHANGED <<booking, wireVars, clientVars, missed, published, overtaken, belated>>

\* release_expired_locks: seats are selected first and then updated by id.
Expire(h, s) ==
  /\ row[s].status = "locked"
  /\ Starts(h, "update", "expired", s, None) /\ UNCHANGED faults

ExpireRow(h) ==
  /\ At(h, "update") /\ handler[h].action = "expired" /\ Go(h, "read")
  /\ Write(handler[h].seat, "available", None)
  /\ UNCHANGED <<booking, wireVars, clientVars, historyVars>>

\* confirmBooking, when the claim and uq_one_confirmed_booking_per_seat let it.
Book(h, s, c) ==
  /\ ~Acting(c) /\ selected[c] = s /\ Lockable(s) /\ booking[s] = None
  /\ Commits(h, "booked", s, c, "booked", None)
  /\ booking' = [booking EXCEPT ![s] = c]

\* cancel_booking: the seat by its id.
Cancel(h, s, c) ==
  /\ ~Acting(c) /\ booking[s] = c
  /\ Commits(h, "cancelled", s, c, "available", None)
  /\ booking' = [booking EXCEPT ![s] = None]

\* Mutant: the row is not read again after the UPDATE.
ReadRowCached(h) ==
  /\ At(h, "read") /\ Go(h, "publish")
  /\ UNCHANGED <<seatVars, wireVars, clientVars, historyVars>>

\* broadcast_seat_update: db.refresh.
ReadRow(h) ==
  /\ At(h, "read")
  /\ handler' = [handler EXCEPT ![h].pc = "publish", ![h].seen = row[handler[h].seat]]
  /\ UNCHANGED <<seatVars, wireVars, clientVars, historyVars>>

\* Mutant: one worker serves its own sockets directly.
PublishLocally(m) ==
  \E own \in Worker :
    /\ inbox' = [c \in Client |-> IF socket[c] = own THEN Append(inbox[c], m) ELSE inbox[c]]
    /\ feed' = [w \in Worker |-> IF w # own /\ feed[w].up
                                 THEN [feed[w] EXCEPT !.messages = Append(@, m)] ELSE feed[w]]
    /\ UNCHANGED socket

\* PUBLISH: one order for all that are subscribed at the moment.
Publish(m) ==
  /\ feed' = [w \in Worker |-> IF feed[w].up
                               THEN [feed[w] EXCEPT !.messages = Append(@, m)] ELSE feed[w]]
  /\ UNCHANGED <<socket, inbox>>

\* The clients in lost will not hear of what is happening.  Their fetches
\* that the server has answered already do not tell them either.
Outdated(seq) == [i \in DOMAIN seq |-> [seq[i] EXCEPT !.whole = @ /\ ~seq[i].read]]
Miss(lost) ==
  /\ missed' = [c \in Client |-> IF c \in lost THEN "yes" ELSE missed[c]]
  /\ fetches' = [c \in Client |-> IF c \in lost THEN Outdated(fetches[c]) ELSE fetches[c]]

Deaf == {c \in Client : socket[c] = None \/ ~feed[socket[c]].up}

\* The newest row of s that is on the wire or shown somewhere.
NewerKnown(s, n) ==
  \/ \E w \in Worker : \E i \in DOMAIN feed[w].messages :
       feed[w].messages[i].seat = s /\ feed[w].messages[i].row.n > n
  \/ \E c \in Client : \/ view[c][s].row.n > n
                       \/ \E i \in DOMAIN inbox[c] : inbox[c][i].seat = s /\ inbox[c][i].row.n > n

\* What is left for the handler once the seat is published, and at the end:
\* nobody waits for the answer to a sweep.
Published(h) ==
  IF handler[h].action \in SoldCountChanged THEN Go(h, "pricing")
  ELSE handler' = [handler EXCEPT ![h] = IF @.by = None THEN Idle
                                         ELSE [@ EXCEPT !.pc = "answer", !.seen = FreshRow]]

PublishSeat(h) ==
  LET job == handler[h] IN
  /\ At(h, "publish")
  /\ Publish([type |-> "seat_update", seat |-> job.seat, row |-> job.seen])
  /\ Miss(Deaf)
  /\ overtaken' = IF NewerKnown(job.seat, job.seen.n) THEN overtaken \cup {job.seat} ELSE overtaken
  /\ Published(h)
  /\ published' = [published EXCEPT ![job.seat] = job.seen]
  /\ UNCHANGED <<seatVars, view, selected, belated, faults>>

PublishPricing(h) ==
  /\ At(h, "pricing")
  /\ handler' = [handler EXCEPT ![h].pc = "answer", ![h].seen = FreshRow]
  /\ Publish([type |-> "pricing_update", seat |-> handler[h].seat, row |-> FreshRow])
  /\ UNCHANGED <<seatVars, clientVars, historyVars>>

\* Redis refuses a PUBLISH, which publish swallows.
PublishFails(h) ==
  /\ Fault /\ At(h, "publish") /\ Miss(Client) /\ Published(h)
  /\ UNCHANGED <<seatVars, wireVars, view, selected, published, overtaken, belated>>

----------------------------------------------------------------------------
(* The browser's own requests.                                             *)

Asking(c, f) == IF c \in Watching /\ Len(f[c]) < MaxFetches
                THEN [f EXCEPT ![c] = Append(@, Asked)] ELSE f
Ask(c) == fetches' = Asking(c, fetches)

\* selectSeat, releaseHold, confirmBooking and cancel: the selection of the
\* client that asked, and then refresh.
Answer(h) ==
  LET c == handler[h].by  s == handler[h].seat  action == handler[h].action IN
  /\ At(h, "answer") /\ handler' = [handler EXCEPT ![h] = Idle]
  /\ Ask(c)
  /\ selected' = CASE action = "locked" -> [selected EXCEPT ![c] = s]
                   [] action = "cancelled" -> selected
                   [] OTHER -> [selected EXCEPT ![c] = None]
  /\ belated' = IF action # "locked" THEN belated
                ELSE IF Mine(c, row[s]) THEN belated \ {c} ELSE belated \cup {c}
  /\ UNCHANGED <<seatVars, wireVars, view, missed, published, overtaken, faults>>

\* Nobody looks at the answer to a release for the sake of another seat.
AnswerIgnored(h) ==
  /\ At(h, "answer") /\ handler[h].action = "released"
  /\ handler' = [handler EXCEPT ![h] = Idle]
  /\ UNCHANGED <<seatVars, wireVars, clientVars, historyVars>>

\* A request for a seat that somebody else holds or has bought is refused: a
\* booking leaves the selection, a lock does not.
Refused(c) ==
  /\ Fault /\ ~Acting(c)
  /\ \E s \in Seat : row[s].status # "available" /\ ~Mine(c, row[s])
  /\ selected' \in {selected, [selected EXCEPT ![c] = None]}
  /\ Ask(c)
  /\ UNCHANGED <<serverVars, wireVars, view, missed, published, overtaken, belated>>

\* The process dies after the commit; the client sees an error.
HandlerDies(h) ==
  LET c == handler[h].by  action == handler[h].action
      outdated == [d \in Client |-> Outdated(fetches[d])] IN
  /\ Fault /\ At(h, "publish") /\ handler' = [handler EXCEPT ![h] = Idle]
  /\ missed' = [d \in Client |-> "yes"]
  /\ fetches' = IF action \in {"locked", "released", "booked"} THEN Asking(c, outdated) ELSE outdated
  /\ selected' = IF action \in {"locked", "released"} THEN [selected EXCEPT ![c] = None] ELSE selected
  /\ UNCHANGED <<seatVars, wireVars, view, published, overtaken, belated>>

\* The countdown of the hold is over.
CountdownEnds(c) ==
  /\ Fault /\ selected[c] # None
  /\ selected' = [selected EXCEPT ![c] = None] /\ Ask(c)
  /\ UNCHANGED <<serverVars, wireVars, view, missed, published, overtaken, belated>>

\* GET /events/{id}/seats: one query.
ServerReads(c, i) ==
  /\ i \in DOMAIN fetches[c] /\ ~fetches[c][i].read
  /\ fetches' = [fetches EXCEPT ![c][i] = [read |-> TRUE, rows |-> row, whole |-> TRUE]]
  /\ UNCHANGED <<serverVars, wireVars, view, selected, historyVars>>

Without(seq, i) == SubSeq(seq, 1, i - 1) \o SubSeq(seq, i + 1, Len(seq))

\* A message on its way may yet replace what the client fetches by older rows.
OlderComing(c, rows) ==
  LET older(m) == m.type = "seat_update" /\ m.row.n < rows[m.seat].n IN
  \/ \E i \in DOMAIN inbox[c] : older(inbox[c][i])
  \/ \E w \in Worker : \E i \in DOMAIN feed[w].messages : older(feed[w].messages[i])

\* setSeats: the response replaces the map, also what a message has said since,
\* which no other fetch that the server has answered need tell again.
FetchArrives(c, i) ==
  LET rows == fetches[c][i].rows
      late == \E s \in Seat : rows[s].n < view[c][s].row.n
      misses == \/ late \/ ~fetches[c][i].whole
                \/ missed[c] = "yes" /\ OlderComing(c, rows) IN
  /\ i \in DOMAIN fetches[c] /\ fetches[c][i].read
  /\ view' = [view EXCEPT ![c] = [s \in Seat |-> [row |-> rows[s], told |-> FALSE]]]
  /\ fetches' = [fetches EXCEPT ![c] = Without(IF late THEN Outdated(@) ELSE @, i)]
  /\ missed' = [missed EXCEPT ![c] = CASE misses -> "yes"
                                             [] ~misses /\ @ = "yes" -> "healed"
                                             [] OTHER -> @]
  /\ UNCHANGED <<serverVars, wireVars, selected, published, overtaken, belated, faults>>

FetchFails(c, i) ==
  /\ Fault /\ i \in DOMAIN fetches[c]
  /\ fetches' = [fetches EXCEPT ![c] = Without(@, i)]
  /\ UNCHANGED <<serverVars, wireVars, view, selected, missed, published, overtaken, belated>>

----------------------------------------------------------------------------
(* The subscription of a worker and the sockets.                           *)

\* broadcast_local
Forward(w) ==
  /\ feed[w].messages # <<>>
  /\ feed' = [feed EXCEPT ![w].messages = Tail(@)]
  /\ inbox' = [c \in Client |-> IF socket[c] = w THEN Append(inbox[c], Head(feed[w].messages))
                                ELSE inbox[c]]
  /\ UNCHANGED <<serverVars, socket, clientVars, historyVars>>

\* The subscription is lost with what was on it, and set up again later.
FeedBreaks(w) ==
  /\ Fault /\ feed[w].up
  /\ feed' = [feed EXCEPT ![w] = [up |-> FALSE, messages |-> <<>>]]
  /\ Miss({c \in Client : socket[c] = w /\ feed[w].messages # <<>>})
  /\ UNCHANGED <<serverVars, socket, inbox, view, selected, published, overtaken, belated>>

Resubscribe(w) ==
  /\ ~feed[w].up /\ feed' = [feed EXCEPT ![w].up = TRUE]
  /\ UNCHANGED <<serverVars, socket, inbox, clientVars, historyVars>>

\* connect, also the reconnection after a back-off: nothing is fetched.
Open(c, w) ==
  /\ c \in Watching /\ socket[c] = None /\ socket' = [socket EXCEPT ![c] = w]
  /\ UNCHANGED <<serverVars, feed, inbox, clientVars, historyVars>>

Drop(c) ==
  /\ Fault /\ socket[c] # None
  /\ socket' = [socket EXCEPT ![c] = None] /\ inbox' = [inbox EXCEPT ![c] = <<>>]
  /\ Miss(IF inbox[c] # <<>> \/ feed[socket[c]].messages # <<>> THEN {c} ELSE {})
  /\ UNCHANGED <<serverVars, feed, view, selected, published, overtaken, belated>>

\* Mutant: the selection is left to the countdown.
SelectionAfterKept(c, s, new) == selected[c]

\* handleSeatUpdate: a selected seat stays selected while it is mine.
SelectionAfter(c, s, new) ==
  IF selected[c] = s /\ ~(new.status = "locked" /\ new.by = c) THEN None ELSE selected[c]

\* onmessage.  A pricing_update starts a timer of 400 ms, for a fetch that does
\* not replace the ones under way; further ones restart it.
Hear(c) ==
  LET m == Head(inbox[c]) IN
  /\ inbox[c] # <<>> /\ inbox' = [inbox EXCEPT ![c] = Tail(@)]
  /\ IF m.type = "seat_update"
     THEN /\ view' = [view EXCEPT ![c][m.seat] = [row |-> m.row, told |-> TRUE]]
          /\ selected' = [selected EXCEPT ![c] = SelectionAfter(c, m.seat, m.row)]
          /\ UNCHANGED fetches
     ELSE Ask(c) /\ UNCHANGED <<view, selected>>
  /\ UNCHANGED <<serverVars, feed, socket, historyVars>>

----------------------------------------------------------------------------

BroadcastNext ==
  \/ \E h \in Handler :
       \/ UnlockRow(h) \/ ExpireRow(h)
       \/ ReadRow(h) \/ PublishSeat(h) \/ PublishPricing(h) \/ PublishFails(h)
       \/ Answer(h) \/ AnswerIgnored(h) \/ HandlerDies(h)
       \/ \E s \in Seat : \/ Expire(h, s)
                          \/ \E c \in Client : \/ Lock(h, s, c) \/ LockAgain(h, s, c)
                                               \/ Unlock(h, s, c) \/ Book(h, s, c) \/ Cancel(h, s, c)
  \/ \E w \in Worker : Forward(w) \/ FeedBreaks(w) \/ Resubscribe(w)
  \/ \E c \in Client :
       \/ Hear(c) \/ Drop(c) \/ CountdownEnds(c) \/ Refused(c)
       \/ \E w \in Worker : Open(c, w)
       \/ \E i \in 1..MaxFetches : ServerReads(c, i) \/ FetchArrives(c, i) \/ FetchFails(c, i)

BroadcastSpec == BroadcastInit /\ [][BroadcastNext]_vars

----------------------------------------------------------------------------
(* Properties                                                              *)

\* Nothing is on its way to the client.
Quiet(c) ==
  /\ \A h \in Handler : At(h, "idle")
  /\ socket[c] # None /\ feed[socket[c]].messages = <<>>
  /\ inbox[c] = <<>> /\ fetches[c] = <<>>

\* Once everything has arrived a browser shows the rows of the table, in
\* whatever order messages and fetches came in, unless it was not listening
\* to a publish and has not fetched since, a fetch brought it an older map, or
\* two handlers of a seat published in the other order than they committed
\* ("pushes the status update to B immediately", websocket.py).
ShowsTheRow ==
  \A c \in Client : Quiet(c) /\ missed[c] # "yes" =>
    \A s \in Seat \ overtaken : view[c][s].row = row[s]

\* What messages told a browser last of a seat is what was published last, if
\* it missed none of them: whatever worker it is connected to, and also when
\* handlers overtook each other, there is one order, and any two such browsers
\* agree (Redis as the message bus, websocket.py).
ToldTheLast ==
  \A c \in Client : Quiet(c) /\ missed[c] = "never" =>
    \A s \in Seat : view[c][s].told => view[c][s].row = published[s]

\* Nor does its user go on with a seat that is not held any more, if a message
\* was the last to speak of it: "Clear selection if the seat is no longer held
\* by the current user" (BookingContext.jsx).  A fetched map clears nothing, and
\* an answer that comes when its hold is over already selects the seat.
SelectionIsHeld ==
  \A c \in Client \ belated : \A s \in Seat \ overtaken :
    Quiet(c) /\ missed[c] # "yes" /\ view[c][s].told /\ selected[c] = s
    => Mine(c, row[s])
=============================================================================

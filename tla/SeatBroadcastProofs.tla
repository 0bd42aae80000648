------------------------ MODULE SeatBroadcastProofs ------------------------
(***************************************************************************)
(* Theorems about SeatBroadcast, for any browsers, workers, handlers and   *)
(* seats, and any numbers of commits, faults and fetches under way.        *)
(***************************************************************************)
EXTENDS SeatBroadcast, SequenceTheorems, FiniteSetTheorems, TLAPS

----------------------------------------------------------------------------
(* Sequences                                                               *)

LEMMA Appended ==
  ASSUME NEW S, NEW q \in Seq(S), NEW m \in S
  PROVE  /\ Append(q, m) \in Seq(S) /\ Len(Append(q, m)) = Len(q) + 1
         /\ DOMAIN Append(q, m) = DOMAIN q \cup {Len(q) + 1} /\ DOMAIN q = 1..Len(q)
         /\ \A i \in DOMAIN q : Append(q, m)[i] = q[i] /\ i < Len(q) + 1
         /\ Append(q, m)[Len(q) + 1] = m /\ Len(q) + 1 \in Nat
<1>1. /\ Append(q, m) \in Seq(S) /\ Len(Append(q, m)) = Len(q) + 1
      /\ \A i \in 1..Len(q) : Append(q, m)[i] = q[i]
      /\ Append(q, m)[Len(q) + 1] = m
  BY AppendProperties
<1>2. DOMAIN q = 1..Len(q) /\ Len(q) \in Nat
  OBVIOUS
<1>3. DOMAIN Append(q, m) = 1..(Len(q) + 1)
  BY <1>1
<1> QED
  BY <1>1, <1>2, <1>3

LEMMA Rest ==
  ASSUME NEW S, NEW q \in Seq(S), q # <<>>
  PROVE  /\ Head(q) = q[1] /\ Head(q) \in S /\ 1 \in DOMAIN q
         /\ Tail(q) \in Seq(S) /\ Len(Tail(q)) = Len(q) - 1
         /\ \A i \in DOMAIN Tail(q) : i + 1 \in DOMAIN q /\ Tail(q)[i] = q[i + 1]
         /\ \A i \in DOMAIN q : i # 1 => i - 1 \in DOMAIN Tail(q)
         /\ DOMAIN q \subseteq Nat /\ DOMAIN Tail(q) \subseteq Nat
<1>1. /\ Head(q) \in S /\ Tail(q) \in Seq(S) /\ Len(Tail(q)) = Len(q) - 1
      /\ \A i \in 1..Len(Tail(q)) : Tail(q)[i] = q[i + 1]
  BY HeadTailProperties
<1>2. DOMAIN q = 1..Len(q) /\ Len(q) \in Nat /\ Len(q) # 0 /\ Head(q) = q[1]
  BY EmptySeq
<1>3. DOMAIN Tail(q) = 1..(Len(q) - 1)
  BY <1>1
<1> QED
  BY <1>1, <1>2, <1>3

LEMMA LeftOut ==
  ASSUME NEW S, NEW q \in Seq(S), NEW i \in DOMAIN q
  PROVE  /\ Without(q, i) \in Seq(S) /\ Len(Without(q, i)) = Len(q) - 1
         /\ \A k \in DOMAIN Without(q, i) : \E j \in DOMAIN q : Without(q, i)[k] = q[j]
<1>1. DOMAIN q = 1..Len(q) /\ Len(q) \in Nat /\ i \in 1..Len(q)
  OBVIOUS
<1> PICK a, b : a = SubSeq(q, 1, i - 1) /\ b = SubSeq(q, i + 1, Len(q))
  OBVIOUS
<1>2. /\ a \in Seq(S) /\ Len(a) = i - 1
      /\ \A k \in 1..(i - 1) : a[k] = q[k]
  BY <1>1, SubSeqProperties
<1>3. /\ b \in Seq(S) /\ Len(b) = Len(q) - i
      /\ \A k \in 1..(Len(q) - i) : b[k] = q[k + i]
  BY <1>1, SubSeqProperties
<1>4. /\ Without(q, i) \in Seq(S) /\ Len(Without(q, i)) = Len(q) - 1
      /\ \A k \in 1..(Len(q) - 1) : Without(q, i)[k] = IF k <= i - 1 THEN a[k] ELSE b[k - (i - 1)]
  <2>1. Without(q, i) = a \o b
    BY DEF Without
  <2>2. /\ a \o b \in Seq(S) /\ Len(a \o b) = Len(a) + Len(b)
        /\ \A k \in 1..(Len(a) + Len(b)) : (a \o b)[k] = IF k <= Len(a) THEN a[k] ELSE b[k - Len(a)]
    BY <1>2, <1>3, ConcatProperties
  <2>3. Len(a) + Len(b) = Len(q) - 1
    <3>1. i \in Nat /\ Len(q) \in Nat /\ Len(a) = i - 1 /\ Len(b) = Len(q) - i
      BY <1>1, <1>2, <1>3
    <3> QED
      BY ONLY <3>1
  <2> QED
    BY <1>2, <2>1, <2>2, <2>3
<1>5. ASSUME NEW k \in 1..(Len(q) - 1) PROVE \E j \in 1..Len(q) : Without(q, i)[k] = q[j]
  <2>1. CASE k <= i - 1
    BY <1>1, <1>2, <1>4, <2>1
  <2>2. CASE ~(k <= i - 1)
    <3>1. k - (i - 1) \in 1..(Len(q) - i) /\ k - (i - 1) + i = k + 1 /\ k + 1 \in 1..Len(q)
      BY <1>1, <2>2
    <3> QED
      BY <1>3, <1>4, <2>2, <3>1
  <2> QED
    BY <2>1, <2>2
<1>6. DOMAIN Without(q, i) = 1..(Len(q) - 1)
  BY <1>4
<1> QED
  BY <1>1, <1>4, <1>5, <1>6

\* A nonempty set of indices has a last one.
LEMMA LastOne ==
  ASSUME NEW n \in Nat, NEW T, T \subseteq 1..n, T # {}
  PROVE  \E x \in T : \A y \in T : y <= x
<1> DEFINE After == {x..n : x \in T}
           Smaller == StrictSubsetOrdering(1..n)
<1>1. IsWellFoundedOn(Smaller, SUBSET (1..n))
  <2>1. IsFiniteSet(1..n)
    BY FS_Interval
  <2> QED
    BY <2>1, FS_FiniteSubsetsOfFinite, FS_StrictSubsetOrderingWellFounded
<1>2. After \subseteq SUBSET (1..n) /\ After # {}
  <2>1. \A x \in T : x..n \subseteq 1..n
    OBVIOUS
  <2> QED
    BY <2>1
<1>3. \E a \in After : \A b \in After : ~(<<b, a>> \in Smaller)
  <2> HIDE DEF After, Smaller
  <2> QED
    BY <1>1, <1>2, WFMin
<1>4. PICK x \in T : \A y \in T : ~(<<y..n, x..n>> \in Smaller)
  BY <1>3
<1>5. ASSUME NEW y \in T, ~(y <= x) PROVE FALSE
  <2>1. x \in 1..n /\ y \in 1..n /\ x < y /\ x \in Nat /\ y \in Nat
    BY <1>5
  <2>2. y..n \subseteq x..n /\ y..n # x..n
    <3>1. x \in x..n /\ x \notin y..n
      BY <2>1
    <3>2. y..n \subseteq x..n
      BY <2>1
    <3> QED
      BY <3>1, <3>2
  <2>3. y..n \in SUBSET (1..n) /\ x..n \in SUBSET (1..n)
    BY <2>1
  <2>4. <<y..n, x..n>> \in Smaller
    BY <2>2, <2>3 DEF StrictSubsetOrdering
  <2> QED
    BY <1>4, <2>4
<1> QED
  BY <1>5

LEMMA OutdateOne ==
  ASSUME NEW f \in Fetch, NEW b \in BOOLEAN
  PROVE  /\ [f EXCEPT !.whole = b] \in Fetch
         /\ [f EXCEPT !.whole = b].read = f.read
         /\ [f EXCEPT !.whole = b].rows = f.rows
         /\ [f EXCEPT !.whole = b].whole = b
BY DEF Fetch

LEMMA Outdate ==
  ASSUME NEW q \in Seq(Fetch)
  PROVE  /\ Outdated(q) \in Seq(Fetch) /\ Len(Outdated(q)) = Len(q)
         /\ DOMAIN Outdated(q) = DOMAIN q
         /\ \A i \in DOMAIN q : /\ Outdated(q)[i].read = q[i].read
                                /\ Outdated(q)[i].rows = q[i].rows
                                /\ ~(Outdated(q)[i].read /\ Outdated(q)[i].whole)
<1>1. DOMAIN q = 1..Len(q) /\ Len(q) \in Nat /\ \A i \in 1..Len(q) : q[i] \in Fetch
  BY ElementOfSeq
<1> DEFINE new(i) == q[i].whole /\ ~q[i].read
<1>2. \A i \in 1..Len(q) : new(i) \in BOOLEAN /\ ~(new(i) /\ q[i].read)
  OBVIOUS
<1>3. Outdated(q) = [i \in 1..Len(q) |-> [q[i] EXCEPT !.whole = new(i)]]
  BY <1>1 DEF Outdated
<1> HIDE DEF new
<1>4. \A i \in 1..Len(q) : /\ [q[i] EXCEPT !.whole = new(i)] \in Fetch
                           /\ [q[i] EXCEPT !.whole = new(i)].read = q[i].read
                           /\ [q[i] EXCEPT !.whole = new(i)].rows = q[i].rows
                           /\ [q[i] EXCEPT !.whole = new(i)].whole = new(i)
  <2> TAKE i \in 1..Len(q)
  <2>1. PICK f, b : f = q[i] /\ b = new(i) /\ f \in Fetch /\ b \in BOOLEAN
    BY <1>1, <1>2
  <2>2. /\ [f EXCEPT !.whole = b] \in Fetch
        /\ [f EXCEPT !.whole = b].read = f.read
        /\ [f EXCEPT !.whole = b].rows = f.rows
        /\ [f EXCEPT !.whole = b].whole = b
    BY <2>1, OutdateOne
  <2> QED
    BY <2>1, <2>2
<1>5. Outdated(q) \in Seq(Fetch) /\ DOMAIN Outdated(q) = 1..Len(q) /\ Len(Outdated(q)) = Len(q)
  <2>1. Outdated(q) \in [1..Len(q) -> Fetch]
    BY <1>3, <1>4
  <2> QED
    BY <1>1, <2>1, SeqDef
<1> QED
  BY <1>1, <1>2, <1>3, <1>4, <1>5

----------------------------------------------------------------------------
(* What messages say of a seat                                             *)

Says(m, s) == m.type = "seat_update" /\ m.seat = s
Silent(q, s) == \A i \in DOMAIN q : ~Says(q[i], s)

\* The last that q says of s, if anything, is r.
EndsWith(q, s, r) ==
  \A i \in DOMAIN q :
    Says(q[i], s) /\ (\A j \in DOMAIN q : j > i => ~Says(q[j], s)) => q[i].row = r

LEMMA SilentEnd ==
  ASSUME NEW s, NEW r
  PROVE  /\ Silent(<<>>, s)
         /\ \A q : Silent(q, s) => EndsWith(q, s, r)
BY DEF Silent, EndsWith

LEMMA SayMore ==
  ASSUME NEW q \in Seq(Message), NEW m \in Message, NEW s
  PROVE  /\ Silent(Append(q, m), s) <=> Silent(q, s) /\ ~Says(m, s)
         /\ Says(m, s) => EndsWith(Append(q, m), s, m.row)
         /\ \A r : ~Says(m, s) /\ EndsWith(q, s, r) => EndsWith(Append(q, m), s, r)
<1> DEFINE n == Len(q) + 1
           p == Append(q, m)
<1>1. /\ DOMAIN p = DOMAIN q \cup {n} /\ p[n] = m
      /\ \A i \in DOMAIN q : p[i] = q[i] /\ i < n /\ ~(n < i)
      /\ n \in Nat /\ DOMAIN q \subseteq Nat /\ ~(n > n)
  BY Appended
<1> HIDE DEF n, p
<1>2. Silent(p, s) <=> Silent(q, s) /\ ~Says(m, s)
  BY <1>1 DEF Silent
<1>3. ASSUME Says(m, s) PROVE EndsWith(p, s, m.row)
  BY <1>1, <1>3 DEF EndsWith
<1>4. ASSUME NEW r, ~Says(m, s), EndsWith(q, s, r) PROVE EndsWith(p, s, r)
  BY <1>1, <1>4 DEF EndsWith
<1> QED
  BY <1>2, <1>3, <1>4 DEF p

LEMMA SaidFirst ==
  ASSUME NEW q \in Seq(Message), q # <<>>, NEW s
  PROVE  /\ Silent(q, s) <=> ~Says(Head(q), s) /\ Silent(Tail(q), s)
         /\ \A r : EndsWith(q, s, r) =>
              /\ EndsWith(Tail(q), s, r)
              /\ Says(Head(q), s) /\ Silent(Tail(q), s) => Head(q).row = r
<1> DEFINE t == Tail(q)
<1>1. /\ Head(q) = q[1] /\ 1 \in DOMAIN q /\ DOMAIN q \subseteq Nat /\ DOMAIN t \subseteq Nat
      /\ \A i \in DOMAIN t : i + 1 \in DOMAIN q /\ t[i] = q[i + 1]
      /\ \A i \in DOMAIN q : i # 1 => i - 1 \in DOMAIN t
  BY Rest
<1> HIDE DEF t
<1>2. \A i \in DOMAIN q : i = 1 \/ (i - 1 \in DOMAIN t /\ q[i] = t[i - 1])
  <2> TAKE i \in DOMAIN q
  <2>1. i # 1 => i - 1 \in DOMAIN t /\ (i - 1) + 1 = i
    BY <1>1
  <2> QED
    BY <1>1, <2>1
<1>3. Silent(q, s) <=> ~Says(Head(q), s) /\ Silent(t, s)
  BY <1>1, <1>2 DEF Silent
<1>4. ASSUME NEW r, EndsWith(q, s, r) PROVE EndsWith(t, s, r)
  <2> SUFFICES ASSUME NEW i \in DOMAIN t, Says(t[i], s),
                      \A j \in DOMAIN t : j > i => ~Says(t[j], s)
               PROVE  t[i].row = r
    BY DEF EndsWith
  <2>1. i + 1 \in DOMAIN q /\ t[i] = q[i + 1]
    BY <1>1
  <2>2. ASSUME NEW j \in DOMAIN q, j > i + 1 PROVE ~Says(q[j], s)
    <3>1. j - 1 \in DOMAIN t /\ q[j] = t[j - 1] /\ j - 1 > i
      BY <1>1, <1>2, <2>2
    <3> QED
      BY <3>1
  <2> QED
    BY <1>4, <2>1, <2>2 DEF EndsWith
<1>5. ASSUME NEW r, EndsWith(q, s, r), Says(Head(q), s), Silent(t, s) PROVE Head(q).row = r
  <2>1. \A j \in DOMAIN q : j > 1 => ~Says(q[j], s)
    BY <1>1, <1>2, <1>5 DEF Silent
  <2> QED
    BY <1>1, <1>5, <2>1 DEF EndsWith
<1> QED
  BY <1>3, <1>4, <1>5 DEF t

----------------------------------------------------------------------------
(* Types                                                                   *)

\* A handler at work has a seat and an action, and a client unless it sweeps.
HandlerKnown(job) ==
  /\ job \in Work
  /\ job.pc = "idle" => job.seat = None
  /\ job.pc # "idle" =>
       /\ job.seat \in Seat /\ job.action \in Action
       /\ job.pc \in {"pricing", "answer"} \/ job.action # "expired" => job.by \in Client

ServerKnown ==
  /\ row \in [Seat -> Row] /\ booking \in [Seat -> Client \cup {None}]
  /\ handler \in [Handler -> Work] /\ \A h \in Handler : HandlerKnown(handler[h])

WireKnown ==
  /\ feed \in [Worker -> [up: BOOLEAN, messages: Seq(Message)]]
  /\ \A w \in Worker : ~feed[w].up => feed[w].messages = <<>>
  /\ socket \in [Client -> Worker \cup {None}]
  /\ inbox \in [Client -> Seq(Message)]
  /\ \A c \in Client : socket[c] = None => inbox[c] = <<>>

ClientKnown ==
  /\ view \in [Client -> [Seat -> [row: Row, told: BOOLEAN]]]
  /\ selected \in [Client -> Seat \cup {None}]
  /\ fetches \in [Client -> Seq(Fetch)] /\ \A c \in Client : Len(fetches[c]) <= MaxFetches

HistoryKnown ==
  /\ missed \in [Client -> {"never", "yes", "healed"}] /\ published \in [Seat -> Row]
  /\ overtaken \subseteq Seat /\ belated \subseteq Client /\ faults \in 0..MaxFaults

KnownInv == ServerKnown /\ WireKnown /\ ClientKnown /\ HistoryKnown

LEMMA Blank ==
  /\ FreshRow \in Row /\ HandlerKnown(Idle) /\ Asked \in Fetch
  /\ \A s \in Seat : [type |-> "pricing_update", seat |-> s, row |-> FreshRow] \in Message
<1>1. 0 \in 0..MaxCommits
  BY BroadcastAssumption DEF BroadcastAssumption
<1>2. FreshRow \in Row
  BY <1>1 DEF FreshRow, Row
<1>3. HandlerKnown(Idle)
  BY <1>2 DEF HandlerKnown, Idle, Work
<1>4. Asked \in Fetch
  BY <1>2 DEF Asked, Fetch
<1>5. \A s \in Seat : [type |-> "pricing_update", seat |-> s, row |-> FreshRow] \in Message
  BY <1>2 DEF Message
<1> QED
  BY <1>2, <1>3, <1>4, <1>5

LEMMA KnownInit == BroadcastInit => KnownInv
<1> SUFFICES ASSUME BroadcastInit PROVE KnownInv
  OBVIOUS
<1>1. row \in [Seat -> Row]
  BY DEF BroadcastInit
<1>2. ServerKnown
  <2>1. booking \in [Seat -> Client \cup {None}]
    BY DEF BroadcastInit
  <2>2. handler \in [Handler -> Work] /\ \A h \in Handler : HandlerKnown(handler[h])
    BY Blank DEF BroadcastInit, HandlerKnown
  <2> QED
    BY <1>1, <2>1, <2>2 DEF ServerKnown
<1>3. <<>> \in Seq(Message) /\ <<>> \in Seq(Fetch) /\ Len(<<>>) = 0 /\ MaxFetches \in Nat
      /\ MaxFaults \in Nat
  BY EmptySeq, BroadcastAssumption DEF BroadcastAssumption
<1>4. WireKnown
  BY <1>3 DEF BroadcastInit, WireKnown
<1>5. ClientKnown
  BY <1>1, <1>3 DEF BroadcastInit, ClientKnown
<1>6. HistoryKnown
  BY <1>1, <1>3 DEF BroadcastInit, HistoryKnown
<1> QED
  BY <1>2, <1>4, <1>5, <1>6 DEF KnownInv

\* The steps, by the actor that takes them.
HandlerStep(h) ==
  \/ ReadRow(h) \/ PublishSeat(h) \/ PublishPricing(h) \/ PublishFails(h)
  \/ Answer(h) \/ HandlerDies(h)
CommitStep(h, s) ==
  \/ \E c \in Client : Lock(h, s, c) \/ Book(h, s, c) \/ Cancel(h, s, c)
  \/ handler[h].seat = s /\ (ExpireRow(h) \/ (UnlockRow(h) /\ row[s].status = "locked"))
PrepareStep(h) ==
  \/ \E s \in Seat : Expire(h, s) \/ \E c \in Client : LockAgain(h, s, c) \/ Unlock(h, s, c)
  \/ UnlockRow(h) /\ row[handler[h].seat].status # "locked"
  \/ AnswerIgnored(h)
WorkerStep(w) == Forward(w) \/ FeedBreaks(w) \/ Resubscribe(w)
SocketStep(c) == Hear(c) \/ Drop(c) \/ (\E w \in Worker : Open(c, w))
PageStep(c) == CountdownEnds(c) \/ Refused(c)
FetchStep(c, i) == ServerReads(c, i) \/ FetchArrives(c, i) \/ FetchFails(c, i)

LEMMA Steps ==
  ASSUME KnownInv, [BroadcastNext]_vars
  PROVE  \/ \E h \in Handler : HandlerStep(h)
         \/ \E h \in Handler : \E s \in Seat : CommitStep(h, s)
         \/ \E h \in Handler : PrepareStep(h)
         \/ \E w \in Worker : WorkerStep(w)
         \/ \E c \in Client : SocketStep(c) \/ PageStep(c)
         \/ \E c \in Client : \E i \in 1..MaxFetches : FetchStep(c, i)
         \/ UNCHANGED vars
<1>1. ASSUME NEW h \in Handler, ExpireRow(h) \/ UnlockRow(h) PROVE handler[h].seat \in Seat
  BY <1>1 DEF ExpireRow, UnlockRow, At, KnownInv, ServerKnown, HandlerKnown
<1> QED
  BY <1>1 DEF BroadcastNext, HandlerStep, CommitStep, PrepareStep, WorkerStep, SocketStep, PageStep,
              FetchStep

\* A commit: what the row becomes, and what the handler has to do then.
Committed(h, s, job, r) ==
  /\ HandlerKnown(job) /\ job.pc = "read" /\ job.seat = s
  /\ At(h, "idle") \/ At(h, "update")
  /\ row' = [row EXCEPT ![s] = r] /\ r \in Row /\ r.n = row[s].n + 1
  /\ booking' \in [Seat -> Client \cup {None}]
  /\ handler' = [handler EXCEPT ![h] = job]
  /\ UNCHANGED <<wireVars, clientVars, historyVars>>

LEMMA WriteKnown ==
  ASSUME KnownInv, NEW s \in Seat, NEW status \in {"available", "locked", "booked"},
         NEW by \in Client \cup {None}, Write(s, status, by)
  PROVE  \E r \in Row : row' = [row EXCEPT ![s] = r] /\ r.n = row[s].n + 1
<1> DEFINE new == [status |-> status, by |-> by, n |-> row[s].n + 1]
<1>1. row[s].n \in 0..MaxCommits /\ row[s].n < MaxCommits /\ MaxCommits \in Nat
  BY BroadcastAssumption DEF Write, Row, BroadcastAssumption, KnownInv, ServerKnown
<1>2. row[s].n + 1 \in 0..MaxCommits
  BY <1>1
<1>3. new \in Row
  BY <1>2 DEF Row
<1>4. row' = [row EXCEPT ![s] = new] /\ new.n = row[s].n + 1
  BY DEF Write
<1> QED
  BY <1>3, <1>4

LEMMA CommitKnown ==
  ASSUME KnownInv, NEW h \in Handler, NEW s \in Seat, CommitStep(h, s)
  PROVE  \E job, r : Committed(h, s, job, r)
<1>1. /\ row \in [Seat -> Row] /\ row[s] \in Row /\ row[s].by \in Client \cup {None}
      /\ booking \in [Seat -> Client \cup {None}]
      /\ HandlerKnown(handler[h]) /\ handler[h] \in Work
  BY DEF KnownInv, ServerKnown, Row
<1>2. ASSUME NEW a \in Action, NEW c \in Client,
             NEW status \in {"available", "locked", "booked"}, NEW by \in Client \cup {None},
             Commits(h, a, s, c, status, by), booking' \in [Seat -> Client \cup {None}]
      PROVE  \E job, r : Committed(h, s, job, r)
  <2> DEFINE job == [pc |-> "read", action |-> a, seat |-> s, by |-> c, seen |-> row[s]]
  <2>1. PICK r \in Row : row' = [row EXCEPT ![s] = r] /\ r.n = row[s].n + 1
    BY <1>2, WriteKnown DEF Commits
  <2>2. job.pc = "read" /\ job.seat = s /\ job.action = a /\ job.by = c /\ job \in Work
    BY <1>1 DEF Work
  <2>3. handler' = [handler EXCEPT ![h] = job]
    BY <1>2 DEF Commits
  <2> HIDE DEF job
  <2>4. HandlerKnown(job)
    BY <2>2 DEF HandlerKnown
  <2>5. Committed(h, s, job, r)
    BY <1>2, <2>1, <2>2, <2>3, <2>4 DEF Committed, Commits
  <2> QED
    BY <2>5
<1>3. ASSUME NEW c \in Client, Lock(h, s, c) PROVE \E job, r : Committed(h, s, job, r)
  BY <1>1, <1>2, <1>3 DEF Lock, Action
<1>4. ASSUME NEW c \in Client, Book(h, s, c) PROVE \E job, r : Committed(h, s, job, r)
  BY <1>1, <1>2, <1>4 DEF Book, Action
<1>5. ASSUME NEW c \in Client, Cancel(h, s, c) PROVE \E job, r : Committed(h, s, job, r)
  BY <1>1, <1>2, <1>5 DEF Cancel, Action
<1>6. CASE handler[h].seat = s /\ (ExpireRow(h) \/ (UnlockRow(h) /\ row[s].status = "locked"))
  <2> DEFINE old == handler[h]
             job == [old EXCEPT !.pc = "read"]
  <2>1. /\ At(h, "update") /\ Go(h, "read") /\ Write(s, "available", None) /\ booking' = booking
        /\ UNCHANGED <<wireVars, clientVars, historyVars>>
    BY <1>6 DEF ExpireRow, UnlockRow, historyVars
  <2>2. PICK r \in Row : row' = [row EXCEPT ![s] = r] /\ r.n = row[s].n + 1
    BY <2>1, WriteKnown
  <2>3. /\ job.pc = "read" /\ job.seat = old.seat /\ job.action = old.action /\ job.by = old.by
        /\ job \in Work /\ old.pc = "update"
    BY <1>1, <2>1 DEF Work, At
  <2>4. handler' = [handler EXCEPT ![h] = job]
    BY <2>1 DEF Go
  <2> HIDE DEF job
  <2>5. HandlerKnown(job)
    BY <1>1, <2>3 DEF HandlerKnown
  <2>6. Committed(h, s, job, r)
    BY <1>1, <1>6, <2>1, <2>2, <2>3, <2>4, <2>5 DEF Committed
  <2> QED
    BY <2>6
<1> QED
  BY <1>3, <1>4, <1>5, <1>6 DEF CommitStep

\* A step before a commit, or instead of one.
Prepared(h, job) ==
  /\ HandlerKnown(job) /\ job.pc # "publish"
  /\ At(h, "idle") \/ At(h, "update") \/ At(h, "answer")
  /\ handler' = [handler EXCEPT ![h] = job]
  /\ faults' \in 0..MaxFaults
  /\ UNCHANGED <<seatVars, wireVars, clientVars, missed, published, overtaken, belated>>

LEMMA StartKnown ==
  ASSUME KnownInv, NEW h \in Handler, NEW label \in {"update", "answer"}, NEW a \in Action,
         NEW s \in Seat, NEW c \in Client \cup {None}, a = "expired" => label = "update",
         a # "expired" => c \in Client,
         Starts(h, label, a, s, c), faults' \in 0..MaxFaults
  PROVE  \E job : Prepared(h, job)
<1> DEFINE job == [Idle EXCEPT !.pc = label, !.action = a, !.seat = s, !.by = c]
<1>1. /\ job.pc = label /\ job.action = a /\ job.seat = s /\ job.by = c /\ job \in Work
  BY Blank DEF Idle, Work
<1>2. handler' = [handler EXCEPT ![h] = job]
  BY DEF Starts
<1> HIDE DEF job
<1>3. HandlerKnown(job)
  BY <1>1 DEF HandlerKnown
<1>4. Prepared(h, job)
  BY <1>1, <1>2, <1>3 DEF Prepared, Starts
<1> QED
  BY <1>4

LEMMA PrepareKnown ==
  ASSUME KnownInv, NEW h \in Handler, PrepareStep(h)
  PROVE  \E job : Prepared(h, job)
<1>1. /\ HandlerKnown(handler[h]) /\ handler[h] \in Work /\ faults \in 0..MaxFaults
      /\ Fault => faults' \in 0..MaxFaults
  BY BroadcastAssumption DEF KnownInv, ServerKnown, HistoryKnown, Fault, BroadcastAssumption
<1>2. ASSUME NEW s \in Seat, Expire(h, s) PROVE \E job : Prepared(h, job)
  BY <1>1, <1>2, StartKnown DEF Expire, Action
<1>3. ASSUME NEW s \in Seat, NEW c \in Client, LockAgain(h, s, c) PROVE \E job : Prepared(h, job)
  BY <1>1, <1>3, StartKnown DEF LockAgain, Action
<1>4. ASSUME NEW s \in Seat, NEW c \in Client, Unlock(h, s, c) PROVE \E job : Prepared(h, job)
  BY <1>1, <1>4, StartKnown DEF Unlock, Action
<1>5. CASE UnlockRow(h) /\ row[handler[h].seat].status # "locked"
  <2> DEFINE old == handler[h]
             job == [old EXCEPT !.pc = "read"]
  <2>1. /\ At(h, "update") /\ Go(h, "read") /\ Fault
        /\ UNCHANGED <<seatVars, wireVars, clientVars, missed, published, overtaken, belated>>
    BY <1>5 DEF UnlockRow, seatVars
  <2>2. /\ job.pc = "read" /\ job.seat = old.seat /\ job.action = old.action /\ job.by = old.by
        /\ job \in Work /\ old.pc = "update"
    BY <1>1, <2>1 DEF Work, At
  <2>3. handler' = [handler EXCEPT ![h] = job]
    BY <2>1 DEF Go
  <2> HIDE DEF job
  <2>4. HandlerKnown(job)
    BY <1>1, <2>2 DEF HandlerKnown
  <2>5. Prepared(h, job)
    BY <1>1, <2>1, <2>2, <2>3, <2>4 DEF Prepared
  <2> QED
    BY <2>5
<1>6. CASE AnswerIgnored(h)
  <2>1. Idle.pc = "idle" /\ HandlerKnown(Idle)
    BY Blank DEF Idle
  <2>2. Prepared(h, Idle)
    BY <1>1, <1>6, <2>1 DEF Prepared, AnswerIgnored, historyVars
  <2> QED
    BY <2>2
<1> QED
  BY <1>2, <1>3, <1>4, <1>5, <1>6 DEF PrepareStep

\* A step of a handler: what it has to do next.
Moved(h, job) ==
  /\ handler' = [handler EXCEPT ![h] = job] /\ HandlerKnown(job) /\ row' = row /\ booking' = booking
  /\ ~At(h, "idle") /\ job.pc # "read"
  /\ job = Idle \/ (/\ job.pc # "idle" /\ job.seat = handler[h].seat
                    /\ job.by = handler[h].by /\ job.action = handler[h].action)
  /\ job.pc = "publish" => At(h, "read") /\ job.seen = row[job.seat]

LEMMA PublishedKnown ==
  ASSUME KnownInv, NEW h \in Handler, At(h, "publish"), UNCHANGED seatVars, Published(h)
  PROVE  \E job : Moved(h, job)
<1> USE DEF KnownInv, ServerKnown, seatVars
<1> DEFINE old == handler[h]
<1>1. HandlerKnown(old) /\ old.pc = "publish" /\ old \in Work
  BY DEF At, HandlerKnown
<1>2. CASE old.action \in SoldCountChanged
  <2> DEFINE job == [old EXCEPT !.pc = "pricing"]
  <2>1. handler' = [handler EXCEPT ![h] = job]
    BY <1>2 DEF Published, Go
  <2>2. /\ job.pc = "pricing" /\ job \in Work /\ job.seat = old.seat /\ job.by = old.by
        /\ job.action = old.action
    BY <1>1 DEF Work
  <2> HIDE DEF job
  <2>3. HandlerKnown(job)
    BY <1>1, <1>2, <2>2 DEF HandlerKnown, SoldCountChanged
  <2>4. Moved(h, job)
    BY <1>1, <2>1, <2>2, <2>3 DEF Moved, At
  <2> QED
    BY <2>4
<1>3. CASE old.action \notin SoldCountChanged /\ old.by = None
  <2>1. handler' = [handler EXCEPT ![h] = Idle]
    BY <1>3 DEF Published
  <2>2. Idle.pc = "idle"
    BY DEF Idle
  <2>3. Moved(h, Idle)
    BY <1>1, <2>1, <2>2, Blank DEF Moved, At
  <2> QED
    BY <2>3
<1>4. CASE old.action \notin SoldCountChanged /\ old.by # None
  <2> DEFINE job == [old EXCEPT !.pc = "answer", !.seen = FreshRow]
  <2>1. handler' = [handler EXCEPT ![h] = job]
    BY <1>4 DEF Published
  <2>2. /\ job.pc = "answer" /\ job \in Work /\ job.seat = old.seat /\ job.by = old.by
        /\ job.action = old.action
    BY <1>1, Blank DEF Work
  <2> HIDE DEF job
  <2>3. HandlerKnown(job)
    BY <1>1, <1>4, <2>2 DEF HandlerKnown, Work
  <2>4. Moved(h, job)
    BY <1>1, <2>1, <2>2, <2>3 DEF Moved, At
  <2> QED
    BY <2>4
<1> QED
  BY <1>2, <1>3, <1>4

LEMMA HandlerMoves ==
  ASSUME KnownInv, NEW h \in Handler, HandlerStep(h)
  PROVE  \E job : Moved(h, job)
<1> USE DEF KnownInv, ServerKnown, seatVars
<1> DEFINE old == handler[h]
<1>1. HandlerKnown(old) /\ old \in Work
  BY DEF HandlerKnown
<1>2. Idle.pc = "idle" /\ HandlerKnown(Idle)
  BY Blank DEF Idle
<1>3. CASE ReadRow(h)
  <2> DEFINE job == [old EXCEPT !.pc = "publish", !.seen = row[old.seat]]
  <2>1. handler' = [handler EXCEPT ![h] = job] /\ old.pc = "read" /\ UNCHANGED seatVars
    BY <1>3 DEF ReadRow, At
  <2>2. old.seat \in Seat /\ row[old.seat] \in Row
    BY <1>1, <2>1 DEF HandlerKnown
  <2>3. /\ job.pc = "publish" /\ job \in Work /\ job.seat = old.seat /\ job.by = old.by
        /\ job.action = old.action /\ job.seen = row[old.seat]
    BY <1>1, <2>2 DEF Work
  <2> HIDE DEF job
  <2>4. HandlerKnown(job)
    BY <1>1, <2>1, <2>3 DEF HandlerKnown
  <2>5. Moved(h, job)
    BY <1>1, <2>1, <2>3, <2>4 DEF Moved, At
  <2> QED
    BY <2>5
<1>4. CASE PublishSeat(h)
  BY <1>4, PublishedKnown DEF PublishSeat
<1>5. CASE PublishPricing(h)
  <2> DEFINE job == [old EXCEPT !.pc = "answer", !.seen = FreshRow]
  <2>1. handler' = [handler EXCEPT ![h] = job] /\ old.pc = "pricing" /\ UNCHANGED seatVars
    BY <1>5 DEF PublishPricing, At
  <2>2. /\ job.pc = "answer" /\ job \in Work /\ job.seat = old.seat /\ job.by = old.by
        /\ job.action = old.action
    BY <1>1, Blank DEF Work
  <2> HIDE DEF job
  <2>3. HandlerKnown(job)
    BY <1>1, <2>1, <2>2 DEF HandlerKnown
  <2>4. Moved(h, job)
    BY <1>1, <2>1, <2>2, <2>3 DEF Moved, At
  <2> QED
    BY <2>4
<1>6. CASE PublishFails(h)
  BY <1>6, PublishedKnown DEF PublishFails
<1>7. CASE Answer(h)
  <2>1. handler' = [handler EXCEPT ![h] = Idle] /\ old.pc = "answer" /\ UNCHANGED seatVars
    BY <1>7 DEF Answer, At
  <2>2. Moved(h, Idle)
    BY <1>2, <2>1 DEF Moved, At
  <2> QED
    BY <2>2
<1>8. CASE HandlerDies(h)
  <2>1. handler' = [handler EXCEPT ![h] = Idle] /\ old.pc = "publish" /\ UNCHANGED seatVars
    BY <1>8 DEF HandlerDies, At
  <2>2. Moved(h, Idle)
    BY <1>2, <2>1 DEF Moved, At
  <2> QED
    BY <2>2
<1> QED
  BY <1>3, <1>4, <1>5, <1>6, <1>7, <1>8 DEF HandlerStep

LEMMA ServerStep ==
  ASSUME KnownInv, [BroadcastNext]_vars PROVE ServerKnown'
<1>1. CASE UNCHANGED serverVars
  BY <1>1 DEF KnownInv, ServerKnown, serverVars, seatVars
<1>2. ASSUME NEW h \in Handler, NEW job, HandlerKnown(job), handler' = [handler EXCEPT ![h] = job],
             row' \in [Seat -> Row], booking' \in [Seat -> Client \cup {None}]
      PROVE  ServerKnown'
  BY <1>2 DEF KnownInv, ServerKnown, HandlerKnown
<1>3. ASSUME NEW h \in Handler, HandlerStep(h) PROVE ServerKnown'
  BY <1>2, <1>3, HandlerMoves DEF Moved, KnownInv, ServerKnown
<1>4. ASSUME NEW h \in Handler, NEW s \in Seat, CommitStep(h, s) PROVE ServerKnown'
  <2> PICK job, r : Committed(h, s, job, r)
    BY <1>4, CommitKnown
  <2>1. row' \in [Seat -> Row]
    BY DEF KnownInv, ServerKnown, Committed
  <2> QED
    BY <1>2, <2>1 DEF Committed
<1>5. ASSUME NEW h \in Handler, PrepareStep(h) PROVE ServerKnown'
  <2> PICK job : Prepared(h, job)
    BY <1>5, PrepareKnown
  <2>1. row' = row /\ booking' = booking
    BY DEF Prepared, seatVars
  <2> QED
    BY <1>2, <2>1 DEF Prepared, KnownInv, ServerKnown
<1>6. ASSUME NEW w \in Worker, WorkerStep(w) PROVE ServerKnown'
  BY <1>1, <1>6 DEF WorkerStep, Forward, FeedBreaks, Resubscribe, serverVars, seatVars
<1>7. ASSUME NEW c \in Client, SocketStep(c) \/ PageStep(c) PROVE ServerKnown'
  BY <1>1, <1>7 DEF SocketStep, Hear, Drop, Open, PageStep, CountdownEnds, Refused, serverVars, seatVars
<1>8. ASSUME NEW c \in Client, NEW i \in 1..MaxFetches, FetchStep(c, i) PROVE ServerKnown'
  BY <1>1, <1>8 DEF FetchStep, ServerReads, FetchArrives, FetchFails, serverVars, seatVars
<1> QED
  BY <1>1, <1>3, <1>4, <1>5, <1>6, <1>7, <1>8, Steps DEF vars

LEMMA PublishKnown ==
  ASSUME WireKnown, NEW m \in Message, Publish(m)
  PROVE  /\ WireKnown' /\ UNCHANGED <<socket, inbox>>
         /\ \A w \in Worker :
              feed'[w].messages = IF feed[w].up THEN Append(feed[w].messages, m) ELSE <<>>
         /\ \A w \in Worker : feed'[w].up = feed[w].up
<1> DEFINE F == [up: BOOLEAN, messages: Seq(Message)]
<1>1. ASSUME NEW w \in Worker, feed[w].up
      PROVE  LET f == [feed[w] EXCEPT !.messages = Append(@, m)] IN
             f \in F /\ f.up /\ f.messages = Append(feed[w].messages, m)
  <2>1. Append(feed[w].messages, m) \in Seq(Message) /\ feed[w] \in F
    BY DEF WireKnown
  <2> QED
    BY <1>1, <2>1
<1>2. ASSUME NEW w \in Worker
      PROVE  /\ feed'[w] \in F
             /\ feed'[w].messages = IF feed[w].up THEN Append(feed[w].messages, m) ELSE <<>>
             /\ feed'[w].up = feed[w].up
  <2>1. CASE feed[w].up
    <3>1. feed'[w] = [feed[w] EXCEPT !.messages = Append(@, m)]
      BY <2>1 DEF Publish
    <3>2. feed[w] \in F
      BY DEF WireKnown
    <3> QED
      BY <1>1, <2>1, <3>1, <3>2
  <2>2. CASE ~feed[w].up
    <3>1. feed'[w] = feed[w]
      BY <2>2 DEF Publish
    <3> QED
      BY <2>2, <3>1 DEF WireKnown
  <2> QED
    BY <2>1, <2>2
<1> HIDE DEF F
<1>3. feed' \in [Worker -> F]
  BY <1>2 DEF Publish
<1>4. UNCHANGED <<socket, inbox>>
  BY DEF Publish
<1>5. \A w \in Worker : ~feed'[w].up => feed'[w].messages = <<>>
  BY <1>2
<1>6. WireKnown'
  BY <1>3, <1>4, <1>5 DEF WireKnown, F
<1> QED
  BY <1>2, <1>4, <1>6

\* What the handlers send.
LEMMA MessageKnown ==
  ASSUME KnownInv, NEW h \in Handler
  PROVE  /\ At(h, "publish") =>
              [type |-> "seat_update", seat |-> handler[h].seat, row |-> handler[h].seen] \in Message
         /\ At(h, "pricing") =>
              [type |-> "pricing_update", seat |-> handler[h].seat, row |-> FreshRow] \in Message
<1>1. HandlerKnown(handler[h]) /\ handler[h].seen \in Row
  BY DEF KnownInv, ServerKnown, Work
<1>2. handler[h].pc # "idle" => handler[h].seat \in Seat
  BY <1>1 DEF HandlerKnown
<1> QED
  BY <1>1, <1>2, Blank DEF At, Message

LEMMA ForwardKnown ==
  ASSUME WireKnown, NEW w \in Worker, Forward(w)
  PROVE  /\ WireKnown' /\ UNCHANGED socket
         /\ feed[w].messages # <<>> /\ feed[w].messages \in Seq(Message)
         /\ feed'[w].messages = Tail(feed[w].messages)
         /\ \A v \in Worker \ {w} : feed'[v] = feed[v]
         /\ \A c \in Client : inbox'[c] = IF socket[c] = w
                                          THEN Append(inbox[c], Head(feed[w].messages)) ELSE inbox[c]
<1> PICK q : q = feed[w].messages
  OBVIOUS
<1>1. q \in Seq(Message) /\ q # <<>> /\ feed[w] \in [up: BOOLEAN, messages: Seq(Message)]
  BY DEF WireKnown, Forward
<1>2. Tail(q) \in Seq(Message) /\ Head(q) \in Message
  BY <1>1, Rest
<1> PICK f : f = [feed[w] EXCEPT !.messages = Tail(q)]
  OBVIOUS
<1>3. feed' = [feed EXCEPT ![w] = f]
  BY DEF Forward
<1>4. f \in [up: BOOLEAN, messages: Seq(Message)] /\ f.up = feed[w].up /\ f.messages = Tail(q)
  BY <1>1, <1>2
<1>5. f.up
  BY <1>1, <1>4 DEF WireKnown
<1>6. /\ feed' \in [Worker -> [up: BOOLEAN, messages: Seq(Message)]]
      /\ feed'[w] = f /\ \A v \in Worker \ {w} : feed'[v] = feed[v]
  BY <1>3, <1>4 DEF WireKnown
<1>7. /\ inbox' = [c \in Client |-> IF socket[c] = w THEN Append(inbox[c], Head(q)) ELSE inbox[c]]
      /\ socket' = socket
  BY DEF Forward
<1>8. inbox' \in [Client -> Seq(Message)]
  <2>1. ASSUME NEW c \in Client
        PROVE  Append(inbox[c], Head(q)) \in Seq(Message) /\ inbox[c] \in Seq(Message)
    <3>1. inbox[c] \in Seq(Message)
      BY DEF WireKnown
    <3> QED
      BY <1>2, <3>1, AppendProperties
  <2> QED
    BY <1>7, <2>1
<1>9. \A c \in Client : socket'[c] = None => inbox'[c] = <<>>
  BY <1>7, BroadcastAssumption DEF WireKnown, BroadcastAssumption
<1>10. \A v \in Worker : ~feed'[v].up => feed'[v].messages = <<>>
  BY <1>5, <1>6 DEF WireKnown
<1>11. WireKnown'
  BY <1>6, <1>7, <1>8, <1>9, <1>10 DEF WireKnown
<1> QED
  BY <1>1, <1>4, <1>6, <1>7, <1>11

LEMMA WireStep ==
  ASSUME KnownInv, [BroadcastNext]_vars PROVE WireKnown'
<1>1. WireKnown
  BY DEF KnownInv
<1>2. CASE UNCHANGED wireVars
  BY <1>1, <1>2 DEF WireKnown, wireVars
<1>3. ASSUME NEW h \in Handler, HandlerStep(h) PROVE WireKnown'
  <2>1. CASE PublishSeat(h)
    BY <1>1, <2>1, MessageKnown, PublishKnown DEF PublishSeat
  <2>2. CASE PublishPricing(h)
    BY <1>1, <2>2, MessageKnown, PublishKnown DEF PublishPricing
  <2>3. CASE ReadRow(h) \/ PublishFails(h) \/ Answer(h) \/ HandlerDies(h)
    BY <1>2, <2>3 DEF ReadRow, PublishFails, Answer, HandlerDies, wireVars
  <2> QED
    BY <1>3, <2>1, <2>2, <2>3 DEF HandlerStep
<1>4. ASSUME NEW h \in Handler, NEW s \in Seat, CommitStep(h, s) PROVE WireKnown'
  BY <1>2, <1>4, CommitKnown DEF Committed
<1>5. ASSUME NEW h \in Handler, PrepareStep(h) PROVE WireKnown'
  BY <1>2, <1>5, PrepareKnown DEF Prepared
<1>6. ASSUME NEW w \in Worker, WorkerStep(w) PROVE WireKnown'
  <2>1. CASE Forward(w)
    BY <1>1, <2>1, ForwardKnown
  <2>2. CASE FeedBreaks(w)
    <3>1. [up |-> FALSE, messages |-> <<>>] \in [up: BOOLEAN, messages: Seq(Message)]
      BY EmptySeq
    <3> QED
      BY <1>1, <2>2, <3>1 DEF FeedBreaks, WireKnown
  <2>3. CASE Resubscribe(w)
    BY <1>1, <2>3 DEF Resubscribe, WireKnown
  <2> QED
    BY <1>6, <2>1, <2>2, <2>3 DEF WorkerStep
<1>7. ASSUME NEW c \in Client, SocketStep(c) \/ PageStep(c) PROVE WireKnown'
  <2>1. CASE Hear(c)
    <3>1. inbox[c] \in Seq(Message) /\ inbox[c] # <<>> /\ socket[c] # None
      BY <1>1, <2>1 DEF WireKnown, Hear
    <3>2. Tail(inbox[c]) \in Seq(Message)
      BY <3>1, Rest
    <3>3. inbox' = [inbox EXCEPT ![c] = Tail(inbox[c])] /\ UNCHANGED <<feed, socket>>
      BY <2>1 DEF Hear
    <3> QED
      BY <1>1, <3>1, <3>2, <3>3 DEF WireKnown
  <2>2. CASE Drop(c)
    <3>1. <<>> \in Seq(Message)
      BY EmptySeq
    <3> QED
      BY <1>1, <2>2, <3>1 DEF Drop, WireKnown
  <2>3. CASE \E w \in Worker : Open(c, w)
    BY <1>1, <2>3, BroadcastAssumption DEF Open, WireKnown, BroadcastAssumption
  <2>4. CASE PageStep(c)
    BY <1>2, <2>4 DEF PageStep, CountdownEnds, Refused, wireVars
  <2> QED
    BY <1>7, <2>1, <2>2, <2>3, <2>4 DEF SocketStep
<1>8. ASSUME NEW c \in Client, NEW i \in 1..MaxFetches, FetchStep(c, i) PROVE WireKnown'
  BY <1>2, <1>8 DEF FetchStep, ServerReads, FetchArrives, FetchFails, wireVars
<1> QED
  BY <1>2, <1>3, <1>4, <1>5, <1>6, <1>7, <1>8, Steps DEF vars

\* Fetches: what missing something, asking, reading and leaving one out do.
LEMMA MissKnown ==
  ASSUME ClientKnown, NEW lost, Miss(lost)
  PROVE  /\ fetches' \in [Client -> Seq(Fetch)] /\ \A c \in Client : Len(fetches'[c]) <= MaxFetches
         /\ \A c \in Client \ lost : missed'[c] = missed[c] /\ fetches'[c] = fetches[c]
         /\ \A c \in Client : c \in lost => missed'[c] = "yes"
         /\ \A c \in Client : DOMAIN fetches'[c] = DOMAIN fetches[c]
         /\ \A c \in Client : \A i \in DOMAIN fetches[c] :
              /\ fetches'[c][i].read = fetches[c][i].read
              /\ fetches'[c][i].rows = fetches[c][i].rows
              /\ c \in lost => ~(fetches'[c][i].read /\ fetches'[c][i].whole)
<1>1. /\ missed' = [c \in Client |-> IF c \in lost THEN "yes" ELSE missed[c]]
      /\ fetches' = [c \in Client |-> IF c \in lost THEN Outdated(fetches[c]) ELSE fetches[c]]
  BY DEF Miss
<1>2. ASSUME NEW c \in Client
      PROVE  /\ fetches[c] \in Seq(Fetch) /\ Len(fetches[c]) <= MaxFetches
             /\ Outdated(fetches[c]) \in Seq(Fetch) /\ Len(Outdated(fetches[c])) = Len(fetches[c])
             /\ DOMAIN Outdated(fetches[c]) = DOMAIN fetches[c]
             /\ \A i \in DOMAIN fetches[c] :
                  /\ Outdated(fetches[c])[i].read = fetches[c][i].read
                  /\ Outdated(fetches[c])[i].rows = fetches[c][i].rows
                  /\ ~(Outdated(fetches[c])[i].read /\ Outdated(fetches[c])[i].whole)
  <2>1. PICK q : q = fetches[c] /\ q \in Seq(Fetch) /\ Len(q) <= MaxFetches
    BY DEF ClientKnown
  <2> QED
    BY <2>1, Outdate
<1> QED
  BY <1>1, <1>2

LEMMA AskingKnown ==
  ASSUME NEW f \in [Client -> Seq(Fetch)], \A d \in Client : Len(f[d]) <= MaxFetches,
         NEW c \in Client
  PROVE  /\ Asking(c, f) \in [Client -> Seq(Fetch)]
         /\ \A d \in Client : Len(Asking(c, f)[d]) <= MaxFetches
         /\ \A d \in Client : \A i \in DOMAIN Asking(c, f)[d] :
              Asking(c, f)[d][i].read => i \in DOMAIN f[d] /\ Asking(c, f)[d][i] = f[d][i]
<1>1. PICK q : q = f[c] /\ q \in Seq(Fetch) /\ Len(q) <= MaxFetches
  OBVIOUS
<1>2. CASE c \in Watching /\ Len(q) < MaxFetches
  <2>1. Asked \in Fetch /\ ~Asked.read
    BY Blank DEF Asked
  <2>2. /\ Append(q, Asked) \in Seq(Fetch) /\ Len(Append(q, Asked)) = Len(q) + 1
        /\ DOMAIN Append(q, Asked) = DOMAIN q \cup {Len(q) + 1}
        /\ \A i \in DOMAIN q : Append(q, Asked)[i] = q[i]
        /\ Append(q, Asked)[Len(q) + 1] = Asked
    BY <1>1, <2>1, Appended
  <2>3. Asking(c, f) = [f EXCEPT ![c] = Append(q, Asked)]
    BY <1>1, <1>2 DEF Asking
  <2>4. Len(q) + 1 <= MaxFetches
    BY <1>1, <1>2, BroadcastAssumption DEF BroadcastAssumption
  <2> QED
    BY <1>1, <2>1, <2>2, <2>3, <2>4
<1>3. CASE ~(c \in Watching /\ Len(q) < MaxFetches)
  BY <1>1, <1>3 DEF Asking
<1> QED
  BY <1>2, <1>3

LEMMA AskKnown ==
  ASSUME ClientKnown, NEW c \in Client, Ask(c)
  PROVE  /\ fetches' \in [Client -> Seq(Fetch)] /\ \A d \in Client : Len(fetches'[d]) <= MaxFetches
         /\ \A d \in Client : \A i \in DOMAIN fetches'[d] :
              fetches'[d][i].read => i \in DOMAIN fetches[d] /\ fetches'[d][i] = fetches[d][i]
BY AskingKnown DEF Ask, ClientKnown

\* When a handler dies everybody misses what it had to publish.
LEMMA DiesKnown ==
  ASSUME KnownInv, NEW h \in Handler, HandlerDies(h)
  PROVE  /\ fetches' \in [Client -> Seq(Fetch)] /\ \A d \in Client : Len(fetches'[d]) <= MaxFetches
         /\ missed' = [d \in Client |-> "yes"]
         /\ \A d \in Client : \A i \in DOMAIN fetches'[d] :
              fetches'[d][i].read => /\ i \in DOMAIN fetches[d] /\ fetches[d][i].read
                                     /\ fetches'[d][i].rows = fetches[d][i].rows
                                     /\ ~fetches'[d][i].whole
<1> DEFINE f == [d \in Client |-> Outdated(fetches[d])]
           c == handler[h].by
           refreshes == handler[h].action \in {"locked", "released", "booked"}
<1>1. ASSUME NEW d \in Client
      PROVE  /\ f[d] \in Seq(Fetch) /\ Len(f[d]) <= MaxFetches /\ DOMAIN f[d] = DOMAIN fetches[d]
             /\ \A i \in DOMAIN fetches[d] : /\ f[d][i].read = fetches[d][i].read
                                            /\ f[d][i].rows = fetches[d][i].rows
                                            /\ ~(f[d][i].read /\ f[d][i].whole)
  <2>1. PICK q : q = fetches[d] /\ q \in Seq(Fetch) /\ Len(q) <= MaxFetches
    BY DEF KnownInv, ClientKnown
  <2>2. f[d] = Outdated(q)
    BY <2>1
  <2> QED
    BY <2>1, <2>2, Outdate
<1>2. f \in [Client -> Seq(Fetch)]
  BY <1>1
<1>3. HandlerKnown(handler[h]) /\ handler[h].pc = "publish"
  BY DEF KnownInv, ServerKnown, HandlerDies, At
<1>4. refreshes => c \in Client
  BY <1>3 DEF HandlerKnown
<1>5. /\ fetches' = IF refreshes THEN Asking(c, f) ELSE f
      /\ missed' = [d \in Client |-> "yes"]
  BY DEF HandlerDies
<1> HIDE DEF f, refreshes
<1>6. CASE refreshes
  <2>1. /\ Asking(c, f) \in [Client -> Seq(Fetch)]
        /\ \A d \in Client : Len(Asking(c, f)[d]) <= MaxFetches
        /\ \A d \in Client : \A i \in DOMAIN Asking(c, f)[d] :
             Asking(c, f)[d][i].read => i \in DOMAIN f[d] /\ Asking(c, f)[d][i] = f[d][i]
    BY <1>1, <1>2, <1>4, <1>6, AskingKnown
  <2> QED
    BY <1>1, <1>5, <1>6, <2>1
<1>7. CASE ~refreshes
  BY <1>1, <1>2, <1>5, <1>7
<1> QED
  BY <1>6, <1>7

LEMMA ShorterKnown ==
  ASSUME ClientKnown, NEW c \in Client, NEW q \in Seq(Fetch), Len(q) = Len(fetches[c]) - 1
  PROVE  Len(q) <= MaxFetches
<1>1. Len(fetches[c]) <= MaxFetches /\ Len(fetches[c]) \in Nat /\ MaxFetches \in Nat
  BY BroadcastAssumption DEF ClientKnown, BroadcastAssumption
<1> QED
  BY <1>1

\* The map that a fetch brings is older than what the client shows.
Late(c, rows) == \E s \in Seat : rows[s].n < view[c][s].row.n

LEMMA ArrivalKnown ==
  ASSUME KnownInv, NEW c \in Client, NEW i, FetchArrives(c, i)
  PROVE  /\ i \in DOMAIN fetches[c] /\ fetches[c][i] \in Fetch /\ fetches[c][i].read
         /\ fetches' \in [Client -> Seq(Fetch)] /\ \A d \in Client : Len(fetches'[d]) <= MaxFetches
         /\ \A d \in Client \ {c} : fetches'[d] = fetches[d] /\ view'[d] = view[d] /\ missed'[d] = missed[d]
         /\ view' \in [Client -> [Seat -> [row: Row, told: BOOLEAN]]]
         /\ \A s \in Seat : view'[c][s] = [row |-> fetches[c][i].rows[s], told |-> FALSE]
         /\ \A k \in DOMAIN fetches'[c] : \E j \in DOMAIN fetches[c] :
              /\ fetches'[c][k].read = fetches[c][j].read
              /\ fetches'[c][k].rows = fetches[c][j].rows
              /\ fetches'[c][k].read /\ fetches'[c][k].whole =>
                   fetches[c][j].whole /\ ~Late(c, fetches[c][i].rows)
         /\ missed' \in [Client -> {"never", "yes", "healed"}]
         /\ missed'[c] # "yes" =>
              /\ fetches[c][i].whole /\ ~Late(c, fetches[c][i].rows)
              /\ missed[c] # "yes" \/ ~OlderComing(c, fetches[c][i].rows)
         /\ missed'[c] = "never" => missed[c] = "never"
<1> PICK q, f : q = fetches[c] /\ f = fetches[c][i]
  OBVIOUS
<1> PICK late \in BOOLEAN : late <=> Late(c, f.rows)
  OBVIOUS
<1> PICK new : new = IF late THEN Outdated(q) ELSE q
  OBVIOUS
<1>1. /\ i \in DOMAIN q /\ f.read /\ q \in Seq(Fetch)
      /\ fetches' = [fetches EXCEPT ![c] = Without(new, i)]
      /\ view' = [view EXCEPT ![c] = [s \in Seat |-> [row |-> f.rows[s], told |-> FALSE]]]
  <2>1. i \in DOMAIN q /\ f.read /\ q \in Seq(Fetch)
    BY DEF FetchArrives, KnownInv, ClientKnown
  <2>2. view' = [view EXCEPT ![c] = [s \in Seat |-> [row |-> f.rows[s], told |-> FALSE]]]
    BY DEF FetchArrives
  <2>3. fetches' = [fetches EXCEPT ![c] = Without(IF late THEN Outdated(@) ELSE @, i)]
    BY DEF FetchArrives, Late
  <2>4. c \in DOMAIN fetches
    BY DEF KnownInv, ClientKnown
  <2> QED
    BY <2>1, <2>2, <2>3, <2>4
<1>2. f \in Fetch /\ f.rows \in [Seat -> Row]
  <2>1. f \in Fetch
    BY <1>1, ElementOfSeq
  <2> QED
    BY <2>1 DEF Fetch
<1>3. /\ new \in Seq(Fetch) /\ Len(new) = Len(q) /\ DOMAIN new = DOMAIN q
      /\ \A j \in DOMAIN q : /\ new[j].read = q[j].read /\ new[j].rows = q[j].rows
                             /\ new[j].read /\ new[j].whole => q[j].whole /\ ~late
  BY <1>1, Outdate
<1>4. /\ fetches' \in [Client -> Seq(Fetch)] /\ \A d \in Client : Len(fetches'[d]) <= MaxFetches
      /\ \A d \in Client \ {c} : fetches'[d] = fetches[d]
      /\ \A k \in DOMAIN fetches'[c] : \E j \in DOMAIN new : fetches'[c][k] = new[j]
  <2> PICK w : w = Without(new, i)
    OBVIOUS
  <2>1. ClientKnown /\ i \in DOMAIN new
    BY <1>1, <1>3 DEF KnownInv
  <2>2. /\ w \in Seq(Fetch) /\ Len(w) = Len(fetches[c]) - 1
        /\ \A k \in DOMAIN w : \E j \in DOMAIN new : w[k] = new[j]
    BY <1>3, <2>1, LeftOut
  <2>3. fetches' = [fetches EXCEPT ![c] = w]
    BY <1>1
  <2>4. Len(w) <= MaxFetches
    BY <2>1, <2>2, ShorterKnown
  <2> QED
    BY <2>1, <2>2, <2>3, <2>4 DEF ClientKnown
<1>5. ASSUME NEW k \in DOMAIN fetches'[c]
      PROVE  \E j \in DOMAIN q :
              /\ fetches'[c][k].read = q[j].read
              /\ fetches'[c][k].rows = q[j].rows
              /\ fetches'[c][k].read /\ fetches'[c][k].whole => q[j].whole /\ ~late
  <2> PICK j \in DOMAIN new : fetches'[c][k] = new[j]
    BY <1>4
  <2> QED
    BY <1>3
<1>6. /\ view' \in [Client -> [Seat -> [row: Row, told: BOOLEAN]]]
      /\ \A d \in Client \ {c} : view'[d] = view[d]
      /\ \A s \in Seat : view'[c][s] = [row |-> f.rows[s], told |-> FALSE]
  <2>1. [s \in Seat |-> [row |-> f.rows[s], told |-> FALSE]] \in [Seat -> [row: Row, told: BOOLEAN]]
    BY <1>2
  <2> QED
    BY <1>1, <2>1 DEF KnownInv, ClientKnown
<1>7. PICK misses \in BOOLEAN :
        /\ misses <=> late \/ ~f.whole \/ (missed[c] = "yes" /\ OlderComing(c, f.rows))
        /\ missed' = [missed EXCEPT ![c] = CASE misses -> "yes"
                                             [] ~misses /\ @ = "yes" -> "healed"
                                             [] OTHER -> @]
  BY DEF FetchArrives, Late
<1>8. /\ missed' \in [Client -> {"never", "yes", "healed"}]
      /\ \A d \in Client \ {c} : missed'[d] = missed[d]
      /\ missed'[c] # "yes" => ~misses
      /\ missed'[c] = "never" => missed[c] = "never"
  <2>1. missed \in [Client -> {"never", "yes", "healed"}]
    BY DEF KnownInv, HistoryKnown
  <2>2. CASE misses
    BY <1>7, <2>1, <2>2
  <2>3. CASE ~misses /\ missed[c] = "yes"
    BY <1>7, <2>1, <2>3
  <2>4. CASE ~misses /\ missed[c] # "yes"
    BY <1>7, <2>1, <2>4
  <2> QED
    BY <2>2, <2>3, <2>4
<1> QED
  <2>1. Late(c, f.rows) <=> late
    OBVIOUS
  <2> QED
    BY <1>1, <1>2, <1>4, <1>5, <1>6, <1>7, <1>8, <2>1

LEMMA ReadKnown ==
  ASSUME KnownInv, NEW c \in Client, NEW i, ServerReads(c, i)
  PROVE  /\ fetches' \in [Client -> Seq(Fetch)] /\ \A d \in Client : Len(fetches'[d]) <= MaxFetches
         /\ \A d \in Client \ {c} : fetches'[d] = fetches[d]
         /\ DOMAIN fetches'[c] = DOMAIN fetches[c]
         /\ \A k \in DOMAIN fetches[c] : fetches'[c][k] = fetches[c][k] \/ fetches'[c][k].rows = row
<1> PICK q, f : q = fetches[c] /\ f = [read |-> TRUE, rows |-> row, whole |-> TRUE]
  OBVIOUS
<1>1. q \in Seq(Fetch) /\ Len(q) <= MaxFetches /\ i \in DOMAIN q /\ f.rows = row
  BY DEF KnownInv, ClientKnown, ServerReads
<1>2. f \in Fetch
  BY DEF Fetch, KnownInv, ServerKnown
<1>3. fetches' = [fetches EXCEPT ![c] = [q EXCEPT ![i] = f]]
  BY DEF ServerReads
<1>4. /\ [q EXCEPT ![i] = f] \in Seq(Fetch) /\ Len([q EXCEPT ![i] = f]) = Len(q)
      /\ DOMAIN [q EXCEPT ![i] = f] = DOMAIN q
  BY <1>1, <1>2, ExceptSeq
<1> QED
  BY <1>1, <1>3, <1>4 DEF KnownInv, ClientKnown

LEMMA FailKnown ==
  ASSUME KnownInv, NEW c \in Client, NEW i, FetchFails(c, i)
  PROVE  /\ fetches' \in [Client -> Seq(Fetch)] /\ \A d \in Client : Len(fetches'[d]) <= MaxFetches
         /\ \A d \in Client \ {c} : fetches'[d] = fetches[d]
         /\ \A k \in DOMAIN fetches'[c] : \E j \in DOMAIN fetches[c] : fetches'[c][k] = fetches[c][j]
<1> PICK q, w : q = fetches[c] /\ w = Without(q, i)
  OBVIOUS
<1>1. q \in Seq(Fetch) /\ i \in DOMAIN q /\ ClientKnown
  BY DEF KnownInv, ClientKnown, FetchFails
<1>2. /\ w \in Seq(Fetch) /\ Len(w) = Len(fetches[c]) - 1
      /\ \A k \in DOMAIN w : \E j \in DOMAIN q : w[k] = q[j]
  BY <1>1, LeftOut
<1>3. fetches' = [fetches EXCEPT ![c] = w]
  BY DEF FetchFails
<1>4. Len(w) <= MaxFetches
  BY <1>1, <1>2, ShorterKnown
<1> QED
  BY <1>1, <1>2, <1>3, <1>4 DEF ClientKnown

LEMMA HearKnown ==
  ASSUME KnownInv, NEW c \in Client, Hear(c)
  PROVE  LET m == Head(inbox[c]) IN
         /\ m \in Message /\ inbox[c] \in Seq(Message) /\ inbox[c] # <<>>
         /\ inbox' = [inbox EXCEPT ![c] = Tail(inbox[c])]
         /\ inbox'[c] = Tail(inbox[c])
         /\ IF m.type = "seat_update"
            THEN /\ view' = [view EXCEPT ![c] = [view[c] EXCEPT ![m.seat] = [row |-> m.row, told |-> TRUE]]]
                 /\ view' \in [Client -> [Seat -> [row: Row, told: BOOLEAN]]]
                 /\ view'[c][m.seat] = [row |-> m.row, told |-> TRUE]
                 /\ \A s \in Seat \ {m.seat} : view'[c][s] = view[c][s]
                 /\ \A d \in Client \ {c} : view'[d] = view[d]
                 /\ selected' = [selected EXCEPT ![c] = SelectionAfter(c, m.seat, m.row)]
                 /\ fetches' = fetches
            ELSE Ask(c) /\ view' = view /\ selected' = selected
<1> PICK m, v : m = Head(inbox[c]) /\ v = [row |-> m.row, told |-> TRUE]
  OBVIOUS
<1>1. inbox[c] \in Seq(Message) /\ inbox[c] # <<>>
  BY DEF Hear, KnownInv, WireKnown
<1>2. m \in Message
  BY <1>1, Rest
<1>3. /\ inbox' = [inbox EXCEPT ![c] = Tail(inbox[c])]
      /\ inbox'[c] = Tail(inbox[c])
  BY DEF Hear, KnownInv, WireKnown
<1>4. CASE m.type = "seat_update"
  <2>1. /\ view' = [view EXCEPT ![c] = [view[c] EXCEPT ![m.seat] = v]]
        /\ selected' = [selected EXCEPT ![c] = SelectionAfter(c, m.seat, m.row)] /\ fetches' = fetches
    BY <1>4 DEF Hear
  <2>2. v \in [row: Row, told: BOOLEAN] /\ m.seat \in Seat
    BY <1>2 DEF Message
  <2>3. view[c] \in [Seat -> [row: Row, told: BOOLEAN]] /\ view \in [Client -> [Seat -> [row: Row, told: BOOLEAN]]]
    BY DEF KnownInv, ClientKnown
  <2> QED
    BY <1>1, <1>2, <1>3, <1>4, <2>1, <2>2, <2>3
<1>5. CASE m.type # "seat_update"
  BY <1>1, <1>2, <1>3, <1>5 DEF Hear
<1> QED
  BY <1>4, <1>5

LEMMA ClientStep ==
  ASSUME KnownInv, [BroadcastNext]_vars PROVE ClientKnown'
<1>1. /\ ClientKnown /\ view \in [Client -> [Seat -> [row: Row, told: BOOLEAN]]]
      /\ selected \in [Client -> Seat \cup {None}]
  BY DEF KnownInv, ClientKnown
<1> DEFINE Fetched == /\ fetches' \in [Client -> Seq(Fetch)]
                      /\ \A c \in Client : Len(fetches'[c]) <= MaxFetches
<1>2. fetches' = fetches => Fetched
  BY <1>1 DEF ClientKnown
<1>3. ASSUME Fetched, view' \in [Client -> [Seat -> [row: Row, told: BOOLEAN]]],
             selected' \in [Client -> Seat \cup {None}]
      PROVE  ClientKnown'
  BY <1>3 DEF ClientKnown
<1>4. CASE UNCHANGED clientVars
  BY <1>1, <1>4 DEF ClientKnown, clientVars
<1>5. ASSUME NEW lost, Miss(lost) PROVE Fetched
  BY <1>1, <1>5, MissKnown
<1>6. ASSUME NEW c \in Client, Ask(c) PROVE Fetched
  BY <1>1, <1>6, AskKnown
<1> HIDE DEF Fetched
<1>7. ASSUME NEW h \in Handler, HandlerStep(h) PROVE ClientKnown'
  <2>1. HandlerKnown(handler[h]) /\ handler[h] \in Work
    BY DEF KnownInv, ServerKnown
  <2>2. CASE ReadRow(h) \/ PublishPricing(h)
    BY <1>4, <2>2 DEF ReadRow, PublishPricing, clientVars
  <2>3. CASE PublishSeat(h) \/ PublishFails(h)
    BY <1>1, <1>3, <1>5, <2>3 DEF PublishSeat, PublishFails
  <2>4. CASE Answer(h)
    <3>1. handler[h].by \in Client /\ handler[h].seat \in Seat
      BY <2>1, <2>4 DEF Answer, At, HandlerKnown
    <3>2. Fetched /\ view' = view
      BY <1>6, <2>4, <3>1 DEF Answer
    <3>3. \/ selected' = [selected EXCEPT ![handler[h].by] = handler[h].seat]
          \/ selected' = selected
          \/ selected' = [selected EXCEPT ![handler[h].by] = None]
      BY <2>4 DEF Answer
    <3>4. selected' \in [Client -> Seat \cup {None}]
      BY <1>1, <3>1, <3>3
    <3> QED
      BY <1>1, <1>3, <3>2, <3>4
  <2>5. CASE HandlerDies(h)
    <3>1. Fetched /\ view' = view
      BY <2>5, DiesKnown DEF HandlerDies, Fetched
    <3>2. selected' = selected \/ selected' = [selected EXCEPT ![handler[h].by] = None]
      BY <2>5 DEF HandlerDies
    <3>3. selected' \in [Client -> Seat \cup {None}]
      BY <1>1, <3>2
    <3> QED
      BY <1>1, <1>3, <3>1, <3>3
  <2> QED
    BY <1>7, <2>2, <2>3, <2>4, <2>5 DEF HandlerStep
<1>8. ASSUME NEW h \in Handler, NEW s \in Seat, CommitStep(h, s) PROVE ClientKnown'
  BY <1>4, <1>8, CommitKnown DEF Committed
<1>9. ASSUME NEW h \in Handler, PrepareStep(h) PROVE ClientKnown'
  BY <1>4, <1>9, PrepareKnown DEF Prepared
<1>10. ASSUME NEW w \in Worker, WorkerStep(w) PROVE ClientKnown'
  <2>1. CASE Forward(w) \/ Resubscribe(w)
    BY <1>4, <2>1 DEF Forward, Resubscribe
  <2>2. CASE FeedBreaks(w)
    BY <1>1, <1>3, <1>5, <2>2 DEF FeedBreaks
  <2> QED
    BY <1>10, <2>1, <2>2 DEF WorkerStep
<1>11. ASSUME NEW c \in Client, SocketStep(c) \/ PageStep(c) PROVE ClientKnown'
  <2>1. CASE Hear(c)
    <3>1. CASE Head(inbox[c]).type = "seat_update"
      <4>1. SelectionAfter(c, Head(inbox[c]).seat, Head(inbox[c]).row) \in Seat \cup {None}
        BY <1>1 DEF SelectionAfter
      <4>2. /\ selected' = [selected EXCEPT ![c] = SelectionAfter(c, Head(inbox[c]).seat, Head(inbox[c]).row)]
            /\ fetches' = fetches /\ view' \in [Client -> [Seat -> [row: Row, told: BOOLEAN]]]
        BY <2>1, <3>1, HearKnown
      <4>3. selected' \in [Client -> Seat \cup {None}]
        BY <1>1, <4>1, <4>2
      <4> QED
        BY <1>2, <1>3, <4>2, <4>3
    <3>2. CASE Head(inbox[c]).type # "seat_update"
      BY <1>1, <1>3, <1>6, <2>1, <3>2, HearKnown
    <3> QED
      BY <3>1, <3>2
  <2>2. CASE Drop(c)
    BY <1>1, <1>3, <1>5, <2>2 DEF Drop
  <2>3. CASE \E w \in Worker : Open(c, w)
    BY <1>4, <2>3 DEF Open
  <2>4. CASE PageStep(c)
    <3>1. Ask(c) /\ view' = view /\ selected' \in {selected, [selected EXCEPT ![c] = None]}
      BY <2>4 DEF PageStep, CountdownEnds, Refused
    <3> QED
      BY <1>1, <1>3, <1>6, <3>1
  <2> QED
    BY <1>11, <2>1, <2>2, <2>3, <2>4 DEF SocketStep
<1>12. ASSUME NEW c \in Client, NEW i \in 1..MaxFetches, FetchStep(c, i) PROVE ClientKnown'
  <2>1. CASE ServerReads(c, i)
    BY <1>1, <1>3, <2>1, ReadKnown DEF ServerReads, Fetched
  <2>2. CASE FetchArrives(c, i)
    BY <1>1, <1>3, <2>2, ArrivalKnown DEF FetchArrives, Fetched
  <2>3. CASE FetchFails(c, i)
    BY <1>1, <1>3, <2>3, FailKnown DEF FetchFails, Fetched
  <2> QED
    BY <1>12, <2>1, <2>2, <2>3 DEF FetchStep
<1> QED
  BY <1>4, <1>7, <1>8, <1>9, <1>10, <1>11, <1>12, Steps DEF vars

LEMMA HistoryStep ==
  ASSUME KnownInv, [BroadcastNext]_vars PROVE HistoryKnown'
<1>1. /\ missed \in [Client -> {"never", "yes", "healed"}] /\ published \in [Seat -> Row]
      /\ overtaken \subseteq Seat /\ belated \subseteq Client /\ faults \in 0..MaxFaults
  BY DEF KnownInv, HistoryKnown
<1>2. CASE UNCHANGED historyVars
  BY <1>1, <1>2 DEF HistoryKnown, historyVars
<1>3. ASSUME NEW lost, Miss(lost) PROVE missed' \in [Client -> {"never", "yes", "healed"}]
  BY <1>1, <1>3 DEF Miss
<1>4. Fault => faults' \in 0..MaxFaults
  BY <1>1, BroadcastAssumption DEF Fault, BroadcastAssumption
<1>5. ASSUME NEW h \in Handler, HandlerStep(h) PROVE HistoryKnown'
  <2>1. CASE ReadRow(h) \/ PublishPricing(h)
    BY <1>2, <2>1 DEF ReadRow, PublishPricing
  <2>2. CASE Answer(h)
    <3>1. handler[h].by \in Client
      BY <2>2 DEF Answer, At, KnownInv, ServerKnown, HandlerKnown
    <3>2. belated' \subseteq Client
      BY <1>1, <2>2, <3>1 DEF Answer
    <3> QED
      BY <1>1, <2>2, <3>2 DEF Answer, HistoryKnown
  <2>3. CASE PublishSeat(h)
    <3>1. handler[h].seat \in Seat /\ handler[h].seen \in Row
      BY <2>3 DEF PublishSeat, At, KnownInv, ServerKnown, HandlerKnown, Work
    <3>2. overtaken' \subseteq Seat
      BY <1>1, <2>3, <3>1 DEF PublishSeat
    <3>3. published' \in [Seat -> Row]
      BY <1>1, <2>3, <3>1 DEF PublishSeat
    <3> QED
      BY <1>1, <1>3, <2>3, <3>2, <3>3 DEF PublishSeat, HistoryKnown
  <2>4. CASE PublishFails(h)
    BY <1>1, <1>3, <1>4, <2>4 DEF PublishFails, HistoryKnown
  <2>5. CASE HandlerDies(h)
    BY <1>1, <1>4, <2>5 DEF HandlerDies, HistoryKnown
  <2> QED
    BY <1>5, <2>1, <2>2, <2>3, <2>4, <2>5 DEF HandlerStep
<1>6. ASSUME NEW h \in Handler, NEW s \in Seat, CommitStep(h, s) PROVE HistoryKnown'
  BY <1>2, <1>6, CommitKnown DEF Committed
<1>7. ASSUME NEW h \in Handler, PrepareStep(h) PROVE HistoryKnown'
  <2> PICK job : Prepared(h, job)
    BY <1>7, PrepareKnown
  <2> QED
    BY <1>1 DEF Prepared, HistoryKnown
<1>8. ASSUME NEW w \in Worker, WorkerStep(w) PROVE HistoryKnown'
  <2>1. CASE FeedBreaks(w)
    BY <1>1, <1>3, <1>4, <2>1 DEF FeedBreaks, HistoryKnown
  <2> QED
    BY <1>2, <1>8, <2>1 DEF WorkerStep, Forward, Resubscribe
<1>9. ASSUME NEW c \in Client, SocketStep(c) \/ PageStep(c) PROVE HistoryKnown'
  <2>1. CASE Drop(c)
    BY <1>1, <1>3, <1>4, <2>1 DEF Drop, HistoryKnown
  <2>2. CASE PageStep(c)
    BY <1>1, <1>4, <2>2 DEF PageStep, CountdownEnds, Refused, HistoryKnown
  <2> QED
    BY <1>2, <1>9, <2>1, <2>2 DEF SocketStep, Hear, Open
<1>10. ASSUME NEW c \in Client, NEW i \in 1..MaxFetches, FetchStep(c, i) PROVE HistoryKnown'
  <2>1. CASE ServerReads(c, i)
    BY <1>2, <2>1 DEF ServerReads
  <2>2. CASE FetchArrives(c, i)
    BY <1>1, <2>2, ArrivalKnown DEF FetchArrives, HistoryKnown
  <2>3. CASE FetchFails(c, i)
    BY <1>1, <1>4, <2>3 DEF FetchFails, HistoryKnown
  <2> QED
    BY <1>10, <2>1, <2>2, <2>3 DEF FetchStep
<1> QED
  BY <1>2, <1>5, <1>6, <1>7, <1>8, <1>9, <1>10, Steps DEF vars

LEMMA KnownAlways == BroadcastSpec => []KnownInv
<1>1. KnownInv /\ [BroadcastNext]_vars => KnownInv'
  BY ServerStep, WireStep, ClientStep, HistoryStep DEF KnownInv
<1> QED
  BY KnownInit, <1>1, PTL DEF BroadcastSpec

\* Whatever the handlers, the wire and the browsers do, every variable keeps
\* its type: a client without a socket has no messages, and no more fetches
\* are under way than MaxFetches.
THEOREM TypeCorrectness == BroadcastSpec => []BroadcastTypeOK
<1>1. KnownInv => BroadcastTypeOK
  <2> SUFFICES ASSUME KnownInv PROVE BroadcastTypeOK
    OBVIOUS
  <2>1. \A w \in Worker : feed[w].up \in BOOLEAN /\ feed[w].messages \in Seq(Message)
    BY DEF KnownInv, WireKnown
  <2> QED
    BY <2>1 DEF KnownInv, ServerKnown, WireKnown, ClientKnown, HistoryKnown, BroadcastTypeOK
<1> QED
  BY KnownAlways, <1>1, PTL

----------------------------------------------------------------------------
(* What is on its way                                                      *)

\* What the client's worker has yet to forward.
Wire(c) == IF socket[c] = None THEN <<>> ELSE feed[socket[c]].messages
Hushed(c, s) == Silent(Wire(c), s) /\ Silent(inbox[c], s)

\* Whatever is on its way ends with r, also to those who will open a socket.
Coming(c, s, r) ==
  /\ \A w \in Worker : EndsWith(feed[w].messages, s, r)
  /\ Silent(Wire(c), s) => EndsWith(inbox[c], s, r)

\* If r was coming to c it is still coming, and if it has been heard then the
\* client shows it.
FlowsOn(c, s, r) ==
  Coming(c, s, r) =>
    /\ Coming(c, s, r)'
    /\ Hushed(c, s)' => \/ Hushed(c, s) /\ view'[c][s] = view[c][s]
                        \/ view'[c][s] = [row |-> r, told |-> TRUE]

Flows(c, s) == \A r : FlowsOn(c, s, r)

LEMMA StandStill ==
  ASSUME NEW c \in Client, NEW s \in Seat, UNCHANGED wireVars, view'[c][s] = view[c][s]
  PROVE  Flows(c, s)
<1>1. Wire(c)' = Wire(c) /\ inbox' = inbox /\ feed' = feed
  BY DEF wireVars, Wire
<1> QED
  BY <1>1 DEF Flows, FlowsOn, Coming, Hushed

\* A message that says nothing of s changes nothing for it.
LEMMA PublishFlows ==
  ASSUME KnownInv, NEW m \in Message, Publish(m), view' = view,
         NEW c \in Client, NEW s \in Seat, ~Says(m, s)
  PROVE  Flows(c, s)
<1>1. /\ UNCHANGED <<socket, inbox>>
      /\ \A w \in Worker :
           feed'[w].messages = IF feed[w].up THEN Append(feed[w].messages, m) ELSE <<>>
  BY PublishKnown DEF KnownInv
<1>2. ASSUME NEW w \in Worker
      PROVE  /\ Silent(feed'[w].messages, s) <=> Silent(feed[w].messages, s)
             /\ \A r : EndsWith(feed[w].messages, s, r) => EndsWith(feed'[w].messages, s, r)
  <2>1. feed[w].messages \in Seq(Message)
    BY DEF KnownInv, WireKnown
  <2>2. CASE feed[w].up
    BY <1>1, <2>1, <2>2, SayMore
  <2>3. CASE ~feed[w].up
    <3>1. feed[w].messages = <<>> /\ feed'[w].messages = <<>>
      BY <1>1, <2>3 DEF KnownInv, WireKnown
    <3> QED
      BY <3>1
  <2> QED
    BY <2>2, <2>3
<1>3. Silent(Wire(c)', s) <=> Silent(Wire(c), s)
  <2>1. socket[c] \in Worker \cup {None} /\ Wire(c)' = IF socket[c] = None THEN <<>> ELSE feed'[socket[c]].messages
    BY <1>1 DEF Wire, KnownInv, WireKnown
  <2> QED
    BY <1>2, <2>1 DEF Wire
<1> QED
  BY <1>1, <1>2, <1>3 DEF Flows, FlowsOn, Coming, Hushed

LEMMA ForwardFlows ==
  ASSUME KnownInv, NEW v \in Worker, Forward(v), NEW c \in Client, NEW s \in Seat
  PROVE  Flows(c, s)
<1> PICK q, m, b : q = feed[v].messages /\ m = Head(feed[v].messages) /\ b = inbox[c]
  OBVIOUS
<1>1. /\ UNCHANGED socket /\ q # <<>> /\ q \in Seq(Message)
      /\ feed'[v].messages = Tail(q)
      /\ \A w \in Worker \ {v} : feed'[w] = feed[w]
      /\ inbox'[c] = IF socket[c] = v THEN Append(b, m) ELSE b
  BY ForwardKnown DEF KnownInv
<1>2. m \in Message /\ b \in Seq(Message) /\ socket[c] \in Worker \cup {None} /\ None \notin Worker
  BY <1>1, Rest, BroadcastAssumption DEF KnownInv, WireKnown, BroadcastAssumption
<1>3. /\ Silent(q, s) <=> ~Says(m, s) /\ Silent(Tail(q), s)
      /\ \A r : EndsWith(q, s, r) =>
           /\ EndsWith(Tail(q), s, r)
           /\ Says(m, s) /\ Silent(Tail(q), s) => m.row = r
  BY <1>1, SaidFirst
<1>4. /\ Silent(Append(b, m), s) <=> Silent(b, s) /\ ~Says(m, s)
      /\ Says(m, s) => EndsWith(Append(b, m), s, m.row)
      /\ \A r : ~Says(m, s) /\ EndsWith(b, s, r) => EndsWith(Append(b, m), s, r)
  BY <1>2, SayMore
<1> SUFFICES ASSUME NEW r, Coming(c, s, r)
             PROVE  /\ Coming(c, s, r)'
                    /\ Hushed(c, s)' => Hushed(c, s) /\ view'[c][s] = view[c][s]
  BY DEF Flows, FlowsOn
<1>5. view' = view
  BY DEF Forward, clientVars
<1>6. \A w \in Worker : EndsWith(feed'[w].messages, s, r)
  BY <1>1, <1>3 DEF Coming
<1>7. CASE socket[c] = v
  <2>1. Wire(c) = q /\ Wire(c)' = Tail(q) /\ inbox'[c] = Append(b, m)
    BY <1>1, <1>2, <1>7 DEF Wire
  <2>2. Silent(Tail(q), s) => EndsWith(Append(b, m), s, r)
    BY <1>3, <1>4, <2>1 DEF Coming
  <2>3. Silent(Tail(q), s) /\ Silent(Append(b, m), s) => Silent(q, s) /\ Silent(b, s)
    BY <1>3, <1>4
  <2> QED
    BY <1>5, <1>6, <2>1, <2>2, <2>3 DEF Coming, Hushed
<1>8. CASE socket[c] # v
  <2>1. Wire(c)' = Wire(c) /\ inbox'[c] = b
    BY <1>1, <1>2, <1>8 DEF Wire
  <2> QED
    BY <1>5, <1>6, <2>1 DEF Coming, Hushed
<1> QED
  BY <1>7, <1>8

LEMMA HearFlows ==
  ASSUME KnownInv, NEW d \in Client, Hear(d), NEW c \in Client, NEW s \in Seat
  PROVE  Flows(c, s)
<1> PICK q, m : q = inbox[d] /\ m = Head(inbox[d])
  OBVIOUS
<1>1. /\ q \in Seq(Message) /\ q # <<>> /\ m \in Message
      /\ inbox' = [inbox EXCEPT ![d] = Tail(q)] /\ inbox'[d] = Tail(q)
      /\ m.type = "seat_update" =>
           /\ view'[d][m.seat] = [row |-> m.row, told |-> TRUE]
           /\ \A z \in Seat \ {m.seat} : view'[d][z] = view[d][z]
           /\ \A e \in Client \ {d} : view'[e] = view[e]
      /\ m.type # "seat_update" => view' = view
  BY HearKnown
<1>2. feed' = feed /\ socket' = socket /\ Wire(c)' = Wire(c)
  BY DEF Hear, Wire
<1>3. CASE c # d
  <2>1. inbox'[c] = inbox[c] /\ view'[c] = view[c]
    BY <1>1, <1>3 DEF KnownInv, WireKnown
  <2> QED
    BY <1>2, <2>1 DEF Flows, FlowsOn, Coming, Hushed
<1>4. CASE c = d
  <2>1. /\ Silent(q, s) <=> ~Says(m, s) /\ Silent(Tail(q), s)
        /\ \A r : EndsWith(q, s, r) =>
             /\ EndsWith(Tail(q), s, r)
             /\ Says(m, s) /\ Silent(Tail(q), s) => m.row = r
    BY <1>1, SaidFirst
  <2>2. /\ Says(m, s) => view'[c][s] = [row |-> m.row, told |-> TRUE]
        /\ ~Says(m, s) => view'[c][s] = view[c][s]
    BY <1>1, <1>4 DEF Says
  <2> SUFFICES ASSUME NEW r, Coming(c, s, r)
               PROVE  /\ Coming(c, s, r)'
                      /\ Hushed(c, s)' => \/ Hushed(c, s) /\ view'[c][s] = view[c][s]
                                          \/ view'[c][s] = [row |-> r, told |-> TRUE]
    BY DEF Flows, FlowsOn
  <2>3. Silent(Wire(c), s) => EndsWith(q, s, r)
    BY <1>4 DEF Coming
  <2>4. Coming(c, s, r)'
    BY <1>1, <1>2, <1>4, <2>1, <2>3 DEF Coming
  <2>5. ASSUME Hushed(c, s)'
        PROVE  \/ Hushed(c, s) /\ view'[c][s] = view[c][s]
               \/ view'[c][s] = [row |-> r, told |-> TRUE]
    <3>1. Silent(Wire(c), s) /\ Silent(Tail(q), s)
      BY <1>1, <1>2, <1>4, <2>5 DEF Hushed
    <3> QED
      BY <1>4, <2>1, <2>2, <2>3, <3>1 DEF Hushed
  <2> QED
    BY <2>4, <2>5
<1> QED
  BY <1>3, <1>4

LEMMA OpenFlows ==
  ASSUME KnownInv, NEW d \in Client, NEW w \in Worker, Open(d, w), NEW c \in Client, NEW s \in Seat
  PROVE  Flows(c, s)
<1>1. /\ socket[d] = None /\ socket' = [socket EXCEPT ![d] = w] /\ feed' = feed /\ inbox' = inbox
      /\ view' = view /\ inbox[d] = <<>>
  BY DEF Open, clientVars, KnownInv, WireKnown
<1>2. CASE c # d
  <2>1. Wire(c)' = Wire(c)
    BY <1>1, <1>2 DEF Wire, KnownInv, WireKnown
  <2> QED
    BY <1>1, <2>1 DEF Flows, FlowsOn, Coming, Hushed
<1>3. CASE c = d
  <2>1. Wire(c) = <<>> /\ inbox'[c] = <<>> /\ inbox[c] = <<>>
    BY <1>1, <1>3 DEF Wire
  <2>2. Hushed(c, s) /\ \A r : EndsWith(inbox'[c], s, r)
    BY <2>1, SilentEnd DEF Hushed
  <2> QED
    BY <1>1, <2>2 DEF Flows, FlowsOn, Coming
<1> QED
  BY <1>2, <1>3

LEMMA DropFlows ==
  ASSUME KnownInv, NEW d \in Client, Drop(d), NEW c \in Client, NEW s \in Seat,
         c = d => inbox[d] = <<>> /\ feed[socket[d]].messages = <<>>
  PROVE  Flows(c, s)
<1>1. /\ socket[d] # None /\ socket' = [socket EXCEPT ![d] = None] /\ feed' = feed
      /\ inbox' = [inbox EXCEPT ![d] = <<>>] /\ view' = view
  BY DEF Drop
<1>2. CASE c # d
  <2>1. Wire(c)' = Wire(c) /\ inbox'[c] = inbox[c]
    BY <1>1, <1>2 DEF Wire, KnownInv, WireKnown
  <2> QED
    BY <1>1, <2>1 DEF Flows, FlowsOn, Coming, Hushed
<1>3. CASE c = d
  <2>1. Wire(c) = <<>> /\ inbox'[c] = <<>> /\ inbox[c] = <<>>
    BY <1>1, <1>3 DEF Wire, KnownInv, WireKnown
  <2>2. Hushed(c, s) /\ \A r : EndsWith(inbox'[c], s, r)
    BY <2>1, SilentEnd DEF Hushed
  <2> QED
    BY <1>1, <2>2 DEF Flows, FlowsOn, Coming
<1> QED
  BY <1>2, <1>3

LEMMA BreakFlows ==
  ASSUME KnownInv, NEW v \in Worker, FeedBreaks(v), NEW c \in Client, NEW s \in Seat,
         ~(socket[c] = v /\ feed[v].messages # <<>>)
  PROVE  Flows(c, s)
<1>1. /\ UNCHANGED <<socket, inbox, view>> /\ feed'[v].messages = <<>>
      /\ \A w \in Worker \ {v} : feed'[w] = feed[w]
  BY DEF FeedBreaks, KnownInv, WireKnown
<1>2. Wire(c)' = Wire(c)
  <2>1. socket[c] \in Worker \cup {None}
    BY DEF KnownInv, WireKnown
  <2> QED
    BY <1>1, <2>1 DEF Wire
<1>3. \A r : EndsWith(<<>>, s, r)
  BY SilentEnd
<1> QED
  BY <1>1, <1>2, <1>3 DEF Flows, FlowsOn, Coming, Hushed

LEMMA ResubscribeFlows ==
  ASSUME KnownInv, NEW v \in Worker, Resubscribe(v), NEW c \in Client, NEW s \in Seat
  PROVE  Flows(c, s)
<1>1. /\ UNCHANGED <<socket, inbox, view>>
      /\ \A w \in Worker : feed'[w].messages = feed[w].messages
  <2>1. UNCHANGED <<socket, inbox, view>> /\ feed' = [feed EXCEPT ![v].up = TRUE]
    BY DEF Resubscribe, clientVars
  <2>2. feed \in [Worker -> [up: BOOLEAN, messages: Seq(Message)]]
    BY DEF KnownInv, WireKnown
  <2> QED
    BY <2>1, <2>2
<1>2. Wire(c)' = Wire(c)
  <2>1. socket[c] \in Worker \cup {None}
    BY DEF KnownInv, WireKnown
  <2> QED
    BY <1>1, <2>1 DEF Wire
<1> QED
  BY <1>1, <1>2 DEF Flows, FlowsOn, Coming, Hushed

\* One that speaks of s is the last that comes, and does come to those who listen.
LEMMA PublishComes ==
  ASSUME KnownInv, NEW m \in Message, Publish(m), NEW c \in Client \ Deaf, NEW s \in Seat, Says(m, s)
  PROVE  Coming(c, s, m.row)' /\ ~Hushed(c, s)'
<1>1. /\ UNCHANGED <<socket, inbox>>
      /\ \A w \in Worker :
           feed'[w].messages = IF feed[w].up THEN Append(feed[w].messages, m) ELSE <<>>
  BY PublishKnown DEF KnownInv
<1>2. ASSUME NEW w \in Worker
      PROVE  /\ EndsWith(feed'[w].messages, s, m.row)
             /\ feed[w].up => ~Silent(feed'[w].messages, s)
  <2>1. feed[w].messages \in Seq(Message)
    BY DEF KnownInv, WireKnown
  <2>2. CASE feed[w].up
    BY <1>1, <2>1, <2>2, SayMore
  <2>3. CASE ~feed[w].up
    BY <1>1, <2>3, SilentEnd
  <2> QED
    BY <2>2, <2>3
<1>3. socket[c] \in Worker /\ feed[socket[c]].up
  BY DEF Deaf, KnownInv, WireKnown
<1>4. Wire(c)' = feed'[socket[c]].messages
  BY <1>1, <1>3, BroadcastAssumption DEF Wire, BroadcastAssumption
<1>5. ~Silent(Wire(c)', s)
  BY <1>2, <1>3, <1>4
<1> QED
  BY <1>2, <1>5 DEF Coming, Hushed

\* A client misses something: nothing that was answered makes up for it.
Loses(c) ==
  missed'[c] = "yes" /\ \A i \in DOMAIN fetches'[c] : ~(fetches'[c][i].read /\ fetches'[c][i].whole)

LEMMA MissLoses ==
  ASSUME KnownInv, NEW lost, Miss(lost), NEW c \in Client, c \in lost
  PROVE  Loses(c)
BY MissKnown DEF KnownInv, Loses

\* All steps but a publish and the arrival of a fetch leave the stream to a
\* client as it was, or the client has missed something.
LEMMA Stream ==
  ASSUME KnownInv, [BroadcastNext]_vars, NEW c \in Client
  PROVE  \/ \E h \in Handler : PublishSeat(h)
         \/ \E i \in 1..MaxFetches : FetchArrives(c, i)
         \/ Loses(c)
         \/ missed'[c] = missed[c] /\ \A s \in Seat : Flows(c, s)
<1> DEFINE Same == missed'[c] = missed[c] /\ \A s \in Seat : Flows(c, s)
<1>1. ASSUME UNCHANGED wireVars, view'[c] = view[c], missed'[c] = missed[c] PROVE Same
  BY <1>1, StandStill
<1>2. ASSUME wireVars' = wireVars, view' = view, missed' = missed PROVE Same
  BY <1>1, <1>2
<1> HIDE DEF Same
<1>3. ASSUME NEW h \in Handler, HandlerStep(h), ~PublishSeat(h) PROVE Loses(c) \/ Same
  <2>1. CASE ReadRow(h) \/ Answer(h)
    <3>1. wireVars' = wireVars /\ view' = view /\ missed' = missed
      BY <2>1 DEF ReadRow, Answer, clientVars, historyVars
    <3> QED
      BY <1>2, <3>1
  <2>2. CASE PublishPricing(h)
    <3> PICK m : m = [type |-> "pricing_update", seat |-> handler[h].seat, row |-> FreshRow]
      OBVIOUS
    <3>1. m \in Message /\ Publish(m) /\ UNCHANGED <<view, missed>> /\ m.type = "pricing_update"
      BY <2>2, MessageKnown DEF PublishPricing, clientVars, historyVars
    <3>2. \A s \in Seat : ~Says(m, s)
      BY <3>1 DEF Says
    <3> QED
      BY <3>1, <3>2, PublishFlows DEF Same
  <2>3. CASE PublishFails(h)
    BY <2>3, MissLoses DEF PublishFails
  <2>4. CASE HandlerDies(h)
    BY <2>4, DiesKnown DEF Loses
  <2> QED
    BY <1>3, <2>1, <2>2, <2>3, <2>4 DEF HandlerStep
<1>4. ASSUME NEW h \in Handler, NEW s \in Seat, CommitStep(h, s) PROVE Same
  <2>1. wireVars' = wireVars /\ view' = view /\ missed' = missed
    BY <1>4, CommitKnown DEF Committed, clientVars, historyVars
  <2> QED
    BY <1>2, <2>1
<1>5. ASSUME NEW h \in Handler, PrepareStep(h) PROVE Same
  <2>1. wireVars' = wireVars /\ view' = view /\ missed' = missed
    BY <1>5, PrepareKnown DEF Prepared, clientVars
  <2> QED
    BY <1>2, <2>1
<1>6. ASSUME NEW w \in Worker, WorkerStep(w) PROVE Loses(c) \/ Same
  <2>1. CASE Forward(w)
    BY <2>1, ForwardFlows DEF Forward, historyVars, Same
  <2>2. CASE Resubscribe(w)
    BY <2>2, ResubscribeFlows DEF Resubscribe, historyVars, Same
  <2>3. CASE FeedBreaks(w)
    <3> PICK lost : lost = {d \in Client : socket[d] = w /\ feed[w].messages # <<>>}
      OBVIOUS
    <3>1. Miss(lost)
      BY <2>3 DEF FeedBreaks
    <3>2. CASE c \in lost
      BY <3>1, <3>2, MissLoses
    <3>3. CASE c \notin lost
      <4>1. missed'[c] = missed[c]
        BY <3>1, <3>3, MissKnown DEF KnownInv
      <4> QED
        BY <2>3, <3>3, <4>1, BreakFlows DEF Same
    <3> QED
      BY <3>2, <3>3
  <2> QED
    BY <1>6, <2>1, <2>2, <2>3 DEF WorkerStep
<1>7. ASSUME NEW d \in Client, SocketStep(d) \/ PageStep(d) PROVE Loses(c) \/ Same
  <2>1. CASE Hear(d)
    BY <2>1, HearFlows DEF Hear, historyVars, Same
  <2>2. CASE \E w \in Worker : Open(d, w)
    BY <2>2, OpenFlows DEF Open, historyVars, Same
  <2>3. CASE Drop(d)
    <3> PICK lost : lost = IF inbox[d] # <<>> \/ feed[socket[d]].messages # <<>> THEN {d} ELSE {}
      OBVIOUS
    <3>1. Miss(lost)
      BY <2>3 DEF Drop
    <3>2. CASE c \in lost
      BY <3>1, <3>2, MissLoses
    <3>3. CASE c \notin lost
      <4>1. missed'[c] = missed[c]
        BY <3>1, <3>3, MissKnown DEF KnownInv
      <4>2. c = d => inbox[d] = <<>> /\ feed[socket[d]].messages = <<>>
        BY <3>3
      <4> QED
        BY <2>3, <4>1, <4>2, DropFlows DEF Same
    <3> QED
      BY <3>2, <3>3
  <2>4. CASE PageStep(d)
    <3>1. wireVars' = wireVars /\ view' = view /\ missed' = missed
      BY <2>4 DEF PageStep, CountdownEnds, Refused, historyVars
    <3> QED
      BY <1>2, <3>1
  <2> QED
    BY <1>7, <2>1, <2>2, <2>3, <2>4 DEF SocketStep
<1>8. ASSUME NEW d \in Client, NEW i \in 1..MaxFetches, FetchStep(d, i)
      PROVE  FetchArrives(c, i) \/ Same
  <2>1. CASE ServerReads(d, i) \/ FetchFails(d, i)
    <3>1. wireVars' = wireVars /\ view' = view /\ missed' = missed
      BY <2>1 DEF ServerReads, FetchFails, historyVars
    <3> QED
      BY <1>2, <3>1
  <2>2. CASE FetchArrives(d, i) /\ d # c
    <3>1. view'[c] = view[c] /\ missed'[c] = missed[c]
      BY <2>2, ArrivalKnown
    <3>2. UNCHANGED wireVars
      BY <2>2 DEF FetchArrives
    <3> QED
      BY <1>1, <3>1, <3>2
  <2> QED
    BY <1>8, <2>1, <2>2 DEF FetchStep
<1>9. CASE UNCHANGED vars
  <2>1. wireVars' = wireVars /\ view' = view /\ missed' = missed
    BY <1>9 DEF vars, clientVars, historyVars
  <2> QED
    BY <1>2, <2>1 DEF Same
<1> QED
  BY <1>3, <1>4, <1>5, <1>6, <1>7, <1>8, <1>9, Steps DEF Same

----------------------------------------------------------------------------
(* ToldTheLast                                                             *)

\* r is the last message about s to a client that has missed nothing.
LastTold(c, s, r) ==
  missed[c] = "never" =>
    /\ Coming(c, s, r)
    /\ Hushed(c, s) /\ view[c][s].told => view[c][s].row = r

\* It is what was published last, for everybody.
ToldInv == \A c \in Client : \A s \in Seat : LastTold(c, s, published[s])

LEMMA NothingComes ==
  ASSUME BroadcastInit, NEW c \in Client, NEW s \in Seat, NEW r
  PROVE  Coming(c, s, r)
BY SilentEnd DEF BroadcastInit, Coming, Wire

LEMMA ToldInit == BroadcastInit => ToldInv
<1> SUFFICES ASSUME BroadcastInit PROVE ToldInv
  OBVIOUS
<1>1. \A c \in Client : \A s \in Seat : ~view[c][s].told
  BY DEF BroadcastInit
<1> QED
  BY <1>1, NothingComes DEF ToldInv, LastTold

LEMMA ToldByOne ==
  ASSUME KnownInv, NEW h \in Handler, PublishSeat(h), NEW c \in Client, NEW s \in Seat, NEW r,
         LastTold(c, s, r), NEW z, NEW n, z = handler[h].seat, n = handler[h].seen
  PROVE  IF s = z THEN LastTold(c, s, n)' ELSE LastTold(c, s, r)'
<1> PICK m : m = [type |-> "seat_update", seat |-> z, row |-> n]
  OBVIOUS
<1>1. /\ m \in Message /\ Publish(m) /\ view' = view /\ Miss(Deaf)
      /\ m.type = "seat_update" /\ m.seat = z /\ m.row = n
  BY MessageKnown DEF PublishSeat
<1>2. missed'[c] = "never" => c \notin Deaf /\ missed[c] = "never"
  BY <1>1, MissKnown DEF KnownInv
<1>3. ASSUME s = z PROVE LastTold(c, s, n)'
  <2>1. Says(m, s)
    BY <1>1, <1>3 DEF Says
  <2>2. c \notin Deaf => Coming(c, s, n)' /\ ~Hushed(c, s)'
    BY <1>1, <2>1, PublishComes
  <2> QED
    BY <1>2, <2>2 DEF LastTold
<1>4. ASSUME s # z PROVE LastTold(c, s, r)'
  <2>1. Flows(c, s)
    BY <1>1, <1>4, PublishFlows DEF Says
  <2>2. FlowsOn(c, s, r)
    BY <2>1 DEF Flows
  <2> QED
    BY <1>1, <1>2, <2>2 DEF FlowsOn, LastTold
<1> QED
  BY <1>3, <1>4

LEMMA ToldStill ==
  ASSUME KnownInv, [BroadcastNext]_vars, ~\E h \in Handler : PublishSeat(h),
         NEW c \in Client, NEW s \in Seat, NEW r, LastTold(c, s, r)
  PROVE  LastTold(c, s, r)'
<1>1. ASSUME NEW i \in 1..MaxFetches, FetchArrives(c, i) PROVE LastTold(c, s, r)'
  <2>1. view'[c][s] = [row |-> fetches[c][i].rows[s], told |-> FALSE]
    BY <1>1, ArrivalKnown
  <2>2. missed'[c] = "never" => missed[c] = "never"
    BY <1>1, ArrivalKnown
  <2>3. UNCHANGED wireVars
    BY <1>1 DEF FetchArrives
  <2>4. Coming(c, s, r)' <=> Coming(c, s, r)
    BY <2>3 DEF Coming, Wire, wireVars
  <2>5. ~view'[c][s].told
    BY <2>1
  <2> QED
    BY <2>2, <2>4, <2>5 DEF LastTold
<1>2. CASE missed'[c] = missed[c] /\ Flows(c, s)
  <2>1. FlowsOn(c, s, r)
    BY <1>2 DEF Flows
  <2> QED
    BY <1>2, <2>1 DEF FlowsOn, LastTold
<1>3. CASE Loses(c)
  BY <1>3 DEF Loses, LastTold
<1> QED
  BY <1>1, <1>2, <1>3, Stream

LEMMA PublishedStays ==
  ASSUME KnownInv, [BroadcastNext]_vars, ~\E h \in Handler : PublishSeat(h)
  PROVE  published' = published
<1>1. ASSUME NEW h \in Handler, HandlerStep(h) PROVE published' = published
  BY <1>1 DEF HandlerStep, ReadRow, PublishPricing, PublishFails, Answer, HandlerDies, historyVars
<1>2. ASSUME NEW h \in Handler, NEW s \in Seat, CommitStep(h, s) PROVE published' = published
  BY <1>2, CommitKnown DEF Committed, historyVars
<1>3. ASSUME NEW h \in Handler, PrepareStep(h) PROVE published' = published
  BY <1>3, PrepareKnown DEF Prepared
<1>4. ASSUME NEW w \in Worker, WorkerStep(w) PROVE published' = published
  BY <1>4 DEF WorkerStep, Forward, FeedBreaks, Resubscribe, historyVars
<1>5. ASSUME NEW c \in Client, SocketStep(c) \/ PageStep(c) PROVE published' = published
  BY <1>5 DEF SocketStep, Hear, Drop, Open, PageStep, CountdownEnds, Refused, historyVars
<1>6. ASSUME NEW c \in Client, NEW i \in 1..MaxFetches, FetchStep(c, i) PROVE published' = published
  BY <1>6 DEF FetchStep, ServerReads, FetchArrives, FetchFails, historyVars
<1> QED
  BY <1>1, <1>2, <1>3, <1>4, <1>5, <1>6, Steps DEF vars, historyVars

LEMMA ToldStep ==
  ASSUME KnownInv, ToldInv, [BroadcastNext]_vars PROVE ToldInv'
<1>1. ASSUME NEW h \in Handler, PublishSeat(h) PROVE ToldInv'
  <2> PICK z, n : z = handler[h].seat /\ n = handler[h].seen
    OBVIOUS
  <2>1. z \in Seat /\ published' = [published EXCEPT ![z] = n]
    BY <1>1 DEF PublishSeat, At, KnownInv, ServerKnown, HandlerKnown, Work
  <2>2. published'[z] = n /\ \A s \in Seat : s # z => published'[s] = published[s]
    BY <2>1 DEF KnownInv, HistoryKnown
  <2>3. ASSUME NEW c \in Client, NEW s \in Seat PROVE LastTold(c, s, published[s])'
    <3>1. PICK r, l : r = published'[s] /\ l = published[s] /\ LastTold(c, s, l)
      BY DEF ToldInv
    <3>2. IF s = z THEN LastTold(c, s, n)' ELSE LastTold(c, s, l)'
      BY <1>1, <3>1, ToldByOne
    <3>3. r = IF s = z THEN n ELSE l
      BY <2>2, <3>1
    <3>4. LastTold(c, s, r)'
      BY <3>2, <3>3
    <3> QED
      BY <3>1, <3>4 DEF LastTold
  <2> QED
    BY <2>3 DEF ToldInv
<1>2. CASE ~\E h \in Handler : PublishSeat(h)
  <2>1. published' = published
    BY <1>2, PublishedStays
  <2>2. ASSUME NEW c \in Client, NEW s \in Seat PROVE LastTold(c, s, published[s])'
    <3>1. PICK l : l = published[s] /\ LastTold(c, s, l)
      BY DEF ToldInv
    <3>2. LastTold(c, s, l)'
      BY <1>2, <3>1, ToldStill
    <3> QED
      BY <2>1, <3>1, <3>2 DEF LastTold
  <2> QED
    BY <2>2 DEF ToldInv
<1> QED
  BY <1>1, <1>2

\* What messages told a browser last of a seat is what was published last, if
\* it missed none, whatever worker it is connected to and in whatever order
\* the handlers published (the channel of websocket.py).
THEOREM OneOrder == BroadcastSpec => []ToldTheLast
<1>1. ToldInv => ToldTheLast
  <2> SUFFICES ASSUME ToldInv PROVE ToldTheLast
    OBVIOUS
  <2>1. \A c \in Client : \A s \in Seat : Quiet(c) => Hushed(c, s)
    BY SilentEnd DEF Quiet, Hushed, Wire
  <2> QED
    BY <2>1 DEF ToldInv, LastTold, ToldTheLast
<1>2. KnownInv /\ ToldInv /\ [BroadcastNext]_vars => ToldInv'
  BY ToldStep
<1> QED
  BY KnownAlways, ToldInit, <1>1, <1>2, PTL DEF BroadcastSpec

\* Two browsers that messages told of a seat, and that missed none, show the
\* same row of it.
BrowsersAgree ==
  \A c, d \in Client : Quiet(c) /\ Quiet(d) /\ missed[c] = "never" /\ missed[d] = "never" =>
    \A s \in Seat : view[c][s].told /\ view[d][s].told => view[c][s].row = view[d][s].row

\* Browsers agree, also on different workers (websocket.py).
THEOREM BrowsersAlwaysAgree == BroadcastSpec => []BrowsersAgree
<1>1. ToldTheLast => BrowsersAgree
  BY DEF ToldTheLast, BrowsersAgree
<1> QED
  BY OneOrder, <1>1, PTL

----------------------------------------------------------------------------
(* What is known of the rows                                               *)

LEMMA SaidLast ==
  ASSUME NEW q \in Seq(Message), NEW s, NEW r, EndsWith(q, s, r), ~Silent(q, s)
  PROVE  \E i \in DOMAIN q : q[i].type = "seat_update" /\ q[i].seat = s /\ q[i].row = r
<1> DEFINE T == {i \in DOMAIN q : Says(q[i], s)}
<1>1. DOMAIN q = 1..Len(q) /\ Len(q) \in Nat
  OBVIOUS
<1>2. T \subseteq 1..Len(q) /\ T # {}
  BY <1>1 DEF Silent
<1>3. PICK i \in T : \A j \in T : j <= i
  <2> HIDE DEF T
  <2> QED
    BY <1>1, <1>2, LastOne
<1>4. \A j \in DOMAIN q : j > i => ~Says(q[j], s)
  BY <1>1, <1>3
<1> QED
  BY <1>3, <1>4 DEF EndsWith, Says

\* m is in q.
In(q, m) == \E i \in DOMAIN q : q[i] = m

LEMMA InQueue ==
  ASSUME NEW q \in Seq(Message)
  PROVE  /\ \A m : ~In(<<>>, m)
         /\ \A x \in Message : \A m : In(Append(q, x), m) => In(q, m) \/ m = x
         /\ q # <<>> => In(q, Head(q)) /\ \A m : In(Tail(q), m) => In(q, m)
<1>1. \A m : ~In(<<>>, m)
  BY DEF In
<1>2. ASSUME NEW x \in Message, NEW m, In(Append(q, x), m) PROVE In(q, m) \/ m = x
  BY <1>2, Appended DEF In
<1>3. ASSUME q # <<>> PROVE In(q, Head(q)) /\ \A m : In(Tail(q), m) => In(q, m)
  BY <1>3, Rest DEF In
<1> QED
  BY <1>1, <1>2, <1>3

\* m is somewhere on its way.
OnTheWire(m) ==
  \/ \E w \in Worker : In(feed[w].messages, m)
  \/ \E c \in Client : In(inbox[c], m)

\* Messages come from handlers only.
LEMMA Carried ==
  ASSUME KnownInv, [BroadcastNext]_vars, NEW m, OnTheWire(m)'
  PROVE  \/ OnTheWire(m) \/ m.type # "seat_update"
         \/ \E h \in Handler : /\ PublishSeat(h) /\ m.type = "seat_update"
                               /\ m.seat = handler[h].seat /\ m.row = handler[h].seen
<1>1. /\ \A w \in Worker : feed[w].messages \in Seq(Message)
      /\ \A c \in Client : inbox[c] \in Seq(Message) /\ socket[c] \in Worker \cup {None}
  BY DEF KnownInv, WireKnown
<1>2. ASSUME \A w \in Worker : In(feed'[w].messages, m) => In(feed[w].messages, m),
             \A c \in Client : In(inbox'[c], m) => OnTheWire(m)
      PROVE  OnTheWire(m)
  BY <1>2 DEF OnTheWire
<1>3. UNCHANGED wireVars => OnTheWire(m)
  BY DEF wireVars, OnTheWire
<1>4. ASSUME NEW x \in Message, Publish(x) PROVE OnTheWire(m) \/ m = x
  <2>1. /\ inbox' = inbox
        /\ \A w \in Worker :
             feed'[w].messages = IF feed[w].up THEN Append(feed[w].messages, x) ELSE <<>>
    BY <1>4, PublishKnown DEF KnownInv
  <2>2. ASSUME NEW w \in Worker, In(feed'[w].messages, m)
        PROVE  In(feed[w].messages, m) \/ m = x
    <3>1. \/ feed'[w].messages = Append(feed[w].messages, x) \/ feed'[w].messages = <<>>
      BY <2>1
    <3>2. PICK q : q = feed[w].messages /\ q \in Seq(Message)
      BY <1>1
    <3>3. ~In(<<>>, m) /\ (In(Append(q, x), m) => In(q, m) \/ m = x)
      BY <3>2, InQueue
    <3> QED
      BY <2>2, <3>1, <3>2, <3>3
  <2> QED
    BY <2>1, <2>2 DEF OnTheWire
<1>5. ASSUME NEW h \in Handler, HandlerStep(h)
      PROVE  \/ OnTheWire(m) \/ m.type # "seat_update"
             \/ PublishSeat(h) /\ m.type = "seat_update"
                /\ m.seat = handler[h].seat /\ m.row = handler[h].seen
  <2>1. CASE PublishSeat(h)
    <3> PICK x : x = [type |-> "seat_update", seat |-> handler[h].seat, row |-> handler[h].seen]
      OBVIOUS
    <3>1. x \in Message /\ Publish(x)
      BY <2>1, MessageKnown DEF PublishSeat
    <3> QED
      BY <1>4, <2>1, <3>1
  <2>2. CASE PublishPricing(h)
    <3> PICK x : x = [type |-> "pricing_update", seat |-> handler[h].seat, row |-> FreshRow]
      OBVIOUS
    <3>1. x \in Message /\ Publish(x) /\ x.type = "pricing_update"
      BY <2>2, MessageKnown DEF PublishPricing
    <3> QED
      BY <1>4, <3>1
  <2>3. CASE ReadRow(h) \/ PublishFails(h) \/ Answer(h) \/ HandlerDies(h)
    BY <1>3, <2>3 DEF ReadRow, PublishFails, Answer, HandlerDies
  <2> QED
    BY <1>5, <2>1, <2>2, <2>3 DEF HandlerStep
<1>6. ASSUME NEW h \in Handler, NEW s \in Seat, CommitStep(h, s) PROVE OnTheWire(m)
  BY <1>3, <1>6, CommitKnown DEF Committed
<1>7. ASSUME NEW h \in Handler, PrepareStep(h) PROVE OnTheWire(m)
  BY <1>3, <1>7, PrepareKnown DEF Prepared
<1>8. ASSUME NEW w \in Worker, WorkerStep(w) PROVE OnTheWire(m)
  <2>1. CASE Forward(w)
    <3> PICK q : q = feed[w].messages
      OBVIOUS
    <3>1. /\ q # <<>> /\ q \in Seq(Message) /\ feed'[w].messages = Tail(q)
          /\ \A v \in Worker \ {w} : feed'[v] = feed[v]
          /\ \A c \in Client : inbox'[c] = IF socket[c] = w THEN Append(inbox[c], Head(q)) ELSE inbox[c]
      BY <2>1, ForwardKnown DEF KnownInv
    <3>2. In(q, Head(q)) /\ Head(q) \in Message /\ (In(Tail(q), m) => In(q, m))
      BY <3>1, InQueue, Rest
    <3>3. \A v \in Worker : In(feed'[v].messages, m) => In(feed[v].messages, m)
      BY <3>1, <3>2
    <3>4. ASSUME NEW c \in Client, In(inbox'[c], m) PROVE In(inbox[c], m) \/ In(q, m)
      <4>1. inbox'[c] = Append(inbox[c], Head(q)) \/ inbox'[c] = inbox[c]
        BY <3>1
      <4>2. PICK b, x : b = inbox[c] /\ x = Head(q) /\ b \in Seq(Message) /\ x \in Message
        BY <1>1, <3>2
      <4>3. In(Append(b, x), m) => In(b, m) \/ m = x
        BY <4>2, InQueue
      <4> QED
        BY <3>2, <3>4, <4>1, <4>2, <4>3
    <3> QED
      BY <3>3, <3>4 DEF OnTheWire
  <2>2. CASE FeedBreaks(w)
    <3>1. /\ inbox' = inbox /\ feed'[w].messages = <<>>
          /\ \A v \in Worker \ {w} : feed'[v] = feed[v]
      BY <2>2 DEF FeedBreaks, KnownInv, WireKnown
    <3>2. ~In(<<>>, m)
      BY DEF In
    <3> QED
      BY <3>1, <3>2 DEF OnTheWire
  <2>3. CASE Resubscribe(w)
    <3>1. inbox' = inbox /\ \A v \in Worker : feed'[v].messages = feed[v].messages
      <4>1. inbox' = inbox /\ feed' = [feed EXCEPT ![w].up = TRUE]
        BY <2>3 DEF Resubscribe
      <4>2. feed \in [Worker -> [up: BOOLEAN, messages: Seq(Message)]]
        BY DEF KnownInv, WireKnown
      <4> QED
        BY <4>1, <4>2
    <3> QED
      BY <3>1 DEF OnTheWire
  <2> QED
    BY <1>8, <2>1, <2>2, <2>3 DEF WorkerStep
<1>9. ASSUME NEW d \in Client, SocketStep(d) \/ PageStep(d) PROVE OnTheWire(m)
  <2>1. CASE Hear(d)
    <3>1. /\ inbox[d] \in Seq(Message) /\ inbox[d] # <<>> /\ inbox'[d] = Tail(inbox[d])
          /\ inbox' = [inbox EXCEPT ![d] = Tail(inbox[d])]
      BY <2>1, HearKnown
    <3>2. In(Tail(inbox[d]), m) => In(inbox[d], m)
      BY <3>1, InQueue
    <3>3. feed' = feed /\ \A c \in Client \ {d} : inbox'[c] = inbox[c]
      BY <2>1, <3>1 DEF Hear, KnownInv, WireKnown
    <3> QED
      BY <3>1, <3>2, <3>3 DEF OnTheWire
  <2>2. CASE Drop(d)
    <3>1. feed' = feed /\ inbox'[d] = <<>> /\ \A c \in Client \ {d} : inbox'[c] = inbox[c]
      BY <2>2 DEF Drop, KnownInv, WireKnown
    <3>2. ~In(<<>>, m)
      BY DEF In
    <3> QED
      BY <3>1, <3>2 DEF OnTheWire
  <2>3. CASE \E w \in Worker : Open(d, w)
    BY <2>3 DEF Open, OnTheWire
  <2>4. CASE PageStep(d)
    BY <1>3, <2>4 DEF PageStep, CountdownEnds, Refused
  <2> QED
    BY <1>9, <2>1, <2>2, <2>3, <2>4 DEF SocketStep
<1>10. ASSUME NEW c \in Client, NEW i \in 1..MaxFetches, FetchStep(c, i) PROVE OnTheWire(m)
  BY <1>3, <1>10 DEF FetchStep, ServerReads, FetchArrives, FetchFails
<1>11. UNCHANGED vars => OnTheWire(m)
  BY <1>3 DEF vars
<1> QED
  BY <1>5, <1>6, <1>7, <1>8, <1>9, <1>10, <1>11, Steps

\* What a client has fetched it had fetched before, or the server reads it now.
LEMMA Fetched ==
  ASSUME KnownInv, [BroadcastNext]_vars, NEW c \in Client,
         NEW k \in DOMAIN fetches'[c], fetches'[c][k].read
  PROVE  \/ fetches'[c][k].rows = row /\ row' = row
         \/ \E j \in DOMAIN fetches[c] :
              /\ fetches[c][j].read /\ fetches[c][j].rows = fetches'[c][k].rows
              /\ fetches'[c][k].whole => fetches[c][j].whole
<1> DEFINE Goal == \/ fetches'[c][k].rows = row /\ row' = row
                   \/ \E j \in DOMAIN fetches[c] :
                        /\ fetches[c][j].read /\ fetches[c][j].rows = fetches'[c][k].rows
                        /\ fetches'[c][k].whole => fetches[c][j].whole
<1>1. fetches' = fetches => Goal
  OBVIOUS
<1>2. ASSUME NEW lost, Miss(lost) PROVE Goal
  <2>1. /\ DOMAIN fetches'[c] = DOMAIN fetches[c]
        /\ fetches'[c][k].read = fetches[c][k].read
        /\ fetches'[c][k].rows = fetches[c][k].rows
        /\ c \in lost => ~(fetches'[c][k].read /\ fetches'[c][k].whole)
        /\ c \notin lost => fetches'[c] = fetches[c]
    BY <1>2, MissKnown DEF KnownInv
  <2> QED
    BY <2>1
<1>3. ASSUME NEW d \in Client, Ask(d) PROVE Goal
  <2>1. k \in DOMAIN fetches[c] /\ fetches'[c][k] = fetches[c][k]
    BY <1>3, AskKnown DEF KnownInv
  <2> QED
    BY <2>1
<1> HIDE DEF Goal
<1>4. ASSUME NEW h \in Handler, HandlerStep(h) PROVE Goal
  <2>1. CASE ReadRow(h) \/ PublishPricing(h)
    BY <1>1, <2>1 DEF ReadRow, PublishPricing, clientVars
  <2>2. CASE PublishSeat(h) \/ PublishFails(h)
    BY <1>2, <2>2 DEF PublishSeat, PublishFails
  <2>3. CASE HandlerDies(h)
    <3>1. /\ k \in DOMAIN fetches[c] /\ fetches[c][k].read
          /\ fetches'[c][k].rows = fetches[c][k].rows /\ ~fetches'[c][k].whole
      BY <2>3, DiesKnown
    <3> QED
      BY <3>1 DEF Goal
  <2>4. CASE Answer(h)
    <3>1. handler[h].by \in Client
      BY <2>4 DEF Answer, At, KnownInv, ServerKnown, HandlerKnown
    <3> QED
      BY <1>3, <2>4, <3>1 DEF Answer
  <2> QED
    BY <1>4, <2>1, <2>2, <2>3, <2>4 DEF HandlerStep
<1>5. ASSUME NEW h \in Handler, NEW s \in Seat, CommitStep(h, s) PROVE Goal
  <2>1. fetches' = fetches
    BY <1>5, CommitKnown DEF Committed, clientVars
  <2> QED
    BY <1>1, <2>1
<1>6. ASSUME NEW h \in Handler, PrepareStep(h) PROVE Goal
  <2>1. fetches' = fetches
    BY <1>6, PrepareKnown DEF Prepared, clientVars
  <2> QED
    BY <1>1, <2>1
<1>7. ASSUME NEW w \in Worker, WorkerStep(w) PROVE Goal
  BY <1>1, <1>2, <1>7 DEF WorkerStep, Forward, FeedBreaks, Resubscribe, clientVars
<1>8. ASSUME NEW d \in Client, SocketStep(d) \/ PageStep(d) PROVE Goal
  <2>1. CASE Hear(d)
    BY <1>1, <1>3, <2>1, HearKnown
  <2>2. CASE Drop(d) \/ (\E w \in Worker : Open(d, w)) \/ PageStep(d)
    BY <1>1, <1>2, <1>3, <2>2 DEF Drop, Open, PageStep, CountdownEnds, Refused, clientVars
  <2> QED
    BY <1>8, <2>1, <2>2 DEF SocketStep
<1>9. ASSUME NEW d \in Client, NEW i \in 1..MaxFetches, FetchStep(d, i) PROVE Goal
  <2>1. CASE ServerReads(d, i)
    <3>1. row' = row
      BY <2>1 DEF ServerReads, serverVars, seatVars
    <3>2. d # c => fetches'[c] = fetches[c]
      BY <2>1, ReadKnown
    <3>3. d = c => /\ DOMAIN fetches'[c] = DOMAIN fetches[c]
                   /\ fetches'[c][k] = fetches[c][k] \/ fetches'[c][k].rows = row
      BY <2>1, ReadKnown
    <3> QED
      BY <3>1, <3>2, <3>3 DEF Goal
  <2>2. CASE FetchArrives(d, i)
    <3>1. d # c => fetches'[c] = fetches[c]
      BY <2>2, ArrivalKnown
    <3>2. d = c => \E j \in DOMAIN fetches[c] :
                     /\ fetches'[c][k].read = fetches[c][j].read
                     /\ fetches'[c][k].rows = fetches[c][j].rows
                     /\ fetches'[c][k].read /\ fetches'[c][k].whole => fetches[c][j].whole
      <4> SUFFICES ASSUME d = c
                   PROVE  \E j \in DOMAIN fetches[c] :
                            /\ fetches'[c][k].read = fetches[c][j].read
                            /\ fetches'[c][k].rows = fetches[c][j].rows
                            /\ fetches'[c][k].read /\ fetches'[c][k].whole => fetches[c][j].whole
        OBVIOUS
      <4>1. FetchArrives(c, i)
        BY <2>2
      <4>2. \A n \in DOMAIN fetches'[c] : \E j \in DOMAIN fetches[c] :
              /\ fetches'[c][n].read = fetches[c][j].read
              /\ fetches'[c][n].rows = fetches[c][j].rows
              /\ fetches'[c][n].read /\ fetches'[c][n].whole =>
                   fetches[c][j].whole /\ ~Late(c, fetches[c][i].rows)
        BY <4>1, ArrivalKnown
      <4> QED
        BY <4>2
    <3> QED
      BY <3>1, <3>2 DEF Goal
  <2>3. CASE FetchFails(d, i)
    <3>1. d # c => fetches'[c] = fetches[c]
      BY <2>3, FailKnown
    <3>2. d = c => \E j \in DOMAIN fetches[c] : fetches'[c][k] = fetches[c][j]
      BY <2>3, FailKnown
    <3> QED
      BY <3>1, <3>2 DEF Goal
  <2> QED
    BY <1>9, <2>1, <2>2, <2>3 DEF FetchStep
<1>10. UNCHANGED vars => Goal
  BY <1>1 DEF vars, clientVars
<1> QED
  BY <1>4, <1>5, <1>6, <1>7, <1>8, <1>9, <1>10, Steps DEF Goal

\* What a client shows it showed before, or it has heard or fetched it.
LEMMA Seen ==
  ASSUME KnownInv, [BroadcastNext]_vars, NEW c \in Client, NEW s \in Seat
  PROVE  \/ view'[c][s] = view[c][s]
         \/ \E i \in DOMAIN inbox[c] : /\ inbox[c][i].type = "seat_update" /\ inbox[c][i].seat = s
                                       /\ view'[c][s].row = inbox[c][i].row
         \/ \E i \in DOMAIN fetches[c] : /\ fetches[c][i].read /\ ~view'[c][s].told
                                         /\ view'[c][s].row = fetches[c][i].rows[s]
<1>1. ASSUME NEW h \in Handler, HandlerStep(h) PROVE view' = view
  BY <1>1 DEF HandlerStep, ReadRow, PublishSeat, PublishPricing, PublishFails, Answer, HandlerDies,
              clientVars
<1>2. ASSUME NEW h \in Handler, NEW z \in Seat, CommitStep(h, z) PROVE view' = view
  BY <1>2, CommitKnown DEF Committed, clientVars
<1>3. ASSUME NEW h \in Handler, PrepareStep(h) PROVE view' = view
  BY <1>3, PrepareKnown DEF Prepared, clientVars
<1>4. ASSUME NEW w \in Worker, WorkerStep(w) PROVE view' = view
  BY <1>4 DEF WorkerStep, Forward, FeedBreaks, Resubscribe, clientVars
<1>5. ASSUME NEW d \in Client, Hear(d)
      PROVE  \/ view'[c][s] = view[c][s]
             \/ \E i \in DOMAIN inbox[c] : /\ inbox[c][i].type = "seat_update" /\ inbox[c][i].seat = s
                                           /\ view'[c][s].row = inbox[c][i].row
  <2> PICK m : m = Head(inbox[d])
    OBVIOUS
  <2>1. /\ inbox[d] \in Seq(Message) /\ inbox[d] # <<>>
        /\ m.type = "seat_update" =>
             /\ view'[d][m.seat] = [row |-> m.row, told |-> TRUE]
             /\ \A z \in Seat \ {m.seat} : view'[d][z] = view[d][z]
             /\ \A e \in Client \ {d} : view'[e] = view[e]
        /\ m.type # "seat_update" => view' = view
    BY <1>5, HearKnown
  <2>2. 1 \in DOMAIN inbox[d] /\ inbox[d][1] = m
    BY <2>1, Rest
  <2> QED
    BY <2>1, <2>2
<1>6. ASSUME NEW d \in Client, (Drop(d) \/ \E w \in Worker : Open(d, w)) \/ PageStep(d)
      PROVE  view' = view
  BY <1>6 DEF Drop, Open, PageStep, CountdownEnds, Refused, clientVars
<1>7. ASSUME NEW d \in Client, NEW i \in 1..MaxFetches, FetchStep(d, i)
      PROVE  \/ view'[c][s] = view[c][s]
             \/ \E j \in DOMAIN fetches[c] : /\ fetches[c][j].read /\ ~view'[c][s].told
                                             /\ view'[c][s].row = fetches[c][j].rows[s]
  <2>1. CASE FetchArrives(d, i)
    <3>1. d # c => view'[c] = view[c]
      BY <2>1, ArrivalKnown
    <3>2. d = c => /\ i \in DOMAIN fetches[c] /\ fetches[c][i].read
                   /\ view'[c][s] = [row |-> fetches[c][i].rows[s], told |-> FALSE]
      BY <2>1, ArrivalKnown
    <3> QED
      BY <3>1, <3>2
  <2> QED
    BY <1>7, <2>1 DEF FetchStep, ServerReads, FetchFails
<1> QED
  BY <1>1, <1>2, <1>3, <1>4, <1>5, <1>6, <1>7, Steps DEF SocketStep, vars, clientVars

\* r is the row of s or an older one.
Was(s, r) == r.n < row[s].n \/ r = row[s]

\* The row stays, or it becomes a newer one while a handler is to read it.
LEMMA RowMoves ==
  ASSUME KnownInv, [BroadcastNext]_vars, NEW s \in Seat
  PROVE  \/ row'[s] = row[s]
         \/ /\ row'[s].n = row[s].n + 1
            /\ \E h \in Handler : handler'[h].seat = s /\ handler'[h].pc = "read"
<1>1. row \in [Seat -> Row] /\ handler \in [Handler -> Work]
  BY DEF KnownInv, ServerKnown
<1>2. ASSUME NEW h \in Handler, HandlerStep(h) PROVE row' = row
  BY <1>2, HandlerMoves DEF Moved
<1>3. ASSUME NEW h \in Handler, NEW z \in Seat, CommitStep(h, z)
      PROVE  \/ row'[s] = row[s]
             \/ row'[s].n = row[s].n + 1 /\ handler'[h].seat = s /\ handler'[h].pc = "read"
  <2> PICK job, r : Committed(h, z, job, r)
    BY <1>3, CommitKnown
  <2>1. /\ row' = [row EXCEPT ![z] = r] /\ r.n = row[z].n + 1
        /\ handler' = [handler EXCEPT ![h] = job] /\ job.seat = z /\ job.pc = "read"
    BY DEF Committed
  <2> QED
    BY <1>1, <2>1
<1>4. ASSUME NEW h \in Handler, PrepareStep(h) PROVE row' = row
  BY <1>4, PrepareKnown DEF Prepared, seatVars
<1>5. ASSUME NEW w \in Worker, WorkerStep(w) PROVE row' = row
  BY <1>5 DEF WorkerStep, Forward, FeedBreaks, Resubscribe, serverVars, seatVars
<1>6. ASSUME NEW d \in Client, SocketStep(d) \/ PageStep(d) PROVE row' = row
  BY <1>6 DEF SocketStep, Hear, Drop, Open, PageStep, CountdownEnds, Refused, serverVars, seatVars
<1>7. ASSUME NEW d \in Client, NEW i \in 1..MaxFetches, FetchStep(d, i) PROVE row' = row
  BY <1>7 DEF FetchStep, ServerReads, FetchArrives, FetchFails, serverVars, seatVars
<1> QED
  BY <1>2, <1>3, <1>4, <1>5, <1>6, <1>7, Steps DEF vars, serverVars, seatVars

LEMMA WasStill ==
  ASSUME KnownInv, [BroadcastNext]_vars, NEW s \in Seat, NEW r \in Row, Was(s, r)
  PROVE  Was(s, r)'
<1>1. row[s].n \in Nat /\ r.n \in Nat
  BY DEF KnownInv, ServerKnown, Row
<1> QED
  BY <1>1, RowMoves DEF Was

\* Nobody knows a row that is not the row of the table or an older one: no
\* handler that will publish it, no message, no browser and no fetch.
RowsInv ==
  /\ \A h \in Handler : At(h, "publish") => Was(handler[h].seat, handler[h].seen)
  /\ \A m \in Message : OnTheWire(m) /\ m.type = "seat_update" => Was(m.seat, m.row)
  /\ \A c \in Client : \A s \in Seat : Was(s, view[c][s].row)
  /\ \A c \in Client : \A i \in DOMAIN fetches[c] : \A s \in Seat :
       fetches[c][i].read => Was(s, fetches[c][i].rows[s])

LEMMA RowsInit == BroadcastInit => RowsInv
<1> SUFFICES ASSUME BroadcastInit PROVE RowsInv
  OBVIOUS
<1>1. \A h \in Handler : ~At(h, "publish")
  BY DEF BroadcastInit, At, Idle
<1>2. \A m : ~OnTheWire(m)
  BY DEF BroadcastInit, OnTheWire, In
<1>3. \A c \in Client : \A s \in Seat : view[c][s].row = row[s]
  BY DEF BroadcastInit
<1>4. ASSUME NEW c \in Client PROVE DOMAIN fetches[c] = {}
  <2>1. fetches[c] = <<>> /\ DOMAIN <<>> = {}
    BY DEF BroadcastInit
  <2> QED
    BY <2>1
<1> QED
  BY <1>1, <1>2, <1>3, <1>4 DEF RowsInv, Was

\* What is on the wire has the type of a message.
LEMMA WireTyped ==
  ASSUME KnownInv, NEW m, OnTheWire(m)
  PROVE  m \in Message
<1>1. /\ \A w \in Worker : feed[w].messages \in Seq(Message)
      /\ \A c \in Client : inbox[c] \in Seq(Message)
  BY DEF KnownInv, WireKnown
<1> QED
  BY <1>1, ElementOfSeq DEF OnTheWire, In

LEMMA RowsStep ==
  ASSUME KnownInv, KnownInv', RowsInv, [BroadcastNext]_vars PROVE RowsInv'
<1>1. \A h \in Handler : HandlerKnown(handler[h]) /\ handler[h] \in Work
  BY DEF KnownInv, ServerKnown
<1>2. ASSUME NEW h \in Handler, At(h, "publish")'
      PROVE  Was(handler[h].seat, handler[h].seen)'
  <2> PICK s, r : s = handler'[h].seat /\ r = handler'[h].seen
    OBVIOUS
  <2>1. s \in Seat /\ r \in Row
    BY <1>2 DEF KnownInv, ServerKnown, HandlerKnown, Work, At
  <2>2. ASSUME handler'[h] = handler[h] PROVE Was(s, r)'
    <3>1. Was(s, r)
      BY <1>2, <2>2 DEF RowsInv, At
    <3> QED
      BY <2>1, <3>1, WasStill
  <2>3. ASSUME NEW g \in Handler, HandlerStep(g) PROVE Was(s, r)'
    <3> PICK job : Moved(g, job)
      BY <2>3, HandlerMoves
    <3>1. handler' = [handler EXCEPT ![g] = job] /\ row' = row
      BY DEF Moved
    <3>2. CASE g = h
      <4>1. handler'[h] = job
        BY <3>1, <3>2 DEF KnownInv, ServerKnown
      <4>2. r = row[s]
        BY <1>2, <4>1 DEF Moved, At
      <4> QED
        BY <3>1, <4>2 DEF Was
    <3>3. CASE g # h
      BY <2>2, <3>1, <3>3 DEF KnownInv, ServerKnown
    <3> QED
      BY <3>2, <3>3
  <2>4. ASSUME NEW g \in Handler, NEW z \in Seat, CommitStep(g, z) PROVE Was(s, r)'
    <3> PICK job, n : Committed(g, z, job, n)
      BY <2>4, CommitKnown
    <3>1. handler' = [handler EXCEPT ![g] = job] /\ job.pc = "read"
      BY DEF Committed
    <3>2. g # h
      BY <1>2, <3>1 DEF At, KnownInv, ServerKnown
    <3> QED
      BY <2>2, <3>1, <3>2 DEF KnownInv, ServerKnown
  <2>5. ASSUME NEW g \in Handler, PrepareStep(g) PROVE Was(s, r)'
    <3> PICK job : Prepared(g, job)
      BY <2>5, PrepareKnown
    <3>1. handler' = [handler EXCEPT ![g] = job] /\ job.pc # "publish"
      BY DEF Prepared
    <3>2. g # h
      BY <1>2, <3>1 DEF At, KnownInv, ServerKnown
    <3> QED
      BY <2>2, <3>1, <3>2 DEF KnownInv, ServerKnown
  <2>6. handler' = handler => Was(s, r)'
    BY <2>2
  <2>7. ASSUME NEW w \in Worker, WorkerStep(w) PROVE handler' = handler
    BY <2>7 DEF WorkerStep, Forward, FeedBreaks, Resubscribe, serverVars, seatVars
  <2>8. ASSUME NEW d \in Client, SocketStep(d) \/ PageStep(d) PROVE handler' = handler
    BY <2>8 DEF SocketStep, Hear, Drop, Open, PageStep, CountdownEnds, Refused, serverVars, seatVars
  <2>9. ASSUME NEW d \in Client, NEW i \in 1..MaxFetches, FetchStep(d, i) PROVE handler' = handler
    BY <2>9 DEF FetchStep, ServerReads, FetchArrives, FetchFails, serverVars, seatVars
  <2>10. Was(s, r)'
    BY <2>3, <2>4, <2>5, <2>6, <2>7, <2>8, <2>9, Steps DEF vars, serverVars, seatVars
  <2> QED
    BY <2>10 DEF Was
<1>3. ASSUME NEW m \in Message, OnTheWire(m)', m.type = "seat_update"
      PROVE  Was(m.seat, m.row)'
  <2>1. m.seat \in Seat /\ m.row \in Row
    BY DEF Message
  <2>2. Was(m.seat, m.row)
    BY <1>3, Carried DEF RowsInv, PublishSeat
  <2> QED
    BY <2>1, <2>2, WasStill
<1>4. ASSUME NEW c \in Client, NEW s \in Seat PROVE Was(s, view[c][s].row)'
  <2> PICK r : r = view'[c][s].row
    OBVIOUS
  <2>1. r \in Row
    BY DEF KnownInv, ClientKnown
  <2>2. Was(s, r)
    <3>1. CASE view'[c][s] = view[c][s]
      BY <3>1 DEF RowsInv
    <3>2. ASSUME NEW i \in DOMAIN inbox[c], inbox[c][i].type = "seat_update", inbox[c][i].seat = s,
                 r = inbox[c][i].row
          PROVE  Was(s, r)
      <4>1. PICK m : m = inbox[c][i]
        OBVIOUS
      <4>2. OnTheWire(m) /\ m \in Message
        BY <4>1, WireTyped DEF OnTheWire, In
      <4> QED
        BY <3>2, <4>1, <4>2 DEF RowsInv
    <3>3. ASSUME NEW i \in DOMAIN fetches[c], fetches[c][i].read, r = fetches[c][i].rows[s]
          PROVE  Was(s, r)
      BY <3>3 DEF RowsInv
    <3> QED
      BY <3>1, <3>2, <3>3, Seen
  <2>3. Was(s, r)'
    BY <2>1, <2>2, WasStill
  <2> QED
    BY <2>3 DEF Was
<1>5. ASSUME NEW c \in Client, NEW k \in DOMAIN fetches'[c], NEW s \in Seat, fetches'[c][k].read
      PROVE  Was(s, fetches[c][k].rows[s])'
  <2> PICK r : r = fetches'[c][k].rows[s]
    OBVIOUS
  <2>1. r \in Row
    <3>1. fetches'[c] \in Seq(Fetch)
      BY DEF KnownInv, ClientKnown
    <3>2. fetches'[c][k] \in Fetch
      BY <3>1, ElementOfSeq
    <3> QED
      BY <3>2 DEF Fetch
  <2>2. Was(s, r)
    BY <1>5, Fetched DEF RowsInv, Was
  <2>3. Was(s, r)'
    BY <2>1, <2>2, WasStill
  <2> QED
    BY <2>3 DEF Was
<1> QED
  BY <1>2, <1>3, <1>4, <1>5 DEF RowsInv

----------------------------------------------------------------------------
(* ShowsTheRow                                                             *)

\* A handler is going to publish the row as it is.
Pending(s) ==
  \E h \in Handler : /\ handler[h].seat = s
                     /\ At(h, "read") \/ (At(h, "publish") /\ handler[h].seen = row[s])

\* The client shows r for s when all that is on its way has arrived.
Settles(c, s, r) == Coming(c, s, r) /\ (Hushed(c, s) => view[c][s].row = r)

UpToDate(c, s) == Pending(s) \/ Settles(c, s, row[s])

\* So it is with a client that has missed nothing, and with one that has missed
\* something if a fetch will tell it.
CurrentInv ==
  \A c \in Client : \A s \in Seat \ overtaken :
    /\ missed[c] # "yes" => UpToDate(c, s)
    /\ \A i \in DOMAIN fetches[c] : fetches[c][i].read /\ fetches[c][i].whole =>
         fetches[c][i].rows[s] = row[s] \/ UpToDate(c, s)

LEMMA CurrentInit == BroadcastInit => CurrentInv
<1> SUFFICES ASSUME BroadcastInit PROVE CurrentInv
  OBVIOUS
<1>1. ASSUME NEW c \in Client, NEW s \in Seat PROVE UpToDate(c, s)
  <2>1. view[c][s].row = row[s]
    BY DEF BroadcastInit
  <2> QED
    BY <2>1, NothingComes DEF UpToDate, Settles
<1> QED
  BY <1>1 DEF CurrentInv

\* Only the publish of the row takes away that one is pending.
LEMMA StillPending ==
  ASSUME KnownInv, [BroadcastNext]_vars, NEW s \in Seat, Pending(s),
         \A h \in Handler : ~(PublishSeat(h) /\ handler[h].seat = s /\ handler[h].seen = row[s]),
         \A h \in Handler : ~PublishFails(h) /\ ~HandlerDies(h)
  PROVE  Pending(s)'
<1> PICK h \in Handler : /\ handler[h].seat = s
                         /\ At(h, "read") \/ (At(h, "publish") /\ handler[h].seen = row[s])
  BY DEF Pending
<1>1. CASE row'[s] # row[s]
  BY <1>1, RowMoves DEF Pending, At
<1>2. ASSUME row'[s] = row[s], handler'[h] = handler[h] PROVE Pending(s)'
  BY <1>2 DEF Pending, At
<1>3. ASSUME NEW g \in Handler, HandlerStep(g) PROVE Pending(s)'
  <2> PICK job : Moved(g, job)
    BY <1>3, HandlerMoves
  <2>1. handler' = [handler EXCEPT ![g] = job] /\ row' = row
    BY DEF Moved
  <2>2. CASE g # h
    BY <1>2, <2>1, <2>2 DEF KnownInv, ServerKnown
  <2>3. CASE g = h
    <3>1. CASE ReadRow(h)
      <4>1. handler'[h].pc = "publish" /\ handler'[h].seen = row[s] /\ handler'[h].seat = s
        <5>1. /\ handler' = [handler EXCEPT ![h].pc = "publish", ![h].seen = row[handler[h].seat]]
              /\ handler \in [Handler -> Work]
          BY <3>1 DEF ReadRow, KnownInv, ServerKnown
        <5> QED
          BY <5>1 DEF Work
      <4> QED
        BY <2>1, <4>1 DEF Pending, At
    <3>2. CASE ~ReadRow(h)
      BY <1>3, <2>3, <3>2 DEF HandlerStep, PublishSeat, PublishPricing, Answer, At
    <3> QED
      BY <3>1, <3>2
  <2> QED
    BY <2>2, <2>3
<1>4. ASSUME NEW g \in Handler, NEW z \in Seat, CommitStep(g, z) PROVE Pending(s)'
  <2> PICK job, r : Committed(g, z, job, r)
    BY <1>4, CommitKnown
  <2>1. handler' = [handler EXCEPT ![g] = job] /\ (At(g, "idle") \/ At(g, "update"))
    BY DEF Committed
  <2>2. handler'[h] = handler[h]
    BY <2>1 DEF At, KnownInv, ServerKnown
  <2> QED
    BY <1>1, <1>2, <2>2
<1>5. ASSUME NEW g \in Handler, PrepareStep(g) PROVE Pending(s)'
  <2> PICK job : Prepared(g, job)
    BY <1>5, PrepareKnown
  <2>1. /\ handler' = [handler EXCEPT ![g] = job]
        /\ At(g, "idle") \/ At(g, "update") \/ At(g, "answer")
    BY DEF Prepared
  <2>2. handler'[h] = handler[h]
    BY <2>1 DEF At, KnownInv, ServerKnown
  <2> QED
    BY <1>1, <1>2, <2>2
<1>6. handler' = handler => Pending(s)'
  BY <1>1, <1>2
<1>7. ASSUME NEW w \in Worker, WorkerStep(w) PROVE handler' = handler
  BY <1>7 DEF WorkerStep, Forward, FeedBreaks, Resubscribe, serverVars, seatVars
<1>8. ASSUME NEW d \in Client, SocketStep(d) \/ PageStep(d) PROVE handler' = handler
  BY <1>8 DEF SocketStep, Hear, Drop, Open, PageStep, CountdownEnds, Refused, serverVars, seatVars
<1>9. ASSUME NEW d \in Client, NEW i \in 1..MaxFetches, FetchStep(d, i) PROVE handler' = handler
  BY <1>9 DEF FetchStep, ServerReads, FetchArrives, FetchFails, serverVars, seatVars
<1> QED
  BY <1>3, <1>4, <1>5, <1>6, <1>7, <1>8, <1>9, Steps DEF vars, serverVars, seatVars

\* Where there was something to come, somebody knows a row as new as that.
LEMMA KnownSomewhere ==
  ASSUME KnownInv, NEW c \in Client, NEW s \in Seat, NEW r \in Row, Settles(c, s, r),
         NEW n \in Nat, n < r.n
  PROVE  NewerKnown(s, n)
<1>1. inbox[c] \in Seq(Message) /\ socket[c] \in Worker \cup {None}
  BY DEF KnownInv, WireKnown
<1>2. CASE Hushed(c, s)
  BY <1>2 DEF Settles, NewerKnown
<1>3. CASE ~Silent(Wire(c), s)
  <2>1. Wire(c) # <<>>
    BY <1>3, SilentEnd
  <2>2. PICK w \in Worker : Wire(c) = feed[w].messages
    BY <1>1, <2>1 DEF Wire
  <2>3. feed[w].messages \in Seq(Message) /\ EndsWith(feed[w].messages, s, r)
    BY DEF KnownInv, WireKnown, Settles, Coming
  <2>4. PICK i \in DOMAIN feed[w].messages :
          feed[w].messages[i].seat = s /\ feed[w].messages[i].row = r
    BY <1>3, <2>2, <2>3, SaidLast
  <2> QED
    BY <2>4 DEF NewerKnown
<1>4. CASE Silent(Wire(c), s) /\ ~Silent(inbox[c], s)
  <2>1. EndsWith(inbox[c], s, r)
    BY <1>4 DEF Settles, Coming
  <2>2. PICK i \in DOMAIN inbox[c] : inbox[c][i].seat = s /\ inbox[c][i].row = r
    BY <1>1, <1>4, <2>1, SaidLast
  <2> QED
    BY <2>2 DEF NewerKnown
<1> QED
  BY <1>2, <1>3, <1>4 DEF Hushed

LEMMA SettlesOn ==
  ASSUME NEW c \in Client, NEW s \in Seat, NEW r, Settles(c, s, r), Flows(c, s)
  PROVE  Settles(c, s, r)'
<1>1. FlowsOn(c, s, r)
  BY DEF Flows
<1> QED
  BY <1>1 DEF FlowsOn, Settles

\* The publish of a row: of the newest, or of an older one that is not the last.
LEMMA UpToDatePublished ==
  ASSUME KnownInv, RowsInv, NEW h \in Handler, PublishSeat(h), [BroadcastNext]_vars,
         NEW c \in Client, NEW s \in Seat \ overtaken', UpToDate(c, s), ~Loses(c)
  PROVE  UpToDate(c, s)'
<1> PICK n, r : n = handler[h].seen /\ r = row[s]
  OBVIOUS
<1> PICK m : m = [type |-> "seat_update", seat |-> handler[h].seat, row |-> n]
  OBVIOUS
<1>1. /\ m \in Message /\ Publish(m) /\ view' = view /\ Miss(Deaf) /\ row' = row
      /\ m.type = "seat_update" /\ m.seat = handler[h].seat /\ m.row = n
  BY MessageKnown DEF PublishSeat, seatVars
<1>2. c \notin Deaf
  BY <1>1, MissLoses
<1>3. \A g \in Handler : ~PublishFails(g) /\ ~HandlerDies(g)
  <2>1. ASSUME NEW g \in Handler, PublishFails(g) \/ HandlerDies(g) PROVE Loses(c)
    BY <2>1, MissLoses, DiesKnown DEF PublishFails, Loses
  <2> QED
    BY <2>1
<1>4. r \in Row /\ n \in Row /\ n.n \in Nat
  BY DEF KnownInv, ServerKnown, Work, Row
<1>5. Settles(c, s, r)' => UpToDate(c, s)'
  <2>1. r = row'[s]
    BY <1>1
  <2> QED
    BY <2>1 DEF UpToDate, Settles
<1>6. CASE s # m.seat
  <2>1. CASE Pending(s)
    <3>1. \A g \in Handler : ~(PublishSeat(g) /\ handler[g].seat = s /\ handler[g].seen = row[s])
      <4> SUFFICES ASSUME NEW g \in Handler, PublishSeat(g), handler[g].seat = s PROVE FALSE
        OBVIOUS
      <4> PICK a, b : Moved(g, a) /\ Moved(h, b)
        BY HandlerMoves DEF HandlerStep
      <4>1. /\ handler' = [handler EXCEPT ![g] = a] /\ handler' = [handler EXCEPT ![h] = b]
            /\ g # h
        BY <1>1, <1>6 DEF Moved
      <4>2. handler'[g] = handler[g] /\ handler'[g] = a
        BY <4>1 DEF KnownInv, ServerKnown
      <4>3. At(g, "publish") /\ a.pc = "publish" => At(g, "read")
        BY DEF PublishSeat, Moved
      <4> QED
        BY <4>2, <4>3 DEF At, PublishSeat
    <3>2. Pending(s)'
      BY <1>3, <2>1, <3>1, StillPending
    <3> QED
      BY <3>2 DEF UpToDate
  <2>2. CASE Settles(c, s, r)
    <3>1. Flows(c, s)
      BY <1>1, <1>6, PublishFlows DEF Says
    <3> QED
      BY <1>5, <2>2, <3>1, SettlesOn
  <2> QED
    BY <2>1, <2>2 DEF UpToDate
<1>7. CASE s = m.seat /\ n = r
  <2>1. Coming(c, s, n)' /\ ~Hushed(c, s)'
    BY <1>1, <1>2, <1>7, PublishComes DEF Says
  <2> QED
    BY <1>5, <1>7, <2>1 DEF Settles
<1>8. CASE s = m.seat /\ n # r
  <2>1. n.n < r.n
    BY <1>1, <1>8 DEF RowsInv, Was, PublishSeat
  <2>2. ~NewerKnown(s, n.n)
    BY <1>1, <1>8 DEF PublishSeat
  <2>3. Pending(s)
    BY <1>4, <2>1, <2>2, KnownSomewhere DEF UpToDate
  <2>4. PICK g \in Handler : /\ handler[g].seat = s
                             /\ At(g, "read") \/ (At(g, "publish") /\ handler[g].seen = r)
    BY <2>3 DEF Pending
  <2>5. g # h
    BY <1>8, <2>4 DEF PublishSeat, At
  <2> PICK job : Moved(h, job)
    BY HandlerMoves DEF HandlerStep
  <2>6. handler'[g] = handler[g]
    BY <2>5 DEF Moved, KnownInv, ServerKnown
  <2>7. Pending(s)'
    BY <1>1, <2>4, <2>6 DEF Pending, At
  <2> QED
    BY <2>7 DEF UpToDate
<1> QED
  BY <1>6, <1>7, <1>8

\* A fetch that is not older than what the client shows.
LEMMA UpToDateFetched ==
  ASSUME KnownInv, RowsInv, NEW c \in Client, NEW i \in 1..MaxFetches, FetchArrives(c, i),
         NEW s \in Seat, UpToDate(c, s), ~Late(c, fetches[c][i].rows)
  PROVE  UpToDate(c, s)'
<1> PICK r, f : r = row[s] /\ f = fetches[c][i]
  OBVIOUS
<1>1. /\ row' = row /\ handler' = handler /\ UNCHANGED wireVars
      /\ view'[c][s].row = f.rows[s] /\ f.read /\ f \in Fetch /\ i \in DOMAIN fetches[c]
  BY ArrivalKnown DEF FetchArrives, serverVars, seatVars
<1>2. CASE Pending(s)
  BY <1>1, <1>2 DEF Pending, UpToDate, At
<1>3. CASE Settles(c, s, r)
  <2>1. Coming(c, s, r)' /\ (Hushed(c, s)' <=> Hushed(c, s))
    BY <1>1, <1>3 DEF Settles, Coming, Hushed, Wire, wireVars
  <2>2. ASSUME Hushed(c, s) PROVE f.rows[s] = r
    <3>1. view[c][s].row = r /\ ~(f.rows[s].n < r.n)
      BY <1>3, <2>2 DEF Settles, Late
    <3> QED
      BY <1>1, <3>1 DEF RowsInv, Was
  <2>3. Settles(c, s, r)'
    BY <1>1, <2>1, <2>2 DEF Settles
  <2> QED
    BY <1>1, <2>3 DEF UpToDate, Settles
<1> QED
  BY <1>2, <1>3 DEF UpToDate

LEMMA UpToDateStill ==
  ASSUME KnownInv, RowsInv, [BroadcastNext]_vars, NEW c \in Client, NEW s \in Seat \ overtaken',
         UpToDate(c, s), ~Loses(c), \A i \in 1..MaxFetches : ~FetchArrives(c, i)
  PROVE  UpToDate(c, s)'
<1>1. CASE \E h \in Handler : PublishSeat(h)
  BY <1>1, UpToDatePublished
<1>2. CASE ~\E h \in Handler : PublishSeat(h)
  <2>1. \A g \in Handler : ~PublishFails(g) /\ ~HandlerDies(g)
    <3>1. ASSUME NEW g \in Handler, PublishFails(g) \/ HandlerDies(g) PROVE Loses(c)
      BY <3>1, MissLoses, DiesKnown DEF PublishFails, Loses
    <3> QED
      BY <3>1
  <2>2. CASE Pending(s)
    BY <1>2, <2>1, <2>2, StillPending DEF UpToDate
  <2>3. CASE Settles(c, s, row[s]) /\ row'[s] = row[s]
    <3> PICK r : r = row[s]
      OBVIOUS
    <3>1. Flows(c, s)
      BY <1>2, Stream
    <3>2. Settles(c, s, r)'
      BY <2>3, <3>1, SettlesOn
    <3> QED
      BY <2>3, <3>2 DEF UpToDate, Settles
  <2>4. CASE row'[s] # row[s]
    BY <2>4, RowMoves DEF UpToDate, Pending, At
  <2> QED
    BY <2>2, <2>3, <2>4 DEF UpToDate
<1> QED
  BY <1>1, <1>2

LEMMA OvertakenGrows ==
  ASSUME KnownInv, [BroadcastNext]_vars
  PROVE  overtaken \subseteq overtaken'
<1>1. ASSUME NEW h \in Handler, HandlerStep(h) PROVE overtaken \subseteq overtaken'
  BY <1>1 DEF HandlerStep, ReadRow, PublishSeat, PublishPricing, PublishFails, Answer, HandlerDies,
              historyVars
<1>2. ASSUME NEW h \in Handler, NEW s \in Seat, CommitStep(h, s) PROVE overtaken' = overtaken
  BY <1>2, CommitKnown DEF Committed, historyVars
<1>3. ASSUME NEW h \in Handler, PrepareStep(h) PROVE overtaken' = overtaken
  BY <1>3, PrepareKnown DEF Prepared
<1>4. ASSUME NEW w \in Worker, WorkerStep(w) PROVE overtaken' = overtaken
  BY <1>4 DEF WorkerStep, Forward, FeedBreaks, Resubscribe, historyVars
<1>5. ASSUME NEW c \in Client, SocketStep(c) \/ PageStep(c) PROVE overtaken' = overtaken
  BY <1>5 DEF SocketStep, Hear, Drop, Open, PageStep, CountdownEnds, Refused, historyVars
<1>6. ASSUME NEW c \in Client, NEW i \in 1..MaxFetches, FetchStep(c, i) PROVE overtaken' = overtaken
  BY <1>6 DEF FetchStep, ServerReads, FetchArrives, FetchFails, historyVars
<1> QED
  BY <1>1, <1>2, <1>3, <1>4, <1>5, <1>6, Steps DEF vars, historyVars

\* A fetch brings the row as it is, and no older row is on its way.
LEMMA FetchHeals ==
  ASSUME KnownInv, RowsInv, NEW c \in Client, NEW i \in 1..MaxFetches, FetchArrives(c, i),
         NEW s \in Seat, fetches[c][i].rows[s] = row[s], ~OlderComing(c, fetches[c][i].rows)
  PROVE  UpToDate(c, s)'
<1> PICK r, f : r = row[s] /\ f = fetches[c][i]
  OBVIOUS
<1>1. /\ row' = row /\ UNCHANGED wireVars /\ view'[c][s].row = r
      /\ f.rows[s] = r
  BY ArrivalKnown DEF FetchArrives, serverVars, seatVars
<1>2. ASSUME NEW q \in Seq(Message), \A k \in DOMAIN q : OnTheWire(q[k]),
             ~\E k \in DOMAIN q : q[k].type = "seat_update" /\ q[k].row.n < f.rows[q[k].seat].n
      PROVE  EndsWith(q, s, r)
  <2>1. ASSUME NEW k \in DOMAIN q, Says(q[k], s) PROVE q[k].row = r
    <3>1. q[k] \in Message /\ OnTheWire(q[k])
      BY <1>2, ElementOfSeq
    <3>2. Was(s, q[k].row)
      BY <2>1, <3>1 DEF RowsInv, Says
    <3>3. ~(q[k].row.n < r.n)
      BY <1>1, <1>2, <2>1 DEF Says
    <3> QED
      BY <3>2, <3>3 DEF Was
  <2> QED
    BY <2>1 DEF EndsWith
<1>3. ASSUME NEW w \in Worker PROVE EndsWith(feed[w].messages, s, r)
  <2>1. feed[w].messages \in Seq(Message)
    BY DEF KnownInv, WireKnown
  <2>2. \A k \in DOMAIN feed[w].messages : OnTheWire(feed[w].messages[k])
    BY DEF OnTheWire, In
  <2>3. ~\E k \in DOMAIN feed[w].messages :
           /\ feed[w].messages[k].type = "seat_update"
           /\ feed[w].messages[k].row.n < f.rows[feed[w].messages[k].seat].n
    BY DEF OlderComing
  <2> QED
    BY <1>2, <2>1, <2>2, <2>3
<1>4. EndsWith(inbox[c], s, r)
  <2>1. inbox[c] \in Seq(Message)
    BY DEF KnownInv, WireKnown
  <2>2. \A k \in DOMAIN inbox[c] : OnTheWire(inbox[c][k])
    BY DEF OnTheWire, In
  <2>3. ~\E k \in DOMAIN inbox[c] : inbox[c][k].type = "seat_update"
                                    /\ inbox[c][k].row.n < f.rows[inbox[c][k].seat].n
    BY DEF OlderComing
  <2> QED
    BY <1>2, <2>1, <2>2, <2>3
<1>5. Coming(c, s, r)'
  BY <1>1, <1>3, <1>4 DEF Coming, wireVars
<1>6. Settles(c, s, r)'
  BY <1>1, <1>5 DEF Settles
<1> QED
  BY <1>1, <1>6 DEF UpToDate, Settles

LEMMA CurrentStep ==
  ASSUME KnownInv, KnownInv', RowsInv, CurrentInv, [BroadcastNext]_vars PROVE CurrentInv'
<1> SUFFICES ASSUME NEW c \in Client, NEW s \in Seat \ overtaken'
             PROVE  /\ missed'[c] # "yes" => UpToDate(c, s)'
                    /\ \A k \in DOMAIN fetches'[c] : fetches'[c][k].read /\ fetches'[c][k].whole =>
                         fetches'[c][k].rows[s] = row'[s] \/ UpToDate(c, s)'
  BY DEF CurrentInv
<1>1. s \in Seat \ overtaken
  BY OvertakenGrows
<1>2. row'[s] # row[s] => UpToDate(c, s)'
  BY RowMoves DEF UpToDate, Pending, At
<1>3. ASSUME UpToDate(c, s), ~Loses(c), \A i \in 1..MaxFetches : ~FetchArrives(c, i)
      PROVE  UpToDate(c, s)'
  BY <1>3, UpToDateStill
<1>4. ASSUME NEW k \in DOMAIN fetches'[c], fetches'[c][k].read, fetches'[c][k].whole
      PROVE  fetches'[c][k].rows[s] = row'[s] \/ UpToDate(c, s)'
  <2>1. ~Loses(c)
    BY <1>4 DEF Loses
  <2>2. CASE fetches'[c][k].rows = row /\ row' = row
    BY <2>2
  <2>3. ASSUME NEW i \in 1..MaxFetches, FetchArrives(c, i)
        PROVE  fetches'[c][k].rows[s] = row'[s] \/ UpToDate(c, s)'
    <3>1. \A n \in DOMAIN fetches'[c] : \E j \in DOMAIN fetches[c] :
              /\ fetches'[c][n].read = fetches[c][j].read
              /\ fetches'[c][n].rows = fetches[c][j].rows
              /\ fetches'[c][n].read /\ fetches'[c][n].whole =>
                   fetches[c][j].whole /\ ~Late(c, fetches[c][i].rows)
      BY <2>3, ArrivalKnown
    <3>2. PICK j \in DOMAIN fetches[c] :
            /\ fetches[c][j].read /\ fetches[c][j].whole /\ fetches'[c][k].rows = fetches[c][j].rows
            /\ ~Late(c, fetches[c][i].rows)
      BY <1>4, <3>1
    <3>3. fetches[c][j].rows[s] = row[s] \/ UpToDate(c, s)
      BY <1>1, <3>2 DEF CurrentInv
    <3> QED
      BY <1>2, <2>3, <3>2, <3>3, UpToDateFetched
  <2>4. ASSUME NEW j \in DOMAIN fetches[c], fetches[c][j].read, fetches[c][j].whole,
               fetches'[c][k].rows = fetches[c][j].rows, \A i \in 1..MaxFetches : ~FetchArrives(c, i)
        PROVE  fetches'[c][k].rows[s] = row'[s] \/ UpToDate(c, s)'
    <3>1. fetches[c][j].rows[s] = row[s] \/ UpToDate(c, s)
      BY <1>1, <2>4 DEF CurrentInv
    <3> QED
      BY <1>2, <1>3, <2>1, <2>4, <3>1
  <2> QED
    BY <1>4, <2>2, <2>3, <2>4, Fetched
<1>5. ASSUME missed'[c] # "yes" PROVE UpToDate(c, s)'
  <2>1. ~Loses(c)
    BY <1>5 DEF Loses
  <2>2. ASSUME NEW i \in 1..MaxFetches, FetchArrives(c, i) PROVE UpToDate(c, s)'
    <3>1. /\ fetches[c][i].whole /\ fetches[c][i].read /\ i \in DOMAIN fetches[c]
          /\ ~Late(c, fetches[c][i].rows)
          /\ missed[c] # "yes" \/ ~OlderComing(c, fetches[c][i].rows)
      BY <1>5, <2>2, ArrivalKnown
    <3>2. fetches[c][i].rows[s] = row[s] \/ UpToDate(c, s)
      BY <1>1, <3>1 DEF CurrentInv
    <3>3. missed[c] # "yes" => UpToDate(c, s)
      BY <1>1 DEF CurrentInv
    <3> QED
      BY <2>2, <3>1, <3>2, <3>3, UpToDateFetched, FetchHeals
  <2>3. CASE \A i \in 1..MaxFetches : ~FetchArrives(c, i)
    <3>1. CASE \E h \in Handler : PublishSeat(h)
      <4>1. missed[c] # "yes"
        <5>1. Miss(Deaf)
          BY <3>1 DEF PublishSeat
        <5> QED
          BY <1>5, <5>1, MissKnown DEF KnownInv
      <4> QED
        BY <1>1, <1>3, <2>1, <2>3, <4>1 DEF CurrentInv
    <3>2. CASE ~\E h \in Handler : PublishSeat(h)
      <4>1. missed[c] # "yes"
        BY <1>5, <2>1, <2>3, <3>2, Stream
      <4> QED
        BY <1>1, <1>3, <2>1, <2>3, <4>1 DEF CurrentInv
    <3> QED
      BY <3>1, <3>2
  <2> QED
    BY <2>2, <2>3
<1> QED
  BY <1>4, <1>5

LEMMA RowsAlways == BroadcastSpec => []RowsInv
<1>1. KnownInv /\ KnownInv' /\ RowsInv /\ [BroadcastNext]_vars => RowsInv'
  BY RowsStep
<1> QED
  BY KnownAlways, RowsInit, <1>1, PTL DEF BroadcastSpec

LEMMA CurrentAlways == BroadcastSpec => []CurrentInv
<1>1. KnownInv /\ KnownInv' /\ RowsInv /\ CurrentInv /\ [BroadcastNext]_vars => CurrentInv'
  BY CurrentStep
<1> QED
  BY KnownAlways, RowsAlways, CurrentInit, <1>1, PTL DEF BroadcastSpec

LEMMA CurrentShows == CurrentInv => ShowsTheRow
<1> SUFFICES ASSUME CurrentInv, NEW c \in Client, Quiet(c), missed[c] # "yes",
                    NEW s \in Seat \ overtaken
             PROVE  view[c][s].row = row[s]
  BY DEF ShowsTheRow
<1>1. Hushed(c, s)
  BY SilentEnd DEF Quiet, Hushed, Wire
<1>2. ~Pending(s)
  BY DEF Quiet, Pending, At
<1> QED
  BY <1>1, <1>2 DEF CurrentInv, UpToDate, Settles

\* When everything has arrived, a browser shows the rows of the table, however
\* messages and fetches passed each other, unless it has missed something since
\* it fetched or two publishes of the seat overtook each other.
THEOREM Shown == BroadcastSpec => []ShowsTheRow
BY CurrentAlways, CurrentShows, PTL

----------------------------------------------------------------------------
(* SelectionIsHeld                                                         *)

\* What is selected is held or known by an older row, unless the client heard
\* that it has the seat when that was over.
HoldsInv ==
  \A c \in Client \ belated : \A s \in Seat :
    selected[c] = s /\ view[c][s].told => Mine(c, view[c][s].row) \/ view[c][s].row.n < row[s].n

LEMMA HoldsInit == BroadcastInit => HoldsInv
BY DEF BroadcastInit, HoldsInv

\* A commit makes what the browsers show of the seat older.
LEMMA HoldsCommitted ==
  ASSUME KnownInv, RowsInv, HoldsInv, NEW h \in Handler, NEW s \in Seat, CommitStep(h, s)
  PROVE  HoldsInv'
<1> PICK job, r : Committed(h, s, job, r)
  BY CommitKnown
<1>1. /\ row' = [row EXCEPT ![s] = r] /\ r.n = row[s].n + 1
      /\ view' = view /\ selected' = selected /\ belated' = belated
  BY DEF Committed, clientVars, historyVars
<1>2. row'[s] = r /\ \A z \in Seat \ {s} : row'[z] = row[z]
  BY <1>1 DEF KnownInv, ServerKnown
<1>3. ASSUME NEW d \in Client \ belated, NEW z \in Seat, selected[d] = z, view[d][z].told
      PROVE  Mine(d, view[d][z].row) \/ view[d][z].row.n < row'[z].n
  <2>1. row[z].n \in Nat /\ view[d][z].row.n \in Nat
    BY DEF KnownInv, ServerKnown, ClientKnown, Row
  <2>2. CASE z = s
    <3>1. view[d][z].row.n < row[z].n \/ view[d][z].row = row[z]
      BY DEF RowsInv, Was
    <3> QED
      BY <1>1, <1>2, <2>1, <2>2, <3>1
  <2>3. CASE z # s
    BY <1>2, <1>3, <2>3 DEF HoldsInv
  <2> QED
    BY <2>2, <2>3
<1> QED
  BY <1>1, <1>3 DEF HoldsInv, Mine

LEMMA Selects ==
  ASSUME KnownInv, RowsInv, HoldsInv, [BroadcastNext]_vars,
         ~\E h \in Handler : \E s \in Seat : CommitStep(h, s),
         NEW c \in Client \ belated', NEW s \in Seat, selected'[c] = s, view'[c][s].told
  PROVE  Mine(c, view'[c][s].row) \/ view'[c][s].row.n < row'[s].n
<1> DEFINE Goal == Mine(c, view'[c][s].row) \/ view'[c][s].row.n < row'[s].n
<1>1. s # None /\ selected \in [Client -> Seat \cup {None}]
  BY BroadcastAssumption DEF KnownInv, ClientKnown, BroadcastAssumption
<1>2. ASSUME row' = row, view'[c][s] = view[c][s], selected[c] = s, c \notin belated PROVE Goal
  BY <1>2 DEF HoldsInv
<1> HIDE DEF Goal
<1>3. ASSUME NEW h \in Handler, HandlerStep(h) PROVE Goal
  <2>1. row' = row /\ view' = view
    BY <1>3 DEF HandlerStep, ReadRow, PublishSeat, PublishPricing, PublishFails, Answer, HandlerDies,
                clientVars, seatVars
  <2>2. CASE selected' = selected /\ belated' = belated
    BY <1>2, <2>1, <2>2
  <2>3. CASE belated' = belated /\ \E d : selected' = [selected EXCEPT ![d] = None]
    BY <1>1, <1>2, <2>1, <2>3
  <2>4. CASE Answer(h) /\ handler[h].action = "locked"
    <3>1. /\ selected' = [selected EXCEPT ![handler[h].by] = handler[h].seat]
          /\ belated' = IF Mine(handler[h].by, row[handler[h].seat]) THEN belated \ {handler[h].by}
                        ELSE belated \cup {handler[h].by}
      BY <2>4 DEF Answer
    <3>2. CASE handler[h].by # c
      <4>1. c \notin belated
        BY <3>1, <3>2
      <4> QED
        BY <1>1, <1>2, <2>1, <3>1, <3>2, <4>1
    <3>3. CASE handler[h].by = c
      <4>1. handler[h].seat = s
        BY <1>1, <3>1, <3>3
      <4>2. Mine(c, row[s])
        BY <3>1, <3>3, <4>1
      <4>3. view[c][s].row.n < row[s].n \/ view[c][s].row = row[s]
        BY DEF RowsInv, Was
      <4> QED
        BY <2>1, <4>2, <4>3 DEF Goal
    <3> QED
      BY <3>2, <3>3
  <2> QED
    BY <1>3, <2>2, <2>3, <2>4
       DEF HandlerStep, ReadRow, PublishSeat, PublishPricing, PublishFails, Answer, HandlerDies, clientVars,
           historyVars
<1>4. ASSUME NEW h \in Handler, PrepareStep(h) PROVE Goal
  <2>1. row' = row /\ view' = view /\ selected' = selected /\ belated' = belated
    BY <1>4, PrepareKnown DEF Prepared, seatVars, clientVars
  <2> QED
    BY <1>2, <2>1
<1>5. ASSUME NEW w \in Worker, WorkerStep(w) PROVE Goal
  BY <1>2, <1>5 DEF WorkerStep, Forward, FeedBreaks, Resubscribe, clientVars, serverVars, seatVars, historyVars
<1>6. ASSUME NEW d \in Client, SocketStep(d) \/ PageStep(d) PROVE Goal
  <2>1. CASE Hear(d)
    <3> PICK m : m = Head(inbox[d])
      OBVIOUS
    <3>1. /\ m \in Message /\ row' = row /\ belated' = belated
          /\ m.type = "seat_update" =>
               /\ view'[d][m.seat] = [row |-> m.row, told |-> TRUE]
               /\ \A z \in Seat \ {m.seat} : view'[d][z] = view[d][z]
               /\ \A e \in Client \ {d} : view'[e] = view[e]
               /\ selected' = [selected EXCEPT ![d] = SelectionAfter(d, m.seat, m.row)]
          /\ m.type # "seat_update" => view' = view /\ selected' = selected
      BY <2>1, HearKnown DEF Hear, serverVars, seatVars, historyVars
    <3>2. CASE m.type # "seat_update" \/ c # d
      BY <1>1, <1>2, <3>1, <3>2
    <3>3. CASE m.type = "seat_update" /\ c = d
      <4>1. selected'[c] = SelectionAfter(c, m.seat, m.row)
        BY <1>1, <3>1, <3>3
      <4>2. selected[c] = s /\ (s = m.seat => Mine(c, m.row))
        BY <1>1, <4>1 DEF SelectionAfter, Mine
      <4>3. CASE s = m.seat
        BY <3>1, <3>3, <4>2, <4>3 DEF Goal
      <4>4. CASE s # m.seat
        BY <1>2, <3>1, <3>3, <4>2, <4>4
      <4> QED
        BY <4>3, <4>4
    <3> QED
      BY <3>2, <3>3
  <2>2. CASE Drop(d) \/ \E w \in Worker : Open(d, w)
    BY <1>2, <2>2 DEF Drop, Open, clientVars, serverVars, seatVars, historyVars
  <2>3. CASE PageStep(d)
    <3>1. /\ selected' \in {selected, [selected EXCEPT ![d] = None]}
          /\ view' = view /\ row' = row /\ belated' = belated
      BY <2>3 DEF PageStep, CountdownEnds, Refused, serverVars, seatVars
    <3> QED
      BY <1>1, <1>2, <3>1
  <2> QED
    BY <1>6, <2>1, <2>2, <2>3 DEF SocketStep
<1>7. ASSUME NEW d \in Client, NEW i \in 1..MaxFetches, FetchStep(d, i) PROVE Goal
  <2>1. row' = row /\ selected' = selected /\ belated' = belated
    BY <1>7 DEF FetchStep, ServerReads, FetchArrives, FetchFails, serverVars, seatVars, historyVars
  <2>2. CASE view'[c][s] = view[c][s]
    BY <1>2, <2>1, <2>2
  <2>3. CASE FetchArrives(d, i)
    <3>1. d # c => view'[c] = view[c]
      BY <2>3, ArrivalKnown
    <3>2. d = c => view'[c][s] = [row |-> fetches[c][i].rows[s], told |-> FALSE]
      BY <2>3, ArrivalKnown
    <3> QED
      BY <2>2, <3>1, <3>2
  <2> QED
    BY <1>7, <2>2, <2>3 DEF FetchStep, ServerReads, FetchFails
<1>8. UNCHANGED vars => Goal
  BY <1>2 DEF vars, clientVars, serverVars, seatVars, historyVars
<1> QED
  BY <1>3, <1>4, <1>5, <1>6, <1>7, <1>8, Steps DEF Goal

LEMMA HoldsStep ==
  ASSUME KnownInv, RowsInv, HoldsInv, [BroadcastNext]_vars PROVE HoldsInv'
<1>1. CASE \E h \in Handler : \E s \in Seat : CommitStep(h, s)
  BY <1>1, HoldsCommitted
<1>2. CASE ~\E h \in Handler : \E s \in Seat : CommitStep(h, s)
  <2>1. \A c \in Client \ belated' : \A s \in Seat : selected'[c] = s /\ view'[c][s].told =>
          Mine(c, view'[c][s].row) \/ view'[c][s].row.n < row'[s].n
    BY <1>2, Selects
  <2> QED
    BY <2>1 DEF HoldsInv, Mine
<1> QED
  BY <1>1, <1>2

LEMMA HoldsHeld == KnownInv /\ CurrentInv /\ HoldsInv => SelectionIsHeld
<1> SUFFICES ASSUME KnownInv, CurrentInv, HoldsInv, NEW c \in Client \ belated,
                    NEW s \in Seat \ overtaken,
                    Quiet(c), missed[c] # "yes", view[c][s].told, selected[c] = s
             PROVE  Mine(c, row[s])
  BY DEF SelectionIsHeld, Mine
<1>1. view[c][s].row = row[s]
  BY CurrentShows DEF ShowsTheRow
<1>2. Mine(c, view[c][s].row) \/ view[c][s].row.n < row[s].n
  BY DEF HoldsInv
<1>3. row[s].n \in Nat
  BY DEF KnownInv, ServerKnown, Row
<1> QED
  BY <1>1, <1>2, <1>3

\* A browser that a message told of a seat last, and that has missed nothing,
\* does not keep the seat selected when its user does not hold it: not when the
\* sweep has taken a hold that is anew, nor when a late release has, unless
\* the hold was over already when the client heard that it has it.
THEOREM Held == BroadcastSpec => []SelectionIsHeld
<1>1. KnownInv /\ RowsInv /\ HoldsInv /\ [BroadcastNext]_vars => HoldsInv'
  BY HoldsStep
<1> QED
  BY KnownAlways, RowsAlways, CurrentAlways, HoldsInit, HoldsHeld, <1>1, PTL DEF BroadcastSpec
=============================================================================

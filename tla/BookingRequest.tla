--------------------------- MODULE BookingRequest ---------------------------
(***************************************************************************)
(* POST /bookings around _perform_booking, which SeatBooking has: the way  *)
(* of a request through the admission control, the dependencies and the    *)
(* idempotency protocol of create_booking.  A booking is named after the   *)
(* request that made it.  Requests with one key are a client's retries and *)
(* double clicks; a request without a key is anybody else's.               *)
(***************************************************************************)
EXTENDS Admission, Idempotency

CONSTANT Workloads   \* the requests of a behaviour: what each one asks for

ASSUME RequestAssumption ==
  /\ Response = Req
  /\ NoKey \notin Key \cup Payload \cup Req
  /\ Workloads \subseteq [Req -> [key: Key \cup {NoKey}, payload: Payload]]

VARIABLES
  asks,    \* per request: its key and its body
  at,      \* per request: the call it is in or waits for
  answer,  \* per request: the kind of its answer, and the booking it is about
  holder,  \* per payload, which names a seat: the booking that has the seat
  lapsed   \* history: keys that did not protect all the time

vars == <<admissionVars, idem, asks, at, answer, holder, lapsed>>

KeyOf(r) == asks[r].key
PayloadOf(r) == asks[r].payload

Label == {"new", "auth", "limit", "begin", "get", "work", "store", "abort", "answered", "done"}

\* "taken" names the booking that is in the way.
Kind == {"none", "created", "replayed", "processing", "mismatch", "taken", "error",
         "limited", "lost"}
Answer == [kind: Kind, booking: Req \cup {NoKey}]
Unanswered == [kind |-> "none", booking |-> NoKey]

RequestTypeOK ==
  /\ AdmissionTypeOK /\ IdemTypeOK
  /\ asks \in [Req -> [key: Key \cup {NoKey}, payload: Payload]]
  /\ at \in [Req -> Label] /\ answer \in [Req -> Answer]
  /\ holder \in [Payload -> Req \cup {NoKey}]
  /\ lapsed \subseteq Key

RequestInit ==
  /\ AdmissionInit /\ IdemInit /\ asks \in Workloads
  /\ at = [r \in Req |-> "new"] /\ answer = [r \in Req |-> Unanswered]
  /\ holder = [p \in Payload |-> NoKey] /\ lapsed = {}

----------------------------------------------------------------------------

Go(r, from, to) == at[r] = from /\ at' = [at EXCEPT ![r] = to]
Say(r, kind, b) == answer' = [answer EXCEPT ![r] = [kind |-> kind, booking |-> b]]

\* The synchronous calls run on a thread each.
Runs(r) == r \in threads

Arrive(r) ==
  /\ Go(r, "new", "auth") /\ Admit(r)
  /\ UNCHANGED <<idem, answer, holder, lapsed>>

\* get_current_user loads the user.
Query(r) ==
  /\ at[r] = "auth" /\ Connect(r)
  /\ UNCHANGED <<idem, at, answer, holder, lapsed>>

AuthDone(r) ==
  /\ Runs(r) /\ r \in conns /\ Go(r, "auth", "limit") /\ LeaveThread(r)
  /\ UNCHANGED <<idem, answer, holder, lapsed>>

\* limit_user(BOOKING).
LimitDone(r) ==
  /\ Runs(r) /\ LeaveThread(r)
  /\ \/ Go(r, "limit", "begin") /\ UNCHANGED answer
     \/ Go(r, "limit", "answered") /\ Say(r, "limited", NoKey)
  /\ UNCHANGED <<idem, holder, lapsed>>

Begin(r) ==
  /\ Runs(r) /\ UNCHANGED <<admissionVars, answer, holder, lapsed>>
  /\ \/ KeyOf(r) = NoKey /\ Go(r, "begin", "work") /\ UNCHANGED idem
     \/ KeyOf(r) # NoKey /\ ClaimKey(KeyOf(r), PayloadOf(r)) /\ Go(r, "begin", "work")
     \/ /\ KeyOf(r) # NoKey /\ idem[KeyOf(r)].state # "none"
        /\ Go(r, "begin", "get") /\ UNCHANGED idem

\* Mutant: a refused repetition gives up the claim of the first request.
LookUpAborts(r) ==
  LET k == asks[r].key  verdict == Verdict(k, PayloadOf(r)) IN
  /\ Runs(r) /\ at[r] = "get"
  /\ \/ verdict = "new" /\ Go(r, "get", "work") /\ lapsed' = lapsed \cup {k}
        /\ UNCHANGED <<answer, threads, idem>>
     \/ verdict # "new" /\ Go(r, "get", "answered") /\ threads' = threads \ {r} /\ Abort(k)
        /\ Say(r, verdict, IF verdict = "replayed" THEN idem[k].booking ELSE NoKey)
        /\ UNCHANGED lapsed
  /\ UNCHANGED <<slots, conns, socket, holder>>

\* begin, when the key is there: a refusal is raised outside the try block of
\* create_booking and aborts nothing.
LookUp(r) ==
  LET k == asks[r].key  verdict == Verdict(k, PayloadOf(r)) IN
  /\ Runs(r) /\ at[r] = "get"
  /\ \/ /\ verdict = "new" /\ Go(r, "get", "work") /\ lapsed' = lapsed \cup {k}
        /\ UNCHANGED <<answer, admissionVars>>
     \/ /\ verdict # "new" /\ Go(r, "get", "answered") /\ LeaveThread(r)
        /\ Say(r, verdict, IF verdict = "replayed" THEN idem[k].booking ELSE NoKey)
        /\ UNCHANGED lapsed
  /\ UNCHANGED <<idem, holder>>

\* _perform_booking commits the booking, or finds the seat taken, or fails.
Perform(r) ==
  LET p == PayloadOf(r) IN
  /\ Runs(r) /\ UNCHANGED <<admissionVars, idem, lapsed>>
  /\ \/ /\ holder[p] = NoKey /\ holder' = [holder EXCEPT ![p] = r]
        /\ Go(r, "work", "store") /\ Say(r, "created", r)
     \/ /\ holder[p] # NoKey /\ UNCHANGED holder
        /\ Go(r, "work", "abort") /\ Say(r, "taken", holder[p])
     \/ Go(r, "work", "abort") /\ Say(r, "error", NoKey) /\ UNCHANGED holder

\* An exception after the commit, in the release of the seat lock or in the
\* reload of the booking, fails the request although the booking stands.
FailLate(r) ==
  /\ Runs(r) /\ Go(r, "store", "abort") /\ Say(r, "error", NoKey)
  /\ lapsed' = lapsed \cup ({KeyOf(r)} \ {NoKey})
  /\ UNCHANGED <<admissionVars, idem, holder>>

Store(r) ==
  /\ Runs(r) /\ Go(r, "store", "answered") /\ LeaveThread(r)
  /\ Complete(KeyOf(r), PayloadOf(r), r)
  /\ UNCHANGED <<answer, holder, lapsed>>

GiveUp(r) ==
  /\ Runs(r) /\ Go(r, "abort", "answered") /\ LeaveThread(r)
  /\ Abort(KeyOf(r))
  /\ UNCHANGED <<answer, holder, lapsed>>

Respond(r) ==
  /\ Go(r, "answered", "done") /\ Leave(r)
  /\ UNCHANGED <<idem, answer, holder, lapsed>>

\* The process dies and the client gets no answer.  A booking it has made but
\* not stored is one its key does not know of.
Die(r) ==
  /\ at[r] \notin {"new", "done"} /\ at' = [at EXCEPT ![r] = "done"] /\ Vanish(r)
  /\ Say(r, "lost", NoKey)
  /\ lapsed' = IF at[r] = "store" THEN lapsed \cup ({KeyOf(r)} \ {NoKey}) ELSE lapsed
  /\ UNCHANGED <<idem, holder>>

\* LOCK_TTL is over: for a request that died, or for one that takes longer,
\* whose key protects it no more.
Working(k) == \E r \in Req : KeyOf(r) = k /\ at[r] \in {"work", "store", "abort"}

Expire(k) ==
  /\ idem[k].state = "processing"
  /\ idem' = [idem EXCEPT ![k] = NoEntry]
  /\ lapsed' = IF Working(k) THEN lapsed \cup {k} ELSE lapsed
  /\ UNCHANGED <<admissionVars, at, answer, holder>>

\* The owner of a booking cancels it.
CancelBooking(p) ==
  /\ holder[p] # NoKey /\ holder' = [holder EXCEPT ![p] = NoKey]
  /\ UNCHANGED <<admissionVars, idem, at, answer, lapsed>>

GetThread(r) ==
  /\ at[r] \in {"auth", "limit", "begin"} /\ TakeThread(r)
  /\ UNCHANGED <<idem, at, answer, holder, lapsed>>

Socket ==
  /\ SocketOpens \/ SocketCloses
  /\ UNCHANGED <<idem, at, answer, holder, lapsed>>

Proceed(r) ==
  \/ Arrive(r) \/ GetThread(r) \/ Query(r) \/ AuthDone(r) \/ LimitDone(r)
  \/ Begin(r) \/ LookUp(r) \/ Perform(r) \/ FailLate(r) \/ Store(r) \/ GiveUp(r) \/ Respond(r)

RequestNext ==
  /\ \/ \E r \in Req : Proceed(r) \/ Die(r)
     \/ \E k \in Key : Expire(k)
     \/ \E p \in Payload : CancelBooking(p)
     \/ Socket
  /\ UNCHANGED asks

RequestSpec == RequestInit /\ [][RequestNext]_vars

\* Every request is sent, threads run, and the event loop serves the queues of
\* the semaphore and of the thread limiter.
FairRequestSpec == RequestSpec /\ \A r \in Req : WF_vars(Proceed(r) /\ UNCHANGED asks)

----------------------------------------------------------------------------
(* Properties                                                              *)

\* A replayed response is that of a booking made under the same key for the
\* same body, whatever expired, was given up or was stored late (begin,
\* complete).
ReplayIsOwnBooking ==
  \A r \in Req : answer[r].kind = "replayed" =>
    LET b == answer[r].booking IN
    b \in Req /\ KeyOf(b) = KeyOf(r) /\ PayloadOf(b) = PayloadOf(r)

\* "Without this, the seat is already booked by the second request and it just
\* gets a 409": a repetition is not refused because of the booking its own
\* key has made, as long as no placeholder vanished under a request and no
\* request failed or died between its commit and its result (create_booking).
NoConflictWithItself ==
  \A r \in Req : answer[r].kind = "taken" /\ KeyOf(r) \in Key \ lapsed =>
    KeyOf(answer[r].booking) # KeyOf(r)

\* Every request is answered and gives back what it holds, however the slots,
\* the threads and the connections are contended (limit_concurrency, get_db).
EveryRequestEnds == \A r \in Req : <>(at[r] = "done")
=============================================================================

------------------------------ MODULE Tickets ------------------------------
(***************************************************************************)
(* Tickets, from the booking to the gate:                                  *)
(* workers/worker.py, job_queue.py, retry_pending_tickets.py, the ticket   *)
(* part of routers/bookings.py and cron.py, and routers/checkin.py.        *)
(*                                                                         *)
(* A runner executes generate_ticket_sync, either for a job of the ARQ     *)
(* queue or for one booking of a cron tick, in the deployment without a    *)
(* worker.  The queue delivers a job at least once.  What goes wrong from  *)
(* outside, an enqueue that fails, an exception, a process that dies, a    *)
(* job delivered again, a lost file, draws on the budget `faults'.         *)
(***************************************************************************)
EXTENDS Naturals, FiniteSets

CONSTANTS
  Booking,      \* names of the bookings that may be made
  Runner,       \* concurrent executions of generate_ticket_sync
  Customer,     \* concurrent requests of customers about their tickets
  MaxScans,     \* bound on the concurrent scans of one ticket
  Deployments,  \* of {"worker", "cron"}: what processes pending tickets
  MaxTries,     \* WorkerSettings.max_tries
  TickLimit,    \* MAX_TICKETS_PER_TICK
  MaxFaults     \* bound on the faults of a behaviour

ASSUME TicketAssumption ==
  /\ IsFiniteSet(Booking) /\ IsFiniteSet(Runner)
  /\ Deployments \subseteq {"worker", "cron"}
  /\ MaxTries \in Nat \ {0} /\ TickLimit \in Nat \ {0} /\ MaxFaults \in Nat
  /\ MaxScans \in Nat

VARIABLES
  rows,        \* the ticket and check-in columns of the bookings table
  disk,        \* per booking: the token printed in the file of its ticket
  queue,       \* jobs in Redis: <<booking, number of the attempt>>
  runs,        \* per runner: where it is and what it has read
  script,      \* the run of retry_pending_tickets.py
  asks,        \* per customer request: the same for the ticket endpoints
  scans,       \* per booking: gates that have read it and are about to update it
  admitted,    \* per booking: how often a gate was told to let its holder in
  deployment,
  faults,
  overlapped   \* history: bookings for which two runs were under way at once

rowVars == <<rows, disk>>
deskVars == <<script, asks>>
gateVars == <<scans, admitted>>
vars == <<rowVars, queue, runs, deskVars, gateVars, deployment, faults, overlapped>>

\* Tokens are random and hence unique.  A token that no row, file or run holds
\* any more stands for any other, so that there are enough of them with two
\* for each booking and one for each run.
NoToken == 0
Token == 1..(2 * Cardinality(Booking) + Cardinality(Runner))

\* "none" is a booking not made yet.
Row == [status: {"none", "confirmed", "cancelled"},
        ticket: {"pending", "ready", "failed"}, token: Token \cup {NoToken},
        checked_in: BOOLEAN]
NoRow == [status |-> "none", ticket |-> "pending", token |-> NoToken,
          checked_in |-> FALSE]

\* attempt 0 is a run of a cron tick, todo what is left of the tick's list.
Run == [pc: {"idle", "next", "read", "save", "commit", "mark"}, booking: Booking \cup {NoToken},
        attempt: 0..MaxTries, token: Token \cup {NoToken}, fresh: BOOLEAN, todo: SUBSET Booking]
Idle == [pc |-> "idle", booking |-> NoToken, attempt |-> 0, token |-> NoToken,
         fresh |-> FALSE, todo |-> {}]

\* todo: bookings still to enqueue; changed: those whose status the commit
\* writes, since an assignment of the value that was loaded writes nothing.
Desk == [pc: {"idle", "commit", "enqueue"}, todo: SUBSET Booking, changed: SUBSET Booking]
NobodyAsks == [pc |-> "idle", todo |-> {}, changed |-> {}]

TicketTypeOK ==
  /\ rows \in [Booking -> Row]
  /\ disk \in [Booking -> Token \cup {NoToken}]
  /\ queue \subseteq Booking \X (1..MaxTries)
  /\ runs \in [Runner -> Run]
  /\ script \in Desk /\ asks \in [Customer -> Desk]
  /\ scans \in [Booking -> 0..MaxScans]
  /\ admitted \in [Booking -> Nat]
  /\ deployment \in Deployments
  /\ faults \in 0..MaxFaults /\ overlapped \subseteq Booking

TicketInit ==
  /\ rows = [b \in Booking |-> NoRow]
  /\ disk = [b \in Booking |-> NoToken]
  /\ queue = {}
  /\ runs = [w \in Runner |-> Idle]
  /\ script = NobodyAsks /\ asks = [c \in Customer |-> NobodyAsks]
  /\ scans = [b \in Booking |-> 0] /\ admitted = [b \in Booking |-> 0]
  /\ deployment \in Deployments
  /\ faults = MaxFaults /\ overlapped = {}

----------------------------------------------------------------------------
(* Bookings and the queue                                                  *)

Fault == faults > 0 /\ faults' = faults - 1

\* enqueue_ticket never raises: when Redis is away the job is just missing.
EnqueueTicket(b) ==
  \/ queue' = queue \cup {<<b, 1>>} /\ UNCHANGED faults
  \/ Fault /\ UNCHANGED queue

\* A handler that commits and then enqueues does so in one step: a process
\* that dies between the two is the enqueue that fails, and an enqueue that is
\* late is a job that waits longer.
Book(b) ==
  /\ rows[b].status = "none"
  /\ rows' = [rows EXCEPT ![b].status = "confirmed"]
  /\ EnqueueTicket(b)
  /\ UNCHANGED <<disk, runs, deskVars, gateVars, deployment, overlapped>>

\* cancel_booking leaves the ticket's columns and file as they are.
Cancel(b) ==
  /\ rows[b].status = "confirmed"
  /\ rows' = [rows EXCEPT ![b].status = "cancelled"]
  /\ UNCHANGED <<disk, queue, runs, deskVars, gateVars, deployment, faults, overlapped>>

FileLost(b) ==
  /\ disk[b] # NoToken /\ disk' = [disk EXCEPT ![b] = NoToken] /\ Fault
  /\ UNCHANGED <<rows, queue, runs, deskVars, gateVars, deployment, overlapped>>

----------------------------------------------------------------------------
(* generate_ticket_sync, for ARQ's generate_ticket or for a cron tick      *)

At(w, label) == runs[w].pc = label

\* The end of one run: a job is over, a tick goes on with its list.
Ended(run) == IF run.todo = {} THEN Idle ELSE [Idle EXCEPT !.pc = "next", !.todo = run.todo]

\* ARQ hands out a job; it may hand it out again, when it takes the execution
\* for dead or is shut down while the thread still runs.
StartJob(w) ==
  /\ deployment = "worker" /\ At(w, "idle")
  /\ \E job \in queue :
       /\ runs' = [runs EXCEPT ![w] = [Idle EXCEPT !.pc = "read", !.booking = job[1],
                                                   !.attempt = job[2]]]
       /\ \/ queue' = queue \ {job} /\ UNCHANGED faults
          \/ Fault /\ UNCHANGED queue
  /\ UNCHANGED <<rowVars, deskVars, gateVars, deployment, overlapped>>

\* Mutant: only what never failed is taken up again.
UnfinishedPending == {b \in Booking : rows[b].status = "confirmed" /\ rows[b].ticket = "pending"}

\* The tick takes up to TickLimit unfinished tickets, in no given order.
Unfinished == {b \in Booking : rows[b].status = "confirmed" /\ rows[b].ticket # "ready"}
Batch == {todo \in SUBSET Unfinished :
            /\ Cardinality(todo) <= TickLimit
            /\ todo = Unfinished \/ Cardinality(todo) = TickLimit}

TickRead(w) ==
  /\ deployment = "cron" /\ At(w, "idle") /\ Unfinished # {}
  /\ \E todo \in Batch : runs' = [runs EXCEPT ![w] = [Idle EXCEPT !.pc = "next", !.todo = todo]]
  /\ UNCHANGED <<rowVars, queue, deskVars, gateVars, deployment, faults, overlapped>>

TickNext(w) ==
  /\ At(w, "next")
  /\ \E b \in runs[w].todo :
       runs' = [runs EXCEPT ![w].pc = "read", ![w].booking = b, ![w].todo = @ \ {b}]
  /\ UNCHANGED <<rowVars, queue, deskVars, gateVars, deployment, faults, overlapped>>

\* A ticket that is ready is left alone; otherwise its token is kept if it
\* has one.  Nothing else about the booking is looked at.
Held == {rows[b].token : b \in Booking} \cup {disk[b] : b \in Booking} \cup {runs[w].token : w \in Runner}
NewToken == CHOOSE t \in Token : t \notin Held

\* Mutant: every run draws a token.
PrintedAnew(b) == NewToken

Printed(b) == IF rows[b].token # NoToken THEN rows[b].token ELSE NewToken
Skips(b) == rows[b].ticket = "ready" /\ rows[b].token # NoToken

GenerateRead(w) ==
  LET b == runs[w].booking IN
  /\ At(w, "read")
  /\ \/ /\ Skips(b)
        /\ runs' = [runs EXCEPT ![w] = Ended(@)]
        /\ UNCHANGED overlapped
     \/ /\ ~Skips(b)
        /\ runs' = [runs EXCEPT ![w].pc = "save", ![w].token = Printed(b),
                                ![w].fresh = Printed(b) # rows[b].token]
        /\ overlapped' = IF \E v \in Runner \ {w} :
                              runs[v].booking = b /\ runs[v].pc \in {"save", "commit"}
                         THEN overlapped \cup {b} ELSE overlapped
  /\ UNCHANGED <<rows, disk, queue, deskVars, gateVars, deployment, faults>>

\* Mutant: a file that is there is left alone.
SaveTicketOnce(w) ==
  /\ At(w, "save")
  /\ disk' = [disk EXCEPT ![runs[w].booking] = IF @ = NoToken THEN runs[w].token ELSE @]
  /\ runs' = [runs EXCEPT ![w].pc = "commit"]
  /\ UNCHANGED <<rows, queue, deskVars, gateVars, deployment, faults, overlapped>>

\* The e-mail that follows in the code is a text in the outbox of its own.
SaveTicket(w) ==
  /\ At(w, "save")
  /\ disk' = [disk EXCEPT ![runs[w].booking] = runs[w].token]
  /\ runs' = [runs EXCEPT ![w].pc = "commit"]
  /\ UNCHANGED <<rows, queue, deskVars, gateVars, deployment, faults, overlapped>>

\* The status was loaded unfinished and is written; the token is written only
\* if none was loaded.
GenerateCommit(w) ==
  LET b == runs[w].booking IN
  /\ At(w, "commit")
  /\ rows' = [rows EXCEPT ![b].ticket = "ready",
                          ![b].token = IF runs[w].fresh THEN runs[w].token ELSE @]
  /\ runs' = [runs EXCEPT ![w] = Ended(@)]
  /\ UNCHANGED <<disk, queue, deskVars, gateVars, deployment, faults, overlapped>>

\* An exception.  A tick logs it.  ARQ is told to run the job again, which it
\* may or may not do; the last attempt marks the failure.
GenerateFails(w) ==
  LET run == runs[w] IN
  /\ run.pc \in {"read", "save", "commit"} /\ Fault
  /\ \/ run.attempt = 0 /\ runs' = [runs EXCEPT ![w] = Ended(@)] /\ UNCHANGED queue
     \/ /\ run.attempt \in 1..(MaxTries - 1)
        /\ runs' = [runs EXCEPT ![w] = Idle]
        /\ queue' \in {queue, queue \cup {<<run.booking, run.attempt + 1>>}}
     \/ /\ run.attempt = MaxTries /\ UNCHANGED queue
        /\ runs' = [runs EXCEPT ![w] = [Idle EXCEPT !.pc = "mark", !.booking = run.booking,
                                                     !.attempt = MaxTries]]
  /\ UNCHANGED <<rowVars, deskVars, gateVars, deployment, overlapped>>

\* _mark_failed reads the row anew and does not ask whether the ticket has
\* become ready since.
MarkFailed(w) ==
  LET b == runs[w].booking IN
  /\ At(w, "mark")
  /\ rows' = [rows EXCEPT ![b].ticket = "failed"]
  /\ runs' = [runs EXCEPT ![w] = Idle]
  /\ UNCHANGED <<disk, queue, deskVars, gateVars, deployment, faults, overlapped>>

\* The process dies.  ARQ delivers the job again, up to max_tries times; a
\* tick is lost with the rest of its list.
RunnerDies(w) ==
  LET run == runs[w] IN
  /\ run.pc # "idle" /\ Fault
  /\ runs' = [runs EXCEPT ![w] = Idle]
  /\ queue' = IF run.attempt \in 1..(MaxTries - 1)
              THEN queue \cup {<<run.booking, run.attempt + 1>>} ELSE queue
  /\ UNCHANGED <<rowVars, deskVars, gateVars, deployment, overlapped>>

----------------------------------------------------------------------------
(* retry_pending_tickets.py                                                *)

Failed(B) == {b \in B : rows[b].ticket = "failed"}

\* What a commit that sets the status of the bookings B to pending writes.
Repended(B) ==
  [b \in Booking |-> IF b \in B THEN [rows[b] EXCEPT !.ticket = "pending"] ELSE rows[b]]

\* A failed ticket is taken up at once, a pending one when its booking is two
\* minutes old, which may be now or not.
ScriptRead ==
  /\ deployment = "worker" /\ script.pc = "idle"
  /\ \E stuck \in SUBSET Unfinished :
       /\ stuck # {} /\ Failed(Unfinished) \subseteq stuck
       /\ script' = [pc |-> "enqueue", todo |-> stuck, changed |-> Failed(stuck)]
  /\ UNCHANGED <<rowVars, queue, runs, asks, gateVars, deployment, faults, overlapped>>

\* The jobs are enqueued one by one, before the commit of all of them.
ScriptEnqueue ==
  /\ script.pc = "enqueue"
  /\ \E b \in script.todo :
       /\ EnqueueTicket(b)
       /\ script' = [script EXCEPT !.todo = @ \ {b},
                                   !.pc = IF script.todo = {b} THEN "commit" ELSE "enqueue"]
  /\ UNCHANGED <<rowVars, runs, asks, gateVars, deployment, overlapped>>

ScriptCommit ==
  /\ script.pc = "commit"
  /\ rows' = Repended(script.changed)
  /\ script' = NobodyAsks
  /\ UNCHANGED <<disk, queue, runs, asks, gateVars, deployment, faults, overlapped>>

ScriptDies ==
  /\ script.pc # "idle" /\ script' = NobodyAsks /\ Fault
  /\ UNCHANGED <<rowVars, queue, runs, asks, gateVars, deployment, overlapped>>

----------------------------------------------------------------------------
(* GET /bookings/{id}/ticket and POST /bookings/{id}/ticket/retry          *)

\* A download of a ready ticket whose file is missing sends it back to the
\* queue; so does a retry of a ticket that is not ready, of a cancelled
\* booking too.
Download(b) == rows[b].status = "confirmed" /\ rows[b].ticket = "ready" /\ disk[b] = NoToken
Retry(b) == rows[b].status # "none" /\ rows[b].ticket # "ready"

AskRead(c, b) ==
  /\ asks[c] = NobodyAsks /\ (Download(b) \/ Retry(b))
  /\ asks' = [asks EXCEPT ![c] = [pc |-> "commit", todo |-> {b},
                changed |-> IF rows[b].ticket = "pending" THEN {} ELSE {b}]]
  /\ UNCHANGED <<rowVars, queue, runs, script, gateVars, deployment, faults, overlapped>>

AskCommit(c) ==
  /\ asks[c].pc = "commit"
  /\ rows' = Repended(asks[c].changed)
  /\ \A b \in asks[c].todo : EnqueueTicket(b)
  /\ asks' = [asks EXCEPT ![c] = NobodyAsks]
  /\ UNCHANGED <<disk, runs, script, gateVars, deployment, overlapped>>

----------------------------------------------------------------------------
(* POST /checkin                                                           *)

\* A ticket shown at the gate carries a token that was drawn at some time; a
\* scan that is refused here changes nothing.
ScanRead(t) ==
  /\ \E b \in Booking :
       /\ rows[b].token = t /\ rows[b].status = "confirmed" /\ rows[b].ticket = "ready"
       /\ scans[b] < MaxScans /\ scans' = [scans EXCEPT ![b] = @ + 1]
  /\ UNCHANGED <<rowVars, queue, runs, deskVars, admitted, deployment, faults, overlapped>>

\* Mutant: the update trusts the row that was read.
NotYetInWhenRead(b) == TRUE

\* The update asks only whether somebody has entered already.
NotYetIn(b) == ~rows[b].checked_in

ScanUpdate(b) ==
  /\ scans[b] > 0 /\ scans' = [scans EXCEPT ![b] = @ - 1]
  /\ IF NotYetIn(b)
     THEN /\ rows' = [rows EXCEPT ![b].checked_in = TRUE]
          /\ admitted' = [admitted EXCEPT ![b] = @ + 1]
     ELSE UNCHANGED <<rows, admitted>>
  /\ UNCHANGED <<disk, queue, runs, deskVars, deployment, faults, overlapped>>

----------------------------------------------------------------------------

RunnerNext(w) ==
  \/ StartJob(w) \/ TickRead(w) \/ TickNext(w)
  \/ GenerateRead(w) \/ SaveTicket(w) \/ GenerateCommit(w) \/ GenerateFails(w) \/ MarkFailed(w)

TicketNext ==
  \/ \E b \in Booking : Book(b) \/ Cancel(b) \/ FileLost(b)
  \/ \E w \in Runner : RunnerNext(w) \/ RunnerDies(w)
  \/ ScriptRead \/ ScriptEnqueue \/ ScriptCommit \/ ScriptDies
  \/ \E c \in Customer : AskCommit(c) \/ \E b \in Booking : AskRead(c, b)
  \/ \E t \in Token : ScanRead(t)
  \/ \E b \in Booking : ScanUpdate(b)

TicketSpec == TicketInit /\ [][TicketNext]_vars

\* The worker takes jobs and finishes them, the scheduler calls the tick or
\* starts the script again and again, and every booking gets old.  Nothing is
\* asked of customers, organizers or gates.
TicketFairness ==
  /\ \A w \in Runner : WF_vars(RunnerNext(w))
  /\ \A b \in Booking : WF_vars(ScriptRead /\ b \in script'.todo)
  /\ WF_vars(ScriptEnqueue \/ ScriptCommit)

FairTicketSpec == TicketSpec /\ TicketFairness

----------------------------------------------------------------------------
(* Properties                                                              *)

\* One ticket, one entry: however many gates scan it at once, and whatever
\* happens to its booking or its token meanwhile, at most one of them is told
\* to let the holder in, and then the row says so (check_in).
AdmittedOnce ==
  \A b \in Booking : admitted[b] <= 1 /\ (admitted[b] = 1 => rows[b].checked_in)

\* Jobs may run several times, be retried, fail and be queued again without
\* invalidating a ticket that was issued, as long as no two runs for the
\* booking overlap (generate_ticket_sync).
IssuedTokenStays ==
  [][\A b \in Booking \ overlapped :
       rows[b].token # NoToken => rows'[b].token = rows[b].token]_vars

\* The file a customer downloads for a ready ticket carries the token the
\* gate will look up, as long as no two runs for the booking overlapped:
\* a run that dies after saving its file does no harm (generate_ticket_sync).
ReadyFileScans ==
  \A b \in Booking \ overlapped :
    rows[b].ticket = "ready" => disk[b] \in {rows[b].token, NoToken}

\* Once faults are over every confirmed booking gets its ticket, although the
\* first enqueue may have been lost: by the script and the worker in one
\* deployment, by the tick in the other.
EveryTicketIssued ==
  \A b \in Booking : rows[b].status = "confirmed" ~> rows[b].ticket = "ready" \/ rows[b].status # "confirmed"
=============================================================================

--------------------------- MODULE TicketsProofs ----------------------------
(***************************************************************************)
(* Theorems about Tickets, for any bookings, runners, customers and scans, *)
(* either deployment and any faults.                                       *)
(***************************************************************************)
EXTENDS Tickets, FiniteSetTheorems, TLAPS

\* A runner has a booking from its read to its end, and a token from there to
\* its commit; only a tick looks for its next one.
RunKnown(run) ==
  /\ run \in Run
  /\ run.pc \in {"read", "save", "commit", "mark"} => run.booking \in Booking
  /\ run.pc \in {"save", "commit"} <=> run.token # NoToken
  /\ run.pc = "next" => run.attempt = 0

\* A customer asks for one ticket.
DeskInv ==
  \A c \in Customer : asks[c].pc = "commit" => \E b \in Booking : asks[c].todo = {b}

KnownInv == TicketTypeOK /\ (\A w \in Runner : RunKnown(runs[w])) /\ DeskInv

----------------------------------------------------------------------------
(* Tokens.                                                                 *)

\* A function has no more values than arguments.
LEMMA Values ==
  ASSUME NEW S, IsFiniteSet(S), NEW f, f = [x \in S |-> f[x]]
  PROVE  LET V == {f[x] : x \in S} IN IsFiniteSet(V) /\ Cardinality(V) <= Cardinality(S)
<1> DEFINE V == {f[x] : x \in S}
<1>1. f \in Surjection(S, V)
  BY DEF Surjection
<1> HIDE DEF V
<1>2. IsFiniteSet(V) /\ Cardinality(V) <= Cardinality(S)
  BY <1>1, FS_Surjection
<1> QED
  BY <1>2 DEF V

\* There are enough tokens for a run that has none to draw one.
LEMMA TokenLeft ==
  ASSUME KnownInv, NEW w \in Runner, At(w, "read")
  PROVE  NewToken \in Token
<1> DEFINE nB == Cardinality(Booking)
           nR == Cardinality(Runner)
           others == Runner \ {w}
           A == {rows[b].token : b \in Booking}
           D == {disk[b] : b \in Booking}
           R == {runs[v].token : v \in others}
<1>1. /\ IsFiniteSet(Booking) /\ nB \in Nat
      /\ IsFiniteSet(others) /\ nR \in Nat /\ Cardinality(others) = nR - 1
  BY TicketAssumption, FS_CardinalityType, FS_RemoveElement DEF TicketAssumption
<1>2. IsFiniteSet(A) /\ Cardinality(A) <= nB
  <2> DEFINE f == [b \in Booking |-> rows[b].token]
  <2>1. A = {f[b] : b \in Booking} /\ f = [b \in Booking |-> f[b]]
    OBVIOUS
  <2> HIDE DEF f
  <2> QED
    BY <1>1, <2>1, Values
<1>3. IsFiniteSet(D) /\ Cardinality(D) <= nB
  <2>1. disk = [b \in Booking |-> disk[b]]
    BY DEF KnownInv, TicketTypeOK
  <2> QED
    BY <1>1, <2>1, Values
<1>4. IsFiniteSet(R) /\ Cardinality(R) <= nR - 1
  <2> DEFINE f == [v \in others |-> runs[v].token]
  <2>1. R = {f[v] : v \in others} /\ f = [v \in others |-> f[v]]
    OBVIOUS
  <2> HIDE DEF f
  <2> QED
    BY <1>1, <2>1, Values
<1>5. runs[w].token = NoToken
  BY DEF KnownInv, RunKnown, At
<1>6. Held \subseteq (A \cup D \cup R) \cup {NoToken}
  BY <1>5 DEF Held
<1> HIDE DEF A, D, R
<1>7. IsFiniteSet(A \cup D) /\ Cardinality(A \cup D) <= 2 * nB
  <2>1. /\ IsFiniteSet(A \cap D) /\ Cardinality(A \cap D) \in Nat
        /\ Cardinality(A) \in Nat /\ Cardinality(D) \in Nat
    BY <1>2, <1>3, FS_Intersection, FS_CardinalityType
  <2>2. /\ IsFiniteSet(A \cup D)
        /\ Cardinality(A \cup D) = Cardinality(A) + Cardinality(D) - Cardinality(A \cap D)
    BY <1>2, <1>3, FS_Union
  <2> QED
    BY <1>1, <1>2, <1>3, <2>1, <2>2
<1>8. IsFiniteSet(A \cup D \cup R) /\ Cardinality(A \cup D \cup R) <= 2 * nB + nR - 1
  <2> DEFINE AD == A \cup D
  <2>0. IsFiniteSet(AD) /\ Cardinality(AD) <= 2 * nB
    BY <1>7
  <2> HIDE DEF AD
  <2>1. /\ IsFiniteSet(AD \cap R) /\ Cardinality(AD \cap R) \in Nat
        /\ Cardinality(AD) \in Nat /\ Cardinality(R) \in Nat
    BY <1>4, <2>0, FS_Intersection, FS_CardinalityType
  <2>2. /\ IsFiniteSet(AD \cup R)
        /\ Cardinality(AD \cup R) = Cardinality(AD) + Cardinality(R) - Cardinality(AD \cap R)
    BY <1>4, <2>0, FS_Union
  <2>3. Cardinality(AD \cup R) <= 2 * nB + nR - 1
    BY <1>1, <1>4, <2>0, <2>1, <2>2
  <2> QED
    BY <2>2, <2>3 DEF AD
<1>9. Cardinality(Token) = 2 * nB + nR
  <2>1. 2 * nB + nR \in Nat
    BY <1>1
  <2> QED
    BY <2>1, FS_Interval DEF Token
<1>10. \E t \in Token : t \notin Held
  <2>1. SUFFICES ASSUME Token \subseteq Held PROVE FALSE
    OBVIOUS
  <2>2. Token \subseteq A \cup D \cup R
    BY <1>6, <2>1 DEF Token, NoToken
  <2>3. Cardinality(Token) <= Cardinality(A \cup D \cup R)
    BY <1>8, <2>2, FS_Subset
  <2>4. Cardinality(A \cup D \cup R) \in Nat
    BY <1>8, FS_CardinalityType
  <2> QED
    BY <1>1, <1>8, <1>9, <2>3, <2>4
<1> QED
  BY <1>10 DEF NewToken

LEMMA PrintedToken ==
  ASSUME KnownInv, NEW w \in Runner, At(w, "read")
  PROVE  LET b == runs[w].booking IN
         /\ b \in Booking /\ Printed(b) \in Token
         /\ rows[b].token # NoToken => Printed(b) = rows[b].token
         /\ rows[b].token = NoToken => Printed(b) # NoToken
<1>1. runs[w].booking \in Booking /\ rows \in [Booking -> Row]
  BY DEF KnownInv, RunKnown, At, TicketTypeOK
<1>2. NewToken \in Token /\ NoToken \notin Token
  BY TokenLeft DEF Token, NoToken
<1> QED
  BY <1>1, <1>2 DEF Printed, Row

----------------------------------------------------------------------------
(* Types.                                                                  *)

\* Runs that start, or end.
LEMMA Blank ==
  /\ RunKnown(Idle)
  /\ \A b \in Booking : \A n \in 0..MaxTries : \A label \in {"read", "mark"} :
       RunKnown([Idle EXCEPT !.pc = label, !.booking = b, !.attempt = n])
  /\ \A todo \in SUBSET Booking : RunKnown([Idle EXCEPT !.pc = "next", !.todo = todo])
<1>0. 0 \in 0..MaxTries
  BY TicketAssumption DEF TicketAssumption
<1>1. RunKnown(Idle)
  BY <1>0 DEF RunKnown, Idle, Run, NoToken
<1>2. ASSUME NEW b \in Booking, NEW n \in 0..MaxTries, NEW label \in {"read", "mark"}
      PROVE  RunKnown([Idle EXCEPT !.pc = label, !.booking = b, !.attempt = n])
  BY <1>0 DEF RunKnown, Idle, Run, NoToken
<1>3. ASSUME NEW todo \in SUBSET Booking
      PROVE  RunKnown([Idle EXCEPT !.pc = "next", !.todo = todo])
  BY <1>0 DEF RunKnown, Idle, Run, NoToken
<1> QED
  BY <1>1, <1>2, <1>3

LEMMA KnownInit == TicketInit => KnownInv
<1> SUFFICES ASSUME TicketInit PROVE KnownInv
  OBVIOUS
<1>1. NoRow \in Row /\ RunKnown(Idle) /\ NobodyAsks \in Desk
  BY Blank DEF NoRow, Row, NoToken, NobodyAsks, Desk
<1>2. TicketTypeOK
  BY <1>1, TicketAssumption DEF TicketAssumption, TicketInit, TicketTypeOK, RunKnown, NoToken
<1>3. DeskInv
  BY DEF TicketInit, DeskInv, NobodyAsks
<1> QED
  BY <1>1, <1>2, <1>3 DEF KnownInv, TicketInit

\* A step of a runner.
LEMMA KnownRun ==
  ASSUME KnownInv, NEW w \in Runner, NEW run, RunKnown(run),
         runs' = [runs EXCEPT ![w] = run],
         rows' \in [Booking -> Row], disk' \in [Booking -> Token \cup {NoToken}],
         queue' \subseteq Booking \X (1..MaxTries), faults' \in 0..MaxFaults,
         overlapped' \subseteq Booking, UNCHANGED <<deskVars, gateVars, deployment>>
  PROVE  KnownInv'
<1>1. \A v \in Runner : runs'[v] = IF v = w THEN run ELSE runs[v]
  BY DEF KnownInv, TicketTypeOK
<1>2. runs' \in [Runner -> Run] /\ \A v \in Runner : RunKnown(runs'[v])
  BY <1>1 DEF KnownInv, TicketTypeOK, RunKnown
<1>3. UNCHANGED <<script, asks, scans, admitted, deployment>>
  BY DEF deskVars, gateVars
<1>4. TicketTypeOK'
  BY <1>2, <1>3 DEF KnownInv, TicketTypeOK
<1> QED
  BY <1>2, <1>3, <1>4 DEF KnownInv, DeskInv

\* A step of anybody else.
LEMMA KnownElse ==
  ASSUME KnownInv, runs' = runs,
         rows' \in [Booking -> Row], disk' \in [Booking -> Token \cup {NoToken}],
         queue' \subseteq Booking \X (1..MaxTries), faults' \in 0..MaxFaults,
         script' \in Desk, asks' \in [Customer -> Desk], DeskInv',
         scans' \in [Booking -> 0..MaxScans], admitted' \in [Booking -> Nat],
         deployment' = deployment, overlapped' = overlapped
  PROVE  KnownInv'
BY DEF KnownInv, TicketTypeOK

\* What is added to the queue, and what a fault takes.
LEMMA Enqueued ==
  ASSUME KnownInv, NEW b \in Booking, NEW n \in 1..MaxTries
  PROVE  /\ queue \cup {<<b, n>>} \subseteq Booking \X (1..MaxTries)
         /\ Fault => faults' \in 0..MaxFaults
         /\ EnqueueTicket(b) => /\ queue' \subseteq Booking \X (1..MaxTries)
                               /\ faults' \in 0..MaxFaults
BY TicketAssumption DEF TicketAssumption, KnownInv, TicketTypeOK, Fault, EnqueueTicket

LEMMA Ends ==
  ASSUME KnownInv, NEW w \in Runner
  PROVE  RunKnown(Idle) /\ RunKnown(Ended(runs[w])) /\ Ended(runs[w]).pc \in {"idle", "next"}
<1>1. RunKnown(Idle) /\ Idle.pc = "idle"
  BY Blank DEF Idle
<1>2. runs[w].todo \subseteq Booking
  BY DEF KnownInv, RunKnown, Run
<1> DEFINE next == [Idle EXCEPT !.pc = "next", !.todo = runs[w].todo]
<1>3. RunKnown(next) /\ next.pc = "next"
  BY <1>2, Blank DEF Idle
<1> HIDE DEF next
<1>4. Ended(runs[w]) = Idle \/ Ended(runs[w]) = next
  BY DEF Ended, next
<1> QED
  BY <1>1, <1>3, <1>4

LEMMA KnownTake ==
  ASSUME KnownInv, NEW w \in Runner, StartJob(w) \/ TickRead(w) \/ TickNext(w)
  PROVE  KnownInv'
<1> USE DEF rowVars, deskVars, gateVars
<1>0. /\ rows \in [Booking -> Row] /\ disk \in [Booking -> Token \cup {NoToken}]
      /\ queue \subseteq Booking \X (1..MaxTries) /\ faults \in 0..MaxFaults
      /\ overlapped \subseteq Booking /\ RunKnown(runs[w]) /\ MaxTries \in Nat \ {0}
      /\ MaxFaults \in Nat
  BY TicketAssumption DEF TicketAssumption, KnownInv, TicketTypeOK
<1>1. CASE StartJob(w)
  <2>1. PICK job \in queue :
          /\ runs' = [runs EXCEPT ![w] = [Idle EXCEPT !.pc = "read", !.booking = job[1],
                                                      !.attempt = job[2]]]
          /\ queue' \in {queue \ {job}, queue} /\ (UNCHANGED faults \/ Fault)
    BY <1>1 DEF StartJob
  <2>2. job[1] \in Booking /\ job[2] \in 1..MaxTries
    BY <1>0, <2>1
  <2>3. RunKnown([Idle EXCEPT !.pc = "read", !.booking = job[1], !.attempt = job[2]])
    <3>1. job[2] \in 0..MaxTries
      BY <1>0, <2>2
    <3> QED
      BY <2>2, <3>1, Blank
  <2>4. queue' \subseteq Booking \X (1..MaxTries) /\ faults' \in 0..MaxFaults
    BY <1>0, <2>1 DEF Fault
  <2>5. UNCHANGED <<rowVars, deskVars, gateVars, deployment, overlapped>>
    BY <1>1 DEF StartJob
  <2> QED
    BY <1>0, <2>1, <2>3, <2>4, <2>5, KnownRun
<1>2. CASE TickRead(w)
  <2>1. PICK todo \in Batch : runs' = [runs EXCEPT ![w] = [Idle EXCEPT !.pc = "next", !.todo = todo]]
    BY <1>2 DEF TickRead
  <2>2. todo \subseteq Booking
    BY DEF Batch, Unfinished
  <2>3. RunKnown([Idle EXCEPT !.pc = "next", !.todo = todo])
    BY <2>2, Blank
  <2> QED
    BY <1>0, <1>2, <2>1, <2>3, KnownRun DEF TickRead
<1>3. CASE TickNext(w)
  <2>1. PICK b \in runs[w].todo :
          runs' = [runs EXCEPT ![w] = [runs[w] EXCEPT !.pc = "read", !.booking = b,
                                                      !.todo = runs[w].todo \ {b}]]
    BY <1>0, <1>3 DEF TickNext
  <2>2. b \in Booking
    BY <1>0 DEF RunKnown, Run
  <2>3. RunKnown([runs[w] EXCEPT !.pc = "read", !.booking = b, !.todo = runs[w].todo \ {b}])
    BY <1>0, <1>3, <2>2 DEF TickNext, At, RunKnown, Run
  <2> QED
    BY <1>0, <1>3, <2>1, <2>3, KnownRun DEF TickNext
<1> QED
  BY <1>1, <1>2, <1>3

LEMMA KnownGenerate ==
  ASSUME KnownInv, NEW w \in Runner,
         GenerateRead(w) \/ SaveTicket(w) \/ GenerateCommit(w) \/ MarkFailed(w)
  PROVE  KnownInv'
<1> USE DEF rowVars, deskVars, gateVars
<1> DEFINE b == runs[w].booking
<1>0. /\ rows \in [Booking -> Row] /\ disk \in [Booking -> Token \cup {NoToken}]
      /\ queue \subseteq Booking \X (1..MaxTries) /\ faults \in 0..MaxFaults
      /\ overlapped \subseteq Booking /\ RunKnown(runs[w])
  BY DEF KnownInv, TicketTypeOK
<1>1. CASE GenerateRead(w)
  <2> DEFINE fresh == Printed(b) # rows[b].token
             run == [runs[w] EXCEPT !.pc = "save", !.token = Printed(b), !.fresh = fresh]
  <2>1. b \in Booking /\ Printed(b) \in Token
    BY <1>1, PrintedToken DEF GenerateRead
  <2>2. RunKnown(run)
    <3>1. fresh \in BOOLEAN /\ NoToken \notin Token
      BY DEF Token, NoToken
    <3> HIDE DEF fresh
    <3> QED
      BY <1>0, <2>1, <3>1 DEF RunKnown, Run
  <2>3. runs' = [runs EXCEPT ![w] = run] \/ runs' = [runs EXCEPT ![w] = Ended(runs[w])]
    BY <1>1 DEF GenerateRead
  <2> HIDE DEF run
  <2>4. overlapped' \subseteq Booking
    BY <1>0, <1>1, <2>1 DEF GenerateRead
  <2> QED
    BY <1>0, <1>1, <2>2, <2>3, <2>4, Ends, KnownRun DEF GenerateRead
<1>2. CASE SaveTicket(w)
  <2> DEFINE run == [runs[w] EXCEPT !.pc = "commit"]
  <2>1. RunKnown(run)
    BY <1>0, <1>2 DEF RunKnown, Run, SaveTicket, At
  <2>2. runs' = [runs EXCEPT ![w] = run]
    BY <1>2 DEF SaveTicket
  <2> HIDE DEF run
  <2>3. disk' \in [Booking -> Token \cup {NoToken}]
    BY <1>0, <1>2 DEF SaveTicket, RunKnown, Run
  <2> QED
    BY <1>0, <1>2, <2>1, <2>2, <2>3, KnownRun DEF SaveTicket
<1>3. CASE GenerateCommit(w) \/ MarkFailed(w)
  <2>1. rows' \in [Booking -> Row]
    BY <1>0, <1>3 DEF GenerateCommit, MarkFailed, RunKnown, Run, Row
  <2>2. runs' = [runs EXCEPT ![w] = Idle] \/ runs' = [runs EXCEPT ![w] = Ended(runs[w])]
    BY <1>3 DEF GenerateCommit, MarkFailed
  <2> QED
    BY <1>0, <1>3, <2>1, <2>2, Ends, KnownRun DEF GenerateCommit, MarkFailed
<1> QED
  BY <1>1, <1>2, <1>3

LEMMA KnownFails ==
  ASSUME KnownInv, NEW w \in Runner, GenerateFails(w) \/ RunnerDies(w)
  PROVE  KnownInv'
<1> USE DEF rowVars, deskVars, gateVars
<1> DEFINE run == runs[w]
           mark == [Idle EXCEPT !.pc = "mark", !.booking = run.booking, !.attempt = MaxTries]
<1>0. /\ rows \in [Booking -> Row] /\ disk \in [Booking -> Token \cup {NoToken}]
      /\ queue \subseteq Booking \X (1..MaxTries) /\ faults' \in 0..MaxFaults
      /\ overlapped \subseteq Booking /\ RunKnown(run) /\ MaxTries \in Nat \ {0}
  BY TicketAssumption
  DEF TicketAssumption, KnownInv, TicketTypeOK, GenerateFails, RunnerDies, Fault
<1>1. UNCHANGED <<rowVars, deskVars, gateVars, deployment, overlapped>>
  BY DEF GenerateFails, RunnerDies
<1>2. CASE GenerateFails(w)
  <2>1. run.booking \in Booking
    BY <1>0, <1>2 DEF GenerateFails, RunKnown
  <2>2. RunKnown(mark)
    <3>1. MaxTries \in 0..MaxTries
      BY <1>0
    <3> QED
      BY <2>1, <3>1, Blank
  <2>3. \/ runs' = [runs EXCEPT ![w] = mark] \/ runs' = [runs EXCEPT ![w] = Idle]
        \/ runs' = [runs EXCEPT ![w] = Ended(run)]
    BY <1>2 DEF GenerateFails
  <2>4. queue' \subseteq Booking \X (1..MaxTries)
    BY <1>0, <1>2, <2>1 DEF GenerateFails
  <2> HIDE DEF mark
  <2> QED
    BY <1>0, <1>1, <2>2, <2>3, <2>4, Ends, KnownRun
<1>3. CASE RunnerDies(w)
  <2>1. queue' = queue \/ \E n \in 1..MaxTries : queue' = queue \cup {<<run.booking, n>>} /\ run.attempt # 0
    BY <1>0, <1>3 DEF RunnerDies
  <2>2. run.attempt # 0 /\ run.pc # "idle" => run.booking \in Booking
    BY <1>0 DEF RunKnown, Run
  <2>3. queue' \subseteq Booking \X (1..MaxTries)
    BY <1>0, <1>3, <2>1, <2>2 DEF RunnerDies
  <2>4. runs' = [runs EXCEPT ![w] = Idle]
    BY <1>3 DEF RunnerDies
  <2> QED
    BY <1>0, <1>1, <2>3, <2>4, Ends, KnownRun
<1> QED
  BY <1>2, <1>3

LEMMA KnownRows ==
  ASSUME KnownInv
  PROVE  /\ \A b \in Booking : Book(b) \/ Cancel(b) \/ FileLost(b) => KnownInv'
         /\ \A B \in SUBSET Booking : Repended(B) \in [Booking -> Row]
<1> USE DEF rowVars, deskVars, gateVars
<1>0. /\ rows \in [Booking -> Row] /\ disk \in [Booking -> Token \cup {NoToken}]
      /\ queue \subseteq Booking \X (1..MaxTries) /\ faults \in 0..MaxFaults
      /\ script \in Desk /\ asks \in [Customer -> Desk]
      /\ scans \in [Booking -> 0..MaxScans] /\ admitted \in [Booking -> Nat]
      /\ DeskInv /\ 1 \in 1..MaxTries
  BY TicketAssumption DEF TicketAssumption, KnownInv, TicketTypeOK
<1>1. ASSUME NEW b \in Booking, Book(b) \/ Cancel(b) \/ FileLost(b) PROVE KnownInv'
  <2>1. rows' \in [Booking -> Row]
    BY <1>0, <1>1 DEF Book, Cancel, FileLost, Row
  <2>2. disk' \in [Booking -> Token \cup {NoToken}]
    BY <1>0, <1>1 DEF Book, Cancel, FileLost
  <2>3. queue' \subseteq Booking \X (1..MaxTries) /\ faults' \in 0..MaxFaults
    BY <1>0, <1>1, Enqueued DEF Book, Cancel, FileLost
  <2>4. UNCHANGED <<runs, deskVars, gateVars, deployment, overlapped>>
    BY <1>1 DEF Book, Cancel, FileLost
  <2> QED
    BY <1>0, <2>1, <2>2, <2>3, <2>4, KnownElse DEF DeskInv
<1>2. ASSUME NEW B \in SUBSET Booking PROVE Repended(B) \in [Booking -> Row]
  BY <1>0 DEF Repended, Row
<1> QED
  BY <1>1, <1>2

LEMMA KnownDesk ==
  ASSUME KnownInv,
         \/ ScriptRead \/ ScriptEnqueue \/ ScriptCommit \/ ScriptDies
         \/ \E c \in Customer : AskCommit(c) \/ \E b \in Booking : AskRead(c, b)
  PROVE  KnownInv'
<1> USE DEF rowVars, gateVars
<1>0. /\ rows \in [Booking -> Row] /\ disk \in [Booking -> Token \cup {NoToken}]
      /\ queue \subseteq Booking \X (1..MaxTries) /\ faults \in 0..MaxFaults
      /\ script \in Desk /\ asks \in [Customer -> Desk]
      /\ scans \in [Booking -> 0..MaxScans] /\ admitted \in [Booking -> Nat]
      /\ DeskInv /\ 1 \in 1..MaxTries /\ NobodyAsks \in Desk /\ MaxFaults \in Nat
  BY TicketAssumption DEF TicketAssumption, KnownInv, TicketTypeOK, NobodyAsks, Desk
<1>1. CASE ScriptRead
  <2>1. script' \in Desk
    BY <1>1 DEF ScriptRead, Desk, Unfinished, Failed
  <2> QED
    BY <1>0, <1>1, <2>1, KnownElse DEF ScriptRead, DeskInv
<1>2. CASE ScriptEnqueue
  <2>1. PICK b \in script.todo :
          /\ EnqueueTicket(b)
          /\ script' = [script EXCEPT !.todo = script.todo \ {b},
                                      !.pc = IF script.todo = {b} THEN "commit" ELSE "enqueue"]
    BY <1>2 DEF ScriptEnqueue
  <2>2. b \in Booking /\ script' \in Desk
    BY <1>0, <2>1 DEF Desk
  <2>3. queue' \subseteq Booking \X (1..MaxTries) /\ faults' \in 0..MaxFaults
    BY <1>0, <2>1, <2>2, Enqueued
  <2> QED
    BY <1>0, <1>2, <2>2, <2>3, KnownElse DEF ScriptEnqueue, DeskInv
<1>3. CASE ScriptCommit
  <2>1. rows' \in [Booking -> Row]
    BY <1>0, <1>3, KnownRows DEF ScriptCommit, Desk
  <2> QED
    BY <1>0, <1>3, <2>1, KnownElse DEF ScriptCommit, DeskInv
<1>4. CASE ScriptDies
  <2>1. faults' \in 0..MaxFaults
    BY <1>0, <1>4 DEF ScriptDies, Fault
  <2> QED
    BY <1>0, <1>4, <2>1, KnownElse DEF ScriptDies, DeskInv
<1>5. ASSUME NEW c \in Customer, NEW b \in Booking, AskRead(c, b) PROVE KnownInv'
  <2> DEFINE ask == [pc |-> "commit", todo |-> {b},
                     changed |-> IF rows[b].ticket = "pending" THEN {} ELSE {b}]
  <2>1. ask \in Desk /\ ask.todo = {b} /\ asks' = [asks EXCEPT ![c] = ask]
    BY <1>5 DEF AskRead, Desk
  <2> HIDE DEF ask
  <2>2. asks' \in [Customer -> Desk] /\ DeskInv'
    BY <1>0, <2>1 DEF DeskInv
  <2> QED
    BY <1>0, <1>5, <2>2, KnownElse DEF AskRead
<1>6. ASSUME NEW c \in Customer, AskCommit(c) PROVE KnownInv'
  <2>1. PICK b \in Booking : asks[c].todo = {b}
    BY <1>0, <1>6 DEF AskCommit, DeskInv
  <2>2. queue' \subseteq Booking \X (1..MaxTries) /\ faults' \in 0..MaxFaults
    BY <1>0, <1>6, <2>1, Enqueued DEF AskCommit
  <2>3. rows' \in [Booking -> Row]
    BY <1>0, <1>6, KnownRows DEF AskCommit, Desk
  <2>4. asks' \in [Customer -> Desk] /\ DeskInv'
    BY <1>0, <1>6 DEF AskCommit, DeskInv, NobodyAsks
  <2> QED
    BY <1>0, <1>6, <2>2, <2>3, <2>4, KnownElse DEF AskCommit
<1> QED
  BY <1>1, <1>2, <1>3, <1>4, <1>5, <1>6

LEMMA KnownGate ==
  ASSUME KnownInv, (\E t \in Token : ScanRead(t)) \/ (\E b \in Booking : ScanUpdate(b))
  PROVE  KnownInv'
<1> USE DEF rowVars, deskVars
<1>0. /\ rows \in [Booking -> Row] /\ disk \in [Booking -> Token \cup {NoToken}]
      /\ queue \subseteq Booking \X (1..MaxTries) /\ faults \in 0..MaxFaults
      /\ script \in Desk /\ asks \in [Customer -> Desk]
      /\ scans \in [Booking -> 0..MaxScans] /\ admitted \in [Booking -> Nat]
      /\ DeskInv /\ MaxScans \in Nat
  BY TicketAssumption DEF TicketAssumption, KnownInv, TicketTypeOK
<1>1. CASE \E t \in Token : ScanRead(t)
  <2>1. PICK b \in Booking : scans[b] < MaxScans /\ scans' = [scans EXCEPT ![b] = @ + 1]
    BY <1>1 DEF ScanRead
  <2>2. scans' \in [Booking -> 0..MaxScans]
    BY <1>0, <2>1
  <2> QED
    BY <1>0, <1>1, <2>2, KnownElse DEF ScanRead, DeskInv
<1>2. ASSUME NEW b \in Booking, ScanUpdate(b) PROVE KnownInv'
  <2>1. scans' \in [Booking -> 0..MaxScans]
    BY <1>0, <1>2 DEF ScanUpdate
  <2>2. rows' \in [Booking -> Row]
    <3>1. [rows EXCEPT ![b].checked_in = TRUE] \in [Booking -> Row]
      BY <1>0 DEF Row
    <3> QED
      BY <1>0, <1>2, <3>1 DEF ScanUpdate
  <2>3. admitted' \in [Booking -> Nat]
    BY <1>0, <1>2 DEF ScanUpdate
  <2> QED
    BY <1>0, <1>2, <2>1, <2>2, <2>3, KnownElse DEF ScanUpdate, DeskInv
<1> QED
  BY <1>1, <1>2

LEMMA KnownStep == KnownInv /\ [TicketNext]_vars => KnownInv'
<1> SUFFICES ASSUME KnownInv, [TicketNext]_vars PROVE KnownInv'
  OBVIOUS
<1>1. CASE UNCHANGED vars
  BY <1>1 DEF vars, rowVars, deskVars, gateVars, KnownInv, TicketTypeOK, DeskInv
<1>2. CASE TicketNext
  BY <1>2, KnownRows, KnownTake, KnownGenerate, KnownFails, KnownDesk, KnownGate
  DEF TicketNext, RunnerNext
<1> QED
  BY <1>1, <1>2

\* Whatever fails, dies or is delivered twice: rows, files, jobs, runs and
\* requests keep their types, and there is always a token to print.
THEOREM TypeCorrectness == TicketSpec => []TicketTypeOK
<1>1. KnownInv => TicketTypeOK
  BY DEF KnownInv
<1> QED
  BY <1>1, KnownInit, KnownStep, PTL DEF TicketSpec

----------------------------------------------------------------------------
(* AdmittedOnce                                                            *)

\* A gate was told to let the holder in exactly if the row says so.
GateInv == \A b \in Booking : admitted[b] = IF rows[b].checked_in THEN 1 ELSE 0

\* A step that sets other columns, or none.
LEMMA GateSame ==
  ASSUME GateInv, admitted' = admitted,
         \A b \in Booking : rows'[b].checked_in = rows[b].checked_in
  PROVE  GateInv'
BY DEF GateInv

LEMMA GateStep == KnownInv /\ GateInv /\ [TicketNext]_vars => GateInv'
<1> SUFFICES ASSUME KnownInv, GateInv, [TicketNext]_vars PROVE GateInv'
  OBVIOUS
<1> USE DEF rowVars, gateVars
<1>0. rows \in [Booking -> Row] /\ admitted \in [Booking -> Nat]
  BY DEF KnownInv, TicketTypeOK
<1>1. ASSUME NEW b \in Booking, ScanUpdate(b) PROVE GateInv'
  <2>1. CASE NotYetIn(b)
    <3>1. /\ rows'[b].checked_in = TRUE /\ admitted'[b] = admitted[b] + 1
          /\ \A x \in Booking \ {b} : rows'[x] = rows[x] /\ admitted'[x] = admitted[x]
      BY <1>0, <1>1, <2>1 DEF ScanUpdate, Row
    <3>2. admitted[b] = 0
      BY <2>1 DEF NotYetIn, GateInv
    <3> QED
      BY <3>1, <3>2 DEF GateInv
  <2>2. CASE ~NotYetIn(b)
    BY <1>1, <2>2, GateSame DEF ScanUpdate
  <2> QED
    BY <2>1, <2>2
<1>2. CASE \E b \in Booking : Book(b) \/ Cancel(b) \/ FileLost(b)
  BY <1>0, <1>2, GateSame DEF Book, Cancel, FileLost, Row
<1>3. CASE \E w \in Runner : GenerateCommit(w) \/ MarkFailed(w)
  BY <1>0, <1>3, GateSame DEF GenerateCommit, MarkFailed, Row
<1>4. ASSUME NEW B, rows' = Repended(B), admitted' = admitted PROVE GateInv'
  BY <1>0, <1>4, GateSame DEF Repended, Row
<1>5. CASE \/ UNCHANGED <<rows, admitted>>
           \/ \E w \in Runner :
                \/ StartJob(w) \/ TickRead(w) \/ TickNext(w) \/ GenerateRead(w)
                \/ SaveTicket(w) \/ GenerateFails(w) \/ RunnerDies(w)
           \/ ScriptRead \/ ScriptEnqueue \/ ScriptDies
           \/ \E c \in Customer : \E b \in Booking : AskRead(c, b)
           \/ \E t \in Token : ScanRead(t)
  BY <1>5, GateSame
  DEF StartJob, TickRead, TickNext, GenerateRead, SaveTicket, GenerateFails, RunnerDies,
      ScriptRead, ScriptEnqueue, ScriptDies, AskRead, ScanRead
<1> QED
  BY <1>1, <1>2, <1>3, <1>4, <1>5
  DEF TicketNext, RunnerNext, ScriptCommit, AskCommit, vars

\* One ticket, one entry, whatever is scanned, issued, failed, retried or
\* cancelled at the same time (check_in).
THEOREM TicketAdmitsOnce == TicketSpec => []AdmittedOnce
<1>1. TicketInit => GateInv
  BY DEF TicketInit, GateInv, NoRow
<1>2. GateInv => AdmittedOnce
  BY DEF GateInv, AdmittedOnce
<1> QED
  BY <1>1, <1>2, KnownInit, KnownStep, GateStep, PTL DEF TicketSpec

----------------------------------------------------------------------------
(* IssuedTokenStays and ReadyFileScans                                     *)

Prints(w, b) == runs[w].booking = b /\ runs[w].pc \in {"save", "commit"}

\* The only run that prints a ticket: the row has the token that is printed,
\* or none yet if the token is a new one; and once it is saved the file has it.
PrintsAlone(w, b) ==
  /\ \A v \in Runner : Prints(v, b) => v = w
  /\ IF runs[w].fresh THEN rows[b].token = NoToken ELSE runs[w].token = rows[b].token
  /\ At(w, "commit") => disk[b] \in {runs[w].token, NoToken}

\* A row that is ready has a token, and so has one of which a run has read a
\* token; runs that do not overlap print alone, and the file of a ready ticket
\* carries the row's token.
IssueInv ==
  /\ \A b \in Booking : rows[b].ticket = "ready" => rows[b].token # NoToken
  /\ \A w \in Runner : \A b \in Booking :
       Prints(w, b) => runs[w].fresh \/ rows[b].token # NoToken
  /\ \A b \in Booking \ overlapped : \A w \in Runner : Prints(w, b) => PrintsAlone(w, b)
  /\ ReadyFileScans

\* A step after which nobody prints who did not before, which makes no ticket
\* ready and leaves tokens and files as they are, but for a file that is lost.
LEMMA NothingPrinted ==
  ASSUME IssueInv,
         \A v \in Runner : runs'[v] = runs[v] \/ runs'[v].pc \notin {"save", "commit"},
         \A b \in Booking : /\ rows'[b].token = rows[b].token
                            /\ rows'[b].ticket = "ready" => rows[b].ticket = "ready"
                            /\ disk'[b] \in {disk[b], NoToken},
         overlapped' = overlapped
  PROVE  IssueInv'
<1>1. \A v \in Runner : \A b \in Booking : Prints(v, b)' => Prints(v, b) /\ runs'[v] = runs[v]
  BY DEF Prints
<1>2. ASSUME NEW b \in Booking \ overlapped, NEW w \in Runner, Prints(w, b)'
      PROVE  PrintsAlone(w, b)'
  <2>1. PrintsAlone(w, b) /\ runs'[w] = runs[w] /\ rows'[b].token = rows[b].token
        /\ disk'[b] \in {disk[b], NoToken}
    BY <1>1, <1>2 DEF IssueInv
  <2>2. \A v \in Runner : Prints(v, b)' => v = w
    BY <1>1, <2>1 DEF PrintsAlone
  <2> QED
    BY <2>1, <2>2 DEF PrintsAlone, At
<1>3. ReadyFileScans'
  BY DEF IssueInv, ReadyFileScans
<1>4. \A w \in Runner : \A b \in Booking :
        Prints(w, b)' => runs'[w].fresh \/ rows'[b].token # NoToken
  BY <1>1 DEF IssueInv
<1> QED
  BY <1>2, <1>3, <1>4 DEF IssueInv

\* A run that reads a ticket to print: it is alone, or the two overlap.
LEMMA IssueRead ==
  ASSUME KnownInv, IssueInv, NEW w \in Runner, GenerateRead(w)
  PROVE  IssueInv'
<1>b. PICK b \in Booking : b = runs[w].booking
  BY PrintedToken DEF GenerateRead
<1>0. /\ At(w, "read") /\ rows' = rows /\ disk' = disk /\ overlapped \subseteq overlapped'
      /\ RunKnown(runs[w]) /\ runs \in [Runner -> Run]
  BY DEF GenerateRead, KnownInv, TicketTypeOK
<1>1. /\ Printed(b) \in Token
      /\ rows[b].token # NoToken => Printed(b) = rows[b].token
      /\ rows[b].token = NoToken => Printed(b) # NoToken
  BY <1>b, <1>0, PrintedToken
<1>2. CASE Skips(b) /\ runs' = [runs EXCEPT ![w] = Ended(runs[w])] /\ UNCHANGED overlapped
  BY <1>0, <1>2, Ends, NothingPrinted
<1>3. CASE /\ ~Skips(b)
           /\ runs' = [runs EXCEPT ![w].pc = "save", ![w].token = Printed(b),
                                   ![w].fresh = Printed(b) # rows[b].token]
           /\ overlapped' = IF \E v \in Runner \ {w} : Prints(v, b)
                            THEN overlapped \cup {b} ELSE overlapped
  <2> DEFINE fresh == Printed(b) # rows[b].token
  <2>0. fresh \in BOOLEAN /\ (fresh <=> Printed(b) # rows[b].token)
    OBVIOUS
  <2>1. /\ \A v \in Runner \ {w} : runs'[v] = runs[v]
        /\ runs'[w].booking = b /\ runs'[w].pc = "save"
        /\ runs'[w].token = Printed(b) /\ runs'[w].fresh = fresh
    BY <1>b, <1>0, <1>3 DEF Run
  <2> HIDE DEF fresh
  <2>2. rows[b].ticket # "ready"
    BY <1>1, <1>3 DEF Skips, IssueInv
  <2>3. ASSUME NEW v \in Runner, NEW x \in Booking, Prints(v, x)'
        PROVE  runs'[v].fresh \/ rows'[x].token # NoToken
    <3>1. CASE v = w
      BY <1>0, <1>1, <2>0, <2>1, <2>3, <3>1 DEF Prints
    <3>2. CASE v # w
      BY <1>0, <2>1, <2>3, <3>2 DEF Prints, IssueInv
    <3> QED
      BY <3>1, <3>2
  <2>4. ASSUME NEW x \in Booking \ overlapped', NEW v \in Runner, Prints(v, x)'
        PROVE  PrintsAlone(v, x)'
    <3>1. CASE x = b
      <4>0. \A u \in Runner \ {w} : ~Prints(u, b)
        BY <1>3, <2>4, <3>1
      <4>1. \A u \in Runner \ {w} : ~Prints(u, b)'
        BY <2>1, <4>0 DEF Prints
      <4>2. v = w
        BY <2>4, <3>1, <4>1
      <4> QED
        BY <1>0, <1>1, <2>0, <2>1, <3>1, <4>1, <4>2 DEF PrintsAlone, At
    <3>2. CASE x # b
      <4>1. v # w /\ \A u \in Runner : Prints(u, x)' => Prints(u, x)
        BY <2>1, <2>4, <3>2 DEF Prints
      <4>2. PrintsAlone(v, x)
        BY <1>0, <2>4, <4>1 DEF IssueInv
      <4> QED
        BY <1>0, <2>1, <4>1, <4>2 DEF PrintsAlone, At
    <3> QED
      BY <3>1, <3>2
  <2>5. ReadyFileScans'
    BY <1>0 DEF IssueInv, ReadyFileScans
  <2> QED
    BY <1>0, <2>3, <2>4, <2>5 DEF IssueInv
<1> QED
  BY <1>b, <1>2, <1>3 DEF GenerateRead, Prints

\* The file is overwritten: by the token of the row, if that is ready.
LEMMA IssueSave ==
  ASSUME KnownInv, IssueInv, NEW w \in Runner, SaveTicket(w)
  PROVE  IssueInv'
<1>b. PICK b \in Booking : b = runs[w].booking
  BY DEF SaveTicket, At, KnownInv, RunKnown
<1>1. /\ RunKnown(runs[w]) /\ runs \in [Runner -> Run]
      /\ disk \in [Booking -> Token \cup {NoToken}]
  BY DEF KnownInv, TicketTypeOK
<1>2. /\ At(w, "save") /\ Prints(w, b)
      /\ rows' = rows /\ overlapped' = overlapped
      /\ disk'[b] = runs[w].token /\ \A x \in Booking \ {b} : disk'[x] = disk[x]
      /\ \A v \in Runner \ {w} : runs'[v] = runs[v]
      /\ runs'[w].booking = b /\ runs'[w].pc = "commit"
      /\ runs'[w].token = runs[w].token /\ runs'[w].fresh = runs[w].fresh
  BY <1>b, <1>1 DEF SaveTicket, Prints, At, RunKnown, Run
<1>3. \A v \in Runner : \A x \in Booking : Prints(v, x)' <=> Prints(v, x)
  BY <1>2 DEF Prints, At
<1>4. ASSUME NEW x \in Booking \ overlapped, NEW v \in Runner, Prints(v, x)'
      PROVE  PrintsAlone(v, x)'
  <2>1. PrintsAlone(v, x)
    BY <1>3, <1>4 DEF IssueInv
  <2>2. x = b => v = w
    BY <1>2, <2>1 DEF PrintsAlone
  <2>3. v = w => x = b
    BY <1>2, <1>3, <1>4 DEF Prints
  <2> QED
    BY <1>2, <1>3, <2>1, <2>2, <2>3 DEF PrintsAlone, At
<1>5. ReadyFileScans'
  <2>1. ASSUME NEW x \in Booking \ overlapped, rows[x].ticket = "ready"
        PROVE  disk'[x] \in {rows[x].token, NoToken}
    <3>1. CASE x = b
      <4>1. PrintsAlone(w, b) /\ rows[b].token # NoToken
        BY <1>2, <2>1, <3>1 DEF IssueInv
      <4> QED
        BY <1>2, <3>1, <4>1 DEF PrintsAlone
    <3>2. CASE x # b
      BY <1>2, <2>1, <3>2 DEF IssueInv, ReadyFileScans
    <3> QED
      BY <3>1, <3>2
  <2> QED
    BY <1>2, <2>1 DEF ReadyFileScans
<1>6. ASSUME NEW v \in Runner, NEW x \in Booking, Prints(v, x)'
      PROVE  runs'[v].fresh \/ rows'[x].token # NoToken
  BY <1>2, <1>3, <1>6 DEF IssueInv
<1> QED
  BY <1>2, <1>4, <1>5, <1>6 DEF IssueInv

\* The row becomes ready with the token of the run, which is the one in the
\* file unless another run wrote to it.
LEMMA IssueCommit ==
  ASSUME KnownInv, IssueInv, NEW w \in Runner, GenerateCommit(w)
  PROVE  /\ IssueInv'
         /\ \A b \in Booking \ overlapped :
              rows[b].token # NoToken => rows'[b].token = rows[b].token
<1>b. PICK b \in Booking : b = runs[w].booking
  BY DEF GenerateCommit, At, KnownInv, RunKnown
<1>1. /\ RunKnown(runs[w]) /\ runs \in [Runner -> Run] /\ rows \in [Booking -> Row]
  BY DEF KnownInv, TicketTypeOK
<1>2. /\ At(w, "commit") /\ Prints(w, b) /\ runs[w].token # NoToken
      /\ disk' = disk /\ overlapped' = overlapped
      /\ rows'[b].token = IF runs[w].fresh THEN runs[w].token ELSE rows[b].token
      /\ \A x \in Booking \ {b} : rows'[x] = rows[x]
      /\ \A v \in Runner \ {w} : runs'[v] = runs[v]
      /\ runs'[w].pc \in {"idle", "next"}
  BY <1>b, <1>1, Ends DEF GenerateCommit, Prints, At, RunKnown, Row
<1>3. \A v \in Runner : \A x \in Booking : Prints(v, x)' => v # w /\ Prints(v, x)
  BY <1>2 DEF Prints
<1>4. \A x \in Booking : rows[x].token # NoToken => rows'[x].token # NoToken
  BY <1>2
<1>5. rows'[b].token # NoToken
  BY <1>2 DEF IssueInv
<1>6. ASSUME b \notin overlapped
      PROVE  /\ rows'[b].token = runs[w].token /\ disk[b] \in {runs[w].token, NoToken}
             /\ \A v \in Runner : ~Prints(v, b)'
             /\ rows[b].token # NoToken => rows'[b].token = rows[b].token
  <2>1. PrintsAlone(w, b)
    BY <1>2, <1>6 DEF IssueInv
  <2> QED
    BY <1>2, <1>3, <2>1 DEF PrintsAlone
<1>7. ASSUME NEW x \in Booking \ overlapped, NEW v \in Runner, Prints(v, x)'
      PROVE  PrintsAlone(v, x)'
  <2>1. x # b /\ v # w
    BY <1>3, <1>6, <1>7
  <2>2. PrintsAlone(v, x)
    BY <1>3, <1>7 DEF IssueInv
  <2> QED
    BY <1>2, <1>3, <2>1, <2>2 DEF PrintsAlone, At
<1>8. ReadyFileScans'
  BY <1>2, <1>6 DEF IssueInv, ReadyFileScans
<1>9. ASSUME NEW v \in Runner, NEW x \in Booking, Prints(v, x)'
      PROVE  runs'[v].fresh \/ rows'[x].token # NoToken
  BY <1>2, <1>3, <1>4, <1>9 DEF IssueInv
<1>10. \A x \in Booking : rows'[x].ticket = "ready" => rows'[x].token # NoToken
  BY <1>2, <1>5 DEF IssueInv
<1>11. IssueInv'
  BY <1>2, <1>7, <1>8, <1>9, <1>10 DEF IssueInv
<1> QED
  BY <1>2, <1>6, <1>11

\* A step that prints nothing, in the terms of NothingPrinted.
QuietRuns == \A v \in Runner : runs'[v] = runs[v] \/ runs'[v].pc \notin {"save", "commit"}
QuietRows ==
  /\ \A b \in Booking : /\ rows'[b].token = rows[b].token
                        /\ rows'[b].ticket = "ready" => rows[b].ticket = "ready"
                        /\ disk'[b] \in {disk[b], NoToken}
  /\ overlapped' = overlapped

LEMMA QuietRun ==
  ASSUME KnownInv, NEW w \in Runner, NEW run, runs' = [runs EXCEPT ![w] = run],
         run.pc \notin {"save", "commit"}
  PROVE  QuietRuns
BY DEF KnownInv, TicketTypeOK, QuietRuns

LEMMA QuietRunner ==
  ASSUME KnownInv, NEW w \in Runner,
         \/ StartJob(w) \/ TickRead(w) \/ TickNext(w)
         \/ GenerateFails(w) \/ RunnerDies(w) \/ MarkFailed(w)
  PROVE  QuietRuns /\ QuietRows
<1>0. /\ runs \in [Runner -> Run] /\ rows \in [Booking -> Row]
      /\ RunKnown(runs[w]) /\ Ended(runs[w]).pc \in {"idle", "next"}
  BY Ends DEF KnownInv, TicketTypeOK
<1>1. CASE MarkFailed(w)
  <2>1. \A b \in Booking : rows'[b].token = rows[b].token
                           /\ (rows'[b].ticket = "ready" => rows[b].ticket = "ready")
    BY <1>0, <1>1 DEF MarkFailed, Row
  <2>2. runs' = [runs EXCEPT ![w] = Idle] /\ disk' = disk /\ overlapped' = overlapped
    BY <1>1 DEF MarkFailed
  <2> QED
    BY <1>0, <2>1, <2>2 DEF QuietRows, QuietRuns, Idle
<1>2. CASE \/ StartJob(w) \/ TickRead(w) \/ TickNext(w) \/ GenerateFails(w) \/ RunnerDies(w)
  <2>1. rows' = rows /\ disk' = disk /\ overlapped' = overlapped
    BY <1>2
    DEF StartJob, TickRead, TickNext, GenerateFails, RunnerDies, rowVars
  <2>2. QuietRows
    BY <2>1 DEF QuietRows
  <2>3. CASE StartJob(w)
    <3>1. PICK job \in queue :
            runs' = [runs EXCEPT ![w] = [Idle EXCEPT !.pc = "read", !.booking = job[1],
                                                     !.attempt = job[2]]]
      BY <2>3 DEF StartJob
    <3>2. [Idle EXCEPT !.pc = "read", !.booking = job[1], !.attempt = job[2]].pc = "read"
      BY DEF Idle
    <3> QED
      BY <2>2, <3>1, <3>2, QuietRun
  <2>4. CASE TickRead(w)
    <3>1. PICK todo : runs' = [runs EXCEPT ![w] = [Idle EXCEPT !.pc = "next", !.todo = todo]]
      BY <2>4 DEF TickRead
    <3>2. [Idle EXCEPT !.pc = "next", !.todo = todo].pc = "next"
      BY DEF Idle
    <3> QED
      BY <2>2, <3>1, <3>2, QuietRun
  <2>5. CASE TickNext(w)
    <3>1. PICK b : runs' = [runs EXCEPT ![w] = [runs[w] EXCEPT !.pc = "read", !.booking = b,
                                                               !.todo = runs[w].todo \ {b}]]
      BY <1>0, <2>5 DEF TickNext
    <3>2. [runs[w] EXCEPT !.pc = "read", !.booking = b, !.todo = runs[w].todo \ {b}].pc = "read"
      BY <1>0 DEF Run
    <3> QED
      BY <2>2, <3>1, <3>2, QuietRun
  <2>6. CASE GenerateFails(w) \/ RunnerDies(w)
    <3> DEFINE mark == [Idle EXCEPT !.pc = "mark", !.booking = runs[w].booking,
                                    !.attempt = MaxTries]
    <3>1. \E run \in {Idle, Ended(runs[w]), mark} : runs' = [runs EXCEPT ![w] = run]
      BY <1>0, <2>6 DEF GenerateFails, RunnerDies
    <3>2. mark.pc = "mark" /\ Idle.pc = "idle"
      BY DEF Idle
    <3> HIDE DEF mark
    <3> QED
      BY <1>0, <2>2, <3>1, <3>2, QuietRun
  <2> QED
    BY <1>2, <2>2, <2>3, <2>4, <2>5, <2>6
<1> QED
  BY <1>1, <1>2

LEMMA QuietElse ==
  ASSUME KnownInv,
         \/ UNCHANGED vars
         \/ \E b \in Booking : Book(b) \/ Cancel(b) \/ FileLost(b)
         \/ ScriptRead \/ ScriptEnqueue \/ ScriptCommit \/ ScriptDies
         \/ \E c \in Customer : AskCommit(c) \/ \E b \in Booking : AskRead(c, b)
         \/ \E t \in Token : ScanRead(t)
         \/ \E b \in Booking : ScanUpdate(b)
  PROVE  QuietRuns /\ QuietRows
<1> USE DEF rowVars
<1>0. rows \in [Booking -> Row] /\ disk \in [Booking -> Token \cup {NoToken}]
  BY DEF KnownInv, TicketTypeOK
<1>1. runs' = runs /\ overlapped' = overlapped
  BY DEF vars, Book, Cancel, FileLost, ScriptRead, ScriptEnqueue, ScriptCommit, ScriptDies,
         AskCommit, AskRead, ScanRead, ScanUpdate
<1>2. ASSUME UNCHANGED <<rows, disk>> PROVE QuietRows
  <2>1. rows' = rows /\ disk' = disk
    BY <1>2
  <2> QED
    BY <1>1, <2>1 DEF QuietRows
<1>3. ASSUME NEW b \in Booking, Book(b) \/ Cancel(b) \/ FileLost(b) PROVE QuietRows
  <2>1. CASE FileLost(b)
    <3>1. rows' = rows /\ \A x \in Booking : disk'[x] \in {disk[x], NoToken}
      BY <1>0, <2>1 DEF FileLost
    <3> QED
      BY <1>1, <3>1 DEF QuietRows
  <2>2. CASE Book(b) \/ Cancel(b)
    <3>1. /\ disk' = disk
          /\ \/ rows' = [rows EXCEPT ![b].status = "confirmed"]
             \/ rows' = [rows EXCEPT ![b].status = "cancelled"]
      BY <2>2 DEF Book, Cancel
    <3>2. \A x \in Booking : rows'[x].token = rows[x].token /\ rows'[x].ticket = rows[x].ticket
      BY <1>0, <3>1 DEF Row
    <3> QED
      BY <1>1, <3>1, <3>2 DEF QuietRows
  <2> QED
    BY <1>3, <2>1, <2>2
<1>4. ASSUME NEW B, rows' = Repended(B), disk' = disk PROVE QuietRows
  BY <1>0, <1>1, <1>4 DEF QuietRows, Repended, Row
<1>5. ASSUME NEW b \in Booking, ScanUpdate(b) PROVE QuietRows
  <2>1. rows' = rows \/ rows' = [rows EXCEPT ![b].checked_in = TRUE]
    BY <1>5 DEF ScanUpdate
  <2>2. \A x \in Booking : rows'[x].token = rows[x].token /\ rows'[x].ticket = rows[x].ticket
    BY <1>0, <2>1 DEF Row
  <2> QED
    BY <1>1, <1>5, <2>2 DEF QuietRows, ScanUpdate
<1>6. QuietRows
  BY <1>2, <1>3, <1>4, <1>5
  DEF vars, ScriptRead, ScriptEnqueue, ScriptCommit, ScriptDies, AskCommit, AskRead, ScanRead
<1> QED
  BY <1>1, <1>6 DEF QuietRuns

LEMMA IssueStep ==
  ASSUME KnownInv, IssueInv, [TicketNext]_vars
  PROVE  /\ IssueInv'
         /\ \A b \in Booking \ overlapped :
              rows[b].token # NoToken => rows'[b].token = rows[b].token
<1>1. CASE QuietRuns /\ QuietRows
  BY <1>1, NothingPrinted DEF QuietRuns, QuietRows
<1>2. CASE \E w \in Runner : GenerateRead(w) \/ SaveTicket(w)
  BY <1>2, IssueRead, IssueSave DEF GenerateRead, SaveTicket
<1>3. CASE \E w \in Runner : GenerateCommit(w)
  BY <1>3, IssueCommit
<1> QED
  BY <1>1, <1>2, <1>3, QuietRunner, QuietElse DEF TicketNext, RunnerNext

LEMMA IssueInit == TicketInit => IssueInv
BY DEF TicketInit, IssueInv, Prints, ReadyFileScans, NoRow, Idle

\* A token that was issued stays the token of its ticket, however often its job
\* is delivered, retried, failed or queued again, unless two of its runs overlap
\* (generate_ticket_sync).
THEOREM IssuedTokensStay == TicketSpec => IssuedTokenStays
<1>1. KnownInv /\ IssueInv /\ [TicketNext]_vars =>
        [\A b \in Booking \ overlapped :
           rows[b].token # NoToken => rows'[b].token = rows[b].token]_vars
  BY IssueStep
<1>2. KnownInv /\ IssueInv /\ [TicketNext]_vars => IssueInv'
  BY IssueStep
<1> QED
  BY <1>1, <1>2, KnownInit, KnownStep, IssueInit, PTL DEF TicketSpec, IssuedTokenStays

\* The file of a ready ticket carries the token the gate looks up, whatever dies
\* between the save and the commit, unless two of its runs overlapped
\* (generate_ticket_sync).
THEOREM FilesScan == TicketSpec => []ReadyFileScans
<1>1. IssueInv => ReadyFileScans
  BY DEF IssueInv
<1>2. KnownInv /\ IssueInv /\ [TicketNext]_vars => IssueInv'
  BY IssueStep
<1> QED
  BY <1>1, <1>2, KnownInit, KnownStep, IssueInit, PTL DEF TicketSpec
=============================================================================

----------------------------- MODULE Admission ------------------------------
(***************************************************************************)
(* What a request has to get hold of in one API process: a slot of the     *)
(* semaphore in main.py, a thread for each synchronous call, and a         *)
(* connection of the pool in core/database.py, which it keeps from its     *)
(* first query until it is answered.  The authentication of a WebSocket    *)
(* passes by the semaphore and queries from the event loop, which it       *)
(* blocks, so that there is never more than one.                           *)
(***************************************************************************)
EXTENDS Naturals, FiniteSets

CONSTANTS
  Req,            \* requests
  MaxConcurrent,  \* MAX_CONCURRENT_REQUESTS
  Threads,        \* total_tokens of the thread limiter
  Pool            \* DB_POOL_SIZE + DB_MAX_OVERFLOW

\* core/config.py:29 states the invariant that relates the two.
ASSUME AdmissionAssumption ==
  /\ MaxConcurrent \in Nat \ {0} /\ Threads \in Nat \ {0} /\ Pool \in Nat
  /\ MaxConcurrent < Pool

VARIABLES
  slots,     \* requests that hold a slot
  threads,   \* requests that run on a thread
  conns,     \* requests that hold a connection
  socket     \* a WebSocket is being authenticated, on a connection

admissionVars == <<slots, threads, conns, socket>>

AdmissionTypeOK ==
  /\ slots \subseteq Req /\ threads \subseteq slots /\ conns \subseteq slots
  /\ socket \in BOOLEAN
  /\ Cardinality(threads) <= Threads

AdmissionInit == slots = {} /\ threads = {} /\ conns = {} /\ socket = FALSE

----------------------------------------------------------------------------

\* Mutant: the semaphore is not there.
AdmitAnyway(r) ==
  /\ r \notin slots
  /\ slots' = slots \cup {r}
  /\ UNCHANGED <<threads, conns, socket>>

Admit(r) ==
  /\ r \notin slots /\ Cardinality(slots) < MaxConcurrent
  /\ slots' = slots \cup {r}
  /\ UNCHANGED <<threads, conns, socket>>

TakeThread(r) ==
  /\ r \in slots \ threads /\ Cardinality(threads) < Threads
  /\ threads' = threads \cup {r}
  /\ UNCHANGED <<slots, conns, socket>>

LeaveThread(r) == threads' = threads \ {r} /\ UNCHANGED <<slots, conns, socket>>

InUse == Cardinality(conns) + (IF socket THEN 1 ELSE 0)

\* The first query.  A request that finds the pool empty blocks its thread,
\* and gives up with an error after pool_timeout.
Connect(r) ==
  /\ r \in threads \ conns /\ InUse < Pool
  /\ conns' = conns \cup {r}
  /\ UNCHANGED <<slots, threads, socket>>

Leave(r) ==
  /\ r \in slots \ threads
  /\ slots' = slots \ {r} /\ conns' = conns \ {r}
  /\ UNCHANGED <<threads, socket>>

\* Mutant: an abandoned request keeps its slot.
VanishKeepsSlot(r) ==
  /\ threads' = threads \ {r} /\ conns' = conns \ {r}
  /\ UNCHANGED <<slots, socket>>

\* A process that dies mid-request.
Vanish(r) ==
  /\ slots' = slots \ {r} /\ threads' = threads \ {r} /\ conns' = conns \ {r}
  /\ UNCHANGED socket

SocketOpens ==
  /\ ~socket /\ InUse < Pool
  /\ socket' = TRUE /\ UNCHANGED <<slots, threads, conns>>

SocketCloses == socket /\ socket' = FALSE /\ UNCHANGED <<slots, threads, conns>>

----------------------------------------------------------------------------

\* The pool never makes anybody wait: while a request on a thread still needs
\* its connection, or a WebSocket may come, one is free.  The semaphore is
\* there for this, the comment in main.py says what happened without it.
NobodyWaitsForConnection ==
  /\ \A r \in threads \ conns : InUse < Pool
  /\ ~socket => InUse < Pool
=============================================================================

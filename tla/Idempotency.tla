---------------------------- MODULE Idempotency -----------------------------
(***************************************************************************)
(* core/idempotency.py: the Redis entries of a user's Idempotency-Keys.  A *)
(* result is kept for a day, beyond what is modelled; a placeholder may    *)
(* expire, which the module that uses this one decides on.                 *)
(***************************************************************************)
CONSTANTS
  Response, \* bodies of responses: the bookings they show
  Key,      \* idempotency keys
  Payload,  \* request bodies
  NoKey     \* a request without the header

VARIABLE idem   \* per key: its entry

\* fp is the fingerprint of the body; booking the one the stored
\* response shows.
Entry == [state: {"none", "processing", "done"}, fp: Payload \cup {NoKey},
          booking: Response \cup {NoKey}]
NoEntry == [state |-> "none", fp |-> NoKey, booking |-> NoKey]
Processing(p) == [state |-> "processing", fp |-> p, booking |-> NoKey]
Stored(p, b) == [state |-> "done", fp |-> p, booking |-> b]

IdemTypeOK == idem \in [Key -> Entry]

IdemInit == idem = [k \in Key |-> NoEntry]

\* begin: SET NX of the placeholder.
ClaimKey(k, p) ==
  /\ idem[k].state = "none"
  /\ idem' = [idem EXCEPT ![k] = Processing(p)]

\* begin: the GET after a SET NX that failed.  "new" is an entry that has
\* vanished since: the request goes on, without a claim.
\* Mutant: the fingerprint is not compared.
VerdictUnchecked(k, p) ==
  CASE idem[k].state = "none"       -> "new"
    [] idem[k].state = "processing" -> "processing"
    [] OTHER                        -> "replayed"

Verdict(k, p) ==
  CASE idem[k].state = "none"       -> "new"
    [] idem[k].state # "none" /\ idem[k].fp # p -> "mismatch"
    [] idem[k].state = "processing" /\ idem[k].fp = p -> "processing"
    [] OTHER                        -> "replayed"

\* complete and abort do not look at what the entry holds; without a key they
\* do nothing.
Complete(k, p, b) ==
  idem' = IF k = NoKey THEN idem ELSE [idem EXCEPT ![k] = Stored(p, b)]

Abort(k) == idem' = IF k = NoKey THEN idem ELSE [idem EXCEPT ![k] = NoEntry]
=============================================================================

----------------------------- MODULE GroupDeal -----------------------------
(***************************************************************************)
(* What buying seats as a group promises: all or nothing.  A deal is       *)
(* decided once; when it is made, every seat of it is booked at once and   *)
(* had been paid for; when it breaks, nobody is left who has paid.         *)
(***************************************************************************)
CONSTANTS Group, Seat

VARIABLES
  outcome,  \* per deal: "none", "collecting", "made" or "broken"
  members,  \* the seats of the deal
  paid,     \* seats whose share counts as paid
  booked    \* seats the deal has booked

dealVars == <<outcome, members, paid, booked>>

DealInit ==
  /\ outcome = [g \in Group |-> "none"]
  /\ members = [g \in Group |-> {}]
  /\ paid = [g \in Group |-> {}]
  /\ booked = [g \in Group |-> {}]

Decide(g, from, to) ==
  outcome[g] = from /\ outcome' = [outcome EXCEPT ![g] = to]

Open(g) ==
  /\ Decide(g, "none", "collecting")
  /\ \E S \in (SUBSET Seat) \ {{}} : members' = [members EXCEPT ![g] = S]
  /\ UNCHANGED <<paid, booked>>

Pay(g) ==
  /\ outcome[g] = "collecting"
  /\ \E s \in members[g] \ paid[g] : paid' = [paid EXCEPT ![g] = @ \cup {s}]
  /\ UNCHANGED <<outcome, members, booked>>

Make(g) ==
  /\ paid[g] = members[g]
  /\ Decide(g, "collecting", "made")
  /\ booked' = [booked EXCEPT ![g] = members[g]]
  /\ UNCHANGED <<members, paid>>

Break(g) ==
  /\ Decide(g, "collecting", "broken")
  /\ paid' = [paid EXCEPT ![g] = {}]
  /\ UNCHANGED <<members, booked>>

\* What becomes of the money of a deal that was made is not part of it.
Afterwards(g) ==
  /\ outcome[g] = "made"
  /\ \E S \in SUBSET paid[g] : paid' = [paid EXCEPT ![g] = S]
  /\ UNCHANGED <<outcome, members, booked>>

DealNext == \E g \in Group : Open(g) \/ Pay(g) \/ Make(g) \/ Break(g) \/ Afterwards(g)

DealSpec == DealInit /\ [][DealNext]_dealVars
=============================================================================
